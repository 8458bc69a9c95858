# A TLA+ verification of dls2

dls2 is a framework for legged robots: a node starts *layers*, layers start
*components* (controllers, motion generators, estimators, hardware), every one
of them a process, and the processes talk through DDS. This directory models
the parts of it where several threads or processes meet, checks them with TLC
and proves the most important safety properties with TLAPS.

Paths below are relative to `src/modules/` unless they start with `src/`.

- [1. The system](#1-the-system): inventory of components
- [2. The plan](#2-the-plan): the modules, in the order of their importance
- [3. The modules](#3-the-modules-and-the-code): how they correspond to the code
- [4. The runs](#4-the-runs): what is checked, bounds, fairness
- [5. The proofs](#5-the-proofs)
- [6. Where code and documents disagree](#6-where-code-and-documents-disagree)
- [7. What is not modelled](#7-what-is-not-modelled)

## 1. The system

### 1.1 How the parts interact

```
 user ── SIGINT, console commands (DDS) ──┐
                                          v
 dls_framework (RunDLS2) ── starts, signals ──> discovery servers
        │ starts, activates, signals
        v
 child_process_launcher, one per layer ── App::execute ── StateMachine
        │ the control layer starts controllers and generators
        v
 child_process_launcher, one per component ── PeriodicApp::run
```

Inside one process the threads are: the *activity* thread (`App::execute`, the
activities of the state machine), the *monitor* (`App::monitorApp`), one thread
per console command that is called (a DDS reader's callback), the *level
watcher* of the command manager, the worker of the shutdown signal, and the
signal handlers that interrupt any of them. They share the state machine's
flags, the level, and the flags of the monitor, some of them under mutexes, some
as atomics, some as neither.

### 1.2 Components

| component | state it keeps | operations | what is hard | what makes it correct |
|---|---|---|---|---|
| State machine (`state_machine/`) | current and desired state, one flag per asynchronous event, a condition variable | `raiseEvent`, `nextState`, `consumeEvent`, `waitAsynchEvent`, `stop` | an event is looked up, published and stored in three steps, on threads that hold no common lock | requests are served along the table, are not lost, do not outlive the state they were meant for |
| Commands (`command/`) | level, enabled and active commands, watcher; what was discovered of other components | enable, call, change the level, shut down; find, list, call another's command | calls overlap, the watcher creates readers while others change the level; readers appear and vanish in their own time | a command is callable exactly at the levels of its transition set; a call reaches its owner, once |
| App (`application/app.*`) | life cycle, `should_quit`, `can_die`, monitor | activities, `stop`, the handshake of `quit()` | four threads must end in one order, each waiting for another | the life cycle of the documentation; the shutdown ends, in order |
| Periodic app (`application/periodic_app.*`) | paused, failed | `run`, `deactivating`, pause, continue | polls requests between cycles | a request to quit is noticed |
| Scheduler utilities (`application/sched_utils.*`) | the next wake-up, the time factor | `executeEndLoopTask`, policies | missed periods, a factor that changes | the phase is kept |
| Layer (`application/layer.*`) | what it has loaded | `run`, `checkAppData` | several deaths in one scan; nobody scans while it is idle | a death is reported by an active layer |
| Control layer (`core_framework/control_layer.*`) | two maps of processes, four mutexes, `closing_`, gather threads | load and unload of native, external and Python controllers and of generators, close, gather and aggregate signals | locks are dropped while a process is asked to stop; the level is changed apart from the map; a gather thread may outlive its activation | every process has an owner; nothing is left after close; a signal is the aggregate of one round |
| Estimation, hardware, service layer, supervisor | a map of processes | load, unload, monitor, close | the same without locks, every command on a thread of its own; the level is the component's, which other commands change | what was unloaded is gone; an unload takes the level back only when its map is empty; only races on one name lose a process |
| Event log (`log/`) | entries under a mutex, the spam filter, a circular buffer and its index | `AppLogger`, `notify`, callback, `readEvents` | the buffer is written and read without a lock; its capacity | one order of entries; only repetitions are held back; reads are faithful |
| Orchestrator (`supervisor/orchestrator_base.*`) | a queue of events by severity, a telemetry thread | activate, run, telemetry, quit | the queue is filled and copied by two threads | the worst event is shown |
| Services, parameters (`service/`, `parameter_server/`) | the last answer; a table | timed and untimed calls; get and set | an answer that is late, early or another client's | an answer tells what the store holds; a timed call returns |
| State machine watcher (`state_machine/`) | last state of each component | callback, waits | an old state; waits that are cancelled; two components of one name | a wait that says yes saw the state |
| Framework node (`main/run_dls2.*`) | two maps of processes, `should_quit` | start-up, the loop over the layers, shutdown | quit comes in any wait; processes die or hang | it ends, leaves nothing behind, or says so; what it waited for has happened |
| Owned processes (`utils/owned_process.hpp`) | leader, group | `running`, `signal`, `shutdownProcesses` | orphans, zombies, groups whose leader is gone | a group counts as running until it is gone |
| Shutdown signal (`utils/shutdown_signal.hpp`) | a pipe, a counter of handlers, a worker | constructor, handler, worker, destructor | asynchronous signals against the destructor | no signal lost, no write to a closed pipe |
| Child process launcher (`child_process/`) | the component, the signal's object | load, execute, callback | a signal before the component can take it | the component is asked once it can be |
| Resource monitors (`utils/*_resource_monitor.*`) | samples of `/proc`, windows | `monitor`, `update`, `checkHardware` | files that cannot be read in some rounds, lines that appear | events follow what was measured |
| Topic monitor (`plugin/`) | what is known of each input, checks by index | `init`, `childMonitor` | works on a copy while inputs are added and the readers, which it shares, go on | every input known is watched |
| Poses (`utils/pose.*`) | position and orientation under a mutex | set, convert, copy, subtract | two poses locked in turn, one operation without lock | operations are atomic |
| Moving window, profiler (`utils/`) | a circular window, running sums | push, mean, extrema; tic, toc | the index, removal of the oldest | equals the definition over the last n values |
| Rotations (`math/rotations.hpp`) | none | conversions, errors, rates | gimbal lock, half turns, conventions | the representations agree |
| Log layer, console, options, plugins, bindings, motion generator, profiles | files, lines, messages | forwarding, parsing, printing | none that is state | |

`PROJECT.json` lists the sources of each and, under `hazards`, the places where
this code is hard to test and the properties that watch over them.

## 2. The plan

In the order of importance; a later module uses the earlier ones only where it
says so. All of it is written.

1. `StateMachine`, `CommandManager`, composed by `App`, extended by
   `PeriodicApp`; the abstract specification `AppLifecycle`; proofs in
   `PeriodicAppProofs`.
2. `ControlLayer`, proofs in `ControlLayerProofs`; its gather threads and the
   aggregation in `SignalGather`.
3. `ShutdownSignal`, used by `ChildProcess`; proofs in `LibraryProofs`.
4. `OwnedProcess`, used by `Framework`; proofs in `FrameworkProofs`.
5. `Service` (clients, middleware, server and store); the abstract specification
   `AtomicStore`; proofs in `ServiceProofs`.
6. `EventLog` (logger, filter, topic, listener), composed with the orchestrator
   by `Orchestrator`; proofs in `OrchestratorProofs`.
7. `LayerTables`: the layers that load without locks, and the supervisor's map;
   proofs in `LayerTablesProofs`.
8. `Components`, `CommandDirectory` and `StateWatcher` (what a component sees of
   the others), composed with the framework's, the supervisor's and the console's
   procedures by `Startup`; proofs in `StartupProofs`.
9. The parts that meet no other: `Rotations` on `Linear`, `MovingWindow` with
   `Profiler` and `ResourceMonitors` on it, `Pose`, `TopicMonitor`,
   `SchedulerUtils`; proofs in `LibraryProofs`, those about `SignalGather` with
   them, and those about `Rotations`, which controllers compute with, in
   `ControlLayerProofs`.

What would add most to it, should the code change or the project grow: the
control layer's gather thread together with its maps, which `SignalGather` and
`ControlLayer` treat apart; more of `Framework` and `Startup` as one system, so
that a component may die of a shutdown that overlaps a start-up; and `Rotations`
for other rotations than those of the cube.

## 3. The modules and the code

| module | models | actions |
|---|---|---|
| `StateMachine` | `state_machine.cpp` | `raiseEvent` in three steps (`RaiseLookup`, `RaiseDesire`, `RaiseStore`), `nextState`, `consumeEvent`, `waitAsynchEvent` as test, block, sleep |
| `CommandManager` | `command_manager.cpp`, `command.tpp`, `command_base.cpp` | enabling and disabling, registration, calls in two steps (level read, level changed), the watcher and its hand-shake, `shutdown` |
| `App` | `app.cpp`, `app_state_machine.cpp` | each activity, `monitorApp`, `stop()` and the handshake, destruction |
| `PeriodicApp` | `periodic_app.cpp` | `run()`, `deactivating()`, `close()`, pause and continue, failure |
| `AppLifecycle` | the promise of `src/doc/Application.md`, which `PeriodicApp` implements | one action per kind of edge |
| `ControlLayer` | `control_layer.cpp.in` | each command in the steps its locks leave open; `close()`; exits of processes |
| `SignalGather` | `control_layer.cpp.in` (`controlSignalGather`) | activation, requests and their consumption; a round as start, one read per controller, publication |
| `ShutdownSignal` | `shutdown_signal.hpp` | every atomic access and system call of handler, worker, constructor and destructor |
| `ChildProcess` | `child_process_launcher.cpp.in` | `main()` and the callback, the component abstracted to its state |
| `OwnedProcess` | `owned_process.hpp` and the operating system | launch, `running()`, exits and forks |
| `Framework` | `run_dls2.cpp.in`, `shutdownProcesses` | start-up, the loop, escalation, detaching |
| `Service` | `service_client.tpp`, `service_server.tpp`, `parameter_server.cpp`, `parameter_client.cpp` | a call as request, wait, answer, time-out and return; the handler in two steps; losses and spurious wake-ups |
| `AtomicStore` | the promise of the parameter store, which `Service` implements | put, write (which may update or keep what exists), read |
| `EventLog` | `app_logger.cpp`, `event_logger.cpp` | an entry in its three outputs; the callback's push and index; a read, element by element |
| `Orchestrator` | `orchestrator_base.cpp` | activation and end, run, telemetry |
| `LayerTables` | `estimation_layer.cpp`, `hardware_layer.cpp.in`, `service_layer.cpp`, `supervisor.cpp`, `layer.tpp`, `app_data.cpp` | load and unload in the steps other threads can see; activation, and scans while active; close; the level as the map's own and all other commands change it; deaths |
| `CommandDirectory` | `command_manager.cpp`, `command_without_args.cpp`, `command.tpp` and discovery by DDS | find, list, call, send; readers discovered, matched, gone; delivery |
| `StateWatcher` | `state_machine_watcher.cpp` and its subscriber | publication, reception, `findState` |
| `Startup` | `run_dls2.cpp.in`, `supervisor.cpp`, `console_layer.cpp.in` | the steps of a procedure: poll, wait, require, call, stop |
| `SchedulerUtils` | `sched_utils.cpp`, `periodic_app.cpp`, `time.cpp` | a cycle's begin and end, its sleep, the factor |
| `Rotations`, `Linear` | `rotations.hpp`, `algebra.hpp`, Eigen | one operator per function; the state is an orientation that is turned |
| `MovingWindow`, `Profiler` | `numerical_moving_window.tpp`, `profiler.hpp` | push; tic, toc |
| `ResourceMonitors` | `system_resource_monitor.cpp`, `process_resource_monitor.cpp`, `supervisor.cpp` | a round of readings |
| `Pose` | `pose.cpp` | every operation as lock, work on position, work on orientation, unlock |
| `TopicMonitor` | `topic_monitor.cpp`, `periodic_app_plugin.cpp`, `plugin.py` | inputs built, heard at any time, copied, checked; the readers asked live whether they receive and who writes |
| `MC*` | | values of constants, `RunningInit` (below), the choice of a part (`MCLibrary`) or of a procedure (`MCStartup`) |
| `*Proofs` | | theorems |

An action is what a thread does between two points at which another can step in
and be noticed: an access to an atomic or an unprotected variable, taking or
leaving a mutex, a system call. What a mutex protects is one action where nobody
else touches it without the mutex. A variable named after a member of the code
is that member; `pc`, `main`, `owner`, `worker`, `handler`, `frame`, `place` and
`op` say where a thread is; a history variable is marked as such.

Some abstractions need a word. *Names and processes:* in `ControlLayer` a process
carries its kind, name and identifier; an identifier is not used again while its
process is alive or unreaped, which is the operating system's promise. *The
request through DDS* that the framework sends before its signals is left out of
`Framework`: all it can make a process do is end, and there processes end at any
time anyway. *The maps of a layer:* a behaviour of
`LayerTables` is about one of them. What it shares with the rest of its component
is changed by the environment: the level at any time (`OtherCommands`), which
also lets the command to unload come at any time; a spam filter that may be used
up by a map scanned before (`MonitorNotifies`); and, in the service layer, a
process of another map under the same id, for which the request to shut down
finds two owners (`UnloadAsks`). *DDS* itself is external: reliable and in order
for each publisher where the code asks for it (`EventLog`, `StateWatcher`,
`CommandDirectory`), dropping messages where it does not (`Service`). *Unprotected containers:* an
operation on a `std::map` or a buffer is one step, although two of them at once
are undefined behaviour. *Numbers:* doubles are integers, with divisions kept as
comparisons of products where that is exact; `Rotations` is exact because the
rotations of the cube need only -1, 0, 1 and rays.

Operators whose comment begins with "Fault:" are not part of the model. Each is
a definition with a bug one could have written; put in place of the definition
it precedes, it makes the property listed with it in `PROJECT.json` ("mutants")
fail, which shows that the property says something about that definition.

## 4. The runs

| run | module, configuration | question |
|---|---|---|
| `app_safety` | `MCPeriodicApp`, `AppSafety.cfg` | Do enabled commands follow the level, is the desired state explained, does the component shut down in order, and does it implement `AppLifecycle`? |
| `app_liveness` | `MCRunningApp`, `AppLiveness.cfg` | Does a running component that is asked to quit do so, and does the handshake end? |
| `app_memory` | `MCPeriodicApp`, `AppMemory.cfg` | Are events that a state does not handle forgotten? (No.) |
| `app_wait` | `MCPeriodicApp`, `AppWait.cfg` | Is quit noticed by a component that waits? (Not always.) |
| `control_safety` | `MCControlLayer`, `ControlSafety.cfg` | Is every process owned, single, and gone after close, Python controllers excepted? |
| `signal_hand_over` | `MCChildProcess`, `SignalHandOver.cfg` | Is every signal heard, does nothing write to a closed pipe, does the callback stay within its object's life, does the destructor end? |
| `framework_shutdown` | `MCFramework`, `FrameworkShutdown.cfg` | Does the node end, leave nothing behind when it says it stopped, and keep its servers until the layers are gone? |
| `services` | `MCService`, `Services.cfg` | Is the store atomic behind its unlocked handler, do old answers stay true, is an answer to the caller's own request whenever it was the only one, does a timed call return? |
| `events` | `MCOrchestrator`, `Events.cfg` | Do topic and file have one order, is only spam held back, are reads faithful beside the callback, is the worst event shown? |
| `layers` | `MCLayerTables`, `Layers.cfg` | Which processes can a layer without locks lose, is what was unloaded gone, does an unload take the level back only from an empty map, do unloads end, does an active layer report a death? |
| `startup` | `MCStartup`, `Startup.cfg` | Does a call reach the one owner it was meant for, has what a procedure waited for happened, does every procedure return? |
| `library` | `MCLibrary`, `Library.cfg` | For each part that meets no other: are windows exact, cycles in phase, signals of one round, poses atomic, representations of an orientation the same, measurements and inputs reported? |

Each property is stated in words above its definition. A module's
`TypeOK` says what its variables hold; section 5 lists where it is proved.

### 4.1 Bounds

- **App.** All seven commands a periodic component has, with the transition
  sets of the code; `MaxCalls = 2` calls in a behaviour, which is what the
  races need: one to get the component into a state, one to overlap, and a
  request looked up early is delivered any number of steps later. Failures,
  deactivation by the plugin and pauses are not bounded. The liveness run starts
  from `RunningInit` (the component has been activated, and may be paused), so
  that both calls are made to a running component; that state is reachable in
  `Spec`, and its calls are those a user can make there. `app_liveness` leaves
  out the calls that cannot lead from RUN to QUIT.
- **Control layer.** Two names, of which one is also given to
  `loadPythonController`, three process identifiers, three calls. Three calls
  are enough for load, unload and load of one name to overlap with each other
  and with `close()`; three identifiers for each to start a process. Identifiers
  are symmetric; names are not (one is Python's).
- **Signals.** Two invocations of the handler that overlap, four signals, a
  pipe of two bytes of which the worker reads one at a time: the pipe fills,
  notifications outlive a read, and a signal comes in every phase of the life of
  the object, failed constructors included.
- **Framework.** One server, the control layer in a group of its own, whose
  components come and go, and the console outside any group; one application of
  the start-up file. Timeouts expire whenever they are waited for, so all
  durations are covered. One further process stands for all descendants of a
  layer: only whether a group still has a member matters.
- **Services.** Two clients, one of which waits with a duration and calls twice,
  so that the answer to its first call can meet its second and both can meet the
  other's; one key and two values, one command that writes beside the handler,
  one lost message or spurious wake-up.
- **Events.** Two threads, two ids of different severity, three entries, a
  threshold of one tick and a clock of one tick, a buffer of two: the filter
  holds back and lets pass again, and the third event overflows the buffer while
  it is read. The telemetry shows one event, so that which one matters.
- **Layers.** Two names where a map is loaded by two commands, one where by one;
  two processes: two loads of one name, an unload of the one while the other is
  inserted, and two deaths in one scan all happen. The layer may become active and
  idle, and other commands may change the level, any number of times
  (357,346 states).
- **Start-up.** A layer, another component of the same name, an application the
  layer loads and the framework node; the application may die; two calls and two
  polls a wait, of which any may be the last. Eight procedures of the code, with
  the components that run when they begin.
- **Parts that meet no other.** All 24 rotations of the cube from turns by quarter
  angles; windows of two values and four durations of up to two ticks; six
  rounds of the resource monitors out of six kinds of round, in some of which
  files cannot be read; two threads, two poses and three operations; three
  inputs, three rounds of the topic monitor and three changes of what a reader
  knows, at any point of a round; periods of 0, 2 and 3 and factors
  1 and 2 over twelve ticks; three controllers and two activations of the gather
  thread.

`Max...` and `Num...` constants appear only in guards of the actions of users and
of the environment.

`CHECK_DEADLOCK FALSE` is given where the system comes to rest: a component that
has quit, a layer that was closed with its calls used up, a process that ended.
In `library` one more kind of stop is real: two threads that subtract two poses
from each other in opposite orders wait for each other (section 6).

### 4.2 Fairness

Fairness is stated for what the operating system schedules, and for nothing a
user, a plugin or another process decides.

- *App:* weak fairness of the activity thread, the monitor, the watcher and the
  threads of commands that were called (without the act of calling). A thread
  blocked on a condition variable that is not notified has no step to take, and
  fairness does not help it: this is how `app_wait` fails. No fairness is given
  to the plugin, which may never activate, nor to the user, who may never call
  continue: hence the exception of `RunQuits`.
- *Child process:* weak fairness of `main()`, the worker, each handler, and of a
  component's leaving initialization (`App::execute` does so without waiting for
  anything). Nothing
  makes a component quit.
- *Framework:* weak fairness of `run()`, and strong fairness of `LayerFails` and
  `WaitExpires`: the deadline of a wait is passed at last, although between two
  looks at it the thread is elsewhere. Processes have no fairness at all: they
  may ignore every signal, SIGKILL included, as one in an uninterruptible system
  call does, and `ShutdownEnds` holds all the same.
- *Services:* weak fairness of each client's thread, of the handler's second
  step and of deliveries; a message may still be dropped, within `MaxFaults`.
  Untimed calls have no liveness property: an answer that comes before the wait
  leaves them asleep (`src/modules/service/include/dls2/service/service_client.tpp:37`).
- *Events:* weak fairness of threads in the logger, of the callback (the topic is
  reliable), of the periodic run while the component is active and of the
  telemetry thread. Nobody has to log, activate or deactivate.
- *Layers:* weak fairness of a command to unload that has begun, and of the main
  thread where it monitors (the layer is active) or closes. Nothing makes a layer
  active or leaves it so, and a load need not go on. A process need not end when
  asked: the 2 s of an unload are a step of their own.
- *Start-up:* weak fairness of the procedure's thread alone; discovery, delivery
  and the other components may never do anything.

### 4.3 What the passing runs show

`EnabledFollowLevel`, `ShutdownInOrder` and `LifecycleSpec` show that the
unprotected hand-shakes of commands, watcher, monitor and state machine do no
harm beyond the disagreements of section 6. `DesiredIsExplained` is what allows
the supervisor to call a component whose desired state stays different from its
state an anomaly. `NoProcessForgotten`, `NothingLeftBehind` and
`OneProcessPerName` show that the two-level locking of the control layer
(operations, maps) is right for native and external components. For
`StoppedMeansGone` the interesting behaviours are those in which a layer exits
before the components it started: they stay in its group, which is then reaped by
the node. `EndsWhenLeftAlone` fails as soon as that reaping is left out.

`StaleAnswersStayTrue` is why the services' weak matching of answers to calls is
harmless for parameters as they are: `emplace` never changes a value, so an answer
to an earlier call is still right. Were the comment above it followed (section 6),
the property would fail; `StoreIsAtomic` would not, since it asks only that each
answer tells what is stored when it is given. `OwnAnswer` says when an answer is
the caller's own.
`OnlyRacesLoseProcesses` is as strong as the layers without locks allow: what
loses a process is two commands on one name at once and nothing else.
`LoweredOnlyWhenEmpty` says of the layers' own commands what the code can promise:
an unload that makes unloading impossible has left nothing to unload. It does not
say that what is loaded can be unloaded, which is not so (section 6).
`FirstDeathIsReported` is about an active layer and the map it scans first.
`WorstIsShown` depends on `readEvents` returning to the oldest event at each
call (section 6). `PassedHasHappened` holds although the watcher's states are
old and two components may have one name. `OperationsAreAtomic` and
`SignalIsOfOneRound` name the operations the code leaves out: an unlocked `set`
that overlaps, and rounds of two gather threads at once.

## 5. The proofs

`tlapm M.tla` checks each of them. They hold for every value of the constants
that satisfies the named assumptions, which say no more than what the code is
given: finite sets of handlers, a pipe that is not empty, levels that are
integers, layers that are not servers, a "nothing" that is no message, an order of verification that names every
command, a buffer that holds something, "no time" that is no number, start-up
procedures that name components and commands there are and send no command
twice, maps whose loaded names are names, periods and time factors that are
integers, a profiler's window that holds something, readers that show natural
frequencies, a premultiplier for each controller, signals that are integers, and
readings of `/proc` whose ticks are natural numbers, with at most a line per
processor, and in which a file that cannot be read is no number.

| module | theorems | argument |
|---|---|---|
| `PeriodicAppProofs` | `TypeCorrect`, `ImplementsLifecycle`, `DesiredExplained`, `ShutdownOrdered`, `EnabledFollow` | *Place* ties the label of the activity thread to the state and to the event it serves; *TargetsAreLegal*: a thread within `raiseEvent` holds the target of a transition that was in the table; *Dying* orders `can_die`, the monitor, `quit`, the readers and the watcher; *SomebodyLooks* says that whenever an enabled command disagrees with the level, an update is under way or asked for. The refinement follows with the map `asked <- Asked`: each step is one of `AppLifecycle` or leaves its variables alone. |
| `ControlLayerProofs` | `TypeCorrect`, `ProcessesOwned`, `OnePerName`, `CloseIsComplete`, `OwnedWithoutPython` | *Exclusive*: at most one call per kind is within an operation; *InHand*: the process a call holds is of the call's kind and name; *EntryFits*: so is the process of an entry; *Fresh*: what a load is about to insert is not in the map yet; *Closing*: once `close()` has taken the mutexes only Python controllers come in. `OwnedWithoutPython` shows that `EveryProcessIsOwned`, which the code does not keep, fails for that command alone. |
| `ControlLayerProofs`, orientations | `OrientationsAlwaysAgree`, `OrientationsStaySmall` | *RotationInv*: the quaternion is a *Rotor*, one of the 48 shortest integer vectors on the rays of the cube's rotations, the matrix is its matrix, and after a turn it is the product of the turn and the one before. `MultReduces` (Euler's four squares) shows that a product of two rotors is 1, 2 or 4 times a rotor, `MatOfMult` that quaternions multiply as their matrices do, both from polynomial identities in the components and not from a list of cases; `AnglesAre`, `MatToQuat`, `VecToMat`, `AnglesBack` and the others, one per conversion, that each function gives back the same rotation, with the case distinctions of the code (largest diagonal element, half turns, gimbal lock). |
| `LayerTablesProofs` | `TypeCorrect`, `OnlyRacesLose`, `UnloadedGone`, `LoweredWhenEmpty`, `DeathIsTrue`, `CrashesAreRaces` | *Launched*: what a map names and a thread holds was launched under that name; *LoadsTold*, *UnloadsTold*: as long as no second command has met it, a load's name is not in the map and an unload holds what the map does; *Kept*: what runs is in the map, or two commands raced on its name, and then an attached process is in the hands of an unload. *OwnInHand*, *StillToClose*, *InOrder*: what a close began with and still runs is in the map, in the hands of the main thread or ahead of it in the map's order, even when a command to unload overlaps. *LevelFollows*: after an unload that took the level back the level is 0 until another command changes it, and if something is in the map a load is about to; *EmptySeen*: an unload that is about to take it back has seen the map empty, unless a load has ended or is about to end since. *NullIsDead*, *NullIsHeld*, *NullIsRaced*, *LookedAt*: an unload resets the pointer of a process that is dead and that it holds or raced for, and what the monitor looks at was launched. |
| `FrameworkProofs` | `TypeCorrect`, `NothingIsLeft`, `ServersLast`, `KilledLastOfAll`, `ShutdownGoesOn` | *Started*: a process is owned if and only if it was launched, and a finished one is gone; being gone is stable, since only a living leader starts others; *Found*: what a scan without a running process has passed is gone; *Escalated*: the layers are gone or killed when the servers' turn comes; *Course* and *Within*: the order of the shutdown, the range of the start-up. *SignalsSent* relates the place in the escalation to the signals each process was sent. `ShutdownGoesOn` orders the shutdown in 15 phases, each a loop over finitely many processes or a wait. |
| `ServiceProofs` | `TypeCorrect`, `StaleAnswersAreTrue`, `AnswersAreOwn`, `StoreRefines`, `SleepExplained` | what the handler read and what every answer says agrees with the store, which only grows; a read that found nothing counts as answered when it read (`Answered`), which makes each step of the service one of `AtomicStore` or a stutter. *ByItself*: of a client that shares its topics with nobody and never came back empty, at most one message is on its way, in one place, and it is about the latest call. *OnItsWay*: the request or the answer of a call that waits is in a topic or with the server, unless something was lost or the answer came too early. |
| `StartupProofs` | `TypeCorrect`, `OneOwner`, `PassedHappened` | *Addressed* and *Delivered*: a call carries the owner that was asked for, and a reader accepts only what is for its component or for all; *Told*: what the watcher was told of a component was true of it at some time; *Accounted*: each call was sent by one step that is past, and no two steps send the same one. |
| `OrchestratorProofs` | `TypeCorrect`, `OneOrder`, `SpamHeld`, `ReadsFaithful`, `WorstFirst`, `OrchestratorTypeCorrect` | *Logged*, *Ordered*: who holds the logger's mutex has the greatest number, and has published it before the line is written; *Timed*: the filter's map holds the time of the last event of an id that went out; *Buffered*: the buffer is the end of what has arrived, one element ahead of its index within the callback; *ReadSoFar* and *ReadWithin*: what a read has taken is older than all that is left to it, since the buffer only moves forward. `TypeCorrect` speaks of `EventLog`. *QueueInv*: what is queued is published, what is copied is queued. `PublishedDiffer` says that the comparison tells any two published events apart, which is where the filter and a threshold above zero are needed (the logger keeps the default of 250 ms, `app_logger.cpp:7`; only a safety layer's notifier is given another, `periodic_app.cpp:96`), `FirstExists` that one of them is before all others, `PopsKeeps` and `FirstOfRanks` that popping brings the first of a queue in order. |
| `LibraryProofs`, shutdown signal | `TypeCorrect`, `DescriptorSafe`, `CallbackSafe`, `NoticeKept`, `DestructorGoesOn` | *Counted*: `handlers_` is the number of handlers between their increment and decrement; *Released*: the order in which `release()` makes the descriptor unreachable, waits and closes; *Lifetime*: where the object is when `main()` is where it is. *HowFar*: how far the component is when the callback can run, and what the callback reads of it; `DestructorGoesOn` orders the places of the destructor, of the worker and of the handlers. |
| `LibraryProofs`, poses | `PosesAtomic` | *Locking*, *Locked*: the mutexes a thread holds are those of its operation, taken in their order; *OnOwnPoses*: two threads that are half way touch different poses; *HalfWay* and *AtRest*: half way the position is the new one and the quaternion the old one, and any other pose is what whole operations made of it. |
| `LibraryProofs`, periods | `SlotsKept` | *SchedulerInv*: while a cycle works its slot is not in the future, and the kernel was told the policy of the factor in use. `NextSlot`, from the division with remainder, then says that the slot after the missed ones is of the same phase, later than the last one and at most a period away. |
| `LibraryProofs`, windows | `StatsExact` | *Holds* relates a circular window to the samples it was given: slot by slot, they are the last ones in their order (*InPlace*); the running sums are differences of two prefix sums (*SumsFollow*); the extrema are an element's, and bound the others (*Extremes*). `PushHolds` shows that a push keeps it, whether the window is full or not and whether or not what it overwrites was an extremum; `HoldsIsWindow` that the statistics are then those of the last samples. |
| `LibraryProofs`, inputs | `InputsWatched` | *InputsFollow*: each input's window *Holds* the frequencies that were heard of it, and its desired frequency is that of the first writer that has one; *EventsFollow*: what was reported is what the last round's windows, the stamps of its copy and the readers' answers at the comparison call for; *Monitored*, part of the property, is inductive with them. `OffBy` turns the code's comparison of a mean into that of the sums, `SynchronyIsRight` the comparison with the reference, the first input that received when it was asked, into one of all pairs that receive. |
| `LibraryProofs`, signals | `SignalOfRound` | *OneAlone*: of two threads that are in a round, neither is alone in it; *RoundSoFar*: the message a thread alone in its round has written so far is the one the controllers it has read call for, the sum of the torques and the gains of the first impedance controller, until one that commands positions or velocities ends the round. Two rounds at once share the message, and nothing is claimed of them. |
| `LibraryProofs`, load | `LoadReported` | *CpuFollows*: the kernel's counters are the sums of what the history says passed, the snapshots are the counters at the last two rounds that read `/proc/stat`, and the window of each line *Holds* the shares since the number of lines last changed; *MemoryFollows*, *TemperatureFollows*, *ProcessFollows*: so do the other windows, and a process was last accounted for in the last round that could read both of its files; *EventsFollow*: the events are those of the windows. `Between` makes a difference of counters the sum over the rounds between, `InOrderGrows` and the lemmas named *Grow* say what one round more adds to the samples the property asks for, `PushSampleHolds` that the window has followed. |

The last module is about parts that do not meet: the theorems speak of `Spec`
for the shutdown signal within its process, and of `PoseSpec`, `SchedulerSpec`,
`ProfilerSpec`, `TopicSpec`, `GatherSpec` and `MonitorSpec` for the others, each
by itself, as `RotationSpec` is that of the orientations; `MCLibrary` runs them
one at a time. `TypeCorrect` is the shutdown signal's.

None of the invariants of section 4 is inductive as it stands: each speaks of a
moment of rest and must be strengthened by what holds in the middle of a call.
The strengthened invariants hold on the instances of section 4, too, where TLC
can check them.

Only model-checked: all liveness (`RunQuits`, `QuitCompletes`, `SignalIsHeard`,
`DestructorEnds`, `ShutdownEnds`, `EndsWhenLeftAlone`, `TimedCallReturns`,
`WorstIsShown`, `UnloadEnds`, `FirstDeathIsReported`, `ProcedureReturns`), since
the prover does not reason about fairness and `ENABLED`. Of five of them the part
that is safety is proved: what was noticed is not forgotten (`NoticeKept` for
`SignalIsHeard`), what waits has something to wait for (`SleepExplained` for
`TimedCallReturns`), what goes on only goes forward (`DestructorGoesOn` for
`DestructorEnds`, `ShutdownGoesOn` for `ShutdownEnds`), and what is queued stays
and is shown in its order (`WorstFirst` for `WorstIsShown`). What is left to TLC is that
a step that stays possible is taken.

Two more limits shape the modules. The library's theorems of induction take an
operator as a parameter and cannot be instantiated; where a proof needs what a
recursive function computes for every input (sums of a prefix, the frequencies
or samples among what was seen, in their order), it takes the least argument at
which the claim fails
(`LeastNat`, from the well-foundedness of the natural numbers) and refutes it,
and the definitions are recursive functions rather than folds. And modules with
theorems declare nothing `RECURSIVE`.

## 6. Where code and documents disagree

Two runs end with a counterexample. Each checks one statement of a document;
`PROJECT.json` ("findings") quotes it.

1. `app_memory`: `raiseEvent` looks an event up and stores it in two steps. An
   event meant for IDLE is stored in ACTIVATION and acts when the component is
   back in IDLE, although `src/doc/StateMachine.md` says that events are not
   remembered.
2. `app_wait`: the flag is stored without the mutex of the condition variable. A
   component that has just found no request, and does not sleep yet, misses the
   notification and waits with `quit_request` raised until another event comes.

Disagreements seen while modelling, without a run of their own; the properties
are stated so that they name the exception.

*Components.* The desired state, written last by a request that lost the race
with a request to quit, is not "quit" any more, and the monitor never allows the
component to die (`state_machine.cpp:106`, `app.cpp:263`; the exception of
`QuitCompletes`). A command that is disabled while callable stays so at every
level (`command.tpp:72`). A component's failure flag is never cleared: after a
failure, the next activation fails after one cycle (`periodic_app.cpp:247`).
`levelThread` is started before `should_exit` is initialised
(`command_manager.cpp:18`), and `sm` is destroyed before `command_manager`
(`app.hpp:120`). The first `stop_activation` is inserted into `async_events` by
`operator[]` while other threads read the map (`app_state_machine.cpp:37`). An
element past the end is read for a level without an entry
(`command_base.cpp:83`); the model takes what the build finds there.

*Commands of others.* `findByOwner` returns the unfiltered list; a component that
calls its own command changes the level twice (`command_manager.cpp:192-194`);
`CommandWithoutArgs::call(args)` is the base's empty one and its `setDisabled`
has an inverted guard. The start-up section `generic_app_plugins` calls
`loadAppPlugin` of the supervisor (`run_dls2.cpp.in:35`), which is not
registered; the documents write `loadControl` and `loadEstimation` for
`loadController` and `loadEstimator`. `waitApp` returns true when it was stopped
(`state_machine_watcher.cpp:70-85`).

*Layers.* `loadPythonController` works without the locks and without `closing_`
(`control_layer.cpp.in:613`): a process can be started that is in no map. A load
between the last unload's test and its change of level leaves a controller that
cannot be unloaded (`control_layer.cpp.in:93`). A gather thread that misses a
deactivation goes on beside the next one (`control_layer.cpp.in:260`), and
torques are sent with the positions and gains of earlier rounds (`:265`). Of
several processes that died between two scans only the first is published,
because of the spam filter (`layer.tpp:48`, `src/doc/Safety.md:4`); likewise of
several overloaded cores in `checkHardware`. The filter is one for all maps of the
service layer (`service_layer.cpp:145-150`), so a death among the services hides
one among the other two. A layer monitors only while it is active: `Layer::run` ends
with a request to deactivate (`layer.cpp.in:97`), commands load and unload
afterwards as before, and no death is reported until it is activated again.

The level, which gates the commands, is the component's, but each command treats
it as its own. After `activate`, `loadEstimator` and `deactivate`, one after the
other, an estimator is loaded at level 0 and `unloadEstimator` cannot be called
(`app.cpp:89`, `estimation_layer.cpp:49`); a load before the activation takes the
level to 1, where `activate` cannot be called (`app.cpp:63`); and in the service
layer the unload of the last name of one map takes the level to 0 for the other
map too (`service_layer.cpp:36-47`, `:63-76`). `service_layer.cpp` is commented out
of `core_framework/CMakeLists.txt:17`, and defines `loadGeneric` and
`unloadGeneric` twice; no command calls `Supervisor::loadAppPlugin`.

*Events.* `readEvents` sets its index to 0 at every call
(`event_logger.cpp:166`), so the orchestrator queues, and the log layer prints,
every event again at each period. The telemetry thread is not joined when an
orchestrator that was activated is destroyed.

*Parameters.* `parameter_server.cpp:30` says "update or insert" of an `emplace`
that does not update. `AtomicStore` allows both, so `StoreIsAtomic` takes neither
for the specification; what the model does is what `emplace` does, and
`StaleAnswersStayTrue` depends on it.

*Library.* `twovecToRot` returns a reflection for some pairs of vectors and the
identity for opposite ones (`rotations.hpp:183-215`); the sign flip of
`computeOrientError` is missing in one term (`:511`); `rotMatToRotVec` returns
zero for half turns. `Pose` is called a thread-safe class (`pose.hpp:20`), but
one `set` locks nothing (`pose.cpp:212`), `operator=` and `operator-=` block on
themselves and, in opposite orders, on each other (`:115`), and the difference of
orientations has the opposite sense to that of positions. `SystemResourceMonitor`
repeats the last usage when `/proc/stat` cannot be read, starts all windows anew
when a line appears, and looks for thermal zones once. The topic monitor watches
an input built between its copy and its comparison only once another is built
(`periodic_app_plugin.cpp:38-42`), keeps the first desired frequency it learns
although a comment calls it up to date (`topic_monitor.cpp:70`), and compares
times only with the first input that receives. It asks the readers whether they
receive after it has copied their stamps (`topic_monitor.cpp:101,112`): an input
that begins to receive in between is compared by the old stamp of the copy, and
can be reported as not synchronized for it. `Screw`'s constructor sets the
linear part twice (`screw.cpp:17-18`); `Ramp::eval` returns the bounds of the
domain for those of the range (`ramp.tpp:27-28`). `executeEndLoopTask` skips the
slot that begins at the very moment it looks, unless no slot was missed.

## 7. What is not modelled

- The messages' contents, logging and printing, options, the validation of the
  start-up file, the console's editing of lines.
- The base classes of plugins (motion generator, controller, estimator,
  hardware), dynamic loading, language bindings, profiles, splines and screws:
  forwarding code or floating-point formulas without state.
- Data races inside standard containers, the order of destruction of `App`'s
  members, `levelThread`'s first steps (section 6).
- In the parts that are modelled: rounding; rotations other than the cube's;
  `/proc/stat` with fewer lines than before; inputs that share a topic; poses
  subtracted from themselves; in `TopicMonitor` the readers are asked live, each
  once at most in a step; as they change independently of each other, asking them
  one after another would give no other answers.
- Failures of system calls other than those that have an error path of their own.
