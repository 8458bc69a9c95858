----------------------------- MODULE LayerTables -----------------------------
(***************************************************************************)
(* The layers that load and unload processes by command: the estimation    *)
(* and the hardware layer, the supervisor, and the service layer (which    *)
(* the build leaves out).  Each keeps a std::map from a name to the        *)
(* AppData of a process, and every command of a layer runs on a thread of  *)
(* its own, beside the layer's main thread, which monitors the processes   *)
(* while the layer is active and closes it.  The mutexes of the maps are   *)
(* never taken.                                                            *)
(* A behaviour is about one map.  What it shares with the rest of its      *)
(* component can be changed by others at any time: the level of the        *)
(* commands (OtherCommands), the spam filter of the notifier, which a map  *)
(* that is scanned before may have used up (MonitorNotifies), and the ids  *)
(* of the processes (UnloadAsks).                                          *)
(* An operation of std::map is one step.                                   *)
(***************************************************************************)
EXTENDS Naturals, FiniteSets

CONSTANTS
  NumNames, \* how many names are loaded
  NumProcs, \* bound: the processes that are ever launched
  Loaded    \* bound: for each map that is considered, the names loaded into it

Tables == DOMAIN Loaded

ASSUME LayerTablesAssumption ==
  /\ NumNames \in Nat /\ NumProcs \in Nat
  /\ Tables \subseteq {"estimators", "hardwares", "plugins", "services", "data_visualizers_", "generics"}
  /\ \A t \in Tables : Loaded[t] \subseteq 1 .. NumNames

\* The names, in the order of the keys.
Name == 1 .. NumNames

\* The processes, and their AppData, in the order they are launched.
Proc == 1 .. NumProcs
NoProc == 0

\* The threads: two commands that load, one that unloads, and the main thread.
Loader == {"load", "loadOther"}
Worker == Loader \cup {"unload", "main"}

VARIABLES
  table,     \* the map of this behaviour
  entry,     \* the map: the AppData under a name
  name,      \* name[p]: what p was launched as
  life,      \* life[p]: "none", "starting" (no command yet), "up", "asked" (it was
             \* sent "shutdown"), "dead"
  proc_null, \* the AppData whose proc was set to nullptr
  worker,    \* worker[w]: where the thread is, with which name and AppData
  level,     \* the level of the layer's commands, 0 or 1, where an unload may lower it
  active,    \* the layer is active: Layer::run is called
  quitting,  \* the main thread was told to quit
  left,      \* the names close() has still to unload
  stopped,   \* what the scan in progress found dead
  reported,  \* the processes PROCESS_DIED was published for
  crashed,   \* the layer used what is not there
  history    \* what is told of the past, for the properties

tableVars == <<entry, name, life, proc_null>>
mainVars == <<active, quitting, left, stopped, reported>>
vars == <<table, tableVars, worker, level, mainVars, crashed, history>>

Idle == [at |-> "idle", name |-> 0, app |-> NoProc]

TypeOK ==
  /\ table \in Tables
  /\ entry \in [Name -> Proc \cup {NoProc}]
  /\ name \in [Proc -> Name \cup {0}]
  /\ life \in [Proc -> {"none", "starting", "up", "asked", "dead"}]
  /\ proc_null \subseteq Proc /\ reported \subseteq Proc
  /\ worker \in [Worker -> [at : {"idle", "launch", "ask", "wait", "reset", "erase",
                                  "count", "level", "look", "next", "close", "ended"},
                            name : Name \cup {0}, app : Proc \cup {NoProc}]]
  /\ level \in {0, 1} /\ active \in BOOLEAN /\ quitting \in BOOLEAN /\ crashed \in BOOLEAN
  /\ left \subseteq Name /\ stopped \subseteq Proc
  /\ history \in [twoLoads : SUBSET Name, twoUnloads : SUBSET Name, closing : SUBSET Proc,
                  overtaken : BOOLEAN, lowered : BOOLEAN]

Init ==
  /\ table \in Tables
  /\ entry = [n \in Name |-> NoProc]
  /\ name = [p \in Proc |-> 0]
  /\ life = [p \in Proc |-> "none"]
  /\ proc_null = {} /\ reported = {}
  /\ worker = [w \in Worker |-> Idle]
  /\ level = 0 /\ active = FALSE /\ quitting = FALSE /\ crashed = FALSE
  /\ left = {} /\ stopped = {}
  /\ history = [twoLoads |-> {}, twoUnloads |-> {}, closing |-> {},
                overtaken |-> FALSE, lowered |-> FALSE]

-----------------------------------------------------------------------------
(* What the maps differ in.                                                *)

\* The child is not detached: the last AppData to go takes its process along.
attached == table \in {"estimators", "services", "data_visualizers_"}

\* A second command loads into the same map.
twoCommandsLoad == table \in {"hardwares", "plugins"}

\* Unloading the last name takes the level to 0, which loading a name takes to 1.
\* (Elsewhere a command to unload stores the level it read, as others may.)
levelled == table \in {"estimators", "services", "data_visualizers_"}

\* unload sets proc to nullptr before it erases the key.
resetsProc == table # "plugins"

\* Fault: the command to unload does not look at the map.
returnsTrueAlways == TRUE

unloadReturnsTrue == levelled => \A n \in Name : entry[n] = NoProc

\* No other map of the layer is scanned before it.
scannedFirst == table \notin {"data_visualizers_", "generics"}

\* close() unloads the keys it collected, or walks the map it erases from.
closesByKeys == table \in {"estimators", "hardwares"}
closesInPlace == table \in {"services", "data_visualizers_", "generics"}

-----------------------------------------------------------------------------
running(p) == life[p] \in {"starting", "up", "asked"}

\* The life of the processes once those in lost are in no map and no hand.
LifeWithout(lost, l) ==
  IF attached THEN [p \in Proc |-> IF p \in lost /\ l[p] # "none" THEN "dead" ELSE l[p]] ELSE l

Loading(w, n) == worker[w].at = "launch" /\ worker[w].name = n
\* An unload has a copy of the pointer to the AppData in hand.
Holds(w, p) == worker[w].at \in {"ask", "wait", "reset", "erase"} /\ worker[w].app = p
Unloading(w, n) == worker[w].at \in {"ask", "wait", "reset", "erase"} /\ worker[w].name = n

Goes(w, at) == worker' = [worker EXCEPT ![w].at = at]
Leaves(w) == worker' = [worker EXCEPT ![w] = Idle]

-----------------------------------------------------------------------------
(* Load: find, launch and emplace; then the level.                         *)

\* Fault: the map is not asked first.
LoadWithoutFind(w, n) ==
  /\ worker[w].at = "idle"
  /\ w = "loadOther" => twoCommandsLoad
  /\ \E p \in Proc : life[p] = "none"
  /\ worker' = [worker EXCEPT ![w] = [at |-> "launch", name |-> n, app |-> NoProc]]
  /\ UNCHANGED <<table, tableVars, level, mainVars, crashed, history>>

\* A name in the map is refused, at once.
LoadFinds(w, n) ==
  /\ worker[w].at = "idle"
  /\ w = "loadOther" => twoCommandsLoad
  /\ entry[n] = NoProc
  /\ \E p \in Proc : life[p] = "none"
  /\ worker' = [worker EXCEPT ![w] = [at |-> "launch", name |-> n, app |-> NoProc]]
  /\ history' = IF \E v \in Loader \ {w} : Loading(v, n)
                THEN [history EXCEPT !.twoLoads = @ \cup {n}] ELSE history
  /\ UNCHANGED <<table, tableVars, level, mainVars, crashed>>

\* The environment does not name the launcher.
LoadRefused(w) ==
  /\ worker[w].at = "launch"
  /\ Leaves(w)
  /\ UNCHANGED <<table, tableVars, level, mainVars, crashed, history>>

\* The process is launched; emplace leaves a name that is in the map by now as it
\* is, and load returns true all the same.
LoadEmplaces(w) ==
  LET n == worker[w].name IN
  /\ worker[w].at = "launch"
  /\ \E p \in Proc :
       /\ life[p] = "none" /\ \A q \in 1 .. p - 1 : life[q] # "none"
       /\ name' = [name EXCEPT ![p] = n]
       /\ IF entry[n] = NoProc
          THEN entry' = [entry EXCEPT ![n] = p] /\ life' = [life EXCEPT ![p] = "starting"]
          ELSE /\ life' = LifeWithout({p}, [life EXCEPT ![p] = "starting"])
               /\ UNCHANGED entry
  /\ Goes(w, "level")
  /\ UNCHANGED <<table, proc_null, level, mainVars, crashed, history>>

\* {0 -> 1, 1 -> 1}
LoadSetsLevel(w) ==
  /\ w \in Loader /\ worker[w].at = "level"
  /\ level' = IF levelled THEN 1 ELSE level
  /\ history' = [history EXCEPT !.overtaken = @ \/ (levelled /\ worker["unload"].at = "level"),
                                !.lowered = FALSE]
  /\ Leaves(w)
  /\ UNCHANGED <<table, tableVars, mainVars, crashed>>

Load(w) ==
  \/ \E n \in Loaded[table] : LoadFinds(w, n)
  \/ LoadRefused(w) \/ LoadEmplaces(w) \/ LoadSetsLevel(w)

-----------------------------------------------------------------------------
(* Unload: find, shutdown, two seconds, SIGKILL, nullptr, erase.           *)

UnloadFinds(w, n) ==
  /\ entry[n] # NoProc
  /\ worker' = [worker EXCEPT ![w] = [at |-> "ask", name |-> n, app |-> entry[n]]]
  /\ history' = IF \E v \in Worker \ {w} : Unloading(v, n)
                THEN [history EXCEPT !.twoUnloads = @ \cup {n}] ELSE history
  /\ UNCHANGED <<table, tableVars, level, crashed>>

\* callCommand sends only if one process offers the command under the name; in the
\* service layer one that another map has under the name may be the second.
UnloadAsks(w) ==
  LET found == {p \in Proc : life[p] \in {"up", "asked"} /\ name[p] = worker[w].name} IN
  /\ worker[w].at = "ask"
  /\ \/ /\ Cardinality(found) = 1
        /\ life' = [p \in Proc |-> IF p \in found THEN "asked" ELSE life[p]]
     \/ (Cardinality(found) # 1 \/ closesInPlace) /\ UNCHANGED life
  /\ Goes(w, "wait")
  /\ UNCHANGED <<table, entry, name, proc_null, level, mainVars, crashed, history>>

Crashes ==
  /\ crashed' = TRUE
  /\ UNCHANGED <<table, tableVars, worker, level, mainVars, history>>

\* The proc of the AppData was set to nullptr by another thread.
UnloadMissesProc(w) ==
  /\ worker[w].at = "wait"
  /\ worker[w].app \in proc_null
  /\ Crashes

UnloadSeesEnd(w) ==
  /\ worker[w].at = "wait"
  /\ worker[w].app \notin proc_null
  /\ ~running(worker[w].app)
  /\ Goes(w, "reset")
  /\ UNCHANGED <<table, tableVars, level, mainVars, crashed, history>>

\* Faults: the wait has no end; no SIGKILL.
WaitsWithoutEnd(w) == FALSE
UnloadGivesUp(w) ==
  /\ worker[w].at = "wait"
  /\ worker[w].app \notin proc_null
  /\ Goes(w, "reset")
  /\ UNCHANGED <<table, tableVars, level, mainVars, crashed, history>>

UnloadKills(w) ==
  /\ worker[w].at = "wait"
  /\ worker[w].app \notin proc_null
  /\ running(worker[w].app)
  /\ life' = [life EXCEPT ![worker[w].app] = "dead"]
  /\ Goes(w, "reset")
  /\ UNCHANGED <<table, entry, name, proc_null, level, mainVars, crashed, history>>

UnloadResets(w) ==
  /\ worker[w].at = "reset"
  /\ proc_null' = IF resetsProc THEN proc_null \cup {worker[w].app} ELSE proc_null
  /\ Goes(w, "erase")
  /\ UNCHANGED <<table, entry, name, life, level, mainVars, crashed, history>>

\* Whatever is under the key goes, its process too unless another unload has it.
Erases(w) ==
  LET n == worker[w].name
      lost == {p \in {entry[n]} \ {NoProc} : \A v \in Worker \ {w} : ~Holds(v, p)} IN
  /\ worker[w].at = "erase"
  /\ entry' = [entry EXCEPT ![n] = NoProc]
  /\ life' = LifeWithout(lost, life)
  /\ UNCHANGED <<table, name, proc_null, level, active, quitting, stopped, reported,
                 history>>

UnloadErases ==
  /\ Erases("unload")
  /\ worker' = [worker EXCEPT !["unload"].at = "count", !["unload"].app = NoProc]
  /\ UNCHANGED <<left, crashed>>

UnloadCounts ==
  /\ worker["unload"].at = "count"
  /\ IF unloadReturnsTrue THEN Goes("unload", "level") ELSE Leaves("unload")
  /\ UNCHANGED <<table, tableVars, level, mainVars, crashed, history>>

\* {1 -> 0}, and 0 too from a level that is no key of the transitions.
UnloadSetsLevel ==
  /\ worker["unload"].at = "level"
  /\ level' = IF levelled THEN 0 ELSE level
  /\ history' = [history EXCEPT !.overtaken = FALSE, !.lowered = levelled /\ ~history.overtaken]
  /\ Leaves("unload")
  /\ UNCHANGED <<table, tableVars, mainVars, crashed>>

\* activate, stopActivation and deactivate, and the commands of the other maps, on
\* threads of their own; those that keep the level store what they read before.
OtherCommands ==
  /\ levelled
  /\ level' \in {0, 1}
  /\ history' = [history EXCEPT !.lowered = FALSE]
  /\ UNCHANGED <<table, tableVars, worker, mainVars, crashed>>

UnloadSteps(w) ==
  \/ UnloadAsks(w) \/ UnloadMissesProc(w) \/ UnloadSeesEnd(w) \/ UnloadKills(w) \/ UnloadResets(w)

\* The command is offered at level 1, to which others take the component and from
\* which they take it at any time.
Unload ==
  \/ /\ worker["unload"].at = "idle"
     /\ \E n \in Name : UnloadFinds("unload", n)
     /\ UNCHANGED mainVars
  \/ UnloadSteps("unload") \/ UnloadErases \/ UnloadCounts \/ UnloadSetsLevel

-----------------------------------------------------------------------------
(* The main thread: Layer::run monitors while the layer is active and was  *)
(* not told to quit; an idle layer only loads and unloads.  Then close()   *)
(* unloads.                                                                *)

Keys == {n \in Name : entry[n] # NoProc}
Least(S) == CHOOSE n \in S : \A m \in S : n <= m
main == worker["main"]

Activates ==
  /\ main.at = "idle" /\ ~active /\ ~quitting
  /\ active' = TRUE
  /\ UNCHANGED <<table, tableVars, worker, level, quitting, left, stopped, reported, crashed,
                 history>>

\* deactivation_request ends Layer::run, after the scan in progress.
Deactivates ==
  /\ main.at = "idle" /\ active /\ ~quitting
  /\ active' = FALSE
  /\ UNCHANGED <<table, tableVars, worker, level, quitting, left, stopped, reported, crashed,
                 history>>

\* The first key, or the next one: an AppData without a proc is passed over.
MonitorVisits ==
  LET n == Least({m \in Keys : m > main.name}) IN
  /\ main.at = "next" \/ (main.at = "idle" /\ active /\ ~quitting)
  /\ \E m \in Keys : m > main.name
  /\ worker' = [worker EXCEPT !["main"] =
       [at |-> IF entry[n] \in proc_null THEN "next" ELSE "look", name |-> n, app |-> entry[n]]]
  /\ UNCHANGED <<table, tableVars, level, mainVars, crashed, history>>

\* proc may have been set to nullptr since, or the element erased: then what the
\* iterator finds is not defined.
MonitorLooks ==
  /\ main.at = "look"
  /\ main.app \notin proc_null
  /\ stopped' = IF running(main.app) THEN stopped ELSE stopped \cup {main.app}
  /\ Goes("main", "next")
  /\ UNCHANGED <<table, tableVars, level, active, quitting, left, reported, crashed, history>>

MonitorMissesProc ==
  /\ main.at = "look"
  /\ main.app \in proc_null \/ entry[main.name] # main.app
  /\ Crashes

\* Fault: the dead process with the last key is the one that is named.
MonitorNotifiesLast ==
  /\ main.at = "next"
  /\ ~ \E m \in Keys : m > main.name
  /\ reported' = reported \cup {p \in stopped : \A q \in stopped : name[p] >= name[q]}
  /\ stopped' = {}
  /\ Leaves("main")
  /\ UNCHANGED <<table, tableVars, level, active, quitting, left, crashed, history>>

\* PROCESS_DIED is one event id with one filter: of the notifications of one pass
\* of monitor() the notifier publishes the first and holds back the others, and the
\* next pass comes later than its threshold.  A map that is scanned after another
\* may find the filter used up.
MonitorNotifies ==
  /\ main.at = "next"
  /\ ~ \E m \in Keys : m > main.name
  /\ \/ reported' = reported \cup {p \in stopped : \A q \in stopped : name[p] <= name[q]}
     \/ ~scannedFirst /\ UNCHANGED reported
  /\ stopped' = {}
  /\ Leaves("main")
  /\ UNCHANGED <<table, tableVars, level, active, quitting, left, crashed, history>>

Monitor == MonitorVisits \/ MonitorLooks \/ MonitorMissesProc \/ MonitorNotifies

Quit ==
  /\ ~quitting
  /\ quitting' = TRUE
  /\ UNCHANGED <<table, tableVars, worker, level, active, left, stopped, reported, crashed,
                 history>>

\* The supervisor has no close(): its plugins go on.
CloseBegins ==
  /\ main.at = "idle" /\ quitting
  /\ left' = IF closesByKeys \/ closesInPlace THEN Keys ELSE {}
  /\ history' = IF closesByKeys \/ closesInPlace
                THEN [history EXCEPT !.closing = {entry[n] : n \in Keys}] ELSE history
  /\ Goes("main", "close")
  /\ UNCHANGED <<table, tableVars, level, active, quitting, stopped, reported, crashed>>

\* Fault: the map is cleared instead.
CloseClears ==
  /\ main.at = "close" /\ left # {}
  /\ left' = {}
  /\ entry' = [n \in Name |-> NoProc]
  /\ life' = LifeWithout({entry[n] : n \in Keys}, life)
  /\ UNCHANGED <<table, name, proc_null, worker, level, active, quitting, stopped,
                 reported, crashed, history>>

CloseUnloads ==
  LET n == Least(left) IN
  /\ main.at = "close" /\ left # {}
  /\ left' = left \ {n}
  /\ IF entry[n] # NoProc THEN UnloadFinds("main", n)
     ELSE UNCHANGED <<table, tableVars, worker, level, crashed, history>>
  /\ UNCHANGED <<active, quitting, stopped, reported>>

\* In place the loop goes on from an element that was erased: where to is not
\* defined; at best to the next key there is now.
CloseErases ==
  /\ Erases("main")
  /\ worker' = [worker EXCEPT !["main"].at = "close", !["main"].app = NoProc]
  /\ left' = IF closesInPlace THEN {n \in Keys : n > main.name} ELSE left
  /\ crashed' \in IF closesInPlace THEN BOOLEAN ELSE {FALSE}

CloseEnds ==
  /\ main.at = "close" /\ left = {}
  /\ Goes("main", "ended")
  /\ UNCHANGED <<table, tableVars, level, mainVars, crashed, history>>

Close == CloseBegins \/ CloseUnloads \/ UnloadSteps("main") \/ CloseErases \/ CloseEnds

-----------------------------------------------------------------------------
(* The processes (child_process_launcher.cpp, a program of their own).     *)

Registers(p) == life[p] = "starting" /\ life' = [life EXCEPT ![p] = "up"]
EndsAsAsked(p) == life[p] = "asked" /\ life' = [life EXCEPT ![p] = "dead"]
Dies(p) == running(p) /\ life' = [life EXCEPT ![p] = "dead"]

Process ==
  /\ \E p \in Proc : Registers(p) \/ EndsAsAsked(p) \/ Dies(p)
  /\ UNCHANGED <<table, entry, name, proc_null, worker, level, mainVars, crashed, history>>

-----------------------------------------------------------------------------
(* The commands and the loops of each layer.                               *)

loadEstimator == table = "estimators" /\ Load("load")
unloadEstimator == table = "estimators" /\ Unload
closeEstimators == table = "estimators" /\ Close
monitorEstimators == table = "estimators" /\ Monitor

loadHardware == table = "hardwares" /\ Load("load")
loadXenoHardware == table = "hardwares" /\ Load("loadOther")
unloadHardware == table = "hardwares" /\ Unload
closeHardwares == table = "hardwares" /\ Close
monitorHardwares == table = "hardwares" /\ Monitor

loadPeriodicAppPlugin == table = "plugins" /\ Load("load")
loadPythonPeriodicApp == table = "plugins" /\ Load("loadOther")
unloadPeriodicAppPlugin == table = "plugins" /\ Unload
closeSupervisor == table = "plugins" /\ Close
monitorPlugins == table = "plugins" /\ Monitor

loadService == table = "services" /\ Load("load")
unloadService == table = "services" /\ Unload
loadDataVisualizer == table = "data_visualizers_" /\ Load("load")
unloadDataVisualizer == table = "data_visualizers_" /\ Unload
loadGeneric == table = "generics" /\ Load("load")
unloadGeneric == table = "generics" /\ Unload
closeServices == closesInPlace /\ Close
monitorServices == closesInPlace /\ Monitor

EstimationLayer == loadEstimator \/ unloadEstimator \/ closeEstimators \/ monitorEstimators
HardwareLayer ==
  loadHardware \/ loadXenoHardware \/ unloadHardware \/ closeHardwares \/ monitorHardwares
Supervisor ==
  \/ loadPeriodicAppPlugin \/ loadPythonPeriodicApp \/ unloadPeriodicAppPlugin
  \/ closeSupervisor \/ monitorPlugins
ServiceLayer ==
  \/ loadService \/ unloadService \/ loadDataVisualizer \/ unloadDataVisualizer
  \/ loadGeneric \/ unloadGeneric \/ closeServices \/ monitorServices

Next ==
  /\ ~crashed
  /\ \/ EstimationLayer \/ HardwareLayer \/ Supervisor \/ ServiceLayer
     \/ OtherCommands \/ Activates \/ Deactivates \/ Quit \/ Process

Spec == Init /\ [][Next]_vars

\* The thread of a command to unload goes on, and the main thread monitors an
\* active layer and closes; nothing makes a layer active or a process end.
Fairness ==
  /\ WF_vars(~crashed /\ (UnloadSteps("unload") \/ UnloadErases \/ UnloadCounts \/ UnloadSetsLevel))
  /\ WF_vars(~crashed /\ (Monitor \/ Close))

FairSpec == Spec /\ Fairness

-----------------------------------------------------------------------------
(* Properties.                                                             *)

InHand(p) == (\E n \in Name : entry[n] = p) \/ (\E w \in Worker : Holds(w, p))
Lost(p) == running(p) /\ ~InHand(p)

\* A process that runs but that no map names and no command holds is one whose
\* child was detached, and it came from two commands that worked on its name at
\* once: two that loaded it, or a close and an unload.  Nothing else loses a
\* process, and an attached one is never lost.
OnlyRacesLoseProcesses ==
  \A p \in Proc : Lost(p) =>
    ~attached /\ name[p] \in history.twoLoads \cup history.twoUnloads

\* Past its wait an unload has seen its process end or has killed it, whether
\* the process heard of the shutdown or not; and a layer that has closed leaves
\* none of the processes it had when it began.
UnloadedIsGone ==
  /\ \A w \in Worker : worker[w].at \in {"reset", "erase"} => life[worker[w].app] = "dead"
  /\ main.at = "ended" => \A p \in history.closing : ~running(p)

\* If it was an unload that took the level to 0, and so made what is loaded
\* impossible to unload, then nothing was loaded in its map and, between commands,
\* nothing is; unless a load set the level after the unload had found the map empty
\* and before it set the level itself.  (What else takes the level to 0, deactivate
\* or the unload of another map, does so whatever is loaded.)
LoweredOnlyWhenEmpty ==
  history.lowered /\ (\A w \in Worker \ {"main"} : worker[w].at = "idle") =>
    level = 0 /\ Keys = {}

\* A command to unload ends, and with it the process, in whatever state the
\* process was.
UnloadEnds == worker["unload"].at = "ask" ~> worker["unload"].at = "idle" \/ crashed

First(p) == \E n \in Name : entry[n] = p /\ \A m \in Keys : m < n => running(entry[m])

\* Of the processes that are dead but still in the map, the one with the least
\* key is reported, as long as it stays there and the layer stays active; of a map
\* that is scanned after another nothing of the kind can be said.
FirstDeathIsReported ==
  \A p \in Proc :
    scannedFirst /\ life[p] = "dead" /\ First(p) ~>
      p \in reported \/ ~First(p) \/ p \in proc_null \/ ~active \/ quitting \/ crashed
=============================================================================
