---------------------------- MODULE LibraryProofs ----------------------------
(***************************************************************************)
(* Proofs about the parts that every process uses, for any threads, poses, *)
(* names, windows, periods and inputs: the handler of the shutdown signal  *)
(* (ShutdownSignal within ChildProcess), the shared poses (Pose), the      *)
(* periods of a component (SchedulerUtils), the statistics of a stretch of *)
(* code (MovingWindow, Profiler), the monitor of the inputs                *)
(* (TopicMonitor), the signal of a round (SignalGather), and the load of   *)
(* the machine and of a process (ResourceMonitors).                        *)
(***************************************************************************)
EXTENDS ChildProcess, Pose, SchedulerUtils, Profiler, TopicMonitor, SignalGather,
        ResourceMonitors,
        FiniteSetTheorems, SequenceTheorems, WellFoundedInduction, TLAPS

(* The shutdown signal.                                                  *)
(*                                                                         *)
(* The invocations between fetch_add and fetch_sub.                        *)
Busy == {h \in Handler : handler[h] \in {"counted", "write", "leave"}}

(* handlers_ counts them.                                                  *)
Counted == handlers = Cardinality(Busy)

(* The order release() relies on: first nobody can load the descriptor,    *)
(* then nobody holds it, then it is closed.                                *)
Released ==
  /\ owner = "new" => ~write_fd
  /\ owner \notin {"new", "gone"} => open
  /\ owner \in {"draining", "closing", "gone"} => ~write_fd
  /\ owner \in {"new", "closing", "gone"} => \A h \in Handler : handler[h] # "write"

(* Where the object is when main() is there, and when the worker runs.     *)
Lifetime ==
  /\ main = "construct" =>
       owner \in {"new", "int", "term", "undo", "release", "draining", "closing"} /\ worker = "none"
  /\ main \in {"load", "start"} => owner = "ready" /\ worker = "none"
  /\ main = "execute" => owner = "ready"
  /\ main = "destroy" =>
       owner \in {"ready", "joining", "restoring", "release", "draining", "closing"}
  /\ owner \notin {"ready", "joining"} => worker \in {"none", "done"}
  /\ main = "return" => owner = "gone"

-----------------------------------------------------------------------------
(* The counter.                                                            *)

LEMMA BusyFinite == IsFiniteSet(Busy) /\ Cardinality(Busy) \in Nat
PROOF
  <1>1. IsFiniteSet(Busy)
    BY SignalAssumption, FS_Subset DEF Busy
  <1>. QED
    BY <1>1, FS_CardinalityType

(* A step of a handler keeps the count.                                    *)
LEMMA HandleCounted ==
  ASSUME SSTypeOK, Counted, NEW h \in Handler, Handle(h) \/ Deliver(h)
  PROVE  Counted' /\ handlers' \in Nat
PROOF
  <1>1. CASE HandlerCounts(h)
    <2>1. Busy' = Busy \cup {h} /\ h \notin Busy
      BY <1>1 DEF HandlerCounts, HandlerGoes, Busy, SSTypeOK
    <2>2. Cardinality(Busy \cup {h}) = Cardinality(Busy) + 1
      BY <2>1, BusyFinite, FS_AddElement
    <2>. QED
      BY <1>1, <2>1, <2>2, BusyFinite DEF HandlerCounts, Counted
  <1>2. CASE HandlerLeaves(h)
    <2>1. Busy' = Busy \ {h} /\ h \in Busy
      BY <1>2 DEF HandlerLeaves, HandlerGoes, Busy, SSTypeOK
    <2>2. Cardinality(Busy \ {h}) = Cardinality(Busy) - 1
      BY <2>1, BusyFinite, FS_RemoveElement
    <2>3. Cardinality(Busy \ {h}) \in Nat
      BY BusyFinite, FS_Subset, FS_CardinalityType
    <2>. QED
      BY <1>2, <2>1, <2>2, <2>3, BusyFinite DEF HandlerLeaves, Counted
  <1>3. CASE HandlerLoads(h) \/ HandlerWrites(h) \/ Deliver(h)
    <2>1. Busy' = Busy
      BY <1>3 DEF HandlerLoads, HandlerWrites, Deliver, HandlerGoes, Busy, SSTypeOK
    <2>2. UNCHANGED handlers
      BY <1>3 DEF HandlerLoads, HandlerWrites, Deliver
    <2>. QED
      BY <2>1, <2>2, BusyFinite DEF Counted
  <1>. QED
    BY <1>1, <1>2, <1>3 DEF Handle

-----------------------------------------------------------------------------
(* Type correctness.                                                       *)

LEMMA HandleType ==
  ASSUME SSTypeOK, Counted, NEW h \in Handler, Handle(h) \/ Deliver(h)
  PROVE  SSTypeOK'
PROOF
  <1>1. handlers' \in Nat
    BY HandleCounted
  <1>2. pipe' \in 0..Capacity
    BY SignalAssumption
    DEF SSTypeOK, Handle, Deliver, HandlerCounts, HandlerLoads, HandlerWrites, HandlerLeaves
  <1>3. signals' \in Nat
    BY DEF SSTypeOK, Handle, Deliver, HandlerCounts, HandlerLoads, HandlerWrites, HandlerLeaves
  <1>4. handler' \in [Handler -> HandlerPlace]
    BY DEF SSTypeOK, HandlerPlace, Handle, Deliver, HandlerCounts, HandlerLoads, HandlerWrites,
           HandlerLeaves, HandlerGoes
  <1>5. UNCHANGED <<owner, write_fd, open, installed, stopping_, worker, pending>>
    BY DEF Handle, Deliver, HandlerCounts, HandlerLoads, HandlerWrites, HandlerLeaves
  <1>. QED
    BY <1>1, <1>2, <1>3, <1>4, <1>5 DEF SSTypeOK

LEMMA WorkerType ==
  ASSUME SSTypeOK, NEW accepted \in BOOLEAN,
         WorkerTests \/ WorkerPolls \/ WorkerDecides \/ CallbackReturns(accepted)
  PROVE  SSTypeOK'
PROOF
  <1>1. pipe' \in 0..Capacity
    BY SignalAssumption
    DEF SSTypeOK, WorkerTests, WorkerPolls, WorkerDecides, CallbackReturns
  <1>2. worker' \in WorkerPlace
    BY DEF WorkerPlace, WorkerTests, WorkerPolls, WorkerDecides, CallbackReturns, WorkerGoes
  <1>3. pending' \in BOOLEAN
    BY Zenon DEF SSTypeOK, WorkerTests, WorkerPolls, WorkerDecides, CallbackReturns
  <1>4. UNCHANGED <<owner, write_fd, handlers, open, installed, handler, stopping_, signals>>
    BY DEF WorkerTests, WorkerPolls, WorkerDecides, CallbackReturns
  <1>. QED
    BY <1>1, <1>2, <1>3, <1>4 DEF SSTypeOK

LEMMA OwnerType ==
  ASSUME SSTypeOK, Construct \/ Destruct \/ StartWorker
  PROVE  SSTypeOK'
PROOF
  <1>1. owner' \in OwnerPlace /\ worker' \in WorkerPlace
    BY DEF SSTypeOK, OwnerPlace, WorkerPlace, Construct, Destruct, ReleaseAll, StartWorker,
           OpenPipe, InstallSucceeds, InstallFails, UndoInstall, DestructorBegins, JoinsWorker,
           RestoreHandlers, Release, Drain, ClosePipe, OwnerGoes, WorkerGoes
  <1>2. installed' \subseteq {"SIGINT", "SIGTERM"}
    BY DEF SSTypeOK, Construct, Destruct, ReleaseAll, StartWorker, OpenPipe, InstallSucceeds,
           InstallFails, UndoInstall, DestructorBegins, JoinsWorker, RestoreHandlers, Release,
           Drain, ClosePipe
  <1>3. write_fd' \in BOOLEAN /\ open' \in BOOLEAN /\ stopping_' \in BOOLEAN
    BY DEF SSTypeOK, Construct, Destruct, ReleaseAll, StartWorker, OpenPipe, InstallSucceeds,
           InstallFails, UndoInstall, DestructorBegins, JoinsWorker, RestoreHandlers, Release,
           Drain, ClosePipe
  <1>4. UNCHANGED <<handlers, pipe, handler, pending, signals>>
    BY DEF Construct, Destruct, ReleaseAll, StartWorker, OpenPipe, InstallSucceeds,
           InstallFails, UndoInstall, DestructorBegins, JoinsWorker, RestoreHandlers, Release,
           Drain, ClosePipe
  <1>. QED
    BY <1>1, <1>2, <1>3, <1>4 DEF SSTypeOK

(* Every step is a step of a handler, of the worker or of the object, or   *)
(* leaves ShutdownSignal alone.                                            *)
LEMMA StepOfSignal ==
  ASSUME [Next]_vars
  PROVE  \/ \E h \in Handler : Handle(h) \/ Deliver(h)
         \/ WorkerTests \/ WorkerPolls \/ WorkerDecides
         \/ \E accepted \in BOOLEAN : CallbackReturns(accepted)
         \/ Construct \/ Destruct \/ StartWorker
         \/ UNCHANGED ssVars
PROOF
  <1>1. Answers => \E accepted \in BOOLEAN : CallbackReturns(accepted)
    BY DEF Answers
  <1>. QED
    BY <1>1
    DEF Next, Main, Worker, Constructs, LoadFails, ExecPython, Loads, Starts, ExecuteReturns,
        Destroys, ProcessEnds, Initializes, Quits, WorkerSteps, ReadsState, Signal,
        HandlerSteps, Destruct, vars

LEMMA TypeStep == TypeOK /\ Counted /\ [Next]_vars => TypeOK'
PROOF
  <1>. SUFFICES ASSUME TypeOK, Counted, [Next]_vars
                PROVE  TypeOK'
    OBVIOUS
  <1>1. SSTypeOK'
    <2>1. UNCHANGED ssVars => SSTypeOK'
      BY DEF TypeOK, SSTypeOK, ssVars
    <2>. QED
      BY <2>1, StepOfSignal, HandleType, WorkerType, OwnerType DEF TypeOK
  <1>2. main' \in MainPlace
    BY DEF TypeOK, MainPlace, Next, Main, Worker, Constructs, LoadFails, ExecPython, Loads,
           Starts, ExecuteReturns, Destroys, ProcessEnds, Initializes, Quits, WorkerSteps,
           ReadsState, Answers, Signal, HandlerSteps, MainGoes, childVars, vars
  <1>3. component' \in ComponentState /\ seen' \in ComponentState
    BY DEF TypeOK, ComponentState, Next, Main, Worker, Constructs, LoadFails, ExecPython, Loads,
           Starts, ExecuteReturns, Destroys, ProcessEnds, Initializes, Quits, WorkerSteps,
           ReadsState, Answers, Signal, HandlerSteps, childVars, vars
  <1>4. asked' \in BOOLEAN /\ noticed' \in BOOLEAN
    BY Zenon
    DEF TypeOK, Next, Main, Worker, Constructs, LoadFails, ExecPython, Loads,
        Starts, ExecuteReturns, Destroys, ProcessEnds, Initializes, Quits, WorkerSteps,
        ReadsState, Answers, Signal, HandlerSteps, childVars, vars
  <1>. QED
    BY <1>1, <1>2, <1>3, <1>4 DEF TypeOK

LEMMA CountedStep == TypeOK /\ Counted /\ [Next]_vars => Counted'
PROOF
  <1>. SUFFICES ASSUME TypeOK, Counted, [Next]_vars
                PROVE  Counted'
    OBVIOUS
  <1>1. UNCHANGED <<handlers, handler>> => Counted'
    BY DEF Counted, Busy
  <1>2. (\E accepted \in BOOLEAN : CallbackReturns(accepted)) => UNCHANGED <<handlers, handler>>
    BY DEF CallbackReturns
  <1>3. WorkerTests \/ WorkerPolls \/ WorkerDecides \/ Construct \/ Destruct \/ StartWorker
          \/ UNCHANGED ssVars
        => UNCHANGED <<handlers, handler>>
    BY DEF WorkerTests, WorkerPolls, WorkerDecides, Construct, Destruct, ReleaseAll, StartWorker,
           OpenPipe, InstallSucceeds, InstallFails, UndoInstall, DestructorBegins, JoinsWorker,
           RestoreHandlers, Release, Drain, ClosePipe, ssVars
  <1>. QED
    BY <1>1, <1>2, <1>3, StepOfSignal, HandleCounted DEF TypeOK

LEMMA InitCounted == Init => TypeOK /\ Counted
PROOF
  <1>. SUFFICES ASSUME Init
                PROVE  TypeOK /\ Counted
    OBVIOUS
  <1>1. Busy = {}
    BY DEF Init, SSInit, Busy
  <1>2. Counted
    BY <1>1, FS_EmptySet DEF Init, SSInit, Counted
  <1>3. pipe \in 0..Capacity /\ handlers \in Nat /\ signals \in Nat
    BY SignalAssumption DEF Init, SSInit
  <1>4. owner \in OwnerPlace /\ worker \in WorkerPlace /\ handler \in [Handler -> HandlerPlace]
    BY DEF Init, SSInit, OwnerPlace, WorkerPlace, HandlerPlace
  <1>5. main \in MainPlace /\ component \in ComponentState /\ seen \in ComponentState
    BY DEF Init, MainPlace, ComponentState
  <1>. QED
    BY <1>2, <1>3, <1>4, <1>5, Zenon DEF Init, SSInit, TypeOK, SSTypeOK

(* handlers_ in particular never goes below zero.                          *)
THEOREM TypeCorrect == Spec => []TypeOK
PROOF
  <1>1. Spec => [](TypeOK /\ Counted)
    BY InitCounted, TypeStep, CountedStep, PTL DEF Spec
  <1>. QED
    BY <1>1, PTL

-----------------------------------------------------------------------------
(* The order of the destructor and of a constructor that fails.            *)

LEMMA NobodyBusy == Counted /\ handlers = 0 => \A h \in Handler : handler[h] # "write"
PROOF
  <1>. SUFFICES ASSUME Counted, handlers = 0
                PROVE  Busy = {}
    BY DEF Busy
  <1>. QED
    BY BusyFinite, FS_EmptySet DEF Counted

LEMMA ReleasedStep == TypeOK /\ Counted /\ Released /\ [Next]_vars => Released'
PROOF
  <1>. SUFFICES ASSUME TypeOK, Counted, Released, [Next]_vars
                PROVE  Released'
    OBVIOUS
  <1>1. ASSUME NEW h \in Handler, Handle(h) \/ Deliver(h)
        PROVE  Released'
    <2>1. UNCHANGED <<owner, write_fd, open>>
      BY <1>1 DEF Handle, Deliver, HandlerCounts, HandlerLoads, HandlerWrites, HandlerLeaves
    <2>2. ASSUME owner \in {"new", "closing", "gone"}, NEW g \in Handler
          PROVE  handler'[g] # "write"
      BY <1>1, <2>2
      DEF Released, TypeOK, SSTypeOK, Handle, Deliver, HandlerCounts, HandlerLoads,
          HandlerWrites, HandlerLeaves, HandlerGoes
    <2>. QED
      BY <2>1, <2>2 DEF Released
  <1>2. ASSUME UNCHANGED <<owner, write_fd, open, handler>>
        PROVE  Released'
    BY <1>2 DEF Released
  <1>3. CASE Construct
    BY <1>3 DEF Released, Construct, OpenPipe, InstallSucceeds, InstallFails, UndoInstall, OwnerGoes
  <1>4. CASE DestructorBegins \/ JoinsWorker \/ RestoreHandlers
    BY <1>4 DEF Released, DestructorBegins, JoinsWorker, RestoreHandlers, OwnerGoes
  <1>5. CASE Release
    BY <1>5 DEF Released, Release, OwnerGoes
  <1>6. CASE Drain
    BY <1>6, NobodyBusy DEF Released, Drain, OwnerGoes
  <1>7. CASE ClosePipe
    BY <1>7 DEF Released, ClosePipe, OwnerGoes
  <1>8. ASSUME NEW accepted \in BOOLEAN, CallbackReturns(accepted)
        PROVE  Released'
    BY <1>2, <1>8 DEF CallbackReturns
  <1>9. CASE WorkerTests \/ WorkerPolls \/ WorkerDecides \/ StartWorker \/ UNCHANGED ssVars
    BY <1>2, <1>9 DEF WorkerTests, WorkerPolls, WorkerDecides, StartWorker, ssVars
  <1>. QED
    BY <1>1, <1>3, <1>4, <1>5, <1>6, <1>7, <1>8, <1>9, StepOfSignal DEF Destruct, ReleaseAll

LEMMA LifetimeStep == TypeOK /\ Lifetime /\ [Next]_vars => Lifetime'
PROOF
  <1>. SUFFICES ASSUME TypeOK, Lifetime, [Next]_vars
                PROVE  Lifetime'
    OBVIOUS
  <1>1. CASE Constructs
    BY <1>1 DEF Lifetime, Constructs, Construct, ReleaseAll, OpenPipe, InstallSucceeds,
               InstallFails, UndoInstall, Release, Drain, ClosePipe, OwnerGoes
  <1>2. CASE LoadFails \/ ExecPython \/ Loads \/ ExecuteReturns \/ ProcessEnds
    BY <1>2 DEF Lifetime, LoadFails, ExecPython, Loads, ExecuteReturns, ProcessEnds, MainGoes,
               ssVars
  <1>3. CASE Starts
    BY <1>3 DEF Lifetime, Starts, MainGoes, StartWorker, WorkerGoes
  <1>4. CASE Destroys
    BY <1>4 DEF Lifetime, Destroys, Destruct, ReleaseAll, DestructorBegins, JoinsWorker,
               RestoreHandlers, Release, Drain, ClosePipe, OwnerGoes
  <1>5. CASE Answers
    BY <1>5 DEF Lifetime, Answers, CallbackReturns, WorkerGoes
  <1>6. CASE WorkerSteps
    BY <1>6 DEF Lifetime, WorkerSteps, WorkerTests, WorkerPolls, WorkerDecides, WorkerGoes,
               childVars
  <1>7. ASSUME UNCHANGED <<main, owner, worker>>
        PROVE  Lifetime'
    BY <1>7 DEF Lifetime
  <1>8. CASE Initializes \/ Quits \/ ReadsState \/ UNCHANGED vars
    BY <1>7, <1>8 DEF Initializes, Quits, ReadsState, ssVars, childVars, vars
  <1>9. ASSUME NEW h \in Handler, Signal(h) \/ HandlerSteps(h)
        PROVE  Lifetime'
    BY <1>7, <1>9 DEF Signal, HandlerSteps, Deliver, Handle, HandlerCounts, HandlerLoads,
                     HandlerWrites, HandlerLeaves, childVars
  <1>. QED
    BY <1>1, <1>2, <1>3, <1>4, <1>5, <1>6, <1>8, <1>9 DEF Next, Main, Worker

LEMMA Reasons == Spec => [](TypeOK /\ Counted /\ Released /\ Lifetime)
PROOF
  <1>1. Init => Released /\ Lifetime
    BY DEF Init, SSInit, Released, Lifetime
  <1>. QED
    BY <1>1, InitCounted, TypeStep, CountedStep, ReleasedStep, LifetimeStep, PTL DEF Spec

(* However many handlers overlap with the destructor, or with a            *)
(* constructor that fails, none writes to a descriptor that was closed:    *)
(* counting before the descriptor is loaded is what makes it so.           *)
THEOREM DescriptorSafe == Spec => []NoWriteAfterClose
PROOF
  <1>1. Released => NoWriteAfterClose
    BY DEF Released, NoWriteAfterClose
  <1>. QED
    BY <1>1, Reasons, PTL

(* The worker calls back only while main() executes the component or       *)
(* destroys the signal's object, and never after that.                     *)
THEOREM CallbackSafe == Spec => []CallbackInLifetime
PROOF
  <1>1. TypeOK /\ Released /\ Lifetime => CallbackInLifetime
    <2>. SUFFICES ASSUME TypeOK, Released, Lifetime, Running, worker \notin {"none", "done"}
                  PROVE  main \in {"execute", "destroy"} /\ owner \in {"ready", "joining"} /\ open
      BY DEF CallbackInLifetime
    <2>1. owner \in {"ready", "joining"}
      BY DEF Lifetime
    <2>2. main \in {"execute", "destroy"}
      BY <2>1 DEF Lifetime, TypeOK, MainPlace, Running
    <2>. QED
      BY <2>1, <2>2 DEF Released
  <1>. QED
    BY <1>1, Reasons, PTL

-----------------------------------------------------------------------------
(* What a signal and the destructor wait for.                              *)

(* How far the component is when the callback can run, and what it reads.  *)
HowFar ==
  /\ stopping_ => component = "quit"
  /\ main \in {"construct", "load"} => component = "none"
  /\ main \in {"start", "execute"} => component # "none"
  /\ main = "destroy" => component = "quit"
  /\ seen # "none" => worker = "callback"
  /\ seen = "live" => component \in {"live", "quit"}
  /\ seen = "quit" => component = "quit"

(* The safety part of SignalIsHeard (shutdown_signal.cpp, the launcher's   *)
(* callback): a signal that a handler has noticed is in the pipe or in     *)
(* pending until the worker is done, the worker is done only when the      *)
(* component was asked or quits anyway, and it is never asked before it    *)
(* has left "initialization", which would discard the request.             *)
SignalIsKept ==
  /\ noticed => pipe > 0 \/ pending
  /\ worker = "done" => asked \/ component = "quit"
  /\ asked => component \in {"live", "quit"}

OwnerOrder ==
  {<<"ready", "joining">>, <<"joining", "restoring">>, <<"restoring", "release">>,
   <<"release", "draining">>, <<"draining", "closing">>, <<"closing", "gone">>}
WorkerOrder ==
  {<<"poll", "decide">>, <<"decide", "test">>, <<"callback", "test">>, <<"callback", "done">>,
   <<"test", "done">>}
HandlerOrder ==
  {<<"entered", "counted">>, <<"counted", "write">>, <<"counted", "leave">>,
   <<"write", "leave">>, <<"leave", "out">>}

DestructorAdvances ==
  main = "destroy" =>
    /\ owner' = owner \/ <<owner, owner'>> \in OwnerOrder
    /\ owner = "joining" =>
         <<worker, worker'>> \in WorkerOrder
           \/ (worker' = worker /\ (seen' = seen \/ (worker = "callback" /\ seen = "none")))
    /\ owner = "draining" =>
         /\ \A h \in Handler :
              handler'[h] = handler[h] \/ <<handler[h], handler'[h]>> \in HandlerOrder
         /\ handlers # 0 => \E h \in Handler : handler[h] \in {"counted", "write", "leave"}

(* The safety part of DestructorEnds: the destructor only goes forward,    *)
(* while it joins the worker no step of the worker leads back, nor to      *)
(* another poll or callback, and while it waits for the handlers none      *)
(* begins, so that the finite orders above are used up.                    *)
DestructorIsDirect == [][DestructorAdvances]_vars

LEMMA HowFarStep == TypeOK /\ Lifetime /\ HowFar /\ [Next]_vars => HowFar'
PROOF
  <1>. SUFFICES ASSUME TypeOK, Lifetime, HowFar, [Next]_vars
                PROVE  HowFar'
    OBVIOUS
  <1>1. CASE Constructs
    <2>1. UNCHANGED <<component, seen, worker, stopping_>> /\ main = "construct"
          /\ main' \in {"construct", "load", "return"}
      BY <1>1 DEF Constructs, Construct, ReleaseAll, OpenPipe, InstallSucceeds, InstallFails,
                 UndoInstall, Release, Drain, ClosePipe
    <2>. QED
      BY <2>1 DEF HowFar
  <1>2. CASE LoadFails \/ ExecPython \/ ExecuteReturns \/ ProcessEnds
    BY <1>2 DEF HowFar, LoadFails, ExecPython, ExecuteReturns, ProcessEnds, MainGoes, ssVars
  <1>3. CASE Loads
    <2>1. worker = "none"
      BY <1>3 DEF Lifetime, Loads, MainGoes
    <2>2. ~ stopping_ /\ seen = "none"
      BY <1>3, <2>1 DEF HowFar, Loads, MainGoes
    <2>. QED
      BY <1>3, <2>2 DEF HowFar, Loads, MainGoes, ssVars
  <1>4. CASE Starts
    BY <1>4 DEF HowFar, Starts, StartWorker, MainGoes, WorkerGoes
  <1>5. CASE Initializes \/ Quits
    BY <1>5 DEF HowFar, Initializes, Quits, ssVars
  <1>6. CASE Destroys
    <2>1. UNCHANGED <<component, seen, worker>> /\ main = "destroy"
          /\ main' \in {"destroy", "return"}
      BY <1>6 DEF Destroys, Destruct, ReleaseAll, DestructorBegins, JoinsWorker, RestoreHandlers,
                 Release, Drain, ClosePipe
    <2>. QED
      BY <2>1 DEF HowFar
  <1>7. CASE ReadsState
    BY <1>7 DEF HowFar, ReadsState, ssVars
  <1>8. CASE Answers
    BY <1>8 DEF HowFar, Answers, CallbackReturns
  <1>9. CASE WorkerSteps
    <2>1. worker # "callback" /\ UNCHANGED <<component, seen, stopping_, main>>
      BY <1>9 DEF WorkerSteps, WorkerTests, WorkerPolls, WorkerDecides, WorkerGoes, childVars
    <2>. QED
      BY <2>1 DEF HowFar
  <1>10. ASSUME NEW h \in Handler, Signal(h) \/ HandlerSteps(h)
         PROVE  HowFar'
    <2>1. UNCHANGED <<main, component, seen, worker, stopping_>>
      BY <1>10 DEF Signal, HandlerSteps, Deliver, Handle, HandlerCounts, HandlerLoads,
                  HandlerWrites, HandlerLeaves, childVars
    <2>. QED
      BY <2>1 DEF HowFar
  <1>11. CASE UNCHANGED vars
    BY <1>11 DEF HowFar, vars, ssVars, childVars
  <1>. QED
    BY <1>1, <1>2, <1>3, <1>4, <1>5, <1>6, <1>7, <1>8, <1>9, <1>10, <1>11
    DEF Next, Main, Worker

LEMMA SignalKeptStep ==
  TypeOK /\ Lifetime /\ HowFar /\ SignalIsKept /\ [Next]_vars => SignalIsKept'
PROOF
  <1>. SUFFICES ASSUME TypeOK, Lifetime, HowFar, SignalIsKept, [Next]_vars
                PROVE  SignalIsKept'
    OBVIOUS
  <1>1. ASSUME NEW h \in Handler, HandlerSteps(h)
        PROVE  SignalIsKept'
    <2>1. UNCHANGED <<worker, pending, component, asked>>
      BY <1>1 DEF HandlerSteps, Handle, HandlerCounts, HandlerLoads, HandlerWrites, HandlerLeaves
    <2>2. (noticed \/ handler[h] = "write") => pipe' > 0 \/ pending
      <3>1. CASE HandlerWrites(h)
        BY <3>1, SignalAssumption DEF HandlerWrites, TypeOK, SSTypeOK
      <3>2. CASE HandlerCounts(h) \/ HandlerLoads(h) \/ HandlerLeaves(h)
        BY <3>2 DEF HandlerCounts, HandlerLoads, HandlerLeaves, HandlerGoes, SignalIsKept
      <3>. QED
        BY <1>1, <3>1, <3>2 DEF HandlerSteps, Handle
    <2>3. noticed' = (noticed \/ handler[h] = "write")
      BY <1>1 DEF HandlerSteps
    <2>. QED
      BY <2>1, <2>2, <2>3 DEF SignalIsKept
  <1>2. CASE WorkerSteps
    <2>1. UNCHANGED <<component, asked, noticed>>
      BY <1>2 DEF WorkerSteps, childVars
    <2>2. noticed => pipe' > 0 \/ pending'
      <3>1. CASE WorkerPolls
        BY <3>1, Zenon DEF WorkerPolls, SignalIsKept
      <3>2. CASE WorkerTests \/ WorkerDecides
        BY <3>2 DEF WorkerTests, WorkerDecides, SignalIsKept
      <3>. QED
        BY <1>2, <3>1, <3>2 DEF WorkerSteps
    <2>3. worker' = "done" => component = "quit"
      BY <1>2 DEF WorkerSteps, WorkerTests, WorkerPolls, WorkerDecides, WorkerGoes, HowFar
    <2>. QED
      BY <2>1, <2>2, <2>3 DEF SignalIsKept
  <1>3. CASE Answers
    <2>1. UNCHANGED <<component, noticed, pipe, pending>>
      BY <1>3 DEF Answers, CallbackReturns
    <2>2. seen \in {"initialization", "live", "quit"}
      BY <1>3 DEF Answers, TypeOK, ComponentState
    <2>3. asked' <=> (asked \/ seen = "live")
      BY <1>3 DEF Answers
    <2>4. worker' = "done" => seen # "initialization"
      BY <1>3 DEF Answers, CallbackReturns, WorkerGoes
    <2>. QED
      BY <2>1, <2>2, <2>3, <2>4 DEF SignalIsKept, HowFar
  <1>4. CASE Constructs \/ Destroys \/ Starts
    <2>1. UNCHANGED <<pipe, pending, component, asked, noticed>> /\ (worker' = worker \/ worker' = "test")
      BY <1>4 DEF Constructs, Construct, Destroys, Destruct, ReleaseAll, OpenPipe, InstallSucceeds,
                 InstallFails, UndoInstall, DestructorBegins, JoinsWorker, RestoreHandlers,
                 Release, Drain, ClosePipe, Starts, StartWorker, WorkerGoes
    <2>. QED
      BY <2>1 DEF SignalIsKept
  <1>5. CASE Loads
    <2>1. component = "none" /\ worker = "none"
      BY <1>5 DEF Loads, MainGoes, HowFar, Lifetime
    <2>2. ~ asked
      BY <2>1 DEF SignalIsKept
    <2>. QED
      BY <1>5, <2>1, <2>2 DEF Loads, SignalIsKept, ssVars
  <1>6. CASE Initializes \/ Quits
    BY <1>6 DEF Initializes, Quits, SignalIsKept, ssVars
  <1>7. ASSUME UNCHANGED <<pipe, pending, worker, component, asked, noticed>>
        PROVE  SignalIsKept'
    BY <1>7 DEF SignalIsKept
  <1>8. CASE LoadFails \/ ExecPython \/ ExecuteReturns \/ ProcessEnds \/ ReadsState
             \/ UNCHANGED vars
    BY <1>7, <1>8 DEF LoadFails, ExecPython, ExecuteReturns, ProcessEnds, ReadsState, vars, ssVars,
                      childVars
  <1>9. ASSUME NEW h \in Handler, Signal(h)
        PROVE  SignalIsKept'
    BY <1>7, <1>9 DEF Signal, Deliver, childVars
  <1>. QED
    BY <1>1, <1>2, <1>3, <1>4, <1>5, <1>6, <1>8, <1>9 DEF Next, Main, Worker

THEOREM NoticeKept == Spec => []SignalIsKept
PROOF
  <1>1. Init => HowFar /\ SignalIsKept
    BY DEF Init, SSInit, HowFar, SignalIsKept
  <1>. QED
    BY <1>1, HowFarStep, SignalKeptStep, Reasons, PTL DEF Spec

(* What the destructor has done by then.                                   *)
Ending ==
  /\ owner \in {"new", "int", "release", "draining", "closing", "gone"} => installed = {}
  /\ owner = "joining" => stopping_

LEMMA EndingStep == Ending /\ [Next]_vars => Ending'
PROOF
  <1>. SUFFICES ASSUME Ending, [Next]_vars
                PROVE  Ending'
    OBVIOUS
  <1>1. CASE Construct \/ Destruct
    BY <1>1 DEF Ending, Construct, Destruct, ReleaseAll, OpenPipe, InstallSucceeds, InstallFails,
               UndoInstall, DestructorBegins, JoinsWorker, RestoreHandlers, Release, Drain,
               ClosePipe, OwnerGoes
  <1>2. ASSUME UNCHANGED <<owner, installed, stopping_>>
        PROVE  Ending'
    BY <1>2 DEF Ending
  <1>3. CASE WorkerTests \/ WorkerPolls \/ WorkerDecides \/ StartWorker \/ UNCHANGED ssVars
    BY <1>2, <1>3 DEF WorkerTests, WorkerPolls, WorkerDecides, StartWorker, ssVars
  <1>4. ASSUME NEW accepted \in BOOLEAN, CallbackReturns(accepted)
        PROVE  Ending'
    BY <1>2, <1>4 DEF CallbackReturns
  <1>5. ASSUME NEW h \in Handler, Handle(h) \/ Deliver(h)
        PROVE  Ending'
    BY <1>2, <1>5 DEF Deliver, Handle, HandlerCounts, HandlerLoads, HandlerWrites, HandlerLeaves
  <1>. QED
    BY <1>1, <1>3, <1>4, <1>5, StepOfSignal

LEMMA DestructorStep ==
  TypeOK /\ Counted /\ Lifetime /\ HowFar /\ Ending /\ [Next]_vars => [DestructorAdvances]_vars
PROOF
  <1>. SUFFICES ASSUME TypeOK, Counted, Lifetime, HowFar, Ending, Next, main = "destroy"
                PROVE  DestructorAdvances
    BY DEF DestructorAdvances
  <1>1. owner' = owner \/ <<owner, owner'>> \in OwnerOrder
    <2>1. CASE Destroys
      BY <2>1 DEF Destroys, Destruct, ReleaseAll, DestructorBegins, JoinsWorker, RestoreHandlers,
                  Release, Drain, ClosePipe, OwnerGoes, OwnerOrder
    <2>2. CASE Initializes \/ Quits \/ Worker
      BY <2>2 DEF Initializes, Quits, Worker, WorkerSteps, WorkerTests, WorkerPolls,
                  WorkerDecides, ReadsState, Answers, CallbackReturns, ssVars
    <2>3. ASSUME NEW h \in Handler, Signal(h) \/ HandlerSteps(h)
          PROVE  owner' = owner
      BY <2>3 DEF Signal, HandlerSteps, Deliver, Handle, HandlerCounts, HandlerLoads,
                  HandlerWrites, HandlerLeaves
    <2>. QED
      BY <2>1, <2>2, <2>3 DEF Next, Main, Constructs, LoadFails, ExecPython, Loads, Starts,
                            ExecuteReturns, ProcessEnds, MainGoes
  <1>2. ASSUME owner = "joining"
        PROVE  \/ <<worker, worker'>> \in WorkerOrder
               \/ worker' = worker /\ (seen' = seen \/ (worker = "callback" /\ seen = "none"))
    <2>1. CASE Destroys \/ Initializes \/ Quits
      BY <2>1 DEF Destroys, Destruct, ReleaseAll, DestructorBegins, JoinsWorker, RestoreHandlers,
                  Release, Drain, ClosePipe, Initializes, Quits, ssVars
    <2>2. CASE WorkerSteps
      BY <1>2, <2>2 DEF WorkerSteps, WorkerTests, WorkerPolls, WorkerDecides, WorkerGoes, Ending,
                        WorkerOrder
    <2>3. CASE ReadsState
      BY <2>3 DEF ReadsState, ssVars
    <2>4. CASE Answers
      BY <2>4 DEF Answers, CallbackReturns, WorkerGoes, WorkerOrder
    <2>5. ASSUME NEW h \in Handler, Signal(h) \/ HandlerSteps(h)
          PROVE  UNCHANGED <<worker, seen>>
      BY <2>5 DEF Signal, HandlerSteps, Deliver, Handle, HandlerCounts, HandlerLoads,
                  HandlerWrites, HandlerLeaves, childVars
    <2>. QED
      BY <2>1, <2>2, <2>3, <2>4, <2>5
      DEF Next, Main, Worker, Constructs, LoadFails, ExecPython, Loads, Starts, ExecuteReturns,
          ProcessEnds, MainGoes
  <1>3. ASSUME owner = "draining"
        PROVE  \A h \in Handler :
                 handler'[h] = handler[h] \/ <<handler[h], handler'[h]>> \in HandlerOrder
    <2>1. CASE Destroys \/ Initializes \/ Quits \/ Worker
      BY <2>1 DEF Destroys, Destruct, ReleaseAll, DestructorBegins, JoinsWorker, RestoreHandlers,
                  Release, Drain, ClosePipe, Initializes, Quits, Worker, WorkerSteps,
                  WorkerTests, WorkerPolls, WorkerDecides, ReadsState, Answers, CallbackReturns,
                  ssVars
    <2>2. ASSUME NEW h \in Handler, HandlerSteps(h)
          PROVE  \A g \in Handler :
                   handler'[g] = handler[g] \/ <<handler[g], handler'[g]>> \in HandlerOrder
      <3>1. \A g \in Handler : g # h => handler'[g] = handler[g]
        BY <2>2 DEF HandlerSteps, Handle, HandlerCounts, HandlerLoads, HandlerWrites,
                    HandlerLeaves, HandlerGoes, TypeOK, SSTypeOK
      <3>2. <<handler[h], handler'[h]>> \in HandlerOrder
        BY <2>2 DEF HandlerSteps, Handle, HandlerCounts, HandlerLoads, HandlerWrites,
                    HandlerLeaves, HandlerGoes, TypeOK, SSTypeOK, HandlerOrder
      <3>. QED
        BY <3>1, <3>2
    <2>3. ~ \E h \in Handler : Signal(h)
      BY <1>3 DEF Signal, Deliver, Ending
    <2>. QED
      BY <2>1, <2>2, <2>3 DEF Next, Main, Constructs, LoadFails, ExecPython, Loads, Starts,
                            ExecuteReturns, ProcessEnds, MainGoes
  <1>4. handlers # 0 => \E h \in Handler : handler[h] \in {"counted", "write", "leave"}
    <2>1. handlers # 0 => Busy # {}
      BY FS_EmptySet DEF Counted
    <2>. QED
      BY <2>1 DEF Busy
  <1>. QED
    BY <1>1, <1>2, <1>3, <1>4 DEF DestructorAdvances

THEOREM DestructorGoesOn == Spec => DestructorIsDirect
PROOF
  <1>1. Init => HowFar /\ Ending
    BY DEF Init, SSInit, HowFar, Ending
  <1>. QED
    BY <1>1, HowFarStep, EndingStep, DestructorStep, Reasons, PTL DEF Spec, DestructorIsDirect

-----------------------------------------------------------------------------
(* Poses.                                                                  *)
(*                                                                         *)
(* The operations, and what a thread knows of the one it is in.            *)
Ops == Binary \cup Readers \cup Setters \cup Unlocked
Two == Int \X Int

Jobs == [op : Ops \cup {"none"}, pc : {"idle", "lock", "position", "quaternion", "unlock"},
         this : Poses \cup {Nobody}, rhs : Poses \cup {Nobody},
         arg : Two, read : Two, expected : Two]

Typed ==
  /\ pose_mutex \in [Poses -> Threads \cup {Nobody}]
  /\ position \in [Poses -> Int]
  /\ quaternion \in [Poses -> Int]
  /\ job \in [Threads -> Jobs]
  /\ whole \in [Poses -> Two]
  /\ overlapped \in BOOLEAN

\* An operation is on poses, and on two of them if it is on a pair.
Begun ==
  \A t \in Threads : job[t].pc # "idle" =>
    /\ job[t].op \in Ops
    /\ job[t].this \in Poses /\ job[t].rhs \in Poses
    /\ job[t].op \in Binary => job[t].this # job[t].rhs

\* What is locked while the locks are taken, in their order.
Locking ==
  \A t \in Threads :
    /\ job[t].pc = "idle" => HeldBy(t) = {}
    /\ job[t].pc = "lock" =>
         \/ HeldBy(t) = {}
         \/ job[t].op \notin Unlocked /\ HeldBy(t) = {job[t].this}
         \/ job[t].op \in Binary /\ HeldBy(t) = {job[t].this, job[t].rhs}

Works(t) == job[t].pc \in {"position", "quaternion", "unlock"}
Half(t) == job[t].pc = "quaternion"

\* A thread that works holds what it touches, unless its operation takes no lock.
Locked ==
  \A t \in Threads : Works(t) =>
    job[t].op \in Unlocked \/ \A p \in Touched(job[t]) : pose_mutex[p] = t

\* Two threads that are half way are so on different poses.
OnOwnPoses ==
  ~ overlapped => \A t, u \in Threads :
    t # u /\ Half(t) /\ Half(u) => Touched(job[t]) \cap Touched(job[u]) = {}

\* Half way, the position is the new one and the quaternion the old one.
HalfWay ==
  ~ overlapped => \A t \in Threads : Half(t) =>
    /\ position[job[t].this] =
         NewPosition(job[t], whole[job[t].this][1], whole[Other(job[t])][1])
    /\ quaternion[job[t].this] = whole[job[t].this][2]
    /\ job[t].read[1] = whole[Other(job[t])][1]

AtRest ==
  ~ overlapped => \A p \in Poses :
    (\A t \in Threads : Half(t) => job[t].this # p) => Pair(p) = whole[p]

ReadsWhole ==
  ~ overlapped => \A t \in Threads : job[t].pc = "unlock" => job[t].read = job[t].expected

PoseInv == Typed /\ Begun /\ Locking /\ Locked /\ OnOwnPoses /\ HalfWay /\ AtRest /\ ReadsWhole

-----------------------------------------------------------------------------
(* The operators.                                                          *)

LEMMA Operations ==
  /\ Binary \cap Unlocked = {} /\ Readers \cap Unlocked = {} /\ Setters \cap Unlocked = {}
  /\ Binary \cap Readers = {} /\ Binary \cap Setters = {}
  /\ "none" \notin Ops
PROOF
  BY DEF Ops, Binary, Readers, Setters, Unlocked

LEMMA Seconds ==
  ASSUME NEW x \in Two, NEW v \in Int
  PROVE  /\ [x EXCEPT ![1] = v] = <<v, x[2]>>
         /\ [x EXCEPT ![2] = v] = <<x[1], v>>
         /\ x = <<x[1], x[2]>> /\ x[1] \in Int /\ x[2] \in Int
         /\ <<v, x[2]>> \in Two /\ <<x[1], v>> \in Two
PROOF
  BY DEF Two

LEMMA NewIsInt ==
  ASSUME NEW j \in Jobs, NEW a \in Int, NEW b \in Int
  PROVE  NewPosition(j, a, b) \in Int /\ NewQuaternion(j, a, b) \in Int
PROOF
  <1>1. j.arg[1] \in Int /\ j.arg[2] \in Int
    BY DEF Jobs, Two
  <1>2. Modulus \in Nat /\ Modulus > 0
    BY PoseAssumption
  <1>3. ASSUME NEW n \in Int PROVE n % Modulus \in Int
    BY <1>2
  <1>4. /\ (a - b) % Modulus \in Int /\ (b - a) % Modulus \in Int
        /\ (a - j.arg[1]) % Modulus \in Int /\ (j.arg[2] - a) % Modulus \in Int
    <2>1. a - b \in Int /\ b - a \in Int /\ a - j.arg[1] \in Int /\ j.arg[2] - a \in Int
      BY <1>1
    <2> QED
      BY <1>3, <2>1
  <1>5. NewPosition(j, a, b) \in Int
    BY <1>1, <1>4 DEF NewPosition
  <1>6. NewQuaternion(j, a, b) \in Int
    BY <1>1, <1>4 DEF NewQuaternion
  <1> QED
    BY <1>5, <1>6

LEMMA TouchedPoses ==
  ASSUME PoseInv, NEW t \in Threads, job[t].pc # "idle"
  PROVE  /\ job[t].this \in Poses /\ Other(job[t]) \in Poses
         /\ Touched(job[t]) = {job[t].this, Other(job[t])}
PROOF
  BY DEF PoseInv, Begun, Other, Touched

\* The locks are those of what is touched.
LEMMA LockSet ==
  ASSUME PoseInv, NEW t \in Threads, job[t].pc # "idle"
  PROVE  \/ /\ job[t].op \in Unlocked
            /\ Locks(job[t]) = << >>
         \/ /\ job[t].op \in Readers \cup Setters
            /\ Locks(job[t]) = <<job[t].this>>
            /\ Touched(job[t]) = {job[t].this}
         \/ /\ job[t].op \in Binary
            /\ Locks(job[t]) = <<job[t].this, job[t].rhs>>
            /\ Touched(job[t]) = {job[t].this, job[t].rhs}
PROOF
  <1>1. job[t].op \in Ops
    BY DEF PoseInv, Begun
  <1>2. CASE job[t].op \in Unlocked
    BY <1>2, Operations DEF Locks
  <1>3. CASE job[t].op \in Readers \cup Setters
    BY <1>3, Operations DEF Locks, Touched, Other
  <1>4. CASE job[t].op \in Binary
    BY <1>4, Operations DEF Locks, Touched, Other
  <1> QED
    BY <1>1, <1>2, <1>3, <1>4 DEF Ops
-----------------------------------------------------------------------------
(* Initially, and the steps that change no pose.                           *)

LEMMA PoseInitially ==
  ASSUME PoseInit
  PROVE  PoseInv
PROOF
  <1>1. Idle \in Jobs /\ Idle.pc = "idle"
    BY DEF Idle, Jobs, Two
  <1>2. \A t \in Threads : job[t] = Idle
    BY DEF PoseInit
  <1>3. Typed
    <2>1. pose_mutex \in [Poses -> Threads \cup {Nobody}] /\ overlapped \in BOOLEAN
      BY DEF PoseInit
    <2>2. position \in [Poses -> Int] /\ quaternion \in [Poses -> Int]
      BY DEF PoseInit
    <2>3. job \in [Threads -> Jobs]
      BY <1>1 DEF PoseInit
    <2>4. whole \in [Poses -> Two]
      <3>1. <<0, 0>> \in Two
        BY DEF Two
      <3> QED
        BY <3>1 DEF PoseInit
    <2> QED
      BY <2>1, <2>2, <2>3, <2>4 DEF Typed
  <1>4. \A t \in Threads : HeldBy(t) = {}
    BY PoseAssumption DEF PoseInit, HeldBy
  <1>5. Begun /\ Locking /\ Locked /\ OnOwnPoses /\ HalfWay /\ ReadsWhole
    BY <1>1, <1>2, <1>4 DEF Begun, Locking, Locked, Works, Half, OnOwnPoses, HalfWay, ReadsWhole
  <1>6. AtRest
    BY DEF PoseInit, AtRest, Pair
  <1> QED
    BY <1>3, <1>5, <1>6 DEF PoseInv

\* What is said of the poses stands when nobody gets half way or ends.
LEMMA PosesStand ==
  ASSUME PoseInv, UNCHANGED <<position, quaternion, whole, overlapped>>,
         \A u \in Threads : Half(u) \/ Half(u)' \/ job'[u].pc = "unlock" => job'[u] = job[u]
  PROVE  OnOwnPoses' /\ HalfWay' /\ AtRest' /\ ReadsWhole'
PROOF
  <1>1. \A u \in Threads : Half(u)' <=> Half(u)
    BY DEF Half
  <1>2. \A u \in Threads : Half(u) => job'[u] = job[u]
    OBVIOUS
  <1>3. OnOwnPoses'
    BY <1>1, <1>2 DEF PoseInv, OnOwnPoses, Touched, Other
  <1>4. HalfWay'
    BY ZenonT(60), <1>1, <1>2 DEF PoseInv, HalfWay, Other, NewPosition
  <1>5. AtRest'
    BY <1>1, <1>2 DEF PoseInv, AtRest, Pair
  <1>6. ReadsWhole'
    BY DEF PoseInv, ReadsWhole
  <1> QED
    BY <1>3, <1>4, <1>5, <1>6

LEMMA BeginKeeps ==
  ASSUME PoseInv, NEW t \in Threads, BeginSome(t)
  PROVE  PoseInv'
PROOF
  <1>1. PICK op \in Ops, this \in Poses, rhs \in Poses, arg \in Two :
          Begin(t, op, this, rhs, arg) /\ (op \in Binary => this # rhs)
    <2>1. <<0, 0>> \in Two
      BY DEF Two
    <2>2. Argument \in Two
      <3>1. 2 % Modulus \in Int
        BY PoseAssumption
      <3> QED
        BY <3>1 DEF Argument, Two
    <2>3. Binary \subseteq Ops /\ Readers \subseteq Ops /\ Setters \cup Unlocked \subseteq Ops
      BY DEF Ops
    <2>4. CASE \E op \in Binary, p, q \in Poses : p # q /\ Begin(t, op, p, q, <<0, 0>>)
      BY <2>1, <2>3, <2>4
    <2>5. CASE \E op \in Readers, p \in Poses : Begin(t, op, p, p, <<0, 0>>)
      BY <2>1, <2>3, <2>5, Operations
    <2>6. CASE \E op \in Setters \cup Unlocked, p \in Poses : Begin(t, op, p, p, Argument)
      BY <2>2, <2>3, <2>6, Operations
    <2> QED
      BY <2>4, <2>5, <2>6 DEF BeginSome
  <1> DEFINE j == [Idle EXCEPT !.op = op, !.pc = "lock", !.this = this, !.rhs = rhs, !.arg = arg]
  <1>2. /\ job[t].pc = "idle" /\ job' = [job EXCEPT ![t] = j]
        /\ UNCHANGED <<pose_mutex, position, quaternion, whole, overlapped>>
    BY <1>1 DEF Begin
  <1>3. /\ j \in Jobs /\ j.pc = "lock" /\ j.op = op /\ j.this = this /\ j.rhs = rhs
    <2>1. Idle \in Jobs
      BY DEF Idle, Jobs, Two
    <2> QED
      BY <2>1 DEF Jobs
  <1> HIDE DEF j
  <1>4. job'[t] = j /\ \A u \in Threads \ {t} : job'[u] = job[u]
    BY <1>2 DEF PoseInv, Typed
  <1>5. Typed'
    BY <1>2, <1>3 DEF PoseInv, Typed
  <1>6. Begun'
    BY <1>1, <1>3, <1>4 DEF PoseInv, Begun
  <1>7. Locking'
    BY <1>2, <1>3, <1>4 DEF PoseInv, Locking, HeldBy
  <1>8. Locked'
    BY <1>2, <1>3, <1>4 DEF PoseInv, Locked, Works, Touched, Other
  <1>9. OnOwnPoses' /\ HalfWay' /\ AtRest' /\ ReadsWhole'
    BY <1>2, <1>3, <1>4, PosesStand DEF Half
  <1> QED
    BY <1>5, <1>6, <1>7, <1>8, <1>9 DEF PoseInv

LEMMA LockKeeps ==
  ASSUME PoseInv, NEW t \in Threads, Lock(t)
  PROVE  PoseInv'
PROOF
  <1> DEFINE locks == Locks(job[t])
             n == Cardinality(HeldBy(t)) + 1
  <1>1. /\ job[t].pc = "lock"
        /\ UNCHANGED <<position, quaternion, whole, overlapped>>
    BY DEF Lock
  <1>2. job[t].this \in Poses /\ job[t].op \in Ops /\ job[t] \in Jobs
    BY <1>1 DEF PoseInv, Begun, Typed
  <1>3. /\ HeldBy(t) = {} => n = 1
        /\ HeldBy(t) = {job[t].this} => n = 2
        /\ job[t].op \in Binary /\ HeldBy(t) = {job[t].this, job[t].rhs} => n = 3
    <2>1. job[t].op \in Binary => job[t].this # job[t].rhs
      BY <1>1 DEF PoseInv, Begun
    <2>2. Cardinality({}) = 0 /\ Cardinality({job[t].this}) = 1
      BY FS_EmptySet, FS_Singleton
    <2>3. job[t].this # job[t].rhs => Cardinality({job[t].this, job[t].rhs}) = 2
      <3>1. ASSUME job[t].this # job[t].rhs
            PROVE  Cardinality({job[t].this, job[t].rhs}) = 2
        <4>1. /\ IsFiniteSet({job[t].this}) /\ Cardinality({job[t].this}) = 1
              /\ job[t].rhs \notin {job[t].this}
          BY <3>1, FS_Singleton
        <4>2. Cardinality({job[t].this} \cup {job[t].rhs}) = 1 + 1
          BY <4>1, FS_AddElement
        <4>3. {job[t].this} \cup {job[t].rhs} = {job[t].this, job[t].rhs}
          OBVIOUS
        <4> QED
          BY <4>2, <4>3
      <3> QED
        BY <3>1
    <2> QED
      BY <2>1, <2>2, <2>3
  <1>4. /\ HeldBy(t) = {} \/ (job[t].op \notin Unlocked /\ HeldBy(t) = {job[t].this})
           \/ (job[t].op \in Binary /\ HeldBy(t) = {job[t].this, job[t].rhs})
    BY <1>1 DEF PoseInv, Locking
  <1>5. CASE n > Len(locks)
    <2>1. job' = [job EXCEPT ![t].pc = "position"] /\ UNCHANGED pose_mutex
      BY <1>5 DEF Lock
    <2>2. /\ job'[t] = [job[t] EXCEPT !.pc = "position"]
          /\ \A u \in Threads \ {t} : job'[u] = job[u]
      BY <2>1 DEF PoseInv, Typed
    <2>3. /\ job'[t] \in Jobs /\ job'[t].pc = "position" /\ job'[t].op = job[t].op
          /\ job'[t].this = job[t].this /\ job'[t].rhs = job[t].rhs
      BY <1>2, <2>2 DEF Jobs
    <2>4. Typed'
      BY <1>1, <2>1, <2>2, <2>3 DEF PoseInv, Typed
    <2>5. Begun'
      <3>1. /\ job'[t].op \in Ops /\ job'[t].this \in Poses /\ job'[t].rhs \in Poses
            /\ job'[t].op \in Binary => job'[t].this # job'[t].rhs
        BY <1>1, <2>3 DEF PoseInv, Begun
      <3>2. ASSUME NEW u \in Threads \ {t}, job'[u].pc # "idle"
            PROVE  /\ job'[u].op \in Ops /\ job'[u].this \in Poses /\ job'[u].rhs \in Poses
                   /\ job'[u].op \in Binary => job'[u].this # job'[u].rhs
        BY <2>2, <3>2 DEF PoseInv, Begun
      <3> QED
        BY <3>1, <3>2 DEF Begun
    <2>6. Locking'
      BY <2>1, <2>2, <2>3 DEF PoseInv, Locking, HeldBy
    <2>7. job[t].op \in Unlocked \/ \A p \in Touched(job[t]) : pose_mutex[p] = t
      <3>1. job[t].op \in Unlocked \/ HeldBy(t) = Touched(job[t])
        <4>1. CASE job[t].op \in Readers \cup Setters
          <5>0. job[t].op \notin Unlocked /\ job[t].op \notin Binary /\ job[t].pc # "idle"
            BY <1>1, <4>1, Operations
          <5>1. Len(locks) = 1 /\ Touched(job[t]) = {job[t].this} /\ job[t].op \notin Binary
            BY <5>0, LockSet
          <5> QED
            BY <1>3, <1>4, <1>5, <5>1
        <4>2. CASE job[t].op \in Binary
          <5>1. Len(locks) = 2 /\ Touched(job[t]) = {job[t].this, job[t].rhs}
            BY <1>1, <4>2, LockSet, Operations
          <5> QED
            BY <1>3, <1>4, <1>5, <5>1
        <4> QED
          BY <1>2, <4>1, <4>2 DEF Ops
      <3> QED
        BY <3>1 DEF HeldBy
    <2>8. Locked'
      <3>1. Touched(job[t])' = Touched(job[t])
        BY <2>3 DEF Touched, Other
      <3>2. job'[t].op \in Unlocked \/ \A p \in Touched(job[t])' : pose_mutex'[p] = t
        BY <2>1, <2>3, <2>7, <3>1
      <3>3. ASSUME NEW u \in Threads \ {t}, Works(u)'
            PROVE  job'[u].op \in Unlocked \/ \A p \in Touched(job[u])' : pose_mutex'[p] = u
        BY <2>1, <2>2, <3>3 DEF PoseInv, Locked, Works, Touched, Other
      <3> QED
        BY <3>2, <3>3 DEF Locked
    <2>9. OnOwnPoses' /\ HalfWay' /\ AtRest' /\ ReadsWhole'
      BY <1>1, <2>2, <2>3, PosesStand DEF Half
    <2> QED
      BY <2>4, <2>5, <2>6, <2>8, <2>9 DEF PoseInv
  <1>6. CASE ~ (n > Len(locks))
    <2>1. /\ pose_mutex[locks[n]] = Nobody
          /\ pose_mutex' = [pose_mutex EXCEPT ![locks[n]] = t] /\ UNCHANGED job
      BY <1>6 DEF Lock
    <2>2. \/ HeldBy(t) = {} /\ locks[n] = job[t].this /\ job[t].op \notin Unlocked
          \/ HeldBy(t) = {job[t].this} /\ locks[n] = job[t].rhs /\ job[t].op \in Binary
      BY <1>1, <1>3, <1>4, <1>6, LockSet, Operations
    <2>3. locks[n] \in Poses
      BY <1>1, <2>2 DEF PoseInv, Begun
    <2> HIDE DEF locks, n
    <2> DEFINE p == locks[n]
    <2>4. pose_mutex'[p] = t /\ \A q \in Poses \ {p} : pose_mutex'[q] = pose_mutex[q]
      BY <2>1, <2>3 DEF PoseInv, Typed
    <2>5. Typed'
      BY <1>1, <2>1, <2>3 DEF PoseInv, Typed
    <2>6. Begun'
      BY <2>1 DEF PoseInv, Begun
    <2>7. HeldBy(t)' = HeldBy(t) \cup {p}
      BY <2>3, <2>4 DEF HeldBy
    <2>8. \A u \in Threads \ {t} : HeldBy(u)' = HeldBy(u)
      BY <2>1, <2>3, <2>4, PoseAssumption DEF HeldBy
    <2>9. Locking'
      <3>1. \/ job[t].op \notin Unlocked /\ HeldBy(t)' = {job[t].this}
            \/ job[t].op \in Binary /\ HeldBy(t)' = {job[t].this, job[t].rhs}
        BY <2>2, <2>7
      <3>2. UNCHANGED job
        BY <2>1
      <3> QED
        BY <1>1, <2>8, <3>1, <3>2 DEF PoseInv, Locking
    <2>10. Locked'
      <3>1. ASSUME NEW u \in Threads, Works(u), job[u].op \notin Unlocked,
                   NEW q \in Touched(job[u])
            PROVE  pose_mutex'[q] = u
        <4>1. pose_mutex[q] = u /\ q \in Poses
          BY <3>1, TouchedPoses DEF PoseInv, Locked, Works
        <4>2. q # p
          BY <2>1, <4>1, PoseAssumption
        <4> QED
          BY <2>4, <4>1, <4>2
      <3>2. UNCHANGED job
        BY <2>1
      <3> QED
        BY <3>1, <3>2 DEF Locked, Works, Touched, Other
    <2>11. OnOwnPoses' /\ HalfWay' /\ AtRest' /\ ReadsWhole'
      BY <1>1, <2>1, PosesStand DEF Half
    <2> QED
      BY <2>5, <2>6, <2>9, <2>10, <2>11 DEF PoseInv
  <1> QED
    BY <1>5, <1>6
-----------------------------------------------------------------------------
(* The two halves of an operation, and its end.                            *)

\* What a thread is about does not change with its progress.
LEMMA Progress ==
  ASSUME NEW j \in Jobs, NEW k \in Jobs,
         k.op = j.op, k.this = j.this, k.rhs = j.rhs, k.arg = j.arg
  PROVE  /\ Other(k) = Other(j) /\ Touched(k) = Touched(j)
         /\ \A a, b : NewPosition(k, a, b) = NewPosition(j, a, b)
PROOF
  BY DEF Other, Touched, NewPosition

\* A step of one thread that works, whatever it does to the poses.
LEMMA WorkStands ==
  ASSUME PoseInv, NEW t \in Threads, NEW k \in Jobs, Works(t), UNCHANGED pose_mutex,
         job' = [job EXCEPT ![t] = k], k.pc \in {"quaternion", "unlock"},
         k.op = job[t].op, k.this = job[t].this, k.rhs = job[t].rhs, k.arg = job[t].arg
  PROVE  /\ job'[t] = k /\ \A u \in Threads \ {t} : job'[u] = job[u]
         /\ job' \in [Threads -> Jobs]
         /\ Begun' /\ Locking' /\ Locked'
PROOF
  <1>1. job[t] \in Jobs /\ job[t].pc # "idle"
    BY DEF PoseInv, Typed, Works
  <1>2. job'[t] = k /\ \A u \in Threads \ {t} : job'[u] = job[u]
    BY DEF PoseInv, Typed
  <1>3. job' \in [Threads -> Jobs]
    BY DEF PoseInv, Typed
  <1>4. Begun'
    BY <1>1, <1>2 DEF PoseInv, Begun
  <1>5. Locking'
    BY <1>2 DEF PoseInv, Locking, HeldBy
  <1>6. Locked'
    <2>1. Touched(k) = Touched(job[t])
      BY <1>1, Progress
    <2>2. job'[t].op \in Unlocked \/ \A p \in Touched(job'[t]) : pose_mutex'[p] = t
      BY <1>2, <2>1 DEF PoseInv, Locked
    <2>3. ASSUME NEW u \in Threads \ {t}, Works(u)'
          PROVE  job'[u].op \in Unlocked \/ \A p \in Touched(job'[u]) : pose_mutex'[p] = u
      BY <1>2, <2>3 DEF PoseInv, Locked, Works
    <2> QED
      BY <2>2, <2>3 DEF Locked
  <1> QED
    BY <1>2, <1>3, <1>4, <1>5, <1>6

\* Two threads that work, one of them half way, touch different poses or overlap.
LEMMA DisjointOrOverlap ==
  ASSUME PoseInv, NEW t \in Threads, NEW u \in Threads \ {t},
         Works(t), Half(u), ~ Overlaps(t)
  PROVE  Touched(job[t]) \cap Touched(job[u]) = {}
PROOF
  <1>1. SUFFICES ASSUME NEW p \in Touched(job[t]), p \in Touched(job[u]) PROVE FALSE
    OBVIOUS
  <1>2. job[t].op \notin Unlocked /\ job[u].op \notin Unlocked
    BY <1>1 DEF Overlaps, Half
  <1>3. pose_mutex[p] = t /\ pose_mutex[p] = u
    BY <1>1, <1>2 DEF PoseInv, Locked, Works, Half
  <1> QED
    BY <1>3

LEMMA PositionKeeps ==
  ASSUME PoseInv, NEW t \in Threads, WorkOnPosition(t)
  PROVE  PoseInv'
PROOF
  <1> DEFINE j == job[t]
             p == job[t].this
             o == Other(job[t])
             k == [job[t] EXCEPT !.pc = "quaternion", !.read = <<position[o], job[t].read[2]>>]
  <1>1. /\ j.pc = "position"
        /\ position' = [position EXCEPT ![p] = NewPosition(j, position[p], position[o])]
        /\ overlapped' = (overlapped \/ Overlaps(t))
        /\ UNCHANGED <<pose_mutex, quaternion, whole>>
    BY DEF WorkOnPosition
  <1>2. j \in Jobs /\ Works(t) /\ p \in Poses /\ o \in Poses /\ position[o] \in Int
        /\ position[p] \in Int
    BY <1>1, TouchedPoses DEF PoseInv, Typed, Works
  <1>3. j.read \in Two /\ <<position[o], j.read[2]>> \in Two
        /\ [j.read EXCEPT ![1] = position[o]] = <<position[o], j.read[2]>>
    <2>1. j.read \in Two
      BY <1>2 DEF Jobs
    <2> QED
      BY <1>2, <2>1, Seconds
  <1>4. job' = [job EXCEPT ![t] = k]
    BY <1>1, <1>2, <1>3 DEF WorkOnPosition, PoseInv, Typed, Jobs
  <1>5. /\ k \in Jobs /\ k.pc = "quaternion" /\ k.op = j.op /\ k.this = j.this
        /\ k.rhs = j.rhs /\ k.arg = j.arg /\ k.read = <<position[o], j.read[2]>>
    BY <1>2, <1>3 DEF Jobs
  <1> HIDE DEF k
  <1>6. /\ job'[t] = k /\ \A u \in Threads \ {t} : job'[u] = job[u]
        /\ job' \in [Threads -> Jobs] /\ Begun' /\ Locking' /\ Locked'
    BY <1>1, <1>2, <1>4, <1>5, WorkStands
  <1>7. Other(k) = o /\ Touched(k) = Touched(j)
        /\ \A a, b : NewPosition(k, a, b) = NewPosition(j, a, b)
    BY <1>2, <1>5, Progress
  <1>8. Typed'
    <2>1. NewPosition(j, position[p], position[o]) \in Int
      BY <1>2, NewIsInt
    <2>2. position' \in [Poses -> Int]
      BY <1>1, <1>2, <2>1 DEF PoseInv, Typed
    <2>3. overlapped' \in BOOLEAN
      BY <1>1 DEF PoseInv, Typed, Overlaps
    <2> QED
      BY <1>1, <1>6, <2>2, <2>3 DEF PoseInv, Typed
  <1>9. ASSUME ~ overlapped', NEW u \in Threads \ {t}, Half(u)
        PROVE  Touched(j) \cap Touched(job[u]) = {}
    BY <1>1, <1>2, <1>9, DisjointOrOverlap
  <1>10. \A u \in Threads \ {t} : Half(u)' <=> Half(u)
    BY <1>6 DEF Half
  <1>11. Touched(j) = {p, o}
    BY <1>1, TouchedPoses
  <1>12. ~ overlapped' => ~ overlapped
    BY <1>1 DEF PoseInv, Typed
  <1>13. ASSUME ~ overlapped', NEW u \in Threads \ {t}, Half(u)
         PROVE  job[u].this \in Poses /\ job[u].this # p /\ job[u].this # o
    BY <1>9, <1>11, <1>13, TouchedPoses DEF Half
  <1>14. OnOwnPoses'
    <2>1. ASSUME ~ overlapped', NEW v \in Threads, NEW u \in Threads, v # u, Half(v)', Half(u)'
          PROVE  Touched(job'[v]) \cap Touched(job'[u]) = {}
      <3>1. CASE v = t
        BY <1>6, <1>7, <1>9, <1>10, <2>1, <3>1
      <3>2. CASE u = t
        BY <1>6, <1>7, <1>9, <1>10, <2>1, <3>2
      <3>3. CASE v # t /\ u # t
        BY <1>6, <1>10, <1>12, <2>1, <3>3 DEF PoseInv, OnOwnPoses
      <3> QED
        BY <3>1, <3>2, <3>3
    <2> QED
      BY <2>1 DEF OnOwnPoses
  <1>15. ASSUME ~ overlapped' PROVE Pair(p) = whole[p] /\ Pair(o) = whole[o]
    <2>1. \A u \in Threads : Half(u) => job[u].this # p /\ job[u].this # o
      BY <1>1, <1>13, <1>15 DEF Half
    <2> QED
      BY <1>2, <1>12, <1>15, <2>1 DEF PoseInv, AtRest
  <1>16. HalfWay'
    <2>1. ASSUME ~ overlapped'
          PROVE  /\ position'[p] = NewPosition(k, whole[p][1], whole[o][1])
                 /\ quaternion[p] = whole[p][2]
                 /\ k.read[1] = whole[o][1]
      <3>1. /\ whole[p] = <<position[p], quaternion[p]>> /\ whole[o] = <<position[o], quaternion[o]>>
        BY <1>15, <2>1 DEF Pair
      <3>2. /\ position[p] = whole[p][1] /\ quaternion[p] = whole[p][2]
            /\ position[o] = whole[o][1]
        BY <3>1
      <3>3. position'[p] = NewPosition(j, position[p], position[o])
        BY <1>1, <1>2 DEF PoseInv, Typed
      <3>4. k.read[1] = position[o]
        BY <1>5
      <3> QED
        BY <1>7, <3>2, <3>3, <3>4
    <2>2. ASSUME ~ overlapped', NEW u \in Threads \ {t}, Half(u)
          PROVE  position'[job[u].this] = position[job[u].this]
      BY <1>1, <1>13, <2>2 DEF PoseInv, Typed
    <2>3. ASSUME ~ overlapped', NEW u \in Threads, Half(u)'
          PROVE  /\ position'[job'[u].this] =
                      NewPosition(job'[u], whole[job'[u].this][1], whole[Other(job'[u])][1])
                 /\ quaternion[job'[u].this] = whole[job'[u].this][2]
                 /\ job'[u].read[1] = whole[Other(job'[u])][1]
      <3>1. CASE u = t
        BY <1>5, <1>6, <1>7, <2>1, <2>3, <3>1
      <3>2. CASE u # t
        <4>1. Half(u) /\ job'[u] = job[u]
          BY <1>6, <1>10, <2>3, <3>2
        <4> QED
          BY <1>12, <2>2, <2>3, <3>2, <4>1 DEF PoseInv, HalfWay
      <3> QED
        BY <3>1, <3>2
    <2> QED
      BY <1>1, <2>3 DEF HalfWay
  <1>17. AtRest'
    <2>1. ASSUME ~ overlapped', NEW q \in Poses, \A u \in Threads : Half(u)' => job'[u].this # q
          PROVE  <<position'[q], quaternion[q]>> = whole[q]
      <3>1. q # p
        BY <1>5, <1>6, <2>1 DEF Half
      <3>2. \A u \in Threads : Half(u) => job[u].this # q
        BY <1>1, <1>6, <1>10, <2>1 DEF Half
      <3>3. Pair(q) = whole[q]
        BY <1>12, <2>1, <3>2 DEF PoseInv, AtRest
      <3>4. position'[q] = position[q]
        BY <1>1, <3>1 DEF PoseInv, Typed
      <3> QED
        BY <3>3, <3>4 DEF Pair
    <2> QED
      BY <1>1, <2>1 DEF AtRest, Pair
  <1>18. ReadsWhole'
    BY <1>5, <1>6, <1>12 DEF PoseInv, ReadsWhole
  <1> QED
    BY <1>6, <1>8, <1>14, <1>16, <1>17, <1>18 DEF PoseInv
LEMMA QuaternionKeeps ==
  ASSUME PoseInv, NEW t \in Threads, WorkOnQuaternion(t)
  PROVE  PoseInv'
PROOF
  <1> DEFINE j == job[t]
             p == job[t].this
             o == Other(job[t])
             both == <<NewPosition(j, whole[p][1], whole[o][1]),
                       NewQuaternion(j, whole[p][2], whole[o][2])>>
             k == [job[t] EXCEPT !.pc = "unlock", !.read = <<job[t].read[1], quaternion[o]>>,
                                 !.expected = whole[o]]
  <1>1. /\ j.pc = "quaternion"
        /\ quaternion' = [quaternion EXCEPT ![p] = NewQuaternion(j, quaternion[p], quaternion[o])]
        /\ whole' = [whole EXCEPT ![p] = both]
        /\ overlapped' = (overlapped \/ Overlaps(t))
        /\ UNCHANGED <<pose_mutex, position>>
    BY DEF WorkOnQuaternion
  <1>2. j \in Jobs /\ Works(t) /\ Half(t) /\ p \in Poses /\ o \in Poses
        /\ quaternion[o] \in Int /\ quaternion[p] \in Int
        /\ whole[p] \in Two /\ whole[o] \in Two
    BY <1>1, TouchedPoses DEF PoseInv, Typed, Works, Half
  <1>3. /\ j.read \in Two /\ <<j.read[1], quaternion[o]>> \in Two
        /\ [j.read EXCEPT ![2] = quaternion[o]] = <<j.read[1], quaternion[o]>>
    <2>1. j.read \in Two
      BY <1>2 DEF Jobs
    <2> QED
      BY <1>2, <2>1, Seconds
  <1>4. job' = [job EXCEPT ![t] = k]
    BY <1>1, <1>2, <1>3 DEF WorkOnQuaternion, PoseInv, Typed, Jobs
  <1>5. /\ k \in Jobs /\ k.pc = "unlock" /\ k.op = j.op /\ k.this = j.this
        /\ k.rhs = j.rhs /\ k.arg = j.arg /\ k.read = <<j.read[1], quaternion[o]>>
        /\ k.expected = whole[o]
    BY <1>2, <1>3 DEF Jobs
  <1> HIDE DEF k
  <1>6. /\ job'[t] = k /\ \A u \in Threads \ {t} : job'[u] = job[u]
        /\ job' \in [Threads -> Jobs] /\ Begun' /\ Locking' /\ Locked'
    BY <1>1, <1>2, <1>4, <1>5, WorkStands
  <1>7. both \in Two
    <2>1. /\ whole[p][1] \in Int /\ whole[p][2] \in Int
          /\ whole[o][1] \in Int /\ whole[o][2] \in Int
      BY <1>2, Seconds
    <2>2. /\ NewPosition(j, whole[p][1], whole[o][1]) \in Int
          /\ NewQuaternion(j, whole[p][2], whole[o][2]) \in Int
      BY <1>2, <2>1, NewIsInt
    <2> QED
      BY <2>2 DEF Two
  <1>8. Typed'
    <2>1. NewQuaternion(j, quaternion[p], quaternion[o]) \in Int
      BY <1>2, NewIsInt
    <2>2. quaternion' \in [Poses -> Int]
      BY <1>1, <1>2, <2>1 DEF PoseInv, Typed
    <2>3. whole' \in [Poses -> Two]
      BY <1>1, <1>2, <1>7 DEF PoseInv, Typed
    <2>4. overlapped' \in BOOLEAN
      BY <1>1 DEF PoseInv, Typed, Overlaps
    <2> QED
      BY <1>1, <1>6, <2>2, <2>3, <2>4 DEF PoseInv, Typed
  <1>9. whole'[p] = both /\ \A q \in Poses \ {p} : whole'[q] = whole[q] /\ quaternion'[q] = quaternion[q]
    BY <1>1, <1>2 DEF PoseInv, Typed
  <1> HIDE DEF both
  <1>10. \A u \in Threads : Half(u)' <=> u # t /\ Half(u)
    BY <1>5, <1>6 DEF Half
  <1>11. ~ overlapped' => ~ overlapped
    BY <1>1 DEF PoseInv, Typed
  <1>12. ASSUME ~ overlapped', NEW u \in Threads \ {t}, Half(u)
         PROVE  /\ job[u].this \in Poses \ {p} /\ Other(job[u]) \in Poses \ {p}
                /\ job[u].this # o
    <2>1. Touched(j) \cap Touched(job[u]) = {}
      BY <1>2, <1>11, <1>12 DEF PoseInv, OnOwnPoses
    <2>2. Touched(j) = {p, o}
      BY <1>1, TouchedPoses
    <2>3. /\ Touched(job[u]) = {job[u].this, Other(job[u])}
          /\ job[u].this \in Poses /\ Other(job[u]) \in Poses
      BY <1>12, TouchedPoses DEF Half
    <2> QED
      BY <2>1, <2>2, <2>3
  <1>13. OnOwnPoses'
    <2>1. ASSUME ~ overlapped', NEW v \in Threads, NEW u \in Threads, v # u, Half(v)', Half(u)'
          PROVE  Touched(job'[v]) \cap Touched(job'[u]) = {}
      <3>1. job'[v] = job[v] /\ job'[u] = job[u] /\ Half(v) /\ Half(u)
        BY <1>6, <1>10, <2>1
      <3> QED
        BY <1>11, <2>1, <3>1 DEF PoseInv, OnOwnPoses
    <2> QED
      BY <2>1 DEF OnOwnPoses
  <1>14. HalfWay'
    <2>1. ASSUME ~ overlapped', NEW u \in Threads, Half(u)'
          PROVE  /\ position[job'[u].this] =
                      NewPosition(job'[u], whole'[job'[u].this][1], whole'[Other(job'[u])][1])
                 /\ quaternion'[job'[u].this] = whole'[job'[u].this][2]
                 /\ job'[u].read[1] = whole'[Other(job'[u])][1]
      <3>1. u # t /\ Half(u) /\ job'[u] = job[u]
        BY <1>6, <1>10, <2>1
      <3>2. /\ whole'[job[u].this] = whole[job[u].this]
            /\ quaternion'[job[u].this] = quaternion[job[u].this]
            /\ whole'[Other(job[u])] = whole[Other(job[u])]
        BY <1>9, <1>12, <2>1, <3>1
      <3>3. /\ position[job[u].this] =
                 NewPosition(job[u], whole[job[u].this][1], whole[Other(job[u])][1])
            /\ quaternion[job[u].this] = whole[job[u].this][2]
            /\ job[u].read[1] = whole[Other(job[u])][1]
        BY <1>11, <2>1, <3>1 DEF PoseInv, HalfWay
      <3> QED
        BY <3>1, <3>2, <3>3
    <2> QED
      BY <1>1, <2>1 DEF HalfWay
  <1>15. ASSUME ~ overlapped'
         PROVE  /\ position[p] = NewPosition(j, whole[p][1], whole[o][1])
                /\ quaternion[p] = whole[p][2] /\ quaternion[o] = whole[o][2]
                /\ j.read[1] = whole[o][1]
    <2>1. /\ position[p] = NewPosition(j, whole[p][1], whole[o][1])
          /\ quaternion[p] = whole[p][2] /\ j.read[1] = whole[o][1]
      BY <1>2, <1>11, <1>15 DEF PoseInv, HalfWay
    <2>2. ASSUME o # p PROVE quaternion[o] = whole[o][2]
      <3>1. \A u \in Threads : Half(u) => job[u].this # o
        BY <1>12, <1>15, <2>2
      <3>2. Pair(o) = whole[o]
        BY <1>2, <1>11, <1>15, <3>1 DEF PoseInv, AtRest
      <3>3. whole[o] = <<position[o], quaternion[o]>>
        BY <3>2 DEF Pair
      <3> QED
        BY <3>3
    <2> QED
      BY <2>1, <2>2
  <1>16. AtRest'
    <2>1. ASSUME ~ overlapped', NEW q \in Poses, \A u \in Threads : Half(u)' => job'[u].this # q
          PROVE  <<position[q], quaternion'[q]>> = whole'[q]
      <3>1. CASE q = p
        <4>1. quaternion'[p] = NewQuaternion(j, quaternion[p], quaternion[o])
          BY <1>1, <1>2 DEF PoseInv, Typed
        <4>2. quaternion'[p] = NewQuaternion(j, whole[p][2], whole[o][2])
          BY <1>15, <2>1, <4>1
        <4> QED
          BY <1>9, <1>15, <2>1, <3>1, <4>2 DEF both
      <3>2. CASE q # p
        <4>1. \A u \in Threads : Half(u) => job[u].this # q
          BY <1>6, <1>10, <2>1, <3>2
        <4>2. Pair(q) = whole[q]
          BY <1>11, <2>1, <4>1 DEF PoseInv, AtRest
        <4> QED
          BY <1>9, <3>2, <4>2 DEF Pair
      <3> QED
        BY <3>1, <3>2
    <2> QED
      BY <1>1, <2>1 DEF AtRest, Pair
  <1>17. ReadsWhole'
    <2>1. ASSUME ~ overlapped' PROVE k.read = k.expected
      <3>1. k.read = <<whole[o][1], whole[o][2]>>
        BY <1>5, <1>15, <2>1
      <3>2. whole[o] = <<whole[o][1], whole[o][2]>>
        BY <1>2, Seconds
      <3> QED
        BY <1>5, <3>1, <3>2
    <2>2. ASSUME ~ overlapped', NEW u \in Threads, job'[u].pc = "unlock"
          PROVE  job'[u].read = job'[u].expected
      <3>1. CASE u = t
        BY <1>6, <2>1, <2>2, <3>1
      <3>2. CASE u # t
        BY <1>6, <1>11, <2>2, <3>2 DEF PoseInv, ReadsWhole
      <3> QED
        BY <3>1, <3>2
    <2> QED
      BY <2>2 DEF ReadsWhole
  <1> QED
    BY <1>6, <1>8, <1>13, <1>14, <1>16, <1>17 DEF PoseInv

LEMMA UnlockKeeps ==
  ASSUME PoseInv, NEW t \in Threads, Unlock(t)
  PROVE  PoseInv'
PROOF
  <1>1. /\ job[t].pc = "unlock"
        /\ pose_mutex' = [p \in Poses |-> IF pose_mutex[p] = t THEN Nobody ELSE pose_mutex[p]]
        /\ job' = [job EXCEPT ![t] = Idle]
        /\ UNCHANGED <<position, quaternion, whole, overlapped>>
    BY DEF Unlock
  <1>2. Idle \in Jobs /\ Idle.pc = "idle"
    BY DEF Idle, Jobs, Two
  <1>3. job'[t] = Idle /\ \A u \in Threads \ {t} : job'[u] = job[u]
    BY <1>1 DEF PoseInv, Typed
  <1>4. Typed'
    BY <1>1, <1>2 DEF PoseInv, Typed
  <1>5. Begun'
    BY <1>2, <1>3 DEF PoseInv, Begun
  <1>6. HeldBy(t)' = {}
    BY <1>1, PoseAssumption DEF HeldBy
  <1>7. ASSUME NEW u \in Threads \ {t} PROVE HeldBy(u)' = HeldBy(u)
    BY <1>1, <1>7, PoseAssumption DEF HeldBy
  <1>8. Locking'
    BY <1>2, <1>3, <1>6, <1>7 DEF PoseInv, Locking
  <1>9. Locked'
    <2>1. ASSUME NEW u \in Threads, Works(u)', job'[u].op \notin Unlocked, NEW p \in Touched(job'[u])
          PROVE  pose_mutex'[p] = u
      <3>1. u # t /\ job'[u] = job[u] /\ Works(u)
        BY <1>2, <1>3, <2>1 DEF Works
      <3>2. pose_mutex[p] = u /\ p \in Poses
        BY <2>1, <3>1, TouchedPoses DEF PoseInv, Locked, Works
      <3> QED
        BY <1>1, <3>1, <3>2
    <2> QED
      BY <2>1 DEF Locked
  <1>10. OnOwnPoses' /\ HalfWay' /\ AtRest' /\ ReadsWhole'
    BY <1>1, <1>2, <1>3, PosesStand DEF Half
  <1> QED
    BY <1>4, <1>5, <1>8, <1>9, <1>10 DEF PoseInv

LEMMA PoseInductive ==
  ASSUME PoseInv, [PoseNext]_poseVars
  PROVE  PoseInv'
PROOF
  <1>1. CASE UNCHANGED poseVars
    <2>1. Typed' /\ Begun' /\ Locking' /\ Locked'
      BY <1>1 DEF poseVars, PoseInv, Typed, Begun, Locking, Locked, HeldBy, Works, Touched, Other
    <2>2. OnOwnPoses' /\ HalfWay' /\ AtRest' /\ ReadsWhole'
      BY <1>1, PosesStand DEF poseVars
    <2> QED
      BY <2>1, <2>2 DEF PoseInv
  <1>2. CASE \E t \in Threads : PoseStep(t)
    BY <1>2, BeginKeeps, LockKeeps, PositionKeeps, QuaternionKeeps, UnlockKeeps DEF PoseStep
  <1> QED
    BY <1>1, <1>2 DEF PoseNext

\* The strengthened invariant: between the lock and the unlock of an operation
\* (pose.cpp), who is half way is alone on its poses and has done its first half.
THEOREM PoseInvariant == PoseSpec => []PoseInv
PROOF
  BY PoseInitially, PoseInductive, PTL DEF PoseSpec

\* However threads use the poses they share, and whichever poses their operations
\* take: unless the set of two arrays has overlapped another operation, no read
\* mixes two writes and a pose at rest is what whole operations have made of it
\* (pose.hpp:20 "a thread-safe class").
THEOREM PosesAtomic == PoseSpec => []OperationsAreAtomic
PROOF
  <1>1. PoseInv => OperationsAreAtomic
    BY DEF PoseInv, OperationsAreAtomic, ReadsWhole, AtRest, Half
  <1> QED
    BY <1>1, PoseInvariant, PTL
-----------------------------------------------------------------------------
(* The periods of a component.                                             *)
(*                                                                         *)
(* Division by a positive number, and what divides a multiple of it.       *)
LEMMA Division ==
  ASSUME NEW p \in Int, p > 0, NEW x \in Int
  PROVE  x \div p \in Int /\ x % p \in 0 .. (p - 1) /\ x = p * (x \div p) + (x % p)
  OBVIOUS

LEMMA MultipleDivides ==
  ASSUME NEW p \in Int, p > 0, NEW k \in Int
  PROVE  (p * k) % p = 0
PROOF
  <1> DEFINE a == (p * k) \div p
             b == (p * k) % p
  <1>1. p * k \in Int   OBVIOUS
  <1>2. a \in Int /\ b \in 0 .. (p - 1) /\ p * k = p * a + b   BY <1>1, Division
  <1> HIDE DEF a, b
  <1>3. CASE k = a   BY <1>2, <1>3
  <1>4. CASE k > a
    <2>1. k - a >= 1 /\ k - a \in Int   BY <1>2, <1>4
    <2>2. p * (k - a) >= p   BY <2>1
    <2>3. p * (k - a) = p * k - p * a   BY <1>2
    <2> QED BY <1>2, <2>2, <2>3
  <1>5. CASE k < a
    <2>1. a - k >= 1 /\ a - k \in Int   BY <1>2, <1>5
    <2>2. p * (a - k) >= p   BY <2>1
    <2>3. p * (a - k) = p * a - p * k   BY <1>2
    <2> QED BY <1>2, <2>2, <2>3
  <1>6. b = 0   BY <1>2, <1>3, <1>4, <1>5
  <1> QED BY <1>6 DEF b

(* The slot that follows d when it is now already.                         *)
LEMMA NextSlot ==
  ASSUME NEW p \in Int, p > 0, NEW d \in Int, NEW now \in Int, d <= now,
         NEW m, m = IF now > d + p THEN (now - (d + p)) \div p + 1 ELSE 0,
         NEW next, next = (d + p) + p * m
  PROVE  next \in Int /\ next > d /\ (next - d) % p = 0 /\ next - now \in 0 .. p
PROOF
  <1> DEFINE x == now - (d + p)
             q == x \div p
             r == x % p
  <1>1. x \in Int /\ q \in Int /\ r \in 0 .. (p - 1) /\ x = p * q + r   BY Division
  <1>2. m = IF x > 0 THEN q + 1 ELSE 0   OBVIOUS
  <1>3. now = d + p + x   OBVIOUS
  <1> HIDE DEF x, q, r
  <1>4. m \in Int /\ m >= 0
    <2>1. CASE x > 0
      <3>1. q >= 0
        <4> SUFFICES ASSUME q <= -1 PROVE FALSE   BY <1>1
        <4>1. p * q <= p * (-1)   BY <1>1
        <4> QED BY <1>1, <2>1, <4>1
      <3> QED BY <1>1, <1>2, <2>1, <3>1
    <2> QED BY <1>2, <2>1
  <1>5. next - d = p * (m + 1)   BY <1>4
  <1>6. (next - d) % p = 0
    <2>1. m + 1 \in Int   BY <1>4
    <2>2. (p * (m + 1)) % p = 0   BY <2>1, MultipleDivides
    <2> QED BY <1>5, <2>2
  <1>7. p * m \in Int /\ p * m >= 0   BY <1>4
  <1>8. next \in Int /\ next > d   BY <1>7
  <1>9. next - now \in 0 .. p
    <2>1. CASE x > 0
      <3>1. p * m = p * q + p   BY <1>1, <1>2, <2>1
      <3>2. next - now = p - r   BY <1>1, <1>3, <3>1
      <3> QED BY <1>1, <3>2
    <2>2. CASE ~ (x > 0)
      <3>1. p * m = 0   BY <1>2, <2>2
      <3> QED BY <1>1, <1>3, <2>2, <3>1
    <2> QED BY <2>1, <2>2
  <1> QED BY <1>6, <1>8, <1>9

(* The variables of a component that keeps a period.                       *)
SchedulerTyped ==
  /\ sched_policy \in Supported \cup {"SCHED_RR"}
  /\ cycle \in {"outside", "working", "asleep", "thrown"}
  /\ period \in Int /\ curr_time_factor \in Int /\ realTimeFactor \in Int
  /\ desired_time \in Int /\ slot \in Int /\ steady_clock \in Int

(* What the kernel was told is the policy of the factor in use; a cycle    *)
(* works at its slot or later, and then sleeps until the next one.         *)
SchedulerInv ==
  /\ SchedulerTyped
  /\ cycle \in {"working", "asleep"} =>
       /\ sched_policy \in Supported
       /\ scheduler_attributes = setSchedulerPolicy(curr_time_factor)
  /\ cycle = "working" /\ sched_policy # "SCHED_DEADLINE" => desired_time <= steady_clock
  /\ SlotsAreKept

LEMMA SchedulerInitially == SchedulerInit => SchedulerInv
  BY SchedulerAssumption
  DEF SchedulerInit, SchedulerInv, SchedulerTyped, SlotsAreKept, Supported

LEMMA CycleEndsKeeps == ASSUME SchedulerInv, CycleEnds PROVE SchedulerInv'
PROOF
  <1> DEFINE p == effective_period(realTimeFactor)
  <1>1. cycle = "working" /\ curr_time_factor' = realTimeFactor
        /\ UNCHANGED <<sched_policy, period, realTimeFactor, steady_clock>>
    BY DEF CycleEnds
  <1>2. /\ sched_policy' \in Supported
        /\ scheduler_attributes' = setSchedulerPolicy(curr_time_factor)'
    BY <1>1 DEF CycleEnds, SchedulerInv, setSchedulerPolicy, effective_period
  <1>3. p \in Int   BY DEF SchedulerInv, SchedulerTyped, effective_period
  <1>4. p = effective_period(curr_time_factor)'   BY <1>1 DEF effective_period
  <1>5. CASE sched_policy = "SCHED_DEADLINE"
    <2>1. cycle' = "asleep" /\ UNCHANGED <<desired_time, slot>>
      BY <1>5 DEF CycleEnds, executeEndLoopTask
    <2> QED BY <1>1, <1>2, <1>5, <2>1 DEF SchedulerInv, SchedulerTyped, SlotsAreKept
  <1>6. CASE sched_policy # "SCHED_DEADLINE" /\ p <= 0
    <2>1. cycle' = "thrown" /\ UNCHANGED <<desired_time, slot>>
      BY <1>6 DEF CycleEnds, executeEndLoopTask
    <2> QED BY <1>1, <2>1 DEF SchedulerInv, SchedulerTyped, SlotsAreKept
  <1>7. CASE sched_policy # "SCHED_DEADLINE" /\ p > 0
    <2> DEFINE wake == desired_time + p
    <2>1. /\ desired_time' = wake + p * missed_periods(wake, p)
          /\ slot' = desired_time /\ cycle' = "asleep"
      BY <1>3, <1>7 DEF CycleEnds, executeEndLoopTask
    <2>2. missed_periods(wake, p) = IF steady_clock > wake THEN (steady_clock - wake) \div p + 1 ELSE 0
      BY DEF missed_periods
    <2>3. desired_time \in Int /\ steady_clock \in Int /\ desired_time <= steady_clock
      BY <1>1, <1>7 DEF SchedulerInv, SchedulerTyped
    <2> HIDE DEF p
    <2>4. /\ desired_time' \in Int /\ desired_time' > desired_time
          /\ (desired_time' - desired_time) % p = 0 /\ desired_time' - steady_clock \in 0 .. p
      BY <1>3, <1>7, <2>1, <2>2, <2>3, NextSlot
    <2> QED BY <1>1, <1>2, <1>4, <2>1, <2>3, <2>4 DEF SchedulerInv, SchedulerTyped, SlotsAreKept
  <1> QED BY <1>3, <1>5, <1>6, <1>7

(* What the kernel should have been told, while nothing is configured.      *)
LEMMA PolicyStands ==
  ASSUME UNCHANGED <<sched_policy, period, curr_time_factor>>
  PROVE  /\ setSchedulerPolicy(curr_time_factor)' = setSchedulerPolicy(curr_time_factor)
         /\ effective_period(curr_time_factor)' = effective_period(curr_time_factor)
  BY DEF setSchedulerPolicy, effective_period

(* Every step of the component, of its clock and of the time factor.       *)
LEMMA SchedulerInductive == SchedulerInv /\ [SchedulerNext]_schedulerVars => SchedulerInv'
PROOF
  <1> SUFFICES ASSUME SchedulerInv, [SchedulerNext]_schedulerVars PROVE SchedulerInv'
    OBVIOUS
  <1>1. ASSUME RunBegins PROVE SchedulerInv'
    <2>1. /\ UNCHANGED <<sched_policy, period, curr_time_factor, realTimeFactor, steady_clock>>
          /\ cycle' \in {"working", "thrown"}
          /\ cycle' = "working" => /\ sched_policy \in Supported
                                   /\ scheduler_attributes' = setSchedulerPolicy(curr_time_factor)
          /\ desired_time' = IF sched_policy # "SCHED_DEADLINE" THEN steady_clock ELSE desired_time
          /\ slot' = desired_time'
      BY <1>1 DEF RunBegins
    <2>2. SchedulerTyped'   BY <2>1 DEF SchedulerInv, SchedulerTyped
    <2>3. cycle' = "working" => scheduler_attributes' = setSchedulerPolicy(curr_time_factor)'
      BY <2>1, PolicyStands
    <2>4. sched_policy # "SCHED_DEADLINE" => desired_time' <= steady_clock'
      BY <2>1 DEF SchedulerInv, SchedulerTyped
    <2> QED BY <2>1, <2>2, <2>3, <2>4 DEF SchedulerInv, SlotsAreKept
  <1>2. ASSUME RunEnds PROVE SchedulerInv'
    BY <1>2 DEF RunEnds, SchedulerInv, SchedulerTyped, SlotsAreKept
  <1>3. ASSUME UNCHANGED <<sched_policy, period, scheduler_attributes, curr_time_factor,
                           desired_time, cycle, slot>>,
               realTimeFactor' \in Int, steady_clock' \in Int,
               steady_clock' = steady_clock \/ (cycle # "asleep" /\ steady_clock' > steady_clock)
        PROVE  SchedulerInv'
    <2>1. SchedulerTyped'   BY <1>3 DEF SchedulerInv, SchedulerTyped
    <2>2. SlotsAreKept'   BY <1>3, PolicyStands DEF SchedulerInv, SlotsAreKept
    <2>3. cycle = "working" /\ sched_policy # "SCHED_DEADLINE" => desired_time <= steady_clock'
      BY <1>3 DEF SchedulerInv, SchedulerTyped
    <2> QED BY <1>3, <2>1, <2>2, <2>3, PolicyStands DEF SchedulerInv
  <1>4. CASE TimePasses
    BY <1>3, <1>4 DEF TimePasses, SchedulerInv, SchedulerTyped
  <1>5. CASE \E factor \in TimeFactors : setRealTimeFactor(factor)
    BY <1>3, <1>5, SchedulerAssumption DEF setRealTimeFactor, SchedulerInv, SchedulerTyped
  <1>6. ASSUME WakesUp PROVE SchedulerInv'
    <2>1. /\ UNCHANGED <<sched_policy, period, scheduler_attributes, curr_time_factor,
                         realTimeFactor, desired_time, slot>>
          /\ cycle = "asleep" /\ cycle' = "working"
          /\ steady_clock' \in Int
          /\ sched_policy # "SCHED_DEADLINE" => desired_time <= steady_clock'
      BY <1>6, SchedulerAssumption DEF WakesUp, SchedulerInv, SchedulerTyped
    <2> QED BY <2>1, PolicyStands DEF SchedulerInv, SchedulerTyped, SlotsAreKept
  <1>7. CASE UNCHANGED schedulerVars
    BY <1>3, <1>7 DEF schedulerVars, SchedulerInv, SchedulerTyped
  <1> QED BY <1>1, <1>2, <1>4, <1>5, <1>6, <1>7, CycleEndsKeeps DEF SchedulerNext

(* For every period and every factor, however long cycles and pauses take: *)
(* the component sleeps until the next slot of its phase, never longer than *)
(* a period (sched_utils.cpp:93-125), and the kernel has the attributes of *)
(* the factor in use.                                                      *)
THEOREM SlotsKept == SchedulerSpec => []SlotsAreKept
PROOF
  <1>1. SchedulerInv => SlotsAreKept   BY DEF SchedulerInv
  <1> QED BY <1>1, SchedulerInitially, SchedulerInductive, PTL DEF SchedulerSpec
-----------------------------------------------------------------------------
(* Windows of samples.                                                     *)
(*                                                                         *)
(* What is true of some number is true of a least one.                     *)
LEMMA LeastNat ==
  ASSUME NEW S, S \subseteq Nat, S # {}
  PROVE  \E m \in S : \A n \in S : m <= n
PROOF
  <1> DEFINE R == OpToRel(<, Nat)
  <1>1. IsWellFoundedOn(R, Nat)   BY NatLessThanWellFounded
  <1>2. \A a, b \in Nat : <<a, b>> \in R <=> a < b   BY DEF OpToRel
  <1> HIDE DEF R
  <1>3. PICK m \in S : \A n \in S : ~ (<<n, m>> \in R)   BY <1>1, WFMin
  <1>4. \A n \in S : m \in Nat /\ n \in Nat /\ ~ (n < m)   BY <1>2, <1>3
  <1> QED BY <1>4

(* The sums of the first elements exist: there is no least number of       *)
(* elements without them.                                                  *)
LEMMA SumsExist ==
  ASSUME NEW s \in Seq(Int)
  PROVE  /\ Sums(s) \in [0 .. Len(s) -> Int]
         /\ Sums(s)[0] = 0
         /\ \A k \in 1 .. Len(s) : Sums(s)[k] = Sums(s)[k - 1] + s[k]
PROOF
  <1> DEFINE Is(f, n) == /\ f \in [0 .. n -> Int] /\ f[0] = 0
                         /\ \A k \in 1 .. n : f[k] = f[k - 1] + s[k]
             Bad == {n \in 0 .. Len(s) : ~ \E f : Is(f, n)}
  <1>1. Len(s) \in Nat /\ \A k \in 1 .. Len(s) : s[k] \in Int   OBVIOUS
  <1>2. Bad = {}
    <2> SUFFICES ASSUME Bad # {} PROVE FALSE   OBVIOUS
    <2>1. PICK n \in Bad : \A m \in Bad : n <= m
      <3>1. Bad \subseteq Nat   BY <1>1
      <3> HIDE DEF Bad
      <3> QED BY <3>1, LeastNat
    <2>2. n # 0
      <3>1. Is([k \in 0 .. 0 |-> 0], 0)   OBVIOUS
      <3> QED BY <3>1
    <2>3. n \in Nat /\ n \in 1 .. Len(s) /\ n - 1 \in 0 .. Len(s)
      <3>1. n \in 0 .. Len(s)   BY <2>1
      <3> HIDE DEF Bad
      <3> QED BY <1>1, <2>2, <3>1
    <2>4. PICK f : Is(f, n - 1)
      <3>1. n - 1 \notin Bad
        <4> HIDE DEF Bad
        <4> QED BY <2>1, <2>3
      <3> QED BY <2>3, <3>1
    <2> DEFINE g == [k \in 0 .. n |-> IF k = n THEN f[n - 1] + s[n] ELSE f[k]]
    <2>5. \A k \in 0 .. (n - 1) : f[k] \in Int /\ g[k] = f[k]   BY <2>3, <2>4
    <2>6. g[n] = f[n - 1] + s[n] /\ g[n] \in Int
      <3>1. f[n - 1] \in Int /\ s[n] \in Int
        <4>1. n - 1 \in 0 .. (n - 1)   BY <2>3
        <4> HIDE DEF g
        <4> QED BY <1>1, <2>3, <2>5, <4>1
      <3>2. g[n] = f[n - 1] + s[n]   BY <2>3
      <3> QED BY <3>1, <3>2
    <2>7. g \in [0 .. n -> Int]
      <3>1. \A k \in 0 .. n : k = n \/ k \in 0 .. (n - 1)   BY <2>3
      <3>2. \A k \in 0 .. n : g[k] \in Int   BY <2>5, <2>6, <3>1
      <3>3. g = [k \in 0 .. n |-> g[k]]   OBVIOUS
      <3> HIDE DEF g
      <3> QED BY <3>2, <3>3
    <2>8. \A k \in 1 .. n : g[k] = g[k - 1] + s[k]
      <3> SUFFICES ASSUME NEW k \in 1 .. n PROVE g[k] = g[k - 1] + s[k]   OBVIOUS
      <3>1. CASE k = n   BY <2>3, <2>5, <2>6, <3>1
      <3>2. CASE k # n
        <4>1. k \in 1 .. (n - 1) /\ k - 1 \in 0 .. (n - 1)   BY <2>3, <3>2
        <4>2. f[k] = f[k - 1] + s[k]   BY <2>4, <4>1
        <4>3. k \in 0 .. (n - 1)   BY <4>1
        <4> QED BY <2>5, <4>1, <4>2, <4>3
      <3> QED BY <3>1, <3>2
    <2>9. g[0] = 0   BY <2>2, <2>3, <2>4, <2>5
    <2> HIDE DEF g
    <2> QED BY <2>1, <2>7, <2>8, <2>9
  <1>3. PICK f : Is(f, Len(s))
    <2>1. Len(s) \in 0 .. Len(s)   BY <1>1
    <2> QED BY <1>2, <2>1
  <1> DEFINE Step(h) == [k \in 0 .. Len(s) |-> IF k = 0 THEN 0 ELSE h[k - 1] + s[k]]
  <1>4. f = Step(f)
    <2>1. \A k \in 0 .. Len(s) : k = 0 \/ k \in 1 .. Len(s)   BY <1>1
    <2> QED BY <1>3, <2>1
  <1>5. Sums(s) = CHOOSE h : h = Step(h)   BY DEF Sums
  <1> DEFINE h == Sums(s)
  <1>6. h = Step(h)   BY <1>4, <1>5
  <1> HIDE DEF h, Bad
  <1>7. h[0] = 0 /\ \A k \in 1 .. Len(s) : h[k] = h[k - 1] + s[k]   BY SMTT(30), <1>1, <1>6
  <1>8. \A k \in 0 .. Len(s) : h[k] = f[k]
    <2> DEFINE Off == {k \in 0 .. Len(s) : h[k] # f[k]}
    <2> SUFFICES ASSUME Off # {} PROVE FALSE   OBVIOUS
    <2>1. PICK n \in Off : \A m \in Off : n <= m
      <3>1. Off \subseteq Nat   BY <1>1
      <3> HIDE DEF Off
      <3> QED BY <3>1, LeastNat
    <2>2. n # 0   BY <1>3, <1>7, <2>1
    <2>3. n \in 1 .. Len(s) /\ n - 1 \in 0 .. Len(s) /\ ~ (n <= n - 1)   BY <1>1, <2>1, <2>2
    <2>4. h[n - 1] = f[n - 1]   BY <2>1, <2>3
    <2>5. h[n] = h[n - 1] + s[n] /\ f[n] = f[n - 1] + s[n]   BY <1>3, <1>7, <2>3
    <2> QED BY <2>1, <2>4, <2>5
  <1>9. h = f
    <2>1. DOMAIN h = 0 .. Len(s) /\ h = [k \in DOMAIN h |-> h[k]]   BY <1>6
    <2> QED BY <1>3, <1>8, <2>1
  <1> QED BY <1>3, <1>9 DEF h

(* Sums over a stretch of a sequence are differences of sums.              *)
LEMMA SumsOfStretch ==
  ASSUME NEW s \in Seq(Int), NEW t \in Seq(Int), NEW d \in Nat, Len(t) + d <= Len(s),
         \A k \in 1 .. Len(t) : t[k] = s[k + d]
  PROVE  \A k \in 0 .. Len(t) : Sums(t)[k] = Sums(s)[k + d] - Sums(s)[d]
PROOF
  <1> DEFINE f == Sums(s)
             g == Sums(t)
             Off == {k \in 0 .. Len(t) : g[k] # f[k + d] - f[d]}
  <1>1. /\ f \in [0 .. Len(s) -> Int] /\ \A k \in 1 .. Len(s) : f[k] = f[k - 1] + s[k]
        /\ g[0] = 0 /\ \A k \in 1 .. Len(t) : g[k] = g[k - 1] + t[k]
    BY SumsExist
  <1>2. Len(s) \in Nat /\ Len(t) \in Nat /\ \A k \in 1 .. Len(s) : s[k] \in Int   OBVIOUS
  <1> HIDE DEF f, g
  <1> SUFFICES ASSUME Off # {} PROVE FALSE   BY DEF f, g
  <1>3. PICK n \in Off : \A m \in Off : n <= m
    <2>1. Off \subseteq Nat   BY <1>2
    <2> HIDE DEF Off
    <2> QED BY <2>1, LeastNat
  <1>4. n \in 0 .. Len(t) /\ g[n] # f[n + d] - f[d]   BY <1>3
  <1>5. n # 0
    <2>1. d \in 0 .. Len(s)   BY <1>2
    <2>2. f[d] \in Int   BY <1>1, <2>1
    <2> QED BY <1>1, <1>4, <2>2
  <1>6. /\ n \in 1 .. Len(t) /\ n - 1 \in 0 .. Len(t) /\ ~ (n <= n - 1)
        /\ n + d \in 1 .. Len(s) /\ (n + d) - 1 = (n - 1) + d /\ (n - 1) + d \in 0 .. Len(s)
        /\ d \in 0 .. Len(s)
    BY SMTT(30), <1>2, <1>4, <1>5
  <1>7. g[n - 1] = f[(n - 1) + d] - f[d]
    <2>1. n - 1 \notin Off
      <3> HIDE DEF Off
      <3> QED BY <1>3, <1>6
    <2> QED BY <1>6, <2>1
  <1>8. g[n] = g[n - 1] + s[n + d] /\ f[n + d] = f[(n - 1) + d] + s[n + d]
    BY <1>1, <1>6
  <1>9. f[d] \in Int /\ f[(n - 1) + d] \in Int /\ s[n + d] \in Int   BY <1>1, <1>2, <1>6
  <1> HIDE DEF Off
  <1> QED BY SMTT(30), <1>4, <1>7, <1>8, <1>9

LEMMA SumsOfAppend ==
  ASSUME NEW s \in Seq(Int), NEW v \in Int
  PROVE  /\ \A k \in 0 .. Len(s) : Sums(Append(s, v))[k] = Sums(s)[k]
         /\ Sums(Append(s, v))[Len(s) + 1] = Sums(s)[Len(s)] + v
PROOF
  <1> DEFINE t == Append(s, v)
  <1>1. t \in Seq(Int) /\ Len(t) = Len(s) + 1 /\ Len(s) \in Nat
        /\ t[Len(s) + 1] = v /\ \A k \in 1 .. Len(s) : s[k] = t[k]
    BY AppendProperties
  <1> HIDE DEF t
  <1>2. /\ Sums(t)[0] = 0 /\ Sums(t) \in [0 .. Len(t) -> Int]
        /\ \A k \in 1 .. Len(t) : Sums(t)[k] = Sums(t)[k - 1] + t[k]
    BY <1>1, SumsExist
  <1>3. \A k \in 0 .. Len(s) : Sums(s)[k] = Sums(t)[k + 0] - Sums(t)[0]
    <2>1. Len(s) + 0 <= Len(t) /\ \A k \in 1 .. Len(s) : s[k] = t[k + 0]   BY <1>1
    <2>2. 0 \in Nat   OBVIOUS
    <2> QED BY <1>1, <2>1, <2>2, SumsOfStretch
  <1>4. \A k \in 0 .. Len(s) : Sums(t)[k] = Sums(s)[k]
    <2> TAKE k \in 0 .. Len(s)
    <2>1. k + 0 = k /\ Sums(t)[k] \in Int   BY SMTT(30), <1>1, <1>2
    <2> QED BY SMTT(30), <1>2, <1>3, <2>1
  <1>5. Sums(t)[Len(s) + 1] = Sums(t)[(Len(s) + 1) - 1] + v   BY SMTT(30), <1>1, <1>2
  <1>6. (Len(s) + 1) - 1 = Len(s) /\ Len(s) \in 0 .. Len(s)   BY <1>1
  <1> QED BY <1>4, <1>5, <1>6 DEF t

(* The last n elements.                                                    *)
Fewer(a, b) == IF a < b THEN a ELSE b

LEMMA MaxOfTwo == \A a, b \in Int : Max({a, b}) = IF a >= b THEN a ELSE b
PROOF
  <1> TAKE a, b \in Int
  <1> DEFINE m == IF a >= b THEN a ELSE b
  <1>1. m \in {a, b} /\ \A y \in {a, b} : m >= y   OBVIOUS
  <1>2. \A x \in {a, b} : (\A y \in {a, b} : x >= y) => x = m   OBVIOUS
  <1> HIDE DEF m
  <1>3. Max({a, b}) = m   BY <1>1, <1>2 DEF Max
  <1> QED BY <1>3 DEF m

LEMMA LatestElements ==
  ASSUME NEW S, NEW s \in Seq(S), NEW n \in Nat
  PROVE  /\ Latest(s, n) \in Seq(S)
         /\ Len(Latest(s, n)) = Fewer(Len(s), n)
         /\ \A i \in 1 .. Fewer(Len(s), n) : Latest(s, n)[i] = s[i + (Len(s) - Fewer(Len(s), n))]
PROOF
  <1> DEFINE size == Fewer(Len(s), n)
             first == Max({1, Len(s) - n + 1})
  <1>1. Len(s) \in Nat /\ \A i \in 1 .. Len(s) : s[i] \in S   OBVIOUS
  <1>2. size \in Nat /\ size <= Len(s) /\ first = Len(s) - size + 1
    <2>1. first = IF 1 >= Len(s) - n + 1 THEN 1 ELSE Len(s) - n + 1   BY <1>1, MaxOfTwo
    <2>2. size = IF Len(s) < n THEN Len(s) ELSE n   BY DEF Fewer
    <2> HIDE DEF first, size
    <2>3. CASE Len(s) < n
      <3>1. size = Len(s) /\ first = 1   BY <1>1, <2>1, <2>2, <2>3
      <3> QED BY <1>1, <3>1
    <2>4. CASE n <= Len(s)
      <3>1. size = n   BY <1>1, <2>2, <2>4
      <3>2. first = Len(s) - n + 1   BY <1>1, <2>1, <2>4
      <3> QED BY <1>1, <2>4, <3>1, <3>2
    <2> QED BY <1>1, <2>3, <2>4
  <1> HIDE DEF first, size
  <1>3. \A i \in first .. Len(s) : s[i] \in S   BY <1>1, <1>2
  <1>4. first \in Int   BY <1>1, <1>2
  <1>5. /\ SubSeq(s, first, Len(s)) \in Seq(S)
        /\ Len(SubSeq(s, first, Len(s))) = IF first <= Len(s) THEN Len(s) - first + 1 ELSE 0
        /\ \A i \in 1 .. Len(s) - first + 1 : SubSeq(s, first, Len(s))[i] = s[first + i - 1]
    BY <1>1, <1>3, <1>4, SubSeqProperties
  <1>6. Len(s) - first + 1 = size /\ \A i \in 1 .. size : first + i - 1 = i + (Len(s) - size)
    BY <1>1, <1>2
  <1>7. Latest(s, n) = SubSeq(s, first, Len(s))   BY DEF Latest, first
  <1>8. Len(Latest(s, n)) = size   BY <1>1, <1>2, <1>5, <1>6, <1>7
  <1>9. \A i \in 1 .. size : Latest(s, n)[i] = s[i + (Len(s) - size)]   BY <1>5, <1>6, <1>7
  <1> QED BY <1>5, <1>7, <1>8, <1>9 DEF size

(* The totals of the last n.                                               *)
LEMMA SquaredIs ==
  ASSUME NEW s \in Seq(Nat)
  PROVE  Squared(s) \in Seq(Int) /\ Len(Squared(s)) = Len(s)
         /\ \A k \in 1 .. Len(s) : Squared(s)[k] = s[k] * s[k]
PROOF
  <1>1. Len(s) \in Nat /\ DOMAIN s = 1 .. Len(s) /\ \A k \in 1 .. Len(s) : s[k] \in Nat   OBVIOUS
  <1>2. Squared(s) = [k \in 1 .. Len(s) |-> s[k] * s[k]]   BY <1>1 DEF Squared
  <1>3. \A k \in 1 .. Len(s) : s[k] * s[k] \in Int   BY <1>1
  <1> QED BY <1>1, <1>2, <1>3, IsASeq

LEMMA TotalOfLatest ==
  ASSUME NEW s \in Seq(Nat), NEW n \in Nat
  PROVE  /\ Total(Latest(s, n)) = Sums(s)[Len(s)] - Sums(s)[Len(s) - Fewer(Len(s), n)]
         /\ Squares(Latest(s, n)) =
              Sums(Squared(s))[Len(s)] - Sums(Squared(s))[Len(s) - Fewer(Len(s), n)]
PROOF
  <1> DEFINE size == Fewer(Len(s), n)
             d == Len(s) - size
             t == Latest(s, n)
  <1>1. Len(s) \in Nat /\ size \in Nat /\ d \in Nat /\ d + size = Len(s) /\ size + d = Len(s)
    BY DEF Fewer
  <1>2. t \in Seq(Nat) /\ Len(t) = size /\ \A i \in 1 .. size : t[i] = s[i + d]
    BY LatestElements
  <1> HIDE DEF size, d, t
  <1>3. s \in Seq(Int) /\ t \in Seq(Int)
    <2>1. Nat \subseteq Int   OBVIOUS
    <2> QED BY <1>2, <2>1, SeqMonotonic
  <1>4. Sums(t)[size] = Sums(s)[size + d] - Sums(s)[d]
    <2>1. size \in 0 .. Len(t) /\ Len(t) + d <= Len(s)   BY <1>1, <1>2
    <2> QED BY <1>1, <1>2, <1>3, <2>1, SumsOfStretch
  <1>5. /\ Squared(s) \in Seq(Int) /\ Len(Squared(s)) = Len(s)
        /\ \A k \in 1 .. Len(s) : Squared(s)[k] = s[k] * s[k]
        /\ Squared(t) \in Seq(Int) /\ Len(Squared(t)) = size
        /\ \A k \in 1 .. size : Squared(t)[k] = t[k] * t[k]
    BY <1>2, SquaredIs
  <1>6. Sums(Squared(t))[size] = Sums(Squared(s))[size + d] - Sums(Squared(s))[d]
    <2>1. \A k \in 1 .. size : k + d \in 1 .. Len(s)   BY <1>1
    <2>2. \A k \in 1 .. size : Squared(t)[k] = Squared(s)[k + d]   BY <1>2, <1>5, <2>1
    <2>3. size \in 0 .. Len(Squared(t)) /\ Len(Squared(t)) + d <= Len(Squared(s))   BY <1>1, <1>5
    <2> QED BY <1>1, <1>5, <2>2, <2>3, SumsOfStretch
  <1>7. Total(t) = Sums(t)[size] /\ Squares(t) = Sums(Squared(t))[size]
    BY <1>2, <1>5 DEF Total, Squares
  <1> QED BY <1>1, <1>4, <1>6, <1>7 DEF size, d, t
(* The least and the greatest of a set are determined, and the greatest of *)
(* finitely many numbers exists.                                           *)
LEMMA MaxIs ==
  ASSUME NEW S, S \subseteq Int, NEW m \in S, \A y \in S : m >= y
  PROVE  Max(S) = m
PROOF
  <1>1. \A x \in S : (\A y \in S : x >= y) => x = m
    <2> TAKE x \in S
    <2> HAVE \A y \in S : x >= y
    <2>1. x >= m /\ m >= x /\ x \in Int /\ m \in Int   OBVIOUS
    <2> QED BY <2>1
  <1> QED BY <1>1 DEF Max

LEMMA MinIs ==
  ASSUME NEW S, S \subseteq Int, NEW m \in S, \A y \in S : m <= y
  PROVE  Min(S) = m
PROOF
  <1>1. \A x \in S : (\A y \in S : x <= y) => x = m
    <2> TAKE x \in S
    <2> HAVE \A y \in S : x <= y
    <2>1. x <= m /\ m <= x /\ x \in Int /\ m \in Int   OBVIOUS
    <2> QED BY <2>1
  <1> QED BY <1>1 DEF Min

LEMMA GreatestExists ==
  ASSUME NEW N \in Nat, NEW f \in [1 .. N -> Nat], N > 0
  PROVE  \E k \in 1 .. N : \A j \in 1 .. N : f[k] >= f[j]
PROOF
  <1> DEFINE Has(n) == \E k \in 1 .. n : \A j \in 1 .. n : f[k] >= f[j]
             Bad == {n \in 1 .. N : ~ Has(n)}
  <1>1. Bad = {}
    <2> SUFFICES ASSUME Bad # {} PROVE FALSE   OBVIOUS
    <2>1. PICK n \in Bad : \A m \in Bad : n <= m
      <3>1. Bad \subseteq Nat   OBVIOUS
      <3> HIDE DEF Bad
      <3> QED BY <3>1, LeastNat
    <2>2. n \in 1 .. N /\ ~ Has(n)   BY <2>1
    <2>3. n # 1
      <3>1. f[1] \in Nat /\ \A j \in 1 .. 1 : j = 1   OBVIOUS
      <3> QED BY <2>2, <3>1
    <2>4. n - 1 \in 1 .. N /\ ~ (n <= n - 1)   BY <2>2, <2>3
    <2>5. Has(n - 1)
      <3>1. n - 1 \notin Bad
        <4> HIDE DEF Bad
        <4> QED BY <2>1, <2>4
      <3> QED BY <2>4, <3>1
    <2>6. PICK k \in 1 .. (n - 1) : \A j \in 1 .. (n - 1) : f[k] >= f[j]   BY <2>5
    <2>7. \A j \in 1 .. n : f[j] \in Nat /\ (j = n \/ j \in 1 .. (n - 1))   BY <2>2
    <2>8. k \in 1 .. n /\ n \in 1 .. n   BY <2>2
    <2>9. CASE f[k] >= f[n]   BY <2>2, <2>6, <2>7, <2>8, <2>9
    <2>10. CASE ~ (f[k] >= f[n])
      <3>1. f[n] > f[k]   BY <2>7, <2>8, <2>10
      <3>2. \A j \in 1 .. n : f[n] >= f[j]
        <4> TAKE j \in 1 .. n
        <4>1. f[j] \in Nat /\ f[k] \in Nat /\ f[n] \in Nat   BY <2>7, <2>8
        <4>2. CASE j = n   BY <4>1, <4>2
        <4>3. CASE j \in 1 .. (n - 1)
          <5>1. f[k] >= f[j]   BY <2>6, <4>3
          <5>2. \A x, y, z \in Nat : x >= y /\ z > x => z >= y   OBVIOUS
          <5> HIDE DEF Bad
          <5> QED BY <3>1, <4>1, <5>1, <5>2, Zenon
        <4> QED BY <2>7, <4>2, <4>3
      <3> QED BY <2>2, <2>8, <3>2
    <2> QED BY <2>9, <2>10
  <1>2. N \in 1 .. N   OBVIOUS
  <1>3. Has(N)
    <2>1. N \notin Bad   BY <1>1
    <2> QED BY <1>2, <2>1
  <1> QED BY <1>3

(* One step around a ring.                                                 *)
LEMMA AroundRing ==
  ASSUME NEW c \in Nat, c > 0, NEW x \in Nat, x < c + c
  PROVE  x % c = IF x < c THEN x ELSE x - c
PROOF
  <1> DEFINE a == x \div c
             b == x % c
  <1>1. a \in Int /\ b \in 0 .. (c - 1) /\ x = c * a + b
    <2>1. c \in Int /\ x \in Int   OBVIOUS
    <2> QED BY <2>1, Division
  <1> HIDE DEF a, b
  <1>2. a >= 0
    <2> SUFFICES ASSUME a <= -1 PROVE FALSE   BY <1>1
    <2>1. c * a <= c * (-1)   BY <1>1
    <2> QED BY <1>1, <2>1
  <1>3. a <= 1
    <2> SUFFICES ASSUME a >= 2 PROVE FALSE   BY <1>1
    <2>1. c * a >= c * 2   BY <1>1
    <2> QED BY <1>1, <2>1
  <1>4. a = 0 \/ a = 1   BY <1>1, <1>2, <1>3
  <1>5. c * a = 0 \/ c * a = c   BY <1>4
  <1>6. b = IF x < c THEN x ELSE x - c   BY <1>1, <1>4, <1>5
  <1> QED BY <1>6 DEF b

(* Where the slots behind h are, and behind the next one.                  *)
Next1(c, h) == IF h = c - 1 THEN 0 ELSE h + 1

LEMMA RingSlots ==
  ASSUME NEW c \in Nat, c > 0, NEW h \in 0 .. (c - 1), NEW i \in 0 .. (c - 1)
  PROVE  /\ (h + i) % c = IF h + i < c THEN h + i ELSE h + i - c
         /\ (h + i) % c \in 0 .. (c - 1)
         /\ i # 0 => (h + i) % c # h
         /\ (Next1(c, h) + i) % c = IF i = c - 1 THEN h ELSE (h + (i + 1)) % c
PROOF
  <1> DEFINE x == h + i
             g == Next1(c, h)
             y == g + i
             z == h + (i + 1)
  <1>1. x \in Nat /\ x < c + c   OBVIOUS
  <1>2. g \in 0 .. (c - 1) /\ g = IF h = c - 1 THEN 0 ELSE h + 1   BY DEF Next1
  <1>3. y \in Nat /\ y < c + c
    <2> HIDE DEF g
    <2> QED BY <1>2
  <1>4. x % c = IF x < c THEN x ELSE x - c
    <2> HIDE DEF x
    <2> QED BY <1>1, AroundRing
  <1>5. y % c = IF y < c THEN y ELSE y - c
    <2> HIDE DEF y
    <2> QED BY <1>3, AroundRing
  <1>6. i # c - 1 => z % c = IF z < c THEN z ELSE z - c
    <2> HAVE i # c - 1
    <2>1. z \in Nat /\ z < c + c   OBVIOUS
    <2> HIDE DEF z
    <2> QED BY <2>1, AroundRing
  <1>7. x % c \in 0 .. (c - 1) /\ (i # 0 => x % c # h)   BY <1>1, <1>4
  <1>8. y % c = IF i = c - 1 THEN h ELSE z % c
    <2>1. CASE i = c - 1
      <3>1. y = IF h = c - 1 THEN c - 1 ELSE h + c   BY <1>2, <2>1
      <3> HIDE DEF y
      <3> QED BY <1>3, <1>5, <2>1, <3>1
    <2>2. CASE i # c - 1
      <3>1. y = IF h = c - 1 THEN i ELSE z   BY <1>2
      <3>2. h = c - 1 => z % c = i   BY <1>6, <2>2
      <3>3. i < c   OBVIOUS
      <3> HIDE DEF y, z
      <3> QED BY <1>3, <1>5, <1>6, <2>2, <3>1, <3>2, <3>3
    <2> QED BY <2>1, <2>2
  <1> QED BY <1>4, <1>7, <1>8

LEMMA SquaredOfAppend ==
  ASSUME NEW s \in Seq(Nat), NEW v \in Nat
  PROVE  Squared(Append(s, v)) = Append(Squared(s), v * v)
PROOF
  <1> DEFINE t == Append(s, v)
             u == Append(Squared(s), v * v)
  <1>1. t \in Seq(Nat) /\ Len(t) = Len(s) + 1 /\ Len(s) \in Nat
        /\ t[Len(s) + 1] = v /\ \A k \in 1 .. Len(s) : t[k] = s[k]
    BY AppendProperties
  <1>2. /\ Squared(s) \in Seq(Int) /\ Len(Squared(s)) = Len(s)
        /\ \A k \in 1 .. Len(s) : Squared(s)[k] = s[k] * s[k]
        /\ Squared(t) \in Seq(Int) /\ Len(Squared(t)) = Len(t)
        /\ \A k \in 1 .. Len(t) : Squared(t)[k] = t[k] * t[k]
    <2> HIDE DEF t
    <2> QED BY <1>1, SquaredIs
  <1>3. v * v \in Int   OBVIOUS
  <1>4. u \in Seq(Int) /\ Len(u) = Len(s) + 1 /\ u[Len(s) + 1] = v * v
        /\ \A k \in 1 .. Len(s) : u[k] = Squared(s)[k]
    BY <1>2, <1>3, AppendProperties
  <1> HIDE DEF t, u
  <1>5. \A k \in 1 .. Len(t) : k \in 1 .. Len(s) \/ k = Len(s) + 1   BY <1>1
  <1>6. \A k \in 1 .. Len(t) : Squared(t)[k] = u[k]   BY ZenonT(60), <1>1, <1>2, <1>4, <1>5
  <1>7. Squared(t) = u   BY <1>1, <1>2, <1>4, <1>6, SeqEqual
  <1> QED BY <1>7 DEF t, u
-----------------------------------------------------------------------------
(* A window of capacity c holds the last samples of s, behind the first    *)
(* Before(s, c) of them: in the order of the ring, with the sums of a      *)
(* stretch of s, and, when there is one, with their least and greatest.    *)
Windows(c) ==
  [capacity : {c}, data : [0 .. (c - 1) -> Nat], size : Nat, head : Nat,
   sum : Int, sumSq : Int, max : Nat, min : Nat]

Before(s, n) == Len(s) - Fewer(Len(s), n)
Recent(s, n) == {s[k] : k \in (Before(s, n) + 1) .. Len(s)}

InPlace(w, s) ==
  \A i \in 0 .. (w.size - 1) :
    w.data[(w.head + i) % w.capacity] = s[Before(s, w.capacity) + 1 + i]

SumsFollow(w, s) ==
  /\ w.sum = Sums(s)[Len(s)] - Sums(s)[Before(s, w.capacity)]
  /\ w.sumSq = Sums(Squared(s))[Len(s)] - Sums(Squared(s))[Before(s, w.capacity)]

Extremes(w, s) ==
  w.size > 0 =>
    /\ w.max \in Recent(s, w.capacity) /\ w.min \in Recent(s, w.capacity)
    /\ \A x \in Recent(s, w.capacity) : w.max >= x /\ w.min <= x

Holds(c, w, s) ==
  /\ w \in Windows(c)
  /\ w.size = Fewer(Len(s), c)
  /\ c > 0 => w.head < c
  /\ w.size < c => w.head = 0
  /\ InPlace(w, s)
  /\ SumsFollow(w, s)
  /\ Extremes(w, s)

LEMMA RecentIs ==
  ASSUME NEW s \in Seq(Nat), NEW n \in Nat
  PROVE  /\ Before(s, n) \in Nat /\ Before(s, n) + Fewer(Len(s), n) = Len(s)
         /\ Fewer(Len(s), n) \in Nat /\ Fewer(Len(s), n) <= n
         /\ Len(s) \in Nat /\ \A k \in 1 .. Len(s) : s[k] \in Nat
         /\ Recent(s, n) \subseteq Nat
PROOF
  <1>1. Len(s) \in Nat /\ \A k \in 1 .. Len(s) : s[k] \in Nat   OBVIOUS
  <1>2. /\ Fewer(Len(s), n) \in Nat /\ Fewer(Len(s), n) <= n /\ Fewer(Len(s), n) <= Len(s)
    BY <1>1 DEF Fewer
  <1>3. Before(s, n) \in Nat /\ Before(s, n) + Fewer(Len(s), n) = Len(s)
    BY <1>1, <1>2 DEF Before
  <1>4. \A k \in (Before(s, n) + 1) .. Len(s) : k \in 1 .. Len(s)   BY <1>1, <1>3
  <1>5. Recent(s, n) \subseteq Nat   BY <1>1, <1>4 DEF Recent
  <1> QED BY <1>1, <1>2, <1>3, <1>5

LEMMA EmptyHolds ==
  ASSUME NEW c \in Nat
  PROVE  Holds(c, NumericalMovingWindow(c), <<>>)
PROOF
  <1> DEFINE w == NumericalMovingWindow(c)
  <1>1. w \in Windows(c) /\ w.size = 0 /\ w.sum = 0 /\ w.sumSq = 0 /\ w.head = 0
        /\ w.capacity = c
    BY DEF NumericalMovingWindow, Windows
  <1> HIDE DEF w
  <1>2. Len(<<>>) = 0 /\ Fewer(0, c) = 0   BY DEF Fewer
  <1>3. Before(<<>>, c) = 0   BY <1>2 DEF Before
  <1>4. <<>> \in Seq(Nat) /\ <<>> \in Seq(Int)   OBVIOUS
  <1>5. Sums(<<>>)[0] = 0   BY <1>4, SumsExist
  <1>6. Sums(Squared(<<>>))[0] = 0   BY <1>4, SquaredIs, SumsExist
  <1>7. InPlace(w, <<>>)   BY <1>1 DEF InPlace
  <1>8. SumsFollow(w, <<>>)   BY <1>1, <1>2, <1>3, <1>5, <1>6 DEF SumsFollow
  <1>9. Extremes(w, <<>>)   BY <1>1 DEF Extremes
  <1> QED BY <1>1, <1>2, <1>7, <1>8, <1>9 DEF Holds, w

LEMMA SumsOfLonger ==
  ASSUME NEW s \in Seq(Nat), NEW v \in Nat, NEW k \in 0 .. Len(s)
  PROVE  /\ Sums(s)[k] \in Int /\ Sums(Append(s, v))[k] = Sums(s)[k]
         /\ Sums(Squared(s))[k] \in Int
         /\ Sums(Squared(Append(s, v)))[k] = Sums(Squared(s))[k]
         /\ Sums(Append(s, v))[Len(s) + 1] = Sums(s)[Len(s)] + v
         /\ Sums(Squared(Append(s, v)))[Len(s) + 1] = Sums(Squared(s))[Len(s)] + v * v
         /\ k < Len(s) => /\ Sums(s)[k + 1] = Sums(s)[k] + s[k + 1]
                          /\ Sums(Squared(s))[k + 1] = Sums(Squared(s))[k] + s[k + 1] * s[k + 1]
PROOF
  <1>1. Len(s) \in Nat /\ v \in Int /\ v * v \in Int   OBVIOUS
  <1>2. s \in Seq(Int)
    <2>1. Nat \subseteq Int   OBVIOUS
    <2> QED BY <2>1, SeqMonotonic
  <1>3. /\ Squared(s) \in Seq(Int) /\ Len(Squared(s)) = Len(s)
        /\ \A j \in 1 .. Len(s) : Squared(s)[j] = s[j] * s[j]
    BY SquaredIs
  <1>4. Squared(Append(s, v)) = Append(Squared(s), v * v)   BY SquaredOfAppend
  <1>5. /\ Sums(s)[k] \in Int /\ Sums(Squared(s))[k] \in Int
        /\ \A j \in 1 .. Len(s) : Sums(s)[j] = Sums(s)[j - 1] + s[j]
        /\ \A j \in 1 .. Len(s) : Sums(Squared(s))[j] = Sums(Squared(s))[j - 1] + Squared(s)[j]
    BY <1>2, <1>3, SumsExist
  <1>6. k < Len(s) => k + 1 \in 1 .. Len(s) /\ (k + 1) - 1 = k   BY <1>1
  <1>7. k < Len(s) => /\ Sums(s)[k + 1] = Sums(s)[k] + s[k + 1]
                      /\ Sums(Squared(s))[k + 1] = Sums(Squared(s))[k] + s[k + 1] * s[k + 1]
    BY <1>3, <1>5, <1>6
  <1>8. /\ Sums(Append(s, v))[k] = Sums(s)[k]
        /\ Sums(Append(s, v))[Len(s) + 1] = Sums(s)[Len(s)] + v
    BY <1>1, <1>2, SumsOfAppend
  <1>9. /\ Sums(Append(Squared(s), v * v))[k] = Sums(Squared(s))[k]
        /\ Sums(Append(Squared(s), v * v))[Len(s) + 1] = Sums(Squared(s))[Len(s)] + v * v
    BY <1>1, <1>3, SumsOfAppend
  <1> QED BY <1>4, <1>5, <1>7, <1>8, <1>9
(* The fields a push writes.                                               *)
LEMMA ExtendIs ==
  ASSUME NEW c \in Nat, c > 0, NEW w \in Windows(c), NEW v \in Nat, w.size < c, w.head = 0
  PROVE  /\ Extend(w, v) \in Windows(c)
         /\ Extend(w, v).data = [w.data EXCEPT ![w.size] = v]
         /\ Extend(w, v).size = w.size + 1 /\ Extend(w, v).head = 0
         /\ Extend(w, v).sum = w.sum + v /\ Extend(w, v).sumSq = w.sumSq + v * v
         /\ Extend(w, v).max = IF w.size = 0 \/ v > w.max THEN v ELSE w.max
         /\ Extend(w, v).min = IF w.size = 0 \/ v < w.min THEN v ELSE w.min
PROOF
  <1> DEFINE d == [w.data EXCEPT ![w.size] = v]
             e == Extend(w, v)
  <1>1. /\ w.capacity = c /\ w.data \in [0 .. (c - 1) -> Nat] /\ w.size \in Nat
        /\ w.sum \in Int /\ w.sumSq \in Int /\ w.max \in Nat /\ w.min \in Nat
    BY DEF Windows
  <1>2. (w.head + w.size) % w.capacity = w.size
    <2>1. w.size < c + c   BY <1>1
    <2>2. w.size % c = w.size   BY <1>1, <2>1, AroundRing
    <2> QED BY <1>1, <2>2
  <1>3. d \in [0 .. (c - 1) -> Nat]   BY <1>1
  <1>4. e = [w EXCEPT !.data = d, !.size = w.size + 1,
                      !.sum = w.sum + v, !.sumSq = w.sumSq + v * v,
                      !.max = IF w.size = 0 \/ v > w.max THEN v ELSE w.max,
                      !.min = IF w.size = 0 \/ v < w.min THEN v ELSE w.min]
    BY <1>2 DEF Extend, Windows
  <1> HIDE DEF d, e
  <1>5. /\ e.capacity = c /\ e.data = d /\ e.size = w.size + 1 /\ e.head = 0
        /\ e.sum = w.sum + v /\ e.sumSq = w.sumSq + v * v
        /\ e.max = IF w.size = 0 \/ v > w.max THEN v ELSE w.max
        /\ e.min = IF w.size = 0 \/ v < w.min THEN v ELSE w.min
    BY <1>1, <1>4 DEF Windows
  <1>6. e = [capacity |-> e.capacity, data |-> e.data, size |-> e.size, head |-> e.head,
             sum |-> e.sum, sumSq |-> e.sumSq, max |-> e.max, min |-> e.min]
    BY <1>4 DEF Windows
  <1>7. e.size \in Nat /\ e.sum \in Int /\ e.sumSq \in Int /\ e.max \in Nat /\ e.min \in Nat
    BY SMTT(30), <1>1, <1>5
  <1>8. e \in Windows(c)   BY <1>3, <1>5, <1>6, <1>7 DEF Windows
  <1> QED BY <1>5, <1>8 DEF e, d

LEMMA ExtendHolds ==
  ASSUME NEW c \in Nat, c > 0, NEW w, NEW s \in Seq(Nat), NEW v \in Nat,
         Holds(c, w, s), w.size < c
  PROVE  Holds(c, Extend(w, v), Append(s, v))
PROOF
  <1> DEFINE e == Extend(w, v)
             u == Append(s, v)
             n == Len(s)
  <1>1. w \in Windows(c) /\ w.size = Fewer(n, c) /\ w.head = 0 /\ InPlace(w, s)
        /\ SumsFollow(w, s) /\ Extremes(w, s)
    BY DEF Holds
  <1>2. /\ e \in Windows(c) /\ e.data = [w.data EXCEPT ![w.size] = v]
        /\ e.size = w.size + 1 /\ e.head = 0
        /\ e.sum = w.sum + v /\ e.sumSq = w.sumSq + v * v
        /\ e.max = IF w.size = 0 \/ v > w.max THEN v ELSE w.max
        /\ e.min = IF w.size = 0 \/ v < w.min THEN v ELSE w.min
    BY <1>1, ExtendIs
  <1>3. u \in Seq(Nat) /\ Len(u) = n + 1 /\ n \in Nat /\ u[n + 1] = v
        /\ \A k \in 1 .. n : u[k] = s[k]
    BY AppendProperties
  <1>4. w.capacity = c /\ e.capacity = c /\ w.data \in [0 .. (c - 1) -> Nat]
        /\ w.max \in Nat /\ w.min \in Nat /\ w.sum \in Int /\ w.sumSq \in Int
    BY <1>1, <1>2 DEF Windows
  <1> HIDE DEF e, u, n
  <1>5. n < c /\ w.size = n   BY <1>1, <1>3 DEF Fewer
  <1>6. Fewer(n + 1, c) = n + 1 /\ Fewer(n, c) = n   BY <1>3, <1>5 DEF Fewer
  <1>7. Before(s, c) = 0 /\ Before(u, c) = 0   BY <1>3, <1>6 DEF Before, n
  <1>8. InPlace(e, u)
    <2>1. SUFFICES ASSUME NEW i \in 0 .. n PROVE e.data[(0 + i) % c] = u[0 + 1 + i]
      BY <1>2, <1>3, <1>4, <1>5, <1>7 DEF InPlace
    <2>2. (0 + i) % c = i /\ i \in 0 .. (c - 1) /\ 0 + 1 + i = i + 1
      <3>1. i \in Nat /\ i < c + c /\ i < c   BY <1>3, <1>5
      <3>2. i % c = i   BY <3>1, AroundRing
      <3> QED BY <1>3, <1>5, <3>1, <3>2
    <2>3. CASE i = n   BY SMTT(30), <1>2, <1>3, <1>4, <1>5, <2>2, <2>3
    <2>4. CASE i # n
      <3>1. i \in 0 .. (w.size - 1) /\ i + 1 \in 1 .. n   BY <1>3, <1>5, <2>4
      <3>2. w.data[(w.head + i) % w.capacity] = s[Before(s, w.capacity) + 1 + i]
        BY <1>1, <3>1 DEF InPlace
      <3>3. w.data[i] = s[i + 1]   BY <1>1, <1>4, <1>7, <2>2, <3>2
      <3>4. e.data[i] = w.data[i]   BY <1>2, <1>4, <1>5, <2>2, <2>4
      <3> QED BY <1>3, <2>2, <3>1, <3>3, <3>4
    <2> QED BY <2>3, <2>4
  <1>9. SumsFollow(e, u)
    <2>1. 0 \in 0 .. n /\ n \in 0 .. n   BY <1>3
    <2>2. /\ Sums(s)[0] \in Int /\ Sums(u)[0] = Sums(s)[0]
          /\ Sums(Squared(s))[0] \in Int /\ Sums(Squared(u))[0] = Sums(Squared(s))[0]
          /\ Sums(s)[n] \in Int /\ Sums(Squared(s))[n] \in Int
          /\ Sums(u)[n + 1] = Sums(s)[n] + v
          /\ Sums(Squared(u))[n + 1] = Sums(Squared(s))[n] + v * v
      BY <2>1, SumsOfLonger DEF n, u
    <2>3. w.sum = Sums(s)[n] - Sums(s)[0] /\ w.sumSq = Sums(Squared(s))[n] - Sums(Squared(s))[0]
      BY <1>1, <1>4, <1>7 DEF SumsFollow, n
    <2>4. v * v \in Int   OBVIOUS
    <2>5. e.sum = Sums(u)[n + 1] - Sums(u)[0]   BY <1>2, <2>2, <2>3
    <2>6. e.sumSq = Sums(Squared(u))[n + 1] - Sums(Squared(u))[0]   BY <1>2, <2>2, <2>3, <2>4
    <2> QED BY <1>3, <1>4, <1>7, <2>5, <2>6 DEF SumsFollow
  <1>10. Extremes(e, u)
    <2>1. Recent(u, c) = {u[k] : k \in 1 .. (n + 1)} /\ Recent(s, c) = {s[k] : k \in 1 .. n}
      BY <1>3, <1>7 DEF Recent, n
    <2>2. Recent(u, c) = Recent(s, c) \cup {v}
      <3>1. \A k \in 1 .. (n + 1) : k \in 1 .. n \/ k = n + 1   BY <1>3
      <3>2. \A k \in 1 .. n : k \in 1 .. (n + 1)   BY <1>3
      <3>3. n + 1 \in 1 .. (n + 1)   BY <1>3
      <3> QED BY <1>3, <2>1, <3>1, <3>2, <3>3
    <2>3. Recent(s, c) \subseteq Nat   BY RecentIs
    <2>4. CASE n = 0
      <3>1. Recent(s, c) = {}   BY <2>1, <2>4
      <3> QED BY <1>2, <1>4, <1>5, <2>2, <2>4, <3>1 DEF Extremes
    <2>5. CASE n # 0
      <3>1. /\ w.max \in Recent(s, c) /\ w.min \in Recent(s, c)
            /\ \A x \in Recent(s, c) : w.max >= x /\ w.min <= x
        BY <1>1, <1>3, <1>4, <1>5, <2>5 DEF Extremes
      <3> QED BY SMTT(30), <1>2, <1>4, <1>5, <2>2, <2>3, <2>5, <3>1 DEF Extremes
    <2> QED BY <2>4, <2>5
  <1>11. e.size = Fewer(Len(u), c) /\ e.head = 0   BY <1>2, <1>3, <1>5, <1>6
  <1>12. Holds(c, e, u)   BY <1>2, <1>8, <1>9, <1>10, <1>11 DEF Holds
  <1> QED BY <1>12 DEF e, u
(* A full window after its oldest sample made room for v; the extrema are  *)
(* still those of before.                                                  *)
Written(w, v) ==
  [w EXCEPT !.data = [w.data EXCEPT ![w.head] = v],
            !.head = (w.head + 1) % w.capacity,
            !.sum = w.sum - w.data[w.head] + v,
            !.sumSq = w.sumSq - w.data[w.head] * w.data[w.head] + v * v]

LEMMA WrittenIs ==
  ASSUME NEW c \in Nat, c > 0, NEW w \in Windows(c), NEW v \in Nat, w.size = c, w.head < c
  PROVE  /\ Written(w, v) \in Windows(c) /\ w.data[w.head] \in Nat
         /\ Written(w, v).data = [w.data EXCEPT ![w.head] = v]
         /\ Written(w, v).size = c
         /\ Written(w, v).head = IF w.head = c - 1 THEN 0 ELSE w.head + 1
         /\ Written(w, v).sum = w.sum - w.data[w.head] + v
         /\ Written(w, v).sumSq = w.sumSq - w.data[w.head] * w.data[w.head] + v * v
         /\ Written(w, v).max = w.max /\ Written(w, v).min = w.min
PROOF
  <1> DEFINE old == w.data[w.head]
             d == [w.data EXCEPT ![w.head] = v]
             e == Written(w, v)
  <1>1. /\ w.capacity = c /\ w.data \in [0 .. (c - 1) -> Nat] /\ w.size \in Nat
        /\ w.sum \in Int /\ w.sumSq \in Int /\ w.max \in Nat /\ w.min \in Nat
        /\ w.head \in Nat
    BY DEF Windows
  <1>2. w.head \in 0 .. (c - 1)   BY <1>1
  <1>3. old \in Nat /\ d \in [0 .. (c - 1) -> Nat]   BY <1>1, <1>2
  <1>4. (w.head + 1) % w.capacity = IF w.head = c - 1 THEN 0 ELSE w.head + 1
    <2>1. w.head + 1 \in Nat /\ w.head + 1 < c + c   BY SMTT(30), <1>1
    <2>2. (w.head + 1) % c = IF w.head + 1 < c THEN w.head + 1 ELSE (w.head + 1) - c
      BY <2>1, AroundRing
    <2> QED BY <1>1, <1>2, <2>2
  <1>5. e = [w EXCEPT !.data = d, !.head = (w.head + 1) % w.capacity,
                      !.sum = w.sum - old + v, !.sumSq = w.sumSq - old * old + v * v]
    BY DEF Written
  <1> HIDE DEF d, e, old
  <1>6. /\ e.capacity = c /\ e.data = d /\ e.size = c
        /\ e.head = IF w.head = c - 1 THEN 0 ELSE w.head + 1
        /\ e.sum = w.sum - old + v /\ e.sumSq = w.sumSq - old * old + v * v
        /\ e.max = w.max /\ e.min = w.min
    BY <1>1, <1>4, <1>5 DEF Windows
  <1>7. e = [capacity |-> e.capacity, data |-> e.data, size |-> e.size, head |-> e.head,
             sum |-> e.sum, sumSq |-> e.sumSq, max |-> e.max, min |-> e.min]
    BY <1>5 DEF Windows
  <1>8. /\ old * old \in Int /\ v * v \in Int
        /\ e.size \in Nat /\ e.head \in Nat /\ e.max \in Nat /\ e.min \in Nat
    <2>1. \A a \in Nat : a * a \in Int   OBVIOUS
    <2>2. old * old \in Int /\ v * v \in Int   BY <1>3, <2>1
    <2>3. e.head \in Nat   BY <1>1, <1>2, <1>6
    <2> QED BY <1>1, <1>6, <2>2, <2>3
  <1>9. e.sum \in Int /\ e.sumSq \in Int
    <2>1. \A a, b, x \in Int : a - b + x \in Int   OBVIOUS
    <2>2. old \in Int /\ v \in Int   BY <1>3
    <2>3. e.sum \in Int   BY <1>1, <1>6, <2>1, <2>2
    <2> DEFINE oo == old * old
               vv == v * v
    <2>4. oo \in Int /\ vv \in Int /\ e.sumSq = w.sumSq - oo + vv   BY <1>6, <1>8
    <2> HIDE DEF oo, vv
    <2>5. e.sumSq \in Int   BY <1>1, <2>1, <2>4
    <2> QED BY <2>3, <2>5
  <1>10. e \in Windows(c)   BY <1>3, <1>6, <1>7, <1>8, <1>9 DEF Windows
  <1> QED BY <1>3, <1>6, <1>10 DEF e, d, old

(* The samples it then stands for are the same ones but the oldest, and v. *)
LEMMA RecentSlides ==
  ASSUME NEW c \in Nat, c > 0, NEW s \in Seq(Nat), NEW v \in Nat, Fewer(Len(s), c) = c
  PROVE  LET u == Append(s, v)
             b == Before(s, c)
         IN  /\ Fewer(Len(u), c) = c /\ Before(u, c) = b + 1
             /\ b \in Nat /\ b + c = Len(s) /\ s[b + 1] \in Nat
             /\ u \in Seq(Nat) /\ Len(u) = Len(s) + 1 /\ u[Len(s) + 1] = v
             /\ \A k \in 1 .. Len(s) : u[k] = s[k]
             /\ Recent(s, c) \cup {v} = Recent(u, c) \cup {s[b + 1]}
             /\ v \in Recent(u, c)
             /\ \A x \in Recent(s, c) : x = s[b + 1] \/ x \in Recent(u, c)
PROOF
  <1> DEFINE u == Append(s, v)
             b == Before(s, c)
             n == Len(s)
  <1>1. u \in Seq(Nat) /\ Len(u) = n + 1 /\ n \in Nat /\ u[n + 1] = v
        /\ \A k \in 1 .. n : u[k] = s[k]
    BY AppendProperties
  <1>2. b \in Nat /\ b + c = n /\ n \in Nat /\ \A k \in 1 .. n : s[k] \in Nat
    BY RecentIs
  <1> HIDE DEF u, b, n
  <1>3. Fewer(n + 1, c) = c   BY <1>2 DEF Fewer
  <1>4. Before(u, c) = b + 1   BY <1>1, <1>2, <1>3 DEF Before
  <1>5. Recent(s, c) = {s[k] : k \in (b + 1) .. n} /\ Recent(u, c) = {u[k] : k \in (b + 2) .. (n + 1)}
    <2>1. (b + 1) + 1 = b + 2   BY <1>2
    <2> QED BY <1>1, <1>4, <2>1 DEF Recent, b, n
  <1>6. b + 1 \in (b + 1) .. n /\ b + 1 \in 1 .. n /\ n + 1 \in (b + 2) .. (n + 1)
    BY <1>2
  <1>7. v \in Recent(u, c)   BY <1>1, <1>5, <1>6
  <1>8. \A x \in Recent(s, c) : x = s[b + 1] \/ x \in Recent(u, c)
    <2>1. SUFFICES ASSUME NEW k \in (b + 1) .. n, k # b + 1 PROVE s[k] \in Recent(u, c)
      BY <1>5
    <2>2. k \in 1 .. n /\ k \in (b + 2) .. (n + 1)   BY <1>2, <2>1
    <2> QED BY <1>1, <1>5, <2>2
  <1>9. \A x \in Recent(u, c) : x = v \/ x \in Recent(s, c)
    <2>1. SUFFICES ASSUME NEW k \in (b + 2) .. (n + 1), k # n + 1 PROVE u[k] \in Recent(s, c)
      BY <1>1, <1>5
    <2>2. k \in 1 .. n /\ k \in (b + 1) .. n   BY <1>2, <2>1
    <2> QED BY <1>1, <1>5, <2>2
  <1>10. s[b + 1] \in Recent(s, c) /\ s[b + 1] \in Nat   BY <1>2, <1>5, <1>6
  <1> QED BY <1>1, <1>2, <1>3, <1>4, <1>7, <1>8, <1>9, <1>10 DEF u, b, n
LEMMA WrittenHolds ==
  ASSUME NEW c \in Nat, c > 0, NEW w, NEW s \in Seq(Nat), NEW v \in Nat,
         Holds(c, w, s), w.size = c
  PROVE  /\ InPlace(Written(w, v), Append(s, v))
         /\ SumsFollow(Written(w, v), Append(s, v))
         /\ w.data[w.head] = s[Before(s, c) + 1]
PROOF
  <1>0. w \in Windows(c) /\ w.head < c   BY DEF Holds
  <1>a. /\ Written(w, v) \in Windows(c) /\ w.data[w.head] \in Nat
        /\ Written(w, v).data = [w.data EXCEPT ![w.head] = v]
        /\ Written(w, v).size = c
        /\ Written(w, v).head = IF w.head = c - 1 THEN 0 ELSE w.head + 1
        /\ Written(w, v).sum = w.sum - w.data[w.head] + v
        /\ Written(w, v).sumSq = w.sumSq - w.data[w.head] * w.data[w.head] + v * v
        /\ Written(w, v).max = w.max /\ Written(w, v).min = w.min
    BY SMTT(30), <1>0, WrittenIs
  <1> DEFINE e == Written(w, v)
             u == Append(s, v)
             b == Before(s, c)
             n == Len(s)
             old == w.data[w.head]
  <1>1. w \in Windows(c) /\ Fewer(n, c) = c /\ w.head < c /\ InPlace(w, s) /\ SumsFollow(w, s)
    BY DEF Holds
  <1>2. /\ e \in Windows(c) /\ old \in Nat /\ e.data = [w.data EXCEPT ![w.head] = v]
        /\ e.size = c /\ e.head = IF w.head = c - 1 THEN 0 ELSE w.head + 1
        /\ e.sum = w.sum - old + v /\ e.sumSq = w.sumSq - old * old + v * v
    BY <1>a, Zenon
  <1>3. /\ Before(u, c) = b + 1 /\ b \in Nat /\ b + c = n /\ s[b + 1] \in Nat
        /\ u \in Seq(Nat) /\ Len(u) = n + 1 /\ u[n + 1] = v /\ \A k \in 1 .. n : u[k] = s[k]
    BY <1>1, RecentSlides
  <1>4. n \in Nat   OBVIOUS
  <1>5. /\ w.capacity = c /\ e.capacity = c /\ w.data \in [0 .. (c - 1) -> Nat]
        /\ w.head \in Nat /\ w.sum \in Int /\ w.sumSq \in Int
    BY <1>1, <1>2 DEF Windows
  <1> HIDE DEF e, u, b, n, old
  <1>6. w.head \in 0 .. (c - 1) /\ e.head = Next1(c, w.head)   BY <1>1, <1>2, <1>5 DEF Next1
  <1>7. \A i \in 0 .. (c - 1) : w.data[(w.head + i) % c] = s[b + 1 + i]
    BY <1>1, <1>5 DEF InPlace, Holds, b
  <1>8. old = s[b + 1]
    <2>1. 0 \in 0 .. (c - 1) /\ b + 1 + 0 = b + 1 /\ w.head + 0 = w.head
      BY <1>3, <1>5
    <2>2. (w.head + 0) % c = w.head   BY <1>1, <1>6, <2>1, RingSlots
    <2>3. w.data[(w.head + 0) % c] = s[b + 1 + 0]   BY <1>7, <2>1
    <2> QED BY <2>1, <2>2, <2>3 DEF old
  <1>9. InPlace(e, u)
    <2>0. \A i \in 0 .. (c - 1) :
            /\ (w.head + i) % c \in 0 .. (c - 1)
            /\ i # 0 => (w.head + i) % c # w.head
            /\ (e.head + i) % c = IF i = c - 1 THEN w.head ELSE (w.head + (i + 1)) % c
      <3> DEFINE h == w.head
                 g == e.head
      <3>1. h \in 0 .. (c - 1) /\ g = Next1(c, h)   BY <1>6
      <3> HIDE DEF h, g
      <3>2. \A i \in 0 .. (c - 1) :
              /\ (h + i) % c \in 0 .. (c - 1)
              /\ i # 0 => (h + i) % c # h
              /\ (Next1(c, h) + i) % c = IF i = c - 1 THEN h ELSE (h + (i + 1)) % c
        <4> TAKE i \in 0 .. (c - 1)
        <4> QED BY <3>1, RingSlots
      <3> QED BY <3>1, <3>2 DEF h, g
    <2>1. \A i \in 0 .. (c - 1) : e.data[(e.head + i) % c] = u[b + 1 + 1 + i]
      <3> TAKE i \in 0 .. (c - 1)
      <3>1. (e.head + i) % c = IF i = c - 1 THEN w.head ELSE (w.head + (i + 1)) % c
        BY <1>6, <2>0
      <3>2. CASE i = c - 1
        <4>1. (e.head + i) % c = w.head   BY <3>1, <3>2
        <4>2. b + 1 + 1 + i = n + 1   BY <1>3, <3>2
        <4>3. e.data[w.head] = v   BY <1>2, <1>5, <1>6
        <4> QED BY <1>3, <4>1, <4>2, <4>3
      <3>3. CASE i # c - 1
        <4> DEFINE j == i + 1
                   k == (w.head + j) % c
        <4>1. j \in 0 .. (c - 1) /\ j # 0 /\ b + 1 + j \in 1 .. n /\ b + 1 + j = b + 1 + 1 + i
          BY SMTT(30), <1>3, <3>3
        <4>2. (e.head + i) % c = k   BY <3>1, <3>3
        <4> HIDE DEF j
        <4>3. k # w.head /\ k \in 0 .. (c - 1)   BY <1>6, <2>0, <4>1
        <4>4. w.data[k] = s[b + 1 + j]   BY <1>7, <4>1
        <4> HIDE DEF k
        <4>5. e.data[k] = w.data[k]   BY <1>2, <1>5, <4>3
        <4> QED BY <1>3, <4>1, <4>2, <4>4, <4>5
      <3> QED BY <3>2, <3>3
    <2>2. InPlace(e, u) <=>
            \A i \in 0 .. (c - 1) : e.data[(e.head + i) % c] = u[(b + 1) + 1 + i]
      BY <1>2, <1>3, <1>5 DEF InPlace
    <2> QED BY <2>1, <2>2
  <1>10. SumsFollow(e, u)
    <2>1. b \in 0 .. n /\ b < n /\ n \in 0 .. n /\ b + 1 \in 0 .. n   BY <1>3, <1>4
    <2>2. /\ Sums(s)[b] \in Int /\ Sums(Squared(s))[b] \in Int
          /\ Sums(s)[b + 1] = Sums(s)[b] + s[b + 1]
          /\ Sums(Squared(s))[b + 1] = Sums(Squared(s))[b] + s[b + 1] * s[b + 1]
      BY <2>1, SumsOfLonger DEF n
    <2>3. /\ Sums(u)[b + 1] = Sums(s)[b + 1] /\ Sums(Squared(u))[b + 1] = Sums(Squared(s))[b + 1]
      BY <2>1, SumsOfLonger DEF n, u
    <2>4. /\ Sums(s)[n] \in Int /\ Sums(Squared(s))[n] \in Int
          /\ Sums(u)[n + 1] = Sums(s)[n] + v
          /\ Sums(Squared(u))[n + 1] = Sums(Squared(s))[n] + v * v
      BY <2>1, SumsOfLonger DEF n, u
    <2>5. w.sum = Sums(s)[n] - Sums(s)[b] /\ w.sumSq = Sums(Squared(s))[n] - Sums(Squared(s))[b]
      BY <1>1, <1>5 DEF SumsFollow, n, b
    <2>6. \A a \in Nat : a * a \in Int   OBVIOUS
    <2>7. old * old \in Int /\ v * v \in Int /\ old * old = s[b + 1] * s[b + 1]
      BY <1>2, <1>8, <2>6
    <2>8. e.sum = Sums(u)[n + 1] - Sums(u)[b + 1]
      <3>1. e.sum = w.sum - old + v /\ old \in Nat   BY <1>2
      <3>2. Sums(u)[n + 1] = Sums(s)[n] + v /\ Sums(s)[n] \in Int   BY <2>4
      <3>3. Sums(u)[b + 1] = Sums(s)[b] + old /\ Sums(s)[b] \in Int   BY <1>8, <2>2, <2>3
      <3>4. w.sum = Sums(s)[n] - Sums(s)[b]   BY <2>5
      <3> QED BY <3>1, <3>2, <3>3, <3>4
    <2>9. e.sumSq = Sums(Squared(u))[n + 1] - Sums(Squared(u))[b + 1]
      <3> DEFINE oo == old * old
                 vv == v * v
      <3>1. e.sumSq = w.sumSq - oo + vv   BY <1>2
      <3>2. Sums(Squared(u))[n + 1] = Sums(Squared(s))[n] + vv   BY <2>4
      <3>3. Sums(Squared(u))[b + 1] = Sums(Squared(s))[b] + oo   BY <2>2, <2>3, <2>7
      <3>4. oo \in Int /\ vv \in Int   BY <2>7
      <3> HIDE DEF oo, vv
      <3>5. w.sumSq = Sums(Squared(s))[n] - Sums(Squared(s))[b]   BY <2>5
      <3>6. Sums(Squared(s))[n] \in Int /\ Sums(Squared(s))[b] \in Int   BY <2>2, <2>4
      <3> QED BY <3>1, <3>2, <3>3, <3>4, <3>5, <3>6
    <2> QED BY <1>3, <1>5, <2>8, <2>9 DEF SumsFollow
  <1> QED BY <1>8, <1>9, <1>10 DEF e, u, b, n, old

(* What the ring holds are the last samples.                               *)
LEMMA HeldIsRecent ==
  ASSUME NEW c \in Nat, NEW w, NEW s \in Seq(Nat), InPlace(w, s), w.capacity = c,
         w.size = Fewer(Len(s), c)
  PROVE  Held(w) = Recent(s, c)
PROOF
  <1> DEFINE b == Before(s, c)
             n == Len(s)
  <1>1. b \in Nat /\ b + w.size = n /\ w.size \in Nat /\ n \in Nat   BY RecentIs
  <1>2. \A i \in 0 .. (w.size - 1) : w.data[(w.head + i) % w.capacity] = s[b + 1 + i]
    BY DEF InPlace
  <1> HIDE DEF b, n
  <1>3. \A i \in 0 .. (w.size - 1) : b + 1 + i \in (b + 1) .. n   BY <1>1
  <1>4. \A k \in (b + 1) .. n : k - (b + 1) \in 0 .. (w.size - 1) /\ b + 1 + (k - (b + 1)) = k
    BY <1>1
  <1>5. Held(w) \subseteq {s[k] : k \in (b + 1) .. n}   BY <1>2, <1>3 DEF Held
  <1>6. {s[k] : k \in (b + 1) .. n} \subseteq Held(w)
    <2> SUFFICES ASSUME NEW k \in (b + 1) .. n PROVE s[k] \in Held(w)   OBVIOUS
    <2> DEFINE i == k - (b + 1)
    <2>1. i \in 0 .. (w.size - 1) /\ b + 1 + i = k   BY <1>4
    <2> HIDE DEF i
    <2>2. s[k] = w.data[(w.head + i) % w.capacity]   BY <1>2, <2>1
    <2> QED BY <2>1, <2>2 DEF Held
  <1> QED BY <1>5, <1>6 DEF Recent, b, n

(* It has a greatest and a least of them.                                  *)
LEMMA RecentHasExtremes ==
  ASSUME NEW c \in Nat, c > 0, NEW s \in Seq(Nat), Len(s) > 0
  PROVE  /\ Max(Recent(s, c)) \in Recent(s, c) /\ Min(Recent(s, c)) \in Recent(s, c)
         /\ \A x \in Recent(s, c) : Max(Recent(s, c)) >= x /\ Min(Recent(s, c)) <= x
PROOF
  <1> DEFINE b == Before(s, c)
             n == Len(s)
             R == Recent(s, c)
             m == Fewer(n, c)
             f == [i \in 1 .. m |-> s[b + i]]
  <1>1. /\ b \in Nat /\ b + m = n /\ m \in Nat /\ n \in Nat /\ \A k \in 1 .. n : s[k] \in Nat
        /\ R \subseteq Nat
    BY RecentIs
  <1>2. m > 0   BY <1>1 DEF Fewer
  <1>3. R = {s[k] : k \in (b + 1) .. n}   BY DEF Recent
  <1> HIDE DEF b, n, m, R
  <1>4. \A i \in 1 .. m : b + i \in 1 .. n /\ b + i \in (b + 1) .. n   BY <1>1
  <1>5. f \in [1 .. m -> Nat]   BY <1>1, <1>4
  <1>6. \A i \in 1 .. m : f[i] = s[b + i] /\ f[i] \in R   BY <1>3, <1>4
  <1>7. \A x \in R : \E i \in 1 .. m : x = f[i]
    <2> SUFFICES ASSUME NEW k \in (b + 1) .. n PROVE \E i \in 1 .. m : s[k] = f[i]
      BY <1>3
    <2>1. k - b \in 1 .. m /\ b + (k - b) = k   BY <1>1
    <2> QED BY <1>6, <2>1
  <1> HIDE DEF f
  <1>8. PICK k \in 1 .. m : \A j \in 1 .. m : f[k] >= f[j]   BY <1>1, <1>2, <1>5, GreatestExists
  <1>9. f[k] \in R /\ \A x \in R : f[k] >= x   BY <1>6, <1>7, <1>8
  <1>10. PICK l \in R : \A x \in R : l <= x
    <2>1. R # {}   BY <1>9
    <2> QED BY <1>1, <2>1, LeastNat
  <1>11. R \subseteq Int   BY <1>1
  <1>12. Max(R) = f[k] /\ Min(R) = l   BY <1>9, <1>10, <1>11, MaxIs, MinIs
  <1> QED BY <1>9, <1>10, <1>12 DEF R
LEMMA OverwriteHolds ==
  ASSUME NEW c \in Nat, c > 0, NEW w, NEW s \in Seq(Nat), NEW v \in Nat,
         Holds(c, w, s), w.size = c
  PROVE  Holds(c, Overwrite(w, v), Append(s, v))
PROOF
  <1>0. w \in Windows(c) /\ w.head < c   BY DEF Holds
  <1>a. /\ Written(w, v) \in Windows(c) /\ w.data[w.head] \in Nat
        /\ Written(w, v).data = [w.data EXCEPT ![w.head] = v]
        /\ Written(w, v).size = c
        /\ Written(w, v).head = IF w.head = c - 1 THEN 0 ELSE w.head + 1
        /\ Written(w, v).sum = w.sum - w.data[w.head] + v
        /\ Written(w, v).sumSq = w.sumSq - w.data[w.head] * w.data[w.head] + v * v
        /\ Written(w, v).max = w.max /\ Written(w, v).min = w.min
    BY SMTT(30), <1>0, WrittenIs
  <1> DEFINE e == Written(w, v)
             o == Overwrite(w, v)
             u == Append(s, v)
             old == w.data[w.head]
  <1>2. /\ e \in Windows(c) /\ old \in Nat /\ e.data = [w.data EXCEPT ![w.head] = v]
        /\ e.size = c /\ e.head = IF w.head = c - 1 THEN 0 ELSE w.head + 1
        /\ e.sum = w.sum - old + v /\ e.sumSq = w.sumSq - old * old + v * v
        /\ e.max = w.max /\ e.min = w.min
    BY <1>a, Zenon
  <1> DEFINE R == Recent(u, c)
             Kept == [e EXCEPT !.max = IF v > e.max THEN v ELSE e.max,
                               !.min = IF v < e.min THEN v ELSE e.min]
  <1>1. w \in Windows(c) /\ Fewer(Len(s), c) = c /\ w.head < c /\ Extremes(w, s)
    BY DEF Holds
  <1>3. InPlace(e, u) /\ SumsFollow(e, u) /\ old = s[Before(s, c) + 1]   BY WrittenHolds
  <1>4. /\ Fewer(Len(u), c) = c /\ u \in Seq(Nat) /\ v \in R
        /\ Recent(s, c) \cup {v} = R \cup {old}
        /\ \A x \in Recent(s, c) : x = old \/ x \in R
    BY <1>1, <1>3, RecentSlides
  <1>5. R \subseteq Nat /\ Recent(s, c) \subseteq Nat   BY <1>4, RecentIs
  <1>6. Held(e) = R
    <2>1. e.capacity = c   BY <1>2 DEF Windows
    <2> HIDE DEF e, u
    <2> QED BY <1>2, <1>3, <1>4, <2>1, HeldIsRecent
  <1>7. o = IF old \in {w.min, w.max} THEN recomputeExtrema(e) ELSE Kept
    BY DEF Overwrite, Written
  <1>8. w.max \in Nat /\ w.min \in Nat /\ w.head \in Nat   BY <1>1 DEF Windows
  <1>9. ASSUME NEW mx \in R, NEW mn \in R, \A x \in R : mx >= x /\ mn <= x,
               o = [e EXCEPT !.max = mx, !.min = mn]
        PROVE  Holds(c, o, u)
    <2>1. /\ o.capacity = c /\ o.data = e.data /\ o.size = c /\ o.head = e.head
          /\ o.sum = e.sum /\ o.sumSq = e.sumSq /\ o.max = mx /\ o.min = mn
          /\ e.capacity = c
      <3> HIDE DEF o, e
      <3> QED BY <1>2, <1>9 DEF Windows
    <2>2. o \in Windows(c)
      <3> HIDE DEF o, e, R
      <3> QED BY <1>2, <1>5, <1>9 DEF Windows
    <2> HIDE DEF o, e, R, u
    <2>3. InPlace(o, u)   BY <1>3, <1>2, <2>1 DEF InPlace
    <2>4. SumsFollow(o, u)   BY <1>3, <2>1 DEF SumsFollow
    <2>5. Extremes(o, u)   BY <1>9, <2>1 DEF Extremes, R
    <2>6. o.head < c
      <3> DEFINE k == w.head
      <3>1. k \in Nat /\ k < c   BY <1>1, <1>8
      <3>2. e.head = IF k = c - 1 THEN 0 ELSE k + 1   BY <1>2
      <3> HIDE DEF k
      <3>3. e.head < c   BY <3>1, <3>2
      <3> QED BY <2>1, <3>3
    <2> QED BY <1>4, <2>1, <2>2, <2>3, <2>4, <2>5, <2>6 DEF Holds
  <1>10. old \in {w.min, w.max} => Holds(c, o, u)
    <2> HAVE old \in {w.min, w.max}
    <2>1. o = [e EXCEPT !.max = Max(R), !.min = Min(R)]
      BY <1>6, <1>7 DEF recomputeExtrema
    <2>2. Len(u) > 0   BY AppendProperties
    <2>3. Max(R) \in R /\ Min(R) \in R /\ \A x \in R : Max(R) >= x /\ Min(R) <= x
      <3> HIDE DEF u
      <3> QED BY <1>4, <2>2, RecentHasExtremes
    <2> DEFINE mx == Max(R)
               mn == Min(R)
    <2>4. /\ mx \in R /\ mn \in R /\ \A x \in R : mx >= x /\ mn <= x
          /\ o = [e EXCEPT !.max = mx, !.min = mn]
      BY <2>1, <2>3
    <2> HIDE DEF mx, mn, o, e, u, R
    <2> QED BY <1>9, <2>4
  <1>11. old \notin {w.min, w.max} => Holds(c, o, u)
    <2> HAVE old \notin {w.min, w.max}
    <2> DEFINE mx == IF v > w.max THEN v ELSE w.max
               mn == IF v < w.min THEN v ELSE w.min
    <2>1. o = [e EXCEPT !.max = mx, !.min = mn]   BY <1>2, <1>7
    <2>2. /\ w.max \in Recent(s, c) /\ w.min \in Recent(s, c)
          /\ \A x \in Recent(s, c) : w.max >= x /\ w.min <= x
      BY <1>1 DEF Extremes, Windows
    <2> HIDE DEF o, e, u, R, old
    <2>3. w.max \in R /\ w.min \in R   BY <1>4, <2>2
    <2>4. mx \in R /\ mn \in R   BY <1>4, <2>3
    <2>5. \A x \in R : x = v \/ x \in Recent(s, c)   BY <1>4
    <2>6. \A x \in R : mx >= x /\ mn <= x
      <3> TAKE x \in R
      <3>1. x \in Nat   BY <1>5
      <3> QED BY <1>8, <2>2, <2>5, <3>1
    <2> HIDE DEF mx, mn
    <2> QED BY <1>9, <2>1, <2>4, <2>6
  <1>12. Holds(c, o, u)   BY <1>10, <1>11
  <1> QED BY <1>12 DEF o, u

(* A push keeps what the window stands for.                                *)
LEMMA PushHolds ==
  ASSUME NEW c \in Nat, NEW w, NEW s \in Seq(Nat), NEW v \in Nat, Holds(c, w, s)
  PROVE  Holds(c, push(w, v), Append(s, v))
PROOF
  <1>1. w \in Windows(c) /\ w.size = Fewer(Len(s), c)   BY DEF Holds
  <1>2. w.capacity = c /\ w.size \in Nat   BY <1>1 DEF Windows
  <1>3. Max({v, 0}) = v   BY MaxOfTwo
  <1>4. w.size <= c   BY <1>1, RecentIs
  <1>5. CASE c = 0
    <2> DEFINE u == Append(s, v)
    <2>1. push(w, v) = w   BY <1>2, <1>5 DEF push
    <2>2. u \in Seq(Nat)   BY AppendProperties
    <2> HIDE DEF u
    <2>3. Fewer(Len(u), c) = 0 /\ Before(u, c) = Len(u) /\ Len(u) \in Nat
      <3>1. Fewer(Len(u), c) = 0   BY <1>5, <2>2 DEF Fewer
      <3> QED BY <2>2, <3>1 DEF Before
    <2>4. Fewer(Len(s), c) = 0 /\ Before(s, c) = Len(s) /\ Len(s) \in Nat
      <3>1. Fewer(Len(s), c) = 0   BY <1>5 DEF Fewer
      <3> QED BY <3>1 DEF Before
    <2>5. /\ Sums(s)[Len(s)] \in Int /\ Sums(Squared(s))[Len(s)] \in Int
          /\ Sums(u)[Len(u)] \in Int /\ Sums(Squared(u))[Len(u)] \in Int
      <3>1. Len(s) \in 0 .. Len(s) /\ Len(u) \in 0 .. Len(u)   BY <2>3, <2>4
      <3> QED BY <2>2, <3>1, SumsOfLonger
    <2>6. w.sum = 0 /\ w.sumSq = 0
      BY <1>2, <2>4, <2>5 DEF Holds, SumsFollow
    <2>7. SumsFollow(w, u)   BY <1>2, <2>3, <2>5, <2>6 DEF SumsFollow
    <2>8. w.size = 0   BY <1>1, <2>4
    <2>9. InPlace(w, u) /\ Extremes(w, u)   BY <2>8 DEF InPlace, Extremes
    <2> QED BY <1>1, <1>5, <2>1, <2>3, <2>7, <2>8, <2>9 DEF Holds, u
  <1>6. CASE c > 0 /\ w.size < c
    <2>1. push(w, v) = Extend(w, v)   BY <1>2, <1>3, <1>6 DEF push
    <2> QED BY <1>6, <2>1, ExtendHolds
  <1>7. CASE c > 0 /\ w.size = c
    <2>1. push(w, v) = Overwrite(w, v)   BY <1>2, <1>3, <1>7 DEF push
    <2> QED BY <1>7, <2>1, OverwriteHolds
  <1> QED BY <1>2, <1>4, <1>5, <1>6, <1>7

(* And that is what its statistics are of.                                 *)
LEMMA HoldsIsWindow ==
  ASSUME NEW c \in Nat, NEW w, NEW s \in Seq(Nat), Holds(c, w, s)
  PROVE  IsWindowOf(w, s)
PROOF
  <1> DEFINE last == Latest(s, c)
             n == Len(last)
  <1>1. w \in Windows(c) /\ w.size = Fewer(Len(s), c) /\ SumsFollow(w, s) /\ Extremes(w, s)
    BY DEF Holds
  <1>2. w.capacity = c /\ w.size \in Nat /\ w.sum \in Int /\ w.sumSq \in Int
    BY <1>1 DEF Windows
  <1>3. last \in Seq(Nat) /\ n = w.size
        /\ \A i \in 1 .. w.size : last[i] = s[i + Before(s, c)]
    BY <1>1, LatestElements DEF Before
  <1>4. w.sum = Total(last) /\ w.sumSq = Squares(last)
    BY <1>1, <1>2, TotalOfLatest DEF SumsFollow, Before
  <1>5. ToSet(last) = Recent(s, c)
    <2>1. /\ Before(s, c) \in Nat /\ Before(s, c) + w.size = Len(s) /\ Len(s) \in Nat
      BY <1>1, RecentIs
    <2>2. ToSet(last) = {last[i] : i \in 1 .. w.size}
      <3> HIDE DEF last
      <3>1. DOMAIN last = 1 .. w.size   BY <1>3
      <3> QED BY <3>1 DEF ToSet
    <2> HIDE DEF last
    <2> DEFINE b == Before(s, c)
               z == w.size
               l == Len(s)
    <2>3. b \in Nat /\ z \in Nat /\ b + z = l /\ l \in Nat   BY <1>2, <2>1
    <2>4. /\ ToSet(last) = {last[i] : i \in 1 .. z}
          /\ \A i \in 1 .. z : last[i] = s[i + b]
      BY <1>3, <2>2
    <2>5. Recent(s, c) = {s[k] : k \in (b + 1) .. l}   BY DEF Recent
    <2> HIDE DEF b, z, l
    <2>6. \A i \in 1 .. z : i + b \in (b + 1) .. l   BY <2>3
    <2>7. ToSet(last) \subseteq Recent(s, c)   BY <2>4, <2>5, <2>6
    <2>8. Recent(s, c) \subseteq ToSet(last)
      <3> SUFFICES ASSUME NEW k \in (b + 1) .. l PROVE s[k] \in ToSet(last)
        BY <2>5
      <3> DEFINE i == k - b
      <3>1. i \in 1 .. z /\ i + b = k   BY <2>3
      <3> HIDE DEF i
      <3> QED BY <2>4, <3>1
    <2> QED BY <2>7, <2>8
  <1>6. stddev(w) = IF n <= 1 THEN 0 ELSE n * Squares(last) - Total(last) * Total(last)
    BY <1>3, <1>4 DEF stddev
  <1>7. last # <<>> => max(w) = Max(ToSet(last)) /\ min(w) = Min(ToSet(last))
    <2> HAVE last # <<>>
    <2>1. w.size > 0
      <3> HIDE DEF last
      <3> QED BY <1>2, <1>3, EmptySeq
    <2>2. max(w) = w.max /\ min(w) = w.min   BY <1>2, <2>1 DEF max, min
    <2>3. Recent(s, c) \subseteq Int
      <3>1. Recent(s, c) \subseteq Nat   BY RecentIs
      <3> QED BY <3>1
    <2>4. /\ w.max \in Recent(s, c) /\ w.min \in Recent(s, c)
          /\ \A x \in Recent(s, c) : w.max >= x /\ w.min <= x
      BY <1>1, <1>2, <2>1 DEF Extremes
    <2> QED BY <1>5, <2>2, <2>3, <2>4, MaxIs, MinIs
  <1> QED BY <1>2, <1>3, <1>4, <1>6, <1>7 DEF IsWindowOf
-----------------------------------------------------------------------------
(* The values of a function on the first numbers, in their order: the      *)
(* sequences exist, are the same for functions that agree, and grow by one *)
(* value at most.                                                          *)
Along(f, n, value) ==
  /\ f[0] = <<>>
  /\ \A k \in 1 .. n :
       f[k] = IF k \in DOMAIN value THEN Append(f[k - 1], value[k]) ELSE f[k - 1]

Agree(v, u, n) ==
  \A k \in 1 .. n : /\ k \in DOMAIN v <=> k \in DOMAIN u
                    /\ k \in DOMAIN v => v[k] = u[k]

Valued(v, n, S) == \A k \in 1 .. n : k \in DOMAIN v => v[k] \in S

LEMMA AlongUnique ==
  ASSUME NEW n \in Nat, NEW v, NEW u, NEW f, NEW g, Along(f, n, v), Along(g, n, u),
         Agree(v, u, n)
  PROVE  \A k \in 0 .. n : g[k] = f[k]
PROOF
  <1> DEFINE Off == {k \in 0 .. n : g[k] # f[k]}
  <1> SUFFICES ASSUME Off # {} PROVE FALSE   OBVIOUS
  <1>1. PICK k \in Off : \A j \in Off : k <= j
    <2>1. Off \subseteq Nat   OBVIOUS
    <2> HIDE DEF Off
    <2> QED BY <2>1, LeastNat
  <1>2. k \in 0 .. n /\ g[k] # f[k]   BY <1>1
  <1>3. k # 0   BY <1>2 DEF Along
  <1>4. k \in 1 .. n /\ k - 1 \in 0 .. n /\ ~ (k <= k - 1)   BY <1>2, <1>3
  <1>5. k - 1 \notin Off
    <2> HIDE DEF Off
    <2> QED BY <1>1, <1>4
  <1>6. g[k - 1] = f[k - 1]   BY <1>4, <1>5
  <1>7. /\ f[k] = IF k \in DOMAIN v THEN Append(f[k - 1], v[k]) ELSE f[k - 1]
        /\ g[k] = IF k \in DOMAIN u THEN Append(g[k - 1], u[k]) ELSE g[k - 1]
    BY <1>4 DEF Along
  <1>8. /\ k \in DOMAIN v <=> k \in DOMAIN u
        /\ k \in DOMAIN v => v[k] = u[k]
    BY <1>4 DEF Agree
  <1> HIDE DEF Off
  <1> QED BY <1>2, <1>6, <1>7, <1>8

LEMMA AlongExists ==
  ASSUME NEW N \in Nat, NEW v, NEW S, Valued(v, N, S)
  PROVE  \E f \in [0 .. N -> Seq(S)] : Along(f, N, v)
PROOF
  <1> DEFINE Has(n) == \E f \in [0 .. n -> Seq(S)] : Along(f, n, v)
             Bad == {n \in 0 .. N : ~ Has(n)}
  <1>1. Bad = {}
    <2> SUFFICES ASSUME Bad # {} PROVE FALSE   OBVIOUS
    <2>1. PICK n \in Bad : \A m \in Bad : n <= m
      <3>1. Bad \subseteq Nat   OBVIOUS
      <3> HIDE DEF Bad
      <3> QED BY <3>1, LeastNat
    <2>2. n # 0
      <3>1. <<>> \in Seq(S)   OBVIOUS
      <3>2. [k \in 0 .. 0 |-> <<>>] \in [0 .. 0 -> Seq(S)]   BY <3>1
      <3>3. Along([k \in 0 .. 0 |-> <<>>], 0, v)   BY DEF Along
      <3>4. Has(0)   BY <3>2, <3>3
      <3>5. ~ Has(n)   BY <2>1
      <3> HIDE DEF Has
      <3> QED BY <3>4, <3>5
    <2>3. n \in Nat /\ n \in 1 .. N /\ n - 1 \in 0 .. N
      <3>1. n \in 0 .. N   BY <2>1
      <3> HIDE DEF Bad
      <3> QED BY <2>2, <3>1
    <2>4. PICK f \in [0 .. (n - 1) -> Seq(S)] : Along(f, n - 1, v)
      <3>1. n - 1 \notin Bad
        <4> HIDE DEF Bad
        <4> QED BY <2>1, <2>3
      <3> QED BY <2>3, <3>1
    <2> DEFINE e == IF n \in DOMAIN v THEN Append(f[n - 1], v[n]) ELSE f[n - 1]
               g == [k \in 0 .. n |-> IF k = n THEN e ELSE f[k]]
    <2>5. \A k \in 0 .. (n - 1) : f[k] \in Seq(S) /\ g[k] = f[k]   BY <2>3, <2>4
    <2>6. e \in Seq(S)
      <3>1. f[n - 1] \in Seq(S)
        <4>1. n - 1 \in 0 .. (n - 1)   BY <2>3
        <4> HIDE DEF g, e
        <4> QED BY <2>3, <2>5, <4>1
      <3>2. n \in DOMAIN v => v[n] \in S   BY <2>3 DEF Valued
      <3> QED BY <3>1, <3>2, AppendProperties
    <2> HIDE DEF e
    <2>7. g \in [0 .. n -> Seq(S)]
      <3>1. \A k \in 0 .. n : k = n \/ k \in 0 .. (n - 1)   BY <2>3
      <3>2. \A k \in 0 .. n : (IF k = n THEN e ELSE f[k]) \in Seq(S)   BY <2>5, <2>6, <3>1
      <3> QED BY <3>2
    <2>8. g[n] = e /\ g[0] = <<>>
      <3>1. g[n] = e   BY <2>3
      <3>2. 0 \in 0 .. (n - 1)   BY <2>3
      <3>3. g[0] = f[0]   BY <2>5, <3>2
      <3> QED BY <2>4, <3>1, <3>3 DEF Along
    <2>9. \A k \in 1 .. n :
            g[k] = IF k \in DOMAIN v THEN Append(g[k - 1], v[k]) ELSE g[k - 1]
      <3> TAKE k \in 1 .. n
      <3>1. k - 1 \in 0 .. (n - 1) /\ (k = n \/ k \in 1 .. (n - 1))   BY <2>3
      <3>2. g[k - 1] = f[k - 1]   BY <2>5, <3>1
      <3>3. CASE k = n   BY <2>8, <3>2, <3>3 DEF e
      <3>4. CASE k \in 1 .. (n - 1)
        <4>1. k \in 0 .. (n - 1)   BY <3>4
        <4>2. g[k] = f[k]   BY <2>5, <4>1
        <4>3. f[k] = IF k \in DOMAIN v THEN Append(f[k - 1], v[k]) ELSE f[k - 1]
          BY <2>4, <3>4 DEF Along
        <4> QED BY <3>2, <4>2, <4>3
      <3> QED BY <3>1, <3>3, <3>4
    <2>10. Along(g, n, v)
      <3> HIDE DEF g
      <3> QED BY <2>8, <2>9 DEF Along
    <2> HIDE DEF g
    <2>11. Has(n)   BY <2>7, <2>10
    <2> HIDE DEF Has
    <2> QED BY <2>1, <2>11
  <1>2. N \in 0 .. N   OBVIOUS
  <1>3. Has(N)
    <2> HIDE DEF Has
    <2> QED BY <1>1, <1>2
  <1> QED BY <1>3

LEMMA InOrderIs ==
  ASSUME NEW n \in Nat, NEW v, NEW S, Valued(v, n, S)
  PROVE  \E f \in [0 .. n -> Seq(S)] : Along(f, n, v) /\ InOrder(v, n) = f[n]
PROOF
  <1> DEFINE Step(h) == [k \in 0 .. n |->
                           IF k = 0 THEN <<>>
                           ELSE IF k \in DOMAIN v THEN Append(h[k - 1], v[k])
                           ELSE h[k - 1]]
             Rec == CHOOSE h : h = Step(h)
  <1>1. PICK f \in [0 .. n -> Seq(S)] : Along(f, n, v)   BY AlongExists
  <1>2. f = Step(f)
    <2>1. \A k \in 0 .. n : k = 0 \/ k \in 1 .. n   OBVIOUS
    <2> QED BY <1>1, <2>1 DEF Along
  <1>3. InOrder(v, n) = Rec[n]   BY DEF InOrder
  <1> DEFINE h == Rec
  <1>4. h = Step(h)   BY <1>2
  <1> HIDE DEF h
  <1>5. Along(h, n, v)
    <2> DEFINE g == Step(h)
    <2>1. \A k \in 1 .. n : k \in 0 .. n /\ k # 0   OBVIOUS
    <2>2. 0 \in 0 .. n   OBVIOUS
    <2>3. g[0] = <<>>   BY <2>2
    <2>4. \A k \in 1 .. n : g[k] = IF k \in DOMAIN v THEN Append(h[k - 1], v[k]) ELSE h[k - 1]
      BY <2>1
    <2>5. h = g   BY <1>4
    <2> HIDE DEF g
    <2> QED BY <2>3, <2>4, <2>5 DEF Along
  <1>6. Agree(v, v, n)   BY DEF Agree
  <1>7. \A k \in 0 .. n : h[k] = f[k]   BY <1>1, <1>5, <1>6, AlongUnique
  <1>8. n \in 0 .. n   OBVIOUS
  <1> QED BY <1>1, <1>3, <1>7, <1>8 DEF h

LEMMA InOrderGrows ==
  ASSUME NEW n \in Nat, NEW v, NEW u, NEW S, Agree(v, u, n), Valued(u, n + 1, S)
  PROVE  /\ InOrder(v, n) \in Seq(S)
         /\ InOrder(u, n + 1) \in Seq(S)
         /\ InOrder(u, n + 1) =
              IF n + 1 \in DOMAIN u THEN Append(InOrder(v, n), u[n + 1]) ELSE InOrder(v, n)
PROOF
  <1>1. \A k \in 1 .. n : k \in 1 .. (n + 1)   OBVIOUS
  <1>2. Valued(v, n, S)   BY <1>1 DEF Valued, Agree
  <1>3. n + 1 \in Nat   OBVIOUS
  <1>4. PICK f : f \in [0 .. n -> Seq(S)] /\ Along(f, n, v) /\ InOrder(v, n) = f[n]
    BY <1>2, InOrderIs
  <1>5. PICK g : /\ g \in [0 .. (n + 1) -> Seq(S)] /\ Along(g, n + 1, u)
                   /\ InOrder(u, n + 1) = g[n + 1]
    BY <1>3, InOrderIs
  <1>6. Along(g, n, u)   BY <1>1, <1>5 DEF Along
  <1>7. \A k \in 0 .. n : g[k] = f[k]
    <2>1. Along(f, n, v)   BY <1>4
    <2> QED BY <1>6, <2>1, AlongUnique
  <1>8. n \in 0 .. n /\ n + 1 \in 1 .. (n + 1) /\ n + 1 \in 0 .. (n + 1) /\ (n + 1) - 1 = n
    OBVIOUS
  <1>9. g[n + 1] = IF n + 1 \in DOMAIN u THEN Append(g[n], u[n + 1]) ELSE g[n]
    BY <1>5, <1>8 DEF Along
  <1> QED BY <1>4, <1>5, <1>7, <1>8, <1>9

LEMMA InOrderNone ==
  ASSUME NEW n \in Nat, NEW v, \A k \in 1 .. n : k \notin DOMAIN v
  PROVE  InOrder(v, n) = <<>>
PROOF
  <1> DEFINE g == [k \in 0 .. n |-> <<>>]
  <1>1. Valued(v, n, {})   BY DEF Valued
  <1>2. PICK f \in [0 .. n -> Seq({})] : Along(f, n, v) /\ InOrder(v, n) = f[n]
    BY <1>1, InOrderIs
  <1>3. Along(g, n, v)
    <2>1. \A k \in 1 .. n : k \in 0 .. n /\ k - 1 \in 0 .. n   OBVIOUS
    <2>2. 0 \in 0 .. n   OBVIOUS
    <2> QED BY <2>1, <2>2 DEF Along
  <1>4. Agree(v, v, n)   BY DEF Agree
  <1>5. n \in 0 .. n /\ g[n] = <<>>   OBVIOUS
  <1> HIDE DEF g
  <1>6. \A k \in 0 .. n : g[k] = f[k]   BY <1>2, <1>3, <1>4, AlongUnique
  <1> QED BY <1>2, <1>5, <1>6
-----------------------------------------------------------------------------
(* The statistics of a stretch of code.                                    *)
StatsTyped ==
  /\ durations \in [Ids -> Seq(Nat)]
  /\ DOMAIN g_starts \subseteq Ids
  /\ \A id \in DOMAIN g_starts : g_starts[id] \in Nat

(* There is a window for each id that was measured, of its own durations.  *)
WindowsKept ==
  /\ DOMAIN g_windows = {id \in Ids : durations[id] # <<>>}
  /\ DOMAIN g_last_values = DOMAIN g_windows
  /\ \A id \in DOMAIN g_windows :
       Holds(WindowSize, g_windows[id], durations[id]) /\ g_last_values[id] = Last(durations[id])

ProfilerInv == StatsTyped /\ WindowsKept

LEMMA StatsInitially == ProfilerInit => ProfilerInv
PROOF
  <1> SUFFICES ASSUME ProfilerInit PROVE ProfilerInv   OBVIOUS
  <1>1. DOMAIN NoEntries = {}   BY DEF NoEntries
  <1>2. durations \in [Ids -> Seq(Nat)] /\ \A id \in Ids : durations[id] = <<>>
    <2>1. <<>> \in Seq(Nat)   OBVIOUS
    <2> QED BY <2>1 DEF ProfilerInit
  <1> QED BY <1>1, <1>2 DEF ProfilerInit, ProfilerInv, StatsTyped, WindowsKept

(* One more duration, of one id.                                           *)
LEMMA TocKeeps ==
  ASSUME ProfilerInv, NEW id \in Ids, toc(id)
  PROVE  ProfilerInv'
PROOF
  <1> DEFINE ms == g_starts[id]
             old == IF id \in DOMAIN g_windows THEN g_windows[id]
                    ELSE NumericalMovingWindow(WindowSize)
             w == push(old, ms)
             s == Append(durations[id], ms)
  <1>1. /\ id \in DOMAIN g_starts /\ ms \in Nat /\ WindowSize \in Nat
        /\ durations \in [Ids -> Seq(Nat)] /\ durations[id] \in Seq(Nat)
    BY ProfilerAssumption DEF ProfilerInv, StatsTyped, toc
  <1>2. Holds(WindowSize, old, durations[id])
    <2>1. CASE id \in DOMAIN g_windows   BY <2>1 DEF ProfilerInv, WindowsKept
    <2>2. CASE id \notin DOMAIN g_windows
      <3>1. durations[id] = <<>>   BY <2>2 DEF ProfilerInv, WindowsKept
      <3> QED BY <1>1, <2>2, <3>1, EmptyHolds
    <2> QED BY <2>1, <2>2
  <1>3. Holds(WindowSize, w, s)
    <2> HIDE DEF old
    <2> QED BY <1>1, <1>2, PushHolds
  <1>4. s \in Seq(Nat) /\ s # <<>> /\ Last(s) = ms
    <2>1. s \in Seq(Nat) /\ Len(s) = Len(durations[id]) + 1 /\ s[Len(durations[id]) + 1] = ms
          /\ Len(durations[id]) \in Nat
      BY <1>1, AppendProperties
    <2> HIDE DEF s
    <2> QED BY <2>1, EmptySeq DEF Last
  <1>5. /\ durations' = [durations EXCEPT ![id] = s]
        /\ g_windows' = Entry(g_windows, id, w)
        /\ g_last_values' = Entry(g_last_values, id, ms)
        /\ g_starts' = [i \in DOMAIN g_starts \ {id} |-> g_starts[i]]
    BY DEF toc
  <1> HIDE DEF w, s, old, ms
  <1>6. StatsTyped'
    <2>1. durations' \in [Ids -> Seq(Nat)]   BY <1>1, <1>4, <1>5
    <2>2. /\ DOMAIN g_starts' \subseteq DOMAIN g_starts
          /\ \A i \in DOMAIN g_starts' : g_starts'[i] = g_starts[i]
      BY <1>5
    <2> QED BY <2>1, <2>2 DEF ProfilerInv, StatsTyped
  <1>7. /\ DOMAIN g_windows' = DOMAIN g_windows \cup {id}
        /\ g_windows'[id] = w /\ g_last_values'[id] = ms
        /\ \A i \in DOMAIN g_windows : i # id => g_windows'[i] = g_windows[i]
    BY <1>5 DEF Entry
  <1>8. \A i \in Ids : durations'[i] = IF i = id THEN s ELSE durations[i]   BY <1>1, <1>5
  <1>9. \A i \in DOMAIN g_windows : i # id => g_last_values'[i] = g_last_values[i]
    BY <1>5 DEF Entry, ProfilerInv, WindowsKept
  <1>10. WindowsKept'
    <2>1. DOMAIN g_windows' = {i \in Ids : durations'[i] # <<>>}
      BY <1>4, <1>7, <1>8 DEF ProfilerInv, WindowsKept
    <2>2. \A i \in DOMAIN g_windows' :
            Holds(WindowSize, g_windows'[i], durations'[i]) /\ g_last_values'[i] = Last(durations'[i])
      <3> SUFFICES ASSUME NEW i \in DOMAIN g_windows'
                   PROVE  /\ Holds(WindowSize, g_windows'[i], durations'[i])
                          /\ g_last_values'[i] = Last(durations'[i])
        OBVIOUS
      <3>1. CASE i = id   BY <1>3, <1>4, <1>7, <1>8, <3>1
      <3>2. CASE i # id
        <4>1. i \in DOMAIN g_windows /\ i \in Ids   BY <1>7, <2>1, <3>2
        <4> QED BY <1>7, <1>8, <1>9, <3>2, <4>1 DEF ProfilerInv, WindowsKept
      <3> QED BY <3>1, <3>2
    <2>3. DOMAIN g_last_values' = DOMAIN g_windows'
      BY <1>5 DEF Entry, ProfilerInv, WindowsKept
    <2> QED BY <2>1, <2>2, <2>3 DEF WindowsKept, Holds
  <1> QED BY <1>6, <1>10 DEF ProfilerInv

(* A tic and the time change no window.                                    *)
LEMMA StatsInductive ==
  ASSUME ProfilerInv, [ProfilerNext]_profilerVars
  PROVE  ProfilerInv'
PROOF
  <1>1. ASSUME NEW id \in Ids, tic(id) PROVE ProfilerInv'
    <2>1. /\ DOMAIN g_starts' = DOMAIN g_starts \cup {id} /\ g_starts'[id] = 0
          /\ \A i \in DOMAIN g_starts : i # id => g_starts'[i] = g_starts[i]
      BY <1>1 DEF tic, Entry
    <2>2. UNCHANGED <<g_windows, g_last_values, durations>>   BY <1>1 DEF tic
    <2>3. StatsTyped'   BY <2>1, <2>2 DEF ProfilerInv, StatsTyped
    <2>4. WindowsKept'   BY <2>2 DEF ProfilerInv, WindowsKept
    <2> QED BY <2>3, <2>4 DEF ProfilerInv
  <1>2. ASSUME NEW id \in Ids, toc(id) PROVE ProfilerInv'   BY <1>2, TocKeeps
  <1>3. CASE Elapse
    <2>1. /\ DOMAIN g_starts' = DOMAIN g_starts
          /\ \A i \in DOMAIN g_starts : g_starts'[i] = g_starts[i] + 1
      BY <1>3 DEF Elapse
    <2>2. UNCHANGED <<g_windows, g_last_values, durations>>   BY <1>3 DEF Elapse
    <2>3. StatsTyped'   BY <2>1, <2>2 DEF ProfilerInv, StatsTyped
    <2>4. WindowsKept'   BY <2>2 DEF ProfilerInv, WindowsKept
    <2> QED BY <2>3, <2>4 DEF ProfilerInv
  <1>4. CASE UNCHANGED profilerVars
    <2>1. UNCHANGED <<g_starts, g_windows, g_last_values, durations>>   BY <1>4 DEF profilerVars
    <2>2. StatsTyped' /\ WindowsKept'   BY <2>1 DEF ProfilerInv, StatsTyped, WindowsKept
    <2> QED BY <2>2 DEF ProfilerInv
  <1> QED BY <1>1, <1>2, <1>3, <1>4 DEF ProfilerNext

(* The statistics that are read are those of the durations.                *)
LEMMA StatsFollow == ProfilerInv => StatsAreExact
PROOF
  <1> SUFFICES ASSUME ProfilerInv, NEW id \in Ids
               PROVE  IF durations[id] = <<>> THEN getStats(id).count = 0
                      ELSE /\ IsWindowOf(g_windows[id], durations[id])
                           /\ getStats(id).last = Last(durations[id])
    BY DEF StatsAreExact
  <1>1. CASE durations[id] = <<>>
    <2>1. id \notin DOMAIN g_windows   BY <1>1 DEF ProfilerInv, WindowsKept
    <2> QED BY <1>1, <2>1 DEF getStats
  <1>2. CASE durations[id] # <<>>
    <2>1. /\ id \in DOMAIN g_windows /\ Holds(WindowSize, g_windows[id], durations[id])
          /\ g_last_values[id] = Last(durations[id])
      BY <1>2 DEF ProfilerInv, WindowsKept
    <2>2. durations[id] \in Seq(Nat) /\ WindowSize \in Nat
      BY ProfilerAssumption DEF ProfilerInv, StatsTyped
    <2>3. IsWindowOf(g_windows[id], durations[id])   BY <2>1, <2>2, HoldsIsWindow
    <2>4. getStats(id).last = g_last_values[id]   BY <2>1 DEF getStats
    <2> QED BY <1>2, <2>1, <2>3, <2>4
  <1> QED BY <1>1, <1>2

(* For every capacity and every order of tics and tocs: count, total,      *)
(* extrema, deviation and last value of an id are those of its own last    *)
(* durations (profiler.hpp:43-95, numerical_moving_window.tpp).  The extrema *)
(* are only recomputed when one of them is overwritten; that this is enough *)
(* is part of Extremes.                                                    *)
THEOREM StatsExact == ProfilerSpec => []StatsAreExact
PROOF
  <1>1. ProfilerInit => ProfilerInv   BY StatsInitially
  <1>2. ProfilerInv /\ [ProfilerNext]_profilerVars => ProfilerInv'   BY StatsInductive
  <1> QED BY <1>1, <1>2, StatsFollow, PTL DEF ProfilerSpec
-----------------------------------------------------------------------------
(* The monitor of the inputs.                                              *)
(*                                                                         *)
(* What can be known of an input, in its copy and of its reader.           *)
Writers == {s.writer : s \in InputStates} \cup {NoWriter}
Knowable == [freq : Nat, stamp : Int, receiving : BOOLEAN, writer : Writers, missed : Nat]
Positive == Nat \ {0}

LEMMA ReadingsTyped ==
  \A s \in Knowable :
    s.freq \in Nat /\ s.stamp \in Int /\ s.receiving \in BOOLEAN /\ s.missed \in Nat
PROOF BY DEF Knowable

LEMMA StatesKnowable == Unheard \in Knowable /\ InputStates \subseteq Knowable
PROOF
  <1>1. Unheard \in Knowable
    <2>1. NoWriter \in Writers   BY DEF Writers
    <2> QED BY <2>1 DEF Unheard, Knowable
  <1>2. ASSUME NEW s \in InputStates PROVE s \in Knowable
    <2>1. s.writer \in Writers   BY DEF Writers
    <2>2. s \in [freq : Nat, stamp : Int, receiving : BOOLEAN, writer : {s.writer}, missed : Nat]
      BY TopicAssumption
    <2> HIDE DEF Writers
    <2> QED BY <2>1, <2>2 DEF Knowable
  <1> QED BY <1>1, <1>2

(* What is asked of a reader later is mixed with the copy.                 *)
LEMMA MixedKnowable ==
  ASSUME NEW s \in Knowable, NEW t \in Knowable, NEW b \in BOOLEAN
  PROVE  /\ [s EXCEPT !.writer = t.writer] \in Knowable
         /\ [s EXCEPT !.receiving = b] \in Knowable
         /\ [s EXCEPT !.receiving = b].receiving = b
         /\ [s EXCEPT !.receiving = b].stamp = s.stamp
PROOF BY DEF Knowable

(* The frequencies among what was heard grow with it.                      *)
LEMMA FrequenciesOfAppend ==
  ASSUME NEW said \in Seq(Knowable), NEW s \in Knowable
  PROVE  /\ Frequencies(said) \in Seq(Positive)
         /\ Frequencies(Append(said, s)) =
              IF s.freq > 0 THEN Append(Frequencies(said), s.freq) ELSE Frequencies(said)
PROOF
  <1> DEFINE t == Append(said, s)
             n == Len(said)
             v == [k \in {j \in DOMAIN said : said[j].freq > 0} |-> said[k].freq]
             u == [k \in {j \in DOMAIN t : t[j].freq > 0} |-> t[k].freq]
  <1>1. t \in Seq(Knowable) /\ Len(t) = n + 1 /\ n \in Nat /\ t[n + 1] = s
        /\ \A k \in 1 .. n : said[k] = t[k]
    BY AppendProperties
  <1>2. DOMAIN said = 1 .. n /\ DOMAIN t = 1 .. (n + 1)
    <2> HIDE DEF t
    <2> QED BY <1>1
  <1>3. InOrder(v, n) = Frequencies(said)   BY DEF Frequencies
  <1>4. InOrder(u, n + 1) = Frequencies(t)
    <2> HIDE DEF t, n
    <2> QED BY <1>1 DEF Frequencies
  <1> HIDE DEF t, n
  <1>5. /\ \A k : k \in DOMAIN u <=> k \in 1 .. (n + 1) /\ t[k].freq > 0
        /\ \A k \in DOMAIN u : u[k] = t[k].freq
        /\ \A k : k \in DOMAIN v <=> k \in 1 .. n /\ said[k].freq > 0
        /\ \A k \in DOMAIN v : v[k] = said[k].freq
    BY <1>2
  <1> HIDE DEF u, v
  <1>6. Valued(u, n + 1, Positive)
    <2> SUFFICES ASSUME NEW k \in 1 .. (n + 1), k \in DOMAIN u PROVE u[k] \in Positive
      BY DEF Valued
    <2>1. t[k] \in Knowable   BY <1>1
    <2>2. t[k].freq \in Nat /\ t[k].freq > 0   BY <1>5, <2>1, ReadingsTyped
    <2> QED BY <1>5, <2>2 DEF Positive
  <1>7. Agree(v, u, n)
    <2>1. \A k \in 1 .. n : k \in 1 .. (n + 1)   BY <1>1
    <2> QED BY <1>1, <1>5, <2>1 DEF Agree
  <1>8. /\ InOrder(v, n) \in Seq(Positive)
        /\ InOrder(u, n + 1) =
             IF n + 1 \in DOMAIN u THEN Append(InOrder(v, n), u[n + 1]) ELSE InOrder(v, n)
    BY <1>1, <1>6, <1>7, InOrderGrows
  <1>9. /\ n + 1 \in DOMAIN u <=> s.freq > 0
        /\ s.freq > 0 => u[n + 1] = s.freq
    BY <1>1, <1>5
  <1> QED BY <1>3, <1>4, <1>8, <1>9 DEF t

LEMMA FrequenciesOfNone == Frequencies(<<>>) = <<>>
PROOF
  <1> DEFINE v == [k \in {j \in DOMAIN <<>> : <<>>[j].freq > 0} |-> <<>>[k].freq]
  <1>1. DOMAIN v = {} /\ Len(<<>>) = 0   OBVIOUS
  <1>2. Frequencies(<<>>) = InOrder(v, 0)   BY <1>1 DEF Frequencies
  <1> HIDE DEF v
  <1> QED BY <1>1, <1>2, InOrderNone
LEMMA KnownOfAppend ==
  ASSUME NEW said \in Seq(Knowable), NEW s \in Knowable
  PROVE  LET t == Append(said, s)
         IN  /\ Known(t) # {} <=> (Known(said) # {} \/ HasSpec(s))
             /\ Known(said) # {} => SpecOf(t) = SpecOf(said)
             /\ Known(said) = {} /\ HasSpec(s) => SpecOf(t) = nodes_specs[s.writer]
             /\ Known(said) # {} => SpecOf(said) \in Nat
PROOF
  <1> DEFINE t == Append(said, s)
             n == Len(said)
  <1>1. t \in Seq(Knowable) /\ Len(t) = n + 1 /\ n \in Nat /\ t[n + 1] = s
        /\ \A k \in 1 .. n : said[k] = t[k]
    BY AppendProperties
  <1>2. DOMAIN said = 1 .. n /\ DOMAIN t = 1 .. (n + 1)
    <2>1. DOMAIN said = 1 .. n   OBVIOUS
    <2> HIDE DEF t
    <2>2. DOMAIN t = 1 .. (n + 1)   BY <1>1
    <2> QED BY <2>1, <2>2
  <1> HIDE DEF t, n
  <1>3. Known(said) = {k \in 1 .. n : HasSpec(said[k])}
        /\ Known(t) = {k \in 1 .. (n + 1) : HasSpec(t[k])}
    BY <1>2 DEF Known
  <1>4. \A k \in 1 .. (n + 1) : k \in 1 .. n \/ k = n + 1   BY <1>1
  <1>5. Known(said) \subseteq Known(t) /\ \A k \in Known(t) : k \in Known(said) \/ k = n + 1
    <2>1. \A k \in 1 .. n : k \in 1 .. (n + 1)   BY <1>1
    <2> QED BY <1>1, <1>3, <1>4, <2>1
  <1>6. n + 1 \in Known(t) <=> HasSpec(s)
    <2>1. n + 1 \in 1 .. (n + 1)   BY <1>1
    <2> QED BY <1>1, <1>3, <2>1
  <1>7. Known(t) # {} <=> (Known(said) # {} \/ HasSpec(s))   BY <1>5, <1>6
  <1>8. Known(t) \subseteq Int /\ Known(said) \subseteq Nat /\ Known(said) \subseteq Int
    BY <1>1, <1>3
  <1>9. ASSUME Known(said) # {}
        PROVE  SpecOf(t) = SpecOf(said) /\ SpecOf(said) \in Nat
    <2>1. PICK k \in Known(said) : \A j \in Known(said) : k <= j   BY <1>8, <1>9, LeastNat
    <2>2. k \in 1 .. n /\ HasSpec(said[k])   BY <1>3, <2>1
    <2>3. \A j \in Known(t) : k <= j
      <3>1. k <= n + 1   BY <1>1, <2>2
      <3> QED BY <1>5, <2>1, <3>1
    <2>4. Min(Known(said)) = k   BY <1>8, <2>1, MinIs
    <2>5. Min(Known(t)) = k
      <3>1. k \in Known(t)   BY <1>5, <2>1
      <3> QED BY <1>8, <2>3, <3>1, MinIs
    <2>6. said[k] = t[k]   BY <1>1, <2>2
    <2>7. nodes_specs[said[k].writer] \in Nat   BY <2>2, TopicAssumption DEF HasSpec
    <2> QED BY <2>4, <2>5, <2>6, <2>7 DEF SpecOf
  <1>10. ASSUME Known(said) = {}, HasSpec(s) PROVE SpecOf(t) = nodes_specs[s.writer]
    <2>1. n + 1 \in Known(t) /\ \A j \in Known(t) : j = n + 1   BY <1>5, <1>6, <1>10
    <2>2. \A j \in Known(t) : n + 1 <= j   BY <1>1, <2>1
    <2>3. Min(Known(t)) = n + 1   BY <1>8, <2>1, <2>2, MinIs
    <2> QED BY <1>1, <2>3 DEF SpecOf
  <1> QED BY <1>7, <1>9, <1>10 DEF t

(* The sums of natural numbers grow.                                       *)
LEMMA SumsGrow ==
  ASSUME NEW s \in Seq(Nat), NEW a \in 0 .. Len(s)
  PROVE  \A b \in a .. Len(s) : Sums(s)[a] <= Sums(s)[b]
PROOF
  <1> DEFINE f == Sums(s)
             n == Len(s)
             Off == {b \in a .. n : ~ (f[a] <= f[b])}
  <1>1. s \in Seq(Int)
    <2>1. Nat \subseteq Int   OBVIOUS
    <2> QED BY <2>1, SeqMonotonic
  <1>2. f \in [0 .. n -> Int] /\ \A k \in 1 .. n : f[k] = f[k - 1] + s[k]   BY <1>1, SumsExist
  <1>3. n \in Nat /\ \A k \in 1 .. n : s[k] \in Nat   OBVIOUS
  <1> HIDE DEF f, n
  <1> SUFFICES ASSUME Off # {} PROVE FALSE   BY DEF f, n
  <1>4. PICK b \in Off : \A c \in Off : b <= c
    <2>1. Off \subseteq Nat   BY <1>3 DEF n
    <2> HIDE DEF Off
    <2> QED BY <2>1, LeastNat
  <1>5. b \in a .. n /\ ~ (f[a] <= f[b]) /\ a \in 0 .. n   BY <1>4 DEF n
  <1>6. f[a] \in Int /\ b # a
    <2>1. f[a] \in Int   BY <1>2, <1>5
    <2> QED BY <1>5, <2>1
  <1>7. b - 1 \in a .. n /\ ~ (b <= b - 1) /\ b \in 1 .. n /\ b - 1 \in 0 .. n
    BY <1>3, <1>5, <1>6
  <1>8. f[a] <= f[b - 1]
    <2>1. b - 1 \notin Off
      <3> HIDE DEF Off
      <3> QED BY <1>4, <1>7
    <2> QED BY <1>7, <2>1
  <1>9. f[b] = f[b - 1] + s[b] /\ s[b] \in Nat /\ f[b - 1] \in Int   BY <1>2, <1>3, <1>7
  <1> QED BY <1>5, <1>6, <1>8, <1>9

(* A mean is off by the share of the desired one, said in two ways.        *)
LEMMA OffBy ==
  ASSUME NEW s \in Nat, s > 0, NEW n \in Nat, NEW d \in Nat, NEW c \in Nat, c > 0
  PROVE  ~ ((IF s > d * n THEN s - d * n ELSE d * n - s) * c < d * n) <=>
           (s * c >= (c + 1) * d * n \/ s * c <= (c - 1) * d * n)
PROOF
  <1> DEFINE m == d * n
             x == s * c
             y == m * c
  <1>1. m \in Nat /\ x \in Nat /\ y \in Nat
    <2>1. \A a, b \in Nat : a * b \in Nat   OBVIOUS
    <2>2. m \in Nat   BY <2>1
    <2> HIDE DEF m
    <2> QED BY <2>1, <2>2
  <1>2. (c + 1) * d * n = y + m /\ (c - 1) * d * n = y - m
    <2>1. (c + 1) * d * n = c * d * n + d * n   OBVIOUS
    <2>2. (c - 1) * d * n = c * d * n - d * n   OBVIOUS
    <2>3. c * d * n = d * n * c   OBVIOUS
    <2> QED BY <2>1, <2>2, <2>3
  <1>3. CASE s > m
    <2>1. (s - m) * c = x - y
      <3> HIDE DEF m
      <3> QED BY <1>1
    <2>2. (s - m) * c > 0
      <3> HIDE DEF m
      <3>1. s - m \in Nat /\ s - m > 0   BY <1>1, <1>3
      <3> QED BY <3>1
    <2>3. x > y
      <3> HIDE DEF m, x, y
      <3> QED BY <1>1, <2>1, <2>2
    <2>4. (IF s > m THEN s - m ELSE m - s) * c = x - y   BY <1>3, <2>1
    <2> HIDE DEF m, x, y
    <2>5. ~ (x - y < m) <=> (x >= y + m \/ x <= y - m)   BY <1>1, <2>3
    <2> QED BY <1>2, <2>4, <2>5 DEF m, x
  <1>4. CASE ~ (s > m)
    <2>1. (m - s) * c = y - x
      <3> HIDE DEF m
      <3> QED BY <1>1
    <2>2. (m - s) * c >= 0
      <3> HIDE DEF m
      <3>1. m - s \in Nat   BY <1>1, <1>4
      <3> QED BY <3>1
    <2>3. y >= x
      <3> HIDE DEF m, x, y
      <3> QED BY <1>1, <2>1, <2>2
    <2>4. m > 0
      <3> HIDE DEF m
      <3> QED BY <1>1, <1>4
    <2>5. (IF s > m THEN s - m ELSE m - s) * c = y - x   BY <1>4, <2>1
    <2> HIDE DEF m, x, y
    <2>6. ~ (y - x < m) <=> (x >= y + m \/ x <= y - m)   BY <1>1, <2>3, <2>4
    <2> QED BY <1>2, <2>5, <2>6 DEF m, x
  <1> QED BY <1>3, <1>4
(* The windows of the inputs have all one size.                            *)
Size == FREQ_MOVING_WINDOW_DEFAULT_SIZE

(* What is known of an input and its window follow what was heard of it.   *)
Follows(info, enabled, said) ==
  /\ said \in Seq(Knowable)
  /\ info.desired \in Nat
  /\ Holds(Size, info.freqs, Frequencies(said))
  /\ enabled <=> Known(said) # {}
  /\ enabled => info.desired = SpecOf(said)

LEMMA PositiveIsNat == ASSUME NEW f \in Seq(Positive) PROVE f \in Seq(Nat)
PROOF
  <1>1. Positive \subseteq Nat   BY DEF Positive
  <1> QED BY <1>1, SeqMonotonic

LEMMA FrequenciesTyped ==
  ASSUME NEW said \in Seq(Knowable)
  PROVE  Frequencies(said) \in Seq(Positive) /\ Frequencies(said) \in Seq(Nat)
PROOF
  <1>1. Unheard \in Knowable   BY StatesKnowable
  <1>2. Frequencies(said) \in Seq(Positive)   BY <1>1, FrequenciesOfAppend
  <1> QED BY <1>2, PositiveIsNat

LEMMA NewFollows == Follows(NewInfo, FALSE, <<>>)
PROOF
  <1>1. <<>> \in Seq(Knowable)   OBVIOUS
  <1>2. Size \in Nat   BY TopicAssumption DEF Size
  <1>3. Holds(Size, NumericalMovingWindow(Size), <<>>)   BY <1>2, EmptyHolds
  <1>4. NewInfo.desired = 0 /\ NewInfo.freqs = NumericalMovingWindow(Size)   BY DEF NewInfo, Size
  <1>5. Known(<<>>) = {}   BY DEF Known
  <1> QED BY <1>1, <1>3, <1>4, <1>5, FrequenciesOfNone DEF Follows

LEMMA FollowsOn ==
  ASSUME NEW info, NEW enabled \in BOOLEAN, NEW said, NEW s \in Knowable,
         Follows(info, enabled, said), NEW next,
         next.desired = (IF ~ enabled /\ HasSpec(s) THEN nodes_specs[s.writer] ELSE info.desired),
         next.freqs = getActualFrequency(info.freqs, s.freq)
  PROVE  Follows(next, enabled \/ HasSpec(s), Append(said, s))
PROOF
  <1> DEFINE t == Append(said, s)
             F == Frequencies(said)
  <1>1. said \in Seq(Knowable) /\ s.freq \in Nat /\ Size \in Nat
    BY ReadingsTyped, TopicAssumption DEF Follows, Size
  <1>2. F \in Seq(Nat)   BY <1>1, FrequenciesTyped
  <1>3. Frequencies(t) = IF s.freq > 0 THEN Append(F, s.freq) ELSE F
    BY <1>1, FrequenciesOfAppend
  <1>4. t \in Seq(Knowable)   BY <1>1, AppendProperties
  <1>5. /\ Known(t) # {} <=> (Known(said) # {} \/ HasSpec(s))
        /\ Known(said) # {} => SpecOf(t) = SpecOf(said)
        /\ Known(said) = {} /\ HasSpec(s) => SpecOf(t) = nodes_specs[s.writer]
    BY <1>1, KnownOfAppend
  <1> HIDE DEF t, F
  <1>6. Holds(Size, info.freqs, F)   BY DEF Follows, F
  <1>7. Holds(Size, next.freqs, Frequencies(t))
    <2>1. CASE s.freq > 0
      <3>1. next.freqs = push(info.freqs, s.freq)   BY <2>1 DEF getActualFrequency
      <3> QED BY <1>1, <1>2, <1>3, <1>6, <2>1, <3>1, PushHolds
    <2>2. CASE ~ (s.freq > 0)
      BY <1>3, <1>6, <2>2 DEF getActualFrequency
    <2> QED BY <2>1, <2>2
  <1>8. next.desired \in Nat
    <2>1. HasSpec(s) => nodes_specs[s.writer] \in Nat   BY TopicAssumption DEF HasSpec
    <2> QED BY <2>1 DEF Follows
  <1>9. (enabled \/ HasSpec(s)) <=> Known(t) # {}   BY <1>5 DEF Follows
  <1>10. (enabled \/ HasSpec(s)) => next.desired = SpecOf(t)
    <2>1. CASE enabled   BY <1>5, <2>1 DEF Follows
    <2>2. CASE ~ enabled /\ HasSpec(s)   BY <1>5, <2>2 DEF Follows
    <2> QED BY <2>1, <2>2
  <1>11. Follows(next, enabled \/ HasSpec(s), t)   BY <1>4, <1>7, <1>8, <1>9, <1>10 DEF Follows
  <1> QED BY <1>11 DEF t

(* So a frequency is reported when the mean of what was heard is off.      *)
LEMMA ReportIsOff ==
  ASSUME NEW info, NEW enabled \in BOOLEAN, NEW said, Follows(info, enabled, said)
  PROVE  (enabled /\ info.freqs.sum # 0 /\ ~ Nominal(info)) <=> OffFrequency(said)
PROOF
  <1> DEFINE w == info.freqs
             F == Frequencies(said)
             last == Latest(F, Size)
             n == Len(last)
             d == info.desired
             c == max_exceeding_divisor
  <1>1. /\ said \in Seq(Knowable) /\ Size \in Nat \ {0} /\ c \in Nat \ {0} /\ d \in Nat
        /\ Holds(Size, w, F)
    BY TopicAssumption DEF Follows, Size
  <1>2. F \in Seq(Positive) /\ F \in Seq(Nat)   BY <1>1, FrequenciesTyped
  <1>3. w.size = n /\ w.sum = Total(last)
    <2>1. IsWindowOf(w, F)   BY <1>1, <1>2, HoldsIsWindow
    <2>2. w.capacity = Size   BY <1>1 DEF Holds, Windows
    <2> QED BY <2>1, <2>2 DEF IsWindowOf
  <1> HIDE DEF F, w, c, last, n, d
  <1>4. n = Fewer(Len(F), Size) /\ Len(F) \in Nat /\ n \in Nat /\ Before(F, Size) \in Nat
        /\ Before(F, Size) + n = Len(F)
    <2>1. Size \in Nat   BY <1>1
    <2>2. n = Fewer(Len(F), Size)   BY <1>2, <2>1, LatestElements DEF last, n
    <2>3. /\ Len(F) \in Nat /\ Fewer(Len(F), Size) \in Nat /\ Before(F, Size) \in Nat
          /\ Before(F, Size) + Fewer(Len(F), Size) = Len(F)
      BY <1>2, <2>1, RecentIs
    <2> QED BY <2>2, <2>3
  <1>5. w.sum = Sums(F)[Len(F)] - Sums(F)[Before(F, Size)]
    <2>1. w.capacity = Size   BY <1>1 DEF Holds, Windows
    <2> QED BY <1>1, <2>1 DEF Holds, SumsFollow
  <1>6. F \in Seq(Int)
    <2>1. Positive \subseteq Int   BY DEF Positive
    <2> QED BY <1>2, <2>1, SeqMonotonic
  <1>7. /\ Sums(F) \in [0 .. Len(F) -> Int]
        /\ \A k \in 1 .. Len(F) : Sums(F)[k] = Sums(F)[k - 1] + F[k]
    BY <1>6, SumsExist
  <1>8. n = 0 => w.sum = 0
    <2>1. Len(F) \in 0 .. Len(F)   BY <1>4
    <2>2. Sums(F)[Len(F)] \in Int   BY <1>7, <2>1
    <2> QED BY <1>4, <1>5, <2>2
  <1>9. n > 0 => w.sum \in Nat /\ w.sum > 0
    <2> HAVE n > 0
    <2> DEFINE b == Before(F, Size)
               m == Len(F)
    <2>1. m \in 1 .. m /\ m - 1 \in b .. m /\ b \in 0 .. m /\ m - 1 \in 0 .. m   BY <1>4
    <2>2. F[m] \in Positive   BY <1>2, <2>1, ElementOfSeq
    <2>3. Sums(F)[b] <= Sums(F)[m - 1]   BY <1>2, <2>1, SumsGrow
    <2>4. Sums(F)[m] = Sums(F)[m - 1] + F[m]   BY <1>7, <2>1
    <2>5. Sums(F)[b] \in Int /\ Sums(F)[m - 1] \in Int   BY <1>7, <2>1
    <2>6. F[m] \in Nat /\ F[m] > 0   BY <2>2 DEF Positive
    <2> HIDE DEF b, m
    <2> QED BY <1>5, <2>3, <2>4, <2>5, <2>6 DEF b, m
  <1>10. n > 0 <=> w.sum # 0   BY <1>4, <1>8, <1>9
  <1>11. enabled <=> Known(said) # {}   BY DEF Follows
  <1>12. ASSUME enabled, n > 0
         PROVE  ~ Nominal(info) <=> \/ Total(last) * c >= (c + 1) * SpecOf(said) * n
                                    \/ Total(last) * c <= (c - 1) * SpecOf(said) * n
    <2>1. SpecOf(said) = d   BY <1>12 DEF Follows, d
    <2>2. w.sum \in Nat /\ w.sum > 0   BY <1>9, <1>12
    <2> DEFINE s == w.sum
    <2>3. s \in Nat /\ s > 0 /\ c \in Nat /\ c > 0   BY <1>1, <2>2
    <2>4. Nominal(info) <=> (IF s > d * n THEN s - d * n ELSE d * n - s) * c < d * n
      BY <1>3 DEF Nominal, w, d, c
    <2>5. s = Total(last)   BY <1>3
    <2> HIDE DEF s
    <2>6. ~ ((IF s > d * n THEN s - d * n ELSE d * n - s) * c < d * n) <=>
            (s * c >= (c + 1) * d * n \/ s * c <= (c - 1) * d * n)
      BY <1>1, <1>4, <2>3, OffBy
    <2> QED BY <2>1, <2>4, <2>5, <2>6
  <1>13. OffFrequency(said) <=> /\ Known(said) # {} /\ n > 0
                               /\ \/ Total(last) * c >= (c + 1) * SpecOf(said) * n
                                  \/ Total(last) * c <= (c - 1) * SpecOf(said) * n
    BY DEF OffFrequency, last, n, F, c, Size
  <1> QED BY <1>10, <1>11, <1>12, <1>13 DEF w

(* Those that receive are all compared with one of them.                   *)
LEMMA SynchronyIsRight ==
  ASSUME NEW inputs \in Seq(Knowable), NEW receiving \in SUBSET DOMAIN inputs,
         NEW r \in receiving
  PROVE  LET T(i) == inputs[i].stamp
             Far(i, j) == IF T(i) > T(j) THEN T(i) - T(j) ELSE T(j) - T(i)
         IN  IF \A i \in receiving : ~ Apart(inputs[r], inputs[i])
             THEN \A i, j \in receiving : Far(i, j) <= 2 * sync_threshold
             ELSE \E i, j \in receiving : Far(i, j) > sync_threshold
PROOF
  <1> DEFINE T(i) == inputs[i].stamp
             Far(i, j) == IF T(i) > T(j) THEN T(i) - T(j) ELSE T(j) - T(i)
             Sync == \A i \in receiving : ~ Apart(inputs[r], inputs[i])
  <1>1. \A i \in receiving : T(i) \in Int
    <2>1. \A i \in DOMAIN inputs : inputs[i] \in Knowable   OBVIOUS
    <2> QED BY <2>1, ReadingsTyped
  <1>2. sync_threshold \in Nat   BY TopicAssumption
  <1>3. Sync <=> \A i \in receiving : ~ (Far(r, i) > sync_threshold)   BY DEF Apart
  <1> HIDE DEF T, Sync
  <1>4. CASE Sync
    <2>1. \A i, j \in receiving : Far(i, j) <= 2 * sync_threshold
      <3> TAKE i, j \in receiving
      <3>1. T(i) \in Int /\ T(j) \in Int /\ T(r) \in Int   BY <1>1
      <3>2. ~ (Far(r, i) > sync_threshold) /\ ~ (Far(r, j) > sync_threshold)   BY <1>3, <1>4
      <3> QED BY <1>2, <3>1, <3>2
    <2> QED BY <1>4, <2>1 DEF T, Sync
  <1>5. CASE ~ Sync
    <2>1. \E i \in receiving : Far(r, i) > sync_threshold   BY <1>3, <1>5
    <2> QED BY <1>5, <2>1 DEF T, Sync
  <1> QED BY <1>4, <1>5
-----------------------------------------------------------------------------
Infos == [desired : Nat, missed : Nat, freqs : Windows(Size)]

(* What is known of the inputs is of as many as were copied.               *)
TopicTyped ==
  /\ input_info \in Seq(Knowable)
  /\ round \in {"over", "copied", "informed", "compare"}
  /\ copied \in Seq(Knowable) /\ Len(copied) <= Len(input_info)
  /\ round # "over" => Len(input_topic_infos) <= Len(copied)
  /\ round = "compare" => reference \in DOMAIN copied
  /\ inputs_map_size \in Nat /\ inputs_map_size <= Len(input_info)
  /\ input_topic_infos \in Seq(Infos) /\ Len(input_topic_infos) <= Len(input_info)
  /\ DOMAIN enable_checks = 1 .. Len(input_topic_infos)
  /\ \A i \in 1 .. Len(input_topic_infos) : enable_checks[i] \in BOOLEAN
  /\ DOMAIN heard = 1 .. Len(input_topic_infos)

(* Each input's window and specification come from what was heard of it.   *)
InputsFollow ==
  \A i \in 1 .. Len(input_topic_infos) :
    Follows(input_topic_infos[i], enable_checks[i], heard[i])

(* The condition under which the monitor reports an input.                 *)
Calls(info, enabled) == enabled /\ info.freqs.sum # 0 /\ ~ Nominal(info)

(* What was reported of the frequencies is what the round called for; of   *)
(* the stamps, nothing until they are compared.                            *)
EventsFollow ==
  /\ checks > 0 \/ round \in {"informed", "compare"} =>
       \A i \in DOMAIN heard :
         <<"WRONG_INPUT_FREQUENCY", i>> \in notified <=> Calls(input_topic_infos[i], enable_checks[i])
  /\ round \in {"informed", "compare"} => <<"INPUTS_NOT_SYNCHRONIZED", 0>> \notin notified
  /\ checks > 0 /\ round \in {"over", "copied"} => SynchronyReported

TopicInv == TopicTyped /\ Monitored /\ InputsFollow /\ EventsFollow

LEMMA TopicInitially == TopicInit => TopicInv
PROOF
  <1> SUFFICES ASSUME TopicInit PROVE TopicInv   OBVIOUS
  <1>1. <<>> \in Seq(Knowable) /\ <<>> \in Seq(Infos) /\ Len(<<>>) = 0 /\ DOMAIN <<>> = 1 .. 0
    OBVIOUS
  <1>2. TopicTyped   BY <1>1 DEF TopicInit, TopicTyped
  <1>3. Monitored /\ InputsFollow /\ EventsFollow
    BY <1>1 DEF TopicInit, Monitored, InputsFollow, EventsFollow
  <1> QED BY <1>2, <1>3 DEF TopicInv

(* The steps that are not of a round's work change only the inputs and the *)
(* copy.                                                                   *)
LEMMA BetweenRounds ==
  ASSUME TopicInv, input_info' \in Seq(Knowable), Len(input_info') >= Len(input_info),
         \/ copied' = copied /\ round' = round
         \/ copied' = input_info /\ round = "over" /\ round' = "copied",
         UNCHANGED <<reference, notified, checks, watched, monitorKeeps>>
  PROVE  TopicInv'
PROOF
  <1>1. /\ Len(input_info) \in Nat /\ Len(input_info') \in Nat
        /\ Len(input_topic_infos) \in Nat /\ Len(copied) \in Nat
    BY DEF TopicInv, TopicTyped
  <1>2. /\ copied' \in Seq(Knowable) /\ Len(copied') <= Len(input_info')
        /\ round' \in {"over", "copied", "informed", "compare"}
        /\ round' # "over" => Len(input_topic_infos) <= Len(copied')
        /\ round' = "compare" => reference \in DOMAIN copied'
    <2>1. CASE copied' = input_info /\ round' = "copied"
      BY <1>1, <2>1 DEF TopicInv, TopicTyped
    <2>2. CASE copied' = copied /\ round' = round
      BY <1>1, <2>2 DEF TopicInv, TopicTyped
    <2> QED BY <2>1, <2>2
  <1>3. TopicTyped'   BY <1>1, <1>2 DEF TopicInv, TopicTyped, monitorKeeps
  <1>4. Monitored'   BY DEF TopicInv, Monitored, monitorKeeps
  <1>5. InputsFollow'   BY DEF TopicInv, InputsFollow, monitorKeeps
  <1>6. SynchronyReported' <=> SynchronyReported   BY DEF SynchronyReported, Distance
  <1>7. EventsFollow'
    <2>1. round' \in {"informed", "compare"} <=> round \in {"informed", "compare"}   OBVIOUS
    <2>2. round' \in {"over", "copied"} <=> round \in {"over", "copied"}   OBVIOUS
    <2> QED BY <1>6, <2>1, <2>2 DEF TopicInv, EventsFollow, monitorKeeps
  <1> QED BY <1>3, <1>4, <1>5, <1>7 DEF TopicInv
(* What a round works on follows what was heard, begun anew or not.        *)
LEMMA RoundBegins ==
  ASSUME TopicInv, round = "copied", NEW anew \in BOOLEAN,
         NEW infos, infos = IF anew THEN [i \in DOMAIN copied |-> NewInfo] ELSE input_topic_infos,
         NEW enabled, enabled = IF anew THEN [i \in DOMAIN copied |-> FALSE] ELSE enable_checks,
         NEW past, past = IF anew THEN [i \in DOMAIN copied |-> <<>>] ELSE heard
  PROVE  \E n \in Nat :
           /\ n = (IF anew THEN Len(copied) ELSE Len(input_topic_infos)) /\ n <= Len(copied)
           /\ DOMAIN infos = 1 .. n /\ DOMAIN enabled = 1 .. n /\ DOMAIN past = 1 .. n
           /\ \A i \in 1 .. n : enabled[i] \in BOOLEAN /\ Follows(infos[i], enabled[i], past[i])
PROOF
  <1>1. /\ copied \in Seq(Knowable) /\ Len(input_topic_infos) <= Len(copied)
        /\ input_topic_infos \in Seq(Infos)
        /\ DOMAIN enable_checks = 1 .. Len(input_topic_infos)
        /\ \A i \in 1 .. Len(input_topic_infos) : enable_checks[i] \in BOOLEAN
        /\ DOMAIN heard = 1 .. Len(input_topic_infos)
    BY DEF TopicInv, TopicTyped
  <1>2. /\ Len(copied) \in Nat /\ DOMAIN copied = 1 .. Len(copied)
        /\ Len(input_topic_infos) \in Nat
        /\ DOMAIN input_topic_infos = 1 .. Len(input_topic_infos)
    BY <1>1
  <1>3. CASE anew
    <2> DEFINE n == Len(copied)
    <2>1. /\ infos = [i \in 1 .. n |-> NewInfo] /\ enabled = [i \in 1 .. n |-> FALSE]
          /\ past = [i \in 1 .. n |-> <<>>]
      BY <1>2, <1>3
    <2>2. \A i \in 1 .. n : infos[i] = NewInfo /\ enabled[i] = FALSE /\ past[i] = <<>>
      BY <2>1
    <2>3. \A i \in 1 .. n : enabled[i] \in BOOLEAN /\ Follows(infos[i], enabled[i], past[i])
      BY <2>2, NewFollows
    <2>4. n = (IF anew THEN Len(copied) ELSE Len(input_topic_infos)) /\ n <= Len(copied)
      BY <1>2, <1>3
    <2> QED BY <1>2, <2>1, <2>3, <2>4
  <1>4. CASE ~ anew
    <2> DEFINE n == Len(input_topic_infos)
    <2>1. infos = input_topic_infos /\ enabled = enable_checks /\ past = heard   BY <1>4
    <2>2. \A i \in 1 .. n : enabled[i] \in BOOLEAN /\ Follows(infos[i], enabled[i], past[i])
      BY <1>1, <2>1 DEF TopicInv, InputsFollow
    <2>3. n = (IF anew THEN Len(copied) ELSE Len(input_topic_infos)) /\ n <= Len(copied)
      BY <1>1, <1>4
    <2> QED BY <1>1, <1>2, <2>1, <2>2, <2>3
  <1> QED BY <1>3, <1>4

(* The monitor updates what it knows and checks the frequencies.           *)
LEMMA RoundKeeps == ASSUME TopicInv, childMonitor PROVE TopicInv'
PROOF
  <1> DEFINE anew == inputs_map_size # Len(input_info)
             infos == IF anew THEN [i \in DOMAIN copied |-> NewInfo] ELSE input_topic_infos
             enabled == IF anew THEN [i \in DOMAIN copied |-> FALSE] ELSE enable_checks
             past == IF anew THEN [i \in DOMAIN copied |-> <<>>] ELSE heard
  <1>1. /\ round = "copied" /\ round' = "informed" /\ inputs_map_size' = Len(input_info)
        /\ getInputTopicInfo(infos, enabled)
        /\ notified' = {<<"WRONG_SEQUENCE_ID", i>> : i \in {j \in DOMAIN copied : copied[j].missed # 0}}
                         \cup {<<"WRONG_INPUT_FREQUENCY", i>> :
                                i \in {j \in DOMAIN infos : ~ checkDesiredFrequency[j]}}
        /\ heard' = [i \in DOMAIN past |-> Append(past[i], Asked(i))]
        /\ grown' = (IF anew THEN Len(copied) < Len(input_info) ELSE grown)
        /\ copied' = copied /\ input_info' = input_info
    BY DEF childMonitor
  <1>2. /\ copied \in Seq(Knowable) /\ Len(copied) <= Len(input_info)
        /\ input_info \in Seq(Knowable) /\ Len(input_info) \in Nat /\ Len(copied) \in Nat
        /\ input_topic_infos \in Seq(Infos)
    BY <1>1 DEF TopicInv, TopicTyped
  <1>3. anew \in BOOLEAN   OBVIOUS
  <1>4. grown <=> Len(input_topic_infos) < inputs_map_size   BY DEF TopicInv, Monitored
  <1>5. PICK n \in Nat :
          /\ n = (IF anew THEN Len(copied) ELSE Len(input_topic_infos)) /\ n <= Len(copied)
          /\ DOMAIN infos = 1 .. n /\ DOMAIN enabled = 1 .. n /\ DOMAIN past = 1 .. n
          /\ \A i \in 1 .. n : enabled[i] \in BOOLEAN /\ Follows(infos[i], enabled[i], past[i])
    <2> DEFINE A == anew
               I == infos
               E == enabled
               P == past
    <2>1. A \in BOOLEAN   BY <1>3
    <2>2. /\ I = IF A THEN [i \in DOMAIN copied |-> NewInfo] ELSE input_topic_infos
          /\ E = IF A THEN [i \in DOMAIN copied |-> FALSE] ELSE enable_checks
          /\ P = IF A THEN [i \in DOMAIN copied |-> <<>>] ELSE heard
      OBVIOUS
    <2> HIDE DEF A, I, E, P
    <2>3. \E m \in Nat :
            /\ m = (IF A THEN Len(copied) ELSE Len(input_topic_infos)) /\ m <= Len(copied)
            /\ DOMAIN I = 1 .. m /\ DOMAIN E = 1 .. m /\ DOMAIN P = 1 .. m
            /\ \A i \in 1 .. m : E[i] \in BOOLEAN /\ Follows(I[i], E[i], P[i])
      BY <1>1, <2>1, <2>2, RoundBegins
    <2> QED BY <2>3 DEF A, I, E, P
  <1>6. grown' <=> n < Len(input_info)
    <2>1. CASE anew   BY <1>1, <1>5, <2>1
    <2>2. CASE ~ anew   BY <1>1, <1>4, <1>5, <2>2
    <2> QED BY <2>1, <2>2
  <1> HIDE DEF anew, infos, enabled, past
  <1>7. \A i \in 1 .. n : Asked(i) \in Knowable
    <2> TAKE i \in 1 .. n
    <2>1. i \in 1 .. Len(copied) /\ i \in 1 .. Len(input_info)   BY <1>2, <1>5
    <2>2. copied[i] \in Knowable /\ input_info[i] \in Knowable   BY <1>2, <2>1, ElementOfSeq
    <2> QED BY <2>2, MixedKnowable DEF Asked
  <1>8. /\ DOMAIN input_topic_infos' = 1 .. n /\ DOMAIN enable_checks' = 1 .. n
        /\ DOMAIN heard' = 1 .. n
    BY <1>1, <1>5 DEF getInputTopicInfo
  <1>9. \A i \in 1 .. n :
          /\ input_topic_infos'[i] =
               [desired |-> IF ~ enabled[i] /\ HasSpec(Asked(i))
                            THEN nodes_specs[Asked(i).writer] ELSE infos[i].desired,
                missed |-> Asked(i).missed,
                freqs |-> getActualFrequency(infos[i].freqs, Asked(i).freq)]
          /\ enable_checks'[i] = (enabled[i] \/ HasSpec(Asked(i)))
          /\ heard'[i] = Append(past[i], Asked(i))
    BY <1>1, <1>5 DEF getInputTopicInfo
  <1>10. \A i \in 1 .. n :
           /\ enable_checks'[i] \in BOOLEAN
           /\ Follows(input_topic_infos'[i], enable_checks'[i], heard'[i])
    <2> TAKE i \in 1 .. n
    <2> DEFINE next == [desired |-> IF ~ enabled[i] /\ HasSpec(Asked(i))
                                    THEN nodes_specs[Asked(i).writer] ELSE infos[i].desired,
                        missed |-> Asked(i).missed,
                        freqs |-> getActualFrequency(infos[i].freqs, Asked(i).freq)]
    <2>1. /\ next.desired = (IF ~ enabled[i] /\ HasSpec(Asked(i))
                             THEN nodes_specs[Asked(i).writer] ELSE infos[i].desired)
          /\ next.freqs = getActualFrequency(infos[i].freqs, Asked(i).freq)
      OBVIOUS
    <2>2. input_topic_infos'[i] = next   BY <1>9
    <2> HIDE DEF next
    <2>3. Follows(next, enabled[i] \/ HasSpec(Asked(i)), Append(past[i], Asked(i)))
      BY <1>5, <1>7, <2>1, FollowsOn
    <2>4. (enabled[i] \/ HasSpec(Asked(i))) \in BOOLEAN   OBVIOUS
    <2> QED BY <1>9, <2>2, <2>3, <2>4
  <1>11. input_topic_infos' \in Seq(Infos) /\ Len(input_topic_infos') = n
    <2>1. \A i \in 1 .. n : input_topic_infos'[i] \in Infos
      <3> TAKE i \in 1 .. n
      <3>1. input_topic_infos'[i].desired \in Nat /\ input_topic_infos'[i].freqs \in Windows(Size)
        BY <1>10 DEF Follows, Holds
      <3>2. Asked(i).missed \in Nat   BY <1>7, ReadingsTyped
      <3> DEFINE d == IF ~ enabled[i] /\ HasSpec(Asked(i))
                      THEN nodes_specs[Asked(i).writer] ELSE infos[i].desired
                 m == Asked(i).missed
                 f == getActualFrequency(infos[i].freqs, Asked(i).freq)
      <3>3. input_topic_infos'[i] = [desired |-> d, missed |-> m, freqs |-> f]   BY <1>9
      <3> HIDE DEF d, m, f
      <3>4. d \in Nat /\ f \in Windows(Size)   BY <3>1, <3>3
      <3>5. m \in Nat   BY <3>2 DEF m
      <3> QED BY <3>3, <3>4, <3>5 DEF Infos
    <2> DEFINE f == input_topic_infos'
    <2>2. f = [i \in 1 .. n |-> f[i]]   BY <1>1, <1>5 DEF getInputTopicInfo
    <2>3. \A i \in 1 .. n : f[i] \in Infos   BY <2>1
    <2> HIDE DEF f
    <2>4. f \in Seq(Infos) /\ Len(f) = n   BY <1>5, <2>2, <2>3
    <2> QED BY <2>4 DEF f
  <1>12. TopicTyped'
    <2>1. n <= Len(input_info) /\ n <= Len(copied)   BY <1>2, <1>5
    <2> QED BY <1>1, <1>2, <1>8, <1>10, <1>11, <2>1 DEF TopicTyped
  <1>13. Monitored'   BY <1>1, <1>6, <1>11 DEF Monitored
  <1>14. InputsFollow'   BY <1>10, <1>11 DEF InputsFollow
  <1>15. EventsFollow'
    <2>1. \A i \in DOMAIN heard' :
            <<"WRONG_INPUT_FREQUENCY", i>> \in notified' <=>
              Calls(input_topic_infos'[i], enable_checks'[i])
      <3> TAKE i \in DOMAIN heard'
      <3>1. i \in 1 .. n   BY <1>8
      <3>2. <<"WRONG_INPUT_FREQUENCY", i>> \in notified' <=> ~ checkDesiredFrequency[i]
        BY <1>1, <1>5, <3>1
      <3>3. checkDesiredFrequency[i] <=>
              \/ ~ enable_checks'[i]
              \/ input_topic_infos'[i].freqs.sum = 0
              \/ Nominal(input_topic_infos'[i])
        BY <1>8, <3>1 DEF checkDesiredFrequency
      <3> QED BY <3>2, <3>3 DEF Calls
    <2>2. <<"INPUTS_NOT_SYNCHRONIZED", 0>> \notin notified'   BY <1>1
    <2> QED BY <1>1, <2>1, <2>2 DEF EventsFollow
  <1> QED BY <1>12, <1>13, <1>14, <1>15 DEF TopicInv

(* A reference is chosen among the inputs.                                 *)
LEMMA ReferenceKeeps == ASSUME TopicInv, ChooseReference PROVE TopicInv'
PROOF
  <1>1. /\ round = "informed" /\ round' = "compare" /\ ReceivingNow # {}
        /\ reference' = Min(ReceivingNow)
        /\ UNCHANGED <<input_info, copied, notified, checks, watched>>
        /\ UNCHANGED <<inputs_map_size, input_topic_infos, enable_checks, heard, grown>>
    BY DEF ChooseReference, monitorKeeps
  <1>2. reference' \in DOMAIN copied
    <2>1. ReceivingNow \subseteq DOMAIN copied /\ DOMAIN copied \subseteq Nat
      BY DEF ReceivingNow, TopicInv, TopicTyped
    <2>2. ReceivingNow \subseteq Nat /\ ReceivingNow \subseteq Int   BY <2>1
    <2>3. PICK k \in ReceivingNow : \A j \in ReceivingNow : k <= j   BY <1>1, <2>2, LeastNat
    <2>4. Min(ReceivingNow) = k   BY <2>2, <2>3, MinIs
    <2> QED BY <1>1, <2>1, <2>3, <2>4
  <1>3. TopicTyped'   BY <1>1, <1>2 DEF TopicInv, TopicTyped
  <1>4. Monitored'   BY <1>1 DEF TopicInv, Monitored
  <1>5. InputsFollow'   BY <1>1 DEF TopicInv, InputsFollow
  <1>6. EventsFollow'   BY <1>1 DEF TopicInv, EventsFollow
  <1> QED BY <1>3, <1>4, <1>5, <1>6 DEF TopicInv

(* A round ends with what the comparison found.                            *)
LEMMA RoundEnds ==
  ASSUME TopicInv, round \in {"informed", "compare"},
         NEW receiving \in SUBSET DOMAIN copied, RoundIsOver(receiving),
         \/ receiving = {} /\ notified' = notified
         \/ /\ reference \in receiving
            /\ notified' = IF areTopicsSync(receiving) THEN notified
                           ELSE notified \cup {<<"INPUTS_NOT_SYNCHRONIZED", 0>>}
  PROVE  TopicInv'
PROOF
  <1>1. /\ round' = "over" /\ copied' = <<>> /\ watched' = WithReceiving(receiving)
        /\ UNCHANGED input_info
        /\ UNCHANGED <<inputs_map_size, input_topic_infos, enable_checks, heard, grown>>
    BY DEF RoundIsOver, monitorKeeps
  <1>2. /\ copied \in Seq(Knowable) /\ Len(input_info) \in Nat
        /\ <<"INPUTS_NOT_SYNCHRONIZED", 0>> \notin notified
    BY DEF TopicInv, TopicTyped, EventsFollow
  <1>3. TopicTyped'
    <2>1. <<>> \in Seq(Knowable) /\ Len(<<>>) = 0   OBVIOUS
    <2> QED BY <1>1, <1>2, <2>1 DEF TopicInv, TopicTyped
  <1>4. Monitored'   BY <1>1 DEF TopicInv, Monitored
  <1>5. InputsFollow'   BY <1>1 DEF TopicInv, InputsFollow
  <1>6. /\ {i \in DOMAIN watched' : watched'[i].receiving} = receiving
        /\ \A i \in receiving : watched'[i].stamp = copied[i].stamp
    <2>1. \A i \in DOMAIN copied : copied[i] \in Knowable   BY <1>2
    <2>2. \A i \in DOMAIN copied : (i \in receiving) \in BOOLEAN   OBVIOUS
    <2>3. \A i \in DOMAIN copied : /\ watched'[i].receiving = (i \in receiving)
                                  /\ watched'[i].stamp = copied[i].stamp
      <3> TAKE i \in DOMAIN copied
      <3> DEFINE b == i \in receiving
      <3>1. watched'[i] = [copied[i] EXCEPT !.receiving = b]   BY <1>1 DEF WithReceiving
      <3>2. copied[i] \in Knowable /\ b \in BOOLEAN   BY <2>1, <2>2
      <3> HIDE DEF b
      <3>3. watched'[i].receiving = b /\ watched'[i].stamp = copied[i].stamp
        BY <3>1, <3>2, MixedKnowable
      <3> QED BY <3>3 DEF b
    <2>4. DOMAIN watched' = DOMAIN copied   BY <1>1 DEF WithReceiving
    <2> QED BY <2>3, <2>4
  <1>7. SynchronyReported'
    <2> DEFINE Far(i, j) == IF copied[i].stamp > copied[j].stamp
                            THEN copied[i].stamp - copied[j].stamp
                            ELSE copied[j].stamp - copied[i].stamp
               D(i, j) == IF watched'[i].stamp > watched'[j].stamp
                          THEN watched'[i].stamp - watched'[j].stamp
                          ELSE watched'[j].stamp - watched'[i].stamp
               Told == <<"INPUTS_NOT_SYNCHRONIZED", 0>> \in notified'
    <2>1. SynchronyReported' <=>
            IF Told THEN \E i, j \in receiving : D(i, j) > sync_threshold
            ELSE \A i, j \in receiving : D(i, j) <= 2 * sync_threshold
      BY <1>6 DEF SynchronyReported, Distance
    <2>2. \A i, j \in receiving : D(i, j) = Far(i, j)   BY <1>6
    <2> HIDE DEF D
    <2>3. CASE receiving = {} /\ notified' = notified
      <3>1. ~ Told   BY <1>2, <2>3
      <3> QED BY <2>1, <2>3, <3>1
    <2>4. CASE /\ reference \in receiving
               /\ notified' = IF areTopicsSync(receiving) THEN notified
                              ELSE notified \cup {<<"INPUTS_NOT_SYNCHRONIZED", 0>>}
      <3>1. Told <=> ~ areTopicsSync(receiving)   BY <1>2, <2>4
      <3>2. IF areTopicsSync(receiving)
            THEN \A i, j \in receiving : Far(i, j) <= 2 * sync_threshold
            ELSE \E i, j \in receiving : Far(i, j) > sync_threshold
        BY <1>2, <2>4, SynchronyIsRight DEF areTopicsSync
      <3> HIDE DEF Far, Told
      <3> QED BY <2>1, <2>2, <3>1, <3>2
    <2> QED BY <2>3, <2>4
  <1>8. EventsFollow'
    <2>1. \A i \in DOMAIN heard' :
            <<"WRONG_INPUT_FREQUENCY", i>> \in notified' <=>
              Calls(input_topic_infos'[i], enable_checks'[i])
      <3> TAKE i \in DOMAIN heard'
      <3>1. <<"WRONG_INPUT_FREQUENCY", i>> # <<"INPUTS_NOT_SYNCHRONIZED", 0>>   OBVIOUS
      <3>2. <<"WRONG_INPUT_FREQUENCY", i>> \in notified' <=> <<"WRONG_INPUT_FREQUENCY", i>> \in notified
        BY <3>1
      <3> QED BY <1>1, <3>2 DEF TopicInv, EventsFollow
    <2> QED BY <1>1, <1>7, <2>1 DEF EventsFollow
  <1> QED BY <1>3, <1>4, <1>5, <1>8 DEF TopicInv

(* Every step of the monitor and of the readers.                           *)
LEMMA TopicInductive ==
  ASSUME TopicInv, [TopicNext]_topicVars
  PROVE  TopicInv'
PROOF
  <1>0. input_info \in Seq(Knowable) /\ Len(input_info) \in Nat   BY DEF TopicInv, TopicTyped
  <1>1. CASE BuildInput
    <2>1. input_info' \in Seq(Knowable) /\ Len(input_info') >= Len(input_info)
      BY <1>0, <1>1, StatesKnowable, AppendProperties DEF BuildInput
    <2> QED BY <1>1, <2>1, BetweenRounds DEF BuildInput, monitorState
  <1>2. ASSUME NEW i \in DOMAIN input_info, NEW s \in InputStates, Hear(i, s)
        PROVE  TopicInv'
    <2>1. i \in 1 .. Len(input_info) /\ s \in Knowable   BY <1>0, StatesKnowable
    <2>2. input_info' \in Seq(Knowable) /\ Len(input_info') >= Len(input_info)
      BY <1>0, <1>2, <2>1, ExceptSeq DEF Hear
    <2> QED BY <1>2, <2>2, BetweenRounds DEF Hear, monitorState
  <1>3. CASE CopyInputs
    <2>1. input_info' \in Seq(Knowable) /\ Len(input_info') >= Len(input_info)
      BY <1>0, <1>3 DEF CopyInputs
    <2> QED BY <1>3, <2>1, BetweenRounds DEF CopyInputs
  <1>4. CASE childMonitor   BY <1>4, RoundKeeps
  <1>5. CASE ChooseReference   BY <1>5, ReferenceKeeps
  <1>6. CASE NoneReceives
    <2>1. {} \in SUBSET DOMAIN copied   OBVIOUS
    <2> QED BY <1>6, <2>1, RoundEnds DEF NoneReceives
  <1>7. CASE CompareInputs
    <2> DEFINE receiving == ReceivingNow \cup {reference}
    <2>1. receiving \in SUBSET DOMAIN copied
      BY <1>7 DEF CompareInputs, ReceivingNow, TopicInv, TopicTyped
    <2>2. reference \in receiving   OBVIOUS
    <2>3. /\ round = "compare" /\ RoundIsOver(receiving)
          /\ notified' = IF areTopicsSync(receiving) THEN notified
                         ELSE notified \cup {<<"INPUTS_NOT_SYNCHRONIZED", 0>>}
      BY <1>7 DEF CompareInputs
    <2> HIDE DEF receiving
    <2> QED BY <2>1, <2>2, <2>3, RoundEnds
  <1>8. CASE UNCHANGED topicVars
    <2>1. input_info' \in Seq(Knowable) /\ Len(input_info') >= Len(input_info)
      BY <1>0, <1>8 DEF topicVars
    <2> QED BY <1>8, <2>1, BetweenRounds DEF topicVars, monitorKeeps
  <1> QED BY <1>1, <1>2, <1>3, <1>4, <1>5, <1>6, <1>7, <1>8 DEF TopicNext

(* What the reports say of what was heard.                                 *)
LEMMA TopicFollows == TopicInv => InputsAreWatched
PROOF
  <1> SUFFICES ASSUME TopicInv, checks > 0, round = "over"
               PROVE  Monitored /\ FrequenciesReported /\ SynchronyReported
    BY DEF InputsAreWatched
  <1>1. Monitored   BY DEF TopicInv
  <1>2. FrequenciesReported
    <2> SUFFICES ASSUME NEW i \in DOMAIN heard
                 PROVE  <<"WRONG_INPUT_FREQUENCY", i>> \in notified <=> OffFrequency(heard[i])
      BY DEF FrequenciesReported
    <2>1. i \in 1 .. Len(input_topic_infos) /\ enable_checks[i] \in BOOLEAN
      BY DEF TopicInv, TopicTyped
    <2>2. Follows(input_topic_infos[i], enable_checks[i], heard[i])
      BY <2>1 DEF TopicInv, InputsFollow
    <2>3. Calls(input_topic_infos[i], enable_checks[i]) <=> OffFrequency(heard[i])
      BY <2>1, <2>2, ReportIsOff DEF Calls
    <2> QED BY <2>3 DEF TopicInv, EventsFollow
  <1>3. SynchronyReported   BY DEF TopicInv, EventsFollow
  <1> QED BY <1>1, <1>2, <1>3

(* For every number of inputs and whatever their readers come to know, also *)
(* while a round works on its copy, after each round: the inputs in the map *)
(* are monitored (but those built since the monitor began anew), a wrong   *)
(* frequency is reported for exactly those off it, of those reported as not *)
(* synchronized two that received when they were compared are apart by     *)
(* their copied stamps, and without a report all that received are within  *)
(* twice the threshold (periodic_app_plugin.cpp:31-110, topic_monitor.cpp). *)
THEOREM InputsWatched == TopicSpec => []InputsAreWatched
PROOF
  <1>1. TopicInit => TopicInv   BY TopicInitially
  <1>2. TopicInv /\ [TopicNext]_topicVars => TopicInv'   BY TopicInductive
  <1> QED BY <1>1, <1>2, TopicFollows, PTL DEF TopicSpec
-----------------------------------------------------------------------------
(* The signals of a round.                                                 *)
(*                                                                         *)
(* What a round can have read, and the threads.                            *)
Entries == [c : 1 .. NumControllers, m : Message]

Gathers ==
  [at : {"poll", "reading", "publishing", "ended"}, snapshot : Seq(1 .. NumControllers),
   set : BOOLEAN, impedance : BOOLEAN, read : Seq(Entries), alone : BOOLEAN]

Aggregates == [mode : Mode, position : Int, velocity : Int, torques : Int, gains : Int]

GatherTyped ==
  /\ control_signal_msg \in Aggregates
  /\ gather \in Seq(Gathers)

(* Of two threads in a round none is alone.                                *)
OneAlone ==
  \A t, u \in DOMAIN gather : t # u /\ InRound(t) /\ InRound(u) => ~ gather[t].alone

(* What a message holds after these were read, and no leader among them.   *)
FirstImpedance(read) == read[Min(Impedances(read))].m.signal

SoFar(read, msg) ==
  /\ Leaders(read) = {}
  /\ msg.torques = TorquesOf(read)
  /\ msg.mode = IF Impedances(read) = {} THEN "TORQUE_MODE" ELSE "IMPEDANCE_MODE"
  /\ Impedances(read) # {} =>
       /\ msg.position = FirstImpedance(read)
       /\ msg.velocity = FirstImpedance(read)
       /\ msg.gains = FirstImpedance(read)

(* A thread alone in its round has read that much.                         *)
RoundSoFar ==
  \A t \in DOMAIN gather : gather[t].at = "reading" /\ gather[t].alone =>
    /\ SoFar(gather[t].read, control_signal_msg)
    /\ gather[t].set <=> gather[t].read # <<>>
    /\ gather[t].impedance <=> Impedances(gather[t].read) # {}

GatherInv == GatherTyped /\ OneAlone /\ RoundSoFar /\ SignalIsOfOneRound

-----------------------------------------------------------------------------
LEMMA MinExists ==
  ASSUME NEW S, S \subseteq Nat, S # {}
  PROVE  Min(S) \in S /\ \A k \in S : Min(S) <= k
PROOF
  <1>1. PICK m \in S : \A k \in S : m <= k   BY LeastNat
  <1>2. Min(S) = m
    <2>1. S \subseteq Int   OBVIOUS
    <2> QED BY <1>1, <2>1, MinIs
  <1> QED BY <1>1, <1>2

(* What is read behind the others changes nothing of what they count for.  *)
LEMMA ReadsOn ==
  ASSUME NEW read \in Seq(Entries), NEW e \in Entries, NEW long, long = Append(read, e)
  PROVE  /\ long \in Seq(Entries) /\ Len(long) = Len(read) + 1 /\ long # <<>>
         /\ DOMAIN long = DOMAIN read \cup {Len(read) + 1}
         /\ long[Len(read) + 1] = e /\ Len(read) + 1 \notin DOMAIN read
         /\ \A k \in DOMAIN read : long[k] = read[k] /\ k < Len(read) + 1
         /\ DOMAIN read \subseteq Nat /\ Len(read) \in Nat
PROOF
  <1>1. /\ long \in Seq(Entries) /\ Len(long) = Len(read) + 1 /\ long[Len(read) + 1] = e
        /\ \A k \in 1 .. Len(read) : long[k] = read[k]
    BY AppendProperties
  <1>2. DOMAIN read = 1 .. Len(read) /\ Len(read) \in Nat /\ DOMAIN long = 1 .. Len(long)
    BY <1>1
  <1>3. long # <<>>   BY <1>1, <1>2, EmptySeq
  <1> DEFINE l == Len(read)
  <1>4. l \in Nat   BY <1>2
  <1>5. 1 .. (l + 1) = (1 .. l) \cup {l + 1} /\ l + 1 \notin 1 .. l /\ \A k \in 1 .. l : k < l + 1
    BY <1>4
  <1> QED BY <1>1, <1>2, <1>3, <1>5

LEMMA ImpedancesOn ==
  ASSUME NEW read \in Seq(Entries), NEW e \in Entries, NEW long, long = Append(read, e)
  PROVE  /\ Impedances(long) = Impedances(read) \cup
              (IF e.m.mode = "IMPEDANCE_MODE" THEN {Len(read) + 1} ELSE {})
         /\ Leaders(long) = Leaders(read) \cup (IF Takes(e.m) THEN {Len(read) + 1} ELSE {})
         /\ Impedances(read) # {} =>
              Min(Impedances(long)) = Min(Impedances(read)) /\ Min(Impedances(read)) \in DOMAIN read
         /\ Impedances(read) = {} /\ e.m.mode = "IMPEDANCE_MODE" =>
              Min(Impedances(long)) = Len(read) + 1
         /\ Leaders(read) = {} /\ Takes(e.m) => Min(Leaders(long)) = Len(read) + 1
PROOF
  <1> DEFINE n == Len(read) + 1
             I == Impedances(read)
             J == Impedances(long)
             K == Leaders(long)
  <1>1. /\ DOMAIN long = DOMAIN read \cup {n} /\ long[n] = e /\ n \notin DOMAIN read
        /\ \A k \in DOMAIN read : long[k] = read[k] /\ k < n
        /\ DOMAIN read \subseteq Nat /\ n \in Nat
    BY ReadsOn
  <1> HIDE DEF n
  <1>2. J = I \cup (IF e.m.mode = "IMPEDANCE_MODE" THEN {n} ELSE {})   BY <1>1 DEF Impedances
  <1>3. K = Leaders(read) \cup (IF Takes(e.m) THEN {n} ELSE {})   BY <1>1 DEF Leaders
  <1>4. I \subseteq DOMAIN read   BY DEF Impedances
  <1> HIDE DEF I, J, K
  <1>5. ASSUME I # {} PROVE Min(J) = Min(I) /\ Min(I) \in DOMAIN read
    <2>1. Min(I) \in I /\ \A k \in I : Min(I) <= k   BY <1>1, <1>4, <1>5, MinExists
    <2>2. J \subseteq Int /\ Min(I) \in J   BY <1>1, <1>2, <1>4, <2>1
    <2>3. \A k \in J : Min(I) <= k
      <3>1. Min(I) \in Nat /\ Min(I) < n   BY <1>1, <1>4, <2>1
      <3> QED BY <1>1, <1>2, <2>1, <3>1
    <2>4. Min(J) = Min(I)   BY <2>2, <2>3, MinIs
    <2> QED BY <1>4, <2>1, <2>4
  <1>6. Min({n}) = n
    <2>1. {n} \subseteq Nat /\ {n} # {}   BY <1>1
    <2>2. Min({n}) \in {n}   BY <2>1, MinExists
    <2> QED BY <2>2
  <1>7. I = {} /\ e.m.mode = "IMPEDANCE_MODE" => Min(J) = n   BY <1>2, <1>6
  <1>8. Leaders(read) = {} /\ Takes(e.m) => Min(K) = n   BY <1>3, <1>6
  <1> QED BY <1>2, <1>3, <1>5, <1>7, <1>8 DEF n, I, J, K

Shares(read) ==
  [k \in DOMAIN read |->
     IF k \in Heeded(read) THEN Premultiplier[read[k].c] * read[k].m.signal ELSE 0]

LEMMA EntryTyped ==
  ASSUME NEW e \in Entries
  PROVE  /\ Premultiplier[e.c] \in Int /\ e.m.signal \in Int /\ e.m.mode \in Mode
         /\ Premultiplier[e.c] * e.m.signal \in Int
PROOF
  <1>1. e.c \in 1 .. NumControllers /\ e.m.signal \in Signals /\ e.m.mode \in Mode
    BY DEF Entries, Message
  <1>2. Premultiplier[e.c] \in Int /\ e.m.signal \in Int   BY <1>1, GatherAssumption
  <1> DEFINE a == Premultiplier[e.c]
             b == e.m.signal
  <1> HIDE DEF a, b
  <1>3. \A x, y \in Int : x * y \in Int   OBVIOUS
  <1> QED BY <1>1, <1>2, <1>3

LEMMA SharesTyped == ASSUME NEW read \in Seq(Entries) PROVE Shares(read) \in Seq(Int)
PROOF
  <1>1. DOMAIN read = 1 .. Len(read) /\ Len(read) \in Nat /\ \A k \in 1 .. Len(read) : read[k] \in Entries
    OBVIOUS
  <1> DEFINE share(k) == IF k \in Heeded(read) THEN Premultiplier[read[k].c] * read[k].m.signal ELSE 0
  <1>2. \A k \in 1 .. Len(read) : share(k) \in Int   BY <1>1, EntryTyped
  <1>3. Shares(read) = [k \in 1 .. Len(read) |-> share(k)]   BY <1>1 DEF Shares
  <1> HIDE DEF share
  <1> QED BY <1>1, <1>2, <1>3, IsASeq

(* The torques after one more message.                                     *)
Counts(read, e) ==
  e.m.mode = "TORQUE_MODE" \/ (e.m.mode = "IMPEDANCE_MODE" /\ Impedances(read) = {})

LEMMA TorquesOn ==
  ASSUME NEW read \in Seq(Entries), NEW e \in Entries
  PROVE  /\ TorquesOf(Append(read, e)) = TorquesOf(read) +
              (IF Counts(read, e) THEN Premultiplier[e.c] * e.m.signal ELSE 0)
         /\ TorquesOf(read) \in Int
PROOF
  <1> DEFINE long == Append(read, e)
             n == Len(read) + 1
             share == IF Counts(read, e) THEN Premultiplier[e.c] * e.m.signal ELSE 0
  <1>1. /\ long \in Seq(Entries) /\ Len(long) = n /\ DOMAIN long = DOMAIN read \cup {n}
        /\ long[n] = e /\ n \notin DOMAIN read
        /\ \A k \in DOMAIN read : long[k] = read[k] /\ k < n
        /\ DOMAIN read \subseteq Nat /\ n \in Nat
    BY ReadsOn
  <1>2. /\ Impedances(long) = Impedances(read) \cup
             (IF e.m.mode = "IMPEDANCE_MODE" THEN {n} ELSE {})
        /\ Impedances(read) # {} =>
             Min(Impedances(long)) = Min(Impedances(read)) /\ Min(Impedances(read)) \in DOMAIN read
        /\ Impedances(read) = {} /\ e.m.mode = "IMPEDANCE_MODE" => Min(Impedances(long)) = n
    BY ImpedancesOn
  <1> HIDE DEF long, n
  <1>3. Heeded(long) = Heeded(read) \cup (IF Counts(read, e) THEN {n} ELSE {})
    <2>1. Impedances(read) \subseteq DOMAIN read   BY DEF Impedances
    <2>2. \A k \in DOMAIN read : k \in Heeded(long) <=> k \in Heeded(read)
      BY <1>1, <1>2, <2>1 DEF Heeded
    <2>3. n \in Heeded(long) <=> Counts(read, e)
      <3>1. n \in Impedances(long) <=> e.m.mode = "IMPEDANCE_MODE"   BY <1>1, <1>2, <2>1
      <3>2. Impedances(read) # {} => Min(Impedances(long)) # n   BY <1>1, <1>2
      <3> QED BY <1>1, <1>2, <3>1, <3>2 DEF Heeded, Counts
    <2>4. Heeded(long) \subseteq DOMAIN long /\ Heeded(read) \subseteq DOMAIN read   BY DEF Heeded
    <2> QED BY <1>1, <2>2, <2>3, <2>4
  <1>4. /\ DOMAIN Shares(long) = DOMAIN long /\ DOMAIN Shares(read) = DOMAIN read
        /\ \A k \in DOMAIN read : Shares(long)[k] = Shares(read)[k]
        /\ Shares(long)[n] = share
    <2>1. n \in DOMAIN long /\ n \notin Heeded(read)   BY <1>1 DEF Heeded
    <2> QED BY <1>1, <1>3, <2>1 DEF Shares
  <1>5. Shares(read) \in Seq(Int) /\ Shares(long) \in Seq(Int)   BY <1>1, SharesTyped
  <1>6. Len(Shares(read)) = Len(read) /\ Len(Shares(long)) = Len(read) + 1
    BY <1>1, <1>4, <1>5 DEF n
  <1>7. share \in Int   BY EntryTyped
  <1> HIDE DEF share
  <1>8. Shares(long) = Append(Shares(read), share)
    <2>1. /\ Append(Shares(read), share) \in Seq(Int) /\ Len(Append(Shares(read), share)) = n
          /\ \A k \in 1 .. Len(read) : Append(Shares(read), share)[k] = Shares(read)[k]
          /\ Append(Shares(read), share)[n] = share
      BY <1>5, <1>6, <1>7, AppendProperties DEF n
    <2>2. \A k \in 1 .. n : Shares(long)[k] = Append(Shares(read), share)[k]
      <3>1. Len(read) \in Nat /\ DOMAIN read = 1 .. Len(read)   OBVIOUS
      <3>2. \A k \in 1 .. n : k = n \/ k \in 1 .. Len(read)   BY <3>1 DEF n
      <3> QED BY <1>4, <2>1, <3>1, <3>2
    <2>3. Len(Shares(long)) = n   BY <1>6 DEF n
    <2> QED BY <1>5, <2>1, <2>2, <2>3, SeqEqual
  <1>9. Sums(Shares(long))[n] = Sums(Shares(read))[Len(read)] + share
    BY <1>5, <1>6, <1>7, <1>8, SumsOfAppend DEF n
  <1>10. TorquesOf(long) = Sums(Shares(long))[n] /\ TorquesOf(read) = Sums(Shares(read))[Len(read)]
    BY <1>6 DEF TorquesOf, Total, Shares, n
  <1>11. Sums(Shares(read))[Len(read)] \in Int
    <2>1. Len(read) \in 0 .. Len(read)   OBVIOUS
    <2> QED BY <1>5, <1>6, <2>1, SumsExist
  <1> QED BY <1>9, <1>10, <1>11 DEF share, long

(* A round that has read nothing sums to nothing.                          *)
LEMMA NothingRead ==
  /\ <<>> \in Seq(Entries) /\ TorquesOf(<<>>) = 0
  /\ Impedances(<<>>) = {} /\ Leaders(<<>>) = {}
PROOF
  <1>1. DOMAIN <<>> = {} /\ <<>> \in Seq(Entries)   OBVIOUS
  <1>2. Shares(<<>>) = <<>>
    <2>1. Shares(<<>>) \in Seq(Int)   BY <1>1, SharesTyped
    <2>2. DOMAIN Shares(<<>>) = {}   BY <1>1 DEF Shares
    <2>3. Len(Shares(<<>>)) = 0   BY <2>1, <2>2
    <2> QED BY <2>1, <2>3, EmptySeq
  <1>3. TorquesOf(<<>>) = Total(<<>>)   BY <1>2 DEF TorquesOf, Shares
  <1>4. Total(<<>>) = 0
    <2>1. <<>> \in Seq(Int) /\ Len(<<>>) = 0   OBVIOUS
    <2> QED BY <2>1, SumsExist DEF Total
  <1> QED BY <1>1, <1>3, <1>4 DEF Impedances, Leaders

LEMMA GatherInitially == GatherInit => GatherInv
PROOF
  <1> SUFFICES ASSUME GatherInit PROVE GatherInv   OBVIOUS
  <1>1. gather = <<>> /\ DOMAIN gather = {} /\ gather \in Seq(Gathers)   BY DEF GatherInit
  <1>2. control_signal_msg \in Aggregates   BY DEF GatherInit, Mode, Aggregates
  <1> QED BY <1>1, <1>2 DEF GatherInv, GatherTyped, OneAlone, RoundSoFar, SignalIsOfOneRound

(* What is known of a thread.                                              *)
LEMMA ThreadTyped ==
  ASSUME GatherTyped, NEW t \in DOMAIN gather
  PROVE  /\ gather[t] \in Gathers
         /\ DOMAIN gather = 1 .. Len(gather) /\ Len(gather) \in Nat
PROOF
  BY DEF GatherTyped

(* A thread's record changes, the others' do not.                          *)
LEMMA OneThreadMoves ==
  ASSUME GatherTyped, NEW t \in DOMAIN gather, NEW g \in Gathers,
         gather' = [gather EXCEPT ![t] = g]
  PROVE  /\ gather' \in Seq(Gathers) /\ DOMAIN gather' = DOMAIN gather
         /\ gather'[t] = g /\ \A u \in DOMAIN gather : u # t => gather'[u] = gather[u]
PROOF
  <1>1. gather \in Seq(Gathers) /\ t \in 1 .. Len(gather)   BY DEF GatherTyped
  <1>2. gather' \in Seq(Gathers)   BY <1>1, ExceptSeq
  <1>3. gather' = [u \in DOMAIN gather |-> IF u = t THEN g ELSE gather[u]]   OBVIOUS
  <1> QED BY <1>2, <1>3

(* A thread that leaves its round, or ends, touches nobody's.              *)
LEMMA LeavesRound ==
  ASSUME GatherInv, NEW t \in DOMAIN gather, NEW g \in Gathers, g.at \in {"poll", "ended"},
         gather' = [gather EXCEPT ![t] = g], UNCHANGED control_signal_msg
  PROVE  GatherInv'
PROOF
  <1>1. /\ gather' \in Seq(Gathers) /\ DOMAIN gather' = DOMAIN gather
        /\ gather'[t] = g /\ \A u \in DOMAIN gather : u # t => gather'[u] = gather[u]
    BY OneThreadMoves DEF GatherInv
  <1>2. GatherTyped'   BY <1>1 DEF GatherInv, GatherTyped
  <1>3. OneAlone'   BY <1>1 DEF GatherInv, OneAlone, InRound
  <1>4. RoundSoFar'   BY <1>1 DEF GatherInv, RoundSoFar
  <1>5. SignalIsOfOneRound'   BY <1>1 DEF GatherInv, SignalIsOfOneRound
  <1> QED BY <1>2, <1>3, <1>4, <1>5 DEF GatherInv

LEMMA ClearedIs ==
  ASSUME NEW msg \in Aggregates
  PROVE  Cleared(msg) \in Aggregates /\ Cleared(msg).torques = 0 /\ Cleared(msg).mode = "TORQUE_MODE"
PROOF
  <1>1. "TORQUE_MODE" \in Mode /\ 0 \in Int   BY DEF Mode
  <1>2. Cleared(msg) \in Aggregates   BY <1>1, Zenon DEF Aggregates, Cleared
  <1>3. Cleared(msg).torques = 0 /\ Cleared(msg).mode = "TORQUE_MODE"
    BY Zenon DEF Aggregates, Cleared
  <1> QED BY <1>2, <1>3

(* A thread that is no longer alone.                                       *)
LEMMA Disturbed ==
  ASSUME NEW g \in Gathers, NEW d, d = [g EXCEPT !.alone = FALSE, !.read = <<>>]
  PROVE  d \in Gathers /\ d.at = g.at /\ ~ d.alone
PROOF
  <1>1. <<>> \in Seq(Entries)   OBVIOUS
  <1>2. d \in Gathers /\ d.at = g.at   BY <1>1, Zenon DEF Gathers
  <1>3. d.alone = FALSE   BY DEF Gathers
  <1> QED BY <1>2, <1>3

LEMMA BeginsKeeps ==
  ASSUME GatherInv, NEW t \in DOMAIN gather, Begins(t)
  PROVE  GatherInv'
PROOF
  <1>1. PICK snapshot \in Snapshots : gather' = BeginsRound(t, snapshot)   BY DEF Begins
  <1>2. snapshot \in Seq(1 .. NumControllers)
    <2>1. PICK n \in 0 .. NumControllers : snapshot \in [1 .. n -> 1 .. NumControllers]
      BY <1>1 DEF Snapshots
    <2>2. n \in Nat   BY <2>1, GatherAssumption
    <2> QED BY <2>1, <2>2, SeqDef
  <1> DEFINE own == [at |-> "reading", snapshot |-> snapshot, set |-> FALSE, impedance |-> FALSE,
                     read |-> <<>>, alone |-> \A v \in DOMAIN gather : ~ InRound(v)]
  <1>3. own \in Gathers   BY <1>2 DEF Gathers
  <1>4. /\ DOMAIN gather' = DOMAIN gather
        /\ gather'[t] = own
        /\ \A u \in DOMAIN gather : u # t =>
             gather'[u] = IF InRound(u) THEN [gather[u] EXCEPT !.alone = FALSE, !.read = <<>>]
                          ELSE gather[u]
    BY <1>1 DEF BeginsRound, Polling
  <1>5. \A u \in DOMAIN gather : gather[u] \in Gathers   BY ThreadTyped DEF GatherInv
  <1>6. \A u \in DOMAIN gather : u # t =>
          /\ gather'[u] \in Gathers /\ gather'[u].at = gather[u].at
          /\ InRound(u) => ~ gather'[u].alone
    BY <1>4, <1>5, Disturbed
  <1> HIDE DEF own
  <1>7. gather' \in Seq(Gathers)
    <2>1. DOMAIN gather = 1 .. Len(gather) /\ Len(gather) \in Nat
      BY ThreadTyped DEF GatherInv
    <2>2. \A u \in 1 .. Len(gather) : gather'[u] \in Gathers   BY <1>3, <1>4, <1>6, <2>1
    <2>3. gather' = [u \in 1 .. Len(gather) |-> gather'[u]]
      BY <1>1, <2>1 DEF BeginsRound
    <2> QED BY <2>1, <2>2, <2>3, IsASeq
  <1>8. /\ control_signal_msg' \in Aggregates
        /\ control_signal_msg'.torques = 0 /\ control_signal_msg'.mode = "TORQUE_MODE"
    BY ClearedIs DEF GatherInv, GatherTyped, Begins
  <1>9. GatherTyped'   BY <1>7, <1>8 DEF GatherTyped
  <1>10. own.alone => \A u \in DOMAIN gather : ~ InRound(u)   BY DEF own
  <1>11. OneAlone'   BY <1>4, <1>6, <1>10 DEF OneAlone, InRound
  <1>12. \A u \in DOMAIN gather : u # t /\ gather'[u].at \in {"reading", "publishing"} =>
           ~ gather'[u].alone
    BY <1>6 DEF InRound
  <1>13. RoundSoFar'
    <2>1. SoFar(<<>>, control_signal_msg')   BY <1>8, NothingRead DEF SoFar
    <2>2. own.read = <<>> /\ own.set = FALSE /\ own.impedance = FALSE   BY DEF own
    <2>3. own.set <=> own.read # <<>>   BY <2>2
    <2>4. own.impedance <=> Impedances(own.read) # {}   BY <2>2, NothingRead
    <2> QED BY <1>4, <1>12, <2>1, <2>2, <2>3, <2>4 DEF RoundSoFar
  <1>14. SignalIsOfOneRound'
    <2>1. own.at = "reading"   BY DEF own
    <2> QED BY <1>4, <1>12, <2>1 DEF SignalIsOfOneRound
  <1> QED BY <1>9, <1>11, <1>13, <1>14 DEF GatherInv

(* A controller that takes over decides alone.                             *)
LEMMA TakenOverIs ==
  ASSUME NEW m \in Message, Takes(m)
  PROVE  TakenOver(m) \in Aggregates /\ LedBy(m, TakenOver(m))
PROOF
  <1>1. m.signal \in Int /\ m.mode \in Mode   BY GatherAssumption DEF Message
  <1>2. m.mode \in {"POSITION_MODE", "VELOCITY_MODE"}   BY DEF Takes
  <1> DEFINE p == IF m.mode = "POSITION_MODE" THEN m.signal ELSE 0
             v == IF m.mode = "VELOCITY_MODE" THEN m.signal ELSE 0
  <1>3. TakenOver(m) = [mode |-> m.mode, position |-> p, velocity |-> v, torques |-> 0, gains |-> 0]
    BY DEF TakenOver
  <1>4. p \in Int /\ v \in Int   BY <1>1
  <1>5. LedBy(m, TakenOver(m))
    <2>1. /\ TakenOver(m).mode = m.mode /\ TakenOver(m).position = p
          /\ TakenOver(m).velocity = v /\ TakenOver(m).torques = 0 /\ TakenOver(m).gains = 0
      BY <1>3
    <2>2. CASE m.mode = "POSITION_MODE"   BY <2>1, <2>2 DEF LedBy, FieldOf
    <2>3. CASE m.mode = "VELOCITY_MODE"   BY <2>1, <2>3 DEF LedBy, FieldOf
    <2> QED BY <1>2, <2>2, <2>3
  <1> HIDE DEF p, v
  <1> QED BY <1>1, <1>3, <1>4, <1>5 DEF Aggregates

(* The fields of an aggregate after one more message.                      *)
LEMMA AggregatedFields ==
  ASSUME NEW msg \in Aggregates, NEW e \in Entries, NEW set \in BOOLEAN, NEW impedance \in BOOLEAN,
         NEW first, first <=> e.m.mode = "IMPEDANCE_MODE" /\ ~ impedance,
         NEW mode, mode = IF set THEN msg.mode ELSE e.m.mode,
         NEW share, share = Premultiplier[e.c] * e.m.signal,
         NEW new, new = Aggregated(msg, e.c, e.m, set, impedance)
  PROVE  /\ new \in Aggregates
         /\ new.mode = IF first THEN "IMPEDANCE_MODE" ELSE mode
         /\ new.torques = IF first \/ (e.m.mode = "TORQUE_MODE" /\ mode \in {"TORQUE_MODE", "IMPEDANCE_MODE"})
                          THEN msg.torques + share ELSE msg.torques
         /\ new.position = IF first THEN e.m.signal ELSE msg.position
         /\ new.velocity = IF first THEN e.m.signal ELSE msg.velocity
         /\ new.gains = IF first THEN e.m.signal ELSE msg.gains
PROOF
  <1>1. /\ msg.mode \in Mode /\ msg.torques \in Int /\ msg.position \in Int
        /\ msg.velocity \in Int /\ msg.gains \in Int
    BY DEF Aggregates
  <1>2. share \in Int /\ e.m.signal \in Int /\ e.m.mode \in Mode   BY EntryTyped
  <1> DEFINE torques == IF first \/ (e.m.mode = "TORQUE_MODE" /\ mode \in {"TORQUE_MODE", "IMPEDANCE_MODE"})
                        THEN msg.torques + share ELSE msg.torques
             field(f) == IF first THEN e.m.signal ELSE msg[f]
             last == IF first THEN "IMPEDANCE_MODE" ELSE mode
  <1>3. new = [mode |-> last, position |-> field("position"), velocity |-> field("velocity"),
               torques |-> torques, gains |-> field("gains")]
    BY DEF Aggregated, Aggregates
  <1>4. torques \in Int   BY <1>1, <1>2
  <1>5. field("position") \in Int /\ field("velocity") \in Int /\ field("gains") \in Int
    BY <1>1, <1>2
  <1>6. last \in Mode   BY <1>1, <1>2 DEF Mode
  <1>7. new \in Aggregates
    <2> HIDE DEF torques, field, last
    <2> QED BY <1>3, <1>4, <1>5, <1>6 DEF Aggregates
  <1> QED BY <1>3, <1>7

LEMMA AggregatedTyped ==
  ASSUME NEW msg \in Aggregates, NEW e \in Entries, NEW set \in BOOLEAN, NEW impedance \in BOOLEAN
  PROVE  Aggregated(msg, e.c, e.m, set, impedance) \in Aggregates
PROOF
  <1> DEFINE first == e.m.mode = "IMPEDANCE_MODE" /\ ~ impedance
             mode == IF set THEN msg.mode ELSE e.m.mode
             share == Premultiplier[e.c] * e.m.signal
             new == Aggregated(msg, e.c, e.m, set, impedance)
  <1>1. first <=> e.m.mode = "IMPEDANCE_MODE" /\ ~ impedance   OBVIOUS
  <1> HIDE DEF first, mode, share, new
  <1>2. new \in Aggregates   BY <1>1, AggregatedFields DEF mode, share, new
  <1> QED BY <1>2 DEF new

(* The aggregate goes on to be that of what was read.                      *)
LEMMA AggregatedSoFar ==
  ASSUME NEW msg \in Aggregates, NEW read \in Seq(Entries), NEW e \in Entries,
         NEW set \in BOOLEAN, NEW impedance \in BOOLEAN,
         SoFar(read, msg), set <=> read # <<>>, impedance <=> Impedances(read) # {}, ~ Takes(e.m)
  PROVE  SoFar(Append(read, e), Aggregated(msg, e.c, e.m, set, impedance))
PROOF
  <1> DEFINE first == e.m.mode = "IMPEDANCE_MODE" /\ ~ impedance
             mode == IF set THEN msg.mode ELSE e.m.mode
             share == Premultiplier[e.c] * e.m.signal
             new == Aggregated(msg, e.c, e.m, set, impedance)
             long == Append(read, e)
             n == Len(read) + 1
  <1>1. /\ new.mode = IF first THEN "IMPEDANCE_MODE" ELSE mode
        /\ new.torques = IF first \/ (e.m.mode = "TORQUE_MODE" /\ mode \in {"TORQUE_MODE", "IMPEDANCE_MODE"})
                         THEN msg.torques + share ELSE msg.torques
        /\ new.position = IF first THEN e.m.signal ELSE msg.position
        /\ new.velocity = IF first THEN e.m.signal ELSE msg.velocity
        /\ new.gains = IF first THEN e.m.signal ELSE msg.gains
    <2> HIDE DEF first, mode, share, new
    <2>1. first <=> e.m.mode = "IMPEDANCE_MODE" /\ ~ impedance   BY DEF first
    <2> QED BY <2>1, AggregatedFields DEF mode, share, new
  <1>2. /\ Impedances(long) = Impedances(read) \cup
             (IF e.m.mode = "IMPEDANCE_MODE" THEN {n} ELSE {})
        /\ Leaders(long) = Leaders(read) \cup (IF Takes(e.m) THEN {n} ELSE {})
        /\ Impedances(read) # {} =>
             Min(Impedances(long)) = Min(Impedances(read)) /\ Min(Impedances(read)) \in DOMAIN read
        /\ Impedances(read) = {} /\ e.m.mode = "IMPEDANCE_MODE" => Min(Impedances(long)) = n
    <2> HIDE DEF first, mode, share, new
    <2>1. long = Append(read, e) /\ n = Len(read) + 1   OBVIOUS
    <2> HIDE DEF long, n
    <2> QED BY ZenonT(60), <2>1, ImpedancesOn
  <1>3. long[n] = e /\ \A k \in DOMAIN read : long[k] = read[k]
    <2> HIDE DEF first, mode, share, new
    <2> QED BY ReadsOn
  <1>4. /\ TorquesOf(long) = TorquesOf(read) + (IF Counts(read, e) THEN share ELSE 0)
        /\ TorquesOf(read) \in Int
    <2> HIDE DEF first, mode, new
    <2> QED BY TorquesOn
  <1>5. share \in Int   BY EntryTyped
  <1>6. e.m.mode \in {"TORQUE_MODE", "IMPEDANCE_MODE"}
    <2>1. e.m.mode \in Mode   BY EntryTyped
    <2> QED BY <2>1 DEF Mode, Takes
  <1>7. read = <<>> => Impedances(read) = {}   BY NothingRead
  <1> HIDE DEF share, new, long, n
  <1>8. mode \in {"TORQUE_MODE", "IMPEDANCE_MODE"}   BY <1>6 DEF SoFar
  <1>9. (first \/ e.m.mode = "TORQUE_MODE") <=> Counts(read, e)   BY <1>6 DEF Counts
  <1>10. new.torques = TorquesOf(long)
    <2>1. msg.torques = TorquesOf(read)   BY DEF SoFar
    <2>2. new.torques = IF Counts(read, e) THEN msg.torques + share ELSE msg.torques
      BY <1>1, <1>8, <1>9
    <2> QED BY <1>4, <1>5, <2>1, <2>2
  <1>11. new.mode = IF Impedances(long) = {} THEN "TORQUE_MODE" ELSE "IMPEDANCE_MODE"
    BY <1>1, <1>2, <1>6, <1>7 DEF SoFar
  <1>12. Leaders(long) = {}   BY <1>2 DEF SoFar
  <1>13. ASSUME Impedances(long) # {}
         PROVE  /\ new.position = FirstImpedance(long) /\ new.velocity = FirstImpedance(long)
                /\ new.gains = FirstImpedance(long)
    <2>1. CASE Impedances(read) # {}
      <3>1. FirstImpedance(long) = FirstImpedance(read)   BY <1>2, <1>3, <2>1 DEF FirstImpedance
      <3>2. ~ first   BY <2>1
      <3> QED BY <1>1, <2>1, <3>1, <3>2 DEF SoFar
    <2>2. CASE Impedances(read) = {}
      <3>1. e.m.mode = "IMPEDANCE_MODE" /\ first   BY <1>2, <1>13, <2>2
      <3>2. FirstImpedance(long) = e.m.signal   BY <1>2, <1>3, <2>2, <3>1 DEF FirstImpedance
      <3> QED BY <1>1, <3>1, <3>2
    <2> QED BY <2>1, <2>2
  <1>14. SoFar(long, new)   BY <1>10, <1>11, <1>12, <1>13 DEF SoFar
  <1> QED BY <1>14 DEF long, new

(* A thread in its round moves on, alone as it was: whoever else is in a   *)
(* round is not alone, and of the thread the invariant must be shown.      *)
LEMMA MovesOn ==
  ASSUME GatherInv, NEW t \in DOMAIN gather, NEW g \in Gathers,
         InRound(t), g.alone = gather[t].alone, gather' = [gather EXCEPT ![t] = g],
         control_signal_msg' \in Aggregates,
         g.at = "reading" /\ g.alone =>
           /\ SoFar(g.read, control_signal_msg')
           /\ g.set <=> g.read # <<>>
           /\ g.impedance <=> Impedances(g.read) # {},
         g.at = "publishing" /\ g.alone => SentFor(g.read, control_signal_msg')
  PROVE  GatherInv'
PROOF
  <1>1. /\ gather' \in Seq(Gathers) /\ DOMAIN gather' = DOMAIN gather
        /\ gather'[t] = g /\ \A u \in DOMAIN gather : u # t => gather'[u] = gather[u]
    BY OneThreadMoves DEF GatherInv
  <1>2. \A u \in DOMAIN gather : u # t /\ InRound(u) => ~ gather[u].alone
    BY DEF GatherInv, OneAlone
  <1>3. GatherTyped'   BY <1>1 DEF GatherTyped
  <1>4. OneAlone'
    <2> SUFFICES ASSUME NEW u \in DOMAIN gather, NEW v \in DOMAIN gather, u # v,
                        gather'[u].at \in {"reading", "publishing"},
                        gather'[v].at \in {"reading", "publishing"}
                 PROVE  ~ gather'[u].alone
      BY <1>1 DEF OneAlone, InRound
    <2>1. CASE u = t
      <3>1. InRound(v)   BY <1>1, <2>1 DEF InRound
      <3>2. ~ gather[t].alone   BY <2>1, <3>1 DEF GatherInv, OneAlone
      <3> QED BY <1>1, <2>1, <3>2
    <2>2. CASE u # t   BY <1>1, <1>2, <2>2 DEF InRound
    <2> QED BY <2>1, <2>2
  <1>5. \A u \in DOMAIN gather : u # t /\ gather'[u].at \in {"reading", "publishing"} =>
          ~ gather'[u].alone
    BY <1>1, <1>2 DEF InRound
  <1>6. RoundSoFar'   BY <1>1, <1>5 DEF RoundSoFar
  <1>7. SignalIsOfOneRound'   BY <1>1, <1>5 DEF SignalIsOfOneRound
  <1> QED BY <1>3, <1>4, <1>6, <1>7 DEF GatherInv

LEMMA ReadsSignalKeeps ==
  ASSUME GatherInv, NEW t \in DOMAIN gather, ReadsSignal(t)
  PROVE  GatherInv'
PROOF
  <1> DEFINE g == gather[t]
  <1>1. /\ g \in Gathers /\ g.at = "reading" /\ g.snapshot # <<>> /\ InRound(t)
        /\ control_signal_msg \in Aggregates
    BY ThreadTyped DEF GatherInv, GatherTyped, ReadsSignal, InRound
  <1>2. /\ g.snapshot \in Seq(1 .. NumControllers) /\ g.read \in Seq(Entries)
        /\ g.set \in BOOLEAN /\ g.impedance \in BOOLEAN /\ g.alone \in BOOLEAN
    BY <1>1 DEF Gathers
  <1>3. Head(g.snapshot) \in 1 .. NumControllers /\ Tail(g.snapshot) \in Seq(1 .. NumControllers)
    <2> DEFINE s == g.snapshot
    <2>1. s \in Seq(1 .. NumControllers) /\ s # <<>>   BY <1>1, <1>2
    <2> HIDE DEF s
    <2>2. Head(s) \in 1 .. NumControllers /\ Tail(s) \in Seq(1 .. NumControllers)
      BY <2>1, HeadTailProperties
    <2> QED BY <2>2 DEF s
  <1>4. g.alone => /\ SoFar(g.read, control_signal_msg)
                   /\ g.set <=> g.read # <<>>
                   /\ g.impedance <=> Impedances(g.read) # {}
    BY <1>1 DEF GatherInv, RoundSoFar
  <1>5. PICK m \in Message :
          LET read == IF g.alone THEN Append(g.read, [c |-> Head(g.snapshot), m |-> m]) ELSE <<>>
          IN  IF Takes(m)
              THEN /\ control_signal_msg' = TakenOver(m)
                   /\ gather' = [gather EXCEPT ![t].at = "publishing", ![t].snapshot = <<>>,
                                               ![t].read = read]
              ELSE /\ control_signal_msg' =
                        Aggregated(control_signal_msg, Head(g.snapshot), m, g.set, g.impedance)
                   /\ gather' = [gather EXCEPT
                        ![t].snapshot = Tail(@), ![t].set = TRUE, ![t].read = read,
                        ![t].impedance = @ \/ m.mode = "IMPEDANCE_MODE"]
    BY DEF ReadsSignal
  <1> DEFINE e == [c |-> Head(g.snapshot), m |-> m]
             long == Append(g.read, e)
             read == IF g.alone THEN long ELSE <<>>
             n == Len(g.read) + 1
  <1>6. e \in Entries /\ e.c = Head(g.snapshot) /\ e.m = m   BY <1>3 DEF Entries
  <1>7. long \in Seq(Entries) /\ long # <<>> /\ long[n] = e /\ read \in Seq(Entries)
    <2>1. long \in Seq(Entries) /\ long # <<>> /\ long[n] = e   BY <1>2, <1>6, ReadsOn
    <2>2. <<>> \in Seq(Entries)   OBVIOUS
    <2> QED BY <2>1, <2>2
  <1>8. /\ Impedances(long) = Impedances(g.read) \cup
             (IF m.mode = "IMPEDANCE_MODE" THEN {n} ELSE {})
        /\ Leaders(long) = Leaders(g.read) \cup (IF Takes(m) THEN {n} ELSE {})
        /\ Leaders(g.read) = {} /\ Takes(m) => Min(Leaders(long)) = n
    <2> HIDE DEF g, e, long, n
    <2>1. /\ Impedances(long) = Impedances(g.read) \cup
               (IF e.m.mode = "IMPEDANCE_MODE" THEN {n} ELSE {})
          /\ Leaders(long) = Leaders(g.read) \cup (IF Takes(e.m) THEN {n} ELSE {})
          /\ Leaders(g.read) = {} /\ Takes(e.m) => Min(Leaders(long)) = n
      BY <1>2, <1>6, ImpedancesOn DEF long, n
    <2> QED BY <1>6, <2>1
  <1>9. CASE Takes(m)
    <2> DEFINE h == [g EXCEPT !.at = "publishing", !.snapshot = <<>>, !.read = read]
    <2>1. gather' = [gather EXCEPT ![t] = h] /\ control_signal_msg' = TakenOver(m)
      BY <1>5, <1>9
    <2>2. h \in Gathers
      <3>1. <<>> \in Seq(1 .. NumControllers)   OBVIOUS
      <3> HIDE DEF read
      <3> QED BY <1>1, <1>7, <3>1, Zenon DEF Gathers
    <2>3. h.at = "publishing" /\ h.read = read /\ h.alone = g.alone
      <3> HIDE DEF read, g
      <3> QED BY <1>1 DEF Gathers
    <2>4. TakenOver(m) \in Aggregates /\ LedBy(m, TakenOver(m))   BY <1>9, TakenOverIs
    <2>5. g.alone => SentFor(read, TakenOver(m))
      <3> SUFFICES ASSUME g.alone PROVE SentFor(long, TakenOver(m))   OBVIOUS
      <3>1. Leaders(long) # {} /\ Min(Leaders(long)) = n   BY <1>4, <1>8, <1>9 DEF SoFar
      <3>2. long[n].m = m   BY <1>6, <1>7
      <3> HIDE DEF long, n
      <3> QED BY <2>4, <3>1, <3>2 DEF SentFor
    <2> HIDE DEF h
    <2> QED BY <1>1, <2>1, <2>2, <2>3, <2>4, <2>5, MovesOn
  <1>10. CASE ~ Takes(m)
    <2> DEFINE impedance == g.impedance \/ m.mode = "IMPEDANCE_MODE"
               h == [g EXCEPT !.snapshot = Tail(g.snapshot), !.set = TRUE, !.read = read,
                              !.impedance = impedance]
               new == Aggregated(control_signal_msg, Head(g.snapshot), m, g.set, g.impedance)
    <2>1. gather' = [gather EXCEPT ![t] = h] /\ control_signal_msg' = new
      BY <1>5, <1>10
    <2>2. impedance \in BOOLEAN   OBVIOUS
    <2>3. h \in Gathers
      <3> HIDE DEF read, impedance
      <3> QED BY <1>1, <1>3, <1>7, <2>2, Zenon DEF Gathers
    <2>4. h.at = "reading" /\ h.read = read /\ h.alone = g.alone
      <3> HIDE DEF read, g, impedance
      <3> QED BY <1>1 DEF Gathers
    <2>5. h.set = TRUE /\ h.impedance = impedance
      <3> HIDE DEF read, g, impedance
      <3> QED BY <1>1, Zenon DEF Gathers
    <2>6. new = Aggregated(control_signal_msg, e.c, e.m, g.set, g.impedance)   BY <1>6
    <2>7. new \in Aggregates
      <3> HIDE DEF g, e, new
      <3> QED BY <1>1, <1>2, <1>6, <2>6, AggregatedTyped
    <2>8. g.alone => /\ SoFar(read, new)
                     /\ h.set <=> read # <<>>
                     /\ h.impedance <=> Impedances(read) # {}
      <3> SUFFICES ASSUME g.alone
                   PROVE  /\ SoFar(long, new)
                          /\ long # <<>>
                          /\ impedance <=> Impedances(long) # {}
        BY <2>5
      <3>1. SoFar(long, new)
        <4> HIDE DEF g, e, new
        <4> QED BY <1>1, <1>2, <1>4, <1>6, <1>10, <2>6, AggregatedSoFar
      <3>2. impedance <=> Impedances(long) # {}
        <4> HIDE DEF long, n, g
        <4> QED BY <1>4, <1>8
      <3> QED BY <1>7, <3>1, <3>2
    <2> HIDE DEF h, new, read, g
    <2> QED BY <1>1, <2>1, <2>3, <2>4, <2>7, <2>8, MovesOn DEF g
  <1> QED BY <1>9, <1>10

LEMMA ReadsLastKeeps ==
  ASSUME GatherInv, NEW t \in DOMAIN gather, ReadsLast(t)
  PROVE  GatherInv'
PROOF
  <1> DEFINE g == gather[t]
             h == [g EXCEPT !.at = "publishing"]
  <1>1. /\ g \in Gathers /\ g.at = "reading" /\ InRound(t)
        /\ control_signal_msg \in Aggregates /\ control_signal_msg' = control_signal_msg
    BY ThreadTyped DEF GatherInv, GatherTyped, ReadsLast, InRound
  <1>2. gather' = [gather EXCEPT ![t] = h]   BY DEF ReadsLast
  <1>3. g.alone => SoFar(g.read, control_signal_msg)   BY <1>1 DEF GatherInv, RoundSoFar
  <1>4. h \in Gathers /\ h.at = "publishing" /\ h.read = g.read /\ h.alone = g.alone
    <2> HIDE DEF g
    <2>1. h \in Gathers   BY <1>1, Zenon DEF Gathers
    <2> QED BY <1>1, <2>1 DEF Gathers
  <1>5. g.alone => SentFor(g.read, control_signal_msg)
    <2> HIDE DEF g
    <2> QED BY <1>3 DEF SoFar, SentFor, FirstImpedance
  <1> HIDE DEF h
  <1> QED BY <1>1, <1>2, <1>4, <1>5, MovesOn

(* Every step of the state machine and of a gather thread.                 *)
LEMMA GatherInductive == GatherInv /\ [GatherNext]_gatherVars => GatherInv'
PROOF
  <1> SUFFICES ASSUME GatherInv, [GatherNext]_gatherVars PROVE GatherInv'   OBVIOUS
  <1>1. CASE UNCHANGED <<gather, control_signal_msg>>
    BY <1>1 DEF GatherInv, GatherTyped, OneAlone, InRound, RoundSoFar, SignalIsOfOneRound
  <1>2. Polling \in Gathers /\ Polling.at = "poll"
    <2>1. <<>> \in Seq(Entries) /\ <<>> \in Seq(1 .. NumControllers)   OBVIOUS
    <2>2. Polling.at = "poll"   BY DEF Polling
    <2>3. Polling \in Gathers   BY <2>1, Zenon DEF Polling, Gathers
    <2> QED BY <2>2, <2>3
  <1>3. CASE checkActivation
    <2>1. gather' = Append(gather, Polling) /\ UNCHANGED control_signal_msg
      BY <1>3 DEF checkActivation
    <2> DEFINE n == Len(gather) + 1
    <2>2. gather \in Seq(Gathers)   BY DEF GatherInv, GatherTyped
    <2>3. /\ gather' \in Seq(Gathers) /\ gather'[n] = Polling /\ DOMAIN gather' = DOMAIN gather \cup {n}
          /\ \A u \in DOMAIN gather : gather'[u] = gather[u]
      <3>1. /\ gather' \in Seq(Gathers) /\ gather'[n] = Polling /\ Len(gather') = n
            /\ \A u \in 1 .. Len(gather) : gather'[u] = gather[u]
        BY <1>2, <2>1, <2>2, AppendProperties
      <3>2. DOMAIN gather = 1 .. Len(gather) /\ Len(gather) \in Nat /\ DOMAIN gather' = 1 .. n
        BY <2>2, <3>1
      <3> QED BY <3>1, <3>2
    <2> HIDE DEF n
    <2>4. gather'[n].at = "poll"   BY <1>2, <2>3
    <2>5. GatherTyped'   BY <2>1, <2>3 DEF GatherInv, GatherTyped
    <2>6. OneAlone'   BY <2>3, <2>4 DEF GatherInv, OneAlone, InRound
    <2>7. RoundSoFar'   BY ZenonT(60), <2>1, <2>3, <2>4 DEF GatherInv, RoundSoFar
    <2>8. SignalIsOfOneRound'   BY <2>1, <2>3, <2>4 DEF GatherInv, SignalIsOfOneRound
    <2> QED BY <2>5, <2>6, <2>7, <2>8 DEF GatherInv
  <1>4. ASSUME NEW t \in DOMAIN gather, Ends(t) PROVE GatherInv'
    <2> DEFINE h == [gather[t] EXCEPT !.at = "ended"]
    <2>1. gather[t] \in Gathers   BY ThreadTyped DEF GatherInv
    <2>2. h \in Gathers   BY <2>1, Zenon DEF Gathers
    <2>3. h.at = "ended"   BY <2>1 DEF Gathers
    <2>4. gather' = [gather EXCEPT ![t] = h] /\ UNCHANGED control_signal_msg   BY <1>4 DEF Ends
    <2> HIDE DEF h
    <2> QED BY <2>2, <2>3, <2>4, LeavesRound
  <1>5. ASSUME NEW t \in DOMAIN gather, Publishes(t) PROVE GatherInv'
    <2>1. gather' = [gather EXCEPT ![t] = Polling] /\ UNCHANGED control_signal_msg
      BY <1>5 DEF Publishes
    <2> QED BY <1>2, <2>1, LeavesRound
  <1>6. \/ UNCHANGED <<gather, control_signal_msg>> \/ checkActivation
        \/ \E t \in DOMAIN gather :
             Ends(t) \/ Begins(t) \/ ReadsSignal(t) \/ ReadsLast(t) \/ Publishes(t)
    BY DEF GatherNext, gatherVars, Requests, LeavesRun, LeavesIdle
  <1> QED BY <1>1, <1>3, <1>4, <1>5, <1>6, BeginsKeeps, ReadsSignalKeeps, ReadsLastKeeps

(* For any controllers, premultipliers and signals, and however many       *)
(* activations overlap: a round that is alone publishes the aggregate of   *)
(* what it read, and nothing of an earlier round but, in torque mode, the  *)
(* fields that mode ignores (control_layer.cpp.in:260-346).                *)
THEOREM SignalOfRound == GatherSpec => []SignalIsOfOneRound
PROOF
  <1>1. GatherInv => SignalIsOfOneRound   BY DEF GatherInv
  <1> QED BY <1>1, GatherInitially, GatherInductive, PTL DEF GatherSpec

-----------------------------------------------------------------------------
(* The load of the machine and of a process.                               *)

(* What a sample is pushed as.                                             *)
LEMMA SampleIs ==
  ASSUME NEW v \in Int
  PROVE  Sample(v) \in Nat /\ Max({Sample(v), 0}) = Sample(v)
PROOF
  <1>1. Sample(v) = IF v >= 0 THEN v ELSE 0   BY MaxOfTwo DEF Sample
  <1>2. Sample(v) \in Nat   BY <1>1
  <1>3. Max({Sample(v), 0}) = IF Sample(v) >= 0 THEN Sample(v) ELSE 0   BY <1>2, MaxOfTwo
  <1> QED BY <1>2, <1>3

LEMMA PushSampleHolds ==
  ASSUME NEW w, NEW s \in Seq(Nat), NEW v \in Int, Holds(MonitorWindow, w, s)
  PROVE  /\ Append(s, Sample(v)) \in Seq(Nat)
         /\ Holds(MonitorWindow, push(w, v), Append(s, Sample(v)))
PROOF
  <1> DEFINE x == Sample(v)
  <1>1. x \in Nat /\ Max({x, 0}) = Max({v, 0})   BY SampleIs DEF Sample
  <1>2. push(w, v) = push(w, x)   BY <1>1 DEF push
  <1> HIDE DEF x
  <1>3. Holds(MonitorWindow, push(w, x), Append(s, x))   BY <1>1, PushHolds, MonitorAssumption
  <1>4. Append(s, x) \in Seq(Nat)   BY <1>1, AppendProperties
  <1> QED BY <1>2, <1>3, <1>4 DEF x

(* The greatest of finitely many numbers.                                  *)
LEMMA GreatestOf ==
  ASSUME NEW N \in Nat, NEW S, S \subseteq 0 .. N, S # {}
  PROVE  Max(S) \in S /\ \A x \in S : Max(S) >= x
PROOF
  <1> DEFINE T == {N - x : x \in S}
  <1>1. T \subseteq Nat /\ T # {}   OBVIOUS
  <1>2. PICK m \in T : \A y \in T : m <= y
    <2> HIDE DEF T
    <2> QED BY <1>1, LeastNat
  <1>3. PICK x \in S : m = N - x   BY <1>2
  <1>4. \A y \in S : x >= y
    <2> TAKE y \in S
    <2>1. N - y \in T   OBVIOUS
    <2>2. m <= N - y   BY <1>2, <2>1
    <2>3. x \in 0 .. N /\ y \in 0 .. N   OBVIOUS
    <2> HIDE DEF T
    <2> QED BY <1>3, <2>2, <2>3
  <1>5. S \subseteq Int   OBVIOUS
  <1>6. Max(S) = x   BY <1>3, <1>4, <1>5, MaxIs
  <1> QED BY <1>3, <1>4, <1>6

-----------------------------------------------------------------------------
(* A history h becomes g, with a reading r more.                           *)
Extended(h, r, g, n) ==
  /\ h \in Seq(Readings) /\ r \in Readings /\ g \in Seq(Readings)
  /\ g = Append(h, r) /\ Len(h) = n /\ Len(g) = n + 1 /\ n \in Nat
  /\ DOMAIN h = 1 .. n /\ DOMAIN g = 1 .. (n + 1)
  /\ g[n + 1] = r
  /\ \A k \in 1 .. n : g[k] = h[k] /\ h[k] \in Readings

LEMMA ExtendedBy ==
  ASSUME NEW h \in Seq(Readings), NEW r \in Readings, NEW g, g = Append(h, r)
  PROVE  Extended(h, r, g, Len(h))
PROOF
  <1>1. /\ g \in Seq(Readings) /\ Len(g) = Len(h) + 1 /\ Len(h) \in Nat
        /\ g[Len(h) + 1] = r /\ \A k \in 1 .. Len(h) : g[k] = h[k] /\ h[k] \in Readings
    BY AppendProperties
  <1> QED BY <1>1 DEF Extended

(* The samples among what was found.                                       *)
Findable == Int \cup {NoFile}

LEMMA SamplesGrow ==
  ASSUME NEW s \in Seq(Findable), NEW x \in Findable
  PROVE  /\ Samples(s) \in Seq(Nat)
         /\ Samples(Append(s, x)) =
              IF x # NoFile THEN Append(Samples(s), Sample(x)) ELSE Samples(s)
PROOF
  <1> DEFINE t == Append(s, x)
             n == Len(s)
             v == [k \in {j \in DOMAIN s : s[j] # NoFile} |-> Sample(s[k])]
             u == [k \in {j \in DOMAIN t : t[j] # NoFile} |-> Sample(t[k])]
  <1>1. /\ t \in Seq(Findable) /\ Len(t) = n + 1 /\ n \in Nat /\ t[n + 1] = x
        /\ \A k \in 1 .. n : s[k] = t[k]
    BY AppendProperties
  <1>2. DOMAIN s = 1 .. n /\ DOMAIN t = 1 .. (n + 1)
    <2> HIDE DEF t
    <2> QED BY <1>1
  <1>3. InOrder(v, n) = Samples(s)   BY DEF Samples
  <1>4. InOrder(u, n + 1) = Samples(t)
    <2> HIDE DEF t, n
    <2> QED BY <1>1 DEF Samples
  <1> HIDE DEF t, n
  <1>5. /\ \A k : k \in DOMAIN u <=> k \in 1 .. (n + 1) /\ t[k] # NoFile
        /\ \A k \in DOMAIN u : u[k] = Sample(t[k])
        /\ \A k : k \in DOMAIN v <=> k \in 1 .. n /\ s[k] # NoFile
        /\ \A k \in DOMAIN v : v[k] = Sample(s[k])
    BY <1>2
  <1> HIDE DEF u, v
  <1>6. Valued(u, n + 1, Nat)
    <2> SUFFICES ASSUME NEW k \in 1 .. (n + 1), k \in DOMAIN u PROVE u[k] \in Nat
      BY DEF Valued
    <2>1. t[k] \in Findable   BY <1>1
    <2>2. t[k] \in Int   BY <1>5, <2>1 DEF Findable
    <2> QED BY <1>5, <2>2, SampleIs
  <1>7. Agree(v, u, n)
    <2>1. \A k \in 1 .. n : k \in 1 .. (n + 1)   BY <1>1
    <2> QED BY <1>1, <1>5, <2>1 DEF Agree
  <1>8. /\ InOrder(v, n) \in Seq(Nat)
        /\ InOrder(u, n + 1) =
             IF n + 1 \in DOMAIN u THEN Append(InOrder(v, n), u[n + 1]) ELSE InOrder(v, n)
    BY <1>1, <1>6, <1>7, InOrderGrows
  <1>9. /\ n + 1 \in DOMAIN u <=> x # NoFile
        /\ x # NoFile => u[n + 1] = Sample(x)
    BY <1>1, <1>5
  <1> QED BY <1>3, <1>4, <1>8, <1>9 DEF t

LEMMA NoSamples == Samples(<<>>) = <<>>
PROOF
  <1> DEFINE v == [k \in {j \in DOMAIN <<>> : <<>>[j] # NoFile} |-> Sample(<<>>[k])]
  <1>1. DOMAIN v = {} /\ Len(<<>>) = 0   OBVIOUS
  <1>2. Samples(<<>>) = InOrder(v, 0)   BY <1>1 DEF Samples
  <1> HIDE DEF v
  <1> QED BY <1>1, <1>2, InOrderNone

(* A window of samples after a round that found x.                         *)
LEMMA SampledHolds ==
  ASSUME NEW s \in Seq(Findable), NEW x \in Findable, NEW w, NEW next,
         Holds(MonitorWindow, w, Samples(s)),
         next = IF x = NoFile THEN w ELSE push(w, x)
  PROVE  Holds(MonitorWindow, next, Samples(Append(s, x)))
PROOF
  <1> DEFINE f == Samples(s)
  <1>1. f \in Seq(Nat) /\ Samples(Append(s, x)) = IF x # NoFile THEN Append(f, Sample(x)) ELSE f
    BY SamplesGrow
  <1> HIDE DEF f
  <1>2. Holds(MonitorWindow, w, f)   BY DEF f
  <1>3. CASE x = NoFile   BY <1>1, <1>2, <1>3
  <1>4. CASE x # NoFile
    <2>1. x \in Int   BY <1>4 DEF Findable
    <2> QED BY <1>1, <1>2, <1>4, <2>1, PushSampleHolds
  <1> QED BY <1>3, <1>4

(* What a reading has of memory, temperature and a process.                *)
MemoryIn(r) == IF r.mem = NoFile THEN NoFile ELSE MemUsage(r.mem)

LEMMA ReadingFinds ==
  ASSUME NEW r \in Readings
  PROVE  /\ MemoryIn(r) \in Findable /\ r.temp \in Findable /\ r.rss \in Findable
         /\ r.mem # NoFile => MemUsage(r.mem) \in Int
         /\ MemoryIn(r) = NoFile <=> r.mem = NoFile
PROOF
  <1>1. r.temp \in Findable /\ r.rss \in Findable   BY MonitorAssumption DEF Findable
  <1>2. ASSUME r.mem # NoFile PROVE MemUsage(r.mem) \in Int
    <2> DEFINE total == r.mem.total
               available == r.mem.available
    <2>1. total \in Int /\ available \in Int   BY <1>2, MonitorAssumption
    <2>2. MemUsage(r.mem) = IF total <= 0 THEN 0 ELSE IF available <= 0 THEN 100
                            ELSE (100 * (total - available)) \div total
      BY DEF MemUsage
    <2> HIDE DEF total, available
    <2>3. 100 * (total - available) \in Int   BY <2>1
    <2> DEFINE used == 100 * (total - available)
    <2> HIDE DEF used
    <2>4. total > 0 => used \div total \in Int   BY <2>1, <2>3 DEF used
    <2> QED BY <2>1, <2>2, <2>4 DEF used
  <1>3. NoFile \notin Int   BY MonitorAssumption
  <1>4. MemoryIn(r) \in Findable /\ (MemoryIn(r) = NoFile <=> r.mem = NoFile)
    BY <1>2, <1>3 DEF MemoryIn, Findable
  <1> QED BY <1>1, <1>2, <1>4

(* A sequence that has one element more.                                   *)
LEMMA OneMore ==
  ASSUME NEW n \in Nat, NEW S, NEW x \in S, NEW a, NEW b,
         a \in [1 .. n -> S], b \in [1 .. (n + 1) -> S],
         b[n + 1] = x, \A k \in 1 .. n : b[k] = a[k]
  PROVE  a \in Seq(S) /\ Len(a) = n /\ b = Append(a, x)
PROOF
  <1>1. a \in Seq(S) /\ Len(a) = n   BY SeqDef
  <1> DEFINE c == Append(a, x)
  <1>2. /\ c \in Seq(S) /\ Len(c) = n + 1 /\ c[n + 1] = x
        /\ \A k \in 1 .. n : c[k] = a[k]
    BY <1>1, AppendProperties
  <1> HIDE DEF c
  <1>3. c \in [1 .. (n + 1) -> S]   BY <1>2
  <1>4. \A k \in 1 .. (n + 1) : k = n + 1 \/ k \in 1 .. n   OBVIOUS
  <1>5. \A k \in 1 .. (n + 1) : b[k] = c[k]   BY <1>2, <1>4
  <1>6. b = [k \in 1 .. (n + 1) |-> b[k]] /\ c = [k \in 1 .. (n + 1) |-> c[k]]   BY <1>3
  <1>7. b = c   BY <1>5, <1>6
  <1> QED BY <1>1, <1>7 DEF c

FoundMemories(h) == [k \in DOMAIN h |-> MemoryIn(h[k])]
FoundTemperatures(h) == [k \in DOMAIN h |-> h[k].temp]
FoundProcesses(h) == [k \in DOMAIN h |-> h[k].rss]

LEMMA FoundGrows ==
  ASSUME NEW h, NEW r, NEW g, NEW n, Extended(h, r, g, n)
  PROVE  /\ FoundMemories(h) \in Seq(Findable) /\ MemoryIn(r) \in Findable
         /\ FoundMemories(g) = Append(FoundMemories(h), MemoryIn(r))
         /\ FoundTemperatures(h) \in Seq(Findable) /\ r.temp \in Findable
         /\ FoundTemperatures(g) = Append(FoundTemperatures(h), r.temp)
         /\ FoundProcesses(h) \in Seq(Findable) /\ r.rss \in Findable
         /\ FoundProcesses(g) = Append(FoundProcesses(h), r.rss)
PROOF
  <1>1. /\ n \in Nat /\ DOMAIN h = 1 .. n /\ DOMAIN g = 1 .. (n + 1) /\ g[n + 1] = r
        /\ \A k \in 1 .. n : g[k] = h[k]
        /\ r \in Readings /\ \A k \in 1 .. n : h[k] \in Readings
    BY DEF Extended
  <1>2. \A k \in 1 .. (n + 1) : g[k] \in Readings   BY <1>1
  <1>3. n + 1 \in 1 .. (n + 1) /\ \A k \in 1 .. n : k \in 1 .. (n + 1)   BY <1>1
  <1>4. /\ FoundMemories(h) \in [1 .. n -> Findable] /\ FoundMemories(g) \in [1 .. (n + 1) -> Findable]
        /\ FoundMemories(g)[n + 1] = MemoryIn(r)
        /\ \A k \in 1 .. n : FoundMemories(g)[k] = FoundMemories(h)[k]
    BY <1>1, <1>2, <1>3, ReadingFinds DEF FoundMemories
  <1>5. /\ FoundTemperatures(h) \in [1 .. n -> Findable]
        /\ FoundTemperatures(g) \in [1 .. (n + 1) -> Findable]
        /\ FoundTemperatures(g)[n + 1] = r.temp
        /\ \A k \in 1 .. n : FoundTemperatures(g)[k] = FoundTemperatures(h)[k]
    BY <1>1, <1>2, <1>3, ReadingFinds DEF FoundTemperatures
  <1>6. /\ FoundProcesses(h) \in [1 .. n -> Findable]
        /\ FoundProcesses(g) \in [1 .. (n + 1) -> Findable]
        /\ FoundProcesses(g)[n + 1] = r.rss
        /\ \A k \in 1 .. n : FoundProcesses(g)[k] = FoundProcesses(h)[k]
    BY <1>1, <1>2, <1>3, ReadingFinds DEF FoundProcesses
  <1>7. MemoryIn(r) \in Findable /\ r.temp \in Findable /\ r.rss \in Findable
    BY <1>1, ReadingFinds
  <1>8. FoundMemories(h) \in Seq(Findable) /\ FoundMemories(g) = Append(FoundMemories(h), MemoryIn(r))
    BY <1>1, <1>4, <1>7, OneMore
  <1>9. FoundTemperatures(h) \in Seq(Findable) /\ FoundTemperatures(g) = Append(FoundTemperatures(h), r.temp)
    BY <1>1, <1>5, <1>7, OneMore
  <1>10. FoundProcesses(h) \in Seq(Findable) /\ FoundProcesses(g) = Append(FoundProcesses(h), r.rss)
    BY <1>1, <1>6, <1>7, OneMore
  <1> QED BY <1>7, <1>8, <1>9, <1>10
-----------------------------------------------------------------------------
(* The rounds that read /proc/stat.                                        *)
LEMMA LastReads ==
  ASSUME NEW h, NEW k \in Nat
  PROVE  /\ Reads(h, k) \subseteq 1 .. k
         /\ Reads(h, k) # {} =>
              /\ LastRead(h, k) \in Reads(h, k)
              /\ \A j \in Reads(h, k) : j <= LastRead(h, k)
         /\ Measured(h, k) =>
              /\ Reads(h, k) # {}
              /\ ReadBefore(h, k) \in Reads(h, k) /\ ReadBefore(h, k) < LastRead(h, k)
              /\ \A j \in Reads(h, k) : j = LastRead(h, k) \/ j <= ReadBefore(h, k)
PROOF
  <1> DEFINE R == Reads(h, k)
             b == LastRead(h, k)
             Q == R \ {b}
             a == ReadBefore(h, k)
  <1>1. R \subseteq 1 .. k   BY DEF Reads
  <1>2. Measured(h, k) <=> \E i, j \in R : i < j   BY DEF Measured
  <1>3. b = Max(R) /\ a = Max(Q)   BY DEF LastRead, ReadBefore
  <1> HIDE DEF R, a, b
  <1>4. R \subseteq 0 .. k   BY <1>1
  <1>5. ASSUME R # {} PROVE b \in R /\ \A j \in R : j <= b
    <2>1. b \in R /\ \A j \in R : b >= j   BY <1>3, <1>4, <1>5, GreatestOf
    <2> QED BY <1>1, <2>1
  <1>6. ASSUME NEW i \in R, NEW j \in R, i < j
        PROVE  a \in R /\ a < b /\ \A m \in R : m = b \/ m <= a
    <2>1. b \in R /\ \A m \in R : m <= b   BY <1>5, <1>6
    <2>2. i # b   BY <1>1, <1>6, <2>1
    <2>3. Q # {} /\ Q \subseteq 0 .. k   BY <1>4, <1>6, <2>2
    <2> HIDE DEF Q
    <2>4. a \in Q /\ \A m \in Q : a >= m   BY <1>3, <2>3, GreatestOf
    <2>5. a \in R /\ a # b /\ a <= b   BY <2>1, <2>4 DEF Q
    <2>6. \A m \in R : m = b \/ m \in Q   BY DEF Q
    <2> QED BY <1>1, <2>1, <2>4, <2>5, <2>6
  <1> QED BY <1>1, <1>2, <1>5, <1>6 DEF R, a, b

LEMMA ReadsGrow ==
  ASSUME NEW h, NEW r, NEW g, NEW n, Extended(h, r, g, n)
  PROVE  /\ \A k \in 0 .. n : Reads(g, k) = Reads(h, k)
         /\ r.stat => Reads(g, n + 1) = Reads(h, n) \cup {n + 1}
         /\ ~ r.stat => Reads(g, n + 1) = Reads(h, n)
PROOF
  <1>1. n \in Nat /\ g[n + 1] = r /\ \A k \in 1 .. n : g[k] = h[k]   BY DEF Extended
  <1>2. \A k \in 0 .. n : \A j \in 1 .. k : j \in 1 .. n   BY <1>1
  <1>3. \A k \in 0 .. n : Reads(g, k) = Reads(h, k)   BY <1>1, <1>2 DEF Reads
  <1>4. \A j : j \in 1 .. (n + 1) <=> j \in 1 .. n \/ j = n + 1   BY <1>1
  <1>5. Reads(g, n + 1) = {j \in 1 .. (n + 1) : g[j].stat} /\ Reads(h, n) = {j \in 1 .. n : h[j].stat}
    BY DEF Reads
  <1>6. r.stat => Reads(g, n + 1) = Reads(h, n) \cup {n + 1}   BY <1>1, <1>4, <1>5
  <1>7. ~ r.stat => Reads(g, n + 1) = Reads(h, n)   BY <1>1, <1>4, <1>5
  <1> QED BY <1>3, <1>6, <1>7

(* What was measured stays measured.                                       *)
LEMMA PastStands ==
  ASSUME NEW h, NEW r, NEW g, NEW n, Extended(h, r, g, n), NEW k \in 0 .. n
  PROVE  /\ Reads(g, k) = Reads(h, k)
         /\ LastRead(g, k) = LastRead(h, k)
         /\ ReadBefore(g, k) = ReadBefore(h, k)
         /\ Measured(g, k) <=> Measured(h, k)
         /\ Measured(h, k) => Lines(g, k) = Lines(h, k)
PROOF
  <1>1. Reads(g, k) = Reads(h, k)   BY ReadsGrow
  <1>2. LastRead(g, k) = LastRead(h, k)   BY <1>1 DEF LastRead
  <1>3. ReadBefore(g, k) = ReadBefore(h, k)   BY <1>1, <1>2 DEF ReadBefore
  <1>4. Measured(g, k) <=> Measured(h, k)   BY <1>1 DEF Measured
  <1>5. ASSUME Measured(h, k) PROVE Lines(g, k) = Lines(h, k)
    <2> DEFINE a == ReadBefore(h, k)
    <2>1. n \in Nat /\ \A j \in 1 .. n : g[j] = h[j]   BY DEF Extended
    <2>2. k \in Nat /\ k <= n   BY <2>1
    <2>3. a \in 1 .. k   BY <1>5, <2>2, LastReads
    <2> HIDE DEF a
    <2>4. g[a] = h[a]   BY <2>1, <2>2, <2>3
    <2> QED BY <1>3, <2>4 DEF Lines, a
  <1> QED BY <1>1, <1>2, <1>3, <1>4, <1>5

(* A round that reads makes the last read the one before.                  *)
LEMMA NowReads ==
  ASSUME NEW h, NEW r, NEW g, NEW n, Extended(h, r, g, n)
  PROVE  /\ r.stat =>
              /\ Reads(g, n + 1) # {} /\ LastRead(g, n + 1) = n + 1
              /\ Measured(g, n + 1) <=> Reads(h, n) # {}
              /\ Reads(h, n) # {} => ReadBefore(g, n + 1) = LastRead(h, n)
         /\ ~ r.stat =>
              /\ Reads(g, n + 1) = Reads(h, n) /\ LastRead(g, n + 1) = LastRead(h, n)
              /\ Measured(g, n + 1) <=> Measured(h, n)
              /\ ReadBefore(g, n + 1) = ReadBefore(h, n)
PROOF
  <1> DEFINE R == Reads(h, n)
             N == n + 1
  <1>1. n \in Nat /\ N \in Nat /\ n < N   BY DEF Extended
  <1>2. R \subseteq 1 .. n   BY <1>1, LastReads
  <1>3. ASSUME r.stat
        PROVE  /\ Reads(g, N) # {} /\ LastRead(g, N) = N
               /\ Measured(g, N) <=> R # {}
               /\ R # {} => ReadBefore(g, N) = LastRead(h, n)
    <2>1. Reads(g, N) = R \cup {N}   BY <1>3, ReadsGrow
    <2> DEFINE Q == Reads(g, N)
    <2> HIDE DEF R, N, Q
    <2>2. Q = R \cup {N} /\ Q \subseteq Int /\ N \in Q /\ \A y \in Q : N >= y
      <3>1. Q = R \cup {N}   BY <2>1 DEF Q
      <3>2. \A y \in R : y \in Int /\ N >= y   BY <1>1, <1>2
      <3> QED BY <1>1, <3>1, <3>2
    <2>3. LastRead(g, N) = N   BY <2>2, MaxIs DEF LastRead, Q
    <2>4. Q \ {N} = R   BY <1>1, <1>2, <2>2
    <2>5. ReadBefore(g, N) = LastRead(h, n)   BY <2>3, <2>4 DEF ReadBefore, LastRead, R, Q
    <2>6. Measured(g, N) <=> \E i, j \in Q : i < j   BY DEF Measured, Q
    <2>7. ASSUME NEW i \in R PROVE i < N   BY <1>1, <1>2
    <2>8. ASSUME NEW i \in Q, NEW j \in Q, i < j PROVE R # {}
      <3>1. i # N   BY <1>1, <2>2, <2>8
      <3> QED BY <2>2, <3>1
    <2>9. Measured(g, N) <=> R # {}   BY <2>2, <2>6, <2>7, <2>8
    <2> QED BY <2>2, <2>3, <2>5, <2>9 DEF Q
  <1>4. ASSUME ~ r.stat
        PROVE  /\ Reads(g, N) = R /\ LastRead(g, N) = LastRead(h, n)
               /\ Measured(g, N) <=> Measured(h, n)
               /\ ReadBefore(g, N) = ReadBefore(h, n)
    <2>1. Reads(g, N) = R   BY <1>4, ReadsGrow
    <2> HIDE DEF N
    <2>2. LastRead(g, N) = LastRead(h, n)   BY <2>1 DEF LastRead
    <2> QED BY <2>1, <2>2 DEF ReadBefore, Measured
  <1> QED BY <1>3, <1>4
-----------------------------------------------------------------------------
(* The counters of the machine after the first k rounds.                   *)
TicksOf(h) == [j \in DOMAIN h |-> h[j].ticks]
BusyOf(h, i) == [j \in DOMAIN h |-> h[j].busy[i]]
TotalAt(h, k) == Sums(TicksOf(h))[k]
BusyAt(h, i, k) == Sums(BusyOf(h, i))[k]

LEMMA Counts0 ==
  ASSUME NEW h \in Seq(Readings)
  PROVE  /\ TicksOf(h) \in Seq(Int) /\ Len(TicksOf(h)) = Len(h)
         /\ \A i \in 1 .. Processors : BusyOf(h, i) \in Seq(Int) /\ Len(BusyOf(h, i)) = Len(h)
PROOF
  <1> DEFINE n == Len(h)
  <1>1. n \in Nat /\ DOMAIN h = 1 .. n /\ \A j \in 1 .. n : h[j] \in Readings   OBVIOUS
  <1> HIDE DEF n
  <1>2. \A j \in 1 .. n : h[j].ticks \in Int /\ h[j].busy \in [1 .. Processors -> Int]
    BY <1>1, MonitorAssumption
  <1>3. ASSUME NEW a, a \in [1 .. n -> Int] PROVE a \in Seq(Int) /\ Len(a) = n
    BY <1>1, <1>3, SeqDef
  <1>4. TicksOf(h) \in [1 .. n -> Int]   BY <1>1, <1>2 DEF TicksOf
  <1>5. \A i \in 1 .. Processors : BusyOf(h, i) \in [1 .. n -> Int]   BY <1>1, <1>2 DEF BusyOf
  <1> QED BY <1>3, <1>4, <1>5 DEF n

LEMMA CountersTyped ==
  ASSUME NEW h \in Seq(Readings), NEW k \in 0 .. Len(h)
  PROVE  TotalAt(h, k) \in Int /\ \A i \in 1 .. Processors : BusyAt(h, i, k) \in Int
PROOF
  <1>1. ASSUME NEW s \in Seq(Int), Len(s) = Len(h) PROVE Sums(s)[k] \in Int
    <2>1. Sums(s) \in [0 .. Len(h) -> Int]   BY <1>1, SumsExist
    <2> QED BY <2>1
  <1> QED BY <1>1, Counts0 DEF TotalAt, BusyAt

(* What passed in a stretch is a difference of counters.                   *)
LEMMA Between ==
  ASSUME NEW h \in Seq(Readings), NEW a \in 0 .. Len(h), NEW b \in 0 .. Len(h), a <= b
  PROVE  /\ TicksIn(h, a, b) = TotalAt(h, b) - TotalAt(h, a)
         /\ \A i \in 1 .. Processors : BusyIn(h, i, a, b) = BusyAt(h, i, b) - BusyAt(h, i, a)
PROOF
  <1> DEFINE n == Len(h)
             d == b - a
  <1>1. /\ n \in Nat /\ DOMAIN h = 1 .. n /\ a \in Nat /\ b \in Nat /\ d \in Nat /\ d + a = b
        /\ b <= n /\ \A j \in 1 .. d : a + j \in 1 .. n /\ a + j = j + a
    OBVIOUS
  <1> HIDE DEF n, d
  <1>2. ASSUME NEW s \in Seq(Int), Len(s) = n
        PROVE  Total([j \in 1 .. d |-> s[a + j]]) = Sums(s)[b] - Sums(s)[a]
    <2> DEFINE t == [j \in 1 .. d |-> s[a + j]]
    <2>1. \A j \in 1 .. n : s[j] \in Int   BY <1>2
    <2>2. t \in [1 .. d -> Int]   BY <1>1, <2>1
    <2>3. \A j \in 1 .. d : t[j] = s[j + a]   BY <1>1
    <2> HIDE DEF t
    <2>4. t \in Seq(Int) /\ Len(t) = d   BY <1>1, <2>2, SeqDef
    <2>5. Len(t) + a <= Len(s) /\ \A j \in 1 .. Len(t) : t[j] = s[j + a]
      BY <1>1, <1>2, <2>3, <2>4
    <2>6. \A j \in 0 .. Len(t) : Sums(t)[j] = Sums(s)[j + a] - Sums(s)[a]
      BY <1>1, <2>4, <2>5, SumsOfStretch
    <2>7. Sums(t)[d] = Sums(s)[d + a] - Sums(s)[a]   BY <1>1, <2>4, <2>6
    <2> QED BY <1>1, <2>4, <2>7 DEF Total, t
  <1>3. [j \in 1 .. d |-> h[a + j].ticks] = [j \in 1 .. d |-> TicksOf(h)[a + j]]
    BY <1>1 DEF TicksOf
  <1>4. TicksOf(h) \in Seq(Int) /\ Len(TicksOf(h)) = n   BY Counts0 DEF n
  <1>5. \A i \in 1 .. Processors : BusyOf(h, i) \in Seq(Int) /\ Len(BusyOf(h, i)) = n
    BY Counts0 DEF n
  <1>6. TicksIn(h, a, b) = Total([j \in 1 .. d |-> h[a + j].ticks])   BY DEF TicksIn, d
  <1>7. TicksIn(h, a, b) = TotalAt(h, b) - TotalAt(h, a)   BY <1>2, <1>3, <1>4, <1>6 DEF TotalAt
  <1>8. ASSUME NEW i \in 1 .. Processors
         PROVE  BusyIn(h, i, a, b) = BusyAt(h, i, b) - BusyAt(h, i, a)
    <2> DEFINE s == BusyOf(h, i)
    <2>1. s \in Seq(Int) /\ Len(s) = n   BY <1>5
    <2>2. BusyIn(h, i, a, b) = Total([j \in 1 .. d |-> s[a + j]])
      <3>1. BusyIn(h, i, a, b) = Total([j \in 1 .. d |-> h[a + j].busy[i]])   BY DEF BusyIn, d
      <3>2. [j \in 1 .. d |-> h[a + j].busy[i]] = [j \in 1 .. d |-> s[a + j]]
        BY <1>1 DEF BusyOf
      <3> QED BY <3>1, <3>2
    <2>3. BusyAt(h, i, b) = Sums(s)[b] /\ BusyAt(h, i, a) = Sums(s)[a]   BY DEF BusyAt
    <2> HIDE DEF s
    <2> QED BY <1>2, <2>1, <2>2, <2>3
  <1> QED BY <1>7, <1>8

LEMMA CountersGrow ==
  ASSUME NEW h, NEW r, NEW g, NEW n, Extended(h, r, g, n)
  PROVE  /\ \A k \in 0 .. n : TotalAt(g, k) = TotalAt(h, k)
         /\ TotalAt(g, n + 1) = TotalAt(h, n) + r.ticks
         /\ \A i \in 1 .. Processors :
              /\ \A k \in 0 .. n : BusyAt(g, i, k) = BusyAt(h, i, k)
              /\ BusyAt(g, i, n + 1) = BusyAt(h, i, n) + r.busy[i]
PROOF
  <1>1. /\ n \in Nat /\ DOMAIN h = 1 .. n /\ DOMAIN g = 1 .. (n + 1) /\ g[n + 1] = r
        /\ \A k \in 1 .. n : g[k] = h[k]
        /\ r \in Readings /\ \A k \in 1 .. n : h[k] \in Readings
        /\ h \in Seq(Readings) /\ Len(h) = n
    BY DEF Extended
  <1>2. n + 1 \in 1 .. (n + 1) /\ \A k \in 1 .. (n + 1) : k = n + 1 \/ k \in 1 .. n   BY <1>1
  <1>3. \A k \in 1 .. (n + 1) : g[k].ticks \in Int /\ g[k].busy \in [1 .. Processors -> Int]
    <2>1. \A k \in 1 .. (n + 1) : g[k] \in Readings   BY <1>1, <1>2
    <2> QED BY <2>1, MonitorAssumption
  <1>4. ASSUME NEW s, NEW t, NEW x \in Int, s \in [1 .. n -> Int], t \in [1 .. (n + 1) -> Int],
               t[n + 1] = x, \A k \in 1 .. n : t[k] = s[k]
        PROVE  /\ \A k \in 0 .. n : Sums(t)[k] = Sums(s)[k]
               /\ Sums(t)[n + 1] = Sums(s)[n] + x
    <2>1. s \in Seq(Int) /\ Len(s) = n /\ t = Append(s, x)   BY <1>1, <1>4, OneMore
    <2> QED BY <2>1, SumsOfAppend
  <1>5. /\ TicksOf(h) \in [1 .. n -> Int] /\ TicksOf(g) \in [1 .. (n + 1) -> Int]
        /\ TicksOf(g)[n + 1] = r.ticks /\ r.ticks \in Int
        /\ \A k \in 1 .. n : TicksOf(g)[k] = TicksOf(h)[k]
    <2>1. \A k \in 1 .. n : k \in 1 .. (n + 1)   BY <1>1
    <2> QED BY <1>1, <1>2, <1>3, <2>1 DEF TicksOf
  <1>6. ASSUME NEW i \in 1 .. Processors
        PROVE  /\ BusyOf(h, i) \in [1 .. n -> Int] /\ BusyOf(g, i) \in [1 .. (n + 1) -> Int]
               /\ BusyOf(g, i)[n + 1] = r.busy[i] /\ r.busy[i] \in Int
               /\ \A k \in 1 .. n : BusyOf(g, i)[k] = BusyOf(h, i)[k]
    <2>1. \A k \in 1 .. n : k \in 1 .. (n + 1)   BY <1>1
    <2>2. \A k \in 1 .. (n + 1) : g[k].busy[i] \in Int   BY <1>3
    <2> QED BY <1>1, <1>2, <2>1, <2>2 DEF BusyOf
  <1>7. /\ \A k \in 0 .. n : Sums(TicksOf(g))[k] = Sums(TicksOf(h))[k]
        /\ Sums(TicksOf(g))[n + 1] = Sums(TicksOf(h))[n] + r.ticks
    BY <1>4, <1>5
  <1>8. ASSUME NEW i \in 1 .. Processors
        PROVE  /\ \A k \in 0 .. n : Sums(BusyOf(g, i))[k] = Sums(BusyOf(h, i))[k]
               /\ Sums(BusyOf(g, i))[n + 1] = Sums(BusyOf(h, i))[n] + r.busy[i]
    BY <1>4, <1>6
  <1> QED BY <1>7, <1>8 DEF TotalAt, BusyAt

(* What stays of a stretch when the history grows.                         *)
LEMMA StretchStands ==
  ASSUME NEW h, NEW r, NEW g, NEW n, Extended(h, r, g, n), NEW a \in 0 .. n, NEW b \in 0 .. n, a <= b
  PROVE  /\ TicksIn(g, a, b) = TicksIn(h, a, b)
         /\ \A i \in 1 .. Processors : BusyIn(g, i, a, b) = BusyIn(h, i, a, b)
PROOF
  <1>1. /\ h \in Seq(Readings) /\ Len(h) = n /\ g \in Seq(Readings) /\ Len(g) = n + 1 /\ n \in Nat
    BY DEF Extended
  <1>2. a \in 0 .. (n + 1) /\ b \in 0 .. (n + 1)   BY <1>1
  <1>3. /\ TicksIn(h, a, b) = TotalAt(h, b) - TotalAt(h, a)
        /\ \A i \in 1 .. Processors : BusyIn(h, i, a, b) = BusyAt(h, i, b) - BusyAt(h, i, a)
    BY <1>1, Between
  <1>4. /\ TicksIn(g, a, b) = TotalAt(g, b) - TotalAt(g, a)
        /\ \A i \in 1 .. Processors : BusyIn(g, i, a, b) = BusyAt(g, i, b) - BusyAt(g, i, a)
    BY <1>1, <1>2, Between
  <1> QED BY <1>3, <1>4, CountersGrow
-----------------------------------------------------------------------------
(* The usage of the lines of /proc/stat, which never get fewer.            *)
Ordered(h) == \A j, k \in DOMAIN h : j <= k => h[j].lines <= h[k].lines

LEMMA LinesGrow ==
  ASSUME NEW h \in Seq(Readings), Ordered(h), NEW k \in 0 .. Len(h), NEW j \in 0 .. k, Measured(h, j)
  PROVE  /\ Measured(h, k) /\ Lines(h, j) <= Lines(h, k)
         /\ Lines(h, j) \in 0 .. Processors /\ Lines(h, k) \in 0 .. Processors
PROOF
  <1> DEFINE n == Len(h)
             a == ReadBefore(h, j)
             b == LastRead(h, j)
             c == ReadBefore(h, k)
             d == LastRead(h, k)
  <1>1. /\ n \in Nat /\ DOMAIN h = 1 .. n /\ j \in Nat /\ k \in Nat /\ j <= k /\ k <= n
        /\ \A m \in 1 .. n : h[m] \in Readings
    OBVIOUS
  <1>2. Reads(h, j) \subseteq Reads(h, k)   BY <1>1 DEF Reads
  <1>3. Measured(h, k)   BY <1>2 DEF Measured
  <1>4. a \in Reads(h, j) /\ b \in Reads(h, j) /\ a < b   BY <1>1, LastReads
  <1>5. /\ c \in Reads(h, k) /\ \A m \in Reads(h, k) : m <= d /\ (m = d \/ m <= c)
    BY <1>1, <1>3, LastReads
  <1>6. Reads(h, j) \subseteq 1 .. j /\ Reads(h, k) \subseteq 1 .. k   BY <1>1, LastReads
  <1>7. Lines(h, j) = h[a].lines /\ Lines(h, k) = h[c].lines   BY DEF Lines
  <1> HIDE DEF n, a, b, c, d
  <1>8. a \in 1 .. n /\ b \in 1 .. n /\ c \in 1 .. n /\ b <= d /\ (a = d \/ a <= c)
    BY <1>1, <1>2, <1>4, <1>5, <1>6
  <1>9. a <= c
    <2>1. d \in Int
      <3>1. \E m \in Reads(h, k) : m = d   BY <1>1, <1>3, LastReads DEF d
      <3> QED BY <1>6, <3>1
    <2> QED BY <1>4, <1>8, <2>1
  <1>10. h[a].lines <= h[c].lines   BY <1>1, <1>8, <1>9 DEF Ordered
  <1>11. h[a].lines \in 0 .. Processors /\ h[c].lines \in 0 .. Processors
    BY <1>1, <1>8, MonitorAssumption
  <1> QED BY <1>3, <1>7, <1>10, <1>11

LEMMA ShareTyped ==
  ASSUME NEW h \in Seq(Readings), NEW k \in 0 .. Len(h), Measured(h, k), NEW i \in 1 .. Processors
  PROVE  BusyShare(h, i, k) \in Int
PROOF
  <1> DEFINE a == ReadBefore(h, k)
             b == LastRead(h, k)
             t == TicksIn(h, a, b)
             u == 100 * BusyIn(h, i, a, b)
  <1>1. k \in Nat /\ k <= Len(h) /\ Len(h) \in Nat   OBVIOUS
  <1>2. a \in 1 .. k /\ b \in 1 .. k /\ a < b   BY <1>1, LastReads
  <1>3. BusyShare(h, i, k) = IF t > 0 THEN u \div t ELSE 0   BY DEF BusyShare
  <1> HIDE DEF a, b
  <1>4. a \in 0 .. Len(h) /\ b \in 0 .. Len(h) /\ a <= b   BY <1>1, <1>2
  <1>5. t \in Int /\ BusyIn(h, i, a, b) \in Int
    <2>1. /\ t = TotalAt(h, b) - TotalAt(h, a)
          /\ BusyIn(h, i, a, b) = BusyAt(h, i, b) - BusyAt(h, i, a)
      BY <1>4, Between
    <2>2. /\ TotalAt(h, a) \in Int /\ TotalAt(h, b) \in Int
          /\ BusyAt(h, i, a) \in Int /\ BusyAt(h, i, b) \in Int
      BY <1>4, CountersTyped
    <2> HIDE DEF t
    <2> QED BY <2>1, <2>2
  <1>6. u \in Int   BY <1>5
  <1> HIDE DEF t, u
  <1> QED BY <1>3, <1>5, <1>6

LEMMA ShareStands ==
  ASSUME NEW h, NEW r, NEW g, NEW n, Extended(h, r, g, n), NEW k \in 0 .. n, Measured(h, k),
         NEW i \in 1 .. Processors
  PROVE  BusyShare(g, i, k) = BusyShare(h, i, k)
PROOF
  <1> DEFINE a == ReadBefore(h, k)
             b == LastRead(h, k)
  <1>1. k \in Nat /\ k <= n /\ n \in Nat   BY DEF Extended
  <1>2. a \in 1 .. k /\ b \in 1 .. k /\ a < b   BY <1>1, LastReads
  <1>3. ReadBefore(g, k) = a /\ LastRead(g, k) = b   BY PastStands
  <1> HIDE DEF a, b
  <1>4. a \in 0 .. n /\ b \in 0 .. n /\ a <= b   BY <1>1, <1>2
  <1>5. TicksIn(g, a, b) = TicksIn(h, a, b) /\ BusyIn(g, i, a, b) = BusyIn(h, i, a, b)
    BY <1>4, StretchStands
  <1> QED BY <1>3, <1>5 DEF BusyShare, a, b

(* A round adds a share to those of a line, or begins them anew.           *)
LEMMA SharesGrow ==
  ASSUME NEW h, NEW r, NEW g, NEW n, Extended(h, r, g, n), Ordered(g), Measured(g, n + 1),
         NEW i \in 1 .. Processors, NEW x, x = Sample(BusyShare(g, i, n + 1))
  PROVE  /\ Measured(h, n) /\ Lines(h, n) = Lines(g, n + 1) =>
              /\ BusyShares(h, i) \in Seq(Nat)
              /\ BusyShares(g, i) = Append(BusyShares(h, i), x)
         /\ ~ (Measured(h, n) /\ Lines(h, n) = Lines(g, n + 1)) =>
              BusyShares(g, i) = Append(<<>>, x)
PROOF
  <1> DEFINE v == [k \in {j \in DOMAIN h : Measured(h, j) /\ Lines(h, j) = Lines(h, n)} |->
                    Sample(BusyShare(h, i, k))]
             u == [k \in {j \in DOMAIN g : Measured(g, j) /\ Lines(g, j) = Lines(g, n + 1)} |->
                    Sample(BusyShare(g, i, k))]
             N == n + 1
  <1>1. /\ n \in Nat /\ DOMAIN h = 1 .. n /\ DOMAIN g = 1 .. (n + 1)
        /\ h \in Seq(Readings) /\ Len(h) = n /\ g \in Seq(Readings) /\ Len(g) = n + 1
    BY DEF Extended
  <1>2. BusyShares(h, i) = InOrder(v, n)   BY <1>1 DEF BusyShares
  <1>3. BusyShares(g, i) = InOrder(u, N)   BY <1>1 DEF BusyShares
  <1>4. /\ \A k : k \in DOMAIN u <=> k \in 1 .. N /\ Measured(g, k) /\ Lines(g, k) = Lines(g, N)
        /\ \A k \in DOMAIN u : u[k] = Sample(BusyShare(g, i, k))
        /\ \A k : k \in DOMAIN v <=> k \in 1 .. n /\ Measured(h, k) /\ Lines(h, k) = Lines(h, n)
        /\ \A k \in DOMAIN v : v[k] = Sample(BusyShare(h, i, k))
    BY <1>1
  <1>5. N \in 1 .. N /\ \A k \in 1 .. n : k \in 0 .. n /\ k \in 1 .. N   BY <1>1
  <1> HIDE DEF u, v
  <1>6. Valued(u, n + 1, Nat)
    <2> SUFFICES ASSUME NEW k \in 1 .. (n + 1), k \in DOMAIN u PROVE u[k] \in Nat
      BY DEF Valued
    <2>1. k \in 0 .. Len(g) /\ Measured(g, k)   BY <1>1, <1>4
    <2>2. BusyShare(g, i, k) \in Int   BY <1>1, <2>1, ShareTyped
    <2> QED BY <1>4, <2>2, SampleIs
  <1>7. N \in DOMAIN u /\ u[N] = x   BY <1>4, <1>5
  <1>8. \A k \in 1 .. n : /\ Measured(g, k) <=> Measured(h, k)
                          /\ Measured(h, k) => Lines(g, k) = Lines(h, k)
    BY <1>5, PastStands
  <1>9. ASSUME Measured(h, n), Lines(h, n) = Lines(g, N)
        PROVE  BusyShares(h, i) \in Seq(Nat) /\ BusyShares(g, i) = Append(BusyShares(h, i), x)
    <2>1. Agree(v, u, n)
      <3> SUFFICES ASSUME NEW k \in 1 .. n
                   PROVE  /\ k \in DOMAIN v <=> k \in DOMAIN u
                          /\ k \in DOMAIN v => v[k] = u[k]
        BY DEF Agree
      <3>1. k \in DOMAIN v <=> k \in DOMAIN u   BY <1>4, <1>5, <1>8, <1>9
      <3>2. ASSUME k \in DOMAIN v PROVE v[k] = u[k]
        <4>1. Measured(h, k) /\ k \in 0 .. n   BY <1>4, <1>5, <3>2
        <4>2. BusyShare(g, i, k) = BusyShare(h, i, k)   BY <4>1, ShareStands
        <4> QED BY <1>4, <3>1, <3>2, <4>2
      <3> QED BY <3>1, <3>2
    <2>2. /\ InOrder(v, n) \in Seq(Nat)
          /\ n + 1 \in DOMAIN u => InOrder(u, n + 1) = Append(InOrder(v, n), u[n + 1])
      BY <1>1, <1>6, <2>1, InOrderGrows
    <2> QED BY <1>2, <1>3, <1>7, <2>2
  <1>10. ASSUME ~ (Measured(h, n) /\ Lines(h, n) = Lines(g, N))
         PROVE  BusyShares(g, i) = Append(<<>>, x)
    <2>1. \A k \in 1 .. n : k \notin DOMAIN u
      <3> SUFFICES ASSUME NEW k \in 1 .. n, k \in DOMAIN u PROVE FALSE   OBVIOUS
      <3>1. Measured(g, k) /\ Lines(g, k) = Lines(g, N)   BY <1>4
      <3>2. /\ k \in 0 .. n /\ n \in 0 .. Len(g) /\ n \in 0 .. n
            /\ n \in 0 .. N /\ N \in 0 .. Len(g)
        BY <1>1
      <3>3. Measured(g, n) /\ Lines(g, k) <= Lines(g, n) /\ Lines(g, k) \in 0 .. Processors
        BY <1>1, <3>1, <3>2, LinesGrow
      <3>4. Lines(g, n) <= Lines(g, N) /\ Lines(g, n) \in 0 .. Processors
        BY <1>1, <3>2, <3>3, LinesGrow
      <3>5. Lines(g, n) = Lines(g, N)   BY <3>1, <3>3, <3>4
      <3>6. Measured(h, n) /\ Lines(g, n) = Lines(h, n)   BY <3>2, <3>3, PastStands
      <3> QED BY <1>10, <3>5, <3>6
    <2>2. InOrder(u, n) = <<>>   BY <1>1, <2>1, InOrderNone
    <2>3. Agree(u, u, n)   BY DEF Agree
    <2>4. n + 1 \in DOMAIN u => InOrder(u, n + 1) = Append(InOrder(u, n), u[n + 1])
      BY <1>1, <1>6, <2>3, InOrderGrows
    <2> QED BY <1>3, <1>7, <2>2, <2>4
  <1> QED BY <1>9, <1>10
-----------------------------------------------------------------------------
(* The processor time of the process.                                      *)
LEMMA AccountsGrow ==
  ASSUME NEW h, NEW r, NEW g, NEW n, Extended(h, r, g, n)
  PROVE  /\ Accounts(h) \subseteq 1 .. n /\ Accounts(g) \subseteq 1 .. (n + 1)
         /\ \A k \in 1 .. n : k \in Accounts(g) <=> k \in Accounts(h)
         /\ n + 1 \in Accounts(g) <=> r.rss # NoFile /\ r.cpu # NoFile
         /\ \A k \in 1 .. (n + 1) : {j \in Accounts(g) : j < k} = {j \in Accounts(h) : j < k}
         /\ \A k \in 1 .. (n + 1) : AccountBefore(g, k) = AccountBefore(h, k)
         /\ {j \in Accounts(h) : j < n + 1} = Accounts(h)
         /\ \A k \in Accounts(g) : g[k].cpu \in Nat
PROOF
  <1>1. /\ n \in Nat /\ DOMAIN h = 1 .. n /\ DOMAIN g = 1 .. (n + 1) /\ g[n + 1] = r
        /\ r \in Readings /\ \A k \in 1 .. n : g[k] = h[k] /\ h[k] \in Readings
    BY DEF Extended
  <1>2. n + 1 \in 1 .. (n + 1) /\ \A k \in 1 .. (n + 1) : k = n + 1 \/ k \in 1 .. n   BY <1>1
  <1>3. \A k \in 1 .. n : k \in 1 .. (n + 1)   BY <1>1
  <1>4. Accounts(h) \subseteq 1 .. n /\ Accounts(g) \subseteq 1 .. (n + 1)   BY <1>1 DEF Accounts
  <1>5. \A k \in 1 .. n : k \in Accounts(g) <=> k \in Accounts(h)   BY <1>1, <1>3 DEF Accounts
  <1>6. n + 1 \in Accounts(g) <=> r.rss # NoFile /\ r.cpu # NoFile   BY <1>1, <1>2 DEF Accounts
  <1>7. ASSUME NEW k \in 1 .. (n + 1)
        PROVE  {j \in Accounts(g) : j < k} = {j \in Accounts(h) : j < k}
    <2>1. \A j \in 1 .. (n + 1) : j < k => j \in 1 .. n   BY <1>1
    <2>2. \A j : j \in Accounts(g) /\ j < k <=> j \in Accounts(h) /\ j < k
      BY <1>3, <1>4, <1>5, <2>1
    <2> QED BY <2>2
  <1>8. \A k \in 1 .. (n + 1) : AccountBefore(g, k) = AccountBefore(h, k)
    BY <1>7 DEF AccountBefore
  <1>9. {j \in Accounts(h) : j < n + 1} = Accounts(h)
    <2>1. \A j \in 1 .. n : j < n + 1   BY <1>1
    <2> QED BY <1>4, <2>1
  <1>10. \A k \in Accounts(g) : g[k].cpu \in Nat
    <2>1. \A k \in 1 .. (n + 1) : g[k] \in Readings   BY <1>1, <1>2
    <2> QED BY <1>1, <2>1, MonitorAssumption DEF Accounts
  <1> QED BY <1>4, <1>5, <1>6, <1>7, <1>8, <1>9, <1>10

LEMMA StretchTyped ==
  ASSUME NEW h \in Seq(Readings), NEW a \in 0 .. Len(h), NEW b \in 0 .. Len(h), a <= b
  PROVE  TicksIn(h, a, b) \in Int
PROOF
  <1>1. TicksIn(h, a, b) = TotalAt(h, b) - TotalAt(h, a)   BY Between
  <1>2. TotalAt(h, a) \in Int /\ TotalAt(h, b) \in Int   BY CountersTyped
  <1> QED BY <1>1, <1>2

(* The rounds compared so far, and whether the last one is.                *)
LEMMA ComparedGrows ==
  ASSUME NEW h, NEW r, NEW g, NEW n, Extended(h, r, g, n)
  PROVE  /\ Compared(h) \subseteq 1 .. n /\ Compared(g) \subseteq 1 .. (n + 1)
         /\ \A k \in Compared(g) : Used(g, k) \in Int /\ Passed(g, k) \in Int /\ Passed(g, k) > 0
         /\ \A k \in 1 .. n :
              /\ k \in Compared(g) <=> k \in Compared(h)
              /\ k \in Compared(h) => Used(g, k) = Used(h, k) /\ Passed(g, k) = Passed(h, k)
PROOF
  <1>1. /\ n \in Nat /\ DOMAIN h = 1 .. n /\ DOMAIN g = 1 .. (n + 1)
        /\ h \in Seq(Readings) /\ Len(h) = n /\ g \in Seq(Readings) /\ Len(g) = n + 1
        /\ \A k \in 1 .. n : g[k] = h[k]
    BY DEF Extended
  <1>2. Compared(h) \subseteq Accounts(h) /\ Compared(g) \subseteq Accounts(g)   BY DEF Compared
  <1>3. Compared(h) \subseteq 1 .. n /\ Compared(g) \subseteq 1 .. (n + 1)
    BY <1>2, AccountsGrow
  <1>4. ASSUME NEW k \in 1 .. (n + 1), {j \in Accounts(g) : j < k} # {}
        PROVE  /\ AccountBefore(g, k) \in Accounts(g) /\ AccountBefore(g, k) \in 1 .. n
               /\ AccountBefore(g, k) < k
    <2> DEFINE B == {j \in Accounts(g) : j < k}
    <2>1. \A j \in 1 .. (n + 1) : j < k => j \in 0 .. n /\ j \in 1 .. n   BY <1>1
    <2>2. Accounts(g) \subseteq 1 .. (n + 1)   BY AccountsGrow
    <2>3. B \subseteq 0 .. n /\ B # {}   BY <1>4, <2>1, <2>2
    <2>4. AccountBefore(g, k) = Max(B)   BY DEF AccountBefore
    <2>5. Max(B) \in B
      <3> HIDE DEF B
      <3> QED BY <1>1, <2>3, GreatestOf
    <2> QED BY <2>1, <2>2, <2>4, <2>5
  <1>5. ASSUME NEW k \in Compared(g)
        PROVE  Used(g, k) \in Int /\ Passed(g, k) \in Int /\ Passed(g, k) > 0
    <2> DEFINE p == AccountBefore(g, k)
    <2>1. k \in Accounts(g) /\ k \in 1 .. (n + 1) /\ {j \in Accounts(g) : j < k} # {}
          /\ Passed(g, k) > 0
      BY <1>2, <1>3, <1>5 DEF Compared
    <2>2. p \in Accounts(g) /\ p \in 1 .. n /\ p < k   BY <1>4, <2>1
    <2>3. Used(g, k) = g[k].cpu - g[p].cpu /\ Passed(g, k) = TicksIn(g, p, k)
      BY DEF Used, Passed
    <2> HIDE DEF p
    <2>4. g[k].cpu \in Nat /\ g[p].cpu \in Nat   BY <2>1, <2>2, AccountsGrow
    <2>5. Used(g, k) \in Int   BY <2>3, <2>4
    <2>6. p \in 0 .. Len(g) /\ k \in 0 .. Len(g) /\ p <= k   BY <1>1, <2>1, <2>2
    <2>7. Passed(g, k) \in Int   BY <1>1, <2>3, <2>6, StretchTyped
    <2> QED BY <2>1, <2>5, <2>7
  <1>6. ASSUME NEW k \in 1 .. n
        PROVE  /\ k \in Compared(g) <=> k \in Compared(h)
               /\ k \in Compared(h) => Used(g, k) = Used(h, k) /\ Passed(g, k) = Passed(h, k)
    <2> DEFINE p == AccountBefore(g, k)
               B == {j \in Accounts(g) : j < k}
               C == {j \in Accounts(h) : j < k}
    <2>1. k \in 1 .. (n + 1) /\ k \in 0 .. n   BY <1>1
    <2>2. /\ k \in Accounts(g) <=> k \in Accounts(h)
          /\ B = C /\ AccountBefore(h, k) = p
      BY <2>1, AccountsGrow
    <2>3. k \in Compared(g) <=> /\ k \in Accounts(g) /\ B # {} /\ g[p].cpu # 0
                                /\ Used(g, k) >= 0 /\ Passed(g, k) > 0
      BY DEF Compared
    <2>4. k \in Compared(h) <=> /\ k \in Accounts(h) /\ C # {} /\ h[AccountBefore(h, k)].cpu # 0
                                /\ Used(h, k) >= 0 /\ Passed(h, k) > 0
      BY DEF Compared
    <2>5. B # {} => p \in 1 .. n /\ p < k   BY <1>4, <2>1
    <2>6. /\ Used(g, k) = g[k].cpu - g[p].cpu /\ Used(h, k) = h[k].cpu - h[AccountBefore(h, k)].cpu
          /\ Passed(g, k) = TicksIn(g, p, k) /\ Passed(h, k) = TicksIn(h, AccountBefore(h, k), k)
      BY DEF Used, Passed
    <2> HIDE DEF p, B, C
    <2>7. ASSUME B # {}
          PROVE  Used(g, k) = Used(h, k) /\ Passed(g, k) = Passed(h, k) /\ g[p] = h[p]
      <3>1. p \in 0 .. n /\ p <= k   BY <1>1, <2>5, <2>7
      <3>2. TicksIn(g, p, k) = TicksIn(h, p, k)   BY <2>1, <3>1, StretchStands
      <3>3. g[p] = h[p] /\ g[k] = h[k]   BY <1>1, <2>5, <2>7
      <3> QED BY <2>2, <2>6, <3>2, <3>3
    <2> QED BY <2>2, <2>3, <2>4, <2>7
  <1> QED BY <1>3, <1>5, <1>6

LEMMA ProcessSharesGrow ==
  ASSUME NEW h, NEW r, NEW g, NEW n, Extended(h, r, g, n)
  PROVE  /\ ProcessShares(h) \in Seq(Nat)
         /\ n + 1 \in Compared(g) =>
              ProcessShares(g) = Append(ProcessShares(h),
                                        Sample((100 * Used(g, n + 1)) \div Passed(g, n + 1)))
         /\ n + 1 \notin Compared(g) => ProcessShares(g) = ProcessShares(h)
PROOF
  <1> DEFINE Of(f, k) == Sample((100 * Used(f, k)) \div Passed(f, k))
             v == [k \in Compared(h) |-> Of(h, k)]
             u == [k \in Compared(g) |-> Of(g, k)]
  <1>1. n \in Nat /\ Len(h) = n /\ Len(g) = n + 1   BY DEF Extended
  <1>2. ProcessShares(h) = InOrder(v, n) /\ ProcessShares(g) = InOrder(u, n + 1)
    BY <1>1 DEF ProcessShares
  <1>3. /\ DOMAIN v = Compared(h) /\ DOMAIN u = Compared(g)
        /\ \A k \in DOMAIN v : v[k] = Of(h, k)
        /\ \A k \in DOMAIN u : u[k] = Of(g, k)
    OBVIOUS
  <1> HIDE DEF u, v
  <1>4. ASSUME NEW k \in Compared(g) PROVE Of(g, k) \in Nat
    <2> DEFINE x == 100 * Used(g, k)
               y == Passed(g, k)
    <2>1. x \in Int /\ y \in Int /\ y > 0
      <3>1. Used(g, k) \in Int /\ y \in Int /\ y > 0   BY ComparedGrows
      <3> HIDE DEF y
      <3> QED BY <3>1
    <2> HIDE DEF x, y
    <2>2. x \div y \in Int   BY <2>1
    <2> QED BY <2>2, SampleIs DEF x, y
  <1>5. Valued(u, n + 1, Nat)   BY <1>3, <1>4 DEF Valued
  <1>6. \A k \in 1 .. n : /\ k \in Compared(g) <=> k \in Compared(h)
                          /\ k \in Compared(h) => Of(g, k) = Of(h, k)
    BY ComparedGrows
  <1> HIDE DEF Of
  <1>7. Agree(v, u, n)   BY <1>3, <1>6 DEF Agree
  <1>8. /\ InOrder(v, n) \in Seq(Nat)
        /\ InOrder(u, n + 1) =
             IF n + 1 \in DOMAIN u THEN Append(InOrder(v, n), u[n + 1]) ELSE InOrder(v, n)
    BY <1>1, <1>5, <1>7, InOrderGrows
  <1> QED BY <1>2, <1>3, <1>8 DEF Of
-----------------------------------------------------------------------------
(* The invariant: the counters of the machine and the snapshots of them    *)
(* are those of the history, the windows hold what it gives, the process   *)
(* was last accounted for in the last round that could, and the events are *)
(* those of the windows.                                                   *)
CountersOf(h, k, n) ==
  [i \in 1 .. n |-> Line(TotalAt(h, k), TotalAt(h, k) - BusyAt(h, i, k))]
StatOf(h, k) == CountersOf(h, k, h[k].lines)

TimesFollow(times, h, n) ==
  /\ Measured(h, n) => times = <<StatOf(h, ReadBefore(h, n)), StatOf(h, LastRead(h, n))>>
  /\ ~ Measured(h, n) /\ Reads(h, n) # {} => times = <<StatOf(h, LastRead(h, n))>>
  /\ ~ Measured(h, n) /\ Reads(h, n) = {} => times = <<>>

UsagesHold(windows, h, n) ==
  /\ Measured(h, n) =>
       /\ Len(windows) = Lines(h, n) /\ DOMAIN windows = 1 .. Lines(h, n)
       /\ \A i \in 1 .. Lines(h, n) : /\ BusyShares(h, i) \in Seq(Nat)
                                      /\ Holds(MonitorWindow, windows[i], BusyShares(h, i))
  /\ ~ Measured(h, n) => windows = <<>>

LastAccount(h) == Max(Accounts(h))

AccountOf(h, n, ticks, elapsed) ==
  /\ Accounts(h) = {} => ticks = 0
  /\ Accounts(h) # {} => /\ ticks = h[LastAccount(h)].cpu
                         /\ elapsed = TicksIn(h, LastAccount(h), n)

HistoryTyped == history \in Seq(Readings) /\ Ordered(history)

CpuFollows ==
  /\ counters = CountersOf(history, Len(history), Processors)
  /\ TimesFollow(cpus_times, history, Len(history))
  /\ UsagesHold(cpu_usage_w, history, Len(history))
  /\ latest_cpus_usage = cpu_usage_w

MemoryFollows == Holds(MonitorWindow, mem_usage_w, Memories(history))

TemperatureFollows ==
  /\ history = <<>> => thermal_zones = "unknown"
  /\ history # <<>> => thermal_zones = IF history[1].zones = TRUE THEN "found" ELSE "none"
  /\ Holds(MonitorWindow, temperature_w, Temperatures(history))
  /\ latest_temperature = temperature_w

ProcessFollows ==
  /\ DOMAIN process = {"last_total_ticks", "elapsed", "returned", "cpu_percentage_w",
                       "memory_percentage_w"}
  /\ AccountOf(history, Len(history), process.last_total_ticks, process.elapsed)
  /\ Holds(MonitorWindow, process.cpu_percentage_w, ProcessShares(history))
  /\ Holds(MonitorWindow, process.memory_percentage_w, ProcessMemories(history))

LoadEventsFollow ==
  history # <<>> =>
    reported = {<<"CPU_USAGE_TOO_HIGH", i>> :
                  i \in {j \in DOMAIN latest_cpus_usage : MeanExceeds(latest_cpus_usage[j], cpu_threshold)}}
                 \cup (IF MeanExceeds(mem_usage_w, mem_threshold)
                       THEN {<<"MEM_USAGE_TOO_HIGH", 0>>} ELSE {})

MonitorInv ==
  /\ HistoryTyped
  /\ CpuFollows
  /\ MemoryFollows
  /\ TemperatureFollows
  /\ ProcessFollows
  /\ LoadEventsFollow

-----------------------------------------------------------------------------
(* A round makes the history longer.                                       *)
LEMMA RoundExtends ==
  ASSUME HistoryTyped, NEW r \in Readings, Round(r)
  PROVE  Extended(history, r, history', Len(history)) /\ HistoryTyped'
PROOF
  <1> DEFINE h == history
             g == history'
             n == Len(history)
  <1>1. Extended(h, r, g, n)   BY ExtendedBy DEF HistoryTyped, Round
  <1>2. h # <<>> => r.lines >= h[n].lines   BY DEF Round, Last
  <1>3. /\ n \in Nat /\ DOMAIN h = 1 .. n /\ DOMAIN g = 1 .. (n + 1) /\ g[n + 1] = r
        /\ r \in Readings /\ h \in Seq(Readings) /\ g \in Seq(Readings)
        /\ \A k \in 1 .. n : g[k] = h[k] /\ h[k] \in Readings
    BY <1>1 DEF Extended
  <1>4. \A j, k \in 1 .. n : j <= k => h[j].lines <= h[k].lines
    BY <1>3 DEF HistoryTyped, Ordered
  <1>5. h = <<>> => n = 0   OBVIOUS
  <1> HIDE DEF h, g, n
  <1>6. r.lines \in Int /\ \A k \in 1 .. n : h[k].lines \in Int   BY <1>3, MonitorAssumption
  <1>7. ASSUME NEW j \in 1 .. (n + 1), NEW k \in 1 .. (n + 1), j <= k
        PROVE  g[j].lines <= g[k].lines
    <2>1. CASE k \in 1 .. n
      <3>1. j \in 1 .. n   BY <1>3, <1>7, <2>1
      <3> QED BY <1>3, <1>4, <1>7, <2>1, <3>1
    <2>2. CASE j = n + 1 /\ k = n + 1   BY <1>3, <1>6, <2>2
    <2>3. CASE j \in 1 .. n /\ k = n + 1
      <3>1. n \in 1 .. n /\ j <= n /\ h # <<>>   BY <1>3, <1>5, <2>3
      <3>2. h[j].lines <= h[n].lines   BY <1>4, <2>3, <3>1
      <3>3. h[j].lines <= r.lines   BY <1>2, <1>6, <2>3, <3>1, <3>2
      <3> QED BY <1>3, <2>3, <3>3
    <2> QED BY <1>3, <1>7, <2>1, <2>2, <2>3
  <1>8. Ordered(g)   BY <1>3, <1>7 DEF Ordered
  <1> QED BY <1>1, <1>3, <1>8 DEF HistoryTyped, h, g, n

LEMMA MemoryStep ==
  ASSUME MonitorInv, NEW r \in Readings, Round(r)
  PROVE  MemoryFollows'
PROOF
  <1> DEFINE h == history
             g == history'
             n == Len(history)
             s == FoundMemories(h)
             x == MemoryIn(r)
             w == mem_usage_w
             next == mem_usage_w'
  <1>1. Extended(h, r, g, n)   BY RoundExtends DEF MonitorInv
  <1>2. Memories(h) = Samples(s) /\ Memories(g) = Samples(FoundMemories(g))
    BY DEF Memories, FoundMemories, MemoryIn
  <1>3. Holds(MonitorWindow, w, Memories(h))   BY DEF MonitorInv, MemoryFollows
  <1>4. next = IF r.mem = NoFile THEN w ELSE push(w, MemUsage(r.mem))
    BY DEF Round, monitor, computeMemUsage
  <1>5. x = NoFile <=> r.mem = NoFile   BY ReadingFinds
  <1>6. next = IF x = NoFile THEN w ELSE push(w, x)   BY <1>4, <1>5 DEF MemoryIn
  <1> HIDE DEF h, g, n, s, x, w, next
  <1>7. s \in Seq(Findable) /\ x \in Findable /\ FoundMemories(g) = Append(s, x)
    BY <1>1, FoundGrows DEF s, x
  <1>8. Holds(MonitorWindow, next, Samples(Append(s, x)))
    BY <1>2, <1>3, <1>6, <1>7, SampledHolds
  <1>9. Holds(MonitorWindow, next, Memories(g))   BY <1>2, <1>7, <1>8
  <1> QED BY <1>9 DEF MemoryFollows, g, next

LEMMA EventsStep ==
  ASSUME NEW r \in Readings, Round(r)
  PROVE  LoadEventsFollow'
PROOF BY DEF Round, checkHardware, LoadEventsFollow

(* The zones are those of the first round.                                 *)
LEMMA TemperatureStep ==
  ASSUME MonitorInv, NEW r \in Readings, Round(r)
  PROVE  TemperatureFollows'
PROOF
  <1> DEFINE h == history
             g == history'
             n == Len(history)
             s == FoundTemperatures(h)
             t == FoundTemperatures(g)
             w == temperature_w
             next == temperature_w'
             zones == thermal_zones
             after == thermal_zones'
             found == g[1].zones = TRUE
  <1>1. Extended(h, r, g, n)   BY RoundExtends DEF MonitorInv
  <1>2. Temperatures(h) = IF h # <<>> /\ h[1].zones THEN Samples(s) ELSE <<>>
    BY DEF Temperatures, FoundTemperatures
  <1>3. Temperatures(g) = IF g # <<>> /\ g[1].zones THEN Samples(t) ELSE <<>>
    BY DEF Temperatures, FoundTemperatures
  <1>4. /\ h = <<>> => zones = "unknown"
        /\ h # <<>> => zones = IF h[1].zones = TRUE THEN "found" ELSE "none"
        /\ Holds(MonitorWindow, w, Temperatures(h)) /\ latest_temperature = w
    BY DEF MonitorInv, TemperatureFollows
  <1>5. /\ after = IF zones # "unknown" THEN zones ELSE IF r.zones THEN "found" ELSE "none"
        /\ next = IF after = "found" /\ r.temp # NoFile THEN push(w, r.temp) ELSE w
        /\ latest_temperature' = IF after = "found" /\ r.temp # NoFile THEN next ELSE latest_temperature
    BY DEF Round, monitor, computeTemperature
  <1>6. r.zones \in BOOLEAN /\ r.temp \in Findable   BY ReadingFinds, MonitorAssumption
  <1>7. /\ n \in Nat /\ h = <<>> => n = 0
        /\ n = 0 => h = <<>>
        /\ g # <<>> /\ g[n + 1] = r /\ \A k \in 1 .. n : g[k] = h[k] /\ h[k] \in Readings
    <2>1. h \in Seq(Readings) /\ Len(h) = n /\ g \in Seq(Readings) /\ Len(g) = n + 1 /\ n \in Nat
      BY <1>1 DEF Extended
    <2>2. g # <<>> /\ (n = 0 <=> h = <<>>)
      <3> HIDE DEF h, g, n
      <3> QED BY <2>1, EmptySeq
    <2> QED BY <1>1, <2>1, <2>2 DEF Extended
  <1> HIDE DEF h, g, n, w, next, zones, after
  <1>8. s \in Seq(Findable) /\ t = Append(s, r.temp)   BY <1>1, FoundGrows
  <1>9. h = <<>> => s = <<>>   BY DEF FoundTemperatures
  <1>10. n \in Nat /\ (h = <<>> <=> n = 0)   BY <1>1, <1>7 DEF Extended
  <1>11. h = <<>> => g[1] = r   BY <1>7, <1>10
  <1>12. h # <<>> => g[1] = h[1] /\ h[1] \in Readings   BY <1>7, <1>10
  <1>13. g[1].zones \in BOOLEAN /\ (h # <<>> => h[1].zones \in BOOLEAN)
    BY <1>6, <1>11, <1>12, MonitorAssumption
  <1>14. after = IF found THEN "found" ELSE "none"
    <2>1. CASE h = <<>>   BY <1>4, <1>5, <1>6, <1>11, <2>1
    <2>2. CASE h # <<>>   BY <1>4, <1>5, <1>12, <2>2
    <2> QED BY <2>1, <2>2
  <1> HIDE DEF s, t
  <1>15. Holds(MonitorWindow, next, Temperatures(g))
    <2>1. CASE found
      <3>1. Temperatures(g) = Samples(t)   BY <1>3, <1>7, <2>1
      <3>2. Temperatures(h) = Samples(s)
        <4>1. CASE h = <<>>   BY <1>2, <1>9, <4>1, NoSamples
        <4>2. CASE h # <<>>   BY <1>2, <1>12, <2>1, <4>2
        <4> QED BY <4>1, <4>2
      <3>3. next = IF r.temp = NoFile THEN w ELSE push(w, r.temp)   BY <1>5, <1>14, <2>1
      <3> QED BY <1>4, <1>6, <1>8, <3>1, <3>2, <3>3, SampledHolds
    <2>2. CASE ~ found
      <3>1. Temperatures(g) = <<>>   BY <1>3, <1>13, <2>2
      <3>2. Temperatures(h) = <<>>   BY <1>2, <1>12, <1>13, <2>2
      <3>3. next = w   BY <1>5, <1>14, <2>2
      <3> QED BY <1>4, <3>1, <3>2, <3>3
    <2> QED BY <2>1, <2>2
  <1>16. latest_temperature' = next   BY <1>4, <1>5
  <1> QED BY <1>7, <1>14, <1>15, <1>16 DEF TemperatureFollows, g, next, after

-----------------------------------------------------------------------------
(* A snapshot is what the counters were.                                   *)
LEMMA StatStands ==
  ASSUME NEW h, NEW r, NEW g, NEW n, Extended(h, r, g, n), NEW k \in 1 .. n
  PROVE  StatOf(g, k) = StatOf(h, k)
PROOF
  <1>1. /\ n \in Nat /\ g[k] = h[k] /\ h[k] \in Readings   BY DEF Extended
  <1>2. k \in 0 .. n   BY <1>1
  <1>3. h[k].lines \in 0 .. Processors /\ Processors \in Nat   BY <1>1, MonitorAssumption
  <1> DEFINE l == h[k].lines
  <1>4. g[k].lines = l /\ \A i \in 1 .. l : i \in 1 .. Processors   BY <1>1, <1>3
  <1> HIDE DEF l
  <1>5. TotalAt(g, k) = TotalAt(h, k) /\ \A i \in 1 .. Processors : BusyAt(g, i, k) = BusyAt(h, i, k)
    BY <1>2, CountersGrow
  <1>6. CountersOf(g, k, l) = CountersOf(h, k, l)   BY <1>4, <1>5 DEF CountersOf
  <1> QED BY <1>4, <1>6 DEF StatOf, l

LEMMA PairIs ==
  ASSUME NEW a, NEW c
  PROVE  Append(<<a>>, c) = <<a, c>>
PROOF
  <1> DEFINE S == {a, c}
             s == <<a>>
             t == <<a, c>>
             e == Append(s, c)
  <1>1. s \in Seq(S) /\ Len(s) = 1 /\ s[1] = a   OBVIOUS
  <1>2. t \in Seq(S) /\ Len(t) = 2 /\ t[1] = a /\ t[2] = c   OBVIOUS
  <1>3. c \in S   OBVIOUS
  <1> HIDE DEF S, s, t
  <1>4. e \in Seq(S) /\ Len(e) = 2 /\ e[2] = c /\ e[1] = s[1]
    <2>1. e \in Seq(S) /\ Len(e) = Len(s) + 1   BY <1>1, <1>3, AppendProperties
    <2>2. e[Len(s) + 1] = c   BY <1>1, <1>3, AppendProperties
    <2>3. \A i \in 1 .. Len(s) : e[i] = s[i]   BY SMTT(30), <1>1, <1>3, AppendProperties
    <2> HIDE DEF e
    <2> QED BY <1>1, <2>1, <2>2, <2>3
  <1> HIDE DEF e
  <1>5. \A i \in 1 .. Len(e) : e[i] = t[i]   BY <1>1, <1>2, <1>4
  <1>6. e = t   BY <1>2, <1>4, <1>5, SeqEqual
  <1> QED BY <1>6 DEF e, s, t

LEMMA OnlyIs ==
  ASSUME NEW s, NEW a, NEW c, s = <<a>>
  PROVE  Len(s) = 1 /\ Append(s, c) = <<a, c>>
PROOF
  <1>1. Len(s) = 1   OBVIOUS
  <1>2. Append(<<a>>, c) = <<a, c>>   BY PairIs
  <1> QED BY <1>1, <1>2

LEMMA NoneIs ==
  ASSUME NEW s, NEW c, s = <<>>
  PROVE  Len(s) = 0 /\ Append(s, c) = <<c>>
PROOF OBVIOUS

LEMMA TwoAre ==
  ASSUME NEW s, NEW a, NEW b, s = <<a, b>>
  PROVE  Len(s) = 2 /\ Head(s) = a /\ Last(s) = b /\ Tail(s) = <<b>>
PROOF
  <1> DEFINE t == Tail(s)
             S == {a, b}
  <1>1. s \in Seq(S) /\ s # <<>> /\ Len(s) = 2 /\ s[1] = a /\ s[2] = b   OBVIOUS
  <1>2. Head(s) = a   OBVIOUS
  <1>3. Last(s) = b   BY <1>1 DEF Last
  <1>4. t \in Seq(S) /\ Len(t) = Len(s) - 1 /\ \A i \in 1 .. Len(t) : t[i] = s[i + 1]
    <2> HIDE DEF t, S
    <2> QED BY <1>1, HeadTailProperties DEF t
  <1> HIDE DEF t
  <1>5. Len(t) = 1 /\ t[1] = b   BY <1>1, <1>4
  <1>6. <<b>> \in Seq(S) /\ Len(<<b>>) = 1   OBVIOUS
  <1> HIDE DEF S
  <1>7. \A i \in 1 .. Len(t) : t[i] = <<b>>[i]   BY <1>5
  <1>8. t = <<b>>   BY <1>4, <1>5, <1>6, <1>7, SeqEqual
  <1> QED BY <1>1, <1>2, <1>3, <1>8 DEF t

LEMMA SnapshotsStep ==
  ASSUME MonitorInv, NEW r \in Readings, Round(r)
  PROVE  /\ counters' = CountersOf(history', Len(history) + 1, Processors)
         /\ TimesFollow(cpus_times', history', Len(history) + 1)
PROOF
  <1> DEFINE h == history
             g == history'
             n == Len(history)
             N == n + 1
             all == counters'
             now == SubSeq(counters', 1, r.lines)
             old == cpus_times
             times == cpus_times'
  <1>1. Extended(h, r, g, n)   BY RoundExtends DEF MonitorInv
  <1>2. /\ n \in Nat /\ N \in Nat /\ g[N] = r /\ h \in Seq(Readings) /\ Len(h) = n
    BY <1>1 DEF Extended
  <1>3. counters = CountersOf(h, n, Processors) /\ TimesFollow(old, h, n)
    BY DEF MonitorInv, CpuFollows
  <1>4. /\ all = Ticked(r)
        /\ times = readProcStat(now, r)
    BY DEF Round, monitor
  <1>5. /\ r.lines \in 0 .. Processors /\ Processors \in Nat /\ r.ticks \in Int
        /\ r.busy \in [1 .. Processors -> Int] /\ r.stat \in BOOLEAN
    BY MonitorAssumption
  <1> HIDE DEF h, g, n, all, old, times
  <1>6. all = CountersOf(g, N, Processors)
    <2> DEFINE T == TotalAt(h, n)
               B(i) == BusyAt(h, i, n)
    <2>1. /\ TotalAt(g, N) = T + r.ticks
          /\ \A i \in 1 .. Processors : BusyAt(g, i, N) = B(i) + r.busy[i]
      BY <1>1, CountersGrow
    <2>2. n \in 0 .. Len(h)   BY <1>2
    <2>3. T \in Int /\ \A i \in 1 .. Processors : B(i) \in Int   BY <1>2, <2>2, CountersTyped
    <2>4. all = [i \in 1 .. Processors |->
                  Line(counters[i].total + r.ticks, counters[i].idle + r.ticks - r.busy[i])]
      BY <1>4 DEF Ticked
    <2>5. \A i \in 1 .. Processors : counters[i].total = T /\ counters[i].idle = T - B(i)
      BY <1>3 DEF CountersOf, Line
    <2>6. CountersOf(g, N, Processors) =
            [i \in 1 .. Processors |-> Line(TotalAt(g, N), TotalAt(g, N) - BusyAt(g, i, N))]
      BY DEF CountersOf
    <2> HIDE DEF T, B, N
    <2>7. \A i \in 1 .. Processors :
            /\ counters[i].total + r.ticks = TotalAt(g, N)
            /\ counters[i].idle + r.ticks - r.busy[i] = TotalAt(g, N) - BusyAt(g, i, N)
      <3> TAKE i \in 1 .. Processors
      <3> DEFINE u == r.busy[i]
                 v == r.ticks
      <3>1. u \in Int /\ v \in Int /\ T \in Int /\ B(i) \in Int   BY <1>5, <2>3
      <3>2. counters[i].total = T /\ counters[i].idle = T - B(i)   BY <2>5
      <3>3. TotalAt(g, N) = T + v /\ BusyAt(g, i, N) = B(i) + u   BY <2>1
      <3> HIDE DEF u, v
      <3>4. counters[i].idle + v - u = TotalAt(g, N) - BusyAt(g, i, N)   BY <3>1, <3>2, <3>3
      <3> QED BY <3>2, <3>3, <3>4 DEF u, v
    <2> QED BY <2>4, <2>6, <2>7
  <1>7. now = StatOf(g, N)
    <2> DEFINE l == r.lines
               c == CountersOf(g, N, Processors)
    <2>1. l \in Nat /\ l <= Processors /\ Processors \in Nat   BY <1>5
    <2> HIDE DEF l
    <2>2. \A i \in 1 .. l : i \in 1 .. Processors /\ 1 + i - 1 = i   BY <2>1
    <2>3. \A i \in 1 .. Processors : c[i] = Line(TotalAt(g, N), TotalAt(g, N) - BusyAt(g, i, N))
      BY DEF CountersOf
    <2>4. SubSeq(c, 1, l) = [i \in 1 .. l |-> c[i]]
      <3> HIDE DEF c
      <3> DEFINE S == {c[i] : i \in 1 .. l}
                 e == SubSeq(c, 1, l)
      <3>1. \A i \in 1 .. l : c[i] \in S   OBVIOUS
      <3> HIDE DEF S
      <3>2. /\ e \in Seq(S) /\ Len(e) = (IF 1 <= l THEN l - 1 + 1 ELSE 0)
            /\ \A i \in 1 .. l - 1 + 1 : e[i] = c[1 + i - 1]
        BY <2>1, <3>1, SubSeqProperties
      <3> HIDE DEF e
      <3>3. Len(e) = l /\ l - 1 + 1 = l   BY <2>1, <3>2
      <3>4. e \in [1 .. l -> S]   BY <3>2, <3>3
      <3>5. \A i \in 1 .. l : e[i] = c[i]   BY <2>2, <3>2, <3>3
      <3>6. e = [i \in 1 .. l |-> e[i]]   BY <3>4
      <3> QED BY <3>5, <3>6 DEF e
    <2>5. StatOf(g, N) = CountersOf(g, N, l)   BY <1>2 DEF StatOf, l
    <2>6. CountersOf(g, N, l) = [i \in 1 .. l |-> c[i]]   BY <2>2, <2>3 DEF CountersOf
    <2>7. now = SubSeq(c, 1, l)   BY <1>6 DEF all, l
    <2> QED BY <2>4, <2>5, <2>6, <2>7
  <1> HIDE DEF now, N
  <1>8. n \in Nat /\ N = n + 1   BY <1>2 DEF N
  <1>9. /\ Reads(h, n) \subseteq 1 .. n
        /\ Reads(h, n) # {} => LastRead(h, n) \in 1 .. n
        /\ Measured(h, n) => Reads(h, n) # {} /\ ReadBefore(h, n) \in 1 .. n
    BY <1>8, LastReads
  <1>10. \A k \in 1 .. n : StatOf(g, k) = StatOf(h, k)   BY <1>1, StatStands
  <1>11. ASSUME r.stat PROVE TimesFollow(times, g, N)
    <2>1. times = IF Len(old) = 2 THEN Append(Tail(old), now) ELSE Append(old, now)
      BY <1>4, <1>11 DEF readProcStat, old
    <2>2. /\ Reads(g, N) # {} /\ LastRead(g, N) = N
          /\ Measured(g, N) <=> Reads(h, n) # {}
          /\ Reads(h, n) # {} => ReadBefore(g, N) = LastRead(h, n)
      BY <1>1, <1>8, <1>11, NowReads
    <2>3. CASE Measured(h, n)
      <3>1. old = <<StatOf(h, ReadBefore(h, n)), StatOf(h, LastRead(h, n))>>
        BY <1>3, <2>3 DEF TimesFollow
      <3>2. Len(old) = 2 /\ Append(Tail(old), now) = <<StatOf(h, LastRead(h, n)), now>>
        <4> DEFINE P == StatOf(h, ReadBefore(h, n))
                   Q == StatOf(h, LastRead(h, n))
        <4>1. old = <<P, Q>>   BY <3>1
        <4> HIDE DEF P, Q
        <4>2. Len(old) = 2 /\ Tail(old) = <<Q>>   BY <4>1, TwoAre
        <4>3. Append(<<Q>>, now) = <<Q, now>>   BY PairIs
        <4> QED BY <4>2, <4>3 DEF Q
      <3>3. StatOf(h, LastRead(h, n)) = StatOf(g, LastRead(h, n))   BY <1>9, <1>10, <2>3
      <3>4. times = <<StatOf(h, LastRead(h, n)), now>>   BY <2>1, <3>2
      <3> QED BY <1>7, <1>9, <2>2, <2>3, <3>3, <3>4 DEF TimesFollow
    <2>4. CASE ~ Measured(h, n) /\ Reads(h, n) # {}
      <3>1. old = <<StatOf(h, LastRead(h, n))>>   BY <1>3, <2>4 DEF TimesFollow
      <3>2. Len(old) = 1 /\ Append(old, now) = <<StatOf(h, LastRead(h, n)), now>>   BY <3>1, OnlyIs
      <3>3. times = <<StatOf(h, LastRead(h, n)), now>>   BY <2>1, <3>2
      <3>4. StatOf(h, LastRead(h, n)) = StatOf(g, LastRead(h, n))   BY <1>9, <1>10, <2>4
      <3> QED BY <1>7, <2>2, <2>4, <3>3, <3>4 DEF TimesFollow
    <2>5. CASE ~ Measured(h, n) /\ Reads(h, n) = {}
      <3>1. old = <<>>   BY <1>3, <2>5 DEF TimesFollow
      <3>2. Len(old) = 0 /\ Append(old, now) = <<now>>   BY <3>1, NoneIs
      <3>3. times = <<now>>   BY <2>1, <3>2
      <3> QED BY <1>7, <2>2, <2>5, <3>3 DEF TimesFollow
    <2> QED BY <2>3, <2>4, <2>5
  <1>12. ASSUME ~ r.stat PROVE TimesFollow(times, g, N)
    <2>1. times = old   BY <1>4, <1>12 DEF readProcStat, old
    <2>2. /\ Reads(g, N) = Reads(h, n) /\ LastRead(g, N) = LastRead(h, n)
          /\ Measured(g, N) <=> Measured(h, n)
          /\ ReadBefore(g, N) = ReadBefore(h, n)
      BY <1>1, <1>8, <1>12, NowReads
    <2>3. /\ Reads(h, n) # {} => StatOf(g, LastRead(h, n)) = StatOf(h, LastRead(h, n))
          /\ Measured(h, n) => StatOf(g, ReadBefore(h, n)) = StatOf(h, ReadBefore(h, n))
      BY <1>9, <1>10
    <2>4. Measured(h, n) => Reads(h, n) # {}   BY <1>9
    <2> QED BY <1>3, <2>1, <2>2, <2>3, <2>4 DEF TimesFollow
  <1> QED BY <1>5, <1>6, <1>11, <1>12 DEF h, g, n, all, times, N
LEMMA LengthOf ==
  ASSUME NEW l \in Nat, NEW f, f = [i \in 1 .. l |-> f[i]]
  PROVE  Len(f) = l
PROOF
  <1> DEFINE S == {f[i] : i \in 1 .. l}
  <1>1. \A i \in 1 .. l : f[i] \in S   OBVIOUS
  <1> HIDE DEF S
  <1>2. f \in [1 .. l -> S]   BY <1>1
  <1> QED BY <1>2, SeqDef

LEMMA StatIs ==
  ASSUME NEW h \in Seq(Readings), NEW k \in 1 .. Len(h), NEW l, l = h[k].lines
  PROVE  /\ l \in 0 .. Processors /\ DOMAIN StatOf(h, k) = 1 .. l /\ Len(StatOf(h, k)) = l
         /\ \A i \in 1 .. l :
              /\ i \in 1 .. Processors
              /\ StatOf(h, k)[i] = Line(TotalAt(h, k), TotalAt(h, k) - BusyAt(h, i, k))
PROOF
  <1> DEFINE f == StatOf(h, k)
  <1>1. h[k] \in Readings   OBVIOUS
  <1>2. l \in 0 .. Processors /\ l \in Nat /\ Processors \in Nat   BY <1>1, MonitorAssumption
  <1>3. f = [i \in 1 .. l |-> Line(TotalAt(h, k), TotalAt(h, k) - BusyAt(h, i, k))]
    BY DEF StatOf, CountersOf
  <1>4. \A i \in 1 .. l : i \in 1 .. Processors   BY <1>2
  <1> HIDE DEF f
  <1>5. f = [i \in 1 .. l |-> f[i]]   BY <1>3
  <1>6. Len(f) = l   BY <1>2, <1>5, LengthOf
  <1> QED BY <1>2, <1>3, <1>4, <1>6 DEF f

(* The usage of a line is what it was busy of the ticks that passed.       *)
LEMMA UsageIs ==
  ASSUME NEW h \in Seq(Readings), Ordered(h), NEW k \in 0 .. Len(h), Measured(h, k),
         NEW i \in 1 .. Lines(h, k)
  PROVE  /\ i \in 1 .. Processors
         /\ Usage(StatOf(h, ReadBefore(h, k))[i], StatOf(h, LastRead(h, k))[i]) = BusyShare(h, i, k)
PROOF
  <1> DEFINE a == ReadBefore(h, k)
             b == LastRead(h, k)
             p == StatOf(h, a)[i]
             q == StatOf(h, b)[i]
             ta == TotalAt(h, a)
             tb == TotalAt(h, b)
             ba == BusyAt(h, i, a)
             bb == BusyAt(h, i, b)
             d == q.total - p.total
  <1>1. k \in Nat /\ k <= Len(h) /\ Len(h) \in Nat   OBVIOUS
  <1>2. a \in 1 .. k /\ b \in 1 .. k /\ a < b   BY <1>1, LastReads
  <1>3. Lines(h, k) = h[a].lines   BY DEF Lines
  <1>4. BusyShare(h, i, k) =
          IF TicksIn(h, a, b) > 0 THEN (100 * BusyIn(h, i, a, b)) \div TicksIn(h, a, b) ELSE 0
    BY DEF BusyShare
  <1>5. Usage(p, q) = IF d > 0 THEN (100 * (d - (q.idle - p.idle))) \div d ELSE 0   BY DEF Usage
  <1> HIDE DEF a, b
  <1>6. /\ a \in 1 .. Len(h) /\ b \in 1 .. Len(h) /\ a <= b
        /\ a \in 0 .. Len(h) /\ b \in 0 .. Len(h) /\ a \in DOMAIN h /\ b \in DOMAIN h
    BY <1>1, <1>2
  <1>7. h[a].lines \in 0 .. Processors /\ h[b].lines \in 0 .. Processors /\ h[a].lines <= h[b].lines
    BY <1>6, StatIs DEF Ordered
  <1>8. i \in 1 .. h[a].lines /\ i \in 1 .. h[b].lines   BY <1>3, <1>7
  <1>9. /\ i \in 1 .. Processors /\ p = Line(ta, ta - ba) /\ q = Line(tb, tb - bb)
    BY <1>6, <1>8, StatIs
  <1>10. p.total = ta /\ p.idle = ta - ba /\ q.total = tb /\ q.idle = tb - bb   BY <1>9 DEF Line
  <1>11. ta \in Int /\ tb \in Int /\ ba \in Int /\ bb \in Int   BY <1>6, <1>9, CountersTyped
  <1>12. TicksIn(h, a, b) = tb - ta /\ BusyIn(h, i, a, b) = bb - ba   BY <1>6, <1>9, Between
  <1>13. d = TicksIn(h, a, b)   BY <1>10, <1>12
  <1>14. d - (q.idle - p.idle) = BusyIn(h, i, a, b)
    <2> HIDE DEF p, q, ta, tb, ba, bb
    <2> QED BY <1>10, <1>11, <1>12
  <1>15. Usage(p, q) = BusyShare(h, i, k)
    <2> HIDE DEF d, p, q
    <2> QED BY <1>4, <1>5, <1>13, <1>14
  <1> QED BY <1>9, <1>15 DEF a, b

LEMMA UsagesStep ==
  ASSUME MonitorInv, NEW r \in Readings, Round(r)
  PROVE  /\ UsagesHold(cpu_usage_w', history', Len(history) + 1)
         /\ latest_cpus_usage' = cpu_usage_w'
PROOF
  <1> DEFINE h == history
             g == history'
             n == Len(history)
             N == n + 1
             times == cpus_times'
             w == cpu_usage_w
             next == cpu_usage_w'
             latest == latest_cpus_usage'
             prev == Head(times)
             windows == IF Len(w) = Len(prev) THEN w ELSE [i \in DOMAIN prev |-> NewWindow]
             pushed == [i \in DOMAIN prev |-> push(windows[i], Usage(prev[i], Last(times)[i]))]
             l == Lines(g, N)
  <1>1. Extended(h, r, g, n) /\ Ordered(g)   BY RoundExtends DEF MonitorInv, HistoryTyped
  <1>2. UsagesHold(w, h, n) /\ latest_cpus_usage = w   BY DEF MonitorInv, CpuFollows
  <1>3. TimesFollow(times, g, N)   BY SnapshotsStep
  <1>4. /\ Len(times) < 2 => latest = <<>> /\ next = w
        /\ ~ (Len(times) < 2) => next = pushed /\ latest = pushed
    BY DEF Round, monitor, computeCpusUsage
  <1> HIDE DEF h, g, n, times, w, next, latest
  <1>5. n \in Nat /\ N \in Nat /\ g \in Seq(Readings) /\ Len(g) = N /\ N \in 0 .. Len(g)
    BY <1>1 DEF Extended
  <1>6. Measured(h, n) => Measured(g, N)
    <2>1. n \in 0 .. N /\ n \in 0 .. n   BY <1>5
    <2>2. Measured(h, n) => Measured(g, n)   BY <1>1, <2>1, PastStands
    <2> QED BY <1>1, <1>5, <2>1, <2>2, LinesGrow
  <1>7. CASE ~ Measured(g, N)
    <2>1. Len(times) < 2
      <3>1. CASE Reads(g, N) = {}
        <4>1. times = <<>>   BY <1>3, <1>7, <3>1 DEF TimesFollow
        <4> QED BY <4>1
      <3>2. CASE Reads(g, N) # {}
        <4>1. times = <<StatOf(g, LastRead(g, N))>>   BY <1>3, <1>7, <3>2 DEF TimesFollow
        <4>2. Len(times) = 1   BY <4>1, OnlyIs
        <4> QED BY <4>2
      <3> QED BY <3>1, <3>2
    <2>2. w = <<>>   BY <1>2, <1>6, <1>7 DEF UsagesHold
    <2>3. next = <<>> /\ latest = <<>>   BY <1>4, <2>1, <2>2
    <2> QED BY <1>7, <2>3 DEF UsagesHold, g, n, next, latest
  <1>8. CASE Measured(g, N)
    <2> DEFINE a == ReadBefore(g, N)
               b == LastRead(g, N)
               P == StatOf(g, a)
               Q == StatOf(g, b)
    <2>1. times = <<P, Q>>   BY <1>3, <1>8 DEF TimesFollow
    <2>2. a \in 1 .. N   BY <1>5, <1>8, LastReads
    <2>3. Len(P) = l /\ DOMAIN P = 1 .. l /\ l \in 0 .. Processors
      BY <1>5, <2>2, StatIs DEF Lines
    <2>4. \A i \in 1 .. l : i \in 1 .. Processors /\ Usage(P[i], Q[i]) = BusyShare(g, i, N)
      BY <1>1, <1>5, <1>8, UsageIs
    <2> HIDE DEF P, Q, l
    <2>5. Len(times) = 2 /\ prev = P /\ Last(times) = Q   BY <2>1, TwoAre
    <2>6. next = pushed /\ latest = pushed   BY <1>4, <2>5
    <2>7. DOMAIN next = 1 .. l /\ next = [i \in 1 .. l |-> next[i]]   BY <2>3, <2>5, <2>6
    <2>8. l \in Nat   BY <2>3
    <2>9. Len(next) = l   BY <2>7, <2>8, LengthOf
    <2>10. ASSUME NEW i \in 1 .. l
           PROVE  /\ BusyShares(g, i) \in Seq(Nat)
                  /\ Holds(MonitorWindow, next[i], BusyShares(g, i))
      <3> DEFINE v == BusyShare(g, i, N)
                 x == Sample(v)
                 kept == Measured(h, n) /\ Lines(h, n) = l
      <3>1. i \in 1 .. Processors /\ Usage(P[i], Q[i]) = v   BY <2>4
      <3>2. v \in Int   BY <1>5, <1>8, <3>1, ShareTyped
      <3> HIDE DEF v
      <3>3. /\ kept => BusyShares(h, i) \in Seq(Nat) /\ BusyShares(g, i) = Append(BusyShares(h, i), x)
            /\ ~ kept => BusyShares(g, i) = Append(<<>>, x)
        BY <1>1, <1>8, <3>1, SharesGrow DEF v, l
      <3>4. next[i] = push(windows[i], v)   BY <2>3, <2>5, <2>6, <3>1
      <3> HIDE DEF x
      <3>5. CASE kept
        <4>1. Len(w) = l /\ Holds(MonitorWindow, w[i], BusyShares(h, i))   BY <1>2, <3>5 DEF UsagesHold
        <4>2. windows[i] = w[i]   BY <2>3, <2>5, <4>1
        <4> QED BY <3>2, <3>3, <3>4, <3>5, <4>1, <4>2, PushSampleHolds DEF x
      <3>6. CASE ~ kept
        <4>1. Len(w) # l
          <5>1. CASE Measured(h, n)   BY <1>2, <3>6, <5>1 DEF UsagesHold
          <5>2. CASE ~ Measured(h, n)
            <6>1. w = <<>>   BY <1>2, <5>2 DEF UsagesHold
            <6>2. Len(w) = 0   BY <6>1
            <6> QED BY <2>8, <6>2
          <5> QED BY <5>1, <5>2
        <4>2. windows[i] = NewWindow   BY <2>3, <2>5, <4>1
        <4>3. Holds(MonitorWindow, NewWindow, <<>>) /\ <<>> \in Seq(Nat)
          BY EmptyHolds, MonitorAssumption DEF NewWindow
        <4> QED BY <3>2, <3>3, <3>4, <3>6, <4>2, <4>3, PushSampleHolds DEF x
      <3> QED BY <3>5, <3>6
    <2>11. UsagesHold(next, g, N)   BY <1>8, <2>7, <2>9, <2>10 DEF UsagesHold, l
    <2> QED BY <2>6, <2>11 DEF g, n, next, latest
  <1> QED BY <1>7, <1>8

LEMMA CpuStep ==
  ASSUME MonitorInv, NEW r \in Readings, Round(r)
  PROVE  CpuFollows'
PROOF
  <1>1. Len(history') = Len(history) + 1
    <2>1. Extended(history, r, history', Len(history))   BY RoundExtends DEF MonitorInv
    <2> QED BY <2>1 DEF Extended
  <1> QED BY <1>1, SnapshotsStep, UsagesStep DEF CpuFollows

-----------------------------------------------------------------------------
(* The process after a round: its last account, and whether the round is   *)
(* compared with it.                                                       *)
LEMMA LastAccountGrows ==
  ASSUME NEW h, NEW r, NEW g, NEW n, Extended(h, r, g, n)
  PROVE  /\ Accounts(h) # {} => LastAccount(h) \in 1 .. n /\ LastAccount(h) \in Accounts(h)
         /\ AccountBefore(g, n + 1) = LastAccount(h)
         /\ n + 1 \in Accounts(g) => Accounts(g) # {} /\ LastAccount(g) = n + 1
         /\ n + 1 \notin Accounts(g) => Accounts(g) = Accounts(h) /\ LastAccount(g) = LastAccount(h)
         /\ (\E j \in Accounts(g) : j < n + 1) <=> Accounts(h) # {}
PROOF
  <1> DEFINE N == n + 1
             A == Accounts(h)
             B == Accounts(g)
  <1>1. n \in Nat /\ N \in Nat   BY DEF Extended
  <1>2. /\ A \subseteq 1 .. n /\ B \subseteq 1 .. N /\ N \in 1 .. N
        /\ \A k \in 1 .. n : k \in B <=> k \in A
        /\ {j \in B : j < N} = {j \in A : j < N} /\ AccountBefore(g, N) = AccountBefore(h, N)
        /\ {j \in A : j < N} = A
    BY <1>1, AccountsGrow
  <1>3. AccountBefore(h, N) = Max(A)   BY <1>2 DEF AccountBefore
  <1>4. LastAccount(h) = Max(A) /\ LastAccount(g) = Max(B)   BY DEF LastAccount
  <1>5. \A k \in 1 .. N : k = N \/ k \in 1 .. n   BY <1>1
  <1>6. {j \in B : j < N} = A   BY <1>2
  <1> HIDE DEF A, B, N
  <1>7. A # {} => Max(A) \in A
    <2>1. A \subseteq 0 .. n   BY <1>1, <1>2
    <2> QED BY <1>1, <2>1, GreatestOf
  <1>8. N \in B => Max(B) = N
    <2>1. B \subseteq Int /\ \A k \in B : N >= k   BY <1>1, <1>2
    <2> QED BY <2>1, MaxIs
  <1>9. N \notin B => B = A   BY <1>1, <1>2, <1>5
  <1>10. (\E j \in B : j < N) <=> A # {}   BY <1>6
  <1>11. A # {} => Max(A) \in 1 .. n   BY <1>2, <1>7
  <1>12. N \notin B => LastAccount(g) = LastAccount(h)   BY <1>4, <1>9
  <1>13. N \in B => B # {}   OBVIOUS
  <1>14. AccountBefore(g, N) = LastAccount(h)   BY <1>2, <1>3, <1>4
  <1>15. N \in B => LastAccount(g) = N   BY <1>4, <1>8
  <1>16. A # {} => LastAccount(h) \in 1 .. n /\ LastAccount(h) \in A   BY <1>4, <1>7, <1>11
  <1> QED BY <1>9, <1>10, <1>12, <1>13, <1>14, <1>15, <1>16 DEF A, B, N

LEMMA ClockGrows ==
  ASSUME NEW h, NEW r, NEW g, NEW n, Extended(h, r, g, n)
  PROVE  /\ \A m \in 1 .. n : /\ TicksIn(g, m, n + 1) = TicksIn(h, m, n) + r.ticks
                              /\ TicksIn(h, m, n) \in Int
         /\ TicksIn(g, n + 1, n + 1) = 0 /\ r.ticks \in Int
PROOF
  <1> DEFINE N == n + 1
  <1>1. /\ n \in Nat /\ h \in Seq(Readings) /\ Len(h) = n /\ g \in Seq(Readings) /\ Len(g) = N
        /\ N \in 0 .. Len(g) /\ n \in 0 .. Len(h) /\ n \in 0 .. n /\ N \in Nat /\ r \in Readings
    BY DEF Extended
  <1>2. r.ticks \in Int   BY <1>1, MonitorAssumption
  <1>3. TotalAt(g, N) = TotalAt(h, n) + r.ticks /\ \A k \in 0 .. n : TotalAt(g, k) = TotalAt(h, k)
    BY CountersGrow
  <1>4. TotalAt(h, n) \in Int /\ TotalAt(g, N) \in Int   BY <1>1, CountersTyped
  <1>5. ASSUME NEW m \in 1 .. n
        PROVE  TicksIn(g, m, N) = TicksIn(h, m, n) + r.ticks /\ TicksIn(h, m, n) \in Int
    <2> DEFINE v == r.ticks
    <2>1. /\ m \in 0 .. n /\ m \in 0 .. Len(h) /\ m \in 0 .. Len(g) /\ m <= N /\ m <= n   BY <1>1
    <2>2. TicksIn(g, m, N) = TotalAt(g, N) - TotalAt(g, m)   BY <1>1, <2>1, Between
    <2>3. TicksIn(h, m, n) = TotalAt(h, n) - TotalAt(h, m)   BY <1>1, <2>1, Between
    <2>4. TotalAt(h, m) \in Int   BY <1>1, <2>1, CountersTyped
    <2>5. v \in Int /\ TotalAt(g, N) = TotalAt(h, n) + v /\ TotalAt(g, m) = TotalAt(h, m)
      BY <1>2, <1>3, <2>1
    <2> HIDE DEF v, N
    <2>6. TicksIn(g, m, N) = TicksIn(h, m, n) + v   BY <1>4, <2>2, <2>3, <2>4, <2>5
    <2> QED BY <1>4, <2>3, <2>4, <2>6 DEF v
  <1>6. TicksIn(g, N, N) = 0
    <2>1. N <= N   BY <1>1
    <2>2. TicksIn(g, N, N) = TotalAt(g, N) - TotalAt(g, N)   BY <1>1, <2>1, Between
    <2> HIDE DEF N
    <2> QED BY <1>4, <2>2
  <1> QED BY <1>2, <1>5, <1>6

LEMMA AccountGrows ==
  ASSUME NEW h, NEW r, NEW g, NEW n, Extended(h, r, g, n), NEW ticks, NEW elapsed,
         AccountOf(h, n, ticks, elapsed)
  PROVE  /\ r.rss # NoFile /\ r.cpu # NoFile =>
              /\ AccountOf(g, n + 1, r.cpu, 0)
              /\ n + 1 \in Compared(g) <=>
                   ticks # 0 /\ ~ (elapsed + r.ticks <= 0 \/ r.cpu < ticks)
              /\ n + 1 \in Compared(g) => /\ Used(g, n + 1) = r.cpu - ticks
                                          /\ Passed(g, n + 1) = elapsed + r.ticks
         /\ ~ (r.rss # NoFile /\ r.cpu # NoFile) =>
              AccountOf(g, n + 1, ticks, elapsed + r.ticks) /\ n + 1 \notin Compared(g)
PROOF
  <1> DEFINE N == n + 1
             A == Accounts(h)
             m == LastAccount(h)
             t == r.ticks
             c == r.cpu
             p == h[m].cpu
             both == r.rss # NoFile /\ r.cpu # NoFile
  <1>1. n \in Nat /\ g[N] = r /\ \A k \in 1 .. n : g[k] = h[k]   BY DEF Extended
  <1>2. /\ N \in Accounts(g) <=> both
        /\ \A k \in Accounts(g) : g[k].cpu \in Nat
        /\ \A k \in 1 .. n : k \in Accounts(g) <=> k \in A
    BY AccountsGrow
  <1>3. /\ A # {} => m \in 1 .. n /\ m \in A
        /\ AccountBefore(g, N) = m
        /\ N \in Accounts(g) => Accounts(g) # {} /\ LastAccount(g) = N
        /\ N \notin Accounts(g) => Accounts(g) = A /\ LastAccount(g) = m
        /\ (\E j \in Accounts(g) : j < N) <=> A # {}
    BY LastAccountGrows
  <1>4. /\ \A k \in 1 .. n : TicksIn(g, k, N) = TicksIn(h, k, n) + t /\ TicksIn(h, k, n) \in Int
        /\ TicksIn(g, N, N) = 0 /\ t \in Int
    BY ClockGrows
  <1>5. /\ A = {} => ticks = 0
        /\ A # {} => ticks = p /\ elapsed = TicksIn(h, m, n)
    BY DEF AccountOf
  <1>6. A # {} => g[m] = h[m] /\ p \in Nat /\ TicksIn(g, m, N) = elapsed + t /\ elapsed \in Int
    <2>1. A # {} => g[m] = h[m]   BY <1>1, <1>3
    <2>2. A # {} => g[m].cpu \in Nat   BY <1>2, <1>3
    <2> HIDE DEF N, A, m, t
    <2> QED BY <1>3, <1>4, <1>5, <2>1, <2>2
  <1>7. /\ Used(g, N) = g[N].cpu - g[m].cpu /\ Passed(g, N) = TicksIn(g, m, N)
        /\ N \in Compared(g) <=> /\ N \in Accounts(g) /\ \E j \in Accounts(g) : j < N
                                 /\ g[m].cpu # 0 /\ Used(g, N) >= 0 /\ Passed(g, N) > 0
    BY <1>3 DEF Used, Passed, Compared
  <1> HIDE DEF N, A, m, t
  <1>8. ASSUME both
        PROVE  /\ AccountOf(g, N, c, 0)
               /\ N \in Compared(g) <=> ticks # 0 /\ ~ (elapsed + t <= 0 \/ c < ticks)
               /\ N \in Compared(g) => Used(g, N) = c - ticks /\ Passed(g, N) = elapsed + t
    <2>1. AccountOf(g, N, c, 0)   BY <1>1, <1>2, <1>3, <1>4, <1>8 DEF AccountOf
    <2>2. c \in Nat   BY <1>1, <1>2, <1>8
    <2>3. CASE A = {}   BY <1>3, <1>5, <1>7, <2>1, <2>3
    <2>4. CASE A # {}
      <3>1. ticks = p /\ p \in Nat /\ elapsed \in Int /\ t \in Int   BY <1>4, <1>5, <1>6, <2>4
      <3>2. Used(g, N) = c - p /\ Passed(g, N) = elapsed + t   BY <1>1, <1>6, <1>7, <2>4
      <3>3. N \in Compared(g) <=> p # 0 /\ Used(g, N) >= 0 /\ Passed(g, N) > 0
        BY <1>2, <1>3, <1>6, <1>7, <1>8, <2>4
      <3> HIDE DEF c, p
      <3>4. (Used(g, N) >= 0 <=> ~ (c < p)) /\ (Passed(g, N) > 0 <=> ~ (elapsed + t <= 0))
        BY <2>2, <3>1, <3>2
      <3> QED BY <2>1, <3>1, <3>2, <3>3, <3>4
    <2> QED BY <2>3, <2>4
  <1>9. ASSUME ~ both
        PROVE  AccountOf(g, N, ticks, elapsed + t) /\ N \notin Compared(g)
    <2>1. N \notin Accounts(g) /\ N \notin Compared(g)   BY <1>2, <1>7, <1>9
    <2>2. CASE A = {}   BY <1>3, <1>5, <2>1, <2>2 DEF AccountOf
    <2>3. CASE A # {}   BY <1>3, <1>5, <1>6, <2>1, <2>3 DEF AccountOf
    <2> QED BY <2>1, <2>2, <2>3
  <1> QED BY <1>8, <1>9 DEF N, t

LEMMA ProcessStep ==
  ASSUME MonitorInv, NEW r \in Readings, Round(r)
  PROVE  ProcessFollows'
PROOF
  <1> DEFINE h == history
             g == history'
             n == Len(history)
             N == n + 1
             p == process
             q == process'
             elapsed == p.elapsed + r.ticks
             ticks == p.last_total_ticks
             memory == updateAllocatedMemory(r)
             u == (100 * (r.cpu - ticks)) \div elapsed
             share == push(p.cpu_percentage_w, u)
             Base(code) == [p EXCEPT !.last_total_ticks = r.cpu, !.elapsed = 0,
                                     !.memory_percentage_w = memory, !.returned = code]
             fields == {"last_total_ticks", "elapsed", "returned", "cpu_percentage_w",
                        "memory_percentage_w"}
             s == FoundProcesses(h)
             both == r.rss # NoFile /\ r.cpu # NoFile
             due == ticks # 0 /\ ~ (elapsed <= 0 \/ r.cpu < ticks)
  <1>1. Extended(h, r, g, n)   BY RoundExtends DEF MonitorInv
  <1>2. /\ DOMAIN p = fields
        /\ AccountOf(h, n, ticks, p.elapsed)
        /\ Holds(MonitorWindow, p.cpu_percentage_w, ProcessShares(h))
        /\ Holds(MonitorWindow, p.memory_percentage_w, ProcessMemories(h))
    BY DEF MonitorInv, ProcessFollows
  <1>3. q = IF r.rss = NoFile
            THEN [p EXCEPT !.elapsed = elapsed, !.returned = 1]
            ELSE IF r.cpu = NoFile
            THEN [p EXCEPT !.elapsed = elapsed, !.memory_percentage_w = memory, !.returned = 2]
            ELSE IF ticks = 0 THEN Base(0)
            ELSE IF elapsed <= 0 \/ r.cpu < ticks THEN Base(3)
            ELSE [Base(0) EXCEPT !.cpu_percentage_w = push(@, u)]
    BY DEF Round, update
  <1>4. memory = push(p.memory_percentage_w, r.rss)   BY DEF updateAllocatedMemory
  <1>5. /\ both => /\ AccountOf(g, N, r.cpu, 0)
                   /\ N \in Compared(g) <=> due
                   /\ N \in Compared(g) => Used(g, N) = r.cpu - ticks /\ Passed(g, N) = elapsed
        /\ ~ both => AccountOf(g, N, ticks, elapsed) /\ N \notin Compared(g)
    BY <1>1, <1>2, AccountGrows
  <1>6. /\ ProcessShares(h) \in Seq(Nat)
        /\ N \in Compared(g) =>
             ProcessShares(g) = Append(ProcessShares(h), Sample((100 * Used(g, N)) \div Passed(g, N)))
        /\ N \notin Compared(g) => ProcessShares(g) = ProcessShares(h)
    BY <1>1, ProcessSharesGrow
  <1>7. ProcessMemories(h) = Samples(s) /\ ProcessMemories(g) = Samples(FoundProcesses(g))
    BY DEF ProcessMemories, FoundProcesses
  <1>8. s \in Seq(Findable) /\ r.rss \in Findable /\ FoundProcesses(g) = Append(s, r.rss)
    BY <1>1, FoundGrows
  <1>9. N \in Compared(g) => u \in Int /\ Used(g, N) = r.cpu - ticks /\ Passed(g, N) = elapsed
    <2> SUFFICES ASSUME N \in Compared(g)
                 PROVE  u \in Int /\ Used(g, N) = r.cpu - ticks /\ Passed(g, N) = elapsed
      OBVIOUS
    <2>1. Used(g, N) \in Int /\ Passed(g, N) \in Int /\ Passed(g, N) > 0   BY <1>1, ComparedGrows
    <2>2. Used(g, N) = r.cpu - ticks /\ Passed(g, N) = elapsed   BY <1>5
    <2> DEFINE x == Used(g, N)
               y == Passed(g, N)
    <2>3. u = (100 * x) \div y   BY <2>2
    <2> HIDE DEF u, x, y, g, N, elapsed, ticks
    <2>4. x \in Int /\ y \in Int /\ y > 0   BY <2>1 DEF x, y
    <2>5. 100 * x \in Int   BY <2>4
    <2> DEFINE z == 100 * x
    <2> HIDE DEF z
    <2>6. z \div y \in Int   BY <2>4, <2>5 DEF z
    <2> QED BY <2>2, <2>3, <2>6 DEF z, x, y
  <1>10. q.memory_percentage_w = (IF r.rss = NoFile THEN p.memory_percentage_w ELSE memory)
    <2> HIDE DEF memory, elapsed, ticks, u
    <2> QED BY <1>2, <1>3 DEF fields
  <1>11. DOMAIN q = fields
    <2> HIDE DEF memory, elapsed, ticks, u, fields
    <2> QED BY <1>2, <1>3
  <1>12. /\ both => q.last_total_ticks = r.cpu /\ q.elapsed = 0
         /\ ~ both => q.last_total_ticks = ticks /\ q.elapsed = elapsed
    <2> HIDE DEF memory, elapsed, u
    <2> QED BY <1>2, <1>3 DEF fields
  <1>13. /\ both /\ due => q.cpu_percentage_w = share
         /\ ~ (both /\ due) => q.cpu_percentage_w = p.cpu_percentage_w
    <2> HIDE DEF memory, elapsed, u, ticks
    <2> QED BY <1>2, <1>3 DEF fields
  <1> HIDE DEF h, g, n, p, q, s, fields, elapsed, ticks, memory, both, due, share, u, N
  <1>14. AccountOf(g, N, q.last_total_ticks, q.elapsed)   BY <1>5, <1>12
  <1>15. Holds(MonitorWindow, q.memory_percentage_w, ProcessMemories(g))
    <2>1. q.memory_percentage_w = IF r.rss = NoFile THEN p.memory_percentage_w
                                  ELSE push(p.memory_percentage_w, r.rss)
      BY <1>4, <1>10
    <2> QED BY <1>2, <1>7, <1>8, <2>1, SampledHolds
  <1>16. N \in Compared(g) <=> both /\ due   BY <1>5
  <1>17. Holds(MonitorWindow, q.cpu_percentage_w, ProcessShares(g))
    <2>1. CASE N \in Compared(g)
      <3>1. q.cpu_percentage_w = push(p.cpu_percentage_w, u)   BY <1>13, <1>16, <2>1 DEF share
      <3>2. (100 * Used(g, N)) \div Passed(g, N) = u   BY <1>9, <2>1 DEF u
      <3>3. ProcessShares(g) = Append(ProcessShares(h), Sample(u))   BY <1>6, <2>1, <3>2
      <3>4. u \in Int   BY <1>9, <2>1
      <3> QED BY <1>2, <1>6, <3>1, <3>3, <3>4, PushSampleHolds
    <2>2. CASE N \notin Compared(g)
      <3>1. q.cpu_percentage_w = p.cpu_percentage_w   BY <1>13, <1>16, <2>2
      <3> QED BY <1>2, <1>6, <2>2, <3>1
    <2> QED BY <2>1, <2>2
  <1>18. Len(g) = N   BY <1>1 DEF Extended, N
  <1> QED BY <1>11, <1>14, <1>15, <1>17, <1>18 DEF ProcessFollows, g, q, fields

-----------------------------------------------------------------------------
LEMMA MonitorInitially == MonitorInit => MonitorInv
PROOF
  <1> SUFFICES ASSUME MonitorInit PROVE MonitorInv   OBVIOUS
  <1> DEFINE h == history
             new == NewWindow
             last == process.last_total_ticks
  <1>1. /\ h = <<>> /\ cpus_times = <<>> /\ cpu_usage_w = <<>> /\ latest_cpus_usage = <<>>
        /\ mem_usage_w = new /\ thermal_zones = "unknown"
        /\ temperature_w = new /\ latest_temperature = new
        /\ process = [last_total_ticks |-> 0, elapsed |-> 0, returned |-> 0,
                      cpu_percentage_w |-> new, memory_percentage_w |-> new]
        /\ counters = [i \in 1 .. Processors |-> Line(0, 0)]
    BY DEF MonitorInit
  <1>2. Len(h) = 0 /\ DOMAIN h = {} /\ h \in Seq(Readings)   BY <1>1
  <1>3. Holds(MonitorWindow, new, <<>>)   BY EmptyHolds, MonitorAssumption DEF NewWindow
  <1>4. Reads(h, 0) = {} /\ ~ Measured(h, 0)   BY DEF Reads, Measured
  <1>5. HistoryTyped   BY <1>2 DEF HistoryTyped, Ordered
  <1>6. TotalAt(h, 0) = 0 /\ \A i \in 1 .. Processors : BusyAt(h, i, 0) = 0
    <2>1. ASSUME NEW s \in Seq(Int) PROVE Sums(s)[0] = 0   BY <2>1, SumsExist
    <2> HIDE DEF h
    <2> QED BY <1>2, <2>1, Counts0 DEF TotalAt, BusyAt
  <1>7. counters = CountersOf(h, 0, Processors)
    <2> HIDE DEF h
    <2>1. 0 - 0 = 0   OBVIOUS
    <2> QED BY <1>1, <1>6, <2>1 DEF CountersOf
  <1> HIDE DEF new
  <1>8. CpuFollows   BY <1>1, <1>2, <1>4, <1>7 DEF CpuFollows, TimesFollow, UsagesHold
  <1>9. Memories(h) = <<>> /\ ProcessMemories(h) = <<>>
    <2>1. /\ [k \in DOMAIN h |-> IF h[k].mem = NoFile THEN NoFile ELSE MemUsage(h[k].mem)] = <<>>
          /\ [k \in DOMAIN h |-> h[k].rss] = <<>>
      BY <1>1
    <2> QED BY <2>1, NoSamples DEF Memories, ProcessMemories
  <1>10. Temperatures(h) = <<>>   BY <1>1 DEF Temperatures
  <1>11. MemoryFollows   BY <1>1, <1>3, <1>9 DEF MemoryFollows
  <1>12. TemperatureFollows   BY <1>1, <1>3, <1>10 DEF TemperatureFollows
  <1>13. Accounts(h) = {} /\ Compared(h) = {}   BY <1>2 DEF Accounts, Compared
  <1>14. ProcessShares(h) = <<>>
    <2> DEFINE v == [k \in Compared(h) |-> Sample((100 * Used(h, k)) \div Passed(h, k))]
    <2>1. ProcessShares(h) = InOrder(v, 0)   BY <1>2 DEF ProcessShares
    <2>2. DOMAIN v = {}   BY <1>13
    <2> HIDE DEF v
    <2>3. \A k \in 1 .. 0 : k \notin DOMAIN v   BY <2>2
    <2> QED BY <2>1, <2>3, InOrderNone
  <1>15. ProcessFollows
    <2>1. /\ DOMAIN process = {"last_total_ticks", "elapsed", "returned", "cpu_percentage_w",
                               "memory_percentage_w"}
          /\ process.last_total_ticks = 0
          /\ process.cpu_percentage_w = new /\ process.memory_percentage_w = new
      BY <1>1
    <2>2. AccountOf(h, Len(h), process.last_total_ticks, process.elapsed)
      BY <1>13, <2>1 DEF AccountOf
    <2> QED BY <1>3, <1>9, <1>14, <2>1, <2>2 DEF ProcessFollows
  <1>16. LoadEventsFollow   BY <1>1 DEF LoadEventsFollow
  <1> QED BY <1>5, <1>8, <1>11, <1>12, <1>15, <1>16 DEF MonitorInv

LEMMA MonitorInductive == MonitorInv /\ [MonitorNext]_monitorVars => MonitorInv'
PROOF
  <1> SUFFICES ASSUME MonitorInv, [MonitorNext]_monitorVars PROVE MonitorInv'   OBVIOUS
  <1>1. ASSUME NEW r \in Readings, Round(r) PROVE MonitorInv'
    <2>1. HistoryTyped'   BY <1>1, RoundExtends DEF MonitorInv
    <2>2. CpuFollows'   BY <1>1, CpuStep
    <2>3. MemoryFollows'   BY <1>1, MemoryStep
    <2>4. TemperatureFollows'   BY <1>1, TemperatureStep
    <2>5. ProcessFollows'   BY <1>1, ProcessStep
    <2>6. LoadEventsFollow'   BY <1>1, EventsStep
    <2> QED BY <2>1, <2>2, <2>3, <2>4, <2>5, <2>6 DEF MonitorInv
  <1>2. ASSUME UNCHANGED monitorVars PROVE MonitorInv'
    BY <1>2 DEF MonitorInv, monitorVars, systemVars, HistoryTyped, CpuFollows, MemoryFollows,
                TemperatureFollows, ProcessFollows, LoadEventsFollow
  <1> QED BY <1>1, <1>2 DEF MonitorNext

(* A window's mean is high when that of the samples it stands for is.      *)
LEMMA HighMean ==
  ASSUME NEW w, NEW s \in Seq(Nat), Holds(MonitorWindow, w, s), NEW limit
  PROVE  /\ IsWindowOf(w, s)
         /\ MeanExceeds(w, limit) <=> IsHigh(s, limit)
PROOF
  <1>1. IsWindowOf(w, s)   BY HoldsIsWindow, MonitorAssumption
  <1>2. w.capacity = MonitorWindow   BY DEF Holds, Windows
  <1> DEFINE last == Latest(s, MonitorWindow)
  <1>3. w.size = Len(last) /\ w.sum = Total(last)   BY <1>1, <1>2 DEF IsWindowOf
  <1>4. Len(last) > 0 <=> last # <<>>
    <2>1. last \in Seq(Nat)   BY LatestElements, MonitorAssumption
    <2> HIDE DEF last
    <2> QED BY <2>1, EmptySeq
  <1> HIDE DEF last
  <1>5. MeanExceeds(w, limit) <=> last # <<>> /\ Total(last) > limit * Len(last)
    BY <1>3, <1>4 DEF MeanExceeds
  <1> QED BY <1>1, <1>5 DEF IsHigh, last

LEMMA LoadFollows == MonitorInv => LoadIsReported
PROOF
  <1> SUFFICES ASSUME MonitorInv, history # <<>>
               PROVE  /\ Measured(history, Len(history)) =>
                           \A i \in 1 .. Lines(history, Len(history)) :
                             /\ IsWindowOf(latest_cpus_usage[i], BusyShares(history, i))
                             /\ <<"CPU_USAGE_TOO_HIGH", i>> \in reported
                                  <=> IsHigh(BusyShares(history, i), cpu_threshold)
                      /\ IsWindowOf(mem_usage_w, Memories(history))
                      /\ <<"MEM_USAGE_TOO_HIGH", 0>> \in reported
                           <=> IsHigh(Memories(history), mem_threshold)
                      /\ IsWindowOf(latest_temperature, Temperatures(history))
                      /\ IsWindowOf(process.cpu_percentage_w, ProcessShares(history))
                      /\ IsWindowOf(process.memory_percentage_w, ProcessMemories(history))
    BY DEF LoadIsReported
  <1> DEFINE h == history
             n == Len(history)
             g == Append(h, h[1])
             hot == {j \in DOMAIN latest_cpus_usage : MeanExceeds(latest_cpus_usage[j], cpu_threshold)}
             full == MeanExceeds(mem_usage_w, mem_threshold)
  <1>1. h \in Seq(Readings) /\ h # <<>>   BY DEF MonitorInv, HistoryTyped
  <1>2. /\ UsagesHold(latest_cpus_usage, h, n)
        /\ Holds(MonitorWindow, mem_usage_w, Memories(h))
        /\ Holds(MonitorWindow, latest_temperature, Temperatures(h))
        /\ Holds(MonitorWindow, process.cpu_percentage_w, ProcessShares(h))
        /\ Holds(MonitorWindow, process.memory_percentage_w, ProcessMemories(h))
    BY DEF MonitorInv, CpuFollows, MemoryFollows, TemperatureFollows, ProcessFollows
  <1>3. reported = {<<"CPU_USAGE_TOO_HIGH", i>> : i \in hot}
                     \cup (IF full THEN {<<"MEM_USAGE_TOO_HIGH", 0>>} ELSE {})
    BY DEF MonitorInv, LoadEventsFollow
  <1> HIDE DEF h, n, hot, full
  <1>4. Extended(h, h[1], g, Len(h))
    <2>1. h[1] \in Readings   BY <1>1
    <2> QED BY <1>1, <2>1, ExtendedBy
  <1>5. /\ Memories(h) \in Seq(Nat) /\ Temperatures(h) \in Seq(Nat)
        /\ ProcessShares(h) \in Seq(Nat) /\ ProcessMemories(h) \in Seq(Nat)
    <2>1. /\ FoundMemories(h) \in Seq(Findable) /\ FoundTemperatures(h) \in Seq(Findable)
          /\ FoundProcesses(h) \in Seq(Findable) /\ ProcessShares(h) \in Seq(Nat)
      BY <1>4, FoundGrows, ProcessSharesGrow
    <2>2. \A s \in Seq(Findable) : Samples(s) \in Seq(Nat)
      <3>1. NoFile \in Findable   BY DEF Findable
      <3> QED BY <3>1, SamplesGrow
    <2>3. /\ Memories(h) = Samples(FoundMemories(h))
          /\ Temperatures(h) = IF h # <<>> /\ h[1].zones THEN Samples(FoundTemperatures(h)) ELSE <<>>
          /\ ProcessMemories(h) = Samples(FoundProcesses(h))
      BY DEF Memories, Temperatures, ProcessMemories, FoundMemories, FoundTemperatures,
             FoundProcesses, MemoryIn
    <2>4. <<>> \in Seq(Nat)   OBVIOUS
    <2> QED BY <2>1, <2>2, <2>3, <2>4
  <1>6. /\ IsWindowOf(mem_usage_w, Memories(h))
        /\ full <=> IsHigh(Memories(h), mem_threshold)
    BY <1>2, <1>5, HighMean DEF full
  <1>7. /\ IsWindowOf(latest_temperature, Temperatures(h))
        /\ IsWindowOf(process.cpu_percentage_w, ProcessShares(h))
        /\ IsWindowOf(process.memory_percentage_w, ProcessMemories(h))
    BY <1>2, <1>5, HighMean
  <1>8. <<"MEM_USAGE_TOO_HIGH", 0>> \in reported <=> full
    <2>1. "MEM_USAGE_TOO_HIGH" # "CPU_USAGE_TOO_HIGH"   OBVIOUS
    <2>2. <<"MEM_USAGE_TOO_HIGH", 0>> \notin {<<"CPU_USAGE_TOO_HIGH", i>> : i \in hot}   BY <2>1
    <2> QED BY <1>3, <2>2
  <1>9. \A i : <<"CPU_USAGE_TOO_HIGH", i>> \in reported <=> i \in hot
    <2> TAKE i
    <2>1. "MEM_USAGE_TOO_HIGH" # "CPU_USAGE_TOO_HIGH"   OBVIOUS
    <2>2. <<"CPU_USAGE_TOO_HIGH", i>> \notin {<<"MEM_USAGE_TOO_HIGH", 0>>}   BY <2>1
    <2>3. <<"CPU_USAGE_TOO_HIGH", i>> \in {<<"CPU_USAGE_TOO_HIGH", j>> : j \in hot} <=> i \in hot
      OBVIOUS
    <2> QED BY <1>3, <2>2, <2>3
  <1>10. ASSUME Measured(h, n), NEW i \in 1 .. Lines(h, n)
         PROVE  /\ IsWindowOf(latest_cpus_usage[i], BusyShares(h, i))
                /\ <<"CPU_USAGE_TOO_HIGH", i>> \in reported <=> IsHigh(BusyShares(h, i), cpu_threshold)
    <2>1. /\ BusyShares(h, i) \in Seq(Nat) /\ i \in DOMAIN latest_cpus_usage
          /\ Holds(MonitorWindow, latest_cpus_usage[i], BusyShares(h, i))
      BY <1>2, <1>10 DEF UsagesHold
    <2>2. /\ IsWindowOf(latest_cpus_usage[i], BusyShares(h, i))
          /\ MeanExceeds(latest_cpus_usage[i], cpu_threshold)
               <=> IsHigh(BusyShares(h, i), cpu_threshold)
      BY <2>1, HighMean
    <2>3. i \in hot <=> MeanExceeds(latest_cpus_usage[i], cpu_threshold)   BY <2>1 DEF hot
    <2> QED BY <1>9, <2>2, <2>3
  <1> QED BY <1>6, <1>7, <1>8, <1>10 DEF h, n

(* After every round the reported events and the published means are those *)
(* of the last intervals that were measured, whatever could not be read    *)
(* and whichever line appeared meanwhile (supervisor.cpp:118-149,          *)
(* system_resource_monitor.cpp, process_resource_monitor.cpp:21-66).       *)
THEOREM LoadReported == MonitorSpec => []LoadIsReported
PROOF BY MonitorInitially, MonitorInductive, LoadFollows, PTL DEF MonitorSpec
=============================================================================
