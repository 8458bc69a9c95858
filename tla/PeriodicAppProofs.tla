-------------------------- MODULE PeriodicAppProofs --------------------------
(***************************************************************************)
(* Proofs about PeriodicApp for every set of commands, every transition    *)
(* set, every order of verification and any number of calls: type          *)
(* correctness, the safety invariants, and that the component implements   *)
(* the life cycle of AppLifecycle.                                         *)
(***************************************************************************)
EXTENDS PeriodicApp, SequenceTheorems, TLAPS

-----------------------------------------------------------------------------
(* The transition table.                                                   *)

(* The states that have a transition for each event.                       *)
LEMMA TableDomain ==
  \A s \in State, e \in Event :
    HasTransition(s, e) <=>
      \/ e = "quit_request" /\ s \notin {"initialization", "quit"}
      \/ e = "deactivation_request" /\ s \in {"run", "fail"}
      \/ e \in {"activated", "failed_activation", "stop_activation"} /\ s = "activation"
      \/ e = "initialized" /\ s = "initialization"
      \/ e = "activation_request" /\ s = "idle"
      \/ e = "failure" /\ s = "run"
      \/ e = "deactivated" /\ s = "deactivation"
PROOF
  BY StateMachineAssumption
  DEF HasTransition, AppTransition, AppState, Event, SyncEvent, AsyncEvents

(* The state each event leads to.                                          *)
LEMMA TableValue ==
  ASSUME NEW s \in State, NEW e \in Event, HasTransition(s, e)
  PROVE  /\ Transition[<<s, e>>] = TargetOf[e]
         /\ Transition[<<s, e>>] \in State
PROOF
  BY StateMachineAssumption
  DEF HasTransition, AppTransition, AppState, TargetOf, Event, SyncEvent, AsyncEvents

-----------------------------------------------------------------------------
(* Type correctness: the operations of the two components first.           *)

LEMMA SMUnchanged == SMTypeOK /\ UNCHANGED smVars => SMTypeOK'
PROOF
  BY DEF SMTypeOK, smVars

LEMMA CMUnchanged == CMTypeOK /\ UNCHANGED cmVars => CMTypeOK'
PROOF
  BY DEF CMTypeOK, cmVars

(* raiseEvent.                                                             *)
LEMMA RaiseType ==
  ASSUME SMTypeOK, NEW r \in Raiser, NEW e \in AsyncEvent,
         RaiseDiscarded(r, e) \/ RaiseLookup(r, e) \/ RaiseDesire(r) \/ RaiseStore(r)
  PROVE  SMTypeOK'
PROOF
  <1>1. CASE RaiseDiscarded(r, e)
    BY <1>1, SMUnchanged DEF RaiseDiscarded
  <1>2. CASE RaiseLookup(r, e)
    <2>1. Transition[<<state, e>>] \in State
      BY <1>2, TableValue, StateMachineAssumption DEF RaiseLookup, SMTypeOK, Event
    <2>. QED
      BY <1>2, <2>1 DEF RaiseLookup, SMTypeOK, Raising, NoRaise
  <1>3. CASE RaiseDesire(r)
    BY <1>3 DEF RaiseDesire, SMTypeOK, Raising, NoRaise
  <1>4. CASE RaiseStore(r)
    BY <1>4 DEF RaiseStore, SMTypeOK, Raising, NoRaise, WaiterPlace
  <1>. QED
    BY <1>1, <1>2, <1>3, <1>4

(* The activity thread's operations on the state machine.                  *)
LEMMA ConsumeType ==
  ASSUME SMTypeOK, NEW e \in Event, consumeEvent(e) \/ nextState(e)
  PROVE  SMTypeOK'
PROOF
  <1>1. CASE consumeEvent(e)
    BY <1>1 DEF consumeEvent, SMTypeOK
  <1>2. CASE nextState(e)
    <2>1. HasTransition(state, e) => Transition[<<state, e>>] \in State
      BY TableValue DEF SMTypeOK
    <2>. QED
      BY <1>2, <2>1 DEF nextState, SMTypeOK
  <1>. QED
    BY <1>1, <1>2

LEMMA WaitType ==
  ASSUME SMTypeOK, NEW events, waitTest(events) \/ waitBlock \/ stop
  PROVE  SMTypeOK'
PROOF
  BY DEF waitTest, waitBlock, stop, SMTypeOK, WaiterPlace

(* getNextLevel never leaves the levels of the transition sets.            *)
LEMMA NextLevelType ==
  ASSUME NEW c \in Command, NEW l \in CommandLevel
  PROVE  getNextLevel(c, l) \in CommandLevel
PROOF
  <1>1. 0 \in CommandLevel
    BY DEF CommandLevel
  <1>2. ASSUME l \in DOMAIN TransitionSet[c]
        PROVE  TransitionSet[c][l] \in CommandLevel
    BY <1>2 DEF CommandLevel
  <1>. QED
    BY <1>1, <1>2 DEF getNextLevel

(* The steps of a caller, of the watcher and of the destructor.            *)
LEMMA CMStepType ==
  ASSUME CMTypeOK, NEW c \in Command, NEW t \in CMThread,
         \/ Deliver(c) \/ ReadLevel(c) \/ changeLevel(c)
         \/ TriggerWait(t) \/ TriggerStore(t) \/ Watcher \/ DestroyManager
  PROVE  CMTypeOK'
PROOF
  <1>. USE DEF CMTypeOK, CallerPlace
  <1>0. Command \subseteq CMThread /\ Main \in CMThread
    BY DEF CMThread
  <1>1. CASE Deliver(c)
    BY <1>0, <1>1 DEF Deliver
  <1>2. CASE ReadLevel(c)
    BY <1>0, <1>2, NextLevelType DEF ReadLevel
  <1>3. CASE changeLevel(c)
    <2>1. 0 \in CommandLevel
      BY DEF CommandLevel
    <2>. QED
      BY <1>0, <1>3, <2>1 DEF changeLevel
  <1>4. CASE TriggerWait(t)
    BY <1>4 DEF TriggerWait
  <1>5. CASE TriggerStore(t)
    BY <1>5 DEF TriggerStore, WatcherPlace
  <1>6. CASE WatcherSleeps \/ WatcherBlocks \/ WatcherTakes
    <2>1. CASE WatcherSleeps
      BY <2>1 DEF WatcherSleeps, WatcherPlace
    <2>2. CASE WatcherBlocks
      BY <2>2 DEF WatcherBlocks, WatcherPlace
    <2>3. CASE WatcherTakes
      BY <2>3 DEF WatcherTakes, WatcherPlace
    <2>. QED
      BY <1>6, <2>1, <2>2, <2>3
  <1>7. CASE verifyLevel
    <2>1. active' \subseteq Command
      BY <1>7 DEF verifyLevel
    <2>2. watcher' \in [at : WatcherPlace, next : Nat]
      BY <1>7 DEF verifyLevel, WatcherPlace
    <2>. QED
      BY <1>7, <2>1, <2>2 DEF verifyLevel
  <1>8. CASE DestroyManager
    BY <1>0, <1>8 DEF DestroyManager
  <1>. QED
    BY <1>1, <1>2, <1>3, <1>4, <1>5, <1>6, <1>7, <1>8 DEF Watcher

LEMMA TypeInit == Init => TypeOK
PROOF
  <1>1. Init => SMTypeOK
    BY StateMachineAssumption
    DEF Init, AppInit, SMInit, SMTypeOK, AppState, Raising, NoRaise, WaiterPlace
  <1>2. Init => CMTypeOK
    <2>1. InitiallyEnabled \subseteq Command
      BY PeriodicCommandAssumption, CommandAssumption
      DEF InitiallyEnabled, PeriodicCommand, AppCommand, RequestOf
    <2>2. Init => watcher \in [at : WatcherPlace, next : Nat]
      BY DEF Init, AppInit, CMInit, WatcherPlace
    <2>3. Init => active \subseteq enabled /\ enabled \subseteq Command
      BY <2>1 DEF Init, AppInit, CMInit
    <2>0. 0 \in CommandLevel
      BY DEF CommandLevel
    <2>4. Init => frame \in [CMThread -> CallerPlace] /\ nextLevel \in [Command -> CommandLevel]
      BY <2>0 DEF Init, AppInit, CMInit, CallerPlace
    <2>5. Init => level \in CommandLevel /\ calls \in Nat
      BY <2>0 DEF Init, AppInit, CMInit
    <2>6. Init => trigger \in BOOLEAN /\ should_exit \in BOOLEAN
      BY DEF Init, AppInit, CMInit
    <2>. QED
      BY <2>2, <2>3, <2>4, <2>5, <2>6 DEF CMTypeOK
  <1>3. Init => toggles \in Seq(Toggle)
    BY DEF Init, AppInit
  <1>. QED
    BY <1>1, <1>2, <1>3
    DEF Init, AppInit, TypeOK, AppTypeOK, Label, Event, SyncEvent, MonitorPlace

(* The updates the activities ask for.                                     *)
LEMMA ToggleType ==
  /\ <<>> \in Seq(Toggle)
  /\ \A c \in {"activate", "stopActivation", "deactivate"} :
       <<Enable(c)>> \in Seq(Toggle) /\ <<Disable(c)>> \in Seq(Toggle)
  /\ <<Disable("activate"), Disable("stopActivation"), Enable("deactivate")>> \in Seq(Toggle)
PROOF
  <1>1. \A a, b, c \in Toggle : <<a>> \in Seq(Toggle) /\ <<a, b, c>> \in Seq(Toggle)
    OBVIOUS
  <1>2. \A c \in {"activate", "stopActivation", "deactivate"} :
          Enable(c) \in Toggle /\ Disable(c) \in Toggle
    BY DEF Enable, Disable, Toggle
  <1>. QED
    BY <1>1, <1>2

LEMMA TypeStep == TypeOK /\ [Next]_vars => TypeOK'
PROOF
  <1>. SUFFICES ASSUME TypeOK, [Next]_vars
                PROVE  TypeOK'
    OBVIOUS
  <1>. USE DEF TypeOK, AppTypeOK
  <1>a. SMTypeOK /\ CMTypeOK
    OBVIOUS
  (* The activity thread. *)
  <1>1. CASE UpdateCommand /\ UNCHANGED periodicVars
    <2>1. SMTypeOK'
      BY <1>a, <1>1, SMUnchanged DEF UpdateCommand
    <2>2. Head(toggles) \in Toggle /\ toggles' \in Seq(Toggle)
      BY <1>1 DEF UpdateCommand
    <2>3. Head(toggles).command \in Command
      BY <2>2, CommandAssumption DEF Toggle, AppCommand, RequestOf
    <2>4. CMTypeOK'
      BY <1>a, <1>1, <2>3
      DEF UpdateCommand, setEnabled, setDisabled, CMTypeOK, CMThread, CallerPlace
    <2>. QED
      BY <1>1, <2>1, <2>2, <2>4 DEF UpdateCommand, monitorVars, periodicVars
  <1>2. CASE (Consume \/ Move) /\ UNCHANGED periodicVars
    <2>1. SMTypeOK'
      BY <1>a, <1>2, ConsumeType DEF Consume, Move
    <2>2. CMTypeOK'
      BY <1>a, <1>2, CMUnchanged DEF Consume, Move
    <2>. QED
      BY <1>2, <2>1, <2>2 DEF Consume, Move, monitorVars, periodicVars, Label
  <1>3. CASE (Wait \/ Stop) /\ UNCHANGED periodicVars
    <2>1. SMTypeOK'
      BY <1>a, <1>3, WaitType DEF Wait, Stop
    <2>2. CMTypeOK'
      BY <1>a, <1>3, CMUnchanged DEF Wait, Stop
    <2>. QED
      BY <1>3, <2>1, <2>2 DEF Wait, Stop, monitorVars, periodicVars, Label
  <1>4. CASE /\ \/ Execute \/ EnterIdle \/ EnterFail \/ React
                \/ EnterActivation \/ ActivationStops \/ ActivationQuits \/ ActivationSucceeds
                \/ EnterQuit
             /\ UNCHANGED periodicVars
    <2>1. SMTypeOK' /\ CMTypeOK'
      BY <1>a, <1>4, SMUnchanged, CMUnchanged
      DEF Execute, EnterIdle, EnterFail, React, EnterActivation, ActivationStops,
          ActivationQuits, ActivationSucceeds, EnterQuit
    <2>2. toggles' \in Seq(Toggle)
      BY <1>4, ToggleType
      DEF Execute, EnterIdle, EnterFail, React, EnterActivation, ActivationStops,
          ActivationQuits, ActivationSucceeds, EnterQuit
    <2>3. pc' \in Label /\ firing' \in Event
      BY <1>4
      DEF Execute, EnterIdle, EnterFail, React, EnterActivation, ActivationStops,
          ActivationQuits, ActivationSucceeds, EnterQuit, Fire, FirstRequest,
          Label, Event, SyncEvent, AsyncEvents
    <2>. QED
      BY <1>4, <2>1, <2>2, <2>3
      DEF Execute, EnterIdle, EnterFail, React, EnterActivation, ActivationStops,
          ActivationQuits, ActivationSucceeds, EnterQuit, monitorVars, periodicVars, MonitorPlace
  <1>5. CASE Destroy /\ UNCHANGED periodicVars
    <2>1. CMTypeOK'
      BY <1>a, <1>5, CMStepType, CommandAssumption DEF Destroy, CMThread, AppCommand
    <2>. QED
      BY <1>5, <1>a, <2>1, SMUnchanged DEF Destroy, activityVars, monitorVars, periodicVars
  <1>6. CASE Gone /\ UNCHANGED periodicVars
    BY <1>6, <1>a, SMUnchanged, CMUnchanged DEF Gone, monitorVars, periodicVars, Label
  <1>7. CASE Settle(flag) /\ flag' = FALSE /\ UNCHANGED <<is_paused, failure>>
    <2>1. toggles' \in Seq(Toggle)
      BY <1>7, ToggleType DEF Settle
    <2>2. pc' \in Label /\ firing' \in Event
      BY <1>7 DEF Settle, Fire, Label, Event, SyncEvent, AsyncEvents
    <2>. QED
      BY <1>7, <1>a, <2>1, <2>2, SMUnchanged, CMUnchanged DEF Settle, monitorVars
  <1>8. CASE Close /\ is_paused' = FALSE /\ UNCHANGED <<failure, flag>>
    BY <1>8, <1>a, SMUnchanged, CMUnchanged DEF Close, Label
  <1>9. CASE \/ EnterRun \/ Cycle \/ CycleEnds \/ LeaveRun
             \/ EnterDeactivation \/ DeactivationCycle \/ DeactivationCycleEnds
             \/ DeactivatingReturns
    <2>1. SMTypeOK' /\ CMTypeOK'
      BY <1>a, <1>9, SMUnchanged, CMUnchanged
      DEF EnterRun, Cycle, CycleEnds, LeaveRun, EnterDeactivation, DeactivationCycle,
          DeactivationCycleEnds, DeactivatingReturns
    <2>. QED
      BY <1>9, <2>1
      DEF EnterRun, Cycle, CycleEnds, LeaveRun, EnterDeactivation, DeactivationCycle,
          DeactivationCycleEnds, DeactivatingReturns, Fire, monitorVars, periodicVars,
          Label, Event, SyncEvent, AsyncEvents
  <1>10. ASSUME NEW t \in CMThread, TriggerLevelWatcher(t), UNCHANGED periodicVars
         PROVE  TypeOK'
    <2>1. CMTypeOK'
      BY <1>a, <1>10, CMStepType, CommandAssumption DEF TriggerLevelWatcher, AppCommand
    <2>. QED
      BY <1>10, <1>a, <2>1, SMUnchanged
      DEF TriggerLevelWatcher, activityVars, monitorVars, periodicVars
  (* The other threads. *)
  <1>11. CASE MonitorThread
    BY <1>11, <1>a, SMUnchanged, CMUnchanged
    DEF MonitorThread, Monitor, MonitorReadsState, MonitorReadsDesired, MonitorJudges,
        activityVars, periodicVars, MonitorPlace
  <1>12. CASE WatcherThread
    <2>1. CMTypeOK'
      BY <1>a, <1>12, CMStepType, CommandAssumption
      DEF WatcherThread, LevelWatcher, CMThread, AppCommand
    <2>. QED
      BY <1>12, <1>a, <2>1, SMUnchanged
      DEF WatcherThread, LevelWatcher, activityVars, monitorVars, periodicVars
  <1>13. ASSUME NEW c \in Command, CommandBody(c), UNCHANGED periodicVars
         PROVE  TypeOK'
    <2>1. SMTypeOK'
      <3>1. \A k \in DOMAIN RequestOf : RequestOf[k] \in AsyncEvent
        BY StateMachineAssumption DEF RequestOf, AsyncEvents
      <3>2. c \in Raiser
        BY StateMachineAssumption DEF AppRaiser
      <3>3. CASE \/ c \in DOMAIN RequestOf /\ RaiseDiscarded(c, RequestOf[c])
                 \/ c \in DOMAIN RequestOf /\ RaiseLookup(c, RequestOf[c])
        BY <1>a, <3>1, <3>2, <3>3, RaiseType
      <3>4. CASE RaiseDesire(c) \/ RaiseStore(c)
        <4>1. "quit_request" \in AsyncEvent
          BY StateMachineAssumption DEF AsyncEvents
        <4>. QED
          BY <1>a, <3>2, <3>4, <4>1, RaiseType
      <3>5. CASE UNCHANGED smVars
        BY <1>a, <3>5, SMUnchanged
      <3>. QED
        BY <1>13, <3>3, <3>4, <3>5 DEF CommandBody
    <2>2. CMTypeOK'
      BY <1>a, <1>13
      DEF CommandBody, Returns, cmButFrame, CMTypeOK, CMThread, CallerPlace
    <2>. QED
      BY <1>13, <2>1, <2>2 DEF CommandBody, activityVars, monitorVars, periodicVars
  <1>14. ASSUME NEW c \in Command, PauseOrContinue(c)
         PROVE  TypeOK'
    <2>1. CMTypeOK'
      BY <1>a, <1>14
      DEF PauseOrContinue, Returns, cmButFrame, CMTypeOK, CMThread, CallerPlace
    <2>. QED
      BY <1>14, <1>a, <2>1, SMUnchanged DEF PauseOrContinue, activityVars, monitorVars
  <1>15. ASSUME NEW c \in Command, CommandCall(c), UNCHANGED periodicVars
         PROVE  TypeOK'
    <2>1. CMTypeOK'
      BY <1>a, <1>15, CMStepType DEF CommandCall, CMThread
    <2>. QED
      BY <1>15, <1>a, <2>1, SMUnchanged
      DEF CommandCall, activityVars, monitorVars, periodicVars
  <1>16. CASE UNCHANGED vars
    BY <1>16, <1>a, SMUnchanged, CMUnchanged
    DEF vars, appVars, activityVars, monitorVars, periodicVars
  <1>. QED
    BY <1>1, <1>2, <1>3, <1>4, <1>5, <1>6, <1>7, <1>8, <1>9, <1>10, <1>11, <1>12, <1>13,
       <1>14, <1>15, <1>16
    DEF Next, ActivityThread, AppActivity, PluginActivates, CommandThread, CMThread

(* Every variable keeps its type.                                          *)
THEOREM TypeCorrect == Spec => []TypeOK
PROOF
  <1>. QED
    BY TypeInit, TypeStep, PTL DEF Spec

-----------------------------------------------------------------------------
(* Where the activity thread is.                                           *)

(* The label of the activity thread tells the state, and whoever is inside *)
(* nextState has an event that the state handles and that only the         *)
(* activity thread can lower.                                              *)
Place ==
  /\ pc = "boot" => state = "initialization"
  /\ pc \in {"wait", "react"} => state \in {"idle", "fail"}
  /\ pc = "react" => isRaised(FirstRequest) \/ isRaised("quit_request")
  /\ pc = "probe" => state = "activation"
  /\ pc \in {"run", "cycled"} => state = "run"
  /\ pc \in {"deactivating", "paused", "settle"} => state = "deactivation"
  /\ pc = "settle" => flag \/ isRaised("quit_request")
  /\ pc \in {"close", "handshake", "stopped", "gone"} => state = "quit"
  /\ pc \in {"consume", "move"} =>
       HasTransition(state, firing) /\ firing # "failed_activation"
  /\ pc = "consume" => isRaised(firing)

(* The other threads leave the activity thread alone, raise events and     *)
(* never lower one.                                                        *)
LEMMA OthersKeep ==
  ASSUME \/ MonitorThread \/ WatcherThread \/ \E c \in Command : CommandThread(c)
         \/ UNCHANGED vars
  PROVE  /\ UNCHANGED <<state, pc, firing, toggles, flag, quit>>
         /\ raised \subseteq raised'
PROOF
  <1>1. CASE MonitorThread
    BY <1>1
    DEF MonitorThread, Monitor, MonitorReadsState, MonitorReadsDesired, MonitorJudges,
        smVars, activityVars, periodicVars
  <1>2. CASE WatcherThread
    BY <1>2 DEF WatcherThread, LevelWatcher, smVars, activityVars, periodicVars
  <1>3. ASSUME NEW c \in Command, CommandThread(c)
        PROVE  UNCHANGED <<state, pc, firing, toggles, flag, quit>> /\ raised \subseteq raised'
    <2>1. CASE CommandBody(c) /\ UNCHANGED periodicVars
      BY <2>1
      DEF CommandBody, RaiseDiscarded, RaiseLookup, RaiseDesire, RaiseStore, smVars,
          activityVars, periodicVars
    <2>2. CASE PauseOrContinue(c)
      BY <2>2 DEF PauseOrContinue, smVars, activityVars
    <2>3. CASE (CommandCall(c) \/ TriggerLevelWatcher(c)) /\ UNCHANGED periodicVars
      BY <2>3 DEF CommandCall, TriggerLevelWatcher, smVars, activityVars, periodicVars
    <2>. QED
      BY <1>3, <2>1, <2>2, <2>3 DEF CommandThread
  <1>4. CASE UNCHANGED vars
    BY <1>4 DEF vars, appVars, smVars, activityVars, periodicVars
  <1>. QED
    BY <1>1, <1>2, <1>3, <1>4

LEMMA PlaceInit == Init => Place
PROOF
  BY DEF Init, AppInit, SMInit, Place

LEMMA PlaceStep == TypeOK /\ Place /\ [Next]_vars => Place'
PROOF
  <1>. SUFFICES ASSUME TypeOK, Place, [Next]_vars
                PROVE  Place'
    OBVIOUS
  <1>. USE DEF Place, isRaised, FirstRequest
  <1>a. state \in State /\ firing \in Event /\ State = AppState
    BY StateMachineAssumption DEF TypeOK, AppTypeOK, SMTypeOK
  <1>1. CASE \/ MonitorThread \/ WatcherThread \/ \E c \in Command : CommandThread(c)
             \/ UNCHANGED vars
    BY <1>1, OthersKeep DEF HasTransition
  <1>2. CASE (UpdateCommand \/ Destroy \/ Gone \/ TriggerLevelWatcher(Main)) /\ UNCHANGED periodicVars
    BY <1>2
    DEF UpdateCommand, Destroy, Gone, At, TriggerLevelWatcher, smVars, activityVars, periodicVars,
        HasTransition
  <1>3. CASE Consume /\ UNCHANGED periodicVars
    BY <1>3 DEF Consume, At, consumeEvent, HasTransition
  <1>4. CASE Move /\ UNCHANGED periodicVars
    BY <1>4 DEF Move
  <1>5. CASE Execute /\ UNCHANGED periodicVars
    BY <1>5, <1>a, TableDomain
    DEF Execute, At, Fire, smVars, SyncEvent, AsyncEvents, Event, AppState, HasTransition
  <1>6. CASE (EnterIdle \/ EnterFail \/ EnterActivation \/ EnterQuit) /\ UNCHANGED periodicVars
    BY <1>6 DEF EnterIdle, EnterFail, EnterActivation, EnterQuit, smVars
  <1>7. CASE Wait /\ UNCHANGED periodicVars
    BY <1>7 DEF Wait, At, waitTest, waitBlock
  <1>8. CASE React /\ UNCHANGED periodicVars
    BY <1>8, <1>a, TableDomain
    DEF React, At, Fire, smVars, AsyncEvents, Event, AppState, HasTransition
  <1>9. CASE (ActivationSucceeds \/ ActivationStops \/ ActivationQuits) /\ UNCHANGED periodicVars
    BY <1>9, <1>a, TableDomain
    DEF ActivationSucceeds, ActivationStops, ActivationQuits, At, Fire, smVars,
        SyncEvent, AsyncEvents, Event, AppState, HasTransition
  <1>10. CASE Stop /\ UNCHANGED periodicVars
    BY <1>10 DEF Stop, At, stop
  <1>11. CASE Settle(flag) /\ flag' = FALSE /\ UNCHANGED <<is_paused, failure>>
    BY <1>11, <1>a, TableDomain
    DEF Settle, At, Fire, smVars, SyncEvent, AsyncEvents, Event, AppState, HasTransition
  <1>12. CASE Close /\ is_paused' = FALSE /\ UNCHANGED <<failure, flag>>
    BY <1>12 DEF Close, At, smVars
  <1>13. CASE \/ EnterRun \/ Cycle \/ CycleEnds
              \/ EnterDeactivation \/ DeactivationCycle \/ DeactivationCycleEnds
              \/ DeactivatingReturns
    BY <1>13
    DEF EnterRun, Cycle, CycleEnds, EnterDeactivation, DeactivationCycle,
        DeactivationCycleEnds, DeactivatingReturns, At, smVars, periodicVars
  <1>14. CASE LeaveRun
    <2>1. state = "run" /\ state' = state /\ raised' = raised
      BY <1>14 DEF LeaveRun, At, smVars
    <2>2. \/ firing' = "failure" /\ pc' = "move"
          \/ /\ firing' \in {"deactivation_request", "quit_request"}
             /\ firing' \in raised
             /\ pc' = "consume"
      <3>1. CASE flag
        BY <1>14, <3>1 DEF LeaveRun, Fire, AsyncEvents
      <3>2. CASE ~flag /\ isRaised("deactivation_request")
        BY <1>14, <3>2 DEF LeaveRun, Fire, AsyncEvents
      <3>3. CASE ~flag /\ ~isRaised("deactivation_request")
        BY <1>14, <3>3 DEF LeaveRun, RunStops, Fire, AsyncEvents
      <3>. QED
        BY <3>1, <3>2, <3>3
    <2>3. HasTransition("run", firing')
      BY <1>a, <2>1, <2>2, TableDomain DEF Event, SyncEvent, AsyncEvents
    <2>. QED
      BY <2>1, <2>2, <2>3 DEF HasTransition
  <1>. QED
    BY <1>1, <1>2, <1>3, <1>4, <1>5, <1>6, <1>7, <1>8, <1>9, <1>10, <1>11, <1>12, <1>13, <1>14
    DEF Next, ActivityThread, AppActivity, PluginActivates

LEMMA PlaceCorrect == Spec => []Place
PROOF
  <1>. QED
    BY TypeCorrect, PlaceInit, PlaceStep, PTL DEF Spec

-----------------------------------------------------------------------------
(* The component implements its life cycle.                                *)

(* Inside nextState the event leads along an edge of the diagram.          *)
LEMMA MoveIsAnEdge ==
  ASSUME NEW s \in State, NEW e \in Event, HasTransition(s, e), e # "failed_activation"
  PROVE  /\ e \in AsyncEvents => <<s, Transition[<<s, e>>]>> \in Lifecycle!RequestEdge(e)
         /\ e \notin AsyncEvents => <<s, Transition[<<s, e>>]>> \in Lifecycle!OwnEdge
PROOF
  <1>1. s \in AppState /\ Transition[<<s, e>>] = TargetOf[e]
    BY TableValue, StateMachineAssumption
  <1>2. CASE e = "quit_request"
    BY <1>1, <1>2, TableDomain DEF AppState, TargetOf, AsyncEvents, Lifecycle!RequestEdge
  <1>3. CASE e = "deactivation_request"
    BY <1>1, <1>3, TableDomain DEF TargetOf, AsyncEvents, Lifecycle!RequestEdge
  <1>4. CASE e \in {"activation_request", "stop_activation"}
    BY <1>1, <1>4, TableDomain DEF TargetOf, AsyncEvents, Lifecycle!RequestEdge
  <1>5. CASE e \in SyncEvent
    BY <1>1, <1>5, TableDomain DEF TargetOf, SyncEvent, AsyncEvents, Lifecycle!OwnEdge
  <1>. QED
    BY <1>2, <1>3, <1>4, <1>5 DEF Event, AsyncEvents

LEMMA LifecycleInit == Init => Lifecycle!Init
PROOF
  BY DEF Init, AppInit, SMInit, Lifecycle!Init, Asked

LEMMA LifecycleStep ==
  TypeOK /\ Place /\ [Next]_vars => [Lifecycle!Next]_<<state, Asked>>
PROOF
  <1>. SUFFICES ASSUME TypeOK, Place, [Next]_vars
                PROVE  [Lifecycle!Next]_<<state, Asked>>
    OBVIOUS
  <1>a. /\ state \in State /\ firing \in Event /\ raised \subseteq AsyncEvents
        /\ raising \in [Raiser -> Raising] /\ AsyncEvent = AsyncEvents /\ Raiser = Command
    BY StateMachineAssumption DEF TypeOK, AppTypeOK, SMTypeOK, AppRaiser
  (* A raised flag is a request that is made. *)
  <1>1. ASSUME NEW c \in Command, CommandThread(c)
        PROVE  [Lifecycle!Next]_<<state, Asked>>
    <2>1. UNCHANGED <<state, pc, firing>>
      BY <1>1, OthersKeep
    <2>2. CASE raised' = raised
      BY <2>1, <2>2 DEF Asked
    <2>3. CASE RaiseStore(c)
      <3>1. raising[c].event \in AsyncEvents
        BY <1>a, <2>3 DEF RaiseStore, Raising, NoRaise
      <3>2. Asked' = Asked \cup {raising[c].event}
        BY <2>1, <2>3 DEF RaiseStore, Asked
      <3>. QED
        BY <2>1, <3>1, <3>2 DEF Lifecycle!Next, Lifecycle!Ask, Lifecycle!Request, AsyncEvents
    <2>4. CommandThread(c) => raised' = raised \/ RaiseStore(c)
      BY DEF CommandThread, CommandBody, RaiseDiscarded, RaiseLookup, RaiseDesire,
             PauseOrContinue, CommandCall, TriggerLevelWatcher, smVars
    <2>. QED
      BY <1>1, <2>2, <2>3, <2>4
  <1>2. CASE MonitorThread \/ WatcherThread \/ UNCHANGED vars
    <2>1. UNCHANGED <<state, pc, firing>>
      BY <1>2, OthersKeep
    <2>2. raised' = raised
      BY <1>2
      DEF MonitorThread, Monitor, MonitorReadsState, MonitorReadsDesired, MonitorJudges,
          WatcherThread, LevelWatcher, vars, appVars, smVars
    <2>. QED
      BY <2>1, <2>2 DEF Asked
  (* nextState serves the request it consumes. *)
  <1>3. CASE Consume /\ UNCHANGED periodicVars
    <2>1. firing \in raised /\ firing \in AsyncEvents
      BY <1>a, <1>3 DEF Consume, At, Place, isRaised
    <2>2. UNCHANGED <<state, Asked>>
      BY <1>3, <2>1 DEF Consume, At, consumeEvent, Asked
    <2>. QED
      BY <2>2
  <1>4. CASE Move /\ UNCHANGED periodicVars
    <2>1. HasTransition(state, firing) /\ firing # "failed_activation"
      BY <1>4 DEF Move, At, Place
    <2>2. state' = Transition[<<state, firing>>] /\ Asked' = raised
      BY <1>4, <2>1 DEF Move, nextState, Asked
    <2>3. CASE firing \in AsyncEvents
      <3>1. firing \in Asked /\ Asked' \in {Asked, Asked \ {firing}}
        BY <1>4, <2>2, <2>3 DEF Move, At, Asked
      <3>2. <<state, state'>> \in Lifecycle!RequestEdge(firing)
        BY <1>a, <2>1, <2>2, <2>3, MoveIsAnEdge
      <3>. QED
        BY <2>3, <3>1, <3>2 DEF Lifecycle!Next, Lifecycle!Serve, Lifecycle!Request, AsyncEvents
    <2>4. CASE firing \notin AsyncEvents
      <3>1. Asked' = Asked
        BY <2>2, <2>4 DEF Asked
      <3>2. <<state, state'>> \in Lifecycle!OwnEdge
        BY <1>a, <2>1, <2>2, <2>4, MoveIsAnEdge
      <3>. QED
        BY <3>1, <3>2 DEF Lifecycle!Next, Lifecycle!Proceed
    <2>. QED
      BY <2>3, <2>4
  (* Everything else the activity thread does is invisible. *)
  <1>5. CASE (UpdateCommand \/ TriggerLevelWatcher(Main)) /\ UNCHANGED periodicVars
    BY <1>5 DEF UpdateCommand, TriggerLevelWatcher, smVars, activityVars, Asked
  <1>6. CASE /\ \/ Execute \/ EnterIdle \/ EnterFail \/ Wait \/ React
                \/ EnterActivation \/ ActivationSucceeds \/ ActivationStops
                \/ ActivationQuits \/ EnterQuit \/ Stop \/ Destroy \/ Gone
             /\ UNCHANGED periodicVars
    <2>1. UNCHANGED <<state, raised>>
      BY <1>6
      DEF Execute, EnterIdle, EnterFail, Wait, waitTest, waitBlock, React, EnterActivation,
          ActivationSucceeds, ActivationStops, ActivationQuits, EnterQuit, Stop, stop,
          Destroy, Gone, smVars
    <2>2. pc # "move" /\ (pc' = "move" => firing' \notin AsyncEvents)
      BY <1>6
      DEF Execute, EnterIdle, EnterFail, Wait, React, EnterActivation, ActivationSucceeds,
          ActivationStops, ActivationQuits, EnterQuit, Stop, Destroy, Gone, At, Fire,
          activityVars
    <2>. QED
      BY <2>1, <2>2 DEF Asked
  <1>7. CASE \/ Settle(flag) \/ Close \/ EnterRun \/ Cycle \/ CycleEnds \/ LeaveRun
             \/ EnterDeactivation \/ DeactivationCycle \/ DeactivationCycleEnds
             \/ DeactivatingReturns
    <2>1. UNCHANGED <<state, raised>>
      BY <1>7
      DEF Settle, Close, EnterRun, Cycle, CycleEnds, LeaveRun, EnterDeactivation,
          DeactivationCycle, DeactivationCycleEnds, DeactivatingReturns, smVars
    <2>2. pc # "move" /\ (pc' = "move" => firing' \notin AsyncEvents)
      BY <1>7
      DEF Settle, Close, EnterRun, Cycle, CycleEnds, LeaveRun, EnterDeactivation,
          DeactivationCycle, DeactivationCycleEnds, DeactivatingReturns, At, Fire
    <2>. QED
      BY <2>1, <2>2 DEF Asked
  <1>. QED
    BY <1>1, <1>2, <1>3, <1>4, <1>5, <1>6, <1>7
    DEF Next, ActivityThread, AppActivity, PluginActivates

(* A periodic component, whatever its commands, their levels and the calls *)
(* that are made, implements the life cycle: no request is lost, to quit   *)
(* above all, and nextState always finds the transition it asks for.       *)
THEOREM ImplementsLifecycle == Spec => LifecycleSpec
PROOF
  <1>. QED
    BY TypeCorrect, PlaceCorrect, LifecycleInit, LifecycleStep, PTL
    DEF Spec, LifecycleSpec, Lifecycle!Spec

-----------------------------------------------------------------------------
(* The desired state is explained by a pending request.                    *)

(* The targets on their way to desired are those of the events on their    *)
(* way to raised.                                                          *)
TargetsAreLegal ==
  \A r \in Raiser : raising[r] # NoRaise =>
    \E s \in State : /\ HasTransition(s, raising[r].event)
                    /\ raising[r].target = Transition[<<s, raising[r].event>>]

(* The steps of the activity thread and of the threads that raise nothing  *)
(* leave what the other threads are raising alone.                         *)
LEMMA RaisingChanges ==
  ASSUME [Next]_vars
  PROVE  \/ UNCHANGED raising
         \/ \E c \in DOMAIN RequestOf \cap Command : RaiseLookup(c, RequestOf[c])
         \/ \E c \in Command : RaiseDesire(c) \/ RaiseStore(c)
PROOF
  <1>1. ASSUME NEW c \in Command, CommandThread(c)
        PROVE  \/ UNCHANGED raising
               \/ c \in DOMAIN RequestOf /\ RaiseLookup(c, RequestOf[c])
               \/ RaiseDesire(c) \/ RaiseStore(c)
    BY <1>1
    DEF CommandThread, CommandBody, RaiseDiscarded, PauseOrContinue, CommandCall,
        TriggerLevelWatcher, smVars
  <1>2. CASE MonitorThread \/ WatcherThread \/ UNCHANGED vars
    BY <1>2
    DEF MonitorThread, Monitor, MonitorReadsState, MonitorReadsDesired, MonitorJudges,
        WatcherThread, LevelWatcher, vars, appVars, smVars
  <1>3. CASE ActivityThread \/ PluginActivates
    <2>1. CASE AppActivity
      BY <2>1
      DEF AppActivity, UpdateCommand, Consume, consumeEvent, Move, nextState, Execute,
          EnterIdle, EnterFail, Wait, waitTest, waitBlock, React, EnterActivation,
          ActivationStops, ActivationQuits, EnterQuit, Stop, stop, Destroy, Gone, smVars
    <2>. QED
      BY <1>3, <2>1
      DEF ActivityThread, PluginActivates, ActivationSucceeds, Settle, Close, EnterRun, Cycle,
          CycleEnds, LeaveRun, EnterDeactivation, DeactivationCycle, DeactivationCycleEnds,
          DeactivatingReturns, TriggerLevelWatcher, smVars
  <1>. QED
    BY <1>1, <1>2, <1>3 DEF Next

LEMMA TargetsStep == TypeOK /\ TargetsAreLegal /\ [Next]_vars => TargetsAreLegal'
PROOF
  <1>. SUFFICES ASSUME TypeOK, TargetsAreLegal, [Next]_vars, NEW r \in Raiser, raising'[r] # NoRaise
                PROVE  \E s \in State : /\ HasTransition(s, raising'[r].event)
                                       /\ raising'[r].target = Transition[<<s, raising'[r].event>>]
    BY DEF TargetsAreLegal, HasTransition
  <1>a. raising \in [Raiser -> Raising] /\ state \in State /\ Raiser = Command
    BY StateMachineAssumption DEF TypeOK, AppTypeOK, SMTypeOK, AppRaiser
  <1>1. CASE UNCHANGED raising
    BY <1>1 DEF TargetsAreLegal
  <1>2. ASSUME NEW c \in DOMAIN RequestOf \cap Command, RaiseLookup(c, RequestOf[c])
        PROVE  \E s \in State : /\ HasTransition(s, raising'[r].event)
                                /\ raising'[r].target = Transition[<<s, raising'[r].event>>]
    <2>1. CASE r = c
      BY <1>2, <1>a, <2>1 DEF RaiseLookup
    <2>2. CASE r # c
      BY <1>2, <1>a, <2>2 DEF RaiseLookup, TargetsAreLegal
    <2>. QED
      BY <2>1, <2>2
  <1>3. ASSUME NEW c \in Command, RaiseDesire(c)
        PROVE  \E s \in State : /\ HasTransition(s, raising'[r].event)
                                /\ raising'[r].target = Transition[<<s, raising'[r].event>>]
    <2>1. raising[r] # NoRaise
      BY <1>3, <1>a DEF RaiseDesire, NoRaise
    <2>2. raising'[r].event = raising[r].event /\ raising'[r].target = raising[r].target
      BY <1>3, <1>a, <2>1 DEF RaiseDesire, Raising, NoRaise
    <2>. QED
      BY <2>1, <2>2 DEF TargetsAreLegal
  <1>4. ASSUME NEW c \in Command, RaiseStore(c)
        PROVE  \E s \in State : /\ HasTransition(s, raising'[r].event)
                                /\ raising'[r].target = Transition[<<s, raising'[r].event>>]
    BY <1>4, <1>a DEF RaiseStore, TargetsAreLegal
  <1>. QED
    BY <1>1, <1>2, <1>3, <1>4, RaisingChanges

(* A step that is neither nextState's nor one of a raise leaves the two    *)
(* states and every pending request alone.                                 *)
LEMMA QuietStep ==
  ASSUME TypeOK, [Next]_vars
  PROVE  \/ Consume \/ Move
         \/ \E c \in Command : RaiseDesire(c) \/ RaiseStore(c)
         \/ UNCHANGED <<state, desired>> /\ \A e \in AsyncEvents : Pending(e) => Pending(e)'
PROOF
  <1>a. raising \in [Raiser -> Raising] /\ Raiser = Command
    BY StateMachineAssumption DEF TypeOK, AppTypeOK, SMTypeOK, AppRaiser
  <1>1. ASSUME NEW c \in Command, CommandThread(c)
        PROVE  \/ RaiseDesire(c) \/ RaiseStore(c)
               \/ UNCHANGED <<state, desired>> /\ \A e \in AsyncEvents : Pending(e) => Pending(e)'
    <2>1. UNCHANGED <<pc, firing>>
      BY <1>1, OthersKeep
    <2>2. \/ RaiseDesire(c) \/ RaiseStore(c)
          \/ UNCHANGED smVars \/ \E e \in AsyncEvents : RaiseLookup(c, e)
      BY <1>1
      DEF CommandThread, CommandBody, RaiseDiscarded, PauseOrContinue, CommandCall,
          TriggerLevelWatcher, RequestOf, AsyncEvents
    <2>3. CASE UNCHANGED smVars
      BY <2>1, <2>3 DEF smVars, Pending, Asked
    <2>4. CASE \E e \in AsyncEvents : RaiseLookup(c, e)
      <3>1. \A r \in Raiser : raising[r].at = "store" => raising'[r] = raising[r]
        BY <1>a, <2>4 DEF RaiseLookup, NoRaise
      <3>2. UNCHANGED <<state, desired, raised>>
        BY <2>4 DEF RaiseLookup
      <3>. QED
        BY <2>1, <3>1, <3>2 DEF Pending, Asked
    <2>. QED
      BY <2>2, <2>3, <2>4
  <1>2. CASE MonitorThread \/ WatcherThread \/ UNCHANGED vars
    <2>1. UNCHANGED <<pc, firing>>
      BY <1>2, OthersKeep
    <2>2. UNCHANGED smVars
      BY <1>2
      DEF MonitorThread, Monitor, MonitorReadsState, MonitorReadsDesired, MonitorJudges,
          WatcherThread, LevelWatcher, vars, appVars, smVars
    <2>. QED
      BY <2>1, <2>2 DEF smVars, Pending, Asked
  <1>3. CASE (ActivityThread \/ PluginActivates) /\ ~Consume /\ ~Move
    <2>1. UNCHANGED <<state, desired, raised, raising>>
      BY <1>3
      DEF ActivityThread, AppActivity, UpdateCommand, Execute, EnterIdle, EnterFail, Wait,
          waitTest, waitBlock, React, EnterActivation, ActivationStops, ActivationQuits,
          EnterQuit, Stop, stop, Destroy, Gone, PluginActivates, ActivationSucceeds, Settle,
          Close, EnterRun, Cycle, CycleEnds, LeaveRun, EnterDeactivation, DeactivationCycle,
          DeactivationCycleEnds, DeactivatingReturns, TriggerLevelWatcher, smVars
    <2>2. UNCHANGED <<pc, firing>> \/ pc \notin {"consume", "move"}
      BY <1>3
      DEF ActivityThread, AppActivity, UpdateCommand, Execute, EnterIdle, EnterFail, Wait,
          React, EnterActivation, ActivationStops, ActivationQuits, EnterQuit, Stop, Destroy,
          Gone, PluginActivates, ActivationSucceeds, Settle, Close, EnterRun, Cycle,
          CycleEnds, LeaveRun, EnterDeactivation, DeactivationCycle, DeactivationCycleEnds,
          DeactivatingReturns, TriggerLevelWatcher, activityVars, At
    <2>. QED
      BY <2>1, <2>2 DEF Pending, Asked
  <1>. QED
    BY <1>1, <1>2, <1>3 DEF Next

LEMMA DesiredStep ==
  TypeOK /\ Place /\ TargetsAreLegal /\ DesiredIsExplained /\ [Next]_vars => DesiredIsExplained'
PROOF
  <1>. SUFFICES ASSUME TypeOK, Place, TargetsAreLegal, DesiredIsExplained, [Next]_vars
                PROVE  DesiredIsExplained'
    OBVIOUS
  <1>a. raising \in [Raiser -> Raising] /\ Raiser = Command /\ AsyncEvent = AsyncEvents
    BY StateMachineAssumption DEF TypeOK, AppTypeOK, SMTypeOK, AppRaiser
  <1>1. CASE Consume
    <2>1. UNCHANGED <<state, desired, raising>> /\ \A e \in AsyncEvents : Pending(e) => Pending(e)'
      <3>1. firing \in raised
        BY <1>1 DEF Consume, At, Place, isRaised
      <3>. QED
        BY <1>1, <3>1 DEF Consume, At, consumeEvent, Pending, Asked
    <2>. QED
      BY <2>1 DEF DesiredIsExplained, LeadsTo, HasTransition
  <1>2. CASE Move
    <2>1. HasTransition(state, firing)
      BY <1>2 DEF Move, At, Place
    <2>. QED
      BY <1>2, <2>1 DEF Move, nextState, DesiredIsExplained
  <1>3. ASSUME NEW c \in Command, RaiseDesire(c)
        PROVE  DesiredIsExplained'
    <2>1. /\ raising[c].at = "desire" /\ raising[c] # NoRaise
          /\ raising[c].event \in AsyncEvents
      BY <1>a, <1>3 DEF RaiseDesire, Raising, NoRaise
    <2>2. LeadsTo(raising[c].event, desired')
      BY <1>a, <1>3, <2>1 DEF RaiseDesire, TargetsAreLegal, LeadsTo
    <2>3. raising'[c].at = "store" /\ raising'[c].event = raising[c].event
      BY <1>a, <1>3, <2>1 DEF RaiseDesire, Raising, NoRaise
    <2>4. Pending(raising[c].event)'
      BY <1>a, <2>3 DEF Pending
    <2>. QED
      BY <2>1, <2>2, <2>3, <2>4 DEF DesiredIsExplained, LeadsTo, HasTransition
  <1>4. ASSUME NEW c \in Command, RaiseStore(c)
        PROVE  DesiredIsExplained'
    <2>1. UNCHANGED <<pc, firing>>
      <3>1. CASE \E d \in Command : CommandThread(d)
        BY <3>1, OthersKeep
      <3>2. CASE ActivityThread \/ PluginActivates
        <4>1. UNCHANGED raising
          BY <3>2
          DEF ActivityThread, AppActivity, UpdateCommand, Consume, consumeEvent, Move, nextState,
              Execute, EnterIdle, EnterFail, Wait,
              waitTest, waitBlock, React, EnterActivation, ActivationStops, ActivationQuits,
              EnterQuit, Stop, stop, Destroy, Gone, PluginActivates, ActivationSucceeds, Settle,
              Close, EnterRun, Cycle, CycleEnds, LeaveRun, EnterDeactivation, DeactivationCycle,
              DeactivationCycleEnds, DeactivatingReturns, TriggerLevelWatcher, smVars
        <4>2. raising'[c] # raising[c]
          BY <1>a, <1>4 DEF RaiseStore, NoRaise
        <4>. QED
          BY <4>1, <4>2
      <3>. QED
        BY <3>1, <3>2, OthersKeep DEF Next
    <2>2. \A e \in AsyncEvents : Pending(e) => Pending(e)'
      <3>1. raised' = raised \cup {raising[c].event}
        BY <1>4 DEF RaiseStore
      <3>2. \A r \in Raiser : r # c => raising'[r] = raising[r]
        BY <1>a, <1>4 DEF RaiseStore
      <3>. QED
        BY <2>1, <3>1, <3>2 DEF Pending, Asked
    <2>. QED
      BY <1>4, <2>2 DEF RaiseStore, DesiredIsExplained, LeadsTo, HasTransition
  <1>5. CASE UNCHANGED <<state, desired>> /\ \A e \in AsyncEvents : Pending(e) => Pending(e)'
    BY <1>5 DEF DesiredIsExplained, LeadsTo, HasTransition
  <1>. QED
    BY <1>1, <1>2, <1>3, <1>4, <1>5, QuietStep

(* Whoever reads a desired state other than the state of the component     *)
(* reads the target of a request that is pending.                          *)
THEOREM DesiredExplained == Spec => []DesiredIsExplained
PROOF
  <1>1. Init => TargetsAreLegal /\ DesiredIsExplained
    BY StateMachineAssumption
    DEF Init, AppInit, SMInit, TargetsAreLegal, DesiredIsExplained, NoRaise
  <1>. QED
    BY <1>1, TypeCorrect, PlaceCorrect, TargetsStep, DesiredStep, PTL DEF Spec

-----------------------------------------------------------------------------
(* The order of a shutdown.                                                *)

(* can_die is the monitor's last word; the state machine stops after it;   *)
(* ~CommandManager comes after the state machine, and then the watcher     *)
(* verifies no command any more.                                           *)
Dying ==
  /\ pc = "boot" => monitor = "off"
  /\ can_die => monitor = "ended"
  /\ quit => can_die /\ pc \in {"stopped", "gone"}
  /\ pc \in {"stopped", "gone"} => quit /\ toggles = <<>>
  /\ should_exit => quit /\ watcher.at # "verify" /\ active \cap enabled = {}
  /\ pc = "gone" => should_exit /\ watcher.at = "exited"

LEMMA DyingInit == Init => Dying
PROOF
  BY DEF Init, AppInit, SMInit, CMInit, Dying

LEMMA DyingStep == TypeOK /\ Dying /\ [Next]_vars => Dying'
PROOF
  <1>. SUFFICES ASSUME TypeOK, Dying, [Next]_vars
                PROVE  Dying'
    OBVIOUS
  <1>. USE DEF Dying
  <1>a. watcher \in [at : WatcherPlace, next : Nat] /\ can_die \in BOOLEAN /\ should_quit \in BOOLEAN
    BY DEF TypeOK, AppTypeOK, CMTypeOK
  <1>1. CASE UNCHANGED vars
    BY <1>1 DEF vars, appVars, smVars, cmVars, activityVars, monitorVars
  <1>2. CASE MonitorThread
    <2>1. UNCHANGED <<quit, pc, toggles, should_exit, watcher, active, enabled>>
      BY <1>2
      DEF MonitorThread, Monitor, MonitorReadsState, MonitorReadsDesired, MonitorJudges,
          smVars, cmVars, activityVars
    <2>2. pc # "boot" /\ (can_die' => monitor' = "ended") /\ (can_die => can_die')
      BY <1>2, <1>a
      DEF MonitorThread, Monitor, MonitorReadsState, MonitorReadsDesired, MonitorJudges
    <2>. QED
      BY <2>1, <2>2
  <1>3. CASE WatcherThread
    <2>1. UNCHANGED <<quit, pc, toggles, should_exit, enabled, can_die, monitor>>
      BY <1>3
      DEF WatcherThread, LevelWatcher, Watcher, WatcherSleeps, WatcherBlocks, WatcherTakes,
          verifyLevel, smVars, activityVars, monitorVars
    <2>2. should_exit => watcher'.at # "verify" /\ active' = active
      <3>1. CASE WatcherSleeps \/ WatcherBlocks
        BY <3>1, <1>a DEF WatcherSleeps, WatcherBlocks
      <3>2. CASE WatcherTakes
        BY <3>2 DEF WatcherTakes
      <3>3. CASE verifyLevel
        BY <3>3 DEF verifyLevel
      <3>. QED
        BY <1>3, <3>1, <3>2, <3>3 DEF WatcherThread, LevelWatcher, Watcher
    <2>3. watcher.at # "exited"
      BY <1>3
      DEF WatcherThread, LevelWatcher, Watcher, WatcherSleeps, WatcherBlocks, WatcherTakes,
          verifyLevel
    <2>. QED
      BY <2>1, <2>2, <2>3
  <1>4. ASSUME NEW t \in CMThread, TriggerStore(t) /\ UNCHANGED <<smVars, activityVars, monitorVars>>
        PROVE  Dying'
    <2>1. watcher'.at = IF watcher.at = "asleep" THEN "test" ELSE watcher.at
      BY <1>4, <1>a DEF TriggerStore
    <2>. QED
      BY <1>4, <2>1 DEF TriggerStore, smVars, activityVars, monitorVars
  <1>5. ASSUME NEW t \in CMThread, TriggerWait(t) /\ UNCHANGED <<smVars, activityVars, monitorVars>>
        PROVE  Dying'
    BY <1>5 DEF TriggerWait, smVars, activityVars, monitorVars
  <1>6. ASSUME NEW c \in Command, CommandThread(c), ~TriggerLevelWatcher(c)
        PROVE  Dying'
    <2>1. UNCHANGED <<quit, pc, toggles, can_die, monitor>>
      BY <1>6, OthersKeep
      DEF CommandThread, CommandBody, PauseOrContinue, CommandCall, monitorVars
    <2>2. UNCHANGED <<should_exit, watcher, active, enabled>>
      BY <1>6
      DEF CommandThread, CommandBody, PauseOrContinue, CommandCall, Deliver, ReadLevel,
          changeLevel, cmButFrame
    <2>. QED
      BY <2>1, <2>2
  <1>7. CASE UpdateCommand
    <2>1. toggles # <<>> /\ ~should_exit /\ pc \notin {"stopped", "gone"}
      BY <1>7 DEF UpdateCommand
    <2>2. UNCHANGED <<quit, pc, can_die, monitor, should_exit>>
      BY <1>7 DEF UpdateCommand, setEnabled, setDisabled, smVars, monitorVars
    <2>. QED
      BY <2>1, <2>2
  <1>8. CASE Destroy
    <2>1. watcher.at # "verify" /\ watcher' = watcher /\ active' \cap enabled' = {}
      BY <1>8 DEF Destroy, DestroyManager, levelMutexFree
    <2>. QED
      BY <1>8, <2>1 DEF Destroy, DestroyManager, At, smVars, activityVars, monitorVars
  <1>9. CASE Gone
    BY <1>9 DEF Gone, At, JoinWatcher, smVars, cmVars, monitorVars
  <1>10. CASE Stop
    BY <1>10, <1>a DEF Stop, At, stop, cmVars, monitorVars
  <1>11. CASE \/ Consume \/ Move \/ Execute \/ EnterIdle \/ EnterFail \/ Wait \/ React
              \/ EnterActivation \/ ActivationSucceeds \/ ActivationStops
              \/ ActivationQuits \/ EnterQuit \/ Settle(flag) \/ Close \/ EnterRun \/ Cycle
              \/ CycleEnds \/ LeaveRun \/ EnterDeactivation \/ DeactivationCycle
              \/ DeactivationCycleEnds \/ DeactivatingReturns
    <2>1. /\ UNCHANGED <<quit, can_die, should_exit, watcher, active, enabled>>
          /\ monitor' = monitor \/ ~can_die
      BY <1>11
      DEF Consume, consumeEvent, Move, nextState, Execute, EnterIdle, EnterFail, Wait,
          waitTest, waitBlock, React, EnterActivation, ActivationSucceeds, ActivationStops,
          ActivationQuits, EnterQuit, Settle, Close, EnterRun, Cycle, CycleEnds, LeaveRun,
          EnterDeactivation, DeactivationCycle, DeactivationCycleEnds, DeactivatingReturns,
          At, smVars, cmVars, monitorVars
    <2>2. pc \notin {"stopped", "gone"} /\ pc' \notin {"boot", "stopped", "gone"}
      BY <1>11
      DEF Consume, Move, Execute, EnterIdle, EnterFail, Wait, React, EnterActivation,
          ActivationSucceeds, ActivationStops, ActivationQuits, EnterQuit, Settle, Close,
          EnterRun, Cycle, CycleEnds, LeaveRun, EnterDeactivation, DeactivationCycle,
          DeactivationCycleEnds, DeactivatingReturns, Fire, At
    <2>. QED
      BY <2>1, <2>2
  <1>. QED
    BY <1>1, <1>2, <1>3, <1>4, <1>5, <1>6, <1>7, <1>8, <1>9, <1>10, <1>11
    DEF Next, ActivityThread, AppActivity, PluginActivates, TriggerLevelWatcher, CommandThread,
        CMThread

(* A component that stops has told its monitor, and no reader of a command *)
(* outlives its manager.                                                   *)
THEOREM ShutdownOrdered == Spec => []ShutdownInOrder
PROOF
  <1>1. Place /\ Dying => ShutdownInOrder
    BY DEF Place, Dying, ShutdownInOrder
  <1>. QED
    BY <1>1, TypeCorrect, PlaceCorrect, DyingInit, DyingStep, PTL DEF Spec

-----------------------------------------------------------------------------
(* The enabled commands follow the level.                                  *)

Mismatch(c) == c \in enabled /\ ~(c \in active <=> testLevel(c, level))

(* A command at odds with the level is one somebody is about to look at:   *)
(* an update is under way, a trigger is on its way to the watcher or the   *)
(* watcher has not come to the command yet.                                *)
SomebodyLooks ==
  \A c \in Command : Mismatch(c) =>
    \/ toggles # <<>>
    \/ \E t \in CMThread : frame[t] \in {"gate", "signal"}
    \/ trigger
    \/ watcher.at = "exited"
    \/ watcher.at = "verify" /\ \E i \in watcher.next..Len(VerifyOrder) : VerifyOrder[i] = c

LEMMA LooksInit == Init => SomebodyLooks
PROOF
  BY DEF Init, AppInit, CMInit, SomebodyLooks, Mismatch

LEMMA LooksStep == TypeOK /\ SomebodyLooks /\ [Next]_vars => SomebodyLooks'
PROOF
  <1>. SUFFICES ASSUME TypeOK, SomebodyLooks, [Next]_vars
                PROVE  SomebodyLooks'
    OBVIOUS
  <1>. USE DEF SomebodyLooks, Mismatch, testLevel
  <1>a. /\ watcher \in [at : WatcherPlace, next : Nat]
        /\ frame \in [CMThread -> CallerPlace]
        /\ toggles \in Seq(Toggle)
        /\ Main \in CMThread /\ Command \subseteq CMThread
    BY DEF TypeOK, AppTypeOK, CMTypeOK, CMThread
  <1>1. CASE UNCHANGED <<cmVars, toggles>>
    BY <1>1 DEF cmVars
  (* A caller that changes the level is at the gate; the watcher does not    *)
  (* verify meanwhile.                                                       *)
  <1>2. ASSUME NEW c \in Command, changeLevel(c)
        PROVE  SomebodyLooks'
    BY <1>2, <1>a DEF changeLevel
  <1>3. ASSUME NEW c \in Command, Deliver(c) \/ ReadLevel(c), UNCHANGED toggles
        PROVE  SomebodyLooks'
    BY <1>3, <1>a DEF Deliver, ReadLevel
  <1>4. ASSUME NEW c \in Command, frame[c] = "body", frame' = [frame EXCEPT ![c] = "level"],
               UNCHANGED <<cmButFrame, toggles>>
        PROVE  SomebodyLooks'
    BY <1>4, <1>a DEF cmButFrame
  <1>5. ASSUME NEW t \in CMThread, TriggerWait(t), UNCHANGED toggles
        PROVE  SomebodyLooks'
    BY <1>5, <1>a DEF TriggerWait
  <1>6. ASSUME NEW t \in CMThread, TriggerStore(t)
        PROVE  SomebodyLooks'
    BY <1>6 DEF TriggerStore
  <1>7. CASE (WatcherSleeps \/ WatcherBlocks) /\ UNCHANGED toggles
    BY <1>7, <1>a DEF WatcherSleeps, WatcherBlocks
  <1>8. CASE WatcherTakes /\ UNCHANGED toggles
    BY <1>8, CommandAssumption DEF WatcherTakes
  <1>9. CASE verifyLevel /\ UNCHANGED toggles
    <2>. DEFINE now == VerifyOrder[watcher.next]
    <2>1. UNCHANGED <<enabled, level, trigger, frame, toggles>> /\ watcher.at = "verify"
      BY <1>9 DEF verifyLevel
    <2>2. \A c \in Command : c # now => (c \in active' <=> c \in active)
      BY <1>9 DEF verifyLevel
    <2>3. now \in enabled => (now \in active' <=> testLevel(now, level))
      <3>1. CASE now \in enabled /\ testLevel(now, level)
        <4>1. active' = active \cup {now}
          BY <1>9, <3>1 DEF verifyLevel
        <4>. QED
          BY <3>1, <4>1
      <3>2. CASE now \in enabled /\ ~testLevel(now, level)
        <4>1. active' = active \ {now}
          BY <1>9, <3>2 DEF verifyLevel
        <4>. QED
          BY <3>2, <4>1
      <3>. QED
        BY <3>1, <3>2
    <2>4. \/ watcher'.at = "verify" /\ watcher'.next = watcher.next + 1
          \/ watcher.next >= Len(VerifyOrder)
      BY <1>9, <1>a, CommandAssumption DEF verifyLevel
    <2>5. \A c \in Command :
            c # now /\ (\E i \in watcher.next..Len(VerifyOrder) : VerifyOrder[i] = c)
            => /\ watcher'.at = "verify"
               /\ \E i \in watcher'.next..Len(VerifyOrder) : VerifyOrder[i] = c
      <3>1. ASSUME NEW c \in Command, c # now,
                   NEW i \in watcher.next..Len(VerifyOrder), VerifyOrder[i] = c
            PROVE  watcher'.at = "verify" /\ i \in watcher'.next..Len(VerifyOrder)
        <4>1. watcher.next \in Nat /\ Len(VerifyOrder) \in Nat
          BY <1>a, CommandAssumption
        <4>2. i # watcher.next
          BY <3>1
        <4>. QED
          BY <2>4, <4>1, <4>2
      <3>. QED
        BY <3>1
    <2>. QED
      <3>1. \A c \in Command : Mismatch(c)' => Mismatch(c) /\ c # now
        <4>. SUFFICES ASSUME NEW c \in Command, Mismatch(c)'
                      PROVE  Mismatch(c) /\ c # now
          OBVIOUS
        <4>1. testLevel(c, level)' <=> testLevel(c, level)
          BY <2>1
        <4>2. CASE c = now
          BY <2>1, <2>3, <4>1, <4>2
        <4>3. CASE c # now
          BY <2>1, <2>2, <4>1, <4>3
        <4>. QED
          BY <4>2, <4>3
      <3>. QED
        BY <2>1, <2>5, <3>1
  (* Destroying the manager and updating a command end at the gate.          *)
  <1>10. CASE DestroyManager
    BY <1>10, <1>a DEF DestroyManager
  <1>11. CASE UpdateCommand
    <2>1. CASE Len(toggles) = 1
      BY <1>11, <2>1, <1>a DEF UpdateCommand
    <2>2. CASE Len(toggles) # 1
      <3>1. toggles' = Tail(toggles) /\ toggles # <<>>
        BY <1>11 DEF UpdateCommand
      <3>2. Len(toggles) > 1 /\ Len(Tail(toggles)) = Len(toggles) - 1
        <4>1. Len(toggles) \in Nat /\ Len(toggles) # 0
          BY <1>a, <3>1, EmptySeq
        <4>2. Len(Tail(toggles)) = Len(toggles) - 1
          BY <1>a, <3>1, HeadTailProperties
        <4>. QED
          BY <2>2, <4>1, <4>2
      <3>3. Tail(toggles) # <<>>
        BY <3>2
      <3>. QED
        BY <3>1, <3>3
    <2>. QED
      BY <2>1, <2>2
  <1>12. CASE UNCHANGED cmVars /\ toggles = <<>>
    BY <1>12 DEF cmVars
  <1>13. CASE ActivityThread \/ PluginActivates
    <2>1. CASE AppActivity
      BY <2>1, <1>10, <1>11, <1>12
      DEF AppActivity, Consume, Move, Execute, EnterIdle, EnterFail, Wait, React,
          EnterActivation, ActivationStops, ActivationQuits, EnterQuit, Stop, Destroy, Gone, At
    <2>2. CASE TriggerLevelWatcher(Main)
      BY <2>2, <1>a, <1>5, <1>6 DEF TriggerLevelWatcher, activityVars
    <2>. QED
      BY <1>13, <2>1, <2>2, <1>12
      DEF ActivityThread, PluginActivates, ActivationSucceeds, Settle, Close, EnterRun, Cycle,
          CycleEnds, LeaveRun, EnterDeactivation, DeactivationCycle, DeactivationCycleEnds,
          DeactivatingReturns, At
  <1>14. ASSUME NEW c \in Command, CommandThread(c)
         PROVE  SomebodyLooks'
    <2>1. UNCHANGED toggles
      BY <1>14, OthersKeep
    <2>2. CASE CommandBody(c)
      BY <2>1, <2>2, <1>1, <1>4 DEF CommandBody, Returns, cmButFrame, cmVars
    <2>3. CASE PauseOrContinue(c)
      BY <2>1, <2>3, <1>4 DEF PauseOrContinue, Returns
    <2>4. CASE CommandCall(c) \/ TriggerLevelWatcher(c)
      BY <2>1, <2>4, <1>a, <1>2, <1>3, <1>5, <1>6 DEF CommandCall, TriggerLevelWatcher
    <2>. QED
      BY <1>14, <2>2, <2>3, <2>4 DEF CommandThread
  <1>15. CASE MonitorThread \/ UNCHANGED vars
    BY <1>15, <1>1
    DEF MonitorThread, Monitor, MonitorReadsState, MonitorReadsDesired, MonitorJudges,
        vars, appVars, activityVars
  <1>16. CASE WatcherThread
    BY <1>16, <1>7, <1>8, <1>9 DEF WatcherThread, LevelWatcher, Watcher, activityVars
  <1>. QED
    BY <1>13, <1>14, <1>15, <1>16 DEF Next

(* Once nobody is left to look, every enabled command is callable exactly  *)
(* at its levels.                                                          *)
THEOREM EnabledFollow == Spec => []EnabledFollowLevel
PROOF
  <1>1. TypeOK /\ SomebodyLooks => EnabledFollowLevel
    BY DEF SomebodyLooks, Mismatch, EnabledFollowLevel, Settled, TypeOK, AppTypeOK, CMTypeOK
  <1>. QED
    BY <1>1, TypeCorrect, LooksInit, LooksStep, PTL DEF Spec
=============================================================================
