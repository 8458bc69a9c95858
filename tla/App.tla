--------------------------------- MODULE App ---------------------------------
(***************************************************************************)
(* A component process of the framework (class App of modules/application):*)
(* the thread that runs the activities of its state machine, the monitor   *)
(* thread, and the threads of the console commands every component has.    *)
(* run(), deactivating() and close() are virtual: the modules that extend  *)
(* this one (PeriodicApp) define them.                                     *)
(*                                                                         *)
(* Left out: logging, the status message's contents other than the two     *)
(* states, the anomaly notification of the monitor, and what               *)
(* setDefaultSchedulerPolicy asks of the operating system.                 *)
(***************************************************************************)
EXTENDS StateMachine, CommandManager

VARIABLES
  pc,            (* where the activity thread is                            *)
  firing,        (* the event given to the call of nextState it is in       *)
  toggles,       (* setEnabled/setDisabled calls it is about to make, then  *)
                 (* one triggerLevelWatcher                                 *)
  should_quit,   (* App::should_quit                                        *)
  can_die,       (* App::can_die                                            *)
  monitor        (* where monitorApp is                                     *)

AppState == {"initialization", "idle", "activation", "run", "deactivation",
             "fail", "quit"}

SyncEvent == {"initialized", "activated", "failed_activation", "deactivated",
              "failure"}

AsyncEvents == {"activation_request", "deactivation_request",
                "stop_activation", "quit_request"}

Event == SyncEvent \cup AsyncEvents

(* Every event of the table leads to one state, wherever it happens.       *)
TargetOf ==
  [initialized |-> "idle", activated |-> "run", failed_activation |-> "idle",
   deactivated |-> "idle", failure |-> "fail",
   activation_request |-> "activation", deactivation_request |-> "deactivation",
   stop_activation |-> "idle", quit_request |-> "quit"]

(* Fault: the entry that lets a failed component shut down is missing.     *)
TransitionWithoutFailQuit ==
  [k \in ({"idle", "activation", "run", "deactivation"} \X {"quit_request"})
         \cup {<<"initialization", "initialized">>, <<"idle", "activation_request">>,
               <<"run", "failure">>, <<"deactivation", "deactivated">>}
         \cup ({"run", "fail"} \X {"deactivation_request"})
         \cup ({"activation"} \X {"activated", "failed_activation", "stop_activation"}) |->
     TargetOf[k[2]]]

(* The transition table of AppStateMachine.                                *)
AppTransition ==
  [k \in ({"idle", "activation", "run", "fail", "deactivation"} \X {"quit_request"})
         \cup ({"run", "fail"} \X {"deactivation_request"})
         \cup ({"activation"} \X {"activated", "failed_activation", "stop_activation"})
         \cup {<<"initialization", "initialized">>, <<"idle", "activation_request">>,
               <<"run", "failure">>, <<"deactivation", "deactivated">>} |->
     TargetOf[k[2]]]

(* The commands every App adds, and the event each raises; "where" prints  *)
(* the state and raises nothing.                                           *)
RequestOf ==
  [activate |-> "activation_request", stopActivation |-> "stop_activation",
   deactivate |-> "deactivation_request", shutdown |-> "quit_request"]

AppCommand == DOMAIN RequestOf \cup {"where"}

ASSUME CommandAssumption == /\ AppCommand \subseteq Command
                            /\ Main \notin Command
                            /\ MaxCalls \in Nat
                            /\ VerifyOrder \in Seq(Command)
                            /\ \A c \in Command : \E i \in 1..Len(VerifyOrder) :
                                 VerifyOrder[i] = c
                            /\ \A c \in Command : \A l \in DOMAIN TransitionSet[c] :
                                 l \in Int /\ TransitionSet[c][l] \in Int

(* The state machine of a component.                                       *)
AppRaiser == Command

ASSUME StateMachineAssumption == /\ State = AppState
                                 /\ AsyncEvent = AsyncEvents
                                 /\ Transition = AppTransition
                                 /\ Raiser = AppRaiser

activityVars == <<pc, firing, toggles>>
monitorVars == <<should_quit, can_die, monitor>>
appVars == <<smVars, cmVars, activityVars, monitorVars>>

(* The labels of the activity thread.                                      *)
(*  "boot"         before execute()                                        *)
(*  "start"        at the head of StateMachine::start's loop               *)
(*  "wait"         in waitAsynchEvent of idle() or fail()                  *)
(*  "react"        waitAsynchEvent has returned                            *)
(*  "probe"        in the loop of activation()                             *)
(*  "run", "cycled"              in the loop of run()                      *)
(*  "deactivating", "settle"     in deactivating(); it has returned        *)
(*  "consume", "move"            in nextState(firing)                      *)
(*  "close", "handshake"         in quit(): before close(); on quit_cv     *)
(*  "stopped", "gone"            start() has returned; ~App is over        *)
Label == {"boot", "start", "wait", "react", "probe", "run", "cycled", "paused",
          "deactivating", "settle", "consume", "move", "close", "handshake", "stopped", "gone"}

Toggle == [command : {"activate", "stopActivation", "deactivate"}, on : BOOLEAN]

(* "looping" the next read is that of the state, "desired" the state read  *)
(* was quit, "judge" the desired state read was quit as well               *)
MonitorPlace == {"off", "looping", "desired", "judge", "ended"}

AppTypeOK ==
  /\ SMTypeOK
  /\ CMTypeOK
  /\ pc \in Label
  /\ firing \in Event
  /\ toggles \in Seq(Toggle)
  /\ should_quit \in BOOLEAN
  /\ can_die \in BOOLEAN
  /\ monitor \in MonitorPlace

AppInit(enabledCommands) ==
  /\ SMInit("initialization")
  /\ CMInit(enabledCommands)
  /\ pc = "boot"
  /\ firing = "initialized"
  /\ toggles = <<>>
  /\ should_quit = FALSE
  /\ can_die = FALSE
  /\ monitor = "off"

-----------------------------------------------------------------------------
(* The activity thread: what all activities use.                           *)

(* The thread is at label l and not inside a command update.               *)
At(l) == pc = l /\ toggles = <<>> /\ frame[Main] = "idle"

(* Call nextState(e).                                                      *)
Fire(e) ==
  /\ firing' = e
  /\ pc' = IF e \in AsyncEvents THEN "consume" ELSE "move"

Enable(c) == [command |-> c, on |-> TRUE]
Disable(c) == [command |-> c, on |-> FALSE]

UpdateCommand ==
  /\ toggles # <<>>
  /\ frame[Main] = "idle"
  /\ IF Head(toggles).on THEN setEnabled(Head(toggles).command)
                         ELSE setDisabled(Head(toggles).command)
  /\ toggles' = Tail(toggles)
  /\ frame' = [frame EXCEPT ![Main] = IF Len(toggles) = 1 THEN "gate" ELSE "idle"]
  /\ UNCHANGED <<smVars, pc, firing, monitorVars>>

Consume ==
  /\ At("consume")
  /\ consumeEvent(firing)
  /\ pc' = "move"
  /\ UNCHANGED <<cmVars, firing, toggles, monitorVars>>

Move ==
  /\ At("move")
  /\ nextState(firing)
  /\ pc' = "start"
  /\ UNCHANGED <<cmVars, firing, toggles, monitorVars>>

-----------------------------------------------------------------------------
(* The activities.                                                         *)

Execute ==
  /\ At("boot")
  /\ monitor' = "looping"
  /\ Fire("initialized")
  /\ UNCHANGED <<smVars, cmVars, toggles, should_quit, can_die>>

EnterIdle ==
  /\ At("start") /\ state = "idle"
  /\ toggles' = <<Enable("activate")>>
  /\ pc' = "wait"
  /\ UNCHANGED <<smVars, cmVars, firing, monitorVars>>

EnterFail ==
  /\ At("start") /\ state = "fail"
  /\ pc' = "wait"
  /\ UNCHANGED <<smVars, cmVars, firing, toggles, monitorVars>>

(* The request idle() and fail() look for first; the other is quit_request.*)
FirstRequest == IF state = "idle" THEN "activation_request" ELSE "deactivation_request"

Wait ==
  /\ At("wait")
  /\ \/ /\ waitTest({FirstRequest, "quit_request"})
        /\ pc' = IF waiter' = "out" THEN "react" ELSE "wait"
     \/ waitBlock /\ UNCHANGED pc
  /\ UNCHANGED <<cmVars, firing, toggles, monitorVars>>

React ==
  /\ At("react")
  /\ IF isRaised(FirstRequest) THEN Fire(FirstRequest) ELSE Fire("quit_request")
  /\ UNCHANGED <<smVars, cmVars, toggles, monitorVars>>

EnterActivation ==
  /\ At("start") /\ state = "activation"
  /\ toggles' = <<Enable("stopActivation")>>
  /\ pc' = "probe"
  /\ UNCHANGED <<smVars, cmVars, firing, monitorVars>>

(* checkActivation() may also return false; the loop then starts again.    *)
ActivationSucceeds ==
  /\ At("probe")
  /\ ~isRaised("stop_activation") /\ ~isRaised("quit_request")
  /\ toggles' = <<Disable("activate"), Disable("stopActivation"), Enable("deactivate")>>
  /\ Fire("activated")
  /\ UNCHANGED <<smVars, cmVars, monitorVars>>

ActivationStops ==
  /\ At("probe")
  /\ isRaised("stop_activation")
  /\ toggles' = <<Disable("stopActivation")>>
  /\ Fire("stop_activation")
  /\ UNCHANGED <<smVars, cmVars, monitorVars>>

ActivationQuits ==
  /\ At("probe")
  /\ ~isRaised("stop_activation") /\ isRaised("quit_request")
  /\ Fire("quit_request")
  /\ UNCHANGED <<smVars, cmVars, toggles, monitorVars>>

(* deactivation(), once deactivating() has returned ok.                    *)
Settle(ok) ==
  /\ At("settle")
  /\ IF ok /\ ~isRaised("quit_request")
     THEN Fire("deactivated") /\ toggles' = <<Disable("deactivate")>>
     ELSE Fire("quit_request") /\ UNCHANGED toggles
  /\ UNCHANGED <<smVars, cmVars, monitorVars>>

EnterQuit ==
  /\ At("start") /\ state = "quit"
  /\ pc' = "close"
  /\ UNCHANGED <<smVars, cmVars, firing, toggles, monitorVars>>

(* Fault: should_quit is never raised.                                     *)
CloseNoShouldQuit ==
  /\ At("close")
  /\ pc' = "handshake"
  /\ UNCHANGED <<smVars, cmVars, firing, toggles, monitorVars>>

Close ==
  /\ At("close")
  /\ should_quit' = TRUE
  /\ pc' = "handshake"
  /\ UNCHANGED <<smVars, cmVars, firing, toggles, can_die, monitor>>

(* Fault: quit() does not wait for the monitor.                            *)
StopNoHandshake ==
  /\ At("handshake")
  /\ stop
  /\ pc' = "stopped"
  /\ UNCHANGED <<cmVars, firing, toggles, monitorVars>>

Stop ==
  /\ At("handshake")
  /\ can_die
  /\ stop
  /\ pc' = "stopped"
  /\ UNCHANGED <<cmVars, firing, toggles, monitorVars>>

(* ~App: the monitor thread is joined, then the command manager goes.      *)
Destroy ==
  /\ At("stopped")
  /\ monitor = "ended"
  /\ DestroyManager
  /\ UNCHANGED <<smVars, activityVars, monitorVars>>

Gone ==
  /\ At("stopped")
  /\ JoinWatcher
  /\ pc' = "gone"
  /\ UNCHANGED <<smVars, cmVars, firing, toggles, monitorVars>>

(* What the thread must go on doing: every step but ActivationSucceeds,    *)
(* which is the choice of the plugin's checkActivation().                  *)
AppActivity ==
  \/ UpdateCommand \/ Consume \/ Move
  \/ Execute \/ EnterIdle \/ EnterFail \/ Wait \/ React
  \/ EnterActivation \/ ActivationStops \/ ActivationQuits
  \/ EnterQuit \/ Stop \/ Destroy \/ Gone

-----------------------------------------------------------------------------
(* monitorApp: the two states are read in two critical sections.  A pass   *)
(* of the loop that cannot end it changes nothing that is modelled.        *)

MonitorReadsState ==
  /\ monitor = "looping"
  /\ state = "quit"
  /\ monitor' = "desired"
  /\ UNCHANGED <<smVars, cmVars, activityVars, should_quit, can_die>>

MonitorReadsDesired ==
  /\ monitor = "desired"
  /\ monitor' = IF desired = "quit" THEN "judge" ELSE "looping"
  /\ UNCHANGED <<smVars, cmVars, activityVars, should_quit, can_die>>

MonitorJudges ==
  /\ monitor = "judge"
  /\ can_die' = (can_die \/ should_quit)
  /\ monitor' = IF should_quit THEN "ended" ELSE "looping"
  /\ UNCHANGED <<smVars, cmVars, activityVars, should_quit>>

Monitor == MonitorReadsState \/ MonitorReadsDesired \/ MonitorJudges

-----------------------------------------------------------------------------
(* The threads of the commands.                                            *)

Returns(c) == frame' = [frame EXCEPT ![c] = "level"]

cmButFrame == <<enabled, active, level, trigger, should_exit, watcher, nextLevel, calls>>

CommandBody(c) ==
  /\ frame[c] = "body"
  /\ \/ c = "where" /\ Returns(c) /\ UNCHANGED smVars
     \/ c \in DOMAIN RequestOf /\ RaiseDiscarded(c, RequestOf[c]) /\ Returns(c)
     \/ c \in DOMAIN RequestOf /\ RaiseLookup(c, RequestOf[c]) /\ UNCHANGED frame
     \/ RaiseDesire(c) /\ UNCHANGED frame
     \/ RaiseStore(c) /\ Returns(c)
  /\ UNCHANGED <<cmButFrame, activityVars, monitorVars>>

CommandCall(c) ==
  /\ Deliver(c) \/ ReadLevel(c) \/ changeLevel(c)
  /\ UNCHANGED <<smVars, activityVars, monitorVars>>

TriggerLevelWatcher(t) ==
  /\ TriggerWait(t) \/ TriggerStore(t)
  /\ UNCHANGED <<smVars, activityVars, monitorVars>>

LevelWatcher == Watcher /\ UNCHANGED <<smVars, activityVars, monitorVars>>
=============================================================================
