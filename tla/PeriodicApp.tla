----------------------------- MODULE PeriodicApp -----------------------------
(***************************************************************************)
(* A periodic component (class PeriodicApp): the loops of run() and        *)
(* deactivating(), and the commands pause and continue.  The plugin's own  *)
(* run() and deactivation() are what the loops call: run() may call        *)
(* setFailure(), deactivation() says whether it is done.  Scheduling,      *)
(* the real-time check and the resource monitor are left out.              *)
(***************************************************************************)
EXTENDS App

VARIABLES
  is_paused,     (* PeriodicApp::is_paused                                  *)
  failure,       (* PeriodicApp::failure                                    *)
  flag           (* the local of run() (failure) or deactivating() (deactivated) *)

periodicVars == <<is_paused, failure, flag>>
vars == <<appVars, periodicVars>>

PeriodicCommand == AppCommand \cup {"pause", "continue"}

ASSUME PeriodicCommandAssumption == PeriodicCommand \subseteq Command

(* The transition sets given to addCommand.                                *)
PeriodicTransitionSet ==
  [c \in PeriodicCommand |->
     CASE c \in {"activate", "pause"} -> [l \in {0} |-> 1]
       [] c \in {"stopActivation", "continue"} -> [l \in {1} |-> 0]
       [] c = "deactivate" -> [l \in {ALL_STATES_EXCEPT_ZERO} |-> 0]
       [] OTHER -> [l \in {} |-> 0]]

(* The order of std::map<std::string, ...>.                                *)
PeriodicVerifyOrder ==
  <<"activate", "continue", "deactivate", "pause", "shutdown", "stopActivation", "where">>

InitiallyEnabled == {"shutdown", "where", "pause", "continue"}

TypeOK ==
  /\ AppTypeOK
  /\ is_paused \in BOOLEAN
  /\ failure \in BOOLEAN
  /\ flag \in BOOLEAN

Init ==
  /\ AppInit(InitiallyEnabled)
  /\ is_paused = FALSE
  /\ failure = FALSE
  /\ flag = FALSE

-----------------------------------------------------------------------------
(* run()                                                                   *)

EnterRun ==
  /\ At("start") /\ state = "run"
  /\ flag' = FALSE
  /\ pc' = "run"
  /\ UNCHANGED <<smVars, cmVars, firing, toggles, monitorVars, is_paused, failure>>

(* Fault: the loop does not poll quit_request.                             *)
RunStopsButNotToQuit == flag \/ isRaised("deactivation_request")

RunStops == flag \/ isRaised("deactivation_request") \/ isRaised("quit_request")

(* One call of the plugin's run(), then checkFailure().                    *)
Cycle ==
  /\ At("run")
  /\ ~RunStops
  /\ failure' \in {failure, TRUE}
  /\ flag' = failure'
  /\ pc' = "cycled"
  /\ UNCHANGED <<smVars, cmVars, firing, toggles, monitorVars, is_paused>>

(* isPaused() and pauseExecution(): its wait evaluates is_paused under the *)
(* mutex the commands take, so no wake-up is lost.                         *)
CycleEnds ==
  /\ At("cycled")
  /\ ~is_paused
  /\ pc' = "run"
  /\ UNCHANGED <<smVars, cmVars, firing, toggles, monitorVars, periodicVars>>

LeaveRun ==
  /\ At("run")
  /\ RunStops
  /\ Fire(CASE flag -> "failure"
            [] ~flag /\ isRaised("deactivation_request") -> "deactivation_request"
            [] OTHER -> "quit_request")
  /\ flag' = FALSE
  /\ UNCHANGED <<smVars, cmVars, toggles, monitorVars, is_paused, failure>>

-----------------------------------------------------------------------------
(* deactivating()                                                          *)

EnterDeactivation ==
  /\ At("start") /\ state = "deactivation"
  /\ flag' = FALSE
  /\ pc' = "deactivating"
  /\ UNCHANGED <<smVars, cmVars, firing, toggles, monitorVars, is_paused, failure>>

DeactivationCycle ==
  /\ At("deactivating")
  /\ ~flag /\ ~isRaised("quit_request")
  /\ flag' \in BOOLEAN
  /\ pc' = "paused"
  /\ UNCHANGED <<smVars, cmVars, firing, toggles, monitorVars, is_paused, failure>>

DeactivationCycleEnds ==
  /\ At("paused")
  /\ ~is_paused
  /\ pc' = "deactivating"
  /\ UNCHANGED <<smVars, cmVars, firing, toggles, monitorVars, periodicVars>>

DeactivatingReturns ==
  /\ At("deactivating")
  /\ flag \/ isRaised("quit_request")
  /\ pc' = "settle"
  /\ UNCHANGED <<smVars, cmVars, firing, toggles, monitorVars, periodicVars>>

-----------------------------------------------------------------------------
(* The commands pause and continue.                                        *)

PauseOrContinue(c) ==
  /\ c \in {"pause", "continue"}
  /\ frame[c] = "body"
  /\ is_paused' = (c = "pause")
  /\ Returns(c)
  /\ UNCHANGED <<smVars, cmButFrame, activityVars, monitorVars, failure, flag>>

-----------------------------------------------------------------------------
ActivityThread ==
  \/ AppActivity /\ UNCHANGED periodicVars
  \/ Settle(flag) /\ flag' = FALSE /\ UNCHANGED <<is_paused, failure>>
  \/ Close /\ is_paused' = FALSE /\ UNCHANGED <<failure, flag>>
  \/ EnterRun \/ Cycle \/ CycleEnds \/ LeaveRun
  \/ EnterDeactivation \/ DeactivationCycle \/ DeactivationCycleEnds \/ DeactivatingReturns
  \/ TriggerLevelWatcher(Main) /\ UNCHANGED periodicVars

CommandThread(c) ==
  \/ CommandBody(c) /\ UNCHANGED periodicVars
  \/ PauseOrContinue(c)
  \/ CommandCall(c) /\ UNCHANGED periodicVars
  \/ TriggerLevelWatcher(c) /\ UNCHANGED periodicVars

MonitorThread == Monitor /\ UNCHANGED periodicVars

WatcherThread == LevelWatcher /\ UNCHANGED periodicVars

PluginActivates == ActivationSucceeds /\ UNCHANGED periodicVars

Next ==
  \/ ActivityThread
  \/ PluginActivates
  \/ MonitorThread
  \/ WatcherThread
  \/ \E c \in Command : CommandThread(c)

Spec == Init /\ [][Next]_vars

(* The operating system runs every thread.  Nothing obliges a user to call *)
(* a command, nor the plugin to succeed in activating or deactivating.     *)
(* (The thread of a command that is never called has no step to take.)     *)
Fairness ==
  /\ WF_vars(ActivityThread)
  /\ WF_vars(MonitorThread)
  /\ WF_vars(WatcherThread)
  /\ \A c \in Called : WF_vars(CommandThread(c) /\ calls' = calls)

FairSpec == Spec /\ Fairness

-----------------------------------------------------------------------------
(* Safety.                                                                 *)

(* The requests made and not yet served: those whose flag is raised, and   *)
(* the one nextState has consumed and not yet acted on.                    *)
Asked == raised \cup IF pc = "move" /\ firing \in AsyncEvents THEN {firing} ELSE {}

Lifecycle == INSTANCE AppLifecycle WITH asked <- Asked

(* The component implements its life cycle: whatever the threads do, it    *)
(* moves only along the edges of the diagram, each request that is         *)
(* consumed takes the edge of its own kind (nextState never reports        *)
(* "transition does not exist"), and none is lost, to quit above all.      *)
LifecycleSpec == Lifecycle!Spec

(* No command update is under way and none is asked for.                   *)
Settled ==
  /\ toggles = <<>>
  /\ \A t \in CMThread : frame[t] \notin {"gate", "signal"}
  /\ ~trigger
  /\ watcher.at \in {"test", "block", "asleep"}

(* Whatever calls and updates overlap, once the watcher has nothing left   *)
(* to do every enabled command is callable exactly at its levels.          *)
EnabledFollowLevel ==
  Settled => \A c \in enabled : c \in active <=> testLevel(c, level)

(* The request e is on its way to being served: a thread is about to raise *)
(* its flag, or the flag is raised, or nextState is at work on it.         *)
Pending(e) ==
  \/ \E r \in Raiser : raising[r].at = "store" /\ raising[r].event = e
  \/ e \in Asked
  \/ pc = "consume" /\ firing = e

LeadsTo(e, s) ==
  \E from \in State : HasTransition(from, e) /\ s = Transition[<<from, e>>]

(* The status a component publishes differs from the one it desires only   *)
(* while a request that leads to the desired state is pending: this is     *)
(* what makes the monitor's WRONG_PROCESS_STATE anomaly meaningful.        *)
DesiredIsExplained ==
  desired # state => \E e \in AsyncEvents : Pending(e) /\ LeadsTo(e, desired)

(* The order of a shutdown: the state machine stops only after the monitor *)
(* has published "quit", the readers of the enabled commands go only after *)
(* that and none comes back, and ~CommandManager outlives its watcher.     *)
ShutdownInOrder ==
  /\ quit => state = "quit" /\ monitor = "ended"
  /\ should_exit => quit /\ active \cap enabled = {}
  /\ pc = "gone" => watcher.at = "exited"

-----------------------------------------------------------------------------
(* Liveness.                                                               *)

PausedLoop == is_paused /\ pc \in {"cycled", "paused"}

(* A request to quit made to a running component is served, whatever else  *)
(* is requested, unless the component is paused: run() and deactivating()  *)
(* poll the flag.                                                          *)
RunQuits ==
  (state = "run" /\ "quit_request" \in raised) ~> (state = "quit" \/ PausedLoop)

(* The last handshake completes: a component in QUIT ends its state        *)
(* machine, unless a request that was looked up in an earlier state        *)
(* overwrites the desired state after QUIT was entered.                    *)
QuitCompletes == state = "quit" ~> (quit \/ desired # "quit")

-----------------------------------------------------------------------------
(* What documentation and comments say and the code does not keep.         *)

(* doc/StateMachine.md: "If an event happens in a state that does not      *)
(* handle it, the event is discarded.  So there is no memory about past    *)
(* events": no activity starts with a request raised that its state does   *)
(* not handle.                                                             *)
NoMemoryOfPastEvents ==
  pc = "start" => \A e \in raised : HasTransition(state, e)

(* doc/StateMachine.md: the state machine "needs to detect the occurrence  *)
(* of such event at any time": a component that waits for quit_request     *)
(* notices it.                                                             *)
WaitHearsQuit == (At("wait") /\ "quit_request" \in raised) ~> pc # "wait"
=============================================================================
