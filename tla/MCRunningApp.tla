---------------------------- MODULE MCRunningApp ----------------------------
(***************************************************************************)
(* A component that has been activated and is in RUN: the calls that led   *)
(* there are not counted, so that MaxCalls bounds those made to a running  *)
(* component.  RunningInit is a reachable state of PeriodicApp's Spec: the *)
(* command activate was called, its level change verified, checkActivation *)
(* succeeded and every thread is between two steps.  It may be paused: the *)
(* command pause can be delivered together with activate.                  *)
(***************************************************************************)
EXTENDS PeriodicApp

RunningInit ==
  /\ SMInit("run")
  /\ enabled = {"shutdown", "where", "pause", "continue", "deactivate"}
  /\ active = {"shutdown", "where", "continue", "deactivate", "stopActivation"}
  /\ level = 1
  /\ trigger = FALSE
  /\ should_exit = FALSE
  /\ watcher = [at |-> "asleep", next |-> 1]
  /\ frame = [t \in CMThread |-> "idle"]
  /\ nextLevel = [c \in Command |-> 0]
  /\ calls = 0
  /\ pc = "start"
  /\ firing = "activated"
  /\ toggles = <<>>
  /\ should_quit = FALSE
  /\ can_die = FALSE
  /\ monitor = "looping"
  /\ is_paused \in BOOLEAN
  /\ failure = FALSE
  /\ flag = FALSE

RunningSpec == RunningInit /\ [][Next]_vars /\ Fairness
=============================================================================
