---------------------------- MODULE StateMachine ----------------------------
(***************************************************************************)
(* The generic state machine of modules/state_machine: one thread runs the *)
(* activities of the states and fires the transitions (nextState,          *)
(* waitAsynchEvent); any other thread may raise an asynchronous event      *)
(* (raiseEvent).  The module holds the operations; the program counter of  *)
(* the thread that runs the activities belongs to the module that uses it. *)
(*                                                                         *)
(* The publication of the state on DDS (notifyState, notifyRT) is left     *)
(* out.  Each operation is cut into the steps between which another thread *)
(* can be scheduled: a locked section or one access to an atomic.          *)
(***************************************************************************)
CONSTANTS
  State,         (* the State objects                                      *)
  AsyncEvent,    (* the AsyncEvent objects                                 *)
  Transition,    (* std::map transitions: [<<state, event>> |-> state]     *)
  Raiser         (* the threads that call raiseEvent                       *)

VARIABLES
  state,         (* StateMachine::state                                    *)
  desired,       (* StateMachine::desired_state_                           *)
  raised,        (* the events whose async_events flag is true             *)
  quit,          (* StateMachine::quit                                     *)
  waiter,        (* the activity thread inside waitAsynchEvent             *)
  raising        (* the call of raiseEvent each thread is in               *)

smVars == <<state, desired, raised, quit, waiter, raising>>

NoRaise == [at |-> "out"]

Raising ==
  {NoRaise} \cup [at : {"desire", "store"}, event : AsyncEvent, target : State]

(* "out"    not in waitAsynchEvent                                         *)
(* "test"   woken, about to evaluate the predicate again                   *)
(* "block"  the predicate was false, not yet asleep on async_cv            *)
(* "asleep" blocked on async_cv                                            *)
WaiterPlace == {"out", "test", "block", "asleep"}

SMTypeOK ==
  /\ state \in State
  /\ desired \in State
  /\ raised \subseteq AsyncEvent
  /\ quit \in BOOLEAN
  /\ waiter \in WaiterPlace
  /\ raising \in [Raiser -> Raising]

SMInit(initial) ==
  /\ state = initial
  /\ desired = initial
  /\ raised = {}
  /\ quit = FALSE
  /\ waiter = "out"
  /\ raising = [r \in Raiser |-> NoRaise]

HasTransition(s, e) == <<s, e>> \in DOMAIN Transition

-----------------------------------------------------------------------------
(* raiseEvent                                                              *)

(* The lookup reads state without state_mutex, so the state may have been  *)
(* left by the time the target is published and the flag is set.           *)
RaiseDiscarded(r, e) ==
  /\ raising[r] = NoRaise
  /\ ~HasTransition(state, e)
  /\ UNCHANGED smVars

RaiseLookup(r, e) ==
  /\ raising[r] = NoRaise
  /\ HasTransition(state, e)
  /\ raising' = [raising EXCEPT ![r] =
                   [at |-> "desire", event |-> e, target |-> Transition[<<state, e>>]]]
  /\ UNCHANGED <<state, desired, raised, quit, waiter>>

RaiseDesire(r) ==
  /\ raising[r].at = "desire"
  /\ desired' = raising[r].target
  /\ raising' = [raising EXCEPT ![r].at = "store"]
  /\ UNCHANGED <<state, raised, quit, waiter>>

(* The flag is stored and async_cv notified without async_mutex: a waiter  *)
(* that has evaluated its predicate but is not asleep yet is not woken.    *)
RaiseStore(r) ==
  /\ raising[r].at = "store"
  /\ raised' = raised \cup {raising[r].event}
  /\ waiter' = IF waiter = "asleep" THEN "test" ELSE waiter
  /\ raising' = [raising EXCEPT ![r] = NoRaise]
  /\ UNCHANGED <<state, desired, quit>>

-----------------------------------------------------------------------------
(* The activity thread.                                                    *)

isRaised(e) == e \in raised

(* nextState(AsyncEvent) first lowers the flag ...                         *)
consumeEvent(e) ==
  /\ raised' = raised \ {e}
  /\ UNCHANGED <<state, desired, quit, waiter, raising>>

(* Fault: the state moves and the desired state is left behind.            *)
NextStateKeepsDesired(e) ==
  /\ state' = IF HasTransition(state, e) THEN Transition[<<state, e>>] ELSE state
  /\ UNCHANGED <<desired, raised, quit, waiter, raising>>

(* ... and then, like nextState(Event), moves if the table has an entry    *)
(* (else it prints an error and stays).                                    *)
nextState(e) ==
  /\ IF HasTransition(state, e)
     THEN /\ state' = Transition[<<state, e>>]
          /\ desired' = state'
     ELSE UNCHANGED <<state, desired>>
  /\ UNCHANGED <<raised, quit, waiter, raising>>

(* waitAsynchEvent: the predicate is evaluated on entry and after each     *)
(* wake-up, with async_mutex held.                                         *)
waitTest(events) ==
  /\ waiter \in {"out", "test"}
  /\ waiter' = IF events \cap raised # {} THEN "out" ELSE "block"
  /\ UNCHANGED <<state, desired, raised, quit, raising>>

waitBlock ==
  /\ waiter = "block"
  /\ waiter' = "asleep"
  /\ UNCHANGED <<state, desired, raised, quit, raising>>

stop ==
  /\ quit' = TRUE
  /\ UNCHANGED <<state, desired, raised, waiter, raising>>
=============================================================================
