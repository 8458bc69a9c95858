---------------------------- MODULE StateWatcher ----------------------------
(***************************************************************************)
(* state_machine::StateMachineWatcher: the states the components publish,  *)
(* as far as they have been received, by name.  DDS is external: reliable, *)
(* in order for each publisher, and it hands a late subscriber what was    *)
(* published before, as long as the publisher lives.                       *)
(***************************************************************************)
EXTENDS Components, Sequences

CONSTANTS State, NoState

ASSUME WatcherAssumption == NoState \notin State

VARIABLES
  state,      (* the state each component is in; NoState before and after  *)
  published,  (* what it has published and the watcher has not received    *)
  app_states, (* StateMachineWatcher::app_states                           *)
  been        (* history: the names and the states they have been in       *)

watcherVars == <<state, published, app_states, been>>

WatcherTypeOK ==
  /\ state \in [Instance -> State \cup {NoState}]
  /\ published \in [Instance -> Seq(State)]
  /\ app_states \in [Owner -> State \cup {NoState}]
  /\ been \subseteq Owner \X State

(* start gives the state of the components that run already.               *)
WatcherInit(start) ==
  /\ state = start
  /\ published = [i \in Instance |-> IF start[i] = NoState THEN <<>> ELSE <<start[i]>>]
  /\ app_states = [o \in Owner |-> NoState]
  /\ been = {<<OwnerOf[i], start[i]>> : i \in {i \in Instance : start[i] # NoState}}

Enter(i, s) ==
  /\ state' = [state EXCEPT ![i] = s]
  /\ published' = [published EXCEPT ![i] = Append(@, s)]
  /\ been' = been \cup {<<OwnerOf[i], s>>}
  /\ UNCHANGED app_states

(* The component ends; what it published goes with it.                     *)
Vanish(i) ==
  /\ state' = [state EXCEPT ![i] = NoState]
  /\ published' = [published EXCEPT ![i] = <<>>]
  /\ UNCHANGED <<app_states, been>>

(* The reader's callback: the latest state under a name, whoever sent it.  *)
Receive(i) ==
  /\ published[i] # <<>>
  /\ app_states' = [app_states EXCEPT ![OwnerOf[i]] = Head(published[i])]
  /\ published' = [published EXCEPT ![i] = Tail(@)]
  /\ UNCHANGED <<state, been>>

findState(app_name, s) == app_states[app_name] = s
=============================================================================
