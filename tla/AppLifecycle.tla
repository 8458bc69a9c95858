---------------------------- MODULE AppLifecycle ----------------------------
(***************************************************************************)
(* What a component promises to the rest of the framework about its state: *)
(* it moves along the edges of the life-cycle diagram of the documentation *)
(* (doc/Application.md), an edge that is labelled with a request is taken  *)
(* only to serve a request of that kind that was made and not yet served,  *)
(* a request to quit is never withdrawn, and quit is final.                *)
(***************************************************************************)
VARIABLES
  state,     (* the state the component is in                              *)
  asked      (* the requests made and not yet served                       *)

Request == {"activation_request", "deactivation_request", "stop_activation",
            "quit_request"}

(* The edges the component takes by itself, and those a request takes.     *)
OwnEdge == {<<"initialization", "idle">>, <<"activation", "run">>,
            <<"run", "fail">>, <<"deactivation", "idle">>}

RequestEdge(r) ==
  CASE r = "activation_request" -> {<<"idle", "activation">>}
    [] r = "stop_activation" -> {<<"activation", "idle">>}
    [] r = "deactivation_request" -> {"run", "fail"} \X {"deactivation"}
    [] OTHER -> {"idle", "activation", "run", "fail", "deactivation"} \X {"quit"}

Init ==
  /\ state = "initialization"
  /\ asked = {}

Ask(r) ==
  /\ asked' = asked \cup {r}
  /\ UNCHANGED state

Proceed ==
  /\ <<state, state'>> \in OwnEdge
  /\ UNCHANGED asked

(* A request that is repeated while it is being served stays.              *)
Serve(r) ==
  /\ r \in asked
  /\ <<state, state'>> \in RequestEdge(r)
  /\ asked' \in {asked, asked \ {r}}

Next == Proceed \/ \E r \in Request : Ask(r) \/ Serve(r)

Spec == Init /\ [][Next]_<<state, asked>>
=============================================================================
