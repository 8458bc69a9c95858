---------------------------- MODULE SignalGather ----------------------------
(***************************************************************************)
(* The control layer's thread that gathers the signals of the controllers  *)
(* and sends their aggregate to the robot (modules/core_framework/src/     *)
(* control_layer.cpp.in).  Every activation starts one, nothing joins it:  *)
(* it ends when it sees the request that ends the activation, and a        *)
(* request that is consumed while it is busy leaves it to go on beside the *)
(* next one, on the same message.                                          *)
(***************************************************************************)
EXTENDS MovingWindow

CONSTANTS
  NumControllers,   (* controllers, numbered in the order of the map       *)
  Premultiplier,    (* of each                                             *)
  Signals,          (* what the fields of a message can hold               *)
  NumGathers        (* bound: activations                                  *)

ASSUME GatherAssumption ==
  /\ NumControllers \in Nat
  /\ Signals \subseteq Int
  /\ Premultiplier \in [1 .. NumControllers -> Int]

VARIABLES
  activity,            (* the layer: "idle", "run" or "quit"               *)
  raisedRequests,      (* of deactivation_request and quit_request         *)
  control_signal_msg,  (* the aggregate, shared by all threads             *)
  gather               (* the threads that were started                    *)

gatherVars == <<activity, raisedRequests, control_signal_msg, gather>>

Mode == {"TORQUE_MODE", "IMPEDANCE_MODE", "POSITION_MODE", "VELOCITY_MODE"}
Message == [mode : Mode, signal : Signals]

(* read is a history of what the round took from the controllers, alone    *)
(* says whether no other thread was in a round meanwhile.                  *)
Polling == [at |-> "poll", snapshot |-> <<>>, set |-> FALSE, impedance |-> FALSE,
            read |-> <<>>, alone |-> TRUE]

GatherInit ==
  /\ activity = "idle"
  /\ raisedRequests = {}
  /\ control_signal_msg = [mode |-> "TORQUE_MODE", position |-> 0, velocity |-> 0,
                           torques |-> 0, gains |-> 0]
  /\ gather = <<>>

-----------------------------------------------------------------------------
(* The state machine.                                                      *)
checkActivation ==
  /\ activity = "idle" /\ Len(gather) < NumGathers
  /\ activity' = "run"
  /\ gather' = Append(gather, Polling)
  /\ UNCHANGED <<raisedRequests, control_signal_msg>>

(* A deactivation is handled in RUN only, a request to quit in both.       *)
Requests ==
  /\ \E r \in {"deactivation_request", "quit_request"} :
       /\ activity = "run" \/ (activity = "idle" /\ r = "quit_request")
       /\ raisedRequests' = raisedRequests \cup {r}
  /\ UNCHANGED <<activity, control_signal_msg, gather>>

(* Layer::run() consumes the request, a deactivation first.                *)
LeavesRun ==
  /\ activity = "run"
  /\ IF "deactivation_request" \in raisedRequests
     THEN /\ activity' = "idle"
          /\ raisedRequests' = raisedRequests \ {"deactivation_request"}
     ELSE /\ "quit_request" \in raisedRequests
          /\ activity' = "quit"
          /\ raisedRequests' = {}
  /\ UNCHANGED <<control_signal_msg, gather>>

LeavesIdle ==
  /\ activity = "idle" /\ "quit_request" \in raisedRequests
  /\ activity' = "quit"
  /\ raisedRequests' = {}
  /\ UNCHANGED <<control_signal_msg, gather>>

-----------------------------------------------------------------------------
(* A round of controlSignalGather.                                         *)
InRound(t) == gather[t].at \in {"reading", "publishing"}

(* The threads after t began a round: none of those within one is alone.   *)
BeginsRound(t, snapshot) ==
  [u \in DOMAIN gather |->
    CASE u = t -> [Polling EXCEPT !.at = "reading", !.snapshot = snapshot,
                                  !.alone = \A v \in DOMAIN gather : ~InRound(v)]
      [] u # t /\ InRound(u) -> [gather[u] EXCEPT !.alone = FALSE, !.read = <<>>]
      [] OTHER -> gather[u]]

Ends(t) ==
  /\ gather[t].at = "poll" /\ raisedRequests # {}
  /\ gather' = [gather EXCEPT ![t].at = "ended"]
  /\ UNCHANGED <<activity, raisedRequests, control_signal_msg>>

(* Fault: the torques of the last round are kept.                          *)
ClearedModeOnly(msg) == [msg EXCEPT !.mode = "TORQUE_MODE"]

(* Torques and mode are reset, the other fields are not.                   *)
Cleared(msg) == [msg EXCEPT !.torques = 0, !.mode = "TORQUE_MODE"]

(* Which controllers are loaded is the control layer's affair; their       *)
(* snapshot is in the order of the map.                                    *)
Snapshots ==
  {s \in UNION {[1 .. n -> 1 .. NumControllers] : n \in 0 .. NumControllers} :
     \A i, j \in DOMAIN s : i < j => s[i] < s[j]}

(* An unload during the round does not shorten it.                         *)
Begins(t) ==
  /\ gather[t].at = "poll" /\ raisedRequests = {}
  /\ \E snapshot \in Snapshots : gather' = BeginsRound(t, snapshot)
  /\ control_signal_msg' = Cleared(control_signal_msg)
  /\ UNCHANGED <<activity, raisedRequests>>

(* A controller in position or velocity mode takes over.                   *)
Takes(m) == m.mode \in {"POSITION_MODE", "VELOCITY_MODE"}

TakenOver(m) ==
  [mode |-> m.mode,
   position |-> IF m.mode = "POSITION_MODE" THEN m.signal ELSE 0,
   velocity |-> IF m.mode = "VELOCITY_MODE" THEN m.signal ELSE 0,
   torques |-> 0, gains |-> 0]

(* The aggregate msg, whose mode the first controller sets, after m.       *)
Aggregated(msg, c, m, set, impedance) ==
  LET aggregate_mode == IF set THEN msg.mode ELSE m.mode
      first_impedance == m.mode = "IMPEDANCE_MODE" /\ ~impedance
      torque == /\ m.mode = "TORQUE_MODE"
                /\ aggregate_mode \in {"TORQUE_MODE", "IMPEDANCE_MODE"}
      added == [msg EXCEPT !.mode = aggregate_mode,
                  !.torques = IF torque \/ first_impedance
                              THEN @ + Premultiplier[c] * m.signal ELSE @]
  IN  IF first_impedance
      THEN [added EXCEPT !.mode = "IMPEDANCE_MODE", !.position = m.signal,
                         !.velocity = m.signal, !.gains = m.signal]
      ELSE added

ReadsSignal(t) ==
  /\ gather[t].at = "reading" /\ gather[t].snapshot # <<>>
  /\ \E m \in Message :
       LET g == gather[t]
           read == IF g.alone THEN Append(g.read, [c |-> Head(g.snapshot), m |-> m])
                   ELSE <<>>
       IN  IF Takes(m)
           THEN /\ control_signal_msg' = TakenOver(m)
                /\ gather' = [gather EXCEPT ![t].at = "publishing", ![t].snapshot = <<>>,
                                            ![t].read = read]
           ELSE /\ control_signal_msg' =
                     Aggregated(control_signal_msg, Head(g.snapshot), m, g.set, g.impedance)
                /\ gather' = [gather EXCEPT
                     ![t].snapshot = Tail(@), ![t].set = TRUE, ![t].read = read,
                     ![t].impedance = @ \/ m.mode = "IMPEDANCE_MODE"]
  /\ UNCHANGED <<activity, raisedRequests>>

ReadsLast(t) ==
  /\ gather[t].at = "reading" /\ gather[t].snapshot = <<>>
  /\ gather' = [gather EXCEPT ![t].at = "publishing"]
  /\ UNCHANGED <<activity, raisedRequests, control_signal_msg>>

(* saturateTorques() returns its argument.                                 *)
Publishes(t) ==
  /\ gather[t].at = "publishing"
  /\ gather' = [gather EXCEPT ![t] = Polling]
  /\ UNCHANGED <<activity, raisedRequests, control_signal_msg>>

GatherNext ==
  \/ checkActivation
  \/ Requests
  \/ LeavesRun
  \/ LeavesIdle
  \/ /\ activity # "quit"
     /\ \E t \in DOMAIN gather :
          Ends(t) \/ Begins(t) \/ ReadsSignal(t) \/ ReadsLast(t) \/ Publishes(t)

GatherSpec == GatherInit /\ [][GatherNext]_gatherVars

-----------------------------------------------------------------------------
(* What a round that reads these messages should send, whatever earlier    *)
(* rounds left: the first controller in position or velocity mode alone;   *)
(* without one, the sum of the torques, of one impedance controller at     *)
(* most, whose references and gains go with them.                          *)
Leaders(read) == {k \in DOMAIN read : Takes(read[k].m)}
Impedances(read) == {k \in DOMAIN read : read[k].m.mode = "IMPEDANCE_MODE"}

Heeded(read) ==
  {k \in DOMAIN read : \/ read[k].m.mode = "TORQUE_MODE"
                       \/ k \in Impedances(read) /\ k = Min(Impedances(read))}

TorquesOf(read) ==
  Total([k \in DOMAIN read |->
          IF k \in Heeded(read) THEN Premultiplier[read[k].c] * read[k].m.signal ELSE 0])

FieldOf(mode) == IF mode = "POSITION_MODE" THEN "position" ELSE "velocity"

LedBy(leader, sent) ==
  /\ sent.mode = leader.mode
  /\ \A f \in {"position", "velocity", "torques", "gains"} :
       sent[f] = IF f = FieldOf(leader.mode) THEN leader.signal ELSE 0

SentFor(read, sent) ==
  IF Leaders(read) # {} THEN LedBy(read[Min(Leaders(read))].m, sent)
  ELSE /\ sent.torques = TorquesOf(read)
       /\ IF Impedances(read) = {} THEN sent.mode = "TORQUE_MODE"
          ELSE LET signal == read[Min(Impedances(read))].m.signal
               IN  /\ sent.mode = "IMPEDANCE_MODE"
                   /\ sent.position = signal /\ sent.velocity = signal /\ sent.gains = signal

(* A round that no other gather thread overlaps sends the aggregate of the *)
(* controllers it read, whatever their order and however their modes       *)
(* changed since the last round; in torque mode the other fields may be    *)
(* old (control_layer.cpp.in:260-346).                                     *)
SignalIsOfOneRound ==
  \A t \in DOMAIN gather :
    gather[t].at = "publishing" /\ gather[t].alone =>
      SentFor(gather[t].read, control_signal_msg)
=============================================================================
