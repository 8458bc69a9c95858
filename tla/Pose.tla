-------------------------------- MODULE Pose --------------------------------
(***************************************************************************)
(* Poses shared by threads (modules/utils): each has a mutex, a position   *)
(* and a quaternion.  Positions and orientations are integers modulo       *)
(* Modulus, composed by addition, the identity being 0; the orientation of *)
(* a difference is taken from the other side than its position.            *)
(*                                                                         *)
(* A thread runs one operation at a time: it locks the poses of the        *)
(* operation in their order, works on the position and then on the         *)
(* quaternion, and unlocks.                                                *)
(***************************************************************************)
EXTENDS Integers, Sequences, FiniteSets

CONSTANTS
  Threads, Poses,
  Modulus,      (* bound: the positions and the orientations               *)
  Nobody,       (* holds a mutex that is free                              *)
  MaxOps        (* bound: operations                                       *)

ASSUME PoseAssumption ==
  /\ Nobody \notin Threads
  /\ Modulus \in Nat \ {0}

VARIABLES
  pose_mutex,   (* who holds the mutex of a pose                           *)
  position, quaternion,
  job,          (* what a thread does, with its locals                     *)
  started,      (* bound: operations begun                                 *)
  whole,        (* history: each pose had every operation been atomic      *)
  overlapped    (* history: an operation without lock has overlapped       *)
                (* another one on the same pose                            *)

poseVars == <<pose_mutex, position, quaternion, job, started, whole, overlapped>>

Argument == <<1, 2 % Modulus>>
Pair(p) == <<position[p], quaternion[p]>>

Idle == [op |-> "none", pc |-> "idle", this |-> Nobody, rhs |-> Nobody,
         arg |-> <<0, 0>>, read |-> <<0, 0>>, expected |-> <<0, 0>>]

(* The operations on two poses, the conversions and the setters.           *)
Binary == {"operator=", "operator-="}
Readers == {"Pose(rhs)", "toVector"}
Setters == {"set(vec)", "set(q)", "set(vec, q)", "operator-=(vec)", "operator-=(q)"}
Unlocked == {"set(pos, ori)"}

PoseInit ==
  /\ pose_mutex = [p \in Poses |-> Nobody]
  /\ position = [p \in Poses |-> 0]
  /\ quaternion = [p \in Poses |-> 0]
  /\ job = [t \in Threads |-> Idle]
  /\ started = 0
  /\ whole = [p \in Poses |-> <<0, 0>>]
  /\ overlapped = FALSE

-----------------------------------------------------------------------------
(* Fault: setters do not lock.                                             *)
LocksOfReadersOnly(j) ==
  CASE j.op \in Binary -> <<j.this, j.rhs>>
    [] j.op \in Readers -> <<j.this>>
    [] j.op \in Setters \cup Unlocked -> <<>>

(* The mutexes of an operation, in the order they are locked: the set of   *)
(* two arrays locks none.                                                  *)
Locks(j) ==
  CASE j.op \in Binary -> <<j.this, j.rhs>>
    [] j.op \in Readers \cup Setters -> <<j.this>>
    [] j.op \in Unlocked -> <<>>

Begin(t, op, this, rhs, arg) ==
  /\ job[t].pc = "idle"
  /\ started < MaxOps
  /\ started' = started + 1
  /\ job' = [job EXCEPT ![t] = [Idle EXCEPT !.op = op, !.pc = "lock", !.this = this,
                                            !.rhs = rhs, !.arg = arg]]
  /\ UNCHANGED <<pose_mutex, position, quaternion, whole, overlapped>>

HeldBy(t) == {p \in Poses : pose_mutex[p] = t}

(* A thread that locks a mutex it already holds waits for ever.            *)
Lock(t) ==
  LET locks == Locks(job[t])
      n == Cardinality(HeldBy(t)) + 1
  IN  /\ job[t].pc = "lock"
      /\ IF n > Len(locks)
         THEN job' = [job EXCEPT ![t].pc = "position"] /\ UNCHANGED pose_mutex
         ELSE /\ pose_mutex[locks[n]] = Nobody
              /\ pose_mutex' = [pose_mutex EXCEPT ![locks[n]] = t]
              /\ UNCHANGED job
      /\ UNCHANGED <<position, quaternion, started, whole, overlapped>>

(* The position and the quaternion an operation leaves, from those of its  *)
(* pose and of the other one.                                              *)
NewPosition(j, this, rhs) ==
  CASE j.op = "operator=" -> rhs
    [] j.op = "operator-=" -> (this - rhs) % Modulus
    [] j.op \in {"set(vec)", "set(vec, q)", "set(pos, ori)"} -> j.arg[1]
    [] j.op = "operator-=(vec)" -> (this - j.arg[1]) % Modulus
    [] OTHER -> this

NewQuaternion(j, this, rhs) ==
  CASE j.op = "operator=" -> rhs
    [] j.op = "operator-=" -> (rhs - this) % Modulus
    [] j.op \in {"set(q)", "set(vec, q)", "set(pos, ori)"} -> j.arg[2]
    [] j.op = "operator-=(q)" -> (j.arg[2] - this) % Modulus
    [] OTHER -> this

Other(j) == IF j.op \in Binary THEN j.rhs ELSE j.this
Touched(j) == {j.this, Other(j)}

(* A thread steps on a pose that another one has half worked on, and one   *)
(* of them has no lock.                                                    *)
Overlaps(t) ==
  \E u \in Threads \ {t} :
    /\ job[u].pc = "quaternion"
    /\ Touched(job[u]) \cap Touched(job[t]) # {}
    /\ {job[t].op, job[u].op} \cap Unlocked # {}

WorkOnPosition(t) ==
  LET j == job[t]
  IN  /\ j.pc = "position"
      /\ position' = [position EXCEPT ![j.this] = NewPosition(j, @, position[Other(j)])]
      /\ job' = [job EXCEPT ![t].pc = "quaternion", ![t].read[1] = position[Other(j)]]
      /\ overlapped' = (overlapped \/ Overlaps(t))
      /\ UNCHANGED <<pose_mutex, quaternion, started, whole>>

WorkOnQuaternion(t) ==
  LET j == job[t]
      this == whole[j.this]
      rhs == whole[Other(j)]
  IN  /\ j.pc = "quaternion"
      /\ quaternion' = [quaternion EXCEPT ![j.this] = NewQuaternion(j, @, quaternion[Other(j)])]
      /\ job' = [job EXCEPT ![t].pc = "unlock", ![t].read[2] = quaternion[Other(j)],
                            ![t].expected = rhs]
      /\ whole' = [whole EXCEPT ![j.this] =
                     <<NewPosition(j, this[1], rhs[1]), NewQuaternion(j, this[2], rhs[2])>>]
      /\ overlapped' = (overlapped \/ Overlaps(t))
      /\ UNCHANGED <<pose_mutex, position, started>>

Unlock(t) ==
  /\ job[t].pc = "unlock"
  /\ pose_mutex' = [p \in Poses |-> IF pose_mutex[p] = t THEN Nobody ELSE pose_mutex[p]]
  /\ job' = [job EXCEPT ![t] = Idle]
  /\ UNCHANGED <<position, quaternion, started, whole, overlapped>>

(* The operations a thread can begin: on two poses (the same one is left   *)
(* out, as its mutex would be locked twice), on one, or with an argument:  *)
(* a difference of poses is a copy and a difference from it.               *)
BeginSome(t) ==
  \/ \E op \in Binary, p, q \in Poses : p # q /\ Begin(t, op, p, q, <<0, 0>>)
  \/ \E op \in Readers, p \in Poses : Begin(t, op, p, p, <<0, 0>>)
  \/ \E op \in Setters \cup Unlocked, p \in Poses : Begin(t, op, p, p, Argument)

PoseStep(t) == BeginSome(t) \/ Lock(t) \/ WorkOnPosition(t) \/ WorkOnQuaternion(t) \/ Unlock(t)
PoseNext == \E t \in Threads : PoseStep(t)

PoseSpec == PoseInit /\ [][PoseNext]_poseVars

-----------------------------------------------------------------------------
(* Unless the set of two arrays, which does not lock, overlapped another   *)
(* operation: a read never mixes two writes, and a pose nobody works on is *)
(* what the operations, each in one piece and in the order of their second *)
(* writes, have made of it (pose.hpp:20 "a thread-safe class").            *)
OperationsAreAtomic ==
  ~ overlapped =>
    /\ \A t \in Threads : job[t].pc = "unlock" => job[t].read = job[t].expected
    /\ \A p \in Poses : (\A t \in Threads : job[t].pc = "quaternion" => job[t].this # p)
                          => Pair(p) = whole[p]
=============================================================================
