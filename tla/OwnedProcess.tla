---------------------------- MODULE OwnedProcess ----------------------------
(***************************************************************************)
(* The processes a framework node owns (class OwnedProcess of              *)
(* modules/utils) and the operating system under them.  A process started  *)
(* in a session of its own leads a group, which what it starts joins; the  *)
(* node is the subreaper of their descendants.  Module Framework starts    *)
(* and stops them.  One process stands for the rest of a group.            *)
(***************************************************************************)
EXTENDS Integers

CONSTANTS
  Process,     (* the processes the node may start                         *)
  OwnGroup     (* those it starts in a group of their own                  *)

ASSUME ProcessAssumption == OwnGroup \subseteq Process

VARIABLES
  leader,      (* the process started                                      *)
  rest,        (* the other members of its group                           *)
  sent,        (* the signals sent to it                                   *)
  finished_    (* OwnedProcess::finished_                                  *)

opVars == <<leader, rest, sent, finished_>>

Signal == {"SIGINT", "SIGTERM", "SIGKILL"}

(* A zombie has ended and was not waited for.                              *)
Life == {"none", "alive", "zombie", "reaped"}

OPTypeOK ==
  /\ leader \in [Process -> Life]
  /\ rest \in [Process -> Life]
  /\ sent \in [Process -> SUBSET Signal]
  /\ finished_ \subseteq Process

OPInit ==
  /\ leader = [p \in Process |-> "none"]
  /\ rest = [p \in Process |-> "none"]
  /\ sent = [p \in Process |-> {}]
  /\ finished_ = {}

Launched(p) == leader[p] # "none"

(* A member that runs or was not waited for: the group exists.             *)
InGroup(p) == leader[p] \in {"alive", "zombie"} \/ rest[p] \in {"alive", "zombie"}

-----------------------------------------------------------------------------
(* The operating system.                                                   *)

(* A layer starts a component, the console none; a killed process nothing. *)
Fork(p) ==
  /\ p \in OwnGroup
  /\ leader[p] = "alive" /\ rest[p] \in {"none", "reaped"}
  /\ "SIGKILL" \notin sent[p]
  /\ rest' = [rest EXCEPT ![p] = "alive"]
  /\ UNCHANGED <<leader, sent, finished_>>

(* A process ends, asked or not.                                           *)
LeaderExits(p) ==
  /\ leader[p] = "alive"
  /\ leader' = [leader EXCEPT ![p] = "zombie"]
  /\ UNCHANGED <<rest, sent, finished_>>

(* A living leader may have waited for it.                                 *)
RestExits(p) ==
  /\ rest[p] = "alive"
  /\ \/ rest' = [rest EXCEPT ![p] = "zombie"]
     \/ leader[p] = "alive" /\ rest' = [rest EXCEPT ![p] = "reaped"]
  /\ UNCHANGED <<leader, sent, finished_>>

-----------------------------------------------------------------------------
(* OwnedProcess.                                                           *)

Launch(p) ==
  /\ leader[p] = "none"
  /\ leader' = [leader EXCEPT ![p] = "alive"]
  /\ UNCHANGED <<rest, sent, finished_>>

(* running() waits for the leader, and once it is gone for the descendants *)
(* the node has inherited.                                                 *)
LeaderAfter(p) == IF leader[p] = "zombie" THEN "reaped" ELSE leader[p]

(* Fault: inherited descendants are not waited for.                        *)
RestNotReaped(p) == rest[p]

RestAfter(p) ==
  IF p \in OwnGroup /\ LeaderAfter(p) = "reaped" /\ rest[p] = "zombie"
  THEN "reaped" ELSE rest[p]

(* Fault: the group ends with its leader.                                  *)
LeaderRunning(p) == p \notin finished_ /\ LeaderAfter(p) = "alive"

(* What running() returns: for a group, whether kill(-pgid, 0) succeeds.   *)
running(p) ==
  /\ p \notin finished_
  /\ IF p \in OwnGroup
     THEN LeaderAfter(p) = "alive" \/ RestAfter(p) \in {"alive", "zombie"}
     ELSE LeaderAfter(p) = "alive"

(* What running() does.                                                    *)
Checks(p) ==
  /\ leader' = IF p \in finished_ THEN leader ELSE [leader EXCEPT ![p] = LeaderAfter(p)]
  /\ rest' = IF p \in finished_ THEN rest ELSE [rest EXCEPT ![p] = RestAfter(p)]
  /\ finished_' = IF p \in OwnGroup /\ ~running(p) THEN finished_ \cup {p} ELSE finished_
=============================================================================
