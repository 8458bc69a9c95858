-------------------------- MODULE CommandDirectory --------------------------
(***************************************************************************)
(* How a CommandManager finds and calls the commands of other components   *)
(* (modules/command).  A command is offered by a DDS reader of a           *)
(* participant named "owner::command"; all the readers share one topic, so *)
(* a call reaches every reader its writer is matched with, and the reader  *)
(* drops what is not for its command.                                      *)
(*                                                                         *)
(* DDS is external: it discovers participants, matches readers and notices *)
(* that they are gone in its own time, delivers in order to the readers    *)
(* that were matched when the call was written, and forgets what a removed *)
(* reader has not read.  A multimap of commands is the set of the readers  *)
(* it has an entry for, so two components with one name count twice.       *)
(***************************************************************************)
EXTENDS Components, Integers, Sequences, FiniteSets

CONSTANTS
  Command,    (* the names of the commands                                 *)
  Self,       (* the instance whose CommandManager this is                 *)
  NoOwner,    (* the empty owner                                           *)
  MaxCalls    (* bound: calls sent in a behaviour                          *)

ASSUME DirectoryAssumption == /\ Self \in Instance
                              /\ NoOwner \notin Owner
                              /\ MaxCalls \in Nat

VARIABLES
  readers,    (* the command readers that exist                            *)
  discovered, (* those whose participant commands_monitor has discovered   *)
  matched,    (* those its writer is matched with                          *)
  infos,      (* getCommandsList's copy of discovered                      *)
  calls,      (* the calls sent, oldest first                              *)
  inbox,      (* for each reader, the calls it has not read                *)
  accepted    (* history: the calls a reader has accepted                  *)

directoryVars == <<readers, discovered, matched, infos, calls, inbox, accepted>>

Reader == [inst : Instance, cmd : Command]
ownerOf(r) == OwnerOf[r.inst]

DirectoryTypeOK ==
  /\ readers \subseteq Reader
  /\ discovered \subseteq Reader
  /\ matched \subseteq Reader
  /\ infos \subseteq Reader
  /\ calls \in Seq([owner : Owner \cup {NoOwner}, cmd : Command, asked : Owner \cup {NoOwner},
                    all : BOOLEAN])
  /\ Len(calls) <= MaxCalls
  /\ inbox \in [Reader -> Seq(1..MaxCalls)]
  /\ accepted \subseteq (1..MaxCalls) \X Reader

DirectoryInit(offered) ==
  /\ readers = offered
  /\ discovered = {}
  /\ matched = {}
  /\ infos = {}
  /\ calls = <<>>
  /\ inbox = [r \in Reader |-> <<>>]
  /\ accepted = {}

-----------------------------------------------------------------------------
(* DDS discovery                                                           *)

Discover(r) ==
  /\ r \in readers \ discovered
  /\ discovered' = discovered \cup {r}
  /\ UNCHANGED <<readers, matched, infos, calls, inbox, accepted>>

Match(r) ==
  /\ r \in (readers \cap discovered) \ matched
  /\ matched' = matched \cup {r}
  /\ UNCHANGED <<readers, discovered, infos, calls, inbox, accepted>>

(* The reader is gone: its match and its participant disappear, one after  *)
(* the other.                                                              *)
NoticeGone(r) ==
  /\ \/ /\ r \in matched \ readers
        /\ matched' = matched \ {r}
        /\ UNCHANGED discovered
     \/ /\ r \in (discovered \ readers) \ matched
        /\ discovered' = discovered \ {r}
        /\ UNCHANGED matched
  /\ UNCHANGED <<readers, infos, calls, inbox, accepted>>

(* What a set of readers becomes when these are added, and when these go.  *)
Offer(added) == readers' = readers \cup added
Withdraw(gone) ==
  /\ readers' = readers \ gone
  /\ inbox' = [r \in Reader |-> IF r \in gone THEN <<>> ELSE inbox[r]]

-----------------------------------------------------------------------------
(* The list of commands: participants first, matched readers afterwards.   *)

getDiscoveredParticipantsInfo ==
  /\ infos' = discovered
  /\ UNCHANGED <<readers, discovered, matched, calls, inbox, accepted>>

getCommandsList == infos \cap matched

findByName(name) == {r \in getCommandsList : r.cmd = name}

find(owner, name) == {r \in getCommandsList : r.cmd = name /\ ownerOf(r) = owner}

(* callCommand: the entries of cmdList, without the argument "all", which  *)
(* skips the search and makes one entry that has no owner.                 *)
cmdList(owner, name) ==
  IF owner # NoOwner THEN find(owner, name) ELSE findByName(name)

(* The call goes ahead: exactly one entry.                                 *)
Callable(owner, name, all) ==
  \/ owner = NoOwner /\ all
  \/ Cardinality(cmdList(owner, name)) = 1

(* The owner of the one entry.                                             *)
FoundOwner(owner, name, all) ==
  IF owner = NoOwner /\ all THEN NoOwner
  ELSE ownerOf(CHOOSE r \in cmdList(owner, name) : TRUE)

(* The entry is a command of this component: it is called directly.        *)
IsLocal(owner, name, all) == FoundOwner(owner, name, all) = OwnerOf[Self]

(* Fault: the message leaves the owner out.                                *)
sendMessageToAnyone(owner, name, all) ==
  /\ Len(calls) < MaxCalls
  /\ calls' = Append(calls, [owner |-> NoOwner, cmd |-> name,
                             asked |-> owner, all |-> owner = NoOwner /\ all])
  /\ inbox' = [r \in Reader |-> IF r \in matched \cap readers
                                THEN Append(inbox[r], Len(calls) + 1) ELSE inbox[r]]
  /\ UNCHANGED <<readers, discovered, matched, infos, accepted>>

sendMessage(owner, name, all) ==
  /\ Len(calls) < MaxCalls
  /\ calls' = Append(calls, [owner |-> FoundOwner(owner, name, all), cmd |-> name,
                             asked |-> owner, all |-> owner = NoOwner /\ all])
  /\ inbox' = [r \in Reader |-> IF r \in matched \cap readers
                                THEN Append(inbox[r], Len(calls) + 1) ELSE inbox[r]]
  /\ UNCHANGED <<readers, discovered, matched, infos, accepted>>

-----------------------------------------------------------------------------
(* The callback of a reader                                                *)

(* Whether the message is for the command of this reader.                  *)
IsFor(m, r) == /\ m.owner = NoOwner \/ m.owner = ownerOf(r)
               /\ m.cmd = r.cmd

HasCall(r) == r \in readers /\ inbox[r] # <<>>

(* The reader drops a call that is not for it.                             *)
Drop(r) ==
  /\ HasCall(r)
  /\ ~ IsFor(calls[Head(inbox[r])], r)
  /\ inbox' = [inbox EXCEPT ![r] = Tail(@)]
  /\ UNCHANGED <<readers, discovered, matched, infos, calls, accepted>>

(* The reader runs Command::call; the composing module adds what the       *)
(* command does, which may take readers away.                              *)
Accept(r) ==
  /\ HasCall(r)
  /\ IsFor(calls[Head(inbox[r])], r)
  /\ accepted' = accepted \cup {<<Head(inbox[r]), r>>}
  /\ UNCHANGED <<discovered, matched, infos, calls>>

-----------------------------------------------------------------------------
(* A call that is not for everyone reaches components of one name only:    *)
(* the name that was asked for or, when none was, the one name the list    *)
(* offered the command under.  The list may have been out of date, readers *)
(* may have come since it was read, and every reader gets every message    *)
(* (command_manager.cpp:165-202, the filter at command.tpp:118).           *)
ReachesOneOwner ==
  \A a \in accepted :
    LET call == calls[a[1]]
        reached == {ownerOf(b[2]) : b \in {b \in accepted : b[1] = a[1]}}
    IN  /\ a[2].cmd = call.cmd
        /\ call.all \/ Cardinality(reached) = 1
        /\ call.asked # NoOwner => reached = {call.asked}
=============================================================================
