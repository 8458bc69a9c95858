------------------------------- MODULE Startup -------------------------------
(***************************************************************************)
(* The procedures that bring components up through their commands and      *)
(* states: runLayer and the start-up file's startApplication               *)
(* (modules/main), runProcedure (modules/supervisor) and a call typed at   *)
(* the console.  A procedure is a sequence of steps, each a wait for a     *)
(* state, a wait for a command, a required command or a single call.       *)
(*                                                                         *)
(* Every poll may be the last before the time-out; MaxPolls bounds them.   *)
(* A component offers the commands in Offers while it is idle, withdraws   *)
(* "activate" some time after it has accepted it, and can be killed.       *)
(***************************************************************************)
EXTENDS CommandDirectory, StateWatcher

CONSTANTS
  Offers,     (* [Instance -> the commands it offers]                      *)
  Loaded,     (* the component the command "load" starts                   *)
  MaxPolls,   (* bound: polls of one wait                                  *)
  MayDie,     (* the instances that can be killed                          *)
  Procedures  (* the procedures, each with the components that run already *)

ASSUME StartupAssumption == /\ Offers \in [Instance -> SUBSET Command]
                            /\ Loaded \in Instance
                            /\ MaxPolls \in Nat
                            /\ {"idle", "run"} \subseteq State

Sends(s) == s.op \in {"require", "call"}

(* A step names what exists; only a single call may leave the owner out.   *)
StepFits(s) ==
  /\ s.op \in {"waitState", "waitCommand", "require", "call"}
  /\ s.op = "waitState" => s.owner \in Owner /\ s.state \in State
  /\ Sends(s) => s.owner \in Owner \cup {NoOwner} /\ s.cmd \in Command /\ s.all \in BOOLEAN
  /\ s.op = "require" => s.owner \in Owner

(* A procedure is not empty and sends no command twice.                    *)
WellFormed(steps) ==
  /\ Len(steps) \in Nat \ {0}
  /\ \A k \in 1..Len(steps) : StepFits(steps[k])
  /\ \A k, m \in 1..Len(steps) :
       Sends(steps[k]) /\ Sends(steps[m]) /\ k # m =>
         steps[k].owner # steps[m].owner \/ steps[k].cmd # steps[m].cmd

ASSUME ProceduresAssumption ==
  \A p \in Procedures : WellFormed(p.steps) /\ p.up \subseteq Instance

VARIABLES
  script,     (* the procedure                                             *)
  step,       (* the step it is at                                         *)
  at,         (* where it is in that step                                  *)
  calling,    (* the search is callCommand's own                           *)
  polls,      (* polls made in this step                                   *)
  stop,       (* should_quit, or the event quit_request                    *)
  outcome     (* what the procedure returned                               *)

nodeVars == <<script, step, at, calling, polls, stop, outcome>>
vars == <<directoryVars, watcherVars, nodeVars>>

Place == {"poll", "reached", "list"}

TypeOK ==
  /\ DirectoryTypeOK
  /\ WatcherTypeOK
  /\ step \in 1..(Len(script) + 1)
  /\ at \in Place
  /\ calling \in BOOLEAN
  /\ polls \in 0..MaxPolls
  /\ stop \in BOOLEAN
  /\ outcome \in {"running", "done", "failed"}

OfferedBy(i) == {[inst |-> i, cmd |-> c] : c \in Offers[i]}

(* The steps, and the procedures made of them.                             *)
WaitState(o, s, must) == [op |-> "waitState", owner |-> o, state |-> s, must |-> must]
WaitCommand(o, c) == [op |-> "waitCommand", owner |-> o, cmd |-> c]
Require(o, c) == [op |-> "require", owner |-> o, cmd |-> c, all |-> FALSE]
Call(o, c, all) == [op |-> "call", owner |-> o, cmd |-> c, all |-> all]

runLayer(ID) ==
  <<WaitState(ID, "idle", TRUE), Require(ID, "activate"), WaitState(ID, "run", TRUE)>>

startApplication(name, load_command, layer) ==
  <<Require(layer, load_command), WaitState(name, "idle", TRUE),
    Require(name, "activate"), WaitState(name, "run", TRUE)>>

runProcedure(type) ==
  <<WaitState(type, "idle", FALSE), WaitCommand(type, "activate"), Call(type, "activate", FALSE)>>

(* A line typed at the console, with or without the name of a process.     *)
commandLine(process_name, command_name, all) == <<Call(process_name, command_name, all)>>

Init ==
  \E s \in Procedures :
    /\ script = s.steps
    /\ DirectoryInit(UNION {OfferedBy(i) : i \in s.up})
    /\ WatcherInit([i \in Instance |-> IF i \in s.up THEN "idle" ELSE NoState])
    /\ step = 1
    /\ at = "poll"
    /\ calling = FALSE
    /\ polls = 0
    /\ stop = FALSE
    /\ outcome = "running"

-----------------------------------------------------------------------------
(* The steps of a procedure                                                *)

Op == script[step].op
Running == outcome = "running"

(* On to the next step, or out with this outcome.                          *)
Advance ==
  /\ at' = "poll"
  /\ calling' = FALSE
  /\ polls' = 0
  /\ step' = step + 1
  /\ outcome' = IF step = Len(script) THEN "done" ELSE outcome
  /\ UNCHANGED <<script, stop>>

Return(result) ==
  /\ outcome' = result
  /\ UNCHANGED <<script, step, at, calling, polls, stop>>

Goto(place, isCall) ==
  /\ at' = place
  /\ calling' = isCall
  /\ UNCHANGED <<script, step, polls, stop, outcome>>

(* Fault: the time is not read again in the loop.                          *)
AgainWithoutClock ==
  /\ at' = "poll"
  /\ calling' = FALSE
  /\ UNCHANGED <<script, step, polls, stop, outcome>>

(* Sleep and look again, unless the time is up.                            *)
Again ==
  /\ polls < MaxPolls
  /\ polls' = polls + 1
  /\ at' = "poll"
  /\ calling' = FALSE
  /\ UNCHANGED <<script, step, stop, outcome>>

(* A wait that ended without what it waited for.  runProcedure only warns  *)
(* when the state is not reached, and returns true without the command.    *)
GiveUp ==
  CASE Op = "waitState" /\ ~ script[step].must -> Advance
    [] Op = "waitCommand" -> Return("done")
    [] OTHER -> Return("failed")

(* Fault: a stopped wait counts as a success, as in waitApp.               *)
waitStateOrStop ==
  /\ Running /\ Op = "waitState" /\ at = "poll"
  /\ IF stop THEN Advance
     ELSE IF findState(script[step].owner, script[step].state) THEN Goto("reached", FALSE)
     ELSE Again \/ GiveUp
  /\ UNCHANGED <<directoryVars, watcherVars>>

(* utils::wait in waitState: the flag, then the state, then the flag.      *)
waitState ==
  /\ Running /\ Op = "waitState" /\ at = "poll"
  /\ IF stop THEN GiveUp
     ELSE IF findState(script[step].owner, script[step].state) THEN Goto("reached", FALSE)
     ELSE Again \/ GiveUp
  /\ UNCHANGED <<directoryVars, watcherVars>>

waitStateReturns ==
  /\ Running /\ at = "reached"
  /\ IF stop THEN GiveUp ELSE Advance
  /\ UNCHANGED <<directoryVars, watcherVars>>

(* getCommandsList, first half, for find and for callCommand's own search. *)
Search ==
  /\ Running /\ Op # "waitState"
  /\ at = "poll"
  /\ IF stop /\ Op # "call" /\ ~ calling
     THEN GiveUp /\ UNCHANGED directoryVars
     ELSE Goto("list", calling) /\ getDiscoveredParticipantsInfo
  /\ UNCHANGED watcherVars

(* waitCommand: any number of matches will do.                             *)
waitCommand ==
  /\ Running /\ Op = "waitCommand" /\ at = "list"
  /\ IF find(script[step].owner, script[step].cmd) # {} THEN Advance ELSE Again \/ GiveUp
  /\ UNCHANGED <<directoryVars, watcherVars>>

(* The search before a required command: one match, or sleep and retry.    *)
findUnique ==
  /\ Running /\ Op = "require" /\ at = "list" /\ ~ calling
  /\ IF Cardinality(find(script[step].owner, script[step].cmd)) = 1
     THEN Goto("poll", TRUE)
     ELSE Again \/ GiveUp
  /\ UNCHANGED <<directoryVars, watcherVars>>

(* callCommand.  A required command that was not called is tried again; a  *)
(* single call is not.  A command of the caller itself is run on the spot: *)
(* that of the framework node, "shutdown", sets should_quit.               *)
callCommand ==
  LET s == script[step] IN
  /\ Running /\ at = "list" /\ (Op = "call" \/ calling)
  /\ IF ~ Callable(s.owner, s.cmd, s.all)
     THEN /\ IF Op = "require" THEN Again \/ GiveUp ELSE Advance
          /\ UNCHANGED directoryVars
     ELSE IF IsLocal(s.owner, s.cmd, s.all)
     THEN /\ stop' = TRUE
          /\ outcome' = "done"
          /\ UNCHANGED <<script, step, at, calling, polls, directoryVars>>
     ELSE Advance /\ sendMessage(s.owner, s.cmd, s.all)
  /\ UNCHANGED watcherVars

-----------------------------------------------------------------------------
(* The components                                                          *)

(* "load" starts what is not running; "activate" is an event only IDLE     *)
(* handles; "shutdown" ends the component, or sets the node's own flag.    *)
Serve(r) ==
  LET i == r.inst IN
  /\ Accept(r)
  /\ CASE r.cmd = "load" ->
            /\ IF <<OwnerOf[Loaded], "idle">> \in been
               THEN UNCHANGED <<readers, watcherVars>>
               ELSE Offer(OfferedBy(Loaded)) /\ Enter(Loaded, "idle")
            /\ inbox' = [inbox EXCEPT ![r] = Tail(@)]
            /\ UNCHANGED nodeVars
       [] r.cmd = "activate" ->
            /\ inbox' = [inbox EXCEPT ![r] = Tail(@)]
            /\ IF state[i] = "idle" THEN Enter(i, "run") ELSE UNCHANGED watcherVars
            /\ UNCHANGED <<readers, nodeVars>>
       [] r.cmd = "shutdown" /\ i = Self ->
            /\ inbox' = [inbox EXCEPT ![r] = Tail(@)]
            /\ stop' = TRUE
            /\ UNCHANGED <<readers, watcherVars, script, step, at, calling, polls, outcome>>
       [] OTHER ->
            /\ Withdraw({q \in readers : q.inst = i})
            /\ Vanish(i)
            /\ UNCHANGED nodeVars

(* An active component withdraws the command "activate".                   *)
WithdrawActivate(i) ==
  LET r == [inst |-> i, cmd |-> "activate"] IN
  /\ state[i] = "run"
  /\ r \in readers
  /\ Withdraw({r})
  /\ UNCHANGED <<discovered, matched, infos, calls, accepted, watcherVars, nodeVars>>

Die(i) ==
  /\ i \in MayDie
  /\ state[i] # NoState
  /\ Withdraw({r \in readers : r.inst = i})
  /\ Vanish(i)
  /\ UNCHANGED <<discovered, matched, infos, calls, accepted, nodeVars>>

Signal ==
  /\ Running /\ ~ stop
  /\ stop' = TRUE
  /\ UNCHANGED <<directoryVars, watcherVars, script, step, at, calling, polls, outcome>>

Node == waitState \/ waitStateReturns \/ Search \/ waitCommand \/ findUnique \/ callCommand

Next ==
  \/ Node
  \/ Signal
  \/ \E r \in Reader :
       \/ (Discover(r) \/ Match(r) \/ NoticeGone(r) \/ Drop(r)) /\ UNCHANGED <<watcherVars, nodeVars>>
       \/ Serve(r)
  \/ \E i \in Instance :
       \/ Receive(i) /\ UNCHANGED <<directoryVars, nodeVars>>
       \/ WithdrawActivate(i)
       \/ Die(i)

Spec == Init /\ [][Next]_vars

(* The thread of the procedure keeps running; nobody else has to.          *)
Fairness == WF_vars(Node)

FairSpec == Spec /\ Fairness

-----------------------------------------------------------------------------
(* What a procedure has got past has happened, however often it was        *)
(* stopped, and whatever the list and the watcher held: a component of     *)
(* that name has been in each state that was waited for, and each required *)
(* command was sent exactly once, by a procedure that retries until it is  *)
(* (run_dls2.cpp.in:145-175, 368-400; state_machine_watcher.cpp:58-68).    *)
PassedHasHappened ==
  \A k \in 1..(step - 1) :
    LET s == script[k] IN
    /\ s.op = "waitState" /\ s.must => <<s.owner, s.state>> \in been
    /\ s.op = "require" =>
         Cardinality({c \in DOMAIN calls : calls[c].asked = s.owner /\ calls[c].cmd = s.cmd}) = 1

(* Every procedure returns, whether or not anyone answers: its waits are   *)
(* bounded and none of its calls waits for what it called                  *)
(* (utils.cpp.in:22-35, run_dls2.cpp.in:154-175, supervisor.cpp:43-64).    *)
ProcedureReturns == <>(outcome # "running")
=============================================================================
