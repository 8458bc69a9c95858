--------------------------- MODULE CommandManager ---------------------------
(***************************************************************************)
(* The console commands of one component (modules/command).  A command is  *)
(* callable while its DDS reader exists ("active"); a watcher thread adds  *)
(* and removes readers when the level of the component changes.            *)
(*                                                                         *)
(* Threads: each command's reader delivers its calls on a thread of its    *)
(* own (one DDS participant per command), Main is the thread that owns the *)
(* manager, and the watcher is levelThread.  What the function of a        *)
(* command does is left to the module that composes this one: it takes the *)
(* thread from "body" to "level" (the function returned true) or to "idle" *)
(* (false).  DDS itself is external: a call reaches a command only while   *)
(* its reader exists, and removing a reader does not cut short a call that *)
(* was already delivered.                                                  *)
(***************************************************************************)
EXTENDS Integers, Sequences

CONSTANTS
  Command,        (* the names of the commands                             *)
  Main,           (* the thread that owns the manager                      *)
  TransitionSet,  (* CommandBase::transitionSet: [Command -> [levels -> level]] *)
  VerifyOrder,    (* the order in which verifyLevel visits std::map commands *)
  Called,         (* bound: the commands that are called                   *)
  MaxCalls        (* bound: calls delivered in a behaviour                 *)

VARIABLES
  enabled,        (* the commands with CommandBase::enabled                *)
  active,         (* the commands with CommandBase::active (reader exists) *)
  level,          (* CommandManager::level                                 *)
  trigger,        (* CommandManager::trigger_level_watcher                 *)
  should_exit,    (* CommandManager::should_exit                           *)
  watcher,        (* where levelWatcher is                                 *)
  frame,          (* where each caller's thread is                         *)
  nextLevel,      (* the level a call has computed and not yet stored      *)
  calls           (* number of calls delivered so far                      *)

cmVars == <<enabled, active, level, trigger, should_exit, watcher, frame,
            nextLevel, calls>>

CMThread == Command \cup {Main}

(* The key of a transition set {ALL_STATES_EXCEPT_ZERO -> l}: (uint)-1.    *)
ALL_STATES_EXCEPT_ZERO == -1

(* The frames of a caller: "body" runs the command's function, "level"     *)
(* reads the current level, "change" is about to take levelMutex, "gate"   *)
(* waits for trigger_level_watcher to be false, "signal" is about to store *)
(* it and notify.                                                          *)
CallerPlace == {"idle", "body", "level", "change", "gate", "signal"}

(* "test" evaluates the predicate, "block" has found it false and is not   *)
(* asleep yet (it holds levelMutex), "verify" runs verifyLevel with        *)
(* levelMutex held, from the command with index next on.                   *)
WatcherPlace == {"test", "block", "asleep", "verify", "exited"}

(* The levels the transition sets lead to, and the initial one.            *)
CommandLevel ==
  {0} \cup UNION {{TransitionSet[c][l] : l \in DOMAIN TransitionSet[c]} : c \in Command}

CMTypeOK ==
  /\ enabled \subseteq Command
  /\ active \subseteq Command
  /\ level \in CommandLevel
  /\ trigger \in BOOLEAN
  /\ should_exit \in BOOLEAN
  /\ watcher \in [at : WatcherPlace, next : Nat]
  /\ frame \in [CMThread -> CallerPlace]
  /\ nextLevel \in [Command -> CommandLevel]
  /\ calls \in Nat

levelMutexFree == watcher.at \notin {"block", "verify"}

-----------------------------------------------------------------------------
(* CommandBase                                                             *)

testLevel(c, l) ==
  LET set == TransitionSet[c]
  IN  \/ DOMAIN set = {}
      \/ DOMAIN set = {ALL_STATES_EXCEPT_ZERO} /\ l # 0
      \/ l \in DOMAIN set

(* transitionSet.find(l)->second without a test of find's result: for a    *)
(* level that is no key this reads through end().  libstdc++ on a 64-bit   *)
(* little-endian machine finds there the upper half of the map's element   *)
(* count, which is 0.                                                      *)
getNextLevel(c, l) ==
  LET set == TransitionSet[c]
  IN  CASE DOMAIN set = {} -> l
        [] l \in DOMAIN set -> set[l]
        [] OTHER -> 0

(* addCommand of every command of the component, in its constructor.       *)
CMInit(enabledCommands) ==
  /\ enabled = enabledCommands
  /\ active = {c \in enabledCommands : testLevel(c, 0)}
  /\ level = 0
  /\ trigger = FALSE
  /\ should_exit = FALSE
  /\ watcher = [at |-> "test", next |-> 1]
  /\ frame = [t \in CMThread |-> "idle"]
  /\ nextLevel = [c \in Command |-> 0]
  /\ calls = 0

setEnabled(c) ==
  /\ enabled' = enabled \cup {c}
  /\ UNCHANGED <<active, level, trigger, should_exit, watcher, nextLevel, calls>>

setDisabled(c) ==
  /\ enabled' = enabled \ {c}
  /\ UNCHANGED <<active, level, trigger, should_exit, watcher, nextLevel, calls>>

-----------------------------------------------------------------------------
(* Command::call, on the thread of the command's reader                    *)

Deliver(c) ==
  /\ c \in Called /\ calls < MaxCalls
  /\ c \in active
  /\ frame[c] = "idle"
  /\ frame' = [frame EXCEPT ![c] = "body"]
  /\ calls' = calls + 1
  /\ UNCHANGED <<enabled, active, level, trigger, should_exit, watcher, nextLevel>>

(* The level is read without levelMutex ...                                *)
ReadLevel(c) ==
  /\ frame[c] = "level"
  /\ nextLevel' = [nextLevel EXCEPT ![c] = getNextLevel(c, level)]
  /\ frame' = [frame EXCEPT ![c] = "change"]
  /\ UNCHANGED <<enabled, active, level, trigger, should_exit, watcher, calls>>

(* Fault: the level changes and the watcher is not told.                   *)
ChangeLevelNoTrigger(c) ==
  /\ frame[c] = "change"
  /\ levelMutexFree
  /\ level' = nextLevel[c]
  /\ frame' = [frame EXCEPT ![c] = "idle"]
  /\ UNCHANGED <<enabled, active, trigger, should_exit, watcher, nextLevel, calls>>

(* ... and changeLevel stores the next one in a critical section of its    *)
(* own: two calls that overlap can lose a change.                          *)
changeLevel(c) ==
  /\ frame[c] = "change"
  /\ levelMutexFree
  /\ level' = nextLevel[c]
  /\ frame' = [frame EXCEPT ![c] = "gate"]
  /\ nextLevel' = [nextLevel EXCEPT ![c] = 0]
  /\ UNCHANGED <<enabled, active, trigger, should_exit, watcher, calls>>

-----------------------------------------------------------------------------
(* triggerLevelWatcher, on any thread                                      *)

TriggerWait(t) ==
  /\ frame[t] = "gate"
  /\ ~trigger
  /\ frame' = [frame EXCEPT ![t] = "signal"]
  /\ UNCHANGED <<enabled, active, level, trigger, should_exit, watcher, nextLevel, calls>>

(* levelCondVar is notified without levelMutex: a watcher in "block" is    *)
(* not woken, and every later caller waits at the gate.                    *)
TriggerStore(t) ==
  /\ frame[t] = "signal"
  /\ trigger' = TRUE
  /\ watcher' = [watcher EXCEPT !.at = IF @ = "asleep" THEN "test" ELSE @]
  /\ frame' = [frame EXCEPT ![t] = "idle"]
  /\ UNCHANGED <<enabled, active, level, should_exit, nextLevel, calls>>

-----------------------------------------------------------------------------
(* levelWatcher                                                            *)

WatcherSleeps ==
  /\ watcher.at = "test"
  /\ ~trigger
  /\ watcher' = [watcher EXCEPT !.at = "block"]
  /\ UNCHANGED <<enabled, active, level, trigger, should_exit, frame, nextLevel, calls>>

WatcherBlocks ==
  /\ watcher.at = "block"
  /\ watcher' = [watcher EXCEPT !.at = "asleep"]
  /\ UNCHANGED <<enabled, active, level, trigger, should_exit, frame, nextLevel, calls>>

WatcherTakes ==
  /\ watcher.at = "test"
  /\ trigger
  /\ trigger' = FALSE
  /\ watcher' = [at |-> IF should_exit THEN "exited" ELSE "verify", next |-> 1]
  /\ UNCHANGED <<enabled, active, level, should_exit, frame, nextLevel, calls>>

(* verifyLevel: one command per step, because setEnabled and setDisabled   *)
(* of other threads are not excluded by levelMutex.  activate() and        *)
(* deactivate() of a command that is not enabled return at once.           *)
verifyLevel ==
  /\ watcher.at = "verify"
  /\ LET c == VerifyOrder[watcher.next]
     IN  active' = IF c \notin enabled THEN active
                   ELSE IF testLevel(c, level) THEN active \cup {c}
                   ELSE active \ {c}
  /\ watcher' = IF watcher.next < Len(VerifyOrder)
                THEN [watcher EXCEPT !.next = @ + 1]
                ELSE [at |-> "test", next |-> 1]
  /\ UNCHANGED <<enabled, level, trigger, should_exit, frame, nextLevel, calls>>

Watcher == WatcherSleeps \/ WatcherBlocks \/ WatcherTakes \/ verifyLevel

-----------------------------------------------------------------------------
(* ~CommandManager, on Main: raise should_exit under levelMutex, remove    *)
(* the readers of the enabled commands, trigger the watcher, join it.      *)

DestroyManager ==
  /\ frame[Main] = "idle"
  /\ ~should_exit
  /\ levelMutexFree
  /\ should_exit' = TRUE
  /\ active' = active \ enabled
  /\ frame' = [frame EXCEPT ![Main] = "gate"]
  /\ UNCHANGED <<enabled, level, trigger, watcher, nextLevel, calls>>

JoinWatcher ==
  /\ should_exit
  /\ frame[Main] = "idle"
  /\ watcher.at = "exited"
=============================================================================
