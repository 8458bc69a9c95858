---------------------------- MODULE ControlLayer ----------------------------
(***************************************************************************)
(* The control layer loads and unloads controllers and motion generators,  *)
(* one process each (class ControlLayer of modules/core_framework).  Each  *)
(* of its console commands runs on a thread of its own; close() runs on    *)
(* the activity thread when the layer quits.  Each kind of component has a *)
(* mutex that serialises the operations on it and one that guards its map. *)
(*                                                                         *)
(* The commands move the level of the layer (module CommandManager), which *)
(* says which of them can be called: 0 nothing is loaded, 1 generators, 2  *)
(* controllers, 3 both.  The reading of the level and its change are two   *)
(* steps; the readers are taken to follow the level at once.  The commands *)
(* every App has share it: activate and deactivate are one action.         *)
(*                                                                         *)
(* Left out: the splines (commented out in the source), where() and ls,    *)
(* the thread that gathers the control signals, and the monitor, which     *)
(* reports a dead process and changes nothing.  std::map accesses that     *)
(* race with another thread are taken to be atomic.                        *)
(***************************************************************************)
EXTENDS Integers, FiniteSets

CONSTANTS
  ID,          (* the names of components                                  *)
  PythonID,    (* those loadPythonController is called with                *)
  Pid,         (* process identifiers                                      *)
  NoProcess,   (* AppData::proc is null                                    *)
  Called,      (* bound: the commands that are called                      *)
  MaxCalls     (* bound: calls made in a behaviour                         *)

VARIABLES
  loaded,      (* the entries of ControlLayer::controllers and motion_generators *)
  alive,       (* the component processes that run                         *)
  killed,      (* those that were sent SIGKILL                             *)
  op,          (* the call each command's thread is in                     *)
  closing_,    (* ControlLayer::closing_                                   *)
  closer,      (* where close() is                                         *)
  toStop,      (* generators_to_stop and controllers_to_stop of close()    *)
  level,       (* CommandManager::level                                    *)
  calls        (* number of calls made so far                              *)

vars == <<loaded, alive, killed, op, closing_, closer, toStop, level, calls>>

Kind == {"controllers", "motion_generators"}

Process == [kind : Kind, id : ID, pid : Pid]

(* An entry of a map; proc is NoProcess for an external controller.        *)
Entry == [kind : Kind, id : ID, proc : Process \cup {NoProcess}]

LockedLoad == {"loadController", "loadExternalController", "loadGenerator"}
Load == LockedLoad \cup {"loadPythonController"}
Unload == {"unloadController", "unloadExternalController", "unloadGenerator"}
Command == Load \cup Unload

KindOf(c) == IF c \in {"loadGenerator", "unloadGenerator"}
             THEN "motion_generators" ELSE "controllers"

ASSUME ControlLayerAssumption == /\ PythonID \subseteq ID
                                 /\ NoProcess \notin Process
                                 /\ MaxCalls \in Nat

(* The transition sets of the commands: from which level to which.         *)
TransitionSet(c) ==
  CASE c = "loadGenerator" -> {<<0, 1>>, <<1, 1>>, <<2, 3>>, <<3, 3>>}
    [] c = "unloadGenerator" -> {<<1, 0>>, <<3, 2>>}
    [] c \in Load \ {"loadGenerator"} -> {<<0, 2>>, <<1, 3>>, <<2, 2>>, <<3, 3>>}
    [] c \in Unload \ {"unloadGenerator"} -> {<<2, 0>>, <<3, 1>>}

Callable(c) == \E t \in TransitionSet(c) : t[1] = level

(* getNextLevel: 0 if the set has no entry (see CommandManager).           *)
NextLevel(c) == IF Callable(c)
                THEN CHOOSE l \in 0..3 : <<level, l>> \in TransitionSet(c)
                ELSE 0

Idle == [at |-> "out"]

(* "launch" about to start the process, "insert" about to add the entry,   *)
(* "stop" waiting for the process to end, "test" about to test whether the *)
(* map is empty, "level" the function returned true, "change" about to     *)
(* store the level computed.                                               *)
Op == {Idle}
      \cup [at : {"launch"}, id : ID]
      \cup [at : {"insert"}, id : ID, proc : Process \cup {NoProcess}]
      \cup [at : {"stop"}, proc : Process]
      \cup [at : {"test", "level"}]
      \cup [at : {"change"}, next : 0..3]

CloserPlace == {"open", "swap", "stopping", "closed"}

TypeOK ==
  /\ loaded \subseteq Entry
  /\ alive \subseteq Process
  /\ killed \subseteq Process
  /\ op \in [Command -> Op]
  /\ closing_ \in BOOLEAN
  /\ closer \in CloserPlace
  /\ toStop \subseteq Process
  /\ level \in 0..3
  /\ calls \in Nat

Init ==
  /\ loaded = {}
  /\ alive = {}
  /\ killed = {}
  /\ op = [c \in Command |-> Idle]
  /\ closing_ = FALSE
  /\ closer = "open"
  /\ toStop = {}
  /\ level = 0
  /\ calls = 0

-----------------------------------------------------------------------------
(* The mutexes.  The map mutexes are held within one step.                 *)

(* Fault: the mutex is not held while an unload waits for the process.     *)
HoldsNotWhileStopping(c) ==
  c # "loadPythonController" /\ op[c].at \in {"launch", "insert"}

(* The thread of c holds the operations mutex of its kind.                 *)
Holds(c) == c # "loadPythonController" /\ op[c].at \in {"launch", "insert", "stop"}

(* Fault: the operations mutexes do not exclude each other.                *)
OperationsUnlocked(kind) == TRUE

OperationsFree(kind) == \A c \in Command : KindOf(c) = kind => ~Holds(c)

IsLoaded(kind, id) == \E e \in loaded : e.kind = kind /\ e.id = id

(* A call of c begins.                                                     *)
Call(c) ==
  /\ c \in Called /\ calls < MaxCalls
  /\ op[c] = Idle
  /\ Callable(c)
  /\ calls' = calls + 1

At(c, place) == op[c].at = place

Goes(c, to) == op' = [op EXCEPT ![c] = to]

-----------------------------------------------------------------------------
(* Loading.                                                                *)

Start(c, id) ==
  Goes(c, IF c = "loadExternalController"
          THEN [at |-> "insert", id |-> id, proc |-> NoProcess]
          ELSE [at |-> "launch", id |-> id])

(* loadController, loadExternalController, loadMotionGenerator: take the   *)
(* operations mutex, refuse when closing or when the name is loaded.       *)
LoadBegins(c, id) ==
  /\ c \in LockedLoad
  /\ Call(c)
  /\ OperationsFree(KindOf(c))
  /\ IF closing_ \/ IsLoaded(KindOf(c), id) THEN UNCHANGED op ELSE Start(c, id)
  /\ UNCHANGED <<loaded, alive, killed, closing_, closer, toStop, level>>

(* loadPythonController takes no mutex and does not test closing_.         *)
LoadPythonBegins(id) ==
  /\ Call("loadPythonController")
  /\ id \in PythonID
  /\ IF IsLoaded("controllers", id) THEN UNCHANGED op ELSE Start("loadPythonController", id)
  /\ UNCHANGED <<loaded, alive, killed, closing_, closer, toStop, level>>

(* The identifiers of the processes that run or are not reaped yet.        *)
Unreaped ==
  {p.pid : p \in alive \cup toStop}
  \cup {e.proc.pid : e \in {x \in loaded : x.proc # NoProcess}}
  \cup {op[c].proc.pid : c \in {x \in Command : \/ op[x].at = "stop"
                                                 \/ /\ op[x].at = "insert"
                                                    /\ op[x].proc # NoProcess}}

(* The child process is started.                                           *)
Launch(c) ==
  /\ At(c, "launch")
  /\ \E pid \in Pid \ Unreaped :
       LET p == [kind |-> KindOf(c), id |-> op[c].id, pid |-> pid]
       IN  /\ alive' = alive \cup {p}
           /\ killed' = killed \ {p}
           /\ Goes(c, [at |-> "insert", id |-> op[c].id, proc |-> p])
  /\ UNCHANGED <<loaded, closing_, closer, toStop, level, calls>>

(* emplace: an entry of the same name stays as it is.  The operations      *)
(* mutex is released.                                                      *)
Insert(c) ==
  /\ At(c, "insert")
  /\ loaded' = IF IsLoaded(KindOf(c), op[c].id) THEN loaded
               ELSE loaded \cup {[kind |-> KindOf(c), id |-> op[c].id, proc |-> op[c].proc]}
  /\ Goes(c, [at |-> "level"])
  /\ UNCHANGED <<alive, killed, closing_, closer, toStop, level, calls>>

-----------------------------------------------------------------------------
(* Unloading.                                                              *)

(* The entry unload c of the name id takes out of the map.                 *)
Removable(c, id) ==
  {e \in loaded : /\ e.kind = KindOf(c) /\ e.id = id
                  /\ c = "unloadExternalController" => e.proc = NoProcess}

UnloadFinds(c, id) ==
  /\ c \in Unload
  /\ Call(c)
  /\ OperationsFree(KindOf(c))
  /\ \E e \in Removable(c, id) :
       /\ loaded' = loaded \ {e}
       /\ Goes(c, IF e.proc = NoProcess THEN [at |-> "test"]
                  ELSE [at |-> "stop", proc |-> e.proc])
  /\ UNCHANGED <<alive, killed, closing_, closer, toStop, level>>

UnloadFindsNothing(c, id) ==
  /\ c \in Unload
  /\ Call(c)
  /\ OperationsFree(KindOf(c))
  /\ Removable(c, id) = {}
  /\ UNCHANGED <<loaded, alive, killed, op, closing_, closer, toStop, level>>

(* The shutdown command is sent, the process has two seconds to end, then  *)
(* it is sent SIGKILL and not waited for.                                  *)
StopOrKill(p) == killed' = IF p \in alive THEN killed \cup {p} ELSE killed

(* The operations mutex is released.                                       *)
UnloadStops(c) ==
  /\ At(c, "stop")
  /\ StopOrKill(op[c].proc)
  /\ Goes(c, [at |-> "test"])
  /\ UNCHANGED <<loaded, alive, closing_, closer, toStop, level, calls>>

(* The command's function returns true, and the level moves, only if the   *)
(* map is empty now.                                                       *)
UnloadTests(c) ==
  /\ At(c, "test")
  /\ Goes(c, IF \E e \in loaded : e.kind = KindOf(c) THEN Idle ELSE [at |-> "level"])
  /\ UNCHANGED <<loaded, alive, killed, closing_, closer, toStop, level, calls>>

-----------------------------------------------------------------------------
(* The level.                                                              *)

ReadLevel(c) ==
  /\ At(c, "level")
  /\ Goes(c, [at |-> "change", next |-> NextLevel(c)])
  /\ UNCHANGED <<loaded, alive, killed, closing_, closer, toStop, level, calls>>

ChangeLevel(c) ==
  /\ At(c, "change")
  /\ level' = op[c].next
  /\ Goes(c, Idle)
  /\ UNCHANGED <<loaded, alive, killed, closing_, closer, toStop, calls>>

(* activate, only from level 0, and deactivate, only from the others.      *)
ActivateOrDeactivate ==
  /\ "activate" \in Called /\ calls < MaxCalls
  /\ level' = IF level = 0 THEN 1 ELSE 0
  /\ calls' = calls + 1
  /\ UNCHANGED <<loaded, alive, killed, op, closing_, closer, toStop>>

-----------------------------------------------------------------------------
(* close().                                                                *)

CloseBegins ==
  /\ closer = "open"
  /\ closing_' = TRUE
  /\ closer' = "swap"
  /\ UNCHANGED <<loaded, alive, killed, op, toStop, level, calls>>

(* Fault: the maps are emptied without the operations mutexes.             *)
CloseSwapsUnlocked ==
  /\ closer = "swap"
  /\ toStop' = {e.proc : e \in loaded} \ {NoProcess}
  /\ loaded' = {}
  /\ closer' = "stopping"
  /\ UNCHANGED <<alive, killed, op, closing_, level, calls>>

(* The four mutexes are taken at once (std::scoped_lock).                  *)
CloseSwaps ==
  /\ closer = "swap"
  /\ \A kind \in Kind : OperationsFree(kind)
  /\ toStop' = {e.proc : e \in loaded} \ {NoProcess}
  /\ loaded' = {}
  /\ closer' = "stopping"
  /\ UNCHANGED <<alive, killed, op, closing_, level, calls>>

(* Generators are stopped before controllers.                              *)
CloseStops ==
  /\ closer = "stopping"
  /\ \E p \in toStop :
       /\ p.kind = "controllers" => \A q \in toStop : q.kind = "controllers"
       /\ StopOrKill(p)
       /\ toStop' = toStop \ {p}
  /\ UNCHANGED <<loaded, alive, op, closing_, closer, level, calls>>

CloseEnds ==
  /\ closer = "stopping"
  /\ toStop = {}
  /\ closer' = "closed"
  /\ UNCHANGED <<loaded, alive, killed, op, closing_, toStop, level, calls>>

(* A process ends: it was asked to, was killed, or failed.                 *)
Exit(p) ==
  /\ p \in alive
  /\ alive' = alive \ {p}
  /\ UNCHANGED <<loaded, killed, op, closing_, closer, toStop, level, calls>>

-----------------------------------------------------------------------------
CommandThread(c) ==
  \/ \E id \in ID : \/ LoadBegins(c, id) \/ UnloadFinds(c, id)
                    \/ UnloadFindsNothing(c, id)
  \/ Launch(c) \/ Insert(c) \/ UnloadStops(c) \/ UnloadTests(c)
  \/ ReadLevel(c) \/ ChangeLevel(c)

Close == CloseBegins \/ CloseSwaps \/ CloseStops \/ CloseEnds

Next ==
  \/ \E c \in Command : CommandThread(c)
  \/ \E id \in ID : LoadPythonBegins(id)
  \/ ActivateOrDeactivate
  \/ Close
  \/ \E p \in Process : Exit(p)

Spec == Init /\ [][Next]_vars

-----------------------------------------------------------------------------
(* Safety.                                                                 *)

(* Loaded, or possibly loaded, by loadPythonController.                    *)
MayBePython(x) == x.kind = "controllers" /\ x.id \in PythonID

(* Somebody still knows the process and will stop it, or it was killed.    *)
Owned(p) ==
  \/ \E e \in loaded : e.proc = p
  \/ \E c \in Command : op[c].at \in {"insert", "stop"} /\ op[c].proc = p
  \/ p \in toStop
  \/ p \in killed

(* However loads and unloads of a name, of the same kind or not, and       *)
(* close() overlap, no process is forgotten: it is in a map, in the hands  *)
(* of the call that starts or stops it, or of close().  Controllers whose  *)
(* names are loaded with loadPythonController are excepted.                *)
NoProcessForgotten == \A p \in alive : MayBePython(p) \/ Owned(p)

(* Once the layer is closed nothing it started runs, but for processes     *)
(* that were killed and are not gone yet, and Python controllers.          *)
NothingLeftBehind ==
  closer = "closed" => \A p \in alive : MayBePython(p) \/ p \in killed

(* A name has at most one process of its kind at work.                     *)
OneProcessPerName ==
  \A p, q \in alive \ killed :
    p.kind = q.kind /\ p.id = q.id /\ ~MayBePython(p) => p = q

-----------------------------------------------------------------------------
(* What comments say and the code does not keep.                           *)

(* control_layer.hpp marks controllers as a critical section and           *)
(* serialises the operations on it: NoProcessForgotten for Python          *)
(* controllers too.                                                        *)
EveryProcessIsOwned == \A p \in alive : Owned(p)
=============================================================================
