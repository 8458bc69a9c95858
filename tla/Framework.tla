------------------------------ MODULE Framework ------------------------------
(***************************************************************************)
(* The framework node (class RunDLS2 of modules/main): it starts the       *)
(* discovery servers, the layers one after the other and the applications  *)
(* of a start-up file, watches the layers, and shuts everything down with  *)
(* escalating signals.                                                     *)
(*                                                                         *)
(* Timeouts can expire whenever they are waited for.  What the node learns *)
(* of the others through DDS (how many participants offer a command, which *)
(* state a component is in) is arbitrary.  Left out: the options, the      *)
(* parsing of the start-up file, and the request to shut down that is sent *)
(* through DDS before the signals: whatever it makes a process do, that    *)
(* process may do by itself.                                               *)
(***************************************************************************)
EXTENDS OwnedProcess, Sequences, Functions

CONSTANTS
  Server,      (* the discovery servers                                    *)
  LayerOrder,  (* the layers, in the order launchLayers starts them        *)
  MaxApps      (* bound: applications of the start-up file                 *)

Layers == Range(LayerOrder)

ASSUME FrameworkAssumption == /\ Layers \cup Server = Process
                              /\ Layers \cap Server = {}
                              /\ LayerOrder \in Seq(Process)
                              /\ MaxApps \in Nat

VARIABLES
  should_quit, (* RunDLS2::should_quit                                     *)
  main,        (* where run() is                                           *)
  next,        (* the layer runLayer is about                              *)
  apps,        (* applications that were tried                             *)
  owned,       (* the keys of layers and discovery_servers                 *)
  stopping,    (* the map shutdownProcesses was called with                *)
  todo,        (* the processes a loop over a map has not reached          *)
  any_running, (* whether it has met one that runs                         *)
  all_stopped  (* layers_stopped and servers_stopped                       *)

frameVars == <<should_quit, main, next, apps, owned, stopping, todo, any_running, all_stopped>>
vars == <<opVars, frameVars>>

StartPlace == {"servers", "layer", "idle", "discover", "activate", "run", "apps"}
Waiting == {"SIGINT wait", "SIGTERM wait", "SIGKILL wait"}
MainPlace == StartPlace \cup Signal \cup Waiting
             \cup {"loop", "shutdown", "detach", "stopped", "failed"}

TypeOK ==
  /\ OPTypeOK
  /\ should_quit \in BOOLEAN
  /\ main \in MainPlace
  /\ next \in 1..(Len(LayerOrder) + 1)
  /\ apps \in 0..MaxApps
  /\ owned \subseteq Process
  /\ stopping \in {"none", "layers", "servers"}
  /\ todo \subseteq owned
  /\ any_running \in BOOLEAN
  /\ all_stopped \in BOOLEAN

Init ==
  /\ OPInit
  /\ should_quit = FALSE
  /\ main = "servers"
  /\ next = 1
  /\ apps = 0
  /\ owned = {}
  /\ stopping = "none"
  /\ todo = {}
  /\ any_running = FALSE
  /\ all_stopped = TRUE

-----------------------------------------------------------------------------
(* Start-up.                                                               *)

MainGoes(from, to) == main = from /\ main' = to

LayersOwned == owned \cap Layers

(* should_quit is set, so that the loop of run() is left before it starts. *)
Fails ==
  /\ should_quit' = TRUE
  /\ main' = "shutdown"
  /\ UNCHANGED <<opVars, next, apps, owned, stopping, todo, any_running, all_stopped>>

LaunchServer(p) ==
  /\ main = "servers" /\ p \in Server /\ ~should_quit
  /\ Launch(p)
  /\ owned' = owned \cup {p}
  /\ UNCHANGED <<should_quit, main, next, apps, stopping, todo, any_running, all_stopped>>

ServersLaunched ==
  /\ should_quit \/ Server \subseteq owned
  /\ MainGoes("servers", "layer")
  /\ UNCHANGED <<opVars, should_quit, next, apps, owned, stopping, todo, any_running, all_stopped>>

(* should_quit is tested, then the process is started and owned.           *)
RunLayer(p) ==
  /\ main = "layer" /\ next <= Len(LayerOrder) /\ p = LayerOrder[next]
  /\ ~should_quit
  /\ Launch(p)
  /\ owned' = owned \cup {p}
  /\ main' = "idle"
  /\ UNCHANGED <<should_quit, next, apps, stopping, todo, any_running, all_stopped>>

(* The process cannot be started: caught in run().                         *)
LaunchFails ==
  /\ main = "servers" \/ (main = "layer" /\ next <= Len(LayerOrder))
  /\ ~should_quit
  /\ Fails

LayerGoes(from, to) ==
  /\ MainGoes(from, to)
  /\ UNCHANGED <<opVars, should_quit, apps, owned, stopping, todo, any_running, all_stopped>>

(* The layer is idle; one participant offers activate, which one takes (or *)
(* not: activate is looked for again); the layer runs.                     *)
LayerAdvances ==
  \/ LayerGoes("idle", "discover") /\ UNCHANGED next
  \/ LayerGoes("discover", "activate") /\ ~should_quit /\ UNCHANGED next
  \/ LayerGoes("activate", "discover") /\ UNCHANGED next
  \/ LayerGoes("activate", "run") /\ UNCHANGED next
  \/ LayerGoes("run", "layer") /\ next' = next + 1

(* A timeout expired, or should_quit ended a wait or the start-up.         *)
LayerFails ==
  /\ main \in {"idle", "discover", "run"} \/ (main = "layer" /\ should_quit)
  /\ Fails

LayersLaunched ==
  /\ next = Len(LayerOrder) + 1 /\ ~should_quit
  /\ LayerGoes("layer", "apps") /\ UNCHANGED next

(* An application is loaded, and perhaps activated, or it is only logged   *)
(* that it was not.                                                        *)
StartApplication ==
  /\ main = "apps" /\ apps < MaxApps
  /\ apps' = apps + 1
  /\ UNCHANGED <<opVars, should_quit, main, next, owned, stopping, todo, any_running, all_stopped>>

(* The robot model cannot be loaded, or should_quit.                       *)
StartupFails ==
  /\ main = "apps"
  /\ Fails

StartupEnds ==
  /\ main = "apps" /\ ~should_quit
  /\ main' = "loop"
  /\ todo' = LayersOwned
  /\ any_running' = FALSE
  /\ UNCHANGED <<opVars, should_quit, next, apps, owned, stopping, all_stopped>>

-----------------------------------------------------------------------------
(* The loop that watches the layers.                                       *)

(* One call of running() in a loop over a map.                             *)
Looks(p) ==
  /\ p \in todo
  /\ Checks(p)
  /\ todo' = todo \ {p}
  /\ any_running' = (any_running \/ running(p))
  /\ UNCHANGED <<sent, should_quit, main, next, apps, owned, stopping, all_stopped>>

LoopLooks(p) == main = "loop" /\ Looks(p)

LoopRepeats ==
  /\ main = "loop" /\ todo = {} /\ ~should_quit
  /\ LayersOwned = {} \/ any_running
  /\ todo' = LayersOwned
  /\ any_running' = FALSE
  /\ UNCHANGED <<opVars, should_quit, main, next, apps, owned, stopping, all_stopped>>

LoopEnds ==
  /\ main = "loop" /\ (todo = LayersOwned \/ todo = {})
  /\ should_quit \/ (todo = {} /\ LayersOwned # {} /\ ~any_running)
  /\ main' = "shutdown"
  /\ todo' = {}
  /\ UNCHANGED <<opVars, should_quit, next, apps, owned, stopping, any_running, all_stopped>>

-----------------------------------------------------------------------------
(* shutdownProcesses, for the layers and then for the servers.             *)

(* Fault: the servers are stopped first.                                   *)
ServersFirst(map) == IF map = "layers" THEN owned \cap Server ELSE LayersOwned

Stopped(map) == IF map = "layers" THEN LayersOwned ELSE owned \cap Server

CallsShutdown(map) ==
  /\ stopping' = map
  /\ main' = "SIGINT"
  /\ todo' = Stopped(map)

ShutdownBegins ==
  /\ main = "shutdown"
  /\ CallsShutdown("layers")
  /\ UNCHANGED <<opVars, should_quit, next, apps, owned, any_running, all_stopped>>

(* The processes that run are sent the signal, one after the other.        *)
SendsSignal(p) ==
  /\ main \in Signal
  /\ p \in todo
  /\ todo' = todo \ {p}
  /\ Checks(p)
  /\ sent' = IF running(p) THEN [sent EXCEPT ![p] = @ \cup {main}] ELSE sent
  /\ UNCHANGED <<should_quit, main, next, apps, owned, stopping, any_running, all_stopped>>

Awaits == [s \in Signal |-> CASE s = "SIGINT" -> "SIGINT wait"
                              [] s = "SIGTERM" -> "SIGTERM wait"
                              [] s = "SIGKILL" -> "SIGKILL wait"]

WaitBegins ==
  /\ main \in Signal /\ todo = {}
  /\ main' = Awaits[main]
  /\ todo' = Stopped(stopping)
  /\ any_running' = FALSE
  /\ UNCHANGED <<opVars, should_quit, next, apps, owned, stopping, all_stopped>>

WaitLooks(p) == main \in Waiting /\ Looks(p)

Escalation == [w \in Waiting |-> CASE w = "SIGINT wait" -> "SIGTERM"
                                   [] w = "SIGTERM wait" -> "SIGKILL"
                                   [] w = "SIGKILL wait" -> "detach"]

(* One runs: the map is looked through again, or for the next signal.      *)
LooksAgain(place) ==
  /\ main \in Waiting /\ todo = {} /\ any_running
  /\ main' = place
  /\ todo' = Stopped(stopping)
  /\ any_running' = FALSE
  /\ UNCHANGED <<opVars, should_quit, next, apps, owned, stopping, all_stopped>>

WaitGoesOn == LooksAgain(main)

(* Fault: the deadline is not tested.                                      *)
WaitForEver == LooksAgain(main)

(* The deadline is over: a stronger signal follows.                        *)
WaitExpires == main \in Waiting /\ LooksAgain(Escalation[main])

(* What is still there is left alone; its end is not waited for.           *)
Detaches(p) ==
  /\ main = "detach"
  /\ p \in todo
  /\ todo' = todo \ {p}
  /\ Checks(p)
  /\ UNCHANGED <<sent, should_quit, main, next, apps, owned, stopping, any_running, all_stopped>>

(* shutdownProcesses returns whether a wait ended for want of processes.   *)
ShutdownReturns ==
  /\ todo = {}
  /\ main = "detach" \/ (main \in Waiting /\ ~any_running)
  /\ all_stopped' = (all_stopped /\ main # "detach")
  /\ IF stopping = "layers"
     THEN CallsShutdown("servers")
     ELSE /\ main' = IF all_stopped' THEN "stopped" ELSE "failed"
          /\ UNCHANGED <<stopping, todo>>
  /\ UNCHANGED <<opVars, should_quit, next, apps, owned, any_running>>

-----------------------------------------------------------------------------
(* SIGINT or SIGTERM through ShutdownSignal, or the command shutdown.      *)
RequestShutdown ==
  /\ main \notin {"stopped", "failed"} /\ ~should_quit
  /\ should_quit' = TRUE
  /\ UNCHANGED <<opVars, main, next, apps, owned, stopping, todo, any_running, all_stopped>>

System(p) ==
  /\ Fork(p) \/ LeaderExits(p) \/ RestExits(p)
  /\ UNCHANGED frameVars

Startup ==
  \/ \E p \in Process : LaunchServer(p) \/ RunLayer(p)
  \/ ServersLaunched \/ LaunchFails \/ LayerAdvances \/ LayerFails \/ LayersLaunched
  \/ StartApplication \/ StartupFails \/ StartupEnds

Watch == LoopRepeats \/ LoopEnds \/ \E p \in Process : LoopLooks(p)

Shutdown ==
  \/ \E p \in Process : SendsSignal(p) \/ WaitLooks(p) \/ Detaches(p)
  \/ ShutdownBegins \/ WaitBegins \/ WaitGoesOn \/ WaitExpires \/ ShutdownReturns

Next ==
  \/ Startup \/ Watch \/ Shutdown
  \/ RequestShutdown
  \/ \E p \in Process : System(p)

Spec == Init /\ [][Next]_vars

(* run() goes on, and the deadlines of its waits come.  The processes are  *)
(* asked for nothing: they may never end.                                  *)
FairSpec ==
  /\ Spec
  /\ WF_vars(Startup \/ Watch \/ Shutdown)
  /\ SF_vars(LayerFails) /\ SF_vars(WaitExpires)

-----------------------------------------------------------------------------
(* Properties.                                                             *)

(* The node says it stopped only when nothing it started, nor a descendant *)
(* of it, is left, not even unreaped: whenever the request came during     *)
(* start-up, whoever died first, whatever a layer started meanwhile.       *)
StoppedMeansGone == main = "stopped" => \A p \in Process : ~InGroup(p)

(* Discovery servers remain available throughout component cleanup: they   *)
(* are sent a signal only when the layers are gone or were killed.         *)
ServersOutliveLayers ==
  (\E s \in Server : sent[s] # {}) =>
    \A l \in Layers : ~InGroup(l) \/ "SIGKILL" \in sent[l]

(* A request to quit ends the node, even if no process ever reacts.        *)
ShutdownEnds == should_quit ~> main \in {"stopped", "failed"}

(* A node whose layers have all gone by themselves ends too.               *)
EndsWhenLeftAlone ==
  (main = "loop" /\ LayersOwned # {}
     /\ \A l \in LayersOwned : leader[l] # "alive" /\ rest[l] # "alive")
    ~> main \in {"stopped", "failed"}
=============================================================================
