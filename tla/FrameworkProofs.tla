--------------------------- MODULE FrameworkProofs ---------------------------
(***************************************************************************)
(* Proofs about Framework for any layers, servers and applications: type   *)
(* correctness, that a node that stopped left nothing behind, that the     *)
(* servers outlive the layers, that SIGKILL is the last resort, and that   *)
(* the shutdown only goes forward.                                         *)
(***************************************************************************)
EXTENDS Framework, TLAPS

(* Nothing of p is left, and nothing can start it again.                   *)
Gone(p) == leader[p] = "reaped" /\ rest[p] \in {"none", "reaped"}

Killed(p) == "SIGKILL" \in sent[p]

(* What is known of a process whether it is looked at or not.              *)
Known(p) ==
  /\ Launched(p) <=> p \in owned
  /\ rest[p] # "none" => Launched(p) /\ p \in OwnGroup
  /\ p \in finished_ => Gone(p)

Started == \A p \in Process : Known(p)

(* runLayer is about a layer.                                              *)
Within == main \in {"idle", "discover", "activate", "run"} => next <= Len(LayerOrder)

(* Which map is stopped when, and what a loop over it still reaches.       *)
Course ==
  /\ main \in StartPlace \cup {"loop", "shutdown"} <=> stopping = "none"
  /\ main \in {"stopped", "failed"} => stopping = "servers"
  /\ main \in Signal \cup Waiting \cup {"detach"} => todo \subseteq Stopped(stopping)

(* What a wait has found gone, and what it means that it ended well.       *)
Found ==
  /\ main \in Waiting /\ ~any_running => \A p \in Stopped(stopping) \ todo : Gone(p)
  /\ stopping = "servers" /\ all_stopped => \A p \in LayersOwned : Gone(p)
  /\ main = "stopped" => \A p \in owned : Gone(p)

(* The layers are done with when the servers' turn comes.                  *)
Done(p) == Gone(p) \/ Killed(p)

Escalated ==
  /\ \A p \in Server : sent[p] # {} => stopping = "servers"
  /\ stopping = "servers" => \A p \in LayersOwned : Done(p)
  /\ stopping = "layers" /\ main \in {"SIGKILL wait", "detach"} => \A p \in LayersOwned : Done(p)
  /\ stopping = "layers" /\ main = "SIGKILL" => \A p \in LayersOwned \ todo : Done(p)

Inv == TypeOK /\ Within /\ Started /\ Course /\ Found /\ Escalated

-----------------------------------------------------------------------------
(* The processes: what a step does to them.                                *)

LEMMA Roles ==
  /\ Layers \subseteq Process /\ Server \subseteq Process
  /\ Layers \cap Server = {} /\ Layers \cup Server = Process
  /\ Len(LayerOrder) \in Nat
  /\ \A i \in 1..Len(LayerOrder) : LayerOrder[i] \in Process
PROOF
  BY FrameworkAssumption

(* The processes keep their types, and who is gone stays gone.             *)
Kept ==
  /\ OPTypeOK'
  /\ Started'
  /\ \A q \in Process : Gone(q) => Gone(q)'
  /\ \A q \in Process : Killed(q) => Killed(q)'

LEMMA ProcessesUnchanged ==
  ASSUME OPTypeOK, Started, UNCHANGED <<opVars, owned>>
  PROVE  Kept
PROOF
  BY DEF Kept, OPTypeOK, Started, Known, Gone, Killed, Launched, opVars

LEMMA LaunchKeeps ==
  ASSUME OPTypeOK, Started, NEW p \in Process, Launch(p), owned' = owned \cup {p}
  PROVE  Kept
PROOF
  <1>1. leader' \in [Process -> Life]
    BY DEF Launch, OPTypeOK, Life
  <1>2. OPTypeOK'
    BY <1>1 DEF Launch, OPTypeOK
  <1>3. ASSUME NEW q \in Process
        PROVE  Known(q)'
    BY <1>3 DEF Started, Known, Gone, Launched, Launch, OPTypeOK
  <1>4. \A q \in Process : (Gone(q) => Gone(q)') /\ (Killed(q) => Killed(q)')
    BY DEF Started, Known, Gone, Killed, Launched, Launch, OPTypeOK
  <1>. QED
    BY <1>2, <1>3, <1>4 DEF Kept, Started

(* running() reaps, and what it says does not run is gone.                 *)
LEMMA ChecksKeeps ==
  ASSUME OPTypeOK, Started, NEW p \in Process, p \in owned, Checks(p), owned' = owned,
         sent' \in [Process -> SUBSET Signal], \A q \in Process : Killed(q) => Killed(q)'
  PROVE  Kept /\ (~running(p) => Gone(p)')
PROOF
  <1>1. LeaderAfter(p) \in Life \ {"zombie"} /\ RestAfter(p) \in Life
    BY DEF LeaderAfter, RestAfter, OPTypeOK, Life
  <1>2. leader' \in [Process -> Life] /\ rest' \in [Process -> Life]
    BY <1>1 DEF Checks, OPTypeOK
  <1>3. OPTypeOK'
    BY <1>2 DEF Checks, OPTypeOK
  <1>4. Known(p)
    BY DEF Started
  <1>5. ~running(p) => Gone(p)'
    <2>1. CASE p \in finished_
      BY <2>1, <1>4 DEF Known, Gone, Checks
    <2>2. CASE p \notin finished_
      <3>1. leader'[p] = LeaderAfter(p) /\ rest'[p] = RestAfter(p)
        BY <2>2 DEF Checks, OPTypeOK
      <3>2. LeaderAfter(p) # "none"
        BY <1>4 DEF Known, LeaderAfter, Launched
      <3>3. p \notin OwnGroup => RestAfter(p) = "none"
        BY <1>4 DEF Known, RestAfter
      <3>. QED
        BY <2>2, <3>1, <3>2, <3>3, <1>1 DEF running, Gone, Life
    <2>. QED
      BY <2>1, <2>2
  <1>6. \A q \in Process : Gone(q) => Gone(q)'
    BY DEF Gone, Checks, LeaderAfter, RestAfter, OPTypeOK
  <1>7. Known(p)'
    <2>1. Launched(p)' <=> p \in owned'
      BY <1>4, <1>1 DEF Known, Launched, Checks, LeaderAfter, OPTypeOK
    <2>2. rest'[p] # "none" => Launched(p)' /\ p \in OwnGroup
      BY <1>4, <2>1 DEF Known, Checks, RestAfter, OPTypeOK
    <2>3. p \in finished_' => Gone(p)'
      BY <1>4, <1>5, <1>6 DEF Known, Checks
    <2>. QED
      BY <2>1, <2>2, <2>3 DEF Known
  <1>8. ASSUME NEW q \in Process, q # p
        PROVE  Known(q)'
    BY <1>8 DEF Started, Known, Gone, Launched, Checks, OPTypeOK
  <1>. QED
    BY <1>3, <1>5, <1>6, <1>7, <1>8 DEF Kept, Started

LEMMA SystemKeeps ==
  ASSUME OPTypeOK, Started, NEW p \in Process, System(p)
  PROVE  Kept
PROOF
  <1>1. OPTypeOK'
    BY DEF System, Fork, LeaderExits, RestExits, OPTypeOK, Life
  <1>2. \A q \in Process : (Gone(q) => Gone(q)') /\ (Killed(q) => Killed(q)')
    BY DEF System, Fork, LeaderExits, RestExits, OPTypeOK, Gone, Killed
  <1>3. ASSUME NEW q \in Process
        PROVE  Known(q)'
    <2>1. Known(q)
      BY DEF Started
    <2>2. Launched(q)' <=> q \in owned'
      BY <2>1 DEF Known, Launched, System, Fork, LeaderExits, RestExits, OPTypeOK, frameVars
    <2>3. rest'[q] # "none" => Launched(q)' /\ q \in OwnGroup
      BY <2>1, <2>2 DEF Known, Launched, System, Fork, LeaderExits, RestExits, OPTypeOK, frameVars
    <2>4. q \in finished_' => Gone(q)'
      BY <2>1, <1>2 DEF Known, System, Fork, LeaderExits, RestExits
    <2>. QED
      BY <2>2, <2>3, <2>4 DEF Known
  <1>. QED
    BY <1>1, <1>2, <1>3 DEF Kept, Started

(* The steps that neither start, check, signal nor end a process.          *)
QuietStart == ServersLaunched \/ LaunchFails \/ LayerAdvances \/ LayerFails \/ LayersLaunched
              \/ StartApplication \/ StartupFails \/ StartupEnds

QuietStop == LoopRepeats \/ LoopEnds \/ ShutdownBegins \/ WaitBegins \/ WaitGoesOn
             \/ WaitExpires \/ ShutdownReturns

LEMMA QuietIsQuiet ==
  QuietStart \/ QuietStop \/ RequestShutdown => UNCHANGED <<opVars, owned>>
PROOF
  <1>1. QuietStart => UNCHANGED <<opVars, owned>>
    BY DEF QuietStart, ServersLaunched, LaunchFails, LayerAdvances, LayerFails, LayersLaunched,
           StartApplication, StartupFails, StartupEnds, Fails, LayerGoes
  <1>2. QuietStop => UNCHANGED <<opVars, owned>>
    BY DEF QuietStop, LoopRepeats, LoopEnds, ShutdownBegins, WaitBegins, WaitGoesOn, WaitExpires,
           LooksAgain, ShutdownReturns
  <1>. QED
    BY <1>1, <1>2 DEF RequestShutdown

(* The kinds of step the proofs distinguish.                               *)
LEMMA StepKinds ==
  ASSUME [Next]_vars
  PROVE  \/ \E p \in Process : LaunchServer(p) \/ RunLayer(p)
         \/ \E p \in Process : LoopLooks(p) \/ WaitLooks(p) \/ SendsSignal(p) \/ Detaches(p)
         \/ \E p \in Process : System(p)
         \/ QuietStart \/ QuietStop \/ RequestShutdown \/ UNCHANGED vars
PROOF
  BY DEF Next, Startup, Watch, Shutdown, QuietStart, QuietStop

LEMMA SignalKeeps ==
  ASSUME TypeOK, Started, NEW p \in Process, SendsSignal(p)
  PROVE  Kept /\ (~running(p) => Gone(p)') /\ (running(p) => sent'[p] = sent[p] \cup {main})
PROOF
  <1>1. sent' \in [Process -> SUBSET Signal] /\ \A q \in Process : Killed(q) => Killed(q)'
    BY DEF SendsSignal, TypeOK, OPTypeOK, Killed
  <1>2. p \in owned /\ owned' = owned /\ Checks(p)
    BY DEF SendsSignal, TypeOK
  <1>3. running(p) => sent'[p] = sent[p] \cup {main}
    BY DEF SendsSignal, TypeOK, OPTypeOK
  <1>. QED
    BY <1>1, <1>2, <1>3, ChecksKeeps DEF TypeOK

LEMMA LooksKeeps ==
  ASSUME TypeOK, Started, NEW p \in Process, Looks(p) \/ Detaches(p)
  PROVE  Kept /\ (~running(p) => Gone(p)')
PROOF
  <1>1. sent' = sent /\ p \in owned /\ owned' = owned /\ Checks(p)
    BY DEF Looks, Detaches, TypeOK
  <1>2. \A q \in Process : Killed(q) => Killed(q)'
    BY <1>1 DEF Killed
  <1>. QED
    BY <1>1, <1>2, ChecksKeeps DEF TypeOK, OPTypeOK

LEMMA StepKeeps ==
  ASSUME TypeOK, Started, [Next]_vars
  PROVE  Kept
PROOF
  <1>1. ASSUME NEW p \in Process, LaunchServer(p) \/ RunLayer(p)
        PROVE  Kept
    BY <1>1, LaunchKeeps DEF LaunchServer, RunLayer, TypeOK
  <1>2. ASSUME NEW p \in Process, LoopLooks(p) \/ WaitLooks(p) \/ Detaches(p)
        PROVE  Kept
    BY <1>2, LooksKeeps DEF LoopLooks, WaitLooks
  <1>3. ASSUME NEW p \in Process, System(p)
        PROVE  Kept
    BY <1>3, SystemKeeps DEF TypeOK
  <1>4. CASE QuietStart \/ QuietStop \/ RequestShutdown \/ UNCHANGED vars
    <2>1. UNCHANGED <<opVars, owned>>
      BY <1>4, QuietIsQuiet DEF vars, frameVars
    <2>. QED
      BY <2>1, ProcessesUnchanged DEF TypeOK
  <1>. QED
    BY <1>1, <1>2, <1>3, <1>4, SignalKeeps, StepKinds

-----------------------------------------------------------------------------
(* The types.                                                              *)

Booleans == should_quit \in BOOLEAN /\ any_running \in BOOLEAN /\ all_stopped \in BOOLEAN

Sets == owned \subseteq Process /\ todo \subseteq owned /\ stopping \in {"none", "layers", "servers"}

Numbers == next \in 1..(Len(LayerOrder) + 1) /\ apps \in 0..MaxApps

LEMMA InitTypes == Init => TypeOK /\ Within
PROOF
  <1>1. Init => OPTypeOK
    BY DEF Init, OPInit, OPTypeOK, Life, Signal
  <1>2. Init => Numbers /\ main \in MainPlace
    BY Roles, FrameworkAssumption DEF Init, Numbers, MainPlace, StartPlace
  <1>. QED
    BY <1>1, <1>2 DEF Init, TypeOK, Numbers, Within

LEMMA BooleansStep ==
  ASSUME TypeOK, [Next]_vars
  PROVE  Booleans'
PROOF
  <1>1. ASSUME NEW p \in Process, LaunchServer(p) \/ RunLayer(p)
        PROVE  Booleans'
    BY <1>1 DEF LaunchServer, RunLayer, TypeOK, Booleans
  <1>2. ASSUME NEW p \in Process,
               LoopLooks(p) \/ WaitLooks(p) \/ SendsSignal(p) \/ Detaches(p) \/ System(p)
        PROVE  Booleans'
    <2>1. running(p) \in BOOLEAN
      BY DEF running
    <2>. QED
      BY <1>2, <2>1, Zenon
      DEF LoopLooks, WaitLooks, Looks, SendsSignal, Detaches, System, frameVars, TypeOK, Booleans
  <1>3. CASE QuietStart
    BY <1>3, Zenon DEF QuietStart, ServersLaunched, LaunchFails, LayerAdvances, LayerFails, LayersLaunched,
           StartApplication, StartupFails, StartupEnds, Fails, LayerGoes, TypeOK, Booleans
  <1>4. CASE QuietStop
    BY <1>4, Zenon DEF QuietStop, LoopRepeats, LoopEnds, ShutdownBegins, WaitBegins, WaitGoesOn, WaitExpires,
           LooksAgain, ShutdownReturns, TypeOK, Booleans
  <1>5. CASE RequestShutdown \/ UNCHANGED vars
    BY <1>5 DEF RequestShutdown, vars, frameVars, TypeOK, Booleans
  <1>. QED
    BY <1>1, <1>2, <1>3, <1>4, <1>5, StepKinds

LEMMA PlaceStep ==
  ASSUME TypeOK, [Next]_vars
  PROVE  main' \in MainPlace
PROOF
  <1>1. ASSUME NEW p \in Process, LaunchServer(p) \/ RunLayer(p)
        PROVE  main' \in MainPlace
    BY <1>1 DEF LaunchServer, RunLayer, TypeOK, MainPlace, StartPlace
  <1>2. ASSUME NEW p \in Process,
               LoopLooks(p) \/ WaitLooks(p) \/ SendsSignal(p) \/ Detaches(p) \/ System(p)
        PROVE  main' \in MainPlace
    BY <1>2 DEF LoopLooks, WaitLooks, Looks, SendsSignal, Detaches, System, frameVars, TypeOK
  <1>3. CASE QuietStart
    BY <1>3 DEF QuietStart, ServersLaunched, LaunchFails, LayerAdvances, LayerFails, LayersLaunched,
           StartApplication, StartupFails, StartupEnds, Fails, LayerGoes, MainGoes, TypeOK,
           MainPlace, StartPlace
  <1>4. CASE WaitBegins \/ WaitExpires
    BY <1>4 DEF WaitBegins, WaitExpires, LooksAgain, Awaits, Escalation, MainPlace, Signal, Waiting
  <1>5. CASE LoopRepeats \/ LoopEnds \/ ShutdownBegins \/ WaitGoesOn \/ ShutdownReturns
    BY <1>5 DEF LoopRepeats, LoopEnds, ShutdownBegins, WaitGoesOn,
           LooksAgain, ShutdownReturns, CallsShutdown, TypeOK, MainPlace, Signal
  <1>6. CASE RequestShutdown \/ UNCHANGED vars
    BY <1>6 DEF RequestShutdown, vars, frameVars, TypeOK
  <1>. QED
    BY <1>1, <1>2, <1>3, <1>4, <1>5, <1>6, StepKinds DEF QuietStop

LEMMA SetsStep ==
  ASSUME TypeOK, [Next]_vars
  PROVE  Sets'
PROOF
  <1>1. ASSUME NEW p \in Process, LaunchServer(p) \/ RunLayer(p)
        PROVE  Sets'
    BY <1>1 DEF LaunchServer, RunLayer, TypeOK, Sets
  <1>2. ASSUME NEW p \in Process,
               LoopLooks(p) \/ WaitLooks(p) \/ SendsSignal(p) \/ Detaches(p) \/ System(p)
        PROVE  Sets'
    BY <1>2 DEF LoopLooks, WaitLooks, Looks, SendsSignal, Detaches, System, frameVars, TypeOK, Sets
  <1>3. CASE QuietStart
    BY <1>3 DEF QuietStart, ServersLaunched, LaunchFails, LayerAdvances, LayerFails, LayersLaunched,
           StartApplication, StartupFails, StartupEnds, Fails, LayerGoes, TypeOK, Sets, LayersOwned
  <1>4. CASE QuietStop
    BY <1>4 DEF QuietStop, LoopRepeats, LoopEnds, ShutdownBegins, WaitBegins, WaitGoesOn, WaitExpires,
           LooksAgain, ShutdownReturns, CallsShutdown, Stopped, LayersOwned, TypeOK, Sets
  <1>5. CASE RequestShutdown \/ UNCHANGED vars
    BY <1>5 DEF RequestShutdown, vars, frameVars, TypeOK, Sets
  <1>. QED
    BY <1>1, <1>2, <1>3, <1>4, <1>5, StepKinds

LEMMA NumbersStep ==
  ASSUME TypeOK, Within, [Next]_vars
  PROVE  Numbers' /\ Within'
PROOF
  <1>1. ASSUME NEW p \in Process, LaunchServer(p) \/ RunLayer(p)
        PROVE  Numbers' /\ Within'
    BY <1>1 DEF LaunchServer, RunLayer, TypeOK, Numbers, Within
  <1>2. ASSUME NEW p \in Process,
               LoopLooks(p) \/ WaitLooks(p) \/ SendsSignal(p) \/ Detaches(p) \/ System(p)
        PROVE  Numbers' /\ Within'
    BY <1>2 DEF LoopLooks, WaitLooks, Looks, SendsSignal, Detaches, System, frameVars, TypeOK,
                Numbers, Within
  <1>3. CASE LayerAdvances
    BY <1>3, Roles DEF LayerAdvances, LayerGoes, MainGoes, TypeOK, Numbers, Within
  <1>4. CASE StartApplication
    BY <1>4, FrameworkAssumption DEF StartApplication, TypeOK, Numbers, Within
  <1>5. CASE ServersLaunched \/ LaunchFails \/ LayerFails \/ LayersLaunched \/ StartupFails \/ StartupEnds
    BY <1>5 DEF ServersLaunched, LaunchFails, LayerFails, LayersLaunched,
           StartupFails, StartupEnds, Fails, LayerGoes, MainGoes, TypeOK, Numbers, Within
  <1>6. CASE QuietStop
    <2>1. main' \notin {"idle", "discover", "activate", "run"}
      BY <1>6 DEF QuietStop, LoopRepeats, LoopEnds, ShutdownBegins, WaitBegins, WaitGoesOn,
             WaitExpires, LooksAgain, ShutdownReturns, CallsShutdown, Awaits, Escalation, Signal,
             Waiting
    <2>2. UNCHANGED <<next, apps>>
      BY <1>6 DEF QuietStop, LoopRepeats, LoopEnds, ShutdownBegins, WaitBegins, WaitGoesOn,
             WaitExpires, LooksAgain, ShutdownReturns
    <2>. QED
      BY <2>1, <2>2 DEF TypeOK, Numbers, Within
  <1>7. CASE RequestShutdown \/ UNCHANGED vars
    BY <1>7 DEF RequestShutdown, vars, frameVars, TypeOK, Numbers, Within
  <1>. QED
    BY <1>1, <1>2, <1>3, <1>4, <1>5, <1>6, <1>7, StepKinds DEF QuietStart

LEMMA TypeStep ==
  ASSUME TypeOK, Within, Started, [Next]_vars
  PROVE  TypeOK' /\ Within'
PROOF
  <1>1. OPTypeOK'
    BY StepKeeps DEF Kept
  <1>. QED
    BY <1>1, BooleansStep, PlaceStep, SetsStep, NumbersStep DEF TypeOK, Booleans, Sets, Numbers

-----------------------------------------------------------------------------
(* The order of the shutdown.                                              *)

LEMMA CourseStep ==
  ASSUME TypeOK, Course, [Next]_vars
  PROVE  Course'
PROOF
  <1>1. ASSUME NEW p \in Process, LaunchServer(p) \/ RunLayer(p)
        PROVE  Course'
    BY <1>1 DEF LaunchServer, RunLayer, Course, StartPlace, Signal, Waiting
  <1>2. ASSUME NEW p \in Process,
               LoopLooks(p) \/ WaitLooks(p) \/ SendsSignal(p) \/ Detaches(p) \/ System(p)
        PROVE  Course'
    <2>1. todo' \subseteq todo /\ UNCHANGED <<main, stopping, owned>>
      BY <1>2 DEF LoopLooks, WaitLooks, Looks, SendsSignal, Detaches, System, frameVars
    <2>. QED
      BY <2>1 DEF Course, Stopped, LayersOwned
  <1>3. CASE QuietStart
    <2>1. main \in StartPlace /\ main' \in StartPlace \cup {"loop", "shutdown"} /\ stopping' = stopping
      BY <1>3 DEF QuietStart, ServersLaunched, LaunchFails, LayerAdvances, LayerFails, LayersLaunched,
             StartApplication, StartupFails, StartupEnds, Fails, LayerGoes, MainGoes, StartPlace
    <2>. QED
      BY <2>1 DEF Course, StartPlace, Signal, Waiting
  <1>4. CASE LoopRepeats \/ LoopEnds
    BY <1>4 DEF LoopRepeats, LoopEnds, Course, StartPlace, Signal, Waiting
  <1>5. CASE ShutdownBegins
    BY <1>5 DEF ShutdownBegins, CallsShutdown, Course, Stopped, LayersOwned, StartPlace, Signal
  <1>6. CASE WaitBegins \/ WaitGoesOn \/ WaitExpires
    <2>1. main \in Signal \cup Waiting /\ main' \in Signal \cup Waiting \cup {"detach"}
      BY <1>6 DEF WaitBegins, WaitGoesOn, WaitExpires, LooksAgain, Awaits, Escalation, Signal, Waiting
    <2>2. todo' = Stopped(stopping) /\ UNCHANGED <<stopping, owned>>
      BY <1>6 DEF WaitBegins, WaitGoesOn, WaitExpires, LooksAgain
    <2>. QED
      BY <2>1, <2>2 DEF Course, Stopped, LayersOwned, StartPlace, Signal, Waiting
  <1>7. CASE ShutdownReturns
    BY <1>7 DEF ShutdownReturns, CallsShutdown, Course, TypeOK, Stopped, LayersOwned, StartPlace,
           Signal, Waiting
  <1>8. CASE RequestShutdown \/ UNCHANGED vars
    BY <1>8 DEF RequestShutdown, vars, frameVars, Course, Stopped, LayersOwned
  <1>. QED
    BY <1>1, <1>2, <1>3, <1>4, <1>5, <1>6, <1>7, <1>8, StepKinds DEF QuietStop

(* Outside the shutdown nothing was found and nobody was sent a signal.    *)
LEMMA FoundStep ==
  ASSUME TypeOK, Started, Course, Found, [Next]_vars
  PROVE  Found'
PROOF
  <1>. Kept
    BY StepKeeps
  <1>1. ASSUME NEW p \in Process, LaunchServer(p) \/ RunLayer(p)
        PROVE  Found'
    BY <1>1 DEF LaunchServer, RunLayer, Course, Found, StartPlace, Waiting
  <1>2. ASSUME NEW p \in Process,
               LoopLooks(p) \/ SendsSignal(p) \/ Detaches(p) \/ System(p)
        PROVE  Found'
    <2>1. UNCHANGED <<main, stopping, owned, all_stopped>>
      BY <1>2 DEF LoopLooks, Looks, SendsSignal, Detaches, System, frameVars
    <2>2. main \in Waiting => UNCHANGED <<todo, any_running>>
      BY <1>2 DEF LoopLooks, Looks, SendsSignal, Detaches, System, frameVars, Waiting, Signal
    <2>. QED
      BY <2>1, <2>2 DEF Found, Kept, TypeOK, Stopped, LayersOwned
  <1>3. ASSUME NEW p \in Process, WaitLooks(p)
        PROVE  Found'
    <2>1. ~running(p) => Gone(p)'
      BY <1>3, LooksKeeps DEF WaitLooks
    <2>2. /\ todo' = todo \ {p} /\ any_running' = (any_running \/ running(p))
          /\ main \in Waiting /\ UNCHANGED <<main, stopping, owned, all_stopped>>
      BY <1>3 DEF WaitLooks, Looks
    <2>3. Stopped(stopping)' = Stopped(stopping) /\ Stopped(stopping) \subseteq Process
      BY <2>2 DEF Stopped, LayersOwned, TypeOK
    <2>4. main' \in Waiting /\ ~any_running' => \A q \in Stopped(stopping)' \ todo' : Gone(q)'
      BY <2>1, <2>2, <2>3 DEF Found, Kept
    <2>5. stopping' = "servers" /\ all_stopped' => \A q \in LayersOwned' : Gone(q)'
      BY <2>2 DEF Found, Kept, TypeOK, LayersOwned
    <2>6. main' # "stopped"
      BY <2>2 DEF Waiting
    <2>. QED
      BY <2>4, <2>5, <2>6 DEF Found, Stopped, LayersOwned
  <1>4. CASE QuietStart \/ LoopRepeats \/ LoopEnds \/ ShutdownBegins
    <2>1. main' \notin Waiting \cup {"stopped"} /\ stopping' # "servers"
      <3>1. CASE QuietStart
        BY <3>1 DEF QuietStart, ServersLaunched, LaunchFails, LayerAdvances, LayerFails,
               LayersLaunched, StartApplication, StartupFails, StartupEnds, Fails, LayerGoes,
               MainGoes, Course, StartPlace, Waiting
      <3>2. CASE LoopRepeats \/ LoopEnds \/ ShutdownBegins
        BY <3>2 DEF LoopRepeats, LoopEnds, ShutdownBegins, CallsShutdown, Course, StartPlace, Waiting
      <3>. QED
        BY <1>4, <3>1, <3>2
    <2>. QED
      BY <2>1 DEF Found
  <1>5. CASE WaitBegins \/ WaitGoesOn \/ WaitExpires
    <2>1. todo' = Stopped(stopping) /\ UNCHANGED <<stopping, owned, all_stopped>>
      BY <1>5 DEF WaitBegins, WaitGoesOn, WaitExpires, LooksAgain
    <2>2. main' # "stopped"
      BY <1>5 DEF WaitBegins, WaitGoesOn, WaitExpires, LooksAgain, Awaits, Escalation, Signal, Waiting
    <2>. QED
      BY <2>1, <2>2 DEF Found, Kept, TypeOK, Stopped, LayersOwned
  <1>6. CASE ShutdownReturns
    <2>1. /\ todo = {} /\ (main = "detach" \/ (main \in Waiting /\ ~any_running))
          /\ main' \notin Waiting /\ owned' = owned
      BY <1>6 DEF ShutdownReturns, CallsShutdown, Waiting
    <2>2. all_stopped' => all_stopped /\ \A q \in Stopped(stopping) : Gone(q)'
      <3>1. all_stopped' => all_stopped /\ main # "detach" /\ todo = {}
        BY <1>6 DEF ShutdownReturns
      <3>2. Stopped(stopping) \subseteq Process
        BY DEF Stopped, LayersOwned, TypeOK
      <3>. QED
        BY <2>1, <3>1, <3>2 DEF Found, Kept
    <2>3. stopping \in {"layers", "servers"}
      BY <2>1 DEF Course, TypeOK, StartPlace, Waiting
    <2>4. CASE stopping = "layers"
      <3>1. main' = "SIGINT" /\ stopping' = "servers"
        BY <1>6, <2>4 DEF ShutdownReturns, CallsShutdown
      <3>. QED
        BY <2>1, <2>2, <2>4, <3>1 DEF Found, Stopped, LayersOwned
    <2>5. CASE stopping = "servers"
      <3>1. stopping' = "servers" /\ (main' = "stopped" => all_stopped')
        BY <1>6, <2>5 DEF ShutdownReturns
      <3>2. all_stopped' => \A q \in LayersOwned : Gone(q)'
        BY <2>2, <2>5 DEF Found, Kept, LayersOwned, TypeOK
      <3>3. all_stopped' => \A q \in owned : Gone(q)'
        BY <2>2, <2>5, <3>2, Roles DEF Stopped, LayersOwned, TypeOK
      <3>. QED
        BY <2>1, <3>1, <3>2, <3>3 DEF Found, LayersOwned
    <2>. QED
      BY <2>3, <2>4, <2>5
  <1>7. CASE RequestShutdown \/ UNCHANGED vars
    BY <1>7 DEF RequestShutdown, vars, frameVars, Found, Kept, TypeOK, Stopped, LayersOwned
  <1>. QED
    BY <1>1, <1>2, <1>3, <1>4, <1>5, <1>6, <1>7, StepKinds DEF QuietStop

LEMMA EscalatedStep ==
  ASSUME TypeOK, Started, Course, Found, Escalated, [Next]_vars
  PROVE  Escalated'
PROOF
  <1>. Kept
    BY StepKeeps
  <1>. LayersOwned \subseteq Process
    BY DEF LayersOwned, TypeOK
  <1>1. \A q \in Process : Done(q) => Done(q)'
    BY DEF Kept, Done
  <1>2. ASSUME NEW p \in Process, LaunchServer(p) \/ RunLayer(p)
        PROVE  Escalated'
    <2>1. stopping = "none" /\ stopping' = "none" /\ sent' = sent
      BY <1>2 DEF LaunchServer, RunLayer, Launch, Course, StartPlace
    <2>. QED
      BY <2>1 DEF Escalated
  <1>3. ASSUME NEW p \in Process, LoopLooks(p) \/ WaitLooks(p) \/ Detaches(p) \/ System(p)
        PROVE  Escalated'
    <2>1. UNCHANGED <<main, stopping, owned, sent>>
      BY <1>3 DEF LoopLooks, WaitLooks, Looks, Detaches, System, Fork, LeaderExits, RestExits, frameVars
    <2>2. main = "SIGKILL" => todo' = todo
      BY <1>3 DEF LoopLooks, WaitLooks, Looks, Detaches, System, frameVars, Waiting
    <2>. QED
      BY <2>1, <2>2, <1>1 DEF Escalated, LayersOwned
  <1>4. ASSUME NEW p \in Process, SendsSignal(p)
        PROVE  Escalated'
    <2>1. /\ main \in Signal /\ p \in todo /\ todo' = todo \ {p}
          /\ UNCHANGED <<main, stopping, owned>>
      BY <1>4 DEF SendsSignal
    <2>2. p \in Stopped(stopping) /\ stopping # "none"
      BY <2>1 DEF Course, StartPlace, Signal
    <2>3. \A q \in Process : q # p => sent'[q] = sent[q]
      BY <1>4 DEF SendsSignal, TypeOK, OPTypeOK
    <2>4. \A q \in Server : sent'[q] # {} => stopping' = "servers"
      BY <2>1, <2>2, <2>3, Roles DEF Escalated, Stopped, LayersOwned, TypeOK
    <2>5. main = "SIGKILL" => Done(p)'
      BY <1>4, SignalKeeps DEF Done, Killed
    <2>. QED
      BY <2>1, <2>4, <2>5, <1>1 DEF Escalated, LayersOwned
  <1>5. CASE QuietStart \/ LoopRepeats \/ LoopEnds \/ ShutdownBegins
    <2>1. stopping = "none" /\ (stopping' = "none" \/ (stopping' = "layers" /\ main' = "SIGINT"))
      <3>1. CASE QuietStart
        BY <3>1 DEF QuietStart, ServersLaunched, LaunchFails, LayerAdvances, LayerFails,
               LayersLaunched, StartApplication, StartupFails, StartupEnds, Fails, LayerGoes,
               MainGoes, Course, StartPlace
      <3>2. CASE LoopRepeats \/ LoopEnds \/ ShutdownBegins
        BY <3>2 DEF LoopRepeats, LoopEnds, ShutdownBegins, CallsShutdown, Course, StartPlace
      <3>. QED
        BY <1>5, <3>1, <3>2
    <2>2. sent' = sent
      BY <1>5, QuietIsQuiet DEF QuietStop, opVars
    <2>. QED
      BY <2>1, <2>2 DEF Escalated
  <1>6. CASE WaitBegins \/ WaitGoesOn \/ WaitExpires
    <2>1. sent' = sent
      BY <1>6, QuietIsQuiet DEF QuietStop, opVars
    <2>2. UNCHANGED <<stopping, owned>> /\ todo = {} /\ todo' = Stopped(stopping)
      BY <1>6 DEF WaitBegins, WaitGoesOn, WaitExpires, LooksAgain
    <2>3. main' \in {"SIGKILL wait", "detach"} => main \in {"SIGKILL", "SIGKILL wait"}
      BY <1>6 DEF WaitBegins, WaitGoesOn, WaitExpires, LooksAgain, Awaits, Escalation, Signal, Waiting
    <2>. QED
      BY <2>1, <2>2, <2>3, <1>1 DEF Escalated, LayersOwned, Stopped
  <1>7. CASE ShutdownReturns
    <2>1. sent' = sent /\ owned' = owned
      BY <1>7, QuietIsQuiet DEF QuietStop, opVars
    <2>2. /\ todo = {} /\ (main = "detach" \/ (main \in Waiting /\ ~any_running))
          /\ stopping' = "servers"
      BY <1>7 DEF ShutdownReturns, CallsShutdown, Course, TypeOK, StartPlace, Waiting
    <2>3. stopping \in {"layers", "servers"}
      BY <2>2 DEF Course, TypeOK, StartPlace, Waiting
    <2>4. \A q \in LayersOwned : Done(q)
      BY <2>2, <2>3 DEF Escalated, Found, Stopped, LayersOwned, Done
    <2>. QED
      BY <2>1, <2>2, <2>4, <1>1 DEF Escalated, LayersOwned
  <1>8. CASE RequestShutdown \/ UNCHANGED vars
    BY <1>8, <1>1 DEF RequestShutdown, vars, frameVars, opVars, Escalated, LayersOwned
  <1>. QED
    BY <1>2, <1>3, <1>4, <1>5, <1>6, <1>7, <1>8, StepKinds DEF QuietStop

-----------------------------------------------------------------------------
(* The theorems.                                                           *)

LEMMA InitInv == Init => Inv
PROOF
  <1>1. Init => Started
    BY DEF Init, OPInit, Started, Known, Launched
  <1>2. Init => Course /\ Found /\ Escalated
    BY Roles DEF Init, OPInit, Course, Found, Escalated, StartPlace, Signal, Waiting
  <1>. QED
    BY <1>1, <1>2, InitTypes DEF Inv

LEMMA Inductive == Inv /\ [Next]_vars => Inv'
PROOF
  <1>. SUFFICES ASSUME Inv, [Next]_vars
                PROVE  Inv'
    OBVIOUS
  <1>1. Started'
    BY StepKeeps DEF Inv, Kept
  <1>. QED
    BY <1>1, TypeStep, CourseStep, FoundStep, EscalatedStep DEF Inv

LEMMA Invariant == Spec => []Inv
PROOF
  BY InitInv, Inductive, PTL DEF Spec

(* The places, the maps and the processes keep their types: runLayer never *)
(* goes past the last layer, no loop over a map reaches what is not in it. *)
THEOREM TypeCorrect == Spec => []TypeOK
PROOF
  <1>1. Inv => TypeOK
    BY DEF Inv
  <1>. QED
    BY <1>1, Invariant, PTL

(* When run() returns, nothing that it started is left, whatever the       *)
(* number of layers and servers and wherever the start-up was stopped.     *)
THEOREM NothingIsLeft == Spec => []StoppedMeansGone
PROOF
  <1>1. Inv => StoppedMeansGone
    BY DEF Inv, Found, Started, Known, Gone, Launched, StoppedMeansGone, InGroup
  <1>. QED
    BY <1>1, Invariant, PTL

(* No discovery server is sent a signal while a layer that was not killed  *)
(* is there, which run() promises of its two calls of shutdownProcesses.   *)
THEOREM ServersLast == Spec => []ServersOutliveLayers
PROOF
  <1>1. Inv => ServersOutliveLayers
    <2>. SUFFICES ASSUME Inv, NEW s \in Server, sent[s] # {}, NEW l \in Layers
                  PROVE  ~InGroup(l) \/ "SIGKILL" \in sent[l]
      BY DEF ServersOutliveLayers
    <2>1. CASE l \in owned
      BY <2>1 DEF Inv, Escalated, LayersOwned, Done, Gone, Killed, InGroup
    <2>2. CASE l \notin owned
      BY <2>2, Roles DEF Inv, Started, Known, Launched, InGroup
    <2>. QED
      BY <2>1, <2>2
  <1>. QED
    BY <1>1, Invariant, PTL

-----------------------------------------------------------------------------
(* The order of the signals.                                               *)

(* Whoever a shutdown is about and is still there was sent the signal.     *)
Has(p, s) == Gone(p) \/ s \in sent[p]

(* From the wait after a signal on, and within the loop that sends it.     *)
Sent(s, after, during) ==
  \A p \in Stopped(stopping) : main \in after \/ (main = during /\ p \notin todo) => Has(p, s)

SignalsSent ==
  /\ Sent("SIGINT", {"SIGINT wait", "SIGTERM", "SIGTERM wait", "SIGKILL", "SIGKILL wait"}, "SIGINT")
  /\ Sent("SIGTERM", {"SIGTERM wait", "SIGKILL", "SIGKILL wait"}, "SIGTERM")

(* SIGKILL is the last resort (run_dls2.cpp.in, shutdownProcesses): no     *)
(* process is killed that was not sent SIGINT and then SIGTERM before,     *)
(* whoever ends or joins a group between two signals.                      *)
KilledLast ==
  \A p \in Process : /\ "SIGTERM" \in sent[p] => "SIGINT" \in sent[p]
                     /\ "SIGKILL" \in sent[p] => "SIGTERM" \in sent[p]

(* A signal that was sent stays sent.                                      *)
LEMMA SentKept ==
  ASSUME Inv, [Next]_vars
  PROVE  \A p \in Process : /\ sent[p] \subseteq sent'[p]
                            /\ \A s \in Signal : Has(p, s) => Has(p, s)'
PROOF
  <1>. Kept
    BY StepKeeps DEF Inv
  <1>1. \A p \in Process : sent[p] \subseteq sent'[p]
    <2>1. ASSUME NEW p \in Process, SendsSignal(p)
          PROVE  \A q \in Process : sent[q] \subseteq sent'[q]
      BY <2>1 DEF SendsSignal, Inv, TypeOK, OPTypeOK
    <2>2. CASE sent' = sent
      BY <2>2
    <2>3. ASSUME NEW p \in Process,
                 LaunchServer(p) \/ RunLayer(p) \/ LoopLooks(p) \/ WaitLooks(p) \/ Detaches(p)
                 \/ System(p)
          PROVE  sent' = sent
      BY <2>3 DEF LaunchServer, RunLayer, Launch, LoopLooks, WaitLooks, Looks, Detaches, System,
                  Fork, LeaderExits, RestExits
    <2>4. CASE QuietStart \/ QuietStop \/ RequestShutdown \/ UNCHANGED vars
      BY <2>4, QuietIsQuiet DEF vars, opVars
    <2>. QED
      BY <2>1, <2>2, <2>3, <2>4, StepKinds
  <1>. QED
    BY <1>1 DEF Has, Kept

(* A process is sent a signal only while it runs, and is then not gone.    *)
LEMMA RunningIsNotGone ==
  ASSUME NEW p, running(p)
  PROVE  ~Gone(p)
PROOF
  BY DEF running, Gone, LeaderAfter, RestAfter

(* Out of a shutdown's places there is nothing to show.                    *)
LEMMA SignalsSentStep ==
  ASSUME Inv, SignalsSent, [Next]_vars
  PROVE  SignalsSent'
PROOF
  <1>. USE DEF Inv
  <1>. Kept
    BY StepKeeps
  <1>. Stopped(stopping) \subseteq Process /\ LayersOwned \subseteq Process
    BY DEF Stopped, LayersOwned, TypeOK
  <1>1. \A p \in Process, s \in Signal : Has(p, s) => Has(p, s)'
    BY SentKept
  <1>2. CASE /\ UNCHANGED <<stopping, owned>>
             /\ main' = main \/ main' \notin Signal \cup Waiting
             /\ main \in Signal => todo' = todo
    BY <1>1, <1>2 DEF SignalsSent, Sent, Stopped, LayersOwned, Signal, Waiting
  <1>3. ASSUME NEW p \in Process, LaunchServer(p) \/ RunLayer(p)
        PROVE  SignalsSent'
    BY <1>3 DEF LaunchServer, RunLayer, SignalsSent, Sent
  <1>4. ASSUME NEW p \in Process, LoopLooks(p) \/ WaitLooks(p) \/ Detaches(p) \/ System(p)
        PROVE  SignalsSent'
    <2>1. UNCHANGED <<main, stopping, owned>> /\ (main \in Signal => todo' = todo)
      BY <1>4 DEF LoopLooks, WaitLooks, Looks, Detaches, System, frameVars, Signal, Waiting
    <2>. QED
      BY <2>1, <1>2
  <1>5. ASSUME NEW p \in Process, SendsSignal(p)
        PROVE  SignalsSent'
    <2>1. /\ main \in Signal /\ todo' = todo \ {p}
          /\ UNCHANGED <<main, stopping, owned>>
      BY <1>5 DEF SendsSignal
    <2>2. Has(p, main)'
      BY <1>5, <2>1, SignalKeeps DEF Has
    <2>3. \A q \in Stopped(stopping) : q \notin todo' => q = p \/ q \notin todo
      BY <2>1
    <2>4. Sent("SIGINT", {"SIGINT wait", "SIGTERM", "SIGTERM wait", "SIGKILL", "SIGKILL wait"}, "SIGINT")'
      BY <1>1, <2>1, <2>2, <2>3 DEF SignalsSent, Sent, Stopped, LayersOwned, Signal
    <2>5. Sent("SIGTERM", {"SIGTERM wait", "SIGKILL", "SIGKILL wait"}, "SIGTERM")'
      BY <1>1, <2>1, <2>2, <2>3 DEF SignalsSent, Sent, Stopped, LayersOwned, Signal
    <2>. QED
      BY <2>4, <2>5 DEF SignalsSent
  <1>6. CASE QuietStart \/ LoopRepeats \/ LoopEnds
    <2>1. main' \notin Signal \cup Waiting
      BY <1>6 DEF QuietStart, ServersLaunched, LaunchFails, LayerAdvances, LayerFails,
             LayersLaunched, StartApplication, StartupFails, StartupEnds, Fails, LayerGoes,
             MainGoes, LoopRepeats, LoopEnds, Signal, Waiting
    <2>. QED
      BY <2>1 DEF SignalsSent, Sent, Signal, Waiting
  <1>7. CASE ShutdownBegins \/ ShutdownReturns
    <2>1. main' \notin Signal \cup Waiting \/ (main' = "SIGINT" /\ todo' = Stopped(stopping'))
      BY <1>7 DEF ShutdownBegins, ShutdownReturns, CallsShutdown, Signal, Waiting
    <2>2. Stopped(stopping') = Stopped(stopping)'
      BY <1>7 DEF ShutdownBegins, ShutdownReturns, Stopped, LayersOwned
    <2>. QED
      BY <2>1, <2>2 DEF SignalsSent, Sent, Signal, Waiting
  <1>8. CASE WaitBegins
    <2>1. main \in Signal /\ todo = {} /\ main' = Awaits[main] /\ UNCHANGED <<stopping, owned>>
      BY <1>8 DEF WaitBegins
    <2>2. Stopped(stopping)' = Stopped(stopping)
      BY <2>1 DEF Stopped, LayersOwned
    <2>. QED
      BY <1>1, <2>1, <2>2 DEF SignalsSent, Sent, Awaits, Signal
  <1>9. CASE WaitGoesOn \/ WaitExpires
    <2>1. /\ main \in Waiting /\ main' \in {main, Escalation[main]} /\ UNCHANGED <<stopping, owned>>
          /\ todo' = Stopped(stopping)
      BY <1>9 DEF WaitGoesOn, WaitExpires, LooksAgain
    <2>2. Stopped(stopping)' = Stopped(stopping)
      BY <2>1 DEF Stopped, LayersOwned
    <2>. QED
      BY <1>1, <2>1, <2>2 DEF SignalsSent, Sent, Escalation, Waiting, Signal
  <1>10. CASE RequestShutdown \/ UNCHANGED vars
    BY <1>10, <1>2 DEF RequestShutdown, vars, frameVars
  <1>. QED
    BY <1>3, <1>4, <1>5, <1>6, <1>7, <1>8, <1>9, <1>10, StepKinds DEF QuietStop

LEMMA KilledLastStep ==
  ASSUME Inv, SignalsSent, KilledLast, [Next]_vars
  PROVE  KilledLast'
PROOF
  <1>1. ASSUME NEW p \in Process, SendsSignal(p)
        PROVE  KilledLast'
    <2>1. main \in Signal /\ p \in Stopped(stopping) /\ p \in Process
      BY <1>1 DEF SendsSignal, Inv, Course
    <2>2. sent' = sent \/ (running(p) /\ sent' = [sent EXCEPT ![p] = @ \cup {main}])
      BY <1>1 DEF SendsSignal
    <2>3. running(p) => /\ main \in {"SIGTERM", "SIGKILL"} => "SIGINT" \in sent[p]
                        /\ main = "SIGKILL" => "SIGTERM" \in sent[p]
      BY <2>1, RunningIsNotGone DEF SignalsSent, Sent, Has
    <2>. QED
      BY <2>1, <2>2, <2>3 DEF KilledLast, Signal, Inv, TypeOK, OPTypeOK
  <1>2. ASSUME NEW p \in Process,
               LaunchServer(p) \/ RunLayer(p) \/ LoopLooks(p) \/ WaitLooks(p) \/ Detaches(p)
               \/ System(p)
        PROVE  sent' = sent
    BY <1>2 DEF LaunchServer, RunLayer, Launch, LoopLooks, WaitLooks, Looks, Detaches, System,
                Fork, LeaderExits, RestExits
  <1>3. CASE QuietStart \/ QuietStop \/ RequestShutdown \/ UNCHANGED vars
    BY <1>3, QuietIsQuiet DEF vars, opVars, KilledLast
  <1>. QED
    BY <1>1, <1>2, <1>3, StepKinds DEF KilledLast

THEOREM KilledLastOfAll == Spec => []KilledLast
PROOF
  <1>1. Init => SignalsSent /\ KilledLast
    BY DEF Init, OPInit, SignalsSent, Sent, KilledLast
  <1>2. Inv /\ SignalsSent /\ KilledLast /\ [Next]_vars => SignalsSent' /\ KilledLast'
    BY SignalsSentStep, KilledLastStep
  <1>. QED
    BY <1>1, <1>2, Invariant, PTL DEF Spec

-----------------------------------------------------------------------------
(* The way to the end of a shutdown.                                       *)

Stage(m) ==
  IF m = "SIGINT" THEN 1 ELSE IF m = "SIGINT wait" THEN 2
  ELSE IF m = "SIGTERM" THEN 3 ELSE IF m = "SIGTERM wait" THEN 4
  ELSE IF m = "SIGKILL" THEN 5 ELSE IF m = "SIGKILL wait" THEN 6 ELSE 7

(* How far the shutdown is: 1 to 7 with the layers, 8 to 14 with the       *)
(* servers; 0 before it, 15 after it.                                      *)
Phase ==
  IF main \in StartPlace \cup {"loop", "shutdown"} THEN 0
  ELSE IF main \in {"stopped", "failed"} THEN 15
  ELSE IF stopping = "servers" THEN 7 + Stage(main) ELSE Stage(main)

(* What every step does to a shutdown that has begun.                      *)
Advances ==
  Phase > 0 =>
    \/ Phase' > Phase
    \/ Phase' = Phase /\ \E p \in todo : todo' = todo \ {p}
    \/ Phase' = Phase /\ main \in Waiting /\ todo = {} /\ any_running
    \/ UNCHANGED <<main, stopping, owned, todo, any_running, all_stopped>>

(* The safety part of ShutdownEnds (run_dls2.cpp.in, shutdownProcesses):   *)
(* each step of run() takes the shutdown to a later one of 15 phases, or   *)
(* is done with one more process of a loop, or looks again at processes    *)
(* of which one runs; nothing anybody else does sets it back.  So only a   *)
(* wait can last, and its deadline ends it.                                *)
ShutdownAdvances == [][Advances]_vars

LEMMA StageIs ==
  /\ \A m : Stage(m) \in 1..7
  /\ Stage("SIGINT") = 1 /\ Stage("SIGINT wait") = 2 /\ Stage("SIGTERM") = 3
  /\ Stage("SIGTERM wait") = 4 /\ Stage("SIGKILL") = 5 /\ Stage("SIGKILL wait") = 6
  /\ Stage("detach") = 7
PROOF
  <1>1. \A m : Stage(m) \in 1..7
    BY DEF Stage
  <1>2. /\ Stage("SIGINT") = 1 /\ Stage("SIGINT wait") = 2 /\ Stage("SIGTERM") = 3
        /\ Stage("SIGTERM wait") = 4 /\ Stage("SIGKILL") = 5 /\ Stage("SIGKILL wait") = 6
        /\ Stage("detach") = 7
    BY DEF Stage
  <1>. QED
    BY <1>1, <1>2

(* The next stage of the same map is a later phase.                        *)
LEMMA LaterStage ==
  ASSUME main \in Signal \cup Waiting \cup {"detach"},
         main' \in Signal \cup Waiting \cup {"detach"},
         stopping' = stopping, Stage(main') > Stage(main)
  PROVE  Phase' > Phase
PROOF
  <1>1. Stage(main) \in 1..7 /\ Stage(main') \in 1..7
    BY StageIs
  <1>2. Phase = IF stopping = "servers" THEN 7 + Stage(main) ELSE Stage(main)
    BY DEF Phase, StartPlace, Signal, Waiting
  <1>3. Phase' = IF stopping = "servers" THEN 7 + Stage(main') ELSE Stage(main')
    BY DEF Phase, StartPlace, Signal, Waiting
  <1>. QED
    BY <1>1, <1>2, <1>3

LEMMA AdvancesStep == Inv /\ [Next]_vars => [Advances]_vars
PROOF
  <1>. SUFFICES ASSUME Inv, Next
                PROVE  Advances
    OBVIOUS
  <1>. USE DEF Inv
  <1>1. ASSUME NEW p \in Process, LaunchServer(p) \/ RunLayer(p)
        PROVE  Phase = 0
    BY <1>1 DEF LaunchServer, RunLayer, Phase, StartPlace
  <1>2. CASE QuietStart \/ LoopRepeats \/ LoopEnds \/ ShutdownBegins
    <2>1. main \in StartPlace \cup {"loop", "shutdown"}
      BY <1>2 DEF QuietStart, ServersLaunched, LaunchFails, LayerAdvances, LayerFails,
             LayersLaunched, StartApplication, StartupFails, StartupEnds, Fails, LayerGoes,
             MainGoes, LoopRepeats, LoopEnds, ShutdownBegins, StartPlace
    <2>2. Phase = 0
      BY <2>1 DEF Phase
    <2>. QED
      BY <2>2 DEF Advances
  <1>3. ASSUME NEW p \in Process,
               LoopLooks(p) \/ WaitLooks(p) \/ SendsSignal(p) \/ Detaches(p)
        PROVE  Advances
    <2>1. p \in todo /\ todo' = todo \ {p} /\ UNCHANGED <<main, stopping>>
      BY <1>3 DEF LoopLooks, WaitLooks, Looks, SendsSignal, Detaches
    <2>2. Phase' = Phase
      BY <2>1 DEF Phase
    <2>. QED
      BY <2>1, <2>2 DEF Advances
  <1>4. CASE (\E p \in Process : System(p)) \/ RequestShutdown
    BY <1>4 DEF System, RequestShutdown, frameVars, Advances
  <1>5. CASE WaitBegins
    <2>1. main \in Signal /\ main' = Awaits[main] /\ stopping' = stopping
      BY <1>5 DEF WaitBegins
    <2>2. main' \in Waiting
      BY <2>1 DEF Awaits, Signal, Waiting
    <2>3. \/ main = "SIGINT" /\ main' = "SIGINT wait"
          \/ main = "SIGTERM" /\ main' = "SIGTERM wait"
          \/ main = "SIGKILL" /\ main' = "SIGKILL wait"
      BY <2>1 DEF Awaits, Signal
    <2>4. Stage(main') = Stage(main) + 1
      <3>1. CASE main = "SIGINT" /\ main' = "SIGINT wait"
        <4>1. Stage(main) = 1
          BY <3>1, StageIs
        <4>2. Stage(main') = 2
          BY <3>1, StageIs
        <4>. QED
          BY <4>1, <4>2
      <3>2. CASE main = "SIGTERM" /\ main' = "SIGTERM wait"
        <4>1. Stage(main) = 3
          BY <3>2, StageIs
        <4>2. Stage(main') = 4
          BY <3>2, StageIs
        <4>. QED
          BY <4>1, <4>2
      <3>3. CASE main = "SIGKILL" /\ main' = "SIGKILL wait"
        <4>1. Stage(main) = 5
          BY <3>3, StageIs
        <4>2. Stage(main') = 6
          BY <3>3, StageIs
        <4>. QED
          BY <4>1, <4>2
      <3>. QED
        BY <2>3, <3>1, <3>2, <3>3
    <2>5. Stage(main) \in 1..7 /\ Stage(main') \in 1..7
      BY StageIs
    <2>6. Stage(main') > Stage(main)
      BY <2>4, <2>5
    <2>. QED
      BY <2>1, <2>2, <2>6, LaterStage DEF Advances
  <1>6. CASE WaitGoesOn
    <2>1. main \in Waiting /\ todo = {} /\ any_running /\ UNCHANGED <<main, stopping>>
      BY <1>6 DEF WaitGoesOn, LooksAgain
    <2>2. Phase' = Phase
      BY <2>1 DEF Phase
    <2>. QED
      BY <2>1, <2>2 DEF Advances
  <1>7. CASE WaitExpires
    <2>1. main \in Waiting /\ main' = Escalation[main] /\ stopping' = stopping
      BY <1>7 DEF WaitExpires, LooksAgain
    <2>2. main' \in Signal \cup {"detach"}
      BY <2>1 DEF Escalation, Signal, Waiting
    <2>3. \/ main = "SIGINT wait" /\ main' = "SIGTERM"
          \/ main = "SIGTERM wait" /\ main' = "SIGKILL"
          \/ main = "SIGKILL wait" /\ main' = "detach"
      BY <2>1 DEF Escalation, Waiting
    <2>4. Stage(main') = Stage(main) + 1
      <3>1. CASE main = "SIGINT wait" /\ main' = "SIGTERM"
        <4>1. Stage(main) = 2
          BY <3>1, StageIs
        <4>2. Stage(main') = 3
          BY <3>1, StageIs
        <4>. QED
          BY <4>1, <4>2
      <3>2. CASE main = "SIGTERM wait" /\ main' = "SIGKILL"
        <4>1. Stage(main) = 4
          BY <3>2, StageIs
        <4>2. Stage(main') = 5
          BY <3>2, StageIs
        <4>. QED
          BY <4>1, <4>2
      <3>3. CASE main = "SIGKILL wait" /\ main' = "detach"
        <4>1. Stage(main) = 6
          BY <3>3, StageIs
        <4>2. Stage(main') = 7
          BY <3>3, StageIs
        <4>. QED
          BY <4>1, <4>2
      <3>. QED
        BY <2>3, <3>1, <3>2, <3>3
    <2>5. Stage(main) \in 1..7 /\ Stage(main') \in 1..7
      BY StageIs
    <2>6. Stage(main') > Stage(main)
      BY <2>4, <2>5
    <2>. QED
      BY <2>1, <2>2, <2>6, LaterStage DEF Advances
  <1>8. CASE ShutdownReturns
    <2>1. main \in Waiting \cup {"detach"} /\ Stage(main) \in 1..7
      BY <1>8, StageIs DEF ShutdownReturns
    <2>2. stopping \in {"layers", "servers"}
      BY <2>1 DEF Course, TypeOK, StartPlace, Waiting
    <2>3. Phase = IF stopping = "servers" THEN 7 + Stage(main) ELSE Stage(main)
      BY <2>1 DEF Phase, StartPlace, Waiting
    <2>4. CASE stopping = "layers"
      <3>1. main' = "SIGINT" /\ stopping' = "servers"
        BY <1>8, <2>4 DEF ShutdownReturns, CallsShutdown
      <3>2. Phase' = 7 + Stage(main')
        BY <3>1 DEF Phase, StartPlace
      <3>3. Stage(main') = 1
        BY <3>1, StageIs
      <3>4. Phase' = 8
        BY <3>2, <3>3
      <3>. QED
        BY <2>1, <2>3, <2>4, <3>4 DEF Advances
    <2>5. CASE stopping = "servers"
      <3>1. main' \in {"stopped", "failed"}
        BY <1>8, <2>5 DEF ShutdownReturns
      <3>2. Phase' = 15
        BY <3>1 DEF Phase, StartPlace
      <3>. QED
        BY <2>1, <2>3, <2>5, <3>2 DEF Advances
    <2>. QED
      BY <2>2, <2>4, <2>5
  <1>. QED
    <2>1. CASE Phase = 0
      BY <2>1 DEF Advances
    <2>2. ASSUME Phase # 0
          PROVE  Advances
      <3>1. CASE \E p \in Process : LaunchServer(p) \/ RunLayer(p)
        BY <1>1, <2>2, <3>1
      <3>2. CASE \E p \in Process : LoopLooks(p) \/ WaitLooks(p) \/ SendsSignal(p) \/ Detaches(p)
        BY <1>3, <3>2
      <3>3. CASE QuietStart \/ QuietStop
        BY <1>2, <1>5, <1>6, <1>7, <1>8, <3>3 DEF QuietStop
      <3>4. CASE UNCHANGED vars
        BY <3>4 DEF vars, frameVars, Advances
      <3>. QED
        BY <1>4, <3>1, <3>2, <3>3, <3>4, StepKinds
    <2>. QED
      BY <2>1, <2>2

THEOREM ShutdownGoesOn == Spec => ShutdownAdvances
PROOF
  BY AdvancesStep, Invariant, PTL DEF Spec, ShutdownAdvances
=============================================================================
