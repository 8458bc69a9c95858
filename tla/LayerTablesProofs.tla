-------------------------- MODULE LayerTablesProofs --------------------------
(***************************************************************************)
(* Proofs about LayerTables for any number of names and of processes, and  *)
(* for each of the maps: type correctness; that only two commands at work  *)
(* on one name lose a process; that what was unloaded is gone; that an     *)
(* unload lowers the level of an empty map only; that only the dead are    *)
(* reported; and that only commands that meet make a layer use what is not *)
(* there.                                                                  *)
(***************************************************************************)
EXTENDS LayerTables, WellFoundedInduction, TLAPS

Unloader == {"unload", "main"}
Busy == {"ask", "wait", "reset", "erase"}

(* The main thread has begun to close.                                     *)
Closing == main.at \in {"close", "ended"} \cup Busy

(* Where the threads can be, and what they have in hand there.             *)
Places ==
  /\ \A w \in Loader : worker[w].at \in {"idle", "launch", "level"}
  /\ worker["unload"].at \in {"idle", "count", "level"} \cup Busy
  /\ main.at \in {"idle", "look", "next", "close", "ended"} \cup Busy
  /\ \A w \in Loader : worker[w].at = "launch" => worker[w].name \in Name
  /\ \A w \in Unloader : worker[w].at \in Busy => worker[w].name \in Name /\ worker[w].app \in Proc
  /\ main.at = "look" => main.app \in Proc

(* What the map and the threads hold was launched, under the name they     *)
(* hold it by.                                                             *)
Launched ==
  /\ \A p \in Proc : life[p] # "none" => name[p] \in Name
  /\ \A n \in Name : entry[n] # NoProc => life[entry[n]] # "none" /\ name[entry[n]] = n
  /\ \A w \in Unloader : worker[w].at \in Busy =>
       life[worker[w].app] # "none" /\ name[worker[w].app] = worker[w].name
  /\ \A p \in history.closing : life[p] # "none"

(* A load whose name came into the map after it looked, and two loads of   *)
(* one name at once, are on record.                                        *)
LoadsTold ==
  \A w \in Loader : worker[w].at = "launch" /\ worker[w].name \notin history.twoLoads =>
    /\ entry[worker[w].name] = NoProc
    /\ \A v \in Loader \ {w} : ~Loading(v, worker[w].name)

(* So are an unload that no longer holds what the map does, and two        *)
(* unloads of one name at once.                                            *)
UnloadsTold ==
  \A w \in Unloader : worker[w].at \in Busy /\ worker[w].name \notin history.twoUnloads =>
    /\ entry[worker[w].name] = worker[w].app
    /\ \A v \in Unloader \ {w} : ~Unloading(v, worker[w].name)

(* A process that runs is in the map, unless two commands raced on it; and *)
(* then an attached one is in the hands of an unload.                      *)
Kept ==
  \A p \in Proc : running(p) /\ entry[name[p]] # p =>
    /\ name[p] \in history.twoLoads \cup history.twoUnloads
    /\ ~attached \/ \E w \in Unloader : worker[w].at \in Busy /\ worker[w].app = p

(* Past its wait an unload holds a dead process.                           *)
DeadPastWait ==
  \A w \in Unloader : worker[w].at \in {"reset", "erase"} => life[worker[w].app] = "dead"

(* Before the close nobody but the command unloads; after that, whoever    *)
(* unloads a name the close is about holds what the map does.              *)
OwnInHand ==
  /\ ~Closing => history.closing = {}
  /\ ~Closing /\ worker["unload"].at \in Busy =>
       entry[worker["unload"].name] = worker["unload"].app
  /\ \A w \in Unloader : worker[w].at \in Busy /\ entry[worker[w].name] \in history.closing =>
       entry[worker[w].name] = worker[w].app

(* What the close is about and still runs is in the map, and the close is  *)
(* at it or has it before it.                                              *)
StillToClose ==
  \A p \in history.closing : running(p) =>
    /\ main.at # "ended"
    /\ entry[name[p]] = p
    /\ name[p] \in left \/ (main.app = p /\ main.at \in Busy)

(* The names are taken in their order.                                     *)
InOrder == main.at \in Busy => \A n \in left : main.name < n

(* When an unload has lowered the level, a name that is in the map by now  *)
(* is one whose load has not set the level yet.                            *)
SetsLevel == \E w \in Loader : worker[w].at = "level"
LevelFollows == history.lowered => level = 0 /\ (Keys # {} => SetsLevel)

(* An unload that is about to set the level to 0 has seen an empty map.    *)
EmptySeen ==
  worker["unload"].at = "level" /\ levelled /\ Keys # {} => history.overtaken \/ SetsLevel

IInv ==
  /\ TypeOK /\ Places /\ Launched /\ LoadsTold /\ UnloadsTold /\ Kept /\ DeadPastWait
  /\ OwnInHand /\ StillToClose /\ InOrder /\ LevelFollows /\ EmptySeen

-----------------------------------------------------------------------------
(* The steps of the layers, the command watcher and the processes, one by  *)
(* one.                                                                    *)
LEMMA Steps ==
  ASSUME TypeOK, Next
  PROVE  \/ \E w \in Loader : \/ \E n \in Name : LoadFinds(w, n)
                              \/ LoadRefused(w) \/ LoadEmplaces(w) \/ LoadSetsLevel(w)
         \/ \E n \in Name : /\ worker["unload"].at = "idle"
                            /\ UnloadFinds("unload", n) /\ UNCHANGED mainVars
         \/ \E w \in Unloader : \/ UnloadAsks(w) \/ UnloadMissesProc(w) \/ UnloadSeesEnd(w)
                                \/ UnloadKills(w) \/ UnloadResets(w)
         \/ UnloadErases \/ UnloadCounts \/ UnloadSetsLevel
         \/ OtherCommands \/ Activates \/ Deactivates \/ Quit \/ Process
         \/ MonitorVisits \/ MonitorLooks \/ MonitorMissesProc \/ MonitorNotifies
         \/ CloseBegins \/ CloseUnloads \/ CloseErases \/ CloseEnds
PROOF
  <1>1. Loaded[table] \subseteq Name   BY LayerTablesAssumption DEF TypeOK, Tables, Name
  <1>2. ASSUME NEW w \in Loader, Load(w)
        PROVE  \/ \E n \in Name : LoadFinds(w, n)
               \/ LoadRefused(w) \/ LoadEmplaces(w) \/ LoadSetsLevel(w)
    BY <1>1, <1>2 DEF Load
  <1>3. ASSUME Unload
        PROVE  \/ \E n \in Name : /\ worker["unload"].at = "idle"
                                  /\ UnloadFinds("unload", n) /\ UNCHANGED mainVars
               \/ UnloadAsks("unload") \/ UnloadMissesProc("unload") \/ UnloadSeesEnd("unload")
               \/ UnloadKills("unload") \/ UnloadResets("unload")
               \/ UnloadErases \/ UnloadCounts \/ UnloadSetsLevel
    BY <1>3 DEF Unload, UnloadSteps
  <1>4. ASSUME Close
        PROVE  \/ UnloadAsks("main") \/ UnloadMissesProc("main") \/ UnloadSeesEnd("main")
               \/ UnloadKills("main") \/ UnloadResets("main")
               \/ CloseBegins \/ CloseUnloads \/ CloseErases \/ CloseEnds
    BY <1>4 DEF Close, UnloadSteps
  <1>5. "load" \in Loader /\ "loadOther" \in Loader /\ "unload" \in Unloader /\ "main" \in Unloader
    BY DEF Loader, Unloader
  <1>6. \/ Load("load") \/ Load("loadOther") \/ Unload \/ Close \/ Monitor
        \/ OtherCommands \/ Activates \/ Deactivates \/ Quit \/ Process
    BY DEF Next, EstimationLayer, HardwareLayer, Supervisor, ServiceLayer, loadEstimator,
           unloadEstimator, closeEstimators, monitorEstimators, loadHardware, loadXenoHardware,
           unloadHardware, closeHardwares, monitorHardwares, loadPeriodicAppPlugin,
           loadPythonPeriodicApp, unloadPeriodicAppPlugin, closeSupervisor, monitorPlugins,
           loadService, unloadService, loadDataVisualizer, unloadDataVisualizer, loadGeneric,
           unloadGeneric, closeServices, monitorServices
  <1> QED BY <1>2, <1>3, <1>4, <1>5, <1>6 DEF Monitor

(* The threads apart.                                                      *)
LEMMA ThreadSets ==
  /\ Loader \subseteq Worker /\ Unloader \subseteq Worker /\ Loader \cap Unloader = {}
  /\ "unload" \in Worker /\ "main" \in Worker /\ "main" \notin Loader
  /\ NoProc \notin Proc /\ Name \subseteq Int
  BY LayerTablesAssumption DEF Loader, Unloader, Worker, NoProc, Proc, Name

(* A set of names that is not empty has a least one.                       *)
LEMMA LeastExists ==
  ASSUME NEW S, S \subseteq Nat, S # {}
  PROVE  Least(S) \in S /\ \A n \in S : Least(S) <= n
PROOF
  <1> DEFINE R == OpToRel(<, Nat)
  <1>1. IsWellFoundedOn(R, Nat)   BY NatLessThanWellFounded
  <1>2. \A a, b \in Nat : <<a, b>> \in R <=> a < b   BY DEF OpToRel
  <1> HIDE DEF R
  <1>3. PICK m \in S : \A n \in S : ~ (<<n, m>> \in R)   BY <1>1, WFMin
  <1>4. \A n \in S : m \in Nat /\ n \in Nat /\ ~ (n < m)   BY <1>2, <1>3
  <1>5. \A n \in S : m <= n   BY <1>4
  <1> QED BY <1>5 DEF Least

(* The life of the processes after some were lost.                         *)
LEMMA LifeAfterLoss ==
  ASSUME NEW lost, NEW l \in [Proc -> {"none", "starting", "up", "asked", "dead"}]
  PROVE  /\ LifeWithout(lost, l) \in [Proc -> {"none", "starting", "up", "asked", "dead"}]
         /\ \A p \in Proc :
              /\ p \notin lost \/ ~attached => LifeWithout(lost, l)[p] = l[p]
              /\ p \in lost /\ attached /\ l[p] # "none" => LifeWithout(lost, l)[p] = "dead"
              /\ l[p] = "none" <=> LifeWithout(lost, l)[p] = "none"
              /\ l[p] = "dead" => LifeWithout(lost, l)[p] = "dead"
  BY DEF LifeWithout

(* A thread that goes on, or leaves.                                       *)
Place == {"idle", "launch", "ask", "wait", "reset", "erase", "count", "level", "look", "next",
          "close", "ended"}

LEMMA ThreadGoes ==
  ASSUME TypeOK, NEW w \in Worker, NEW at \in Place, Goes(w, at)
  PROVE  /\ worker' \in [Worker -> [at : Place, name : Name \cup {0}, app : Proc \cup {NoProc}]]
         /\ worker'[w].at = at /\ worker'[w].name = worker[w].name /\ worker'[w].app = worker[w].app
         /\ \A v \in Worker \ {w} : worker'[v] = worker[v]
  BY DEF TypeOK, Place, Goes

LEMMA ThreadDone ==
  ASSUME TypeOK, NEW w \in Worker, NEW at \in Place,
         worker' = [worker EXCEPT ![w].at = at, ![w].app = NoProc]
  PROVE  /\ worker' \in [Worker -> [at : Place, name : Name \cup {0}, app : Proc \cup {NoProc}]]
         /\ worker'[w].at = at /\ worker'[w].name = worker[w].name /\ worker'[w].app = NoProc
         /\ \A v \in Worker \ {w} : worker'[v] = worker[v]
PROOF
  <1> DEFINE on == [worker EXCEPT ![w].at = at]
  <1>1. /\ on \in [Worker -> [at : Place, name : Name \cup {0}, app : Proc \cup {NoProc}]]
        /\ on[w].at = at /\ on[w].name = worker[w].name
        /\ \A v \in Worker \ {w} : on[v] = worker[v]
    BY DEF TypeOK, Place
  <1>2. worker' = [on EXCEPT ![w].app = NoProc]   OBVIOUS
  <1> HIDE DEF on
  <1>3. w \in DOMAIN on /\ worker' = [on EXCEPT ![w] = [on[w] EXCEPT !.app = NoProc]]
    BY <1>1, <1>2
  <1>4. [on[w] EXCEPT !.app = NoProc] = [at |-> at, name |-> on[w].name, app |-> NoProc]
    BY <1>1
  <1>5. worker'[w] = [at |-> at, name |-> on[w].name, app |-> NoProc]   BY <1>3, <1>4
  <1>6. DOMAIN worker' = Worker /\ \A v \in Worker \ {w} : worker'[v] = on[v]   BY <1>1, <1>3
  <1> QED BY <1>1, <1>3, <1>5, <1>6

LEMMA ThreadLeaves ==
  ASSUME TypeOK, NEW w \in Worker, Leaves(w)
  PROVE  /\ worker' \in [Worker -> [at : Place, name : Name \cup {0}, app : Proc \cup {NoProc}]]
         /\ worker'[w].at = "idle"
         /\ \A v \in Worker \ {w} : worker'[v] = worker[v]
  BY DEF TypeOK, Place, Leaves, Idle, NoProc

-----------------------------------------------------------------------------
(* Typing.                                                                 *)
LEMMA TypeInit == Init => TypeOK
PROOF
  <1> SUFFICES ASSUME Init PROVE TypeOK   OBVIOUS
  <1>1. Idle \in [at : Place, name : Name \cup {0}, app : Proc \cup {NoProc}]   BY DEF Idle, Place
  <1>2. worker \in [Worker -> [at : Place, name : Name \cup {0}, app : Proc \cup {NoProc}]]
    BY <1>1 DEF Init
  <1> QED BY <1>2 DEF Init, TypeOK, Place

LEMMA TypeStep == TypeOK /\ Places /\ Launched /\ [Next]_vars => TypeOK'
PROOF
  <1> SUFFICES ASSUME TypeOK, Places, Launched, [Next]_vars PROVE TypeOK'   OBVIOUS
  <1> USE DEF TypeOK
  <1>1. ASSUME NEW w \in Loader, NEW n \in Name, LoadFinds(w, n) PROVE TypeOK'
    BY <1>1 DEF LoadFinds, tableVars, mainVars, Loader, Worker
  <1>2. ASSUME NEW w \in Loader, LoadRefused(w) PROVE TypeOK'
    <2>1. Leaves(w)   BY <1>2 DEF LoadRefused
    <2> QED BY ThreadSets, <1>2, <2>1, ThreadLeaves DEF LoadRefused, Place, tableVars, mainVars
  <1>3. ASSUME NEW w \in Loader, LoadEmplaces(w) PROVE TypeOK'
    <2>1. Goes(w, "level") /\ worker[w].name \in Name   BY <1>3 DEF LoadEmplaces, Places
    <2>2. worker' \in [Worker -> [at : Place, name : Name \cup {0}, app : Proc \cup {NoProc}]]
      BY ThreadSets, <2>1, ThreadGoes DEF Place
    <2>3. PICK p \in Proc :
            /\ name' = [name EXCEPT ![p] = worker[w].name]
            /\ IF entry[worker[w].name] = NoProc
               THEN /\ entry' = [entry EXCEPT ![worker[w].name] = p]
                    /\ life' = [life EXCEPT ![p] = "starting"]
               ELSE /\ life' = LifeWithout({p}, [life EXCEPT ![p] = "starting"])
                    /\ UNCHANGED entry
      BY <1>3 DEF LoadEmplaces
    <2>4. entry' \in [Name -> Proc \cup {NoProc}] /\ name' \in [Proc -> Name \cup {0}]
      BY <2>1, <2>3
    <2>5. [life EXCEPT ![p] = "starting"] \in [Proc -> {"none", "starting", "up", "asked", "dead"}]
      OBVIOUS
    <2>6. LifeWithout({p}, [life EXCEPT ![p] = "starting"])
            \in [Proc -> {"none", "starting", "up", "asked", "dead"}]
      BY <2>5, LifeAfterLoss
    <2>7. life' \in [Proc -> {"none", "starting", "up", "asked", "dead"}]
      BY <2>3, <2>5, <2>6
    <2> QED BY <1>3, <2>2, <2>4, <2>7 DEF LoadEmplaces, Place, mainVars
  <1>4. ASSUME NEW w \in Loader, LoadSetsLevel(w) PROVE TypeOK'
    <2>1. Leaves(w)   BY <1>4 DEF LoadSetsLevel
    <2> QED BY ThreadSets, <1>4, <2>1, ThreadLeaves DEF LoadSetsLevel, Place, tableVars, mainVars
  <1>5. ASSUME NEW w \in Unloader, NEW n \in Name, UnloadFinds(w, n),
               active' = active /\ quitting' = quitting /\ left' \subseteq left /\ stopped' = stopped
               /\ reported' = reported
        PROVE  TypeOK'
    BY <1>5 DEF UnloadFinds, tableVars, Unloader, Worker
  <1>6. ASSUME NEW w \in Unloader, UnloadAsks(w) PROVE TypeOK'
    BY <1>6 DEF UnloadAsks, Goes, mainVars, Unloader, Worker
  <1>7. ASSUME NEW w \in Unloader, UnloadMissesProc(w) PROVE TypeOK'
    BY <1>7 DEF UnloadMissesProc, Crashes, tableVars, mainVars
  <1>8. ASSUME NEW w \in Unloader, UnloadSeesEnd(w) PROVE TypeOK'
    BY <1>8 DEF UnloadSeesEnd, Goes, tableVars, mainVars, Unloader, Worker
  <1>9. ASSUME NEW w \in Unloader, UnloadKills(w) PROVE TypeOK'
    <2>1. Goes(w, "reset")   BY <1>9 DEF UnloadKills
    <2>2. life' \in [Proc -> {"none", "starting", "up", "asked", "dead"}]   BY <1>9 DEF UnloadKills
    <2> QED BY ThreadSets, <1>9, <2>1, <2>2, ThreadGoes DEF UnloadKills, Place,
               mainVars
  <1>10. ASSUME NEW w \in Unloader, UnloadResets(w) PROVE TypeOK'
    <2>1. Goes(w, "erase") /\ worker[w].app \in Proc   BY <1>10 DEF UnloadResets, Places, Busy
    <2>2. worker' \in [Worker -> [at : Place, name : Name \cup {0}, app : Proc \cup {NoProc}]]
      BY ThreadSets, <2>1, ThreadGoes DEF Place
    <2>3. proc_null' \subseteq Proc   BY <1>10, <2>1 DEF UnloadResets
    <2> QED BY <1>10, <2>2, <2>3 DEF UnloadResets, Place, mainVars
  <1>11. ASSUME NEW w \in Unloader, Erases(w)
         PROVE  /\ entry' \in [Name -> Proc \cup {NoProc}]
                /\ life' \in [Proc -> {"none", "starting", "up", "asked", "dead"}]
    BY <1>11, LifeAfterLoss DEF Erases
  <1>12. ASSUME UnloadErases PROVE TypeOK'
    <2>1. "unload" \in Unloader /\ Erases("unload")   BY <1>12 DEF UnloadErases, Unloader
    <2>2. worker' \in [Worker -> [at : Place, name : Name \cup {0}, app : Proc \cup {NoProc}]]
      BY ThreadSets, <1>12, <2>1, ThreadDone DEF UnloadErases, Place
    <2> QED BY <1>11, <1>12, <2>1, <2>2 DEF UnloadErases, Erases, Place
  <1>13. ASSUME UnloadCounts PROVE TypeOK'
    BY <1>13 DEF UnloadCounts, Goes, Leaves, Idle, NoProc, tableVars, mainVars, Worker
  <1>14. ASSUME UnloadSetsLevel PROVE TypeOK'
    BY <1>14 DEF UnloadSetsLevel, Leaves, Idle, NoProc, tableVars, mainVars,
       Worker
  <1>15. ASSUME OtherCommands \/ Activates \/ Deactivates PROVE TypeOK'
    BY <1>15 DEF OtherCommands, Activates, Deactivates, tableVars, mainVars
  <1>16. ASSUME Quit PROVE TypeOK'
    BY <1>16 DEF Quit, tableVars
  <1>17. ASSUME Process PROVE TypeOK'
    BY <1>17 DEF Process, Registers, EndsAsAsked, Dies, mainVars
  <1>18. ASSUME MonitorVisits PROVE TypeOK'
    <2> DEFINE S == {m \in Keys : m > main.name}
    <2>1. S \subseteq Nat /\ S # {} /\ S \subseteq Name
      BY <1>18, LayerTablesAssumption DEF MonitorVisits, Keys, Name
    <2>2. Least(S) \in Name   BY <2>1, LeastExists
    <2> QED BY <1>18, <2>2 DEF MonitorVisits, tableVars, mainVars, Worker
  <1>19. ASSUME MonitorLooks PROVE TypeOK'
    BY <1>19 DEF MonitorLooks, Places, Goes, tableVars, Worker
  <1>20. ASSUME MonitorMissesProc PROVE TypeOK'
    BY <1>20 DEF MonitorMissesProc, Crashes, tableVars, mainVars
  <1>21. ASSUME MonitorNotifies PROVE TypeOK'
    BY <1>21 DEF MonitorNotifies, Leaves, Idle, NoProc, tableVars, Worker
  <1>22. ASSUME CloseBegins PROVE TypeOK'
    BY <1>22 DEF CloseBegins, Goes, Keys, tableVars, Worker
  <1>23. ASSUME CloseUnloads PROVE TypeOK'
    <2>1. left \subseteq Nat /\ left # {}   BY <1>23, LayerTablesAssumption DEF CloseUnloads, Name
    <2>2. Least(left) \in Name   BY <2>1, LeastExists
    <2>3. CASE entry[Least(left)] # NoProc
      BY <1>5, <1>23, <2>2, <2>3 DEF CloseUnloads, Unloader
    <2>4. CASE entry[Least(left)] = NoProc
      BY <1>23, <2>4 DEF CloseUnloads, tableVars
    <2> QED BY <2>3, <2>4
  <1>24. ASSUME CloseErases PROVE TypeOK'
    <2>1. "main" \in Unloader /\ Erases("main")   BY <1>24 DEF CloseErases, Unloader
    <2>2. left' \subseteq Name /\ crashed' \in BOOLEAN   BY <1>24 DEF CloseErases, Keys
    <2>3. worker' \in [Worker -> [at : Place, name : Name \cup {0}, app : Proc \cup {NoProc}]]
      BY ThreadSets, <1>24, <2>1, ThreadDone DEF CloseErases, Place
    <2> QED BY <1>11, <1>24, <2>1, <2>2, <2>3 DEF CloseErases, Erases, Place
  <1>25. ASSUME CloseEnds PROVE TypeOK'
    BY <1>25 DEF CloseEnds, Goes, tableVars, mainVars, Worker
  <1>26. ASSUME UNCHANGED vars PROVE TypeOK'
    BY <1>26 DEF vars, tableVars, mainVars
  <1> QED BY <1>1, <1>2, <1>3, <1>4, <1>5, <1>6, <1>7, <1>8, <1>9, <1>10, <1>12, <1>13, <1>14,
             <1>15, <1>16, <1>17, <1>18, <1>19, <1>20, <1>21, <1>22, <1>23, <1>24, <1>25, <1>26,
             Steps DEF mainVars, Unloader

-----------------------------------------------------------------------------
(* The invariant, step by step.                                            *)

(* A load that found its name free.                                        *)
LEMMA LoadFindsKeeps ==
  ASSUME IInv, TypeOK', NEW w \in Loader, NEW n \in Name, LoadFinds(w, n)
  PROVE  IInv'
PROOF
  <1>1. Places'
    BY ThreadSets DEF IInv, TypeOK, Places, main, Busy, Unloader, Loader, LoadFinds,
       tableVars, mainVars
  <1>2. LoadsTold'
    BY ThreadSets DEF IInv, TypeOK, LoadsTold, Loading, Loader, LoadFinds, tableVars, mainVars
  <1>3. /\ Launched' /\ UnloadsTold' /\ Kept' /\ DeadPastWait' /\ OwnInHand' /\ StillToClose'
        /\ InOrder' /\ LevelFollows' /\ EmptySeen'
    BY ThreadSets DEF IInv, TypeOK, LoadFinds, tableVars, mainVars, Launched,
       Busy, Unloader, UnloadsTold, Unloading, Kept, attached, running, DeadPastWait,
       OwnInHand, Closing, main, StillToClose, InOrder, LevelFollows, levelled, Keys,
       SetsLevel, Loader, EmptySeen
  <1> QED BY <1>1, <1>2, <1>3 DEF IInv

(* A load whose launcher is not known.                                     *)
LEMMA LoadRefusedKeeps ==
  ASSUME IInv, TypeOK', NEW w \in Loader, LoadRefused(w)
  PROVE  IInv'
PROOF
  <1>1. Places'
    BY ThreadSets DEF IInv, TypeOK, Places, main, Busy, Unloader, Loader, LoadRefused,
       Leaves, Idle, tableVars, mainVars
  <1>2. LoadsTold'
    BY ThreadSets DEF IInv, TypeOK, LoadsTold, Loading, Loader, LoadRefused, Leaves, Idle,
       tableVars, mainVars
  <1>3. /\ Launched' /\ UnloadsTold' /\ Kept' /\ DeadPastWait' /\ OwnInHand' /\ StillToClose'
        /\ InOrder' /\ LevelFollows' /\ EmptySeen'
    BY ThreadSets DEF IInv, TypeOK, LoadRefused, Leaves, Idle, tableVars,
       mainVars, Launched, Busy, Unloader, UnloadsTold, Unloading, Kept, attached, running,
       DeadPastWait, OwnInHand, Closing, main, StillToClose, InOrder, LevelFollows, levelled,
       Keys, SetsLevel, Loader, EmptySeen
  <1> QED BY <1>1, <1>2, <1>3 DEF IInv

(* The level after a load.                                                 *)
LEMMA LoadSetsLevelKeeps ==
  ASSUME IInv, TypeOK', NEW w \in Loader, LoadSetsLevel(w)
  PROVE  IInv'
PROOF
  <1>1. Places'
    BY ThreadSets DEF IInv, TypeOK, Places, main, Busy, Unloader, Loader, LoadSetsLevel,
       Leaves, Idle, tableVars, mainVars
  <1>2. LoadsTold'
    BY ThreadSets DEF IInv, TypeOK, LoadsTold, Loading, Loader, LoadSetsLevel, Leaves, Idle,
       tableVars, mainVars
  <1>3. LevelFollows'
    BY ThreadSets DEF IInv, TypeOK, LevelFollows, levelled, Keys, SetsLevel, Loader,
       LoadSetsLevel, Leaves, Idle, tableVars, mainVars
  <1>4. EmptySeen'
    BY ThreadSets DEF IInv, TypeOK, EmptySeen, levelled, Keys, SetsLevel, Loader,
       LoadSetsLevel, Leaves, Idle, tableVars, mainVars
  <1>5. /\ Launched' /\ UnloadsTold' /\ Kept' /\ DeadPastWait' /\ OwnInHand' /\ StillToClose'
        /\ InOrder'
    BY ThreadSets DEF IInv, TypeOK, LoadSetsLevel, Leaves, Idle, tableVars, mainVars,
       Launched, Busy, Unloader, UnloadsTold, Unloading, Kept, attached, running,
       DeadPastWait, OwnInHand, Closing, main, StillToClose, InOrder
  <1> QED BY <1>1, <1>2, <1>3, <1>4, <1>5 DEF IInv

(* An unload that found its name.                                          *)
LEMMA UnloadFindsKeeps ==
  ASSUME IInv, TypeOK', NEW n \in Name, worker["unload"].at = "idle",
         UnloadFinds("unload", n), UNCHANGED mainVars
  PROVE  IInv'
PROOF
  <1>1. Places'
    BY ThreadSets DEF IInv, TypeOK, Places, main, Busy, Unloader, Loader, UnloadFinds,
       Worker, tableVars, mainVars
  <1>2. Launched'
    BY ThreadSets DEF IInv, TypeOK, Launched, Busy, Unloader, UnloadFinds, Worker, tableVars, mainVars
  <1>3. UnloadsTold'
    BY ThreadSets DEF IInv, TypeOK, UnloadsTold, Unloading, Unloader, Busy, UnloadFinds,
       Worker, tableVars, mainVars
  <1>4. OwnInHand'
    BY ThreadSets DEF IInv, TypeOK, OwnInHand, Closing, main, Busy, Unloader, UnloadFinds,
       Worker, tableVars, mainVars
  <1>5. /\ LoadsTold' /\ Kept' /\ DeadPastWait' /\ StillToClose' /\ InOrder' /\ LevelFollows'
        /\ EmptySeen'
    BY ThreadSets DEF IInv, TypeOK, UnloadFinds, Worker, tableVars, mainVars,
       LoadsTold, Loading, Loader, Kept, attached, running, DeadPastWait, Unloader,
       StillToClose, main, Busy, InOrder, LevelFollows, levelled, Keys, SetsLevel, EmptySeen
  <1> QED BY <1>1, <1>2, <1>3, <1>4, <1>5 DEF IInv

(* The process is asked to shut down.                                      *)
LEMMA AskedLives ==
  ASSUME TypeOK, NEW w \in Unloader, UnloadAsks(w)
  PROVE  \A p \in Proc :
           \/ life'[p] = life[p]
           \/ life[p] \in {"up", "asked"} /\ life'[p] = "asked"
PROOF
  <1> DEFINE found == {p \in Proc : life[p] \in {"up", "asked"} /\ name[p] = worker[w].name}
  <1>1. \/ life' = [p \in Proc |-> IF p \in found THEN "asked" ELSE life[p]]
        \/ life' = life
    BY DEF UnloadAsks
  <1>2. \A p \in found : life[p] \in {"up", "asked"}   OBVIOUS
  <1> HIDE DEF found
  <1> QED BY <1>1, <1>2

LEMMA UnloadAsksKeeps ==
  ASSUME IInv, TypeOK', NEW w \in Unloader, UnloadAsks(w)
  PROVE  IInv'
PROOF
  <1>1. /\ UNCHANGED <<table, entry, name, level, left, history>>
        /\ worker[w].at = "ask" /\ worker'[w].at = "wait"
        /\ worker'[w].name = worker[w].name /\ worker'[w].app = worker[w].app
        /\ \A v \in Worker \ {w} : worker'[v] = worker[v]
    BY ThreadSets, ThreadGoes DEF IInv, UnloadAsks, Place, mainVars
  <1>2. \A p \in Proc : /\ running(p)' <=> running(p)
                        /\ life'[p] = "none" <=> life[p] = "none"
                        /\ life'[p] = "dead" <=> life[p] = "dead"
    BY AskedLives DEF IInv, running
  <1>3. Places'
    BY ThreadSets, <1>1 DEF IInv, Places, main, Busy, Unloader
  <1>4. Launched'
    <2>1. /\ \A n \in Name : entry[n] # NoProc => entry[n] \in Proc
          /\ \A v \in Unloader : worker[v].at \in Busy => worker[v].app \in Proc
          /\ history.closing \subseteq Proc
      BY DEF IInv, TypeOK, Places
    <2> QED BY ThreadSets, <1>1, <1>2, <2>1 DEF IInv, Launched, Busy
  <1>5. LoadsTold' /\ UnloadsTold'
    BY ThreadSets, <1>1 DEF IInv, LoadsTold, Loading, UnloadsTold, Unloading, Unloader, Busy
  <1>6. Kept'
    BY ThreadSets, <1>1, <1>2 DEF IInv, Kept, attached, Busy
  <1>7. DeadPastWait'
    BY ThreadSets, <1>1, <1>2 DEF IInv, Places, DeadPastWait, Busy
  <1>8. OwnInHand' /\ InOrder'
    BY ThreadSets, <1>1 DEF IInv, OwnInHand, InOrder, Closing, main, Unloader, Busy
  <1>9. StillToClose'
    BY ThreadSets, <1>1, <1>2 DEF IInv, TypeOK, StillToClose, main, Unloader, Busy
  <1>10. LevelFollows' /\ EmptySeen'
    BY ThreadSets, <1>1 DEF IInv, LevelFollows, EmptySeen, levelled, Keys, SetsLevel, Unloader
  <1> QED BY <1>3, <1>4, <1>5, <1>6, <1>7, <1>8, <1>9, <1>10 DEF IInv

(* It is killed at the end of the wait: what an unload holds is dead       *)
(* then.                                                                   *)
LEMMA UnloadKillsKeeps ==
  ASSUME IInv, TypeOK', NEW w \in Unloader, UnloadKills(w)
  PROVE  IInv'
PROOF
  <1>1. Places'
    BY ThreadSets DEF IInv, TypeOK, Places, main, Busy, Unloader, Loader, UnloadKills, Goes, mainVars
  <1>2. Launched'
    BY ThreadSets DEF IInv, TypeOK, Launched, Busy, Unloader, UnloadKills, Goes,
       mainVars
  <1>3. DeadPastWait'
    BY ThreadSets DEF IInv, TypeOK, DeadPastWait, Unloader, UnloadKills, Goes, mainVars
  <1>4. StillToClose'
    BY ThreadSets DEF IInv, TypeOK, StillToClose, running, main, Busy, UnloadKills, Goes, mainVars
  <1>5. LoadsTold' /\ UnloadsTold' /\ Kept' /\ OwnInHand' /\ InOrder' /\ LevelFollows' /\ EmptySeen'
    BY ThreadSets DEF IInv, TypeOK, UnloadKills, Goes, mainVars, LoadsTold,
       Loading, Loader, UnloadsTold, Unloading, Unloader, Busy, Kept, attached, running,
       OwnInHand, Closing, main, InOrder, LevelFollows, levelled, Keys, SetsLevel, EmptySeen
  <1> QED BY <1>1, <1>2, <1>3, <1>4, <1>5 DEF IInv

(* The AppData lets go of the process.                                     *)
LEMMA UnloadResetsKeeps ==
  ASSUME IInv, TypeOK', NEW w \in Unloader, UnloadResets(w)
  PROVE  IInv'
PROOF
  <1>1. Places'
    BY ThreadSets DEF IInv, TypeOK, Places, main, Busy, Unloader, Loader, UnloadResets, Goes, mainVars
  <1>2. /\ Launched' /\ LoadsTold' /\ UnloadsTold' /\ Kept' /\ DeadPastWait' /\ OwnInHand'
        /\ StillToClose' /\ InOrder' /\ LevelFollows' /\ EmptySeen'
    BY ThreadSets DEF IInv, TypeOK, UnloadResets, Goes, mainVars, Launched,
       Busy, Unloader, LoadsTold, Loading, Loader, UnloadsTold, Unloading, Kept, attached,
       running, DeadPastWait, OwnInHand, Closing, main, StillToClose, InOrder, LevelFollows,
       levelled, Keys, SetsLevel, EmptySeen
  <1> QED BY <1>1, <1>2 DEF IInv

(* Whether the map is empty now.                                           *)
LEMMA UnloadCountsKeeps ==
  ASSUME IInv, TypeOK', UnloadCounts
  PROVE  IInv'
PROOF
  <1>1. Places'
    BY ThreadSets DEF IInv, TypeOK, Places, main, Busy, Unloader, Loader, UnloadCounts,
       unloadReturnsTrue, Goes, Leaves, Idle, tableVars, mainVars
  <1>2. EmptySeen'
    BY ThreadSets DEF IInv, TypeOK, EmptySeen, levelled, Keys, SetsLevel, Loader,
       UnloadCounts, unloadReturnsTrue, Goes, Leaves, Idle, tableVars, mainVars
  <1>3. /\ Launched' /\ LoadsTold' /\ UnloadsTold' /\ Kept' /\ DeadPastWait' /\ OwnInHand'
        /\ StillToClose' /\ InOrder' /\ LevelFollows'
    BY ThreadSets DEF IInv, TypeOK, UnloadCounts, unloadReturnsTrue, Goes, Leaves, Idle,
       tableVars, mainVars, Launched, Busy, Unloader, LoadsTold, Loading,
       Loader, UnloadsTold, Unloading, Kept, attached, running, DeadPastWait, OwnInHand,
       Closing, main, StillToClose, InOrder, LevelFollows, levelled, Keys, SetsLevel
  <1> QED BY <1>1, <1>2, <1>3 DEF IInv

(* The close has taken every name: nothing it began with still runs.       *)
LEMMA CloseEndsKeeps ==
  ASSUME IInv, TypeOK', CloseEnds
  PROVE  IInv'
PROOF
  <1>1. Places'
    BY ThreadSets DEF IInv, TypeOK, Places, main, Busy, Unloader, Loader, CloseEnds, Goes,
       tableVars, mainVars
  <1>2. StillToClose'
    BY ThreadSets DEF IInv, TypeOK, StillToClose, running, main, Busy, CloseEnds, Goes,
       tableVars, mainVars
  <1>3. /\ Launched' /\ LoadsTold' /\ UnloadsTold' /\ Kept' /\ DeadPastWait' /\ OwnInHand'
        /\ InOrder' /\ LevelFollows' /\ EmptySeen'
    BY ThreadSets DEF IInv, TypeOK, CloseEnds, Goes, tableVars, mainVars,
       Launched, Busy, Unloader, LoadsTold, Loading, Loader, UnloadsTold, Unloading, Kept,
       attached, running, DeadPastWait, OwnInHand, Closing, main, InOrder, LevelFollows,
       levelled, Keys, SetsLevel, EmptySeen
  <1> QED BY <1>1, <1>2, <1>3 DEF IInv

(* A launch.  The new process is in no hand; it comes into the map unless  *)
(* another load was first, which is on record.                             *)
LEMMA LoadEmplacesKeeps ==
  ASSUME IInv, TypeOK', NEW w \in Loader, LoadEmplaces(w)
  PROVE  IInv'
PROOF
  <1> DEFINE n == worker[w].name
  <1>0. /\ Loader \subseteq Worker /\ Unloader \subseteq Worker /\ "unload" \in Worker
        /\ "main" \in Worker /\ NoProc \notin Proc
    BY LayerTablesAssumption DEF Loader, Unloader, Worker, NoProc, Proc
  <1>1. n \in Name /\ worker[w].at = "launch"   BY DEF LoadEmplaces, IInv, Places
  <1>2. PICK p \in Proc :
          /\ life[p] = "none"
          /\ name' = [name EXCEPT ![p] = n]
          /\ IF entry[n] = NoProc
             THEN entry' = [entry EXCEPT ![n] = p] /\ life' = [life EXCEPT ![p] = "starting"]
             ELSE /\ life' = LifeWithout({p}, [life EXCEPT ![p] = "starting"])
                  /\ UNCHANGED entry
    BY DEF LoadEmplaces
  <1>3. /\ worker'[w].at = "level" /\ \A v \in Worker \ {w} : worker'[v] = worker[v]
        /\ UNCHANGED <<table, left, level, history>>
    BY <1>0, ThreadGoes DEF LoadEmplaces, IInv, Place, mainVars
  <1>4. /\ name'[p] = n /\ life'[p] \in {"starting", "dead"}
        /\ entry[n] # NoProc /\ attached => life'[p] = "dead"
        /\ \A q \in Proc \ {p} : name'[q] = name[q] /\ life'[q] = life[q]
    <2> DEFINE l == [life EXCEPT ![p] = "starting"]
    <2>1. l \in [Proc -> {"none", "starting", "up", "asked", "dead"}]   BY DEF IInv, TypeOK
    <2>2. l[p] = "starting" /\ \A q \in Proc \ {p} : l[q] = life[q]   BY DEF IInv, TypeOK
    <2>3. name'[p] = n /\ \A q \in Proc \ {p} : name'[q] = name[q]   BY <1>2 DEF IInv, TypeOK
    <2>4. entry[n] = NoProc => life' = l   BY <1>2
    <2>5. entry[n] # NoProc => life' = LifeWithout({p}, l)   BY <1>2
    <2> HIDE DEF l
    <2>6. CASE entry[n] = NoProc   BY <2>2, <2>3, <2>4, <2>6
    <2>7. CASE entry[n] # NoProc
      <3>1. /\ LifeWithout({p}, l) \in [Proc -> {"none", "starting", "up", "asked", "dead"}]
            /\ \A q \in Proc \ {p} : LifeWithout({p}, l)[q] = l[q]
            /\ LifeWithout({p}, l)[p] = IF attached THEN "dead" ELSE l[p]
        BY <2>1, <2>2, LifeAfterLoss
      <3> QED BY <2>2, <2>3, <2>5, <2>7, <3>1
    <2> QED BY <2>6, <2>7
  <1>5. /\ \A m \in Name \ {n} : entry'[m] = entry[m]
        /\ entry'[n] = IF entry[n] = NoProc THEN p ELSE entry[n]
    BY <1>1, <1>2 DEF IInv, TypeOK
  <1>6. entry[n] # NoProc => n \in history.twoLoads   BY <1>1 DEF IInv, LoadsTold
  <1> HIDE DEF n
  <1>7. Places'   BY <1>0, <1>3 DEF IInv, Places, main, Busy, Unloader, Loader
  <1>8. Launched'
    <2>1. \A q \in Proc : life'[q] # "none" => name'[q] \in Name
      BY <1>1, <1>4 DEF IInv, Launched
    <2>2. \A m \in Name : entry'[m] # NoProc => life'[entry'[m]] # "none" /\ name'[entry'[m]] = m
      <3> SUFFICES ASSUME NEW m \in Name, entry'[m] # NoProc
                   PROVE  life'[entry'[m]] # "none" /\ name'[entry'[m]] = m
        OBVIOUS
      <3>1. CASE entry[m] # NoProc
        <4>1. entry[m] \in Proc /\ life[entry[m]] # "none" /\ name[entry[m]] = m
          BY <3>1 DEF IInv, TypeOK, Launched
        <4>2. entry'[m] = entry[m]   BY <1>5, <3>1
        <4> QED BY <1>2, <1>4, <4>1, <4>2
      <3>2. CASE entry[m] = NoProc
        <4>1. m = n /\ entry'[m] = p   BY <1>5, <3>2
        <4> QED BY <1>4, <4>1
      <3> QED BY <3>1, <3>2
    <2>3. \A v \in Unloader : worker'[v].at \in Busy =>
            life'[worker'[v].app] # "none" /\ name'[worker'[v].app] = worker'[v].name
      BY <1>0, <1>2, <1>3, <1>4 DEF IInv, Places, Launched, Unloader, Loader
    <2>4. \A q \in history'.closing : life'[q] # "none"
      BY <1>2, <1>3, <1>4 DEF IInv, TypeOK, Launched
    <2> QED BY <2>1, <2>2, <2>3, <2>4 DEF Launched
  <1>9. LoadsTold'
    BY <1>0, <1>1, <1>3, <1>5 DEF IInv, Places, LoadsTold, Loading, n
  <1>10. UnloadsTold'
    BY <1>0, <1>1, <1>2, <1>3, <1>5 DEF IInv, Places, UnloadsTold, Unloading, Unloader,
       Busy, Loader
  <1>11. Kept'
    <2> SUFFICES ASSUME NEW q \in Proc, running(q)', entry'[name'[q]] # q
                 PROVE  /\ name'[q] \in history.twoLoads \cup history.twoUnloads
                        /\ \/ ~attached
                           \/ \E v \in Unloader : worker'[v].at \in Busy /\ worker'[v].app = q
      BY <1>3 DEF Kept, attached
    <2>1. CASE q = p   BY <1>4, <1>5, <1>6, <2>1 DEF running
    <2>2. CASE q # p
      <3>1. /\ running(q) /\ name'[q] = name[q] /\ name[q] \in Name
            /\ entry[name[q]] # q
        BY <1>0, <1>4, <1>5, <2>2 DEF running, IInv, TypeOK, Launched
      <3>2. \A v \in Unloader : worker'[v] = worker[v]   BY ThreadSets, <1>3
      <3> QED BY <3>1, <3>2 DEF IInv, Kept
    <2> QED BY <2>1, <2>2
  <1>12. DeadPastWait'
    BY <1>0, <1>2, <1>3, <1>4 DEF IInv, Places, Launched, DeadPastWait, Unloader, Loader, Busy
  <1>13. OwnInHand'
    BY <1>0, <1>1, <1>2, <1>3, <1>5 DEF IInv, Places, Launched, OwnInHand, Closing, main,
       Busy, Unloader, Loader
  <1>14. StillToClose'
    BY <1>0, <1>1, <1>2, <1>3, <1>4, <1>5 DEF IInv, TypeOK, Launched, StillToClose, running,
       main, Busy, Loader
  <1>15. InOrder'   BY <1>0, <1>3 DEF IInv, InOrder, main, Busy, Loader
  <1>16. LevelFollows' /\ EmptySeen'
    BY <1>0, <1>1, <1>3, <1>5 DEF IInv, LevelFollows, EmptySeen, levelled, Keys, SetsLevel, Loader
  <1> QED BY <1>7, <1>8, <1>9, <1>10, <1>11, <1>12, <1>13, <1>14, <1>15, <1>16 DEF IInv

(* The process ended within the wait.                                      *)
LEMMA UnloadSeesEndKeeps ==
  ASSUME IInv, TypeOK', NEW w \in Unloader, UnloadSeesEnd(w)
  PROVE  IInv'
PROOF
  <1>1. Places'
    BY ThreadSets DEF IInv, TypeOK, Places, main, Busy, Unloader, Loader, UnloadSeesEnd, Goes
  <1>2. worker[w].app \in Proc /\ life[worker[w].app] = "dead"
    BY ThreadSets DEF IInv, TypeOK, Places, Launched, UnloadSeesEnd, running, Busy
  <1>3. DeadPastWait'
    BY ThreadSets, <1>2 DEF IInv, TypeOK, DeadPastWait, Unloader, UnloadSeesEnd, Goes, tableVars
  <1>4. /\ Launched' /\ LoadsTold' /\ UnloadsTold' /\ Kept' /\ OwnInHand' /\ StillToClose'
        /\ InOrder' /\ LevelFollows' /\ EmptySeen'
    BY ThreadSets DEF IInv, TypeOK, UnloadSeesEnd, Goes, tableVars, mainVars,
       Launched, Busy, Unloader, LoadsTold, Loading, Loader, UnloadsTold, Unloading, Kept,
       attached, running, OwnInHand, Closing, main, StillToClose, InOrder, LevelFollows,
       levelled, Keys, SetsLevel, EmptySeen
  <1> QED BY <1>1, <1>3, <1>4 DEF IInv

(* The level after an unload that found the map empty.                     *)
LEMMA UnloadSetsLevelKeeps ==
  ASSUME IInv, TypeOK', UnloadSetsLevel
  PROVE  IInv'
PROOF
  <1>1. LevelFollows' /\ EmptySeen'
    BY ThreadSets DEF IInv, TypeOK, LevelFollows, EmptySeen, levelled, Keys, SetsLevel,
       Loader, UnloadSetsLevel, Leaves, Idle, tableVars, mainVars
  <1>2. /\ Places' /\ Launched' /\ LoadsTold' /\ UnloadsTold' /\ Kept' /\ DeadPastWait'
        /\ OwnInHand' /\ StillToClose' /\ InOrder'
    BY ThreadSets DEF IInv, TypeOK, UnloadSetsLevel, Leaves, Idle, tableVars, mainVars,
       Places, DeadPastWait, Launched, Busy, Unloader, LoadsTold, Loading, Loader,
       UnloadsTold, Unloading, Kept, attached, running, OwnInHand, Closing, main,
       StillToClose, InOrder
  <1> QED BY <1>1, <1>2 DEF IInv

(* Another command of the component sets the level.                        *)
LEMMA OtherCommandsKeeps ==
  ASSUME IInv, TypeOK', OtherCommands
  PROVE  IInv'
PROOF
  <1>1. /\ UNCHANGED <<table, entry, name, life, left, worker>>
        /\ history'.twoLoads = history.twoLoads /\ history'.twoUnloads = history.twoUnloads
        /\ history'.closing = history.closing /\ history'.overtaken = history.overtaken
        /\ ~history'.lowered
    BY DEF OtherCommands, tableVars, mainVars, IInv, TypeOK
  <1>2. Places' /\ Launched' /\ LoadsTold' /\ UnloadsTold' /\ Kept' /\ DeadPastWait'
    BY <1>1 DEF IInv, Places, Launched, LoadsTold, UnloadsTold, Kept, DeadPastWait,
       Loading, Unloading, attached, running, main
  <1>3. OwnInHand' /\ StillToClose' /\ InOrder' /\ LevelFollows' /\ EmptySeen'
    BY <1>1 DEF IInv, OwnInHand, StillToClose, InOrder, LevelFollows, EmptySeen, Closing,
       running, main, levelled, Keys, SetsLevel
  <1> QED BY <1>2, <1>3 DEF IInv

(* A process registers or ends: none begins to run again.                  *)
LEMMA ProcessKeeps ==
  ASSUME IInv, TypeOK', Process
  PROVE  IInv'
PROOF
  <1>1. PICK p \in Proc : Registers(p) \/ EndsAsAsked(p) \/ Dies(p)   BY DEF Process
  <1>2. /\ life'[p] # "none" /\ running(p)
        /\ \A q \in Proc \ {p} : life'[q] = life[q]
    BY <1>1 DEF IInv, TypeOK, Registers, EndsAsAsked, Dies, running
  <1>3. UNCHANGED <<table, entry, name, worker, level, left, history>>
    BY DEF Process, mainVars
  <1>4. Launched'
    <2>1. \A q \in Proc : life'[q] # "none" <=> life[q] # "none"   BY <1>2 DEF running
    <2>2. /\ \A m \in Name : entry[m] # NoProc => entry[m] \in Proc
          /\ \A w \in Unloader : worker[w].at \in Busy => worker[w].app \in Proc
          /\ history.closing \subseteq Proc
      BY DEF IInv, TypeOK, Places
    <2> QED BY <1>3, <2>1, <2>2 DEF IInv, Launched
  <1>5. DeadPastWait'
    BY <1>2, <1>3 DEF IInv, Places, DeadPastWait, Busy, running
  <1>6. Kept' /\ StillToClose'
    BY <1>2, <1>3 DEF IInv, TypeOK, Kept, StillToClose, attached, running, main, Busy
  <1>7. /\ Places' /\ LoadsTold' /\ UnloadsTold' /\ OwnInHand' /\ InOrder' /\ LevelFollows'
        /\ EmptySeen'
    BY <1>3 DEF IInv, Places, LoadsTold, UnloadsTold, OwnInHand, InOrder, LevelFollows,
       EmptySeen, Loading, Unloading, Closing, main, levelled, Keys, SetsLevel
  <1> QED BY <1>4, <1>5, <1>6, <1>7 DEF IInv

(* The main thread moves over the map.                                     *)
LEMMA MonitorKeeps ==
  ASSUME IInv, TypeOK', UNCHANGED <<table, entry, name, life, level, left, history>>,
         \A w \in Worker \ {"main"} : worker'[w] = worker[w],
         main.at \in {"idle", "look", "next"}, main'.at \in {"idle", "look", "next"},
         main'.at = "look" => main'.app \in Proc
  PROVE  IInv'
PROOF
  <1>0. Loader \subseteq Worker /\ "unload" \in Worker /\ "main" \notin Loader
    BY DEF Loader, Worker
  <1>1. Places' /\ Launched' /\ LoadsTold' /\ UnloadsTold' /\ Kept' /\ DeadPastWait'
    BY <1>0 DEF IInv, Places, Launched, LoadsTold, UnloadsTold, Kept, DeadPastWait, Loading,
       Unloading, attached, running, main, Busy, Unloader
  <1>2. OwnInHand' /\ StillToClose' /\ InOrder' /\ LevelFollows' /\ EmptySeen'
    BY <1>0 DEF IInv, OwnInHand, StillToClose, InOrder, LevelFollows, EmptySeen, Closing,
       running, main, Busy, Unloader, levelled, Keys, SetsLevel
  <1> QED BY <1>1, <1>2 DEF IInv

(* The close takes the names there are; nobody else held one of them by    *)
(* an old process.                                                         *)
LEMMA CloseBeginsKeeps ==
  ASSUME IInv, TypeOK', CloseBegins
  PROVE  IInv'
PROOF
  <1>1. /\ main.at = "idle" /\ main'.at = "close"
        /\ \A v \in Worker \ {"main"} : worker'[v] = worker[v]
        /\ UNCHANGED <<table, entry, name, life, level>>
    BY ThreadSets, ThreadGoes DEF CloseBegins, IInv, Place, main, tableVars
  <1>2. /\ history'.twoLoads = history.twoLoads /\ history'.twoUnloads = history.twoUnloads
        /\ history'.overtaken = history.overtaken /\ history'.lowered = history.lowered
        /\ \/ history'.closing = {} /\ left' = {}
           \/ history'.closing = {entry[n] : n \in Keys} /\ left' = Keys
    BY <1>1 DEF CloseBegins, IInv, TypeOK, OwnInHand, Closing, Busy
  <1>3. Places' /\ LoadsTold' /\ UnloadsTold' /\ Kept' /\ DeadPastWait' /\ InOrder'
    BY ThreadSets, <1>1, <1>2 DEF IInv, Places, LoadsTold, UnloadsTold, Kept, DeadPastWait,
       InOrder, Loading, Unloading, attached, running, main, Busy, Unloader
  <1>4. Launched'
    BY ThreadSets, <1>1, <1>2 DEF IInv, Launched, Keys, main, Busy, Unloader
  <1>5. OwnInHand'
    BY ThreadSets, <1>1, <1>2 DEF IInv, OwnInHand, Closing, main, Busy, Unloader
  <1>6. StillToClose'
    BY ThreadSets, <1>1, <1>2 DEF IInv, Launched, StillToClose, running, main, Busy, Keys
  <1>7. LevelFollows' /\ EmptySeen'
    BY ThreadSets, <1>1, <1>2 DEF IInv, LevelFollows, EmptySeen, levelled, Keys, SetsLevel
  <1> QED BY <1>3, <1>4, <1>5, <1>6, <1>7 DEF IInv

(* The close takes the least name that is left.                            *)
LEMMA CloseUnloadsKeeps ==
  ASSUME IInv, TypeOK', CloseUnloads
  PROVE  IInv'
PROOF
  <1> DEFINE n == Least(left)
  <1>1. n \in left /\ n \in Name /\ \A m \in left : n <= m
    <2>1. left \subseteq Nat /\ left # {} /\ left \subseteq Name
      BY LayerTablesAssumption DEF CloseUnloads, IInv, TypeOK, Name
    <2> QED BY <2>1, LeastExists
  <1>2. \A m \in left \ {n} : n < m
    <2>1. left \subseteq Int   BY LayerTablesAssumption DEF IInv, TypeOK, Name
    <2> HIDE DEF n
    <2> QED BY <1>1, <2>1
  <1>3. main.at = "close" /\ left' = left \ {n}   BY DEF CloseUnloads
  <1>4. CASE entry[n] = NoProc
    <2>1. UNCHANGED <<table, entry, name, life, worker, level, history>>
      BY <1>4 DEF CloseUnloads, tableVars
    <2>2. Places' /\ Launched' /\ LoadsTold' /\ UnloadsTold' /\ Kept' /\ DeadPastWait'
      BY <2>1 DEF IInv, Places, Launched, LoadsTold, UnloadsTold, Kept, DeadPastWait,
         Loading, Unloading, attached, running, main
    <2>3. OwnInHand' /\ InOrder' /\ LevelFollows' /\ EmptySeen'
      BY <1>3, <2>1 DEF IInv, OwnInHand, InOrder, LevelFollows, EmptySeen, Closing, main,
         Busy, levelled, Keys, SetsLevel
    <2>4. StillToClose'
      BY ThreadSets, <1>1, <1>3, <1>4, <2>1 DEF IInv, TypeOK, StillToClose, running, main, Busy
    <2> QED BY <2>2, <2>3, <2>4 DEF IInv
  <1>5. CASE entry[n] # NoProc
    <2>1. UnloadFinds("main", n)   BY <1>5 DEF CloseUnloads
    <2>2. UNCHANGED <<table, entry, name, life, level>>
      BY <2>1 DEF UnloadFinds, tableVars
    <2>3. /\ main' = [at |-> "ask", name |-> n, app |-> entry[n]]
          /\ \A v \in Worker \ {"main"} : worker'[v] = worker[v]
      BY ThreadSets, <2>1 DEF UnloadFinds, IInv, TypeOK, main
    <2>4. /\ history'.twoLoads = history.twoLoads /\ history'.closing = history.closing
          /\ history'.overtaken = history.overtaken /\ history'.lowered = history.lowered
          /\ history'.twoUnloads = IF \E v \in Worker \ {"main"} : Unloading(v, n)
                                   THEN history.twoUnloads \cup {n} ELSE history.twoUnloads
      BY <2>1 DEF UnloadFinds, IInv, TypeOK
    <2>5. entry[n] \in Proc   BY <1>1, <1>5 DEF IInv, TypeOK
    <2> HIDE DEF n
    <2>6. Places' /\ Launched' /\ DeadPastWait'
      BY ThreadSets, <1>1, <1>5, <2>2, <2>3, <2>4, <2>5 DEF IInv, Places, Launched,
         DeadPastWait, main, Busy, Unloader
    <2>7. LoadsTold'
      BY ThreadSets, <2>2, <2>3, <2>4 DEF IInv, LoadsTold, Loading
    <2>8. Kept'
      BY ThreadSets, <1>1, <1>3, <2>2, <2>3, <2>4
         DEF IInv, Kept, attached, running, Unloader, Busy, main
    <2>9. UnloadsTold'
      BY ThreadSets, <2>2, <2>3, <2>4 DEF IInv, UnloadsTold, Unloading, main, Busy, Unloader
    <2>10. OwnInHand'
      BY ThreadSets, <1>3, <2>2, <2>3, <2>4 DEF IInv, OwnInHand, Closing, main, Busy, Unloader
    <2>11. StillToClose'
      BY ThreadSets, <1>1, <1>3, <2>2, <2>3, <2>4 DEF IInv, TypeOK, StillToClose, running, Busy
    <2>12. InOrder'   BY <1>2, <1>3, <2>3 DEF InOrder
    <2>13. LevelFollows' /\ EmptySeen'
      BY ThreadSets, <2>2, <2>3, <2>4 DEF IInv, LevelFollows, EmptySeen, levelled, Keys, SetsLevel
    <2> QED BY <2>6, <2>7, <2>8, <2>9, <2>10, <2>11, <2>12, <2>13
        DEF IInv
  <1> QED BY <1>4, <1>5

(* What an erase takes out of the map is the dead process in hand, unless  *)
(* two unloads raced on the name.                                          *)
LEMMA ErasesKeeps ==
  ASSUME IInv, TypeOK', NEW w \in Unloader, Erases(w),
         \A v \in Worker \ {w} : worker'[v] = worker[v],
         w = "unload" => worker'[w].at = "count" /\ left' = left,
         w = "main" => /\ worker'[w].at = "close"
                       /\ left' = left \/ left' = {n \in Keys : n > main.name}
  PROVE  IInv'
PROOF
  <1> DEFINE n == worker[w].name
  <1>1. /\ n \in Name /\ worker[w].at = "erase"
        /\ worker[w].app \in Proc /\ life[worker[w].app] = "dead" /\ name[worker[w].app] = n
    BY DEF Erases, IInv, Places, Launched, DeadPastWait, Busy
  <1>2. /\ entry'[n] = NoProc /\ \A m \in Name \ {n} : entry'[m] = entry[m]
        /\ UNCHANGED <<table, name, level, history>>
    BY <1>1 DEF Erases, IInv, TypeOK
  <1>3. \A p \in Proc : /\ p # entry[n] \/ ~attached => life'[p] = life[p]
                        /\ p = entry[n] /\ attached /\ life[p] # "none" =>
                             life'[p] = "dead" \/ \E v \in Worker \ {w} : Holds(v, p)
                        /\ life[p] = "none" <=> life'[p] = "none"
                        /\ life[p] = "dead" => life'[p] = "dead"
    <2> DEFINE lost == {p \in {entry[n]} \ {NoProc} : \A v \in Worker \ {w} : ~Holds(v, p)}
    <2>1. life' = LifeWithout(lost, life)   BY DEF Erases
    <2>2. life \in [Proc -> {"none", "starting", "up", "asked", "dead"}]   BY DEF IInv, TypeOK
    <2>3. \A p \in Proc : /\ p # entry[n] => p \notin lost
                          /\ p = entry[n] => p \in lost \/ \E v \in Worker \ {w} : Holds(v, p)
      BY ThreadSets
    <2> HIDE DEF n, lost
    <2> QED BY <2>1, <2>2, <2>3, LifeAfterLoss
  <1>4. n \notin history.twoUnloads => entry[n] = worker[w].app
    BY <1>1 DEF IInv, UnloadsTold, Busy
  <1>5. entry[n] \in history.closing => entry[n] = worker[w].app   BY <1>1 DEF IInv, OwnInHand, Busy
  <1>6. w = "main" => main.name = n /\ worker["unload"] = worker'["unload"]
    BY DEF main, Unloader, Worker
  <1> HIDE DEF n
  <1>7. Places'   BY ThreadSets DEF IInv, Places, main, Busy, Unloader
  <1>8. Launched'
    <2>1. /\ \A m \in Name : entry[m] # NoProc => entry[m] \in Proc
          /\ history.closing \subseteq Proc
      BY DEF IInv, TypeOK
    <2>2. /\ \A p \in Proc : life'[p] # "none" => name'[p] \in Name
          /\ \A p \in history'.closing : life'[p] # "none"
      BY <1>2, <1>3, <2>1 DEF IInv, Launched
    <2>3. \A m \in Name : entry'[m] # NoProc => life'[entry'[m]] # "none" /\ name'[entry'[m]] = m
      BY <1>2, <1>3, <2>1 DEF IInv, Launched
    <2>4. \A v \in Unloader : worker'[v].at \in Busy =>
            life'[worker'[v].app] # "none" /\ name'[worker'[v].app] = worker'[v].name
      BY ThreadSets, <1>2, <1>3 DEF IInv, Places, Launched, Busy, Unloader
    <2> QED BY <2>2, <2>3, <2>4 DEF Launched
  <1>9. LoadsTold'
    <2>1. \A v \in Loader : worker'[v] = worker[v]   BY ThreadSets
    <2>2. \A m \in Name : entry[m] = NoProc => entry'[m] = NoProc   BY <1>2
    <2>3. \A v \in Loader : worker[v].at = "launch" => worker[v].name \in Name   BY DEF IInv, Places
    <2> QED BY <1>2, <2>1, <2>2, <2>3 DEF IInv, LoadsTold, Loading
  <1>10. UnloadsTold'
    <2> SUFFICES ASSUME NEW v \in Unloader, worker'[v].at \in Busy,
                        worker'[v].name \notin history.twoUnloads
                 PROVE  /\ entry'[worker'[v].name] = worker'[v].app
                        /\ \A u \in Unloader \ {v} : worker'[u].at \notin Busy
      BY <1>2 DEF UnloadsTold, Unloading, Busy
    <2>1. v # w /\ worker'[v] = worker[v]   BY ThreadSets DEF Busy, Unloader
    <2>2. /\ worker[v].name \in Name /\ entry[worker[v].name] = worker[v].app
          /\ ~Unloading(w, worker[v].name)
      BY <2>1 DEF IInv, Places, UnloadsTold
    <2>3. worker[v].name # n   BY <1>1, <2>2 DEF Unloading, n
    <2>4. \A u \in Unloader \ {v} : worker'[u].at \notin Busy   BY <2>1 DEF Busy, Unloader
    <2> QED BY <1>2, <2>1, <2>2, <2>3, <2>4
  <1>11. Kept'
    <2> SUFFICES ASSUME NEW p \in Proc, running(p)', entry'[name[p]] # p
                 PROVE  /\ name[p] \in history.twoLoads \cup history.twoUnloads
                        /\ \/ ~attached
                           \/ \E v \in Unloader : worker'[v].at \in Busy /\ worker'[v].app = p
      BY <1>2 DEF Kept, attached
    <2>1. running(p) /\ name[p] \in Name   BY <1>3 DEF running, IInv, TypeOK, Launched
    <2>2. p # worker[w].app   BY <1>1, <2>1 DEF running
    <2>3. ASSUME NEW v \in Worker, worker[v].at \in Busy, worker[v].app = p
          PROVE  v \in Unloader /\ worker'[v].at \in Busy /\ worker'[v].app = p
      BY <2>2, <2>3 DEF IInv, Places, Worker, Unloader, Busy
    <2>4. CASE entry[name[p]] # p   BY ThreadSets, <2>1, <2>3, <2>4 DEF IInv, Kept
    <2>5. CASE entry[name[p]] = p
      <3>1. name[p] = n /\ entry[n] = p   BY <1>2, <2>1, <2>5
      <3>2. name[p] \in history.twoUnloads   BY <1>4, <2>2, <3>1
      <3>3. ~attached \/ \E v \in Worker \ {w} : Holds(v, p)
        BY <1>3, <2>1, <3>1 DEF running
      <3> QED BY <2>3, <3>2, <3>3 DEF Holds, Busy
    <2> QED BY <2>4, <2>5
  <1>12. DeadPastWait'
    BY ThreadSets, <1>3 DEF IInv, Places, DeadPastWait, Busy, Unloader
  <1>13. OwnInHand'
    <2>1. history.closing \subseteq Proc   BY DEF IInv, TypeOK
    <2>2. Closing' <=> Closing
      BY <1>1 DEF Closing, main, Busy, Unloader, Worker
    <2>3. ~Closing => w = "unload"   BY <1>1 DEF Closing, main, Busy, Unloader
    <2>4. \A v \in Unloader : worker'[v].at \in Busy
    /\ entry'[worker'[v].name] \in history.closing =>
            entry'[worker'[v].name] = worker'[v].app
      <3> SUFFICES ASSUME NEW v \in Unloader, worker'[v].at \in Busy,
                          entry'[worker'[v].name] \in history.closing
                   PROVE  entry'[worker'[v].name] = worker'[v].app
        OBVIOUS
      <3>1. v # w /\ worker'[v] = worker[v]   BY ThreadSets DEF Busy, Unloader
      <3>2. worker[v].name \in Name   BY <3>1 DEF IInv, Places
      <3>3. worker[v].name # n   BY ThreadSets, <1>2, <2>1, <3>1
      <3> QED BY <1>2, <3>1, <3>2, <3>3 DEF IInv, OwnInHand
    <2> QED BY ThreadSets, <1>2, <2>2, <2>3, <2>4 DEF IInv, OwnInHand, Busy
  <1>14. StillToClose'
    <2> SUFFICES ASSUME NEW p \in history.closing, running(p)'
                 PROVE  /\ main'.at # "ended"
                        /\ entry'[name[p]] = p
                        /\ name[p] \in left' \/ (main'.app = p /\ main'.at \in Busy)
      BY <1>2 DEF StillToClose
    <2>1. p \in Proc /\ name[p] \in Name   BY DEF IInv, TypeOK, Launched
    <2>2. running(p)   BY <1>3, <2>1 DEF running, IInv, TypeOK
    <2>3. /\ main.at # "ended" /\ entry[name[p]] = p
          /\ name[p] \in left \/ (main.app = p /\ main.at \in Busy)
      BY <2>2 DEF IInv, StillToClose
    <2>4. p # worker[w].app   BY <1>1, <2>2 DEF running
    <2>5. name[p] # n   BY <1>5, <2>3, <2>4
    <2>6. entry'[name[p]] = p   BY <1>2, <2>1, <2>3, <2>5
    <2>7. CASE w = "unload"   BY <2>3, <2>6, <2>7 DEF main, Worker
    <2>8. CASE w = "main"
      <3>1. name[p] \in left /\ main.name < name[p]
        BY <1>1, <2>3, <2>4, <2>8 DEF main, IInv, InOrder, Busy
      <3>2. name[p] \in Keys   BY ThreadSets, <2>1, <2>3 DEF Keys
      <3>3. name[p] > main.name
        BY ThreadSets, <1>1, <1>6, <2>1, <2>8, <3>1
      <3> QED BY <2>6, <2>8, <3>1, <3>2, <3>3 DEF main
    <2> QED BY <2>7, <2>8 DEF Unloader
  <1>15. InOrder'   BY ThreadSets DEF IInv, InOrder, main, Busy, Unloader, Worker
  <1>16. LevelFollows' /\ EmptySeen'
    <2>1. Keys' \subseteq Keys   BY <1>2 DEF Keys
    <2>2. worker'["unload"].at = "level" => worker["unload"].at = "level"   BY DEF Unloader, Worker
    <2>3. SetsLevel' <=> SetsLevel   BY ThreadSets DEF SetsLevel
    <2> QED BY <1>2, <2>1, <2>2, <2>3 DEF IInv, LevelFollows, EmptySeen, levelled
  <1> QED BY <1>7, <1>8, <1>9, <1>10, <1>11, <1>12, <1>13, <1>14, <1>15, <1>16 DEF IInv

(* The invariant holds at the beginning,                                   *)
LEMMA IInvInit == Init => IInv
PROOF
  <1> SUFFICES ASSUME Init PROVE IInv   OBVIOUS
  <1>1. TypeOK   BY TypeInit
  <1>2. /\ \A w \in Worker : worker[w] = Idle
        /\ \A n \in Name : entry[n] = NoProc
        /\ \A p \in Proc : life[p] = "none"
        /\ left = {} /\ history.closing = {} /\ history.lowered = FALSE
    BY DEF Init
  <1>3. Idle.at = "idle" /\ Loader \subseteq Worker /\ "unload" \in Worker /\ "main" \in Worker
    BY DEF Idle, Loader, Worker
  <1>4. Places /\ LoadsTold /\ UnloadsTold /\ DeadPastWait /\ OwnInHand /\ InOrder
    BY <1>2, <1>3 DEF Places, LoadsTold, UnloadsTold, DeadPastWait, OwnInHand, InOrder, main,
       Busy, Unloader
  <1>5. Launched /\ Kept /\ StillToClose /\ LevelFollows /\ EmptySeen
    BY <1>2, <1>3 DEF Launched, Kept, StillToClose, LevelFollows, EmptySeen, Keys, running,
       Busy, Unloader
  <1> QED BY <1>1, <1>4, <1>5 DEF IInv

(* and every step preserves it.                                            *)
LEMMA IInvStep == IInv /\ [Next]_vars => IInv'
PROOF
  <1> SUFFICES ASSUME IInv, [Next]_vars PROVE IInv'   OBVIOUS
  <1>1. TypeOK /\ TypeOK'   BY TypeStep DEF IInv
  <1>2. "main" \in Worker /\ "unload" \in Worker /\ NoProc \notin Proc
    BY LayerTablesAssumption DEF Worker, NoProc, Proc
  <1>3. ASSUME UNCHANGED <<table, entry, name, life, level, left, history, worker>> PROVE IInv'
    <2>1. Places' /\ Launched' /\ LoadsTold' /\ UnloadsTold' /\ Kept' /\ DeadPastWait'
      BY <1>3 DEF IInv, Places, Launched, LoadsTold, UnloadsTold, Kept, DeadPastWait,
         Loading, Unloading, attached, running, main
    <2>2. OwnInHand' /\ StillToClose' /\ InOrder' /\ LevelFollows' /\ EmptySeen'
      BY <1>3 DEF IInv, OwnInHand, StillToClose, InOrder, LevelFollows, EmptySeen, Closing,
         running, main, levelled, Keys, SetsLevel
    <2> QED BY <1>1, <2>1, <2>2 DEF IInv
  <1>4. CASE UNCHANGED vars   BY <1>3, <1>4 DEF vars, tableVars, mainVars
  <1>5. CASE \E w \in Unloader : UnloadMissesProc(w)
    BY <1>3, <1>5 DEF UnloadMissesProc, Crashes, tableVars, mainVars
  <1>6. CASE Activates \/ Deactivates \/ Quit \/ MonitorMissesProc
    BY <1>3, <1>6 DEF Activates, Deactivates, Quit, MonitorMissesProc, Crashes, tableVars,
       mainVars
  <1>7. CASE MonitorVisits
    <2> DEFINE S == {m \in Keys : m > main.name}
    <2>1. S \subseteq Nat /\ S # {} /\ S \subseteq Keys
      BY <1>7, LayerTablesAssumption DEF MonitorVisits, Keys, Name
    <2>2. entry[Least(S)] \in Proc   BY <1>1, <2>1, LeastExists DEF Keys, TypeOK
    <2>3. /\ UNCHANGED <<table, entry, name, life, level, left, history>>
          /\ main.at \in {"idle", "next"}
      BY <1>7 DEF MonitorVisits, tableVars, mainVars
    <2>4. /\ \A w \in Worker \ {"main"} : worker'[w] = worker[w]
          /\ main'.at \in {"look", "next"} /\ main'.app = entry[Least(S)]
      BY <1>1, <1>2, <1>7 DEF MonitorVisits, TypeOK, main
    <2> QED BY <1>1, <2>2, <2>3, <2>4, MonitorKeeps
  <1>8. CASE MonitorLooks
    <2>1. main.at = "look" /\ UNCHANGED <<table, entry, name, life, level, left, history>>
      BY <1>8 DEF MonitorLooks, tableVars
    <2>2. main'.at = "next" /\ \A w \in Worker \ {"main"} : worker'[w] = worker[w]
      BY <1>1, <1>2, <1>8, ThreadGoes DEF MonitorLooks, Place, main
    <2> QED BY <1>1, <2>1, <2>2, MonitorKeeps
  <1>9. CASE MonitorNotifies
    <2>1. main.at = "next" /\ UNCHANGED <<table, entry, name, life, level, left, history>>
      BY <1>9 DEF MonitorNotifies, tableVars
    <2>2. main'.at = "idle" /\ \A w \in Worker \ {"main"} : worker'[w] = worker[w]
      BY <1>1, <1>2, <1>9, ThreadLeaves DEF MonitorNotifies, main
    <2> QED BY <1>1, <2>1, <2>2, MonitorKeeps
  <1>10. CASE UnloadErases
    <2>1. /\ "unload" \in Unloader /\ Erases("unload") /\ left' = left
          /\ worker'["unload"].at = "count" /\ \A v \in Worker \ {"unload"} : worker'[v] = worker[v]
      BY <1>1, <1>2, <1>10, ThreadDone DEF UnloadErases, Place, Unloader
    <2> QED BY <1>1, <2>1, ErasesKeeps
  <1>11. CASE CloseErases
    <2>1. /\ "main" \in Unloader /\ Erases("main")
          /\ left' = left \/ left' = {n \in Keys : n > main.name}
          /\ worker'["main"].at = "close" /\ \A v \in Worker \ {"main"} : worker'[v] = worker[v]
      BY <1>1, <1>2, <1>11, ThreadDone DEF CloseErases, Place, Unloader
    <2> QED BY <1>1, <2>1, ErasesKeeps
  <1> QED
    BY <1>1, <1>4, <1>5, <1>6, <1>7, <1>8, <1>9, <1>10, <1>11, Steps, LoadFindsKeeps,
       LoadRefusedKeeps,
       LoadEmplacesKeeps, LoadSetsLevelKeeps, UnloadFindsKeeps, UnloadAsksKeeps,
       UnloadSeesEndKeeps, UnloadKillsKeeps,
       UnloadResetsKeeps, UnloadCountsKeeps, UnloadSetsLevelKeeps, ProcessKeeps,
       CloseBeginsKeeps, CloseUnloadsKeeps, CloseEndsKeeps, OtherCommandsKeeps

-----------------------------------------------------------------------------
(* What the maps, the processes and the command threads hold has its type. *)
THEOREM TypeCorrect == Spec => []TypeOK
PROOF
  <1>1. Spec => []IInv   BY IInvInit, IInvStep, PTL DEF Spec
  <1>2. IInv => TypeOK   BY DEF IInv
  <1> QED BY <1>1, <1>2, PTL

(* A process that runs is in the map or in the hands of a command, unless  *)
(* its child is detached and two commands raced on its name: two loads,    *)
(* or the close and an unload (estimation_layer.cpp,                       *)
(* hardware_layer.cpp.in, supervisor.cpp).                                 *)
THEOREM OnlyRacesLose == Spec => []OnlyRacesLoseProcesses
PROOF
  <1>1. Spec => []IInv   BY IInvInit, IInvStep, PTL DEF Spec
  <1>2. IInv => OnlyRacesLoseProcesses
    BY ThreadSets DEF IInv, Launched, Kept, OnlyRacesLoseProcesses, Lost, InHand, Holds, Busy, running
  <1> QED BY <1>1, <1>2, PTL

(* An unload past its wait holds a dead process, and a layer that has      *)
(* closed leaves none of the processes it began to close with (the kill    *)
(* at the end of unloadEstimator and unloadHardware, and the loops of      *)
(* close()).                                                               *)
THEOREM UnloadedGone == Spec => []UnloadedIsGone
PROOF
  <1>1. Spec => []IInv   BY IInvInit, IInvStep, PTL DEF Spec
  <1>2. IInv => UnloadedIsGone
    <2> SUFFICES ASSUME IInv PROVE UnloadedIsGone   OBVIOUS
    <2>1. \A w \in Worker : worker[w].at \in {"reset", "erase"} => w \in Unloader
      BY DEF IInv, Places, Worker, Unloader
    <2> QED BY <2>1 DEF IInv, DeadPastWait, StillToClose, UnloadedIsGone
  <1> QED BY <1>1, <1>2, PTL

(* An unload takes the level to 0, which makes what is loaded impossible   *)
(* to unload, only when its map is empty, and it stays empty while the     *)
(* level is its doing and no command is at work, unless a load set the     *)
(* level before it (the levels of the load and unload commands, and the    *)
(* size of the map that the latter return).                                *)
THEOREM LoweredWhenEmpty == Spec => []LoweredOnlyWhenEmpty
PROOF
  <1>1. Spec => []IInv   BY IInvInit, IInvStep, PTL DEF Spec
  <1>2. IInv => LoweredOnlyWhenEmpty
    BY DEF IInv, LevelFollows, LoweredOnlyWhenEmpty, SetsLevel, Loader, Worker
  <1> QED BY <1>1, <1>2, PTL

-----------------------------------------------------------------------------
(* What a layer crashes of, and what it reports.                           *)

(* An AppData that lost its proc is of a dead process, and so is what the  *)
(* monitor has found dead.                                                 *)
NullIsDead == \A p \in proc_null \cup stopped \cup reported : p \in Proc /\ life[p] = "dead"

(* It is in the map only until the unload that reset it erases it.         *)
NullIsHeld ==
  \A n \in Name : entry[n] \in proc_null =>
    \E v \in Unloader : worker[v].at = "erase" /\ worker[v].name = n

(* An unload that is about to use it met another one on its name.          *)
NullIsRaced ==
  \A w \in Unloader : worker[w].at \in {"ask", "wait"} /\ worker[w].app \in proc_null =>
    worker[w].name \in history.twoUnloads

(* What the monitor looks at was launched, and is dead once an unload has  *)
(* been at it.                                                             *)
LookedAt ==
  main.at = "look" =>
    /\ main.name \in Name /\ life[main.app] # "none"
    /\ main.app \in proc_null \/ entry[main.name] # main.app => life[main.app] = "dead"

Crashing == NullIsDead /\ NullIsHeld /\ NullIsRaced /\ LookedAt

(* Whoever is told that a process died is told the truth, whatever was     *)
(* loaded and unloaded between the look at it and the notification         *)
(* (estimation_layer.cpp, hardware_layer.cpp.in, supervisor.cpp: monitor). *)
OnlyTheDeadAreReported == \A p \in reported : life[p] = "dead"

CrashIsARace ==
  ~crashed /\ crashed' =>
    \/ closesInPlace /\ main.at = "erase"
    \/ main.at = "look" /\ life[main.app] = "dead"
    \/ \E w \in Unloader : worker[w].at = "wait" /\ worker[w].name \in history.twoUnloads

(* A layer uses what is not there only when two unloads, or the close and  *)
(* an unload, have met on a name, when its monitor looks at what an unload *)
(* has just ended, or in a close that erases from the map it walks: a      *)
(* command that meets no other never does (the mutexes that are not taken  *)
(* would exclude the first two).                                           *)
OnlyRacesCrash == [][CrashIsARace]_vars

(* The steps that are not about it: nobody takes up, resets, erases or     *)
(* looks at anything.                                                      *)
Aside ==
  /\ UNCHANGED <<entry, proc_null, stopped, reported>>
  /\ history.twoUnloads \subseteq history'.twoUnloads
  /\ \A p \in Proc : life'[p] = life[p] \/ (life[p] # "dead" /\ life'[p] \in {"up", "asked", "dead"})
  /\ \A w \in Unloader :
       \/ worker'[w] = worker[w]
       \/ worker[w].at = "ask" /\ worker'[w] = [worker[w] EXCEPT !.at = "wait"]
       \/ worker[w].at \notin {"erase", "look"} /\ worker'[w].at \notin {"ask", "wait", "look"}

LEMMA LoadsAside ==
  ASSUME TypeOK, NEW w \in Loader,
         (\E n \in Name : LoadFinds(w, n)) \/ LoadRefused(w) \/ LoadSetsLevel(w)
  PROVE  Aside
PROOF
  <1>1. /\ UNCHANGED <<entry, proc_null, stopped, reported, life>>
        /\ \A v \in Worker \ {w} : worker'[v] = worker[v]
    BY ThreadSets DEF TypeOK, LoadFinds, LoadRefused, LoadSetsLevel, Leaves, tableVars, mainVars
  <1>2. history.twoUnloads \subseteq history'.twoUnloads
    BY DEF TypeOK, LoadFinds, LoadRefused, LoadSetsLevel
  <1>3. Unloader \subseteq Worker \ {w}
    BY ThreadSets
  <1>. QED
    BY <1>1, <1>2, <1>3 DEF Aside

LEMMA UnloadsAside ==
  ASSUME TypeOK, NEW w \in Unloader,
         UnloadAsks(w) \/ UnloadMissesProc(w) \/ UnloadSeesEnd(w) \/ UnloadKills(w)
  PROVE  Aside
PROOF
  <1>1. UNCHANGED <<entry, proc_null, stopped, reported, history>>
    BY DEF UnloadAsks, UnloadMissesProc, UnloadSeesEnd, UnloadKills, Crashes, tableVars, mainVars
  <1>2. \A p \in Proc : life'[p] = life[p] \/ (life[p] # "dead" /\ life'[p] \in {"up", "asked", "dead"})
    <2>1. CASE UnloadAsks(w)   BY <2>1, AskedLives
    <2>2. CASE UnloadMissesProc(w) \/ UnloadSeesEnd(w) \/ UnloadKills(w)
      BY <2>2 DEF TypeOK, UnloadMissesProc, UnloadSeesEnd, UnloadKills, Crashes, tableVars, running
    <2> QED BY <2>1, <2>2
  <1>3. \A v \in Worker \ {w} : worker'[v] = worker[v]
    BY ThreadSets DEF TypeOK, UnloadAsks, UnloadMissesProc, UnloadSeesEnd, UnloadKills, Crashes,
           Goes
  <1>4. \/ worker'[w] = worker[w]
        \/ worker[w].at = "ask" /\ worker'[w] = [worker[w] EXCEPT !.at = "wait"]
        \/ worker[w].at \notin {"erase", "look"} /\ worker'[w].at \notin {"ask", "wait", "look"}
    BY ThreadSets DEF TypeOK, UnloadAsks, UnloadMissesProc, UnloadSeesEnd, UnloadKills, Crashes,
           Goes
  <1>. QED
    BY <1>1, <1>2, <1>3, <1>4, ThreadSets DEF Aside

LEMMA OthersAside ==
  ASSUME TypeOK, Places,
         UnloadCounts \/ UnloadSetsLevel \/ OtherCommands \/ Activates \/ Deactivates \/ Quit \/ Process
           \/ MonitorMissesProc \/ CloseBegins \/ CloseEnds \/ UNCHANGED vars
  PROVE  Aside
PROOF
  <1>1. UNCHANGED <<entry, proc_null, stopped, reported>>
    BY DEF UnloadCounts, UnloadSetsLevel, OtherCommands, Activates, Deactivates, Quit, Process, MonitorMissesProc, Crashes,
           CloseBegins, CloseEnds, tableVars, mainVars, vars
  <1>2. history.twoUnloads \subseteq history'.twoUnloads
    BY DEF TypeOK, UnloadCounts, UnloadSetsLevel, OtherCommands, Activates, Deactivates, Quit, Process, MonitorMissesProc,
           Crashes, CloseBegins, CloseEnds, vars
  <1>3. \A p \in Proc : life'[p] = life[p] \/ (life[p] # "dead" /\ life'[p] \in {"up", "asked", "dead"})
    BY DEF TypeOK, UnloadCounts, UnloadSetsLevel, OtherCommands, Activates, Deactivates, Quit, Process, Registers,
           EndsAsAsked, Dies, running, MonitorMissesProc, Crashes, CloseBegins, CloseEnds,
           tableVars, vars
  <1>4. ASSUME NEW w \in Unloader
        PROVE  \/ worker'[w] = worker[w]
               \/ /\ worker[w].at \notin {"erase", "look"}
                  /\ worker'[w].at \notin {"ask", "wait", "look"}
    <2>1. CASE UnloadCounts \/ UnloadSetsLevel
      BY <2>1, ThreadSets DEF TypeOK, UnloadCounts, UnloadSetsLevel, Goes, Leaves, Idle, Unloader
    <2>2. CASE CloseBegins \/ CloseEnds
      BY <2>2, ThreadSets DEF TypeOK, CloseBegins, CloseEnds, Goes, main, Unloader
    <2>3. CASE OtherCommands \/ Activates \/ Deactivates \/ Quit \/ Process \/ MonitorMissesProc \/ UNCHANGED vars
      BY <2>3 DEF OtherCommands, Activates, Deactivates, Quit, Process, MonitorMissesProc, Crashes, vars
    <2>. QED
      BY <2>1, <2>2, <2>3
  <1>. QED
    BY <1>1, <1>2, <1>3, <1>4 DEF Aside

LEMMA AsideKeeps ==
  ASSUME TypeOK, Places, Crashing, Aside
  PROVE  Crashing'
PROOF
  <1>1. NullIsDead'
    BY DEF Crashing, NullIsDead, Aside
  <1>2. NullIsHeld'
    <2>1. ASSUME NEW v \in Unloader, worker[v].at = "erase"
          PROVE  worker'[v] = worker[v]
      BY <2>1 DEF Aside
    <2>2. entry' = entry /\ proc_null' = proc_null
      BY DEF Aside
    <2>. QED
      BY <2>1, <2>2 DEF Crashing, NullIsHeld
  <1>3. NullIsRaced'
    <2>. SUFFICES ASSUME NEW w \in Unloader, worker'[w].at \in {"ask", "wait"},
                         worker'[w].app \in proc_null'
                  PROVE  worker'[w].name \in history'.twoUnloads
      BY DEF NullIsRaced
    <2>1. \/ worker'[w] = worker[w]
          \/ worker[w].at = "ask" /\ worker'[w] = [worker[w] EXCEPT !.at = "wait"]
      BY DEF Aside
    <2>2. worker[w].at \in {"ask", "wait"} /\ worker'[w].name = worker[w].name
          /\ worker'[w].app = worker[w].app
      BY <2>1, ThreadSets DEF TypeOK
    <2>. QED
      BY <2>2 DEF Crashing, NullIsRaced, Aside
  <1>4. LookedAt'
    <2>. SUFFICES ASSUME main'.at = "look"
                  PROVE  /\ main'.name \in Name /\ life'[main'.app] # "none"
                         /\ main'.app \in proc_null' \/ entry'[main'.name] # main'.app
                              => life'[main'.app] = "dead"
      BY DEF LookedAt
    <2>1. worker'["main"] = worker["main"]
      BY ThreadSets DEF Aside, main, Unloader, TypeOK
    <2>2. main.at = "look" /\ main.app \in Proc /\ main' = main
      BY <2>1 DEF main, Places
    <2>. QED
      BY <2>2 DEF Crashing, LookedAt, Aside
  <1>. QED
    BY <1>1, <1>2, <1>3, <1>4 DEF Crashing

(* A process is launched: it is none of those that are dead.               *)
LEMMA EmplaceCrashing ==
  ASSUME TypeOK, Places, Crashing, NEW w \in Loader, LoadEmplaces(w)
  PROVE  Crashing'
PROOF
  <1>1. /\ worker[w].name \in Name /\ UNCHANGED <<proc_null, stopped, reported, history>>
        /\ \A v \in Unloader : worker'[v] = worker[v]
    BY ThreadSets DEF TypeOK, Places, LoadEmplaces, Goes, mainVars
  <1>2. PICK p \in Proc :
          /\ life[p] = "none"
          /\ IF entry[worker[w].name] = NoProc
             THEN /\ entry' = [entry EXCEPT ![worker[w].name] = p]
                  /\ life' = [life EXCEPT ![p] = "starting"]
             ELSE /\ life' = LifeWithout({p}, [life EXCEPT ![p] = "starting"])
                  /\ UNCHANGED entry
    BY DEF LoadEmplaces
  <1>3. /\ \A q \in Proc \ {p} : life'[q] = life[q]
        /\ life'[p] # "none"
    <2>. DEFINE l == [life EXCEPT ![p] = "starting"]
    <2>1. /\ l \in [Proc -> {"none", "starting", "up", "asked", "dead"}] /\ l[p] = "starting"
          /\ \A q \in Proc \ {p} : l[q] = life[q]
      BY DEF TypeOK
    <2>2. life' = l \/ life' = LifeWithout({p}, l)
      BY <1>2
    <2>. HIDE DEF l
    <2>3. /\ LifeWithout({p}, l)[p] # "none"
          /\ \A q \in Proc \ {p} : LifeWithout({p}, l)[q] = life[q]
      BY <2>1, LifeAfterLoss
    <2>. QED
      BY <2>1, <2>2, <2>3
  <1>4. p \notin proc_null /\ p # NoProc
    BY <1>2, ThreadSets DEF Crashing, NullIsDead
  <1>5. \A n \in Name : entry'[n] = entry[n] \/ (entry[n] = NoProc /\ entry'[n] = p)
    BY <1>1, <1>2 DEF TypeOK
  <1>6. NullIsDead'
    BY <1>1, <1>2, <1>3 DEF Crashing, NullIsDead
  <1>7. NullIsHeld'
    BY <1>1, <1>4, <1>5 DEF Crashing, NullIsHeld
  <1>8. NullIsRaced'
    BY <1>1 DEF Crashing, NullIsRaced
  <1>9. LookedAt'
    <2>1. main' = main
      BY <1>1 DEF main, Unloader
    <2>. SUFFICES ASSUME main.at = "look"
                  PROVE  LookedAt'
      BY <2>1 DEF LookedAt
    <2>2. main.app \in Proc /\ main.name \in Name /\ life[main.app] # "none"
      BY DEF Places, Crashing, LookedAt
    <2>3. life'[main.app] = life[main.app]
      BY <1>2, <1>3, <2>2
    <2>4. entry'[main.name] # main.app => entry[main.name] # main.app
      BY <1>5, <2>2, ThreadSets
    <2>. QED
      BY <1>1, <2>1, <2>2, <2>3, <2>4 DEF Crashing, LookedAt
  <1>. QED
    BY <1>6, <1>7, <1>8, <1>9 DEF Crashing

(* An unload takes up a name: what another one has reset is on record.     *)
LEMMA FindCrashing ==
  ASSUME TypeOK, Places, Crashing, NEW w \in Unloader, NEW n \in Name,
         worker[w].at \in {"idle", "close"}, UnloadFinds(w, n), UNCHANGED <<stopped, reported>>
  PROVE  Crashing'
PROOF
  <1>1. /\ UNCHANGED <<entry, life, proc_null, stopped, reported>>
        /\ worker'[w] = [at |-> "ask", name |-> n, app |-> entry[n]]
        /\ \A v \in Worker \ {w} : worker'[v] = worker[v]
        /\ history.twoUnloads \subseteq history'.twoUnloads
    BY ThreadSets DEF TypeOK, UnloadFinds, tableVars
  <1>2. (\E v \in Worker \ {w} : Unloading(v, n)) => n \in history'.twoUnloads
    BY DEF TypeOK, UnloadFinds
  <1>3. NullIsDead'
    BY <1>1 DEF Crashing, NullIsDead
  <1>4. NullIsHeld'
    BY <1>1, ThreadSets DEF Crashing, NullIsHeld
  <1>5. NullIsRaced'
    <2>1. entry[n] \in proc_null => n \in history'.twoUnloads
      BY <1>2, ThreadSets DEF Crashing, NullIsHeld, Unloading
    <2>. QED
      BY <1>1, <2>1, ThreadSets DEF Crashing, NullIsRaced
  <1>6. LookedAt'
    BY <1>1, ThreadSets DEF Crashing, LookedAt, main
  <1>. QED
    BY <1>3, <1>4, <1>5, <1>6 DEF Crashing

(* An AppData loses its proc: two unloads that have it in hand are on      *)
(* record.                                                                 *)
LEMMA ResetCrashing ==
  ASSUME IInv, Crashing, NEW w \in Unloader, UnloadResets(w)
  PROVE  Crashing'
PROOF
  <1>. USE DEF IInv
  <1>1. /\ worker[w].at = "reset" /\ worker[w].app \in Proc /\ worker[w].name \in Name
        /\ life[worker[w].app] = "dead" /\ name[worker[w].app] = worker[w].name
    BY DEF UnloadResets, Places, Busy, DeadPastWait, Launched
  <1>2. /\ UNCHANGED <<entry, life, stopped, reported, history>>
        /\ worker'[w] = [worker[w] EXCEPT !.at = "erase"]
        /\ \A v \in Worker \ {w} : worker'[v] = worker[v]
        /\ proc_null \subseteq proc_null' /\ proc_null' \subseteq proc_null \cup {worker[w].app}
    BY ThreadSets DEF TypeOK, UnloadResets, Goes, mainVars
  <1>3. worker'[w].at = "erase" /\ worker'[w].name = worker[w].name /\ worker'[w].app = worker[w].app
    BY <1>2, ThreadSets DEF TypeOK
  <1>4. NullIsDead'
    BY <1>1, <1>2 DEF Crashing, NullIsDead
  <1>5. NullIsHeld'
    <2>. SUFFICES ASSUME NEW n \in Name, entry[n] \in proc_null \cup {worker[w].app}
                  PROVE  \E v \in Unloader : worker'[v].at = "erase" /\ worker'[v].name = n
      BY <1>2 DEF NullIsHeld
    <2>1. CASE entry[n] \in proc_null
      BY <1>1, <1>2, <2>1, ThreadSets DEF Crashing, NullIsHeld
    <2>2. CASE entry[n] = worker[w].app
      BY <1>1, <1>3, <2>2, ThreadSets DEF Launched
    <2>. QED
      BY <2>1, <2>2
  <1>6. NullIsRaced'
    <2>. SUFFICES ASSUME NEW v \in Unloader, worker'[v].at \in {"ask", "wait"},
                         worker'[v].app \in proc_null \cup {worker[w].app}
                  PROVE  worker'[v].name \in history.twoUnloads
      BY <1>2 DEF NullIsRaced
    <2>1. v # w /\ worker'[v] = worker[v]
      BY <1>2, <1>3, ThreadSets
    <2>2. CASE worker[v].app \in proc_null
      BY <2>1, <2>2 DEF Crashing, NullIsRaced
    <2>3. CASE worker[v].app = worker[w].app
      <3>1. worker[v].name = worker[w].name
        BY <1>1, <2>1, <2>3 DEF Launched, Busy
      <3>2. Unloading(w, worker[v].name) /\ worker[v].at \in Busy
        BY <1>1, <2>1, <3>1 DEF Unloading, Busy
      <3>. QED
        BY <2>1, <3>2 DEF UnloadsTold
    <2>. QED
      BY <2>1, <2>2, <2>3
  <1>7. LookedAt'
    <2>1. main'.at = "look" => main' = main
      BY <1>2, <1>3, ThreadSets DEF main
    <2>. QED
      BY <1>1, <1>2, <2>1 DEF Crashing, LookedAt
  <1>. QED
    BY <1>4, <1>5, <1>6, <1>7 DEF Crashing

(* An entry is erased: if the monitor looks at it, it is the one that the  *)
(* command has in hand.                                                    *)
LEMMA EraseCrashing ==
  ASSUME IInv, Crashing, NEW w \in Unloader, Erases(w), NEW at \in {"count", "close"},
         worker' = [worker EXCEPT ![w].at = at, ![w].app = NoProc]
  PROVE  Crashing'
PROOF
  <1>. USE DEF IInv
  <1>1. /\ worker[w].at = "erase" /\ worker[w].app \in Proc /\ worker[w].name \in Name
        /\ life[worker[w].app] = "dead"
    BY DEF Erases, Places, Busy, DeadPastWait
  <1>2. /\ UNCHANGED <<proc_null, stopped, reported, history>>
        /\ entry' = [entry EXCEPT ![worker[w].name] = NoProc]
        /\ \A p \in Proc : /\ life[p] = "dead" => life'[p] = "dead"
                           /\ life[p] = "none" <=> life'[p] = "none"
    BY LifeAfterLoss DEF TypeOK, Erases
  <1>3. /\ worker'[w].at = at
        /\ \A v \in Worker \ {w} : worker'[v] = worker[v]
    BY ThreadDone, ThreadSets DEF Place
  <1>4. NullIsDead'
    BY <1>2 DEF Crashing, NullIsDead
  <1>5. NullIsHeld'
    <2>. SUFFICES ASSUME NEW n \in Name, entry'[n] \in proc_null
                  PROVE  \E v \in Unloader : worker'[v].at = "erase" /\ worker'[v].name = n
      BY <1>2 DEF NullIsHeld
    <2>1. n # worker[w].name /\ entry'[n] = entry[n]
      BY <1>1, <1>2, ThreadSets DEF TypeOK
    <2>2. PICK v \in Unloader : worker[v].at = "erase" /\ worker[v].name = n
      BY <2>1 DEF Crashing, NullIsHeld
    <2>. QED
      BY <1>3, <2>1, <2>2, ThreadSets
  <1>6. NullIsRaced'
    <2>1. ASSUME NEW v \in Unloader, worker'[v].at \in {"ask", "wait"},
                 worker'[v].app \in proc_null
          PROVE  worker'[v].name \in history.twoUnloads
      <3>1. v # w
        BY <1>3, <2>1
      <3>2. worker'[v] = worker[v]
        BY <1>3, <3>1, ThreadSets
      <3>3. worker[v].at \in {"ask", "wait"} /\ worker[v].app \in proc_null
        BY <2>1, <3>2
      <3>4. worker[v].name \in history.twoUnloads
        BY <3>3 DEF Crashing, NullIsRaced
      <3>. QED
        BY <3>2, <3>4
    <2>. QED
      BY <1>2, <2>1 DEF NullIsRaced
  <1>7. LookedAt'
    <2>. SUFFICES ASSUME main'.at = "look"
                  PROVE  /\ main'.name \in Name /\ life'[main'.app] # "none"
                         /\ main'.app \in proc_null' \/ entry'[main'.name] # main'.app
                              => life'[main'.app] = "dead"
      BY DEF LookedAt
    <2>1. w = "unload" /\ main' = main
      BY <1>3, ThreadSets DEF main, Unloader
    <2>2. main.at = "look" /\ main.app \in Proc /\ ~Closing
      BY <2>1 DEF Places, Closing, Busy
    <2>3. entry[worker[w].name] = worker[w].app
      BY <1>1, <2>1, <2>2 DEF OwnInHand, Busy
    <2>4. main.name \in Name
      BY <2>2 DEF Crashing, LookedAt
    <2>5. main.name # worker[w].name => entry'[main.name] = entry[main.name]
      BY <1>1, <1>2, <2>4 DEF TypeOK
    <2>6. entry[main.name] = main.app /\ main.name = worker[w].name => life[main.app] = "dead"
      BY <1>1, <2>3
    <2>. QED
      BY <1>2, <2>1, <2>2, <2>5, <2>6 DEF Crashing, LookedAt
  <1>. QED
    BY <1>4, <1>5, <1>6, <1>7 DEF Crashing

LEMMA MonitorCrashing ==
  ASSUME IInv, Crashing, MonitorVisits \/ MonitorLooks \/ MonitorNotifies
  PROVE  Crashing'
PROOF
  <1>. USE DEF IInv
  <1>1. /\ UNCHANGED <<entry, life, proc_null, history>>
        /\ \A v \in Worker \ {"main"} : worker'[v] = worker[v]
        /\ main.at \in {"idle", "look", "next"}
    BY ThreadSets DEF TypeOK, MonitorVisits, MonitorLooks, MonitorNotifies, Goes, Leaves,
       tableVars
  <1>2. main'.at \in {"idle", "look", "next"} /\ main' = worker'["main"]
    BY ThreadSets DEF TypeOK, MonitorVisits, MonitorLooks, MonitorNotifies, Goes, Leaves, Idle,
       main
  <1>3. NullIsDead'
    <2>1. CASE MonitorVisits
      BY <1>1, <2>1 DEF MonitorVisits, mainVars, Crashing, NullIsDead
    <2>2. CASE MonitorLooks
      <3>1. main.app \in Proc /\ life[main.app] # "none"
        BY <2>2 DEF MonitorLooks, Places, Crashing, LookedAt
      <3>2. ~running(main.app) => life[main.app] = "dead"
        BY <3>1 DEF TypeOK, running
      <3>. QED
        BY <1>1, <2>2, <3>1, <3>2 DEF MonitorLooks, Crashing, NullIsDead
    <2>3. CASE MonitorNotifies
      BY <1>1, <2>3 DEF MonitorNotifies, Crashing, NullIsDead
    <2>. QED
      BY <2>1, <2>2, <2>3
  <1>4. NullIsHeld'
    <2>1. \A v \in Unloader : worker[v].at = "erase" => worker'[v] = worker[v]
      BY <1>1, ThreadSets DEF main
    <2>. QED
      BY <1>1, <2>1 DEF Crashing, NullIsHeld
  <1>5. NullIsRaced'
    <2>1. \A v \in Unloader : worker'[v].at \in {"ask", "wait"} => worker'[v] = worker[v]
      BY <1>1, <1>2, ThreadSets
    <2>. QED
      BY <1>1, <2>1 DEF Crashing, NullIsRaced
  <1>6. LookedAt'
    <2>1. CASE MonitorVisits
      <3>. DEFINE S == {m \in Keys : m > main.name}
      <3>1. S \subseteq Nat /\ S # {} /\ S \subseteq Keys
        BY <2>1, LayerTablesAssumption DEF MonitorVisits, Keys, Name
      <3>2. Least(S) \in Keys
        BY <3>1, LeastExists
      <3>3. entry[Least(S)] # NoProc /\ Least(S) \in Name /\ life[entry[Least(S)]] # "none"
        BY <3>2 DEF Keys, Launched
      <3>4. main' = [at |-> IF entry[Least(S)] \in proc_null THEN "next" ELSE "look",
                     name |-> Least(S), app |-> entry[Least(S)]]
        BY <1>2, <2>1, ThreadSets DEF MonitorVisits, TypeOK
      <3>. HIDE DEF S
      <3>5. main'.at = "look" => /\ main'.app = entry[main'.name] /\ main'.app \notin proc_null
                                 /\ life[main'.app] # "none" /\ main'.name \in Name
        BY <3>3, <3>4
      <3>. QED
        BY <1>1, <3>5 DEF LookedAt
    <2>2. CASE MonitorLooks \/ MonitorNotifies
      <3>1. main'.at # "look"
        BY <1>2, <2>2, ThreadSets DEF MonitorLooks, MonitorNotifies, Goes, Leaves, Idle, TypeOK
      <3>. QED
        BY <3>1 DEF LookedAt
    <2>. QED
      BY <2>1, <2>2
  <1>. QED
    BY <1>3, <1>4, <1>5, <1>6 DEF Crashing

LEMMA CrashingStep == IInv /\ Crashing /\ [Next]_vars => Crashing'
PROOF
  <1>. SUFFICES ASSUME IInv, Crashing, [Next]_vars
                PROVE  Crashing'
    OBVIOUS
  <1>1. TypeOK /\ Places
    BY DEF IInv
  <1>2. CASE UNCHANGED vars
    BY <1>1, <1>2, OthersAside, AsideKeeps
  <1>3. ASSUME NEW w \in Loader,
               \/ \E n \in Name : LoadFinds(w, n)
               \/ LoadRefused(w) \/ LoadEmplaces(w) \/ LoadSetsLevel(w)
        PROVE  Crashing'
    BY <1>1, <1>3, LoadsAside, AsideKeeps, EmplaceCrashing
  <1>4. ASSUME NEW n \in Name, worker["unload"].at = "idle", UnloadFinds("unload", n),
               UNCHANGED mainVars
        PROVE  Crashing'
    BY <1>1, <1>4, FindCrashing DEF mainVars, Unloader
  <1>5. ASSUME NEW w \in Unloader,
               \/ UnloadAsks(w) \/ UnloadMissesProc(w) \/ UnloadSeesEnd(w)
               \/ UnloadKills(w) \/ UnloadResets(w)
        PROVE  Crashing'
    BY <1>1, <1>5, UnloadsAside, AsideKeeps, ResetCrashing
  <1>6. CASE UnloadErases
    BY <1>6, EraseCrashing DEF UnloadErases, Unloader
  <1>7. CASE CloseErases
    BY <1>7, EraseCrashing DEF CloseErases, Unloader
  <1>8. CASE CloseUnloads
    <2>1. /\ left \subseteq Nat /\ left # {} /\ left \subseteq Name
          /\ worker["main"].at = "close" /\ UNCHANGED <<stopped, reported>>
      BY <1>1, <1>8, LayerTablesAssumption DEF CloseUnloads, Name, TypeOK, main
    <2>2. Least(left) \in Name
      BY <2>1, LeastExists
    <2>3. CASE UnloadFinds("main", Least(left))
      BY <1>1, <2>1, <2>2, <2>3, FindCrashing DEF Unloader
    <2>4. CASE UNCHANGED <<tableVars, worker, history>>
      <3>1. Aside
        BY <2>1, <2>4 DEF Aside, tableVars
      <3>. QED
        BY <1>1, <3>1, AsideKeeps
    <2>. QED
      BY <1>8, <2>3, <2>4 DEF CloseUnloads
  <1>9. CASE MonitorVisits \/ MonitorLooks \/ MonitorNotifies
    BY <1>9, MonitorCrashing
  <1>10. CASE UnloadCounts \/ UnloadSetsLevel \/ OtherCommands \/ Activates \/ Deactivates \/ Quit \/ Process
              \/ MonitorMissesProc \/ CloseBegins \/ CloseEnds
    BY <1>1, <1>10, OthersAside, AsideKeeps
  <1>. QED
    BY <1>1, <1>2, <1>3, <1>4, <1>5, <1>6, <1>7, <1>8, <1>9, <1>10, Steps

LEMMA Crashed == Spec => [](IInv /\ Crashing)
PROOF
  <1>1. Init => Crashing
    BY ThreadSets DEF Init, Crashing, NullIsDead, NullIsHeld, NullIsRaced, LookedAt, main, Idle,
       Unloader
  <1>. QED
    BY <1>1, IInvInit, IInvStep, CrashingStep, PTL DEF Spec

THEOREM DeathIsTrue == Spec => []OnlyTheDeadAreReported
PROOF
  <1>1. Crashing => OnlyTheDeadAreReported
    BY DEF Crashing, NullIsDead, OnlyTheDeadAreReported
  <1>. QED
    BY <1>1, Crashed, PTL

THEOREM CrashesAreRaces == Spec => OnlyRacesCrash
PROOF
  <1>1. IInv /\ Crashing /\ [Next]_vars => [CrashIsARace]_vars
    <2>. SUFFICES ASSUME IInv, Crashing, Next, ~crashed, crashed'
                  PROVE  CrashIsARace
      BY DEF CrashIsARace
    <2>1. \/ \E w \in Unloader : UnloadMissesProc(w)
          \/ MonitorMissesProc \/ CloseErases
      BY Steps DEF IInv, LoadFinds, LoadRefused, LoadEmplaces, LoadSetsLevel, UnloadFinds,
         UnloadAsks, UnloadSeesEnd, UnloadKills, UnloadResets, UnloadErases, UnloadCounts,
         UnloadSetsLevel, OtherCommands, Activates, Deactivates, Quit, Process, MonitorVisits, MonitorLooks,
         MonitorNotifies, CloseBegins, CloseUnloads, CloseEnds
    <2>2. CASE \E w \in Unloader : UnloadMissesProc(w)
      BY <2>2 DEF UnloadMissesProc, Crashing, NullIsRaced, CrashIsARace
    <2>3. CASE MonitorMissesProc
      BY <2>3 DEF MonitorMissesProc, Crashing, LookedAt, CrashIsARace
    <2>4. CASE CloseErases
      BY <2>4 DEF CloseErases, Erases, main, CrashIsARace
    <2>. QED
      BY <2>1, <2>2, <2>3, <2>4
  <1>. QED
    BY <1>1, Crashed, PTL DEF Spec, OnlyRacesCrash
=============================================================================
