------------------------- MODULE ControlLayerProofs -------------------------
(***************************************************************************)
(* Proofs about ControlLayer for every set of names, every set of them     *)
(* that Python controllers use, any number of process identifiers and of   *)
(* calls: type correctness, and that no process is forgotten, left behind  *)
(* by close(), or started twice; and about the orientations a controller   *)
(* computes with (Rotations): their representations agree after every      *)
(* sequence of turns.                                                      *)
(***************************************************************************)
EXTENDS ControlLayer, Rotations, TLAPS

-----------------------------------------------------------------------------
(* The inductive invariant, one named part per reason.                     *)

Loading(c) == op[c].at \in {"launch", "insert"}

(* The operations mutex: one holder per kind.                              *)
Exclusive ==
  \A c, d \in Command : Holds(c) /\ Holds(d) /\ KindOf(c) = KindOf(d) => c = d

(* A process in the hands of a call is the one that call is about.         *)
InHand ==
  \A c \in Command :
    /\ Loading(c) => c \in Load
    /\ Loading(c) /\ c = "loadPythonController" => op[c].id \in PythonID
    /\ op[c].at = "insert" /\ op[c].proc # NoProcess =>
         op[c].proc.kind = KindOf(c) /\ op[c].proc.id = op[c].id
    /\ op[c].at = "stop" => c \in Unload /\ op[c].proc.kind = KindOf(c)

(* The process of an entry has the entry's name.                           *)
EntryFits ==
  \A e \in loaded : e.proc # NoProcess => e.proc.kind = e.kind /\ e.proc.id = e.id

(* What a call holding the mutex is about to add is not there yet.         *)
Fresh ==
  \A c \in LockedLoad : Loading(c) =>
    \A e \in loaded : e.kind = KindOf(c) /\ e.id = op[c].id => MayBePython(e)

(* Once close() has taken the mutexes only Python controllers come in.     *)
Closing ==
  /\ closer # "open" => closing_
  /\ toStop # {} => closer = "stopping"
  /\ closer \in {"stopping", "closed"} =>
       /\ \A c \in Command : Loading(c) => c = "loadPythonController"
       /\ \A e \in loaded : MayBePython(e)
       /\ \A c \in Command : op[c].at = "stop" => MayBePython(op[c].proc)

-----------------------------------------------------------------------------
(* The places of a call.                                                   *)

(* What the fields of a call in progress hold.                             *)
LEMMA OpFields ==
  ASSUME NEW o \in Op
  PROVE  /\ o.at \in {"out", "launch", "insert", "stop", "test", "level", "change"}
         /\ o.at \in {"launch", "insert"} => o.id \in ID
         /\ o.at = "insert" => o.proc \in Process \cup {NoProcess}
         /\ o.at = "stop" => o.proc \in Process
         /\ o.at = "change" => o.next \in 0..3
PROOF
  BY DEF Op, Idle

(* What a place may be made of.                                            *)
LEMMA OpMade ==
  /\ Idle \in Op
  /\ [at |-> "test"] \in Op /\ [at |-> "level"] \in Op
  /\ \A id \in ID : [at |-> "launch", id |-> id] \in Op
  /\ \A id \in ID, p \in Process \cup {NoProcess} :
       [at |-> "insert", id |-> id, proc |-> p] \in Op
  /\ \A p \in Process : [at |-> "stop", proc |-> p] \in Op
  /\ \A l \in 0..3 : [at |-> "change", next |-> l] \in Op
PROOF
  BY DEF Op

LEMMA KindOfCommand == \A c \in Command : KindOf(c) \in Kind
PROOF
  BY DEF KindOf, Kind

(* getNextLevel yields a level of the layer.                               *)
LEMMA NextLevelType ==
  ASSUME level \in 0..3, NEW c \in Command
  PROVE  NextLevel(c) \in 0..3
PROOF
  <1>1. CASE Callable(c)
    <2>1. \E l \in 0..3 : <<level, l>> \in TransitionSet(c)
      <3>1. CASE c = "loadGenerator"
        BY <1>1, <3>1 DEF Callable, TransitionSet, Command, Load, LockedLoad, Unload
      <3>2. CASE c = "unloadGenerator"
        BY <1>1, <3>2 DEF Callable, TransitionSet, Command, Load, LockedLoad, Unload
      <3>3. CASE c \in Load \ {"loadGenerator"}
        BY <1>1, <3>3 DEF Callable, TransitionSet, Command, Load, LockedLoad, Unload
      <3>4. CASE c \in Unload \ {"unloadGenerator"}
        BY <1>1, <3>4 DEF Callable, TransitionSet, Command, Load, LockedLoad, Unload
      <3>. QED
        BY <3>1, <3>2, <3>3, <3>4 DEF Command
    <2>. QED
      BY <1>1, <2>1 DEF NextLevel
  <1>2. CASE ~Callable(c)
    BY <1>2 DEF NextLevel
  <1>. QED
    BY <1>1, <1>2

-----------------------------------------------------------------------------
(* Type correctness.                                                       *)

LEMMA TypeStep == TypeOK /\ [Next]_vars => TypeOK'
PROOF
  <1>. SUFFICES ASSUME TypeOK, [Next]_vars
                PROVE  TypeOK'
    OBVIOUS
  <1>. USE OpMade, KindOfCommand, ControlLayerAssumption
  <1>1. ASSUME NEW c \in Command, NEW id \in ID, LoadBegins(c, id)
        PROVE  TypeOK'
    BY <1>1 DEF TypeOK, LoadBegins, Call, Start, Goes
  <1>2. ASSUME NEW c \in Command, NEW id \in ID, UnloadFinds(c, id)
        PROVE  TypeOK'
    <2>1. PICK e \in Removable(c, id) :
            /\ loaded' = loaded \ {e}
            /\ op' = [op EXCEPT ![c] = IF e.proc = NoProcess THEN [at |-> "test"]
                                       ELSE [at |-> "stop", proc |-> e.proc]]
      BY <1>2 DEF UnloadFinds, Goes
    <2>2. e.proc \in Process \cup {NoProcess}
      BY DEF Removable, TypeOK, Entry
    <2>. QED
      BY <1>2, <2>1, <2>2 DEF TypeOK, UnloadFinds, Call
  <1>3. ASSUME NEW c \in Command, NEW id \in ID, UnloadFindsNothing(c, id)
        PROVE  TypeOK'
    BY <1>3 DEF TypeOK, UnloadFindsNothing, Call
  <1>4. ASSUME NEW c \in Command, Launch(c)
        PROVE  TypeOK'
    <2>1. op[c].id \in ID
      BY <1>4, OpFields DEF Launch, At, TypeOK
    <2>2. PICK pid \in Pid :
            LET p == [kind |-> KindOf(c), id |-> op[c].id, pid |-> pid]
            IN  /\ alive' = alive \cup {p}
                /\ killed' = killed \ {p}
                /\ op' = [op EXCEPT ![c] = [at |-> "insert", id |-> op[c].id, proc |-> p]]
      BY <1>4 DEF Launch, Goes
    <2>3. [kind |-> KindOf(c), id |-> op[c].id, pid |-> pid] \in Process
      BY <2>1 DEF Process
    <2>. QED
      BY <1>4, <2>1, <2>2, <2>3 DEF TypeOK, Launch
  <1>5. ASSUME NEW c \in Command, Insert(c)
        PROVE  TypeOK'
    <2>1. op[c].id \in ID /\ op[c].proc \in Process \cup {NoProcess}
      BY <1>5, OpFields DEF Insert, At, TypeOK
    <2>. QED
      BY <1>5, <2>1 DEF TypeOK, Insert, Goes, Entry
  <1>6. ASSUME NEW c \in Command, UnloadStops(c)
        PROVE  TypeOK'
    <2>1. op[c].proc \in Process
      BY <1>6, OpFields DEF UnloadStops, At, TypeOK
    <2>. QED
      BY <1>6, <2>1 DEF TypeOK, UnloadStops, StopOrKill, Goes
  <1>7. ASSUME NEW c \in Command, UnloadTests(c) \/ ReadLevel(c)
        PROVE  TypeOK'
    BY <1>7, NextLevelType DEF TypeOK, UnloadTests, ReadLevel, Goes
  <1>8. ASSUME NEW c \in Command, ChangeLevel(c)
        PROVE  TypeOK'
    <2>1. op[c].next \in 0..3
      BY <1>8, OpFields DEF ChangeLevel, At, TypeOK
    <2>. QED
      BY <1>8, <2>1 DEF TypeOK, ChangeLevel, Goes
  <1>9. ASSUME NEW id \in ID, LoadPythonBegins(id)
        PROVE  TypeOK'
    BY <1>9 DEF TypeOK, LoadPythonBegins, Call, Start, Goes, Command, Load
  <1>10. CASE ActivateOrDeactivate
    BY <1>10 DEF TypeOK, ActivateOrDeactivate
  <1>11. CASE CloseBegins \/ CloseEnds
    BY <1>11 DEF TypeOK, CloseBegins, CloseEnds, CloserPlace
  <1>12. CASE CloseSwaps
    BY <1>12 DEF TypeOK, CloseSwaps, CloserPlace, Entry
  <1>13. CASE CloseStops
    BY <1>13 DEF TypeOK, CloseStops, StopOrKill
  <1>14. ASSUME NEW p \in Process, Exit(p)
         PROVE  TypeOK'
    BY <1>14 DEF TypeOK, Exit
  <1>15. CASE UNCHANGED vars
    BY <1>15 DEF TypeOK, vars
  <1>. QED
    BY <1>1, <1>2, <1>3, <1>4, <1>5, <1>6, <1>7, <1>8, <1>9, <1>10, <1>11, <1>12,
       <1>13, <1>14, <1>15
    DEF Next, CommandThread, Close

(* The maps, the calls in progress and close() keep their types, and the   *)
(* level of the layer stays one the transition sets know.                  *)
THEOREM TypeCorrect == Spec => []TypeOK
PROOF
  <1>1. Init => TypeOK
    <2>1. Init => op \in [Command -> Op]
      BY DEF Init, Op
    <2>2. Init => level \in 0..3 /\ calls \in Nat
      BY SMT DEF Init
    <2>. QED
      BY <2>1, <2>2, Zenon DEF Init, TypeOK, CloserPlace
  <1>. QED
    BY <1>1, TypeStep, PTL DEF Spec

-----------------------------------------------------------------------------
(* Who holds the mutexes, and what is in the calls' hands.                 *)

LEMMA ExclusiveStep == TypeOK /\ Exclusive /\ [Next]_vars => Exclusive'
PROOF
  <1>. SUFFICES ASSUME TypeOK, Exclusive, [Next]_vars
                PROVE  Exclusive'
    OBVIOUS
  <1>1. ASSUME NEW c \in Command, NEW id \in ID, LoadBegins(c, id)
        PROVE  Exclusive'
    BY <1>1 DEF TypeOK, Exclusive, Holds, OperationsFree, LoadBegins, Call, Start, Goes
  <1>2. ASSUME NEW c \in Command, NEW id \in ID, UnloadFinds(c, id)
        PROVE  Exclusive'
    BY <1>2 DEF TypeOK, Exclusive, Holds, OperationsFree, UnloadFinds, Call, Goes
  <1>3. ASSUME NEW c \in Command, Launch(c)
        PROVE  Exclusive'
    BY <1>3 DEF TypeOK, Exclusive, Holds, Launch, At, Goes
  <1>4. ASSUME NEW c \in Command,
               Insert(c) \/ UnloadStops(c) \/ UnloadTests(c) \/ ReadLevel(c) \/ ChangeLevel(c)
        PROVE  Exclusive'
    BY <1>4 DEF TypeOK, Exclusive, Holds, Insert, UnloadStops, UnloadTests, ReadLevel,
               ChangeLevel, Goes, Idle
  <1>5. ASSUME NEW id \in ID, LoadPythonBegins(id)
        PROVE  Exclusive'
    BY <1>5 DEF TypeOK, Exclusive, Holds, LoadPythonBegins, Start, Goes
  <1>6. ASSUME UNCHANGED op
        PROVE  Exclusive'
    BY <1>6 DEF Exclusive, Holds
  <1>. QED
    BY <1>1, <1>2, <1>3, <1>4, <1>5, <1>6
    DEF Next, CommandThread, Close, UnloadFindsNothing, ActivateOrDeactivate, CloseBegins,
        CloseSwaps, CloseStops, CloseEnds, Exit, vars

LEMMA InHandStep == TypeOK /\ InHand /\ EntryFits /\ [Next]_vars => InHand'
PROOF
  <1>. SUFFICES ASSUME TypeOK, InHand, EntryFits, [Next]_vars
                PROVE  InHand'
    OBVIOUS
  <1>1. ASSUME NEW c \in Command, NEW id \in ID, LoadBegins(c, id)
        PROVE  InHand'
    BY <1>1 DEF TypeOK, InHand, Loading, LoadBegins, Start, Goes, Load, LockedLoad
  <1>2. ASSUME NEW c \in Command, NEW id \in ID, UnloadFinds(c, id)
        PROVE  InHand'
    BY <1>2 DEF TypeOK, InHand, EntryFits, Loading, UnloadFinds, Removable, Goes
  <1>3. ASSUME NEW c \in Command, Launch(c)
        PROVE  InHand'
    <2>1. PICK pid \in Pid :
            op' = [op EXCEPT ![c] = [at |-> "insert", id |-> op[c].id,
                     proc |-> [kind |-> KindOf(c), id |-> op[c].id, pid |-> pid]]]
      BY <1>3 DEF Launch, Goes
    <2>. QED
      BY <1>3, <2>1 DEF TypeOK, InHand, Loading, Launch, At
  <1>4. ASSUME NEW c \in Command,
               Insert(c) \/ UnloadStops(c) \/ UnloadTests(c) \/ ReadLevel(c) \/ ChangeLevel(c)
        PROVE  InHand'
    BY <1>4 DEF TypeOK, InHand, Loading, Insert, UnloadStops, UnloadTests, ReadLevel,
               ChangeLevel, Goes, Idle
  <1>5. ASSUME NEW id \in ID, LoadPythonBegins(id)
        PROVE  InHand'
    BY <1>5 DEF TypeOK, InHand, Loading, LoadPythonBegins, Start, Goes, Load
  <1>6. ASSUME UNCHANGED op
        PROVE  InHand'
    BY <1>6 DEF InHand, Loading
  <1>. QED
    BY <1>1, <1>2, <1>3, <1>4, <1>5, <1>6
    DEF Next, CommandThread, Close, UnloadFindsNothing, ActivateOrDeactivate, CloseBegins,
        CloseSwaps, CloseStops, CloseEnds, Exit, vars

LEMMA EntryFitsStep == TypeOK /\ InHand /\ EntryFits /\ [Next]_vars => EntryFits'
PROOF
  <1>. SUFFICES ASSUME TypeOK, InHand, EntryFits, [Next]_vars
                PROVE  EntryFits'
    OBVIOUS
  <1>1. ASSUME NEW c \in Command, Insert(c)
        PROVE  EntryFits'
    BY <1>1 DEF InHand, EntryFits, Insert, At
  <1>2. ASSUME NEW c \in Command, NEW id \in ID, UnloadFinds(c, id)
        PROVE  EntryFits'
    BY <1>2 DEF EntryFits, UnloadFinds
  <1>3. CASE CloseSwaps
    BY <1>3 DEF EntryFits, CloseSwaps
  <1>4. ASSUME UNCHANGED loaded
        PROVE  EntryFits'
    BY <1>4 DEF EntryFits
  <1>. QED
    BY <1>1, <1>2, <1>3, <1>4
    DEF Next, CommandThread, Close, LoadBegins, LoadPythonBegins, Launch, UnloadFindsNothing,
        UnloadStops, UnloadTests, ReadLevel, ChangeLevel, ActivateOrDeactivate, CloseBegins,
        CloseStops, CloseEnds, Exit, vars

(* The mutex keeps what a call is about to add out of the map: a second    *)
(* entry of the name can only come from loadPythonController.              *)
LEMMA FreshStep ==
  TypeOK /\ Exclusive /\ InHand /\ Fresh /\ [Next]_vars => Fresh'
PROOF
  <1>. SUFFICES ASSUME TypeOK, Exclusive, InHand, Fresh, [Next]_vars
                PROVE  Fresh'
    OBVIOUS
  <1>1. ASSUME NEW c \in Command, NEW id \in ID, LoadBegins(c, id)
        PROVE  Fresh'
    BY <1>1 DEF TypeOK, Fresh, Loading, LoadBegins, IsLoaded, Start, Goes, Load, Command
  <1>2. ASSUME NEW c \in Command, NEW id \in ID, UnloadFinds(c, id)
        PROVE  Fresh'
    BY <1>2 DEF TypeOK, Fresh, Loading, UnloadFinds, Goes, Load, Command
  <1>3. ASSUME NEW c \in Command, Launch(c)
        PROVE  Fresh'
    BY <1>3 DEF TypeOK, Fresh, Loading, Launch, At, Goes, Load, Command
  <1>4. ASSUME NEW c \in Command, Insert(c)
        PROVE  Fresh'
    <2>. SUFFICES ASSUME NEW d \in LockedLoad, Loading(d)',
                         NEW e \in loaded', e.kind = KindOf(d), e.id = op[d].id'
                  PROVE  MayBePython(e)
      BY DEF Fresh, MayBePython, KindOf
    <2>1. d # c /\ op'[d] = op[d] /\ d \in Command
      BY <1>4 DEF TypeOK, Insert, Goes, Loading, Command, Load
    <2>2. CASE e \in loaded
      BY <2>1, <2>2 DEF Fresh, Loading
    <2>3. CASE e \notin loaded
      <3>1. e.kind = KindOf(c) /\ e.id = op[c].id
        BY <1>4, <2>3 DEF Insert
      <3>2. c = "loadPythonController"
        BY <1>4, <2>1, <3>1 DEF Exclusive, Holds, Loading, Insert, At, LockedLoad
      <3>. QED
        BY <1>4, <3>1, <3>2 DEF InHand, Loading, Insert, At, MayBePython, KindOf
    <2>. QED
      BY <2>2, <2>3
  <1>5. ASSUME NEW c \in Command,
               UnloadStops(c) \/ UnloadTests(c) \/ ReadLevel(c) \/ ChangeLevel(c)
        PROVE  Fresh'
    BY <1>5 DEF TypeOK, Fresh, Loading, UnloadStops, UnloadTests, ReadLevel, ChangeLevel,
               Goes, Idle, Load, Command
  <1>6. ASSUME NEW id \in ID, LoadPythonBegins(id)
        PROVE  Fresh'
    BY <1>6 DEF TypeOK, Fresh, Loading, LoadPythonBegins, Start, Goes, LockedLoad, Load, Command
  <1>7. CASE CloseSwaps
    BY <1>7 DEF Fresh, Loading, CloseSwaps
  <1>8. ASSUME UNCHANGED <<op, loaded>>
        PROVE  Fresh'
    BY <1>8 DEF Fresh, Loading
  <1>. QED
    BY <1>1, <1>2, <1>3, <1>4, <1>5, <1>6, <1>7, <1>8
    DEF Next, CommandThread, Close, UnloadFindsNothing, ActivateOrDeactivate, CloseBegins,
        CloseStops, CloseEnds, Exit, vars

-----------------------------------------------------------------------------
(* close().                                                                *)

(* The operations mutexes and closing_ together let only Python            *)
(* controllers in after the maps were emptied.                             *)
LEMMA ClosingStep ==
  TypeOK /\ InHand /\ EntryFits /\ Closing /\ [Next]_vars => Closing'
PROOF
  <1>. SUFFICES ASSUME TypeOK, InHand, EntryFits, Closing, [Next]_vars
                PROVE  Closing'
    OBVIOUS
  <1>1. ASSUME NEW c \in Command, NEW id \in ID, LoadBegins(c, id)
        PROVE  Closing'
    BY <1>1 DEF TypeOK, Closing, Loading, LoadBegins, Start, Goes
  <1>2. ASSUME NEW c \in Command, NEW id \in ID, UnloadFinds(c, id)
        PROVE  Closing'
    BY <1>2 DEF TypeOK, EntryFits, Closing, Loading, MayBePython, UnloadFinds, Removable, Goes
  <1>3. ASSUME NEW c \in Command, Launch(c)
        PROVE  Closing'
    BY <1>3 DEF TypeOK, Closing, Loading, Launch, At, Goes
  <1>4. ASSUME NEW c \in Command, Insert(c)
        PROVE  Closing'
    BY <1>4 DEF TypeOK, InHand, Closing, Loading, MayBePython, Insert, At, Goes, KindOf
  <1>5. ASSUME NEW c \in Command,
               UnloadStops(c) \/ UnloadTests(c) \/ ReadLevel(c) \/ ChangeLevel(c)
        PROVE  Closing'
    BY <1>5 DEF TypeOK, Closing, Loading, UnloadStops, UnloadTests, ReadLevel, ChangeLevel,
               Goes, Idle
  <1>6. ASSUME NEW id \in ID, LoadPythonBegins(id)
        PROVE  Closing'
    BY <1>6 DEF TypeOK, Closing, Loading, LoadPythonBegins, Start, Goes
  <1>7. CASE CloseBegins
    BY <1>7 DEF Closing, CloseBegins
  <1>8. CASE CloseSwaps
    <2>1. \A c \in Command : ~Holds(c)
      BY <1>8, KindOfCommand DEF CloseSwaps, OperationsFree
    <2>2. \A c \in Command : (op[c].at = "stop" => c # "loadPythonController")
      BY DEF InHand, Unload
    <2>. QED
      BY <1>8, <2>1, <2>2 DEF Closing, CloseSwaps, Loading, Holds
  <1>9. CASE CloseStops
    BY <1>9 DEF Closing, Loading, CloseStops
  <1>10. CASE CloseEnds
    BY <1>10 DEF Closing, Loading, CloseEnds
  <1>11. ASSUME UNCHANGED <<loaded, op, closing_, closer, toStop>>
         PROVE  Closing'
    BY <1>11 DEF Closing, Loading
  <1>. QED
    BY <1>1, <1>2, <1>3, <1>4, <1>5, <1>6, <1>7, <1>8, <1>9, <1>10, <1>11
    DEF Next, CommandThread, Close, UnloadFindsNothing, ActivateOrDeactivate, Exit, vars

-----------------------------------------------------------------------------
(* No process is forgotten.                                                *)

(* Owned passes from the call that starts a process to the map, and from   *)
(* the map to the call that stops it or to close().                        *)
LEMMA ForgottenStep ==
  TypeOK /\ InHand /\ Fresh /\ Closing /\ NoProcessForgotten /\ [Next]_vars
    => NoProcessForgotten'
PROOF
  <1>. SUFFICES ASSUME TypeOK, InHand, Fresh, Closing, NoProcessForgotten, [Next]_vars,
                       NEW p \in alive', ~MayBePython(p)
                PROVE  Owned(p)'
    BY DEF NoProcessForgotten, MayBePython
  <1>1. p \in alive => Owned(p)
    BY DEF NoProcessForgotten
  <1>2. p \in Process
    BY TypeStep DEF TypeOK
  <1>3. ASSUME NEW c \in Command, NEW id \in ID, LoadBegins(c, id)
        PROVE  Owned(p)'
    <2>1. op[c].at = "out" /\ \A d \in Command \ {c} : op'[d] = op[d]
      BY <1>3 DEF TypeOK, LoadBegins, Call, Start, Goes, Idle
    <2>. QED
      BY <1>1, <1>3, <2>1 DEF Owned, LoadBegins
  <1>4. ASSUME NEW id \in ID, LoadPythonBegins(id)
        PROVE  Owned(p)'
    <2>1. /\ op["loadPythonController"].at = "out"
          /\ \A d \in Command \ {"loadPythonController"} : op'[d] = op[d]
      BY <1>4 DEF TypeOK, LoadPythonBegins, Call, Start, Goes, Idle
    <2>. QED
      BY <1>1, <1>4, <2>1 DEF Owned, LoadPythonBegins
  <1>5. ASSUME NEW c \in Command, Launch(c)
        PROVE  Owned(p)'
    <2>1. PICK q : /\ alive' = alive \cup {q}
                   /\ killed' = killed \ {q}
                   /\ op' = [op EXCEPT ![c] = [at |-> "insert", id |-> op[c].id, proc |-> q]]
      BY <1>5 DEF Launch, Goes
    <2>2. /\ op[c].at = "launch"
          /\ op'[c] = [at |-> "insert", id |-> op[c].id, proc |-> q]
          /\ \A d \in Command \ {c} : op'[d] = op[d]
      BY <1>5, <2>1 DEF TypeOK, Launch, At
    <2>3. CASE p = q
      BY <2>2, <2>3 DEF Owned
    <2>4. CASE p # q
      BY <1>1, <1>5, <2>1, <2>2, <2>4 DEF Owned, Launch
    <2>. QED
      BY <2>3, <2>4
  <1>6. ASSUME NEW c \in Command, Insert(c)
        PROVE  Owned(p)'
    <2>1. /\ op[c].at = "insert" /\ p \in alive
          /\ \A d \in Command \ {c} : op'[d] = op[d]
          /\ UNCHANGED <<killed, toStop>> /\ loaded \subseteq loaded'
      BY <1>6 DEF TypeOK, Insert, At, Goes
    <2>2. CASE op[c].proc = p
      <3>1. /\ c \in Load /\ p.kind = KindOf(c) /\ p.id = op[c].id
            /\ c = "loadPythonController" => op[c].id \in PythonID
        BY <1>2, <2>1, <2>2, ControlLayerAssumption DEF InHand, Loading
      <3>2. c \in LockedLoad
        BY <3>1 DEF Load, MayBePython, KindOf
      <3>3. ~IsLoaded(KindOf(c), op[c].id)
        BY <2>1, <3>1, <3>2 DEF Fresh, Loading, IsLoaded, MayBePython
      <3>4. [kind |-> KindOf(c), id |-> op[c].id, proc |-> p] \in loaded'
        BY <1>6, <2>2, <3>3 DEF Insert
      <3>. QED
        BY <3>4 DEF Owned
    <2>3. CASE op[c].proc # p
      BY <1>1, <2>1, <2>3 DEF Owned
    <2>. QED
      BY <2>2, <2>3
  <1>7. ASSUME NEW c \in Command, NEW id \in ID, UnloadFinds(c, id)
        PROVE  Owned(p)'
    <2>1. PICK e \in loaded :
            /\ loaded' = loaded \ {e}
            /\ op' = [op EXCEPT ![c] = IF e.proc = NoProcess THEN [at |-> "test"]
                                       ELSE [at |-> "stop", proc |-> e.proc]]
      BY <1>7 DEF UnloadFinds, Removable, Goes
    <2>2. op[c].at = "out" /\ \A d \in Command \ {c} : op'[d] = op[d]
      BY <1>7, <2>1 DEF TypeOK, UnloadFinds, Call, Idle
    <2>3. CASE e.proc = p
      <3>1. op'[c] = [at |-> "stop", proc |-> p]
        BY <1>2, <2>1, <2>3, ControlLayerAssumption DEF TypeOK
      <3>. QED
        BY <3>1 DEF Owned
    <2>4. CASE e.proc # p
      BY <1>1, <1>7, <2>1, <2>2, <2>4 DEF Owned, UnloadFinds
    <2>. QED
      BY <2>3, <2>4
  <1>8. ASSUME NEW c \in Command, UnloadStops(c)
        PROVE  Owned(p)'
    <2>1. \A d \in Command \ {c} : op'[d] = op[d]
      BY <1>8 DEF TypeOK, UnloadStops, Goes
    <2>. QED
      BY <1>1, <1>8, <2>1 DEF Owned, UnloadStops, StopOrKill
  <1>9. ASSUME NEW c \in Command, UnloadTests(c) \/ ReadLevel(c) \/ ChangeLevel(c)
        PROVE  Owned(p)'
    <2>1. /\ op[c].at \in {"test", "level", "change"}
          /\ \A d \in Command \ {c} : op'[d] = op[d]
      BY <1>9 DEF TypeOK, UnloadTests, ReadLevel, ChangeLevel, At, Goes
    <2>. QED
      BY <1>1, <1>9, <2>1 DEF Owned, UnloadTests, ReadLevel, ChangeLevel
  <1>10. CASE CloseSwaps
    <2>1. CASE \E e \in loaded : e.proc = p
      BY <1>2, <1>10, <2>1, ControlLayerAssumption DEF CloseSwaps, Owned
    <2>2. p \notin toStop
      BY <1>10 DEF CloseSwaps, Closing
    <2>. QED
      BY <1>1, <1>10, <2>1, <2>2 DEF CloseSwaps, Owned
  <1>11. CASE CloseStops
    BY <1>1, <1>11 DEF CloseStops, StopOrKill, Owned
  <1>12. ASSUME UNCHANGED <<loaded, killed, op, toStop>>, p \in alive
         PROVE  Owned(p)'
    BY <1>1, <1>12 DEF Owned
  <1>. QED
    BY <1>3, <1>4, <1>5, <1>6, <1>7, <1>8, <1>9, <1>10, <1>11, <1>12
    DEF Next, CommandThread, Close, UnloadFindsNothing, ActivateOrDeactivate, CloseBegins,
        CloseEnds, Exit, vars

-----------------------------------------------------------------------------
(* One process per name.                                                   *)

(* When a process is started, whoever owned an earlier one of its name has *)
(* stopped or killed it.                                                   *)
LEMMA OnePerNameStep ==
  TypeOK /\ Exclusive /\ InHand /\ EntryFits /\ Fresh /\ Closing /\ NoProcessForgotten
  /\ OneProcessPerName /\ [Next]_vars
    => OneProcessPerName'
PROOF
  <1>. SUFFICES ASSUME TypeOK, Exclusive, InHand, EntryFits, Fresh, Closing,
                       NoProcessForgotten, OneProcessPerName, [Next]_vars,
                       NEW p \in alive' \ killed', NEW q \in alive' \ killed',
                       p.kind = q.kind, p.id = q.id, ~MayBePython(p)
                PROVE  p = q
    BY DEF OneProcessPerName, MayBePython
  <1>1. ASSUME NEW c \in Command, Launch(c)
        PROVE  p = q
    <2>1. PICK pid \in Pid :
            LET r == [kind |-> KindOf(c), id |-> op[c].id, pid |-> pid]
            IN  alive' = alive \cup {r} /\ killed' = killed \ {r}
      BY <1>1 DEF Launch
    <2>. DEFINE r == [kind |-> KindOf(c), id |-> op[c].id, pid |-> pid]
    <2>2. r.kind = KindOf(c) /\ r.id = op[c].id
      OBVIOUS
    <2>3. ASSUME NEW x \in alive \ killed,
                 x.kind = KindOf(c), x.id = op[c].id, ~MayBePython(x)
          PROVE  FALSE
      <3>1. c \in LockedLoad /\ Loading(c) /\ Holds(c)
        BY <1>1, <2>3 DEF InHand, Loading, Launch, At, Load, LockedLoad, Holds, MayBePython, KindOf
      <3>2. Owned(x)
        BY <2>3 DEF NoProcessForgotten
      <3>3. x # NoProcess
        BY <2>3, ControlLayerAssumption DEF TypeOK
      <3>4. ~\E e \in loaded : e.proc = x
        BY <2>3, <3>1, <3>3 DEF EntryFits, Fresh, MayBePython
      <3>5. ASSUME NEW d \in Command, op[d].at \in {"insert", "stop"}, op[d].proc = x
            PROVE  FALSE
        <4>1. KindOf(d) = KindOf(c)
          BY <2>3, <3>3, <3>5 DEF InHand
        <4>2. d # "loadPythonController"
          <5>. SUFFICES ASSUME d = "loadPythonController"
                        PROVE  FALSE
            OBVIOUS
          <5>1. x.id \in PythonID /\ x.kind = "controllers"
            BY <3>3, <3>5 DEF InHand, Loading, Unload, KindOf
          <5>. QED
            BY <2>3, <5>1 DEF MayBePython
        <4>3. d = c
          BY <3>1, <3>5, <4>1, <4>2 DEF Exclusive, Holds
        <4>. QED
          BY <1>1, <3>5, <4>3 DEF Launch, At
      <3>6. x \notin toStop
        BY <3>1 DEF Closing, LockedLoad
      <3>. QED
        BY <2>3, <3>2, <3>4, <3>5, <3>6 DEF Owned
    <2>4. \A x \in alive' \ killed' : x = r \/ x \in alive \ killed
      BY <2>1
    <2>5. CASE p \in alive \ killed /\ q \in alive \ killed
      BY <2>5 DEF OneProcessPerName
    <2>6. CASE p = r /\ q # r
      BY <2>2, <2>3, <2>4, <2>6 DEF MayBePython
    <2>7. CASE p # r /\ q = r
      BY <2>2, <2>3, <2>4, <2>7
    <2>. QED
      BY <2>4, <2>5, <2>6, <2>7
  <1>2. ASSUME alive' \subseteq alive, killed \subseteq killed'
        PROVE  p = q
    BY <1>2 DEF OneProcessPerName
  <1>3. ASSUME NEW c \in Command, UnloadStops(c)
        PROVE  p = q
    BY <1>2, <1>3 DEF UnloadStops, StopOrKill
  <1>4. CASE CloseStops
    BY <1>2, <1>4 DEF CloseStops, StopOrKill
  <1>. QED
    BY <1>1, <1>2, <1>3, <1>4
    DEF Next, CommandThread, Close, LoadBegins, LoadPythonBegins, Insert, UnloadFinds,
        UnloadFindsNothing, UnloadTests, ReadLevel, ChangeLevel, ActivateOrDeactivate,
        CloseBegins, CloseSwaps, CloseEnds, Exit, vars

-----------------------------------------------------------------------------
(* The theorems.                                                           *)

LEMMA InitReasons ==
  Init => /\ Exclusive /\ InHand /\ EntryFits /\ Fresh /\ Closing
          /\ NoProcessForgotten /\ OneProcessPerName
PROOF
  BY DEF Init, Exclusive, Holds, InHand, EntryFits, Fresh, Closing, Loading, Idle, LockedLoad,
         Load, Command, NoProcessForgotten, OneProcessPerName

LEMMA Reasons ==
  Spec => [](/\ TypeOK /\ Exclusive /\ InHand /\ EntryFits /\ Fresh /\ Closing
             /\ NoProcessForgotten /\ OneProcessPerName)
PROOF
  BY TypeCorrect, InitReasons, TypeStep, ExclusiveStep, InHandStep, EntryFitsStep, FreshStep,
     ClosingStep, ForgottenStep, OnePerNameStep, PTL DEF Spec

(* However loads, unloads and close() overlap, every process that is not a *)
(* Python controller is in a map, in the hands of a call or of close(), or *)
(* was killed.                                                             *)
THEOREM ProcessesOwned == Spec => []NoProcessForgotten
PROOF
  BY Reasons, PTL

(* A load that waits for the operations mutex of its kind cannot start a   *)
(* second process of a name: the earlier one was stopped or killed.        *)
THEOREM OnePerName == Spec => []OneProcessPerName
PROOF
  BY Reasons, PTL

(* After close() nothing runs but what was killed and Python controllers.  *)
THEOREM CloseIsComplete == Spec => []NothingLeftBehind
PROOF
  <1>1. TypeOK /\ InHand /\ EntryFits /\ Closing /\ NoProcessForgotten => NothingLeftBehind
    <2>. SUFFICES ASSUME TypeOK, InHand, EntryFits, Closing, NoProcessForgotten,
                         closer = "closed", NEW p \in alive, ~MayBePython(p)
                  PROVE  p \in killed
      BY DEF NothingLeftBehind
    <2>1. Owned(p) /\ p # NoProcess
      BY ControlLayerAssumption DEF NoProcessForgotten, TypeOK
    <2>2. ~\E e \in loaded : e.proc = p
      BY <2>1 DEF Closing, EntryFits, MayBePython
    <2>3. ASSUME NEW c \in Command, op[c].at \in {"insert", "stop"}, op[c].proc = p
          PROVE  FALSE
      BY <2>1, <2>3 DEF Closing, InHand, Loading, MayBePython, KindOf
    <2>4. p \notin toStop
      BY DEF Closing
    <2>. QED
      BY <2>1, <2>2, <2>3, <2>4 DEF Owned
  <1>. QED
    BY <1>1, Reasons, PTL

(* What the header says of the maps holds where no Python controller is    *)
(* loaded: the counterexamples are loadPythonController's alone.           *)
THEOREM OwnedWithoutPython ==
  ASSUME PythonID = {}
  PROVE  Spec => []EveryProcessIsOwned
PROOF
  <1>1. NoProcessForgotten => EveryProcessIsOwned
    BY DEF NoProcessForgotten, EveryProcessIsOwned, MayBePython
  <1>. QED
    BY <1>1, ProcessesOwned, PTL

-----------------------------------------------------------------------------
(* Rotations.                                                              *)
(*                                                                         *)
(* Vectors, quaternions and matrices, and the entries of what Linear makes *)
(* of them.                                                                *)
Vec == [1..3 -> Int]
Mat == [1..3 -> Vec]
Quat == [1..4 -> Int]

LEMMA VecIs ==
  ASSUME NEW v \in Vec
  PROVE  /\ DOMAIN v = 1..3 /\ Len(v) = 3
         /\ v[1] \in Int /\ v[2] \in Int /\ v[3] \in Int
         /\ \A u \in Vec : u[1] = v[1] /\ u[2] = v[2] /\ u[3] = v[3] => u = v
PROOF
  <1>1. DOMAIN v = 1..3 /\ v[1] \in Int /\ v[2] \in Int /\ v[3] \in Int
    BY DEF Vec
  <1>2. Len(v) = 3
    BY <1>1 DEF Vec
  <1>3. ASSUME NEW u \in Vec, u[1] = v[1], u[2] = v[2], u[3] = v[3] PROVE u = v
    <2>1. \A i \in 1..3 : i = 1 \/ i = 2 \/ i = 3
      OBVIOUS
    <2>2. \A i \in 1..3 : u[i] = v[i]
      BY <1>3, <2>1
    <2> QED
      BY <2>2 DEF Vec
  <1> QED
    BY <1>1, <1>2, <1>3

LEMMA QuatIs ==
  ASSUME NEW q \in Quat
  PROVE  /\ DOMAIN q = 1..4 /\ Len(q) = 4
         /\ q[1] \in Int /\ q[2] \in Int /\ q[3] \in Int /\ q[4] \in Int
         /\ \A p \in Quat : p[1] = q[1] /\ p[2] = q[2] /\ p[3] = q[3] /\ p[4] = q[4] => p = q
PROOF
  <1>1. DOMAIN q = 1..4 /\ q[1] \in Int /\ q[2] \in Int /\ q[3] \in Int /\ q[4] \in Int
    BY DEF Quat
  <1>2. Len(q) = 4
    BY <1>1 DEF Quat
  <1>3. ASSUME NEW p \in Quat, p[1] = q[1], p[2] = q[2], p[3] = q[3], p[4] = q[4] PROVE p = q
    <2>1. \A i \in 1..4 : i = 1 \/ i = 2 \/ i = 3 \/ i = 4
      OBVIOUS
    <2>2. \A i \in 1..4 : p[i] = q[i]
      BY <1>3, <2>1
    <2> QED
      BY <2>2 DEF Quat
  <1> QED
    BY <1>1, <1>2, <1>3

LEMMA MatIs ==
  ASSUME NEW A \in Mat
  PROVE  /\ DOMAIN A = 1..3 /\ A[1] \in Vec /\ A[2] \in Vec /\ A[3] \in Vec
         /\ \A B \in Mat : A[1] = B[1] /\ A[2] = B[2] /\ A[3] = B[3] => A = B
PROOF
  <1>1. DOMAIN A = 1..3 /\ A[1] \in Vec /\ A[2] \in Vec /\ A[3] \in Vec
    BY DEF Mat
  <1>2. ASSUME NEW B \in Mat, A[1] = B[1], A[2] = B[2], A[3] = B[3] PROVE A = B
    <2>1. \A i \in 1..3 : i = 1 \/ i = 2 \/ i = 3
      OBVIOUS
    <2>2. \A i \in 1..3 : A[i] = B[i]
      BY <1>2, <2>1
    <2> QED
      BY <2>2 DEF Mat
  <1> QED
    BY <1>1, <1>2

LEMMA DotIs ==
  ASSUME NEW u \in Vec, NEW v \in Vec
  PROVE  Dot(u, v) = u[1]*v[1] + u[2]*v[2] + u[3]*v[3] /\ Dot(u, v) \in Int
PROOF
  <1>1. Dot(u, v) = u[1]*v[1] + u[2]*v[2] + u[3]*v[3]
    BY VecIs DEF Dot
  <1> QED
    BY <1>1, VecIs

LEMMA DotQuat ==
  ASSUME NEW p \in Quat, NEW q \in Quat
  PROVE  /\ Dot(p, q) = p[1]*q[1] + p[2]*q[2] + p[3]*q[3] + p[4]*q[4]
         /\ Dot(p, q) \in Int
PROOF
  <1>1. Dot(p, q) = p[1]*q[1] + p[2]*q[2] + p[3]*q[3] + p[4]*q[4]
    BY QuatIs DEF Dot
  <1> QED
    BY <1>1, QuatIs

LEMMA TransposedIs ==
  ASSUME NEW A \in Mat
  PROVE  /\ Transposed(A) \in Mat
         /\ \A i, j \in 1..3 : Transposed(A)[i][j] = A[j][i]
  BY MatIs, VecIs DEF Transposed, Mat, Vec

LEMMA ApplyIs ==
  ASSUME NEW A \in Mat, NEW v \in Vec
  PROVE  /\ Apply(A, v) \in Vec
         /\ \A i \in 1..3 : Apply(A, v)[i] = A[i][1]*v[1] + A[i][2]*v[2] + A[i][3]*v[3]
PROOF
  <1>1. \A i \in 1..3 : A[i] \in Vec
    BY DEF Mat
  <1>2. \A i \in 1..3 : /\ Dot(A[i], v) = A[i][1]*v[1] + A[i][2]*v[2] + A[i][3]*v[3]
                        /\ Dot(A[i], v) \in Int
    BY <1>1, DotIs
  <1>3. Apply(A, v) = [i \in 1..3 |-> Dot(A[i], v)]
    BY MatIs DEF Apply
  <1> QED
    BY <1>2, <1>3 DEF Vec

LEMMA ProductIs ==
  ASSUME NEW A \in Mat, NEW B \in Mat
  PROVE  /\ Product(A, B) \in Mat
         /\ \A i, j \in 1..3 :
              Product(A, B)[i][j] = A[i][1]*B[1][j] + A[i][2]*B[2][j] + A[i][3]*B[3][j]
PROOF
  <1> DEFINE T == Transposed(B)
             P == [j \in 1..3 |-> Apply(A, T[j])]
  <1>1. T \in Mat /\ \A i, j \in 1..3 : T[i][j] = B[j][i]
    BY TransposedIs
  <1>2. \A j \in 1..3 : T[j] \in Vec
    BY <1>1 DEF Mat
  <1>3. \A j \in 1..3 : /\ P[j] \in Vec
                        /\ \A i \in 1..3 : P[j][i] = A[i][1]*T[j][1] + A[i][2]*T[j][2] + A[i][3]*T[j][3]
    BY <1>2, ApplyIs
  <1>4. P \in Mat
    BY <1>3 DEF Mat
  <1>5. Product(A, B) = Transposed(P)
    BY MatIs DEF Product
  <1> HIDE DEF T, P
  <1>6. Product(A, B) \in Mat /\ \A i, j \in 1..3 : Product(A, B)[i][j] = P[j][i]
    BY <1>4, <1>5, TransposedIs
  <1>7. 1 \in 1..3 /\ 2 \in 1..3 /\ 3 \in 1..3
    OBVIOUS
  <1> QED
    BY <1>1, <1>3, <1>6, <1>7

-----------------------------------------------------------------------------
(* The shortest vector is a part of the vector, by a number of 1 to 8, and *)
(* only depends on the ray.                                                *)
LEMMA ShortestIs ==
  ASSUME NEW v, NEW g \in 1..8,
         \A i \in DOMAIN v : v[i] % g = 0,
         \A m \in (g + 1)..8 : \E i \in DOMAIN v : v[i] % m # 0
  PROVE  Shortest(v) = [i \in DOMAIN v |-> v[i] \div g]
PROOF
  <1> DEFINE Divides(k) == \A i \in DOMAIN v : v[i] % k = 0
             Greatest(k) == Divides(k) /\ \A m \in (k + 1)..8 : ~ Divides(m)
             G == CHOOSE k \in 1..8 : Greatest(k)
  <1>1. Greatest(g)
    OBVIOUS
  <1>2. Shortest(v) = [i \in DOMAIN v |-> v[i] \div G]
    BY DEF Shortest
  <1>3. ASSUME NEW k \in 1..8, Greatest(k) PROVE k = g
    <2>1. ~ k < g
      <3>1. SUFFICES ASSUME k < g PROVE FALSE
        OBVIOUS
      <3>2. g \in (k + 1)..8
        BY <3>1
      <3> QED
        BY <3>2, <1>3, <1>1
    <2>2. ~ g < k
      <3>1. SUFFICES ASSUME g < k PROVE FALSE
        OBVIOUS
      <3>2. k \in (g + 1)..8
        BY <3>1
      <3> QED
        BY <3>2, <1>3, <1>1
    <2> QED
      BY <2>1, <2>2
  <1> HIDE DEF Greatest
  <1>4. G = g
    BY <1>1, <1>3
  <1> QED
    BY <1>2, <1>4

LEMMA ShortestMultiple ==
  ASSUME NEW D, NEW u \in [D -> -1..1], NEW n \in D, u[n] # 0, NEW k \in 1..8
  PROVE  Shortest([i \in D |-> k * u[i]]) = u
PROOF
  <1> DEFINE v == [i \in D |-> k * u[i]]
  <1>1. \A i \in D : v[i] = k * u[i] /\ u[i] \in {-1, 0, 1}
    OBVIOUS
  <1>2. \A i \in D : v[i] = k \/ v[i] = 0 \/ v[i] = -k
    BY <1>1
  <1>3. k % k = 0 /\ (-k) % k = 0 /\ 0 % k = 0
    OBVIOUS
  <1>4. v[n] = k \/ v[n] = -k
    BY <1>1
  <1>5. \A m \in (k + 1)..8 : k % m # 0 /\ (-k) % m # 0
    OBVIOUS
  <1>6. k \div k = 1 /\ (-k) \div k = -1 /\ 0 \div k = 0
    OBVIOUS
  <1>7. Shortest(v) = [i \in DOMAIN v |-> v[i] \div k]
    <2> DOMAIN v = D
      OBVIOUS
    <2>1. \A i \in DOMAIN v : v[i] % k = 0
      BY <1>2, <1>3
    <2>2. \A m \in (k + 1)..8 : \E i \in DOMAIN v : v[i] % m # 0
      BY <1>4, <1>5
    <2> HIDE DEF v
    <2> QED
      BY <2>1, <2>2, ShortestIs
  <1>8. \A i \in D : v[i] \div k = u[i]
    BY <1>1, <1>6
  <1>9. DOMAIN v = D /\ DOMAIN u = D
    OBVIOUS
  <1> HIDE DEF v
  <1>10. Shortest(v) = [i \in D |-> u[i]]
    BY <1>7, <1>8, <1>9
  <1> QED
    BY <1>10 DEF v

-----------------------------------------------------------------------------
(* The shortest integer vectors on the rays of the rotations of the cube.  *)
Rotor == {q \in [1..4 -> -1..1] : Dot(q, q) \in {1, 2, 4}}

(* The product of two quaternions, at its length.                          *)
Hamilton(p, q) ==
  <<q[1]*p[1] - q[2]*p[2] - q[3]*p[3] - q[4]*p[4],
    q[1]*p[2] + p[1]*q[2] + (q[3]*p[4] - q[4]*p[3]),
    q[1]*p[3] + p[1]*q[3] + (q[4]*p[2] - q[2]*p[4]),
    q[1]*p[4] + p[1]*q[4] + (q[2]*p[3] - q[3]*p[2])>>

Scaled(k, q) == [i \in 1..4 |-> k * q[i]]

LEMMA RotorIs ==
  ASSUME NEW q \in Rotor
  PROVE  /\ q \in Quat /\ q \in [1..4 -> -1..1]
         /\ q[1] \in -1..1 /\ q[2] \in -1..1 /\ q[3] \in -1..1 /\ q[4] \in -1..1
         /\ Dot(q, q) \in {1, 2, 4}
         /\ Dot(q, q) = q[1]*q[1] + q[2]*q[2] + q[3]*q[3] + q[4]*q[4]
         /\ \E n \in 1..4 : q[n] # 0
PROOF
  <1>1. q \in [1..4 -> -1..1] /\ Dot(q, q) \in {1, 2, 4}
    BY DEF Rotor
  <1>2. q \in Quat
    BY <1>1 DEF Quat
  <1>3. q[1] \in -1..1 /\ q[2] \in -1..1 /\ q[3] \in -1..1 /\ q[4] \in -1..1
    BY <1>1
  <1>4. Dot(q, q) = q[1]*q[1] + q[2]*q[2] + q[3]*q[3] + q[4]*q[4]
    BY <1>2, DotQuat
  <1>5. \E n \in 1..4 : q[n] # 0
    <2>1. SUFFICES ASSUME q[1] = 0, q[2] = 0, q[3] = 0, q[4] = 0 PROVE FALSE
      OBVIOUS
    <2> QED
      BY <1>1, <1>4, <2>1
  <1> QED
    BY <1>1, <1>2, <1>3, <1>4, <1>5

LEMMA RotorShortest ==
  ASSUME NEW q \in Rotor, NEW k \in 1..8
  PROVE  Shortest(Scaled(k, q)) = q
PROOF
  <1>1. PICK n \in 1..4 : q[n] # 0
    BY RotorIs
  <1>2. q \in [1..4 -> -1..1]
    BY RotorIs
  <1> QED
    BY <1>1, <1>2, ShortestMultiple DEF Scaled

(* quatMult is the shortest quaternion on the ray of the product.          *)
LEMMA MultIs ==
  ASSUME NEW p \in Quat, NEW q \in Quat
  PROVE  /\ Hamilton(p, q) \in Quat
         /\ quatMult(p, q) = Shortest(Hamilton(p, q))
PROOF
  <1>1. /\ p[1] \in Int /\ p[2] \in Int /\ p[3] \in Int /\ p[4] \in Int
        /\ q[1] \in Int /\ q[2] \in Int /\ q[3] \in Int /\ q[4] \in Int
    BY QuatIs
  <1>2. /\ q[1]*p[1] - q[2]*p[2] - q[3]*p[3] - q[4]*p[4] \in Int
        /\ q[1]*p[2] + p[1]*q[2] + (q[3]*p[4] - q[4]*p[3]) \in Int
        /\ q[1]*p[3] + p[1]*q[3] + (q[4]*p[2] - q[2]*p[4]) \in Int
        /\ q[1]*p[4] + p[1]*q[4] + (q[2]*p[3] - q[3]*p[2]) \in Int
    BY <1>1
  <1>3. Hamilton(p, q) \in Quat
    BY <1>2 DEF Hamilton, Quat
  <1>4. vec(p) \in Vec /\ vec(q) \in Vec
    BY <1>1 DEF vec, Vec
  <1>5. Dot(vec(q), vec(p)) = q[2]*p[2] + q[3]*p[3] + q[4]*p[4]
    BY <1>4, DotIs DEF vec
  <1>6. w(q)*w(p) - Dot(vec(q), vec(p)) = q[1]*p[1] - q[2]*p[2] - q[3]*p[3] - q[4]*p[4]
    BY <1>1, <1>5 DEF w
  <1> DEFINE v == Add(Add(Times(w(q), vec(p)), Times(w(p), vec(q))), Cross(vec(q), vec(p)))
  <1>7. /\ v[1] = q[1]*p[2] + p[1]*q[2] + (q[3]*p[4] - q[4]*p[3])
        /\ v[2] = q[1]*p[3] + p[1]*q[3] + (q[4]*p[2] - q[2]*p[4])
        /\ v[3] = q[1]*p[4] + p[1]*q[4] + (q[2]*p[3] - q[3]*p[2])
    BY DEF Add, Times, Cross, vec, w
  <1>8. quatMult(p, q) = Quaternion(w(q)*w(p) - Dot(vec(q), vec(p)), v)
    BY DEF quatMult
  <1> HIDE DEF v
  <1>9. quatMult(p, q) = Shortest(<<w(q)*w(p) - Dot(vec(q), vec(p)), v[1], v[2], v[3]>>)
    BY <1>8 DEF Quaternion
  <1>10. quatMult(p, q) = Shortest(Hamilton(p, q))
    BY <1>6, <1>7, <1>9 DEF Hamilton
  <1> QED
    BY <1>3, <1>10

(* Euler's identity: the length of a product is the product of lengths.    *)
LEMMA FourSquares ==
  ASSUME NEW a \in Int, NEW b \in Int, NEW c \in Int, NEW d \in Int,
         NEW s \in Int, NEW x \in Int, NEW y \in Int, NEW z \in Int
  PROVE  (s*a - x*b - y*c - z*d)*(s*a - x*b - y*c - z*d)
         + (s*b + a*x + (y*d - z*c))*(s*b + a*x + (y*d - z*c))
         + (s*c + a*y + (z*b - x*d))*(s*c + a*y + (z*b - x*d))
         + (s*d + a*z + (x*c - y*b))*(s*d + a*z + (x*c - y*b))
         = (a*a + b*b + c*c + d*d) * (s*s + x*x + y*y + z*z)
  OBVIOUS

LEMMA HamiltonNorm ==
  ASSUME NEW p \in Quat, NEW q \in Quat
  PROVE  Dot(Hamilton(p, q), Hamilton(p, q)) = Dot(p, p) * Dot(q, q)
PROOF
  <1>1. /\ p[1] \in Int /\ p[2] \in Int /\ p[3] \in Int /\ p[4] \in Int
        /\ q[1] \in Int /\ q[2] \in Int /\ q[3] \in Int /\ q[4] \in Int
    BY QuatIs
  <1>2. /\ Dot(p, p) = p[1]*p[1] + p[2]*p[2] + p[3]*p[3] + p[4]*p[4]
        /\ Dot(q, q) = q[1]*q[1] + q[2]*q[2] + q[3]*q[3] + q[4]*q[4]
    BY DotQuat
  <1> DEFINE r == Hamilton(p, q)
  <1>3. Dot(r, r) = r[1]*r[1] + r[2]*r[2] + r[3]*r[3] + r[4]*r[4]
    BY MultIs, DotQuat
  <1>4. (q[1]*p[1] - q[2]*p[2] - q[3]*p[3] - q[4]*p[4])*(q[1]*p[1] - q[2]*p[2] - q[3]*p[3] - q[4]*p[4])
        + (q[1]*p[2] + p[1]*q[2] + (q[3]*p[4] - q[4]*p[3]))*(q[1]*p[2] + p[1]*q[2] + (q[3]*p[4] - q[4]*p[3]))
        + (q[1]*p[3] + p[1]*q[3] + (q[4]*p[2] - q[2]*p[4]))*(q[1]*p[3] + p[1]*q[3] + (q[4]*p[2] - q[2]*p[4]))
        + (q[1]*p[4] + p[1]*q[4] + (q[2]*p[3] - q[3]*p[2]))*(q[1]*p[4] + p[1]*q[4] + (q[2]*p[3] - q[3]*p[2]))
        = (p[1]*p[1] + p[2]*p[2] + p[3]*p[3] + p[4]*p[4])
          * (q[1]*q[1] + q[2]*q[2] + q[3]*q[3] + q[4]*q[4])
    BY <1>1, FourSquares
  <1>5. Dot(r, r) = (p[1]*p[1] + p[2]*p[2] + p[3]*p[3] + p[4]*p[4])
                    * (q[1]*q[1] + q[2]*q[2] + q[3]*q[3] + q[4]*q[4])
    BY <1>3, <1>4 DEF Hamilton
  <1> QED
    BY <1>2, <1>5

(* A product of two of them is 1, 2 or 4 times one of them, because a sum  *)
(* of four squares that is 4 times another, or 8, has even roots.          *)
LEMMA SquareAtMost ==
  ASSUME NEW x \in Int, x*x <= 16
  PROVE  x \in -4..4
PROOF
  <1>1. ~ x >= 5
    BY x >= 5 => x*x >= 5*x
  <1>2. ~ x <= -5
    BY x <= -5 => x*x >= (-5)*x
  <1> QED
    BY <1>1, <1>2

LEMMA SquareOf ==
  ASSUME NEW x \in -4..4
  PROVE  /\ \/ x \in {-1, 0, 1} /\ x*x \in {0, 1}
            \/ x \in {-2, 2} /\ x*x = 4
            \/ x \in {-3, 3} /\ x*x = 9
            \/ x \in {-4, 4} /\ x*x = 16
         /\ x*x = 0 => x = 0
  OBVIOUS

LEMMA FourSquaresAre ==
  ASSUME NEW a \in {0, 1, 4, 9, 16}, NEW b \in {0, 1, 4, 9, 16},
         NEW c \in {0, 1, 4, 9, 16}, NEW d \in {0, 1, 4, 9, 16}
  PROVE  /\ a + b + c + d = 8 => a \in {0, 4} /\ b \in {0, 4} /\ c \in {0, 4} /\ d \in {0, 4}
         /\ a + b + c + d = 16 =>
              \/ a \in {0, 16} /\ b \in {0, 16} /\ c \in {0, 16} /\ d \in {0, 16}
              \/ a = 4 /\ b = 4 /\ c = 4 /\ d = 4
  OBVIOUS

LEMMA ScaledSquares ==
  ASSUME NEW k \in Int, NEW a \in Int, NEW b \in Int, NEW c \in Int, NEW d \in Int
  PROVE  (k*a)*(k*a) + (k*b)*(k*b) + (k*c)*(k*c) + (k*d)*(k*d) = k*k * (a*a + b*b + c*c + d*d)
  OBVIOUS

LEMMA Reduced ==
  ASSUME NEW r \in Quat, Dot(r, r) \in {1, 2, 4, 8, 16}
  PROVE  \E k \in {1, 2, 4}, s \in Rotor : r = Scaled(k, s)
PROOF
  <1>1. r[1] \in Int /\ r[2] \in Int /\ r[3] \in Int /\ r[4] \in Int
    BY QuatIs
  <1> DEFINE N == Dot(r, r)
  <1>2. N = r[1]*r[1] + r[2]*r[2] + r[3]*r[3] + r[4]*r[4]
    BY DotQuat
  <1> HIDE DEF N
  <1>3. /\ r[1]*r[1] >= 0 /\ r[2]*r[2] >= 0 /\ r[3]*r[3] >= 0 /\ r[4]*r[4] >= 0
        /\ r[1]*r[1] \in Int /\ r[2]*r[2] \in Int /\ r[3]*r[3] \in Int /\ r[4]*r[4] \in Int
    BY <1>1
  <1>4. N \in {1, 2, 4, 8, 16}
    BY DEF N
  <1>5. r[1]*r[1] <= 16 /\ r[2]*r[2] <= 16 /\ r[3]*r[3] <= 16 /\ r[4]*r[4] <= 16
    BY <1>2, <1>3, <1>4
  <1>6. r[1] \in -4..4 /\ r[2] \in -4..4 /\ r[3] \in -4..4 /\ r[4] \in -4..4
    BY <1>1, <1>5, SquareAtMost
  <1> DEFINE Fits(k) == \A i \in 1..4 : r[i] \in {-k, 0, k}
  <1>7. \E k \in {1, 2, 4} : Fits(k) /\ N \in {k*k, 2*k*k, 4*k*k}
    <2>1. \A i \in 1..4 : \/ r[i] \in {-1, 0, 1} /\ r[i]*r[i] \in {0, 1}
                          \/ r[i] \in {-2, 2} /\ r[i]*r[i] = 4
                          \/ r[i] \in {-3, 3} /\ r[i]*r[i] = 9
                          \/ r[i] \in {-4, 4} /\ r[i]*r[i] = 16
      BY <1>6, SquareOf
    <2>2. \A i \in 1..4 : r[i]*r[i] = 0 => r[i] = 0
      BY <1>6, SquareOf
    <2>3. CASE N = 1 \/ N = 2
      <3>1. r[1] \in -1..1 /\ r[2] \in -1..1 /\ r[3] \in -1..1 /\ r[4] \in -1..1
        BY <1>2, <1>6, <2>3
      <3> QED
        BY <2>3, <3>1
    <2>4. CASE N = 4
      <3>1. \/ r[1] \in -1..1 /\ r[2] \in -1..1 /\ r[3] \in -1..1 /\ r[4] \in -1..1
            \/ r[1] \in {-2,0,2} /\ r[2] \in {-2,0,2} /\ r[3] \in {-2,0,2} /\ r[4] \in {-2,0,2}
        BY <1>2, <1>6, <2>4
      <3> QED
        BY <2>4, <3>1
    <2>5. CASE N = 8
      <3>1. r[1] \in {-2,0,2} /\ r[2] \in {-2,0,2} /\ r[3] \in {-2,0,2} /\ r[4] \in {-2,0,2}
        BY <1>2, <1>6, <2>5, <2>1, <2>2, FourSquaresAre
      <3> QED
        BY <2>5, <3>1
    <2>6. CASE N = 16
      <3>1. \/ r[1] \in {-4,0,4} /\ r[2] \in {-4,0,4} /\ r[3] \in {-4,0,4} /\ r[4] \in {-4,0,4}
            \/ r[1] \in {-2,0,2} /\ r[2] \in {-2,0,2} /\ r[3] \in {-2,0,2} /\ r[4] \in {-2,0,2}
        BY <1>2, <1>6, <2>6, <2>1, <2>2, FourSquaresAre
      <3> QED
        BY <2>6, <3>1
    <2> QED
      BY <1>4, <2>3, <2>4, <2>5, <2>6
  <1>8. PICK k \in {1, 2, 4} : Fits(k) /\ N \in {k*k, 2*k*k, 4*k*k}
    BY <1>7
  <1> DEFINE s == [i \in 1..4 |-> r[i] \div k]
  <1>9. \A i \in 1..4 : r[i] \div k \in -1..1 /\ k * (r[i] \div k) = r[i]
    BY <1>8
  <1>10. s \in [1..4 -> -1..1] /\ \A i \in 1..4 : k * s[i] = r[i]
    BY <1>9
  <1> HIDE DEF s
  <1>11. s \in Quat
    BY <1>10 DEF Quat
  <1>12. Dot(s, s) = s[1]*s[1] + s[2]*s[2] + s[3]*s[3] + s[4]*s[4] /\ Dot(s, s) \in Int
    BY <1>11, DotQuat
  <1>13. /\ s[1] \in -1..1 /\ s[2] \in -1..1 /\ s[3] \in -1..1 /\ s[4] \in -1..1
         /\ r[1] = k * s[1] /\ r[2] = k * s[2] /\ r[3] = k * s[3] /\ r[4] = k * s[4]
    BY <1>10
  <1>14. k*k * Dot(s, s) = N
    <2>1. N = (k*s[1])*(k*s[1]) + (k*s[2])*(k*s[2]) + (k*s[3])*(k*s[3]) + (k*s[4])*(k*s[4])
      BY <1>2, <1>13
    <2>2. k \in Int /\ s[1] \in Int /\ s[2] \in Int /\ s[3] \in Int /\ s[4] \in Int
      BY <1>13
    <2>3. (k*s[1])*(k*s[1]) + (k*s[2])*(k*s[2]) + (k*s[3])*(k*s[3]) + (k*s[4])*(k*s[4])
          = k*k * (s[1]*s[1] + s[2]*s[2] + s[3]*s[3] + s[4]*s[4])
      BY <2>2, ScaledSquares
    <2> QED
      BY <1>12, <2>1, <2>3
  <1>15. Dot(s, s) \in {1, 2, 4}
    BY <1>8, <1>12, <1>14
  <1>16. s \in Rotor
    BY <1>10, <1>15 DEF Rotor
  <1>17. r = Scaled(k, s)
    BY <1>10 DEF Scaled, Quat
  <1> QED
    BY <1>16, <1>17

-----------------------------------------------------------------------------
LEMMA MultReduces ==
  ASSUME NEW p \in Rotor, NEW q \in Rotor
  PROVE  /\ quatMult(p, q) \in Rotor
         /\ \E k \in {1, 2, 4} : Hamilton(p, q) = Scaled(k, quatMult(p, q))
PROOF
  <1>1. p \in Quat /\ q \in Quat /\ Dot(p, p) \in {1, 2, 4} /\ Dot(q, q) \in {1, 2, 4}
    BY RotorIs
  <1>2. Dot(Hamilton(p, q), Hamilton(p, q)) = Dot(p, p) * Dot(q, q)
    BY <1>1, HamiltonNorm
  <1>3. Dot(Hamilton(p, q), Hamilton(p, q)) \in {1, 2, 4, 8, 16}
    BY <1>1, <1>2
  <1>4. Hamilton(p, q) \in Quat /\ quatMult(p, q) = Shortest(Hamilton(p, q))
    BY <1>1, MultIs
  <1>5. PICK k \in {1, 2, 4}, s \in Rotor : Hamilton(p, q) = Scaled(k, s)
    BY <1>3, <1>4, Reduced
  <1>6. k \in 1..8
    OBVIOUS
  <1>7. quatMult(p, q) = s
    BY <1>4, <1>5, <1>6, RotorShortest
  <1> QED
    BY <1>5, <1>7

Square(s, x, y, z) == s*s + x*x - y*y - z*z
Twice(x, y, s, z) == 2*(x*y + s*z)

(* The matrix of a quaternion, times the square of its length.             *)
Form(q) ==
  LET s == q[1]  x == q[2]  y == q[3]  z == q[4]
  IN  <<<<Square(s, x, y, z), Twice(x, y, s, z), Twice(x, z, -s, y)>>,
        <<Twice(x, y, -s, z), Square(s, y, x, z), Twice(y, z, s, x)>>,
        <<Twice(x, z, s, y), Twice(y, z, -s, x), Square(s, z, x, y)>>>>

LEMMA FormIs ==
  ASSUME NEW q
  PROVE  /\ Form(q)[1][1] = Square(q[1], q[2], q[3], q[4])
         /\ Form(q)[1][2] = Twice(q[2], q[3], q[1], q[4])
         /\ Form(q)[1][3] = Twice(q[2], q[4], -q[1], q[3])
         /\ Form(q)[2][1] = Twice(q[2], q[3], -q[1], q[4])
         /\ Form(q)[2][2] = Square(q[1], q[3], q[2], q[4])
         /\ Form(q)[2][3] = Twice(q[3], q[4], q[1], q[2])
         /\ Form(q)[3][1] = Twice(q[2], q[4], q[1], q[3])
         /\ Form(q)[3][2] = Twice(q[3], q[4], -q[1], q[2])
         /\ Form(q)[3][3] = Square(q[1], q[4], q[2], q[3])
  BY DEF Form

(* The entries of the matrix of a product are polynomials in those of the  *)
(* factors, and so are those of a multiple.                                *)
ProductEntries(a, b, c, d, s, x, y, z, r1, r2, r3, r4) ==
  /\ Square(r1, r2, r3, r4) =
       Square(a, b, c, d)*Square(s, x, y, z) + Twice(b, c, a, d)*Twice(x, y, -s, z) + Twice(b, d, -a, c)*Twice(x, z, s, y)
  /\ Twice(r2, r3, r1, r4) =
       Square(a, b, c, d)*Twice(x, y, s, z) + Twice(b, c, a, d)*Square(s, y, x, z) + Twice(b, d, -a, c)*Twice(y, z, -s, x)
  /\ Twice(r2, r4, -r1, r3) =
       Square(a, b, c, d)*Twice(x, z, -s, y) + Twice(b, c, a, d)*Twice(y, z, s, x) + Twice(b, d, -a, c)*Square(s, z, x, y)
  /\ Twice(r2, r3, -r1, r4) =
       Twice(b, c, -a, d)*Square(s, x, y, z) + Square(a, c, b, d)*Twice(x, y, -s, z) + Twice(c, d, a, b)*Twice(x, z, s, y)
  /\ Square(r1, r3, r2, r4) =
       Twice(b, c, -a, d)*Twice(x, y, s, z) + Square(a, c, b, d)*Square(s, y, x, z) + Twice(c, d, a, b)*Twice(y, z, -s, x)
  /\ Twice(r3, r4, r1, r2) =
       Twice(b, c, -a, d)*Twice(x, z, -s, y) + Square(a, c, b, d)*Twice(y, z, s, x) + Twice(c, d, a, b)*Square(s, z, x, y)
  /\ Twice(r2, r4, r1, r3) =
       Twice(b, d, a, c)*Square(s, x, y, z) + Twice(c, d, -a, b)*Twice(x, y, -s, z) + Square(a, d, b, c)*Twice(x, z, s, y)
  /\ Twice(r3, r4, -r1, r2) =
       Twice(b, d, a, c)*Twice(x, y, s, z) + Twice(c, d, -a, b)*Square(s, y, x, z) + Square(a, d, b, c)*Twice(y, z, -s, x)
  /\ Square(r1, r4, r2, r3) =
       Twice(b, d, a, c)*Twice(x, z, -s, y) + Twice(c, d, -a, b)*Twice(y, z, s, x) + Square(a, d, b, c)*Square(s, z, x, y)

LEMMA FormEntries ==
  ASSUME NEW a \in Int, NEW b \in Int, NEW c \in Int, NEW d \in Int,
         NEW s \in Int, NEW x \in Int, NEW y \in Int, NEW z \in Int,
         NEW r1 \in Int, NEW r2 \in Int, NEW r3 \in Int, NEW r4 \in Int,
         r1 = s*a - x*b - y*c - z*d,
         r2 = s*b + a*x + (y*d - z*c),
         r3 = s*c + a*y + (z*b - x*d),
         r4 = s*d + a*z + (x*c - y*b)
  PROVE  ProductEntries(a, b, c, d, s, x, y, z, r1, r2, r3, r4)
  BY DEF ProductEntries, Square, Twice

LEMMA FormProduct ==
  ASSUME NEW p \in Quat, NEW q \in Quat
  PROVE  \A i, j \in 1..3 :
           Form(Hamilton(p, q))[i][j] =
             Form(p)[i][1]*Form(q)[1][j] + Form(p)[i][2]*Form(q)[2][j] + Form(p)[i][3]*Form(q)[3][j]
PROOF
  <1> DEFINE A == Form(p)
             B == Form(q)
             C == Form(Hamilton(p, q))
             Fits(i, j) == C[i][j] = A[i][1]*B[1][j] + A[i][2]*B[2][j] + A[i][3]*B[3][j]
  <1>1. /\ p[1] \in Int /\ p[2] \in Int /\ p[3] \in Int /\ p[4] \in Int
        /\ q[1] \in Int /\ q[2] \in Int /\ q[3] \in Int /\ q[4] \in Int
    BY QuatIs
  <1>2. /\ Fits(1, 1) /\ Fits(1, 2) /\ Fits(1, 3)
        /\ Fits(2, 1) /\ Fits(2, 2) /\ Fits(2, 3)
        /\ Fits(3, 1) /\ Fits(3, 2) /\ Fits(3, 3)
    <2> DEFINE r == Hamilton(p, q)
    <2>1. /\ r[1] = q[1]*p[1] - q[2]*p[2] - q[3]*p[3] - q[4]*p[4]
          /\ r[2] = q[1]*p[2] + p[1]*q[2] + (q[3]*p[4] - q[4]*p[3])
          /\ r[3] = q[1]*p[3] + p[1]*q[3] + (q[4]*p[2] - q[2]*p[4])
          /\ r[4] = q[1]*p[4] + p[1]*q[4] + (q[2]*p[3] - q[3]*p[2])
      BY DEF Hamilton
    <2> HIDE DEF r
    <2>2. C = Form(r)
      BY DEF r
    <2> HIDE DEF A, B, C
    <2>3. /\ C[1][1] = Square(r[1], r[2], r[3], r[4]) /\ C[1][2] = Twice(r[2], r[3], r[1], r[4])
          /\ C[1][3] = Twice(r[2], r[4], -r[1], r[3]) /\ C[2][1] = Twice(r[2], r[3], -r[1], r[4])
          /\ C[2][2] = Square(r[1], r[3], r[2], r[4]) /\ C[2][3] = Twice(r[3], r[4], r[1], r[2])
          /\ C[3][1] = Twice(r[2], r[4], r[1], r[3]) /\ C[3][2] = Twice(r[3], r[4], -r[1], r[2])
          /\ C[3][3] = Square(r[1], r[4], r[2], r[3])
      BY <2>2, FormIs
    <2>4. /\ A[1][1] = Square(p[1], p[2], p[3], p[4]) /\ A[1][2] = Twice(p[2], p[3], p[1], p[4])
          /\ A[1][3] = Twice(p[2], p[4], -p[1], p[3]) /\ A[2][1] = Twice(p[2], p[3], -p[1], p[4])
          /\ A[2][2] = Square(p[1], p[3], p[2], p[4]) /\ A[2][3] = Twice(p[3], p[4], p[1], p[2])
          /\ A[3][1] = Twice(p[2], p[4], p[1], p[3]) /\ A[3][2] = Twice(p[3], p[4], -p[1], p[2])
          /\ A[3][3] = Square(p[1], p[4], p[2], p[3])
      BY FormIs DEF A
    <2>5. /\ B[1][1] = Square(q[1], q[2], q[3], q[4]) /\ B[1][2] = Twice(q[2], q[3], q[1], q[4])
          /\ B[1][3] = Twice(q[2], q[4], -q[1], q[3]) /\ B[2][1] = Twice(q[2], q[3], -q[1], q[4])
          /\ B[2][2] = Square(q[1], q[3], q[2], q[4]) /\ B[2][3] = Twice(q[3], q[4], q[1], q[2])
          /\ B[3][1] = Twice(q[2], q[4], q[1], q[3]) /\ B[3][2] = Twice(q[3], q[4], -q[1], q[2])
          /\ B[3][3] = Square(q[1], q[4], q[2], q[3])
      BY FormIs DEF B
    <2>6. r[1] \in Int /\ r[2] \in Int /\ r[3] \in Int /\ r[4] \in Int
      BY <1>1, <2>1
    <2>7. ProductEntries(p[1], p[2], p[3], p[4], q[1], q[2], q[3], q[4], r[1], r[2], r[3], r[4])
      BY <1>1, <2>1, <2>6, FormEntries
    <2> QED
      BY <2>3, <2>4, <2>5, <2>7 DEF ProductEntries
  <1> HIDE DEF Fits
  <1>3. \A i, j \in 1..3 : Fits(i, j)
    <2>1. \A i \in 1..3 : i = 1 \/ i = 2 \/ i = 3
      OBVIOUS
    <2> QED
      BY <1>2, <2>1
  <1> QED
    BY <1>3 DEF Fits

MultipleEntries(k, s, x, y, z, a, b, c, d) ==
  /\ Square(a, b, c, d) = k*k * Square(s, x, y, z)
  /\ Square(a, c, b, d) = k*k * Square(s, y, x, z)
  /\ Square(a, d, b, c) = k*k * Square(s, z, x, y)
  /\ Twice(b, c, a, d) = k*k * Twice(x, y, s, z)
  /\ Twice(b, d, a, c) = k*k * Twice(x, z, s, y)
  /\ Twice(c, d, a, b) = k*k * Twice(y, z, s, x)
  /\ Twice(b, c, -a, d) = k*k * Twice(x, y, -s, z)
  /\ Twice(b, d, -a, c) = k*k * Twice(x, z, -s, y)
  /\ Twice(c, d, -a, b) = k*k * Twice(y, z, -s, x)

LEMMA ScaledEntries ==
  ASSUME NEW k \in Int, NEW s \in Int, NEW x \in Int, NEW y \in Int, NEW z \in Int,
         NEW a \in Int, NEW b \in Int, NEW c \in Int, NEW d \in Int,
         a = k*s, b = k*x, c = k*y, d = k*z
  PROVE  MultipleEntries(k, s, x, y, z, a, b, c, d)
  BY DEF MultipleEntries, Square, Twice

LEMMA FormScaled ==
  ASSUME NEW q \in Quat, NEW k \in Int
  PROVE  \A i, j \in 1..3 : Form(Scaled(k, q))[i][j] = k*k * Form(q)[i][j]
PROOF
  <1> DEFINE A == Form(Scaled(k, q))
             B == Form(q)
             Fits(i, j) == A[i][j] = k*k * B[i][j]
  <1>1. q[1] \in Int /\ q[2] \in Int /\ q[3] \in Int /\ q[4] \in Int
    BY QuatIs
  <1>2. /\ Fits(1, 1) /\ Fits(1, 2) /\ Fits(1, 3)
        /\ Fits(2, 1) /\ Fits(2, 2) /\ Fits(2, 3)
        /\ Fits(3, 1) /\ Fits(3, 2) /\ Fits(3, 3)
    <2> DEFINE r == Scaled(k, q)
    <2>1. r[1] = k*q[1] /\ r[2] = k*q[2] /\ r[3] = k*q[3] /\ r[4] = k*q[4]
      BY DEF Scaled
    <2> HIDE DEF r
    <2>2. A = Form(r)
      BY DEF r
    <2> HIDE DEF A, B
    <2>3. /\ A[1][1] = Square(r[1], r[2], r[3], r[4]) /\ A[1][2] = Twice(r[2], r[3], r[1], r[4])
          /\ A[1][3] = Twice(r[2], r[4], -r[1], r[3]) /\ A[2][1] = Twice(r[2], r[3], -r[1], r[4])
          /\ A[2][2] = Square(r[1], r[3], r[2], r[4]) /\ A[2][3] = Twice(r[3], r[4], r[1], r[2])
          /\ A[3][1] = Twice(r[2], r[4], r[1], r[3]) /\ A[3][2] = Twice(r[3], r[4], -r[1], r[2])
          /\ A[3][3] = Square(r[1], r[4], r[2], r[3])
      BY <2>2, FormIs
    <2>4. /\ B[1][1] = Square(q[1], q[2], q[3], q[4]) /\ B[1][2] = Twice(q[2], q[3], q[1], q[4])
          /\ B[1][3] = Twice(q[2], q[4], -q[1], q[3]) /\ B[2][1] = Twice(q[2], q[3], -q[1], q[4])
          /\ B[2][2] = Square(q[1], q[3], q[2], q[4]) /\ B[2][3] = Twice(q[3], q[4], q[1], q[2])
          /\ B[3][1] = Twice(q[2], q[4], q[1], q[3]) /\ B[3][2] = Twice(q[3], q[4], -q[1], q[2])
          /\ B[3][3] = Square(q[1], q[4], q[2], q[3])
      BY FormIs DEF B
    <2>5. r[1] \in Int /\ r[2] \in Int /\ r[3] \in Int /\ r[4] \in Int
      BY <1>1, <2>1
    <2>6. MultipleEntries(k, q[1], q[2], q[3], q[4], r[1], r[2], r[3], r[4])
      BY <1>1, <2>1, <2>5, ScaledEntries
    <2> QED
      BY <2>3, <2>4, <2>6 DEF MultipleEntries
  <1> HIDE DEF Fits
  <1>3. \A i, j \in 1..3 : Fits(i, j)
    <2>1. \A i \in 1..3 : i = 1 \/ i = 2 \/ i = 3
      OBVIOUS
    <2> QED
      BY <1>2, <2>1
  <1> QED
    BY <1>3 DEF Fits

(* The divisions of quatToRotMat are exact.                                *)
LEMMA ExactEntries ==
  ASSUME NEW n \in {1, 2, 4}, NEW s \in -1..1, NEW x \in -1..1, NEW y \in -1..1, NEW z \in -1..1,
         n = s*s + x*x + y*y + z*z
  PROVE  /\ (-n + 2*s*s + 2*x*x) \div n \in -1..1
         /\ n * ((-n + 2*s*s + 2*x*x) \div n) = Square(s, x, y, z)
         /\ (2*(x*y + s*z)) \div n \in -1..1
         /\ n * ((2*(x*y + s*z)) \div n) = Twice(x, y, s, z)
         /\ (2*(x*y - s*z)) \div n \in -1..1
         /\ n * ((2*(x*y - s*z)) \div n) = Twice(x, y, -s, z)
  BY DEF Square, Twice

LEMMA MatOfQuat ==
  ASSUME NEW q \in Rotor
  PROVE  /\ quatToRotMat(q) \in Mat
         /\ \A i, j \in 1..3 : /\ Dot(q, q) * quatToRotMat(q)[i][j] = Form(q)[i][j]
                               /\ quatToRotMat(q)[i][j] \in -1..1
PROOF
  <1> DEFINE n == Dot(q, q)
             s == q[1]
             x == q[2]
             y == q[3]
             z == q[4]
             U == quatToRotMat(q)
             F == Form(q)
             Fits(i, j) == n * U[i][j] = F[i][j] /\ U[i][j] \in -1..1
  <1>1. n \in {1, 2, 4} /\ n = s*s + x*x + y*y + z*z
    BY RotorIs
  <1>2. s \in -1..1 /\ x \in -1..1 /\ y \in -1..1 /\ z \in -1..1
    BY RotorIs
  <1>3. U = <<<<(-n + 2*s*s + 2*x*x) \div n, (2*(x*y + s*z)) \div n, (2*(x*z - s*y)) \div n>>,
              <<(2*(x*y - s*z)) \div n, (-n + 2*s*s + 2*y*y) \div n, (2*(y*z + s*x)) \div n>>,
              <<(2*(x*z + s*y)) \div n, (2*(y*z - s*x)) \div n, (-n + 2*s*s + 2*z*z) \div n>>>>
    BY DEF quatToRotMat, w
  <1>4. F = <<<<Square(s, x, y, z), Twice(x, y, s, z), Twice(x, z, -s, y)>>,
              <<Twice(x, y, -s, z), Square(s, y, x, z), Twice(y, z, s, x)>>,
              <<Twice(x, z, s, y), Twice(y, z, -s, x), Square(s, z, x, y)>>>>
    BY DEF Form
  <1> HIDE DEF n, s, x, y, z, U, F
  <1>5. n = s*s + y*y + x*x + z*z /\ n = s*s + z*z + x*x + y*y /\ n = s*s + x*x + z*z + y*y
        /\ n = s*s + y*y + z*z + x*x
    BY <1>1, <1>2
  <1>6. Fits(1, 1) /\ Fits(1, 2) /\ Fits(2, 1)
    BY <1>1, <1>2, <1>3, <1>4, ExactEntries
  <1>7. Fits(1, 3) /\ Fits(3, 1)
    BY <1>1, <1>2, <1>3, <1>4, <1>5, ExactEntries
  <1>8. Fits(2, 2) /\ Fits(2, 3) /\ Fits(3, 2)
    BY <1>1, <1>2, <1>3, <1>4, <1>5, ExactEntries
  <1>9. Fits(3, 3)
    BY <1>1, <1>2, <1>3, <1>4, <1>5, ExactEntries
  <1>10. U \in Mat
    BY <1>3, <1>6, <1>7, <1>8, <1>9 DEF Mat, Vec
  <1> HIDE DEF Fits
  <1>11. \A i, j \in 1..3 : Fits(i, j)
    <2>1. \A i \in 1..3 : i = 1 \/ i = 2 \/ i = 3
      OBVIOUS
    <2> QED
      BY <2>1, <1>6, <1>7, <1>8, <1>9
  <1> QED
    BY <1>10, <1>11 DEF Fits, U, F, n

-----------------------------------------------------------------------------
(* Matrices with the same entries are equal, and the matrices of two       *)
(* quaternions when they are after the multiplication with their lengths.  *)
LEMMA MatEqual ==
  ASSUME NEW A \in Mat, NEW B \in Mat, \A i, j \in 1..3 : A[i][j] = B[i][j]
  PROVE  A = B
PROOF
  <1>1. \A i \in 1..3 : A[i] \in Vec /\ B[i] \in Vec
    BY DEF Mat
  <1>2. 1 \in 1..3 /\ 2 \in 1..3 /\ 3 \in 1..3
    OBVIOUS
  <1>3. \A i \in 1..3 : A[i] = B[i]
    BY <1>1, <1>2, VecIs
  <1> QED
    BY <1>3 DEF Mat

LEMMA MatEntry ==
  ASSUME NEW A \in Mat, NEW i \in 1..3, NEW j \in 1..3
  PROVE  A[i][j] \in Int
  BY DEF Mat, Vec

LEMMA ScaledIs ==
  ASSUME NEW k \in Int, NEW q \in Quat
  PROVE  /\ Scaled(k, q) \in Quat
         /\ Dot(Scaled(k, q), Scaled(k, q)) = k*k * Dot(q, q)
PROOF
  <1> DEFINE r == Scaled(k, q)
  <1>1. q[1] \in Int /\ q[2] \in Int /\ q[3] \in Int /\ q[4] \in Int
    BY QuatIs
  <1>2. r \in Quat
    BY DEF Scaled, Quat
  <1>3. r[1] = k*q[1] /\ r[2] = k*q[2] /\ r[3] = k*q[3] /\ r[4] = k*q[4]
    BY DEF Scaled
  <1> HIDE DEF r
  <1>4. Dot(q, q) = q[1]*q[1] + q[2]*q[2] + q[3]*q[3] + q[4]*q[4]
    BY DotQuat
  <1>5. Dot(r, r) = r[1]*r[1] + r[2]*r[2] + r[3]*r[3] + r[4]*r[4]
    BY <1>2, DotQuat
  <1>6. (k*q[1])*(k*q[1]) + (k*q[2])*(k*q[2]) + (k*q[3])*(k*q[3]) + (k*q[4])*(k*q[4])
        = k*k * (q[1]*q[1] + q[2]*q[2] + q[3]*q[3] + q[4]*q[4])
    BY <1>1, ScaledSquares
  <1>7. Dot(r, r) = k*k * Dot(q, q)
    BY <1>3, <1>4, <1>5, <1>6
  <1> QED
    BY <1>2, <1>7 DEF r

HasFactor(a, b, x1, x2, x3, y1, y2, y3) ==
  (a*x1)*(b*y1) + (a*x2)*(b*y2) + (a*x3)*(b*y3) = (a*b) * (x1*y1 + x2*y2 + x3*y3)

LEMMA CommonFactor ==
  ASSUME NEW a \in Int, NEW b \in Int,
         NEW x1 \in Int, NEW x2 \in Int, NEW x3 \in Int,
         NEW y1 \in Int, NEW y2 \in Int, NEW y3 \in Int
  PROVE  HasFactor(a, b, x1, x2, x3, y1, y2, y3)
  BY DEF HasFactor

(* A product of quaternions is a product of their matrices.                *)
LEMMA MatOfMult ==
  ASSUME NEW p \in Rotor, NEW q \in Rotor
  PROVE  quatToRotMat(quatMult(p, q)) = Product(quatToRotMat(p), quatToRotMat(q))
PROOF
  <1> DEFINE s == quatMult(p, q)
             r == Hamilton(p, q)
             A == quatToRotMat(p)
             B == quatToRotMat(q)
             C == quatToRotMat(s)
             a == Dot(p, p)
             b == Dot(q, q)
             c == Dot(s, s)
  <1>1. PICK k \in {1, 2, 4} : r = Scaled(k, s)
    BY MultReduces
  <1>2. s \in Rotor
    BY MultReduces
  <1>3. /\ p \in Quat /\ q \in Quat /\ s \in Quat
        /\ a \in {1, 2, 4} /\ b \in {1, 2, 4} /\ c \in {1, 2, 4}
    BY <1>2, RotorIs
  <1>4. /\ A \in Mat /\ \A i, j \in 1..3 : a * A[i][j] = Form(p)[i][j]
        /\ B \in Mat /\ \A i, j \in 1..3 : b * B[i][j] = Form(q)[i][j]
        /\ C \in Mat /\ \A i, j \in 1..3 : c * C[i][j] = Form(s)[i][j]
    BY <1>2, MatOfQuat
  <1>5. a*b = k*k*c
    BY <1>1, <1>3, HamiltonNorm, ScaledIs
  <1>6. \A i, j \in 1..3 : Form(r)[i][j] = k*k * Form(s)[i][j]
    BY SMTT(30), <1>1, <1>3, FormScaled
  <1>7. \A i, j \in 1..3 : Form(r)[i][j] =
          Form(p)[i][1]*Form(q)[1][j] + Form(p)[i][2]*Form(q)[2][j] + Form(p)[i][3]*Form(q)[3][j]
    BY <1>3, FormProduct
  <1> HIDE DEF s, r, A, B, C, a, b, c
  <1>8. ASSUME NEW i \in 1..3, NEW j \in 1..3
        PROVE  C[i][j] = A[i][1]*B[1][j] + A[i][2]*B[2][j] + A[i][3]*B[3][j]
    <2>1. 1 \in 1..3 /\ 2 \in 1..3 /\ 3 \in 1..3
      OBVIOUS
    <2>2. /\ A[i][1] \in Int /\ A[i][2] \in Int /\ A[i][3] \in Int
          /\ B[1][j] \in Int /\ B[2][j] \in Int /\ B[3][j] \in Int /\ C[i][j] \in Int
      BY <1>4, <2>1, MatEntry
    <2>3. /\ Form(p)[i][1] = a*A[i][1] /\ Form(p)[i][2] = a*A[i][2] /\ Form(p)[i][3] = a*A[i][3]
          /\ Form(q)[1][j] = b*B[1][j] /\ Form(q)[2][j] = b*B[2][j] /\ Form(q)[3][j] = b*B[3][j]
      BY <1>4, <2>1
    <2>4. Form(r)[i][j] = k*k * (c * C[i][j])
      BY <1>4, <1>6
    <2>5. k*k*c \in Int /\ k*k * (c * C[i][j]) = (k*k*c) * C[i][j]
      BY <1>3, <2>2
    <2>6. (a*A[i][1])*(b*B[1][j]) + (a*A[i][2])*(b*B[2][j]) + (a*A[i][3])*(b*B[3][j])
          = (k*k*c) * C[i][j]
      BY <1>7, <2>3, <2>4, <2>5
    <2> DEFINE e == a*b
               m == A[i][1]*B[1][j] + A[i][2]*B[2][j] + A[i][3]*B[3][j]
               l == C[i][j]
    <2>7. (a*A[i][1])*(b*B[1][j]) + (a*A[i][2])*(b*B[2][j]) + (a*A[i][3])*(b*B[3][j]) = e * m
      <3>1. a \in Int /\ b \in Int
        BY <1>3
      <3>2. HasFactor(a, b, A[i][1], A[i][2], A[i][3], B[1][j], B[2][j], B[3][j])
        BY <2>2, <3>1, CommonFactor
      <3> QED
        BY <3>2 DEF HasFactor
    <2>8. e * m = e * l
      BY <1>5, <2>6, <2>7
    <2>9. e \in {1, 2, 4, 8, 16}
      BY <1>3
    <2>10. m \in Int /\ l \in Int
      BY <2>2
    <2> HIDE DEF e, m, l
    <2>11. l = m
      BY <2>8, <2>9, <2>10
    <2> QED
      BY <2>11 DEF l, m
  <1>9. /\ Product(A, B) \in Mat
        /\ \A i, j \in 1..3 : Product(A, B)[i][j] = A[i][1]*B[1][j] + A[i][2]*B[2][j] + A[i][3]*B[3][j]
    BY <1>4, ProductIs
  <1>10. C = Product(A, B)
    BY <1>4, <1>8, <1>9, MatEqual
  <1> QED
    BY <1>10 DEF A, B, C, s

-----------------------------------------------------------------------------
(* The turns about the axes.                                               *)
xQuat(k) == <<cosHalf(k), sinHalf(k), 0, 0>>
yQuat(k) == <<cosHalf(k), 0, sinHalf(k), 0>>
zQuat(k) == <<cosHalf(k), 0, 0, sinHalf(k)>>

xRot(k) == <<<<1, 0, 0>>, <<0, cos(k), sin(k)>>, <<0, -sin(k), cos(k)>>>>
yRot(k) == <<<<cos(k), 0, -sin(k)>>, <<0, 1, 0>>, <<sin(k), 0, cos(k)>>>>
zRot(k) == <<<<cos(k), sin(k), 0>>, <<-sin(k), cos(k), 0>>, <<0, 0, 1>>>>

LEMMA QuarterTurns ==
  ASSUME NEW k \in 0..3
  PROVE  \/ cosHalf(k) = 1 /\ sinHalf(k) = 0 /\ cos(k) = 1 /\ sin(k) = 0 /\ k = 0
         \/ cosHalf(k) = 1 /\ sinHalf(k) = 1 /\ cos(k) = 0 /\ sin(k) = 1 /\ k = 1
         \/ cosHalf(k) = 0 /\ sinHalf(k) = 1 /\ cos(k) = -1 /\ sin(k) = 0 /\ k = 2
         \/ cosHalf(k) = -1 /\ sinHalf(k) = 1 /\ cos(k) = 0 /\ sin(k) = -1 /\ k = 3
PROOF
  <1>1. /\ cosHalf(0) = 1 /\ cosHalf(1) = 1 /\ cosHalf(2) = 0 /\ cosHalf(3) = -1
        /\ sinHalf(0) = 0 /\ sinHalf(1) = 1 /\ sinHalf(2) = 1 /\ sinHalf(3) = 1
    BY DEF cosHalf, sinHalf
  <1>2. 0 % 4 = 0 /\ 1 % 4 = 1 /\ 2 % 4 = 2 /\ 3 % 4 = 3
    OBVIOUS
  <1>3. /\ cos(0) = 1 /\ cos(1) = 0 /\ cos(2) = -1 /\ cos(3) = 0
        /\ sin(0) = 0 /\ sin(1) = 1 /\ sin(2) = 0 /\ sin(3) = -1
    BY <1>2 DEF cos, sin
  <1>4. k = 0 \/ k = 1 \/ k = 2 \/ k = 3
    OBVIOUS
  <1> QED
    BY <1>1, <1>3, <1>4

LEMMA TupleIsQuat ==
  ASSUME NEW a \in Int, NEW b \in Int, NEW c \in Int, NEW d \in Int
  PROVE  <<a, b, c, d>> \in Quat
  BY DEF Quat

LEMMA TupleIsRotor ==
  ASSUME NEW a \in -1..1, NEW b \in -1..1, NEW c \in -1..1, NEW d \in -1..1,
         a*a + b*b + c*c + d*d \in {1, 2, 4}
  PROVE  <<a, b, c, d>> \in Rotor
PROOF
  <1> DEFINE q == <<a, b, c, d>>
  <1>1. q \in Quat /\ q \in [1..4 -> -1..1]
    BY DEF Quat
  <1>2. Dot(q, q) = a*a + b*b + c*c + d*d
    BY <1>1, DotQuat
  <1> HIDE DEF q
  <1>3. q \in Rotor
    BY <1>1, <1>2 DEF Rotor
  <1> QED
    BY <1>3 DEF q

(* A matrix is that of a quaternion when the entries agree.                *)
LEMMA MatOfQuatIs ==
  ASSUME NEW q \in Rotor, NEW M \in Mat, NEW n \in {1, 2, 4}, Dot(q, q) = n,
         \A i, j \in 1..3 : Form(q)[i][j] = n * M[i][j]
  PROVE  quatToRotMat(q) = M
PROOF
  <1> DEFINE U == quatToRotMat(q)
  <1>1. U \in Mat /\ \A i, j \in 1..3 : n * U[i][j] = Form(q)[i][j]
    BY MatOfQuat
  <1> HIDE DEF U
  <1>2. ASSUME NEW i \in 1..3, NEW j \in 1..3 PROVE U[i][j] = M[i][j]
    <2>1. U[i][j] \in Int /\ M[i][j] \in Int
      BY <1>1, MatEntry
    <2>2. n * U[i][j] = n * M[i][j]
      BY <1>1
    <2> QED
      BY <2>1, <2>2
  <1>3. U = M
    BY <1>1, <1>2, MatEqual
  <1> QED
    BY <1>3 DEF U

LEMMA AxisTurns ==
  ASSUME NEW k \in 0..3
  PROVE  /\ xQuat(k) \in Rotor /\ quatToRotMat(xQuat(k)) = xRot(k)
         /\ yQuat(k) \in Rotor /\ quatToRotMat(yQuat(k)) = yRot(k)
         /\ zQuat(k) \in Rotor /\ quatToRotMat(zQuat(k)) = zRot(k)
PROOF
  <1> DEFINE c == cosHalf(k)
             s == sinHalf(k)
             C == cos(k)
             S == sin(k)
             n == c*c + s*s
  <1>1. \/ c = 1 /\ s = 0 /\ C = 1 /\ S = 0
        \/ c = 1 /\ s = 1 /\ C = 0 /\ S = 1
        \/ c = 0 /\ s = 1 /\ C = -1 /\ S = 0
        \/ c = -1 /\ s = 1 /\ C = 0 /\ S = -1
    BY QuarterTurns
  <1>2. /\ xQuat(k) = <<c, s, 0, 0>> /\ yQuat(k) = <<c, 0, s, 0>> /\ zQuat(k) = <<c, 0, 0, s>>
        /\ xRot(k) = <<<<1, 0, 0>>, <<0, C, S>>, <<0, -S, C>>>>
        /\ yRot(k) = <<<<C, 0, -S>>, <<0, 1, 0>>, <<S, 0, C>>>>
        /\ zRot(k) = <<<<C, S, 0>>, <<-S, C, 0>>, <<0, 0, 1>>>>
    BY DEF xQuat, yQuat, zQuat, xRot, yRot, zRot
  <1> HIDE DEF c, s, C, S
  <1>3. /\ c \in -1..1 /\ s \in -1..1 /\ n \in {1, 2} /\ 0 \in -1..1 /\ 0 \in Int /\ 1 \in Int
        /\ C \in Int /\ S \in Int /\ -S \in Int
        /\ n = c*c + s*s + 0*0 + 0*0 /\ n = c*c + 0*0 + s*s + 0*0 /\ n = c*c + 0*0 + 0*0 + s*s
    BY <1>1
  <1>4. c*c - s*s = n*C /\ 2*(c*s) = n*S /\ 2*(s*c) = n*S /\ c*c + s*s = n
    BY <1>1
  <1>5. \A i \in 1..3 : i = 1 \/ i = 2 \/ i = 3
    OBVIOUS
  <1> HIDE DEF n
  <1>6. xRot(k) \in Mat /\ yRot(k) \in Mat /\ zRot(k) \in Mat
    <2>1. xRot(k) \in Mat
      BY <1>2, <1>3 DEF Mat, Vec
    <2>2. yRot(k) \in Mat
      BY <1>2, <1>3 DEF Mat, Vec
    <2>3. zRot(k) \in Mat
      BY <1>2, <1>3 DEF Mat, Vec
    <2> QED
      BY <2>1, <2>2, <2>3
  <1>7. xQuat(k) \in Rotor /\ yQuat(k) \in Rotor /\ zQuat(k) \in Rotor
    BY ZenonT(60), <1>2, <1>3, TupleIsRotor
  <1>8. n \in {1, 2, 4} /\ n \in Int /\ c \in Int /\ s \in Int
    BY <1>3
  <1>9. Dot(xQuat(k), xQuat(k)) = n /\ Dot(yQuat(k), yQuat(k)) = n /\ Dot(zQuat(k), zQuat(k)) = n
    BY <1>2, <1>3, <1>7, RotorIs
  <1>10. \A i, j \in 1..3 : Form(xQuat(k))[i][j] = n * xRot(k)[i][j]
    BY <1>2, <1>3, <1>4, <1>5, <1>8 DEF Form, Square, Twice
  <1>11. \A i, j \in 1..3 : Form(yQuat(k))[i][j] = n * yRot(k)[i][j]
    BY <1>2, <1>3, <1>4, <1>5, <1>8 DEF Form, Square, Twice
  <1>12. \A i, j \in 1..3 : Form(zQuat(k))[i][j] = n * zRot(k)[i][j]
    BY <1>2, <1>3, <1>4, <1>5, <1>8 DEF Form, Square, Twice
  <1> QED
    BY <1>6, <1>7, <1>8, <1>9, <1>10, <1>11, <1>12, MatOfQuatIs

(* A factor of one quaternion is a factor of the product.                  *)
FactorsOut(k, a, b, c, d, s, x, y, z) ==
  /\ s*(k*a) - x*(k*b) - y*(k*c) - z*(k*d) = k*(s*a - x*b - y*c - z*d)
  /\ s*(k*b) + (k*a)*x + (y*(k*d) - z*(k*c)) = k*(s*b + a*x + (y*d - z*c))
  /\ s*(k*c) + (k*a)*y + (z*(k*b) - x*(k*d)) = k*(s*c + a*y + (z*b - x*d))
  /\ s*(k*d) + (k*a)*z + (x*(k*c) - y*(k*b)) = k*(s*d + a*z + (x*c - y*b))
  /\ (k*s)*a - (k*x)*b - (k*y)*c - (k*z)*d = k*(s*a - x*b - y*c - z*d)
  /\ (k*s)*b + a*(k*x) + ((k*y)*d - (k*z)*c) = k*(s*b + a*x + (y*d - z*c))
  /\ (k*s)*c + a*(k*y) + ((k*z)*b - (k*x)*d) = k*(s*c + a*y + (z*b - x*d))
  /\ (k*s)*d + a*(k*z) + ((k*x)*c - (k*y)*b) = k*(s*d + a*z + (x*c - y*b))

LEMMA FactorOut ==
  ASSUME NEW k \in Int, NEW a \in Int, NEW b \in Int, NEW c \in Int, NEW d \in Int,
         NEW s \in Int, NEW x \in Int, NEW y \in Int, NEW z \in Int
  PROVE  FactorsOut(k, a, b, c, d, s, x, y, z)
  BY DEF FactorsOut

LEMMA HamiltonScaled ==
  ASSUME NEW k \in Int, NEW p \in Quat, NEW q \in Quat
  PROVE  /\ Hamilton(Scaled(k, p), q) = Scaled(k, Hamilton(p, q))
         /\ Hamilton(p, Scaled(k, q)) = Scaled(k, Hamilton(p, q))
PROOF
  <1> DEFINE l == Hamilton(Scaled(k, p), q)
             r == Hamilton(p, Scaled(k, q))
             m == Scaled(k, Hamilton(p, q))
  <1>1. /\ p[1] \in Int /\ p[2] \in Int /\ p[3] \in Int /\ p[4] \in Int
        /\ q[1] \in Int /\ q[2] \in Int /\ q[3] \in Int /\ q[4] \in Int
    BY QuatIs
  <1>2. /\ l[1] = q[1]*(k*p[1]) - q[2]*(k*p[2]) - q[3]*(k*p[3]) - q[4]*(k*p[4])
        /\ l[2] = q[1]*(k*p[2]) + (k*p[1])*q[2] + (q[3]*(k*p[4]) - q[4]*(k*p[3]))
        /\ l[3] = q[1]*(k*p[3]) + (k*p[1])*q[3] + (q[4]*(k*p[2]) - q[2]*(k*p[4]))
        /\ l[4] = q[1]*(k*p[4]) + (k*p[1])*q[4] + (q[2]*(k*p[3]) - q[3]*(k*p[2]))
    BY DEF Hamilton, Scaled
  <1>3. /\ r[1] = (k*q[1])*p[1] - (k*q[2])*p[2] - (k*q[3])*p[3] - (k*q[4])*p[4]
        /\ r[2] = (k*q[1])*p[2] + p[1]*(k*q[2]) + ((k*q[3])*p[4] - (k*q[4])*p[3])
        /\ r[3] = (k*q[1])*p[3] + p[1]*(k*q[3]) + ((k*q[4])*p[2] - (k*q[2])*p[4])
        /\ r[4] = (k*q[1])*p[4] + p[1]*(k*q[4]) + ((k*q[2])*p[3] - (k*q[3])*p[2])
    BY DEF Hamilton, Scaled
  <1>4. /\ m[1] = k*(q[1]*p[1] - q[2]*p[2] - q[3]*p[3] - q[4]*p[4])
        /\ m[2] = k*(q[1]*p[2] + p[1]*q[2] + (q[3]*p[4] - q[4]*p[3]))
        /\ m[3] = k*(q[1]*p[3] + p[1]*q[3] + (q[4]*p[2] - q[2]*p[4]))
        /\ m[4] = k*(q[1]*p[4] + p[1]*q[4] + (q[2]*p[3] - q[3]*p[2]))
    BY DEF Hamilton, Scaled
  <1>5. l \in Quat /\ r \in Quat /\ m \in Quat
    BY MultIs, ScaledIs
  <1> HIDE DEF l, r, m
  <1>6. FactorsOut(k, p[1], p[2], p[3], p[4], q[1], q[2], q[3], q[4])
    BY <1>1, FactorOut
  <1>7. l[1] = m[1] /\ l[2] = m[2] /\ l[3] = m[3] /\ l[4] = m[4]
    BY <1>2, <1>4, <1>6 DEF FactorsOut
  <1>8. r[1] = m[1] /\ r[2] = m[2] /\ r[3] = m[3] /\ r[4] = m[4]
    BY <1>3, <1>4, <1>6 DEF FactorsOut
  <1>9. l = m /\ r = m
    BY <1>5, <1>7, <1>8, QuatIs
  <1> QED
    BY <1>9 DEF l, r, m

LEMMA ScaledTwice ==
  ASSUME NEW k \in Int, NEW n \in Int, NEW q \in Quat
  PROVE  Scaled(k, Scaled(n, q)) = Scaled(k*n, q)
PROOF
  <1>1. \A i \in 1..4 : q[i] \in Int
    BY DEF Quat
  <1>2. \A i \in 1..4 : k * (n * q[i]) = (k*n) * q[i]
    BY <1>1
  <1> QED
    BY <1>2 DEF Scaled

(* Two products in a row can be shortened at the end.                      *)
LEMMA MultTwice ==
  ASSUME NEW p \in Rotor, NEW q \in Rotor, NEW r \in Rotor
  PROVE  quatMult(quatMult(p, q), r) = Shortest(Hamilton(Hamilton(p, q), r))
PROOF
  <1> DEFINE m == quatMult(p, q)
             s == quatMult(m, r)
             h == Hamilton(Hamilton(p, q), r)
  <1>1. m \in Rotor
    BY MultReduces
  <1>2. PICK k \in {1, 2, 4} : Hamilton(p, q) = Scaled(k, m)
    BY MultReduces
  <1>3. s \in Rotor
    BY <1>1, MultReduces
  <1>4. PICK n \in {1, 2, 4} : Hamilton(m, r) = Scaled(n, s)
    BY <1>1, MultReduces
  <1>5. /\ p \in Quat /\ q \in Quat /\ r \in Quat /\ m \in Quat /\ s \in Quat
        /\ k \in Int /\ n \in Int /\ k*n \in Int
    BY <1>1, <1>3, RotorIs
  <1>6. h = Scaled(k, Scaled(n, s))
    BY <1>2, <1>4, <1>5, HamiltonScaled
  <1>7. h = Scaled(k*n, s)
    BY <1>5, <1>6, ScaledTwice
  <1> DEFINE e == k*n
             a == Dot(p, p)
             b == Dot(q, q)
             c == Dot(r, r)
             d == Dot(s, s)
  <1>8. Dot(h, h) = (a*b)*c
    BY <1>5, MultIs, HamiltonNorm
  <1>9. Dot(h, h) = e*e*d
    BY <1>5, <1>7, ScaledIs
  <1>10. a \in {1, 2, 4} /\ b \in {1, 2, 4} /\ c \in {1, 2, 4} /\ d \in {1, 2, 4}
    BY <1>3, RotorIs
  <1>11. e \in {1, 2, 4, 8, 16}
    BY <1>2, <1>4
  <1> HIDE DEF e, a, b, c, d, h, s
  <1>12. (a*b)*c <= 64
    BY <1>10
  <1>13. e # 16
    BY <1>8, <1>9, <1>10, <1>12
  <1>14. e \in 1..8
    BY <1>11, <1>13
  <1>15. Shortest(h) = s
    BY <1>3, <1>7, <1>14, RotorShortest DEF e
  <1> QED
    BY <1>15 DEF h, s

(* Roll, pitch and yaw give one orientation as a quaternion and as a matrix. *)
LEMMA AnglesAre ==
  ASSUME NEW a \in Turns
  PROVE  /\ rpyToquat(a) \in Rotor
         /\ quatToRotMat(rpyToquat(a)) = rpyToRot(a)
PROOF
  <1> DEFINE x == xQuat(a[1])
             y == yQuat(a[2])
             z == zQuat(a[3])
             cr == cosHalf(a[1])
             sr == sinHalf(a[1])
             cp == cosHalf(a[2])
             sp == sinHalf(a[2])
             cy == cosHalf(a[3])
             sy == sinHalf(a[3])
  <1>1. a[1] \in 0..3 /\ a[2] \in 0..3 /\ a[3] \in 0..3
    BY DEF Turns
  <1>2. /\ x \in Rotor /\ quatToRotMat(x) = xRot(a[1])
        /\ y \in Rotor /\ quatToRotMat(y) = yRot(a[2])
        /\ z \in Rotor /\ quatToRotMat(z) = zRot(a[3])
    BY <1>1, AxisTurns
  <1>3. /\ cr \in Int /\ sr \in Int /\ cp \in Int /\ sp \in Int /\ cy \in Int /\ sy \in Int
    BY <1>1, QuarterTurns
  <1>4. /\ x = <<cr, sr, 0, 0>> /\ y = <<cp, 0, sp, 0>> /\ z = <<cy, 0, 0, sy>>
    BY DEF xQuat, yQuat, zQuat
  <1> DEFINE g == Hamilton(x, y)
             h == Hamilton(g, z)
  <1>5. x \in Quat /\ y \in Quat /\ z \in Quat /\ g \in Quat /\ h \in Quat
    BY <1>2, RotorIs, MultIs
  <1>6. rpyToquat(a) = Shortest(<<cr*cp*cy + sr*sp*sy, sr*cp*cy - cr*sp*sy,
                                  cr*sp*cy + sr*cp*sy, cr*cp*sy - sr*sp*cy>>)
    BY DEF rpyToquat
  <1> HIDE DEF x, y, z, cr, sr, cp, sp, cy, sy
  <1>7. g[1] = cr*cp /\ g[2] = sr*cp /\ g[3] = cr*sp /\ g[4] = -(sr*sp)
    BY <1>3, <1>4 DEF Hamilton
  <1> HIDE DEF g
  <1>8. /\ h[1] = cr*cp*cy + sr*sp*sy /\ h[2] = sr*cp*cy - cr*sp*sy
        /\ h[3] = cr*sp*cy + sr*cp*sy /\ h[4] = cr*cp*sy - sr*sp*cy
    BY <1>3, <1>4, <1>7 DEF Hamilton
  <1>9. h = <<h[1], h[2], h[3], h[4]>>
    BY DEF Hamilton
  <1> HIDE DEF h
  <1>10. rpyToquat(a) = Shortest(h)
    BY <1>6, <1>8, <1>9
  <1>11. rpyToquat(a) = quatMult(quatMult(x, y), z)
    BY <1>2, <1>10, MultTwice DEF h, g
  <1>12. rpyToRot(a) = Product(Product(xRot(a[1]), yRot(a[2])), zRot(a[3]))
    BY DEF rpyToRot, xRot, yRot, zRot
  <1> QED
    BY <1>2, <1>11, <1>12, MultReduces, MatOfMult

-----------------------------------------------------------------------------
(* Back from the matrix to the quaternion.                                 *)
(* The shortest vector on the ray of a multiple, of either sign.           *)
LEMMA Opposite ==
  ASSUME NEW q \in Rotor
  PROVE  /\ Neg(q) \in Rotor
         /\ Neg(q)[1] = -q[1] /\ Neg(q)[2] = -q[2] /\ Neg(q)[3] = -q[3] /\ Neg(q)[4] = -q[4]
         /\ \A k \in Int : Scaled(-k, q) = Scaled(k, Neg(q))
PROOF
  <1> DEFINE p == Neg(q)
  <1>1. q \in [1..4 -> -1..1] /\ q \in Quat
    BY RotorIs
  <1>2. p = [i \in 1..4 |-> -q[i]]
    BY <1>1 DEF Neg
  <1>3. \A i \in 1..4 : q[i] \in -1..1 /\ -q[i] \in -1..1 /\ q[i] \in Int
    BY <1>1
  <1>4. p \in [1..4 -> -1..1] /\ p \in Quat
    BY <1>2, <1>3 DEF Quat
  <1>5. p[1] = -q[1] /\ p[2] = -q[2] /\ p[3] = -q[3] /\ p[4] = -q[4]
    BY <1>2
  <1> HIDE DEF p
  <1>6. /\ Dot(p, p) = p[1]*p[1] + p[2]*p[2] + p[3]*p[3] + p[4]*p[4]
        /\ Dot(q, q) = q[1]*q[1] + q[2]*q[2] + q[3]*q[3] + q[4]*q[4]
    BY <1>1, <1>4, DotQuat
  <1>7. \A i \in Int : (-i)*(-i) = i*i
    OBVIOUS
  <1>8. Dot(p, p) = Dot(q, q)
    BY <1>3, <1>5, <1>6, <1>7
  <1>9. p \in Rotor
    BY <1>4, <1>8 DEF Rotor
  <1>10. ASSUME NEW k \in Int PROVE Scaled(-k, q) = Scaled(k, p)
    <2>1. \A i \in 1..4 : (-k) * q[i] = k * (-q[i])
      BY <1>3
    <2>2. \A i \in 1..4 : (-k) * q[i] = k * p[i]
      BY <1>2, <2>1
    <2> QED
      BY <2>2 DEF Scaled
  <1> QED
    BY <1>5, <1>9, <1>10 DEF p

LEMMA PivotShortest ==
  ASSUME NEW q \in Rotor, NEW p \in {-1, 1}, NEW e \in {1, 2, 4}
  PROVE  UpToSign(Shortest(Scaled(e*p, q)), q)
PROOF
  <1>1. e \in 1..8 /\ e \in Int
    OBVIOUS
  <1>2. CASE p = 1
    <2>1. e*p = e
      BY <1>1, <1>2
    <2> QED
      BY <1>1, <2>1, RotorShortest DEF UpToSign
  <1>3. CASE p = -1
    <2>1. e*p = -e
      BY <1>1, <1>3
    <2>2. Scaled(e*p, q) = Scaled(e, Neg(q)) /\ Neg(q) \in Rotor
      BY <1>1, <2>1, Opposite
    <2> QED
      BY <1>1, <2>2, RotorShortest DEF UpToSign
  <1> QED
    BY <1>2, <1>3

(* Each branch of rotMatToQuat divides by a component that is not 0.       *)
HasPivots(n, s, x, y, z, d1, d2, d3) ==
  /\ d1 + d2 + d3 > 0 => s # 0
  /\ d2 > d1 /\ d2 > d3 => y # 0
  /\ d3 > d1 => z # 0
  /\ ~ d1 + d2 + d3 > 0 /\ ~ (d2 > d1 /\ d2 > d3) /\ ~ d3 > d1 => x # 0
  /\ n*(d1 + d2 + d3 + 1) = 4*(s*s)
  /\ n*(d1 - d2 - d3 + 1) = 4*(x*x)
  /\ n*(d2 - d1 - d3 + 1) = 4*(y*y)
  /\ n*(d3 - d1 - d2 + 1) = 4*(z*z)

LEMMA Pivots ==
  ASSUME NEW n \in {1, 2, 4}, NEW s \in -1..1, NEW x \in -1..1, NEW y \in -1..1, NEW z \in -1..1,
         n = s*s + x*x + y*y + z*z,
         NEW d1 \in Int, NEW d2 \in Int, NEW d3 \in Int,
         n*d1 = Square(s, x, y, z), n*d2 = Square(s, y, x, z), n*d3 = Square(s, z, x, y)
  PROVE  HasPivots(n, s, x, y, z, d1, d2, d3)
PROOF
  <1>1. /\ n*(d1 + d2 + d3 + 1) = 4*(s*s)
        /\ n*(d1 - d2 - d3 + 1) = 4*(x*x)
        /\ n*(d2 - d1 - d3 + 1) = 4*(y*y)
        /\ n*(d3 - d1 - d2 + 1) = 4*(z*z)
    BY DEF Square
  <1>2. n*d2 - n*d1 = 2*(y*y) - 2*(x*x) /\ n*d3 - n*d1 = 2*(z*z) - 2*(x*x)
        /\ n*d2 - n*d3 = 2*(y*y) - 2*(z*z) /\ n*d1 + n*d2 + n*d3 = 4*(s*s) - n
    BY DEF Square
  <1>3. /\ s*s \in 0..1 /\ x*x \in 0..1 /\ y*y \in 0..1 /\ z*z \in 0..1
        /\ (s = 0 <=> s*s = 0) /\ (x = 0 <=> x*x = 0) /\ (y = 0 <=> y*y = 0) /\ (z = 0 <=> z*z = 0)
    OBVIOUS
  <1>4. d1 + d2 + d3 > 0 => s # 0
    BY <1>2, <1>3
  <1>5. d2 > d1 => y # 0
    BY <1>2, <1>3
  <1>6. d3 > d1 => z # 0
    BY <1>2, <1>3
  <1>7. ASSUME x = 0, ~ d1 + d2 + d3 > 0, ~ d3 > d1, ~ (d2 > d1 /\ d2 > d3) PROVE FALSE
    <2>1. z*z = 0
      BY <1>2, <1>3, <1>7
    <2>2. y*y = 0
      BY <1>2, <1>3, <1>7, <2>1
    <2>3. n = s*s
      BY <1>3, <1>7, <2>1, <2>2
    <2> QED
      BY <1>2, <1>7, <2>3
  <1> QED
    BY <1>1, <1>4, <1>5, <1>6, <1>7 DEF HasPivots

(* Differences and sums across the diagonal.                               *)
HasOffDiagonals(n, s, x, y, z, f, g) == n*(f - g) = 4*(s*z) /\ n*(f + g) = 4*(x*y)

LEMMA OffDiagonals ==
  ASSUME NEW n \in Int, NEW s \in Int, NEW x \in Int, NEW y \in Int, NEW z \in Int,
         NEW f \in Int, NEW g \in Int, n*f = Twice(x, y, s, z), n*g = Twice(x, y, -s, z)
  PROVE  HasOffDiagonals(n, s, x, y, z, f, g)
  BY DEF HasOffDiagonals, Twice

LEMMA Quotient ==
  ASSUME NEW n \in {1, 2, 4}, NEW c \in Int, NEW m \in Int, n*c = 4*m
  PROVE  c = (4 \div n) * m
  OBVIOUS

LEMMA MatToQuat ==
  ASSUME NEW q \in Rotor
  PROVE  UpToSign(rotMatToQuat(quatToRotMat(q)), q)
PROOF
  <1> DEFINE n == Dot(q, q)
             s == q[1]
             x == q[2]
             y == q[3]
             z == q[4]
             M == quatToRotMat(q)
             e == 4 \div n
             tr == M[1][1] + M[2][2] + M[3][3]
  <1>1. /\ n \in {1, 2, 4} /\ n = s*s + x*x + y*y + z*z /\ q \in Quat
        /\ s \in -1..1 /\ x \in -1..1 /\ y \in -1..1 /\ z \in -1..1
    BY RotorIs
  <1>2. M \in Mat /\ \A i, j \in 1..3 : n * M[i][j] = Form(q)[i][j]
    BY MatOfQuat
  <1>3. /\ n*M[1][1] = Square(s, x, y, z) /\ n*M[2][2] = Square(s, y, x, z)
        /\ n*M[3][3] = Square(s, z, x, y)
        /\ n*M[1][2] = Twice(x, y, s, z) /\ n*M[2][1] = Twice(x, y, -s, z)
        /\ n*M[3][1] = Twice(x, z, s, y) /\ n*M[1][3] = Twice(x, z, -s, y)
        /\ n*M[2][3] = Twice(y, z, s, x) /\ n*M[3][2] = Twice(y, z, -s, x)
    BY <1>2, FormIs
  <1>4. /\ M[1][1] \in Int /\ M[1][2] \in Int /\ M[1][3] \in Int
        /\ M[2][1] \in Int /\ M[2][2] \in Int /\ M[2][3] \in Int
        /\ M[3][1] \in Int /\ M[3][2] \in Int /\ M[3][3] \in Int
    BY <1>2, MatEntry
  <1>5. e \in {1, 2, 4}
    BY <1>1
  <1>6. rotMatToQuat(M) = Shortest(
          IF tr > 0
          THEN <<tr + 1, M[2][3] - M[3][2], M[3][1] - M[1][3], M[1][2] - M[2][1]>>
          ELSE IF M[2][2] > M[1][1] /\ M[2][2] > M[3][3]
          THEN <<M[3][1] - M[1][3], M[1][2] + M[2][1], M[2][2] - M[1][1] - M[3][3] + 1, M[2][3] + M[3][2]>>
          ELSE IF M[3][3] > M[1][1]
          THEN <<M[1][2] - M[2][1], M[3][1] + M[1][3], M[2][3] + M[3][2], M[3][3] - M[1][1] - M[2][2] + 1>>
          ELSE <<M[2][3] - M[3][2], M[1][1] - M[2][2] - M[3][3] + 1, M[1][2] + M[2][1], M[3][1] + M[1][3]>>)
    BY DEF rotMatToQuat, Trace
  <1> HIDE DEF n, s, x, y, z, M, e, tr
  <1>7. n \in Int /\ s \in Int /\ x \in Int /\ y \in Int /\ z \in Int
    BY <1>1
  <1>8. /\ n*(M[1][2] - M[2][1]) = 4*(s*z) /\ n*(M[1][2] + M[2][1]) = 4*(x*y)
        /\ n*(M[3][1] - M[1][3]) = 4*(s*y) /\ n*(M[3][1] + M[1][3]) = 4*(x*z)
        /\ n*(M[2][3] - M[3][2]) = 4*(s*x) /\ n*(M[2][3] + M[3][2]) = 4*(y*z)
    <2>1. HasOffDiagonals(n, s, x, y, z, M[1][2], M[2][1])
      BY <1>3, <1>4, <1>7, OffDiagonals
    <2>2. HasOffDiagonals(n, s, x, z, y, M[3][1], M[1][3])
      BY <1>3, <1>4, <1>7, OffDiagonals
    <2>3. HasOffDiagonals(n, s, y, z, x, M[2][3], M[3][2])
      BY <1>3, <1>4, <1>7, OffDiagonals
    <2> QED
      BY <2>1, <2>2, <2>3 DEF HasOffDiagonals
  <1>9. /\ n*(tr + 1) = 4*(s*s)
        /\ n*(M[1][1] - M[2][2] - M[3][3] + 1) = 4*(x*x)
        /\ n*(M[2][2] - M[1][1] - M[3][3] + 1) = 4*(y*y)
        /\ n*(M[3][3] - M[1][1] - M[2][2] + 1) = 4*(z*z)
        /\ tr > 0 => s # 0
        /\ M[2][2] > M[1][1] /\ M[2][2] > M[3][3] => y # 0
        /\ M[3][3] > M[1][1] => z # 0
        /\ ~ tr > 0 /\ ~ (M[2][2] > M[1][1] /\ M[2][2] > M[3][3]) /\ ~ M[3][3] > M[1][1] => x # 0
    <2>1. HasPivots(n, s, x, y, z, M[1][1], M[2][2], M[3][3])
      BY <1>1, <1>3, <1>4, Pivots
    <2> QED
      BY <2>1 DEF HasPivots, tr
  <1>10. ASSUME NEW v \in Int, NEW m \in Int, n*v = 4*m PROVE v = e*m
    BY <1>1, <1>10, Quotient DEF e
  <1>11. tr \in Int
    BY <1>4 DEF tr
  <1> DEFINE Multiple(p) == UpToSign(Shortest(Scaled(e*p, q)), q)
  <1>12. ASSUME NEW p \in -1..1, p # 0 PROVE Multiple(p)
    <2>1. p \in {-1, 1}
      BY <1>12
    <2> QED
      BY <1>5, <2>1, PivotShortest
  <1>13. ASSUME NEW p \in Int
         PROVE  Scaled(e*p, q) = <<e*(p*s), e*(p*x), e*(p*y), e*(p*z)>>
    <2>1. (e*p)*s = e*(p*s) /\ (e*p)*x = e*(p*x) /\ (e*p)*y = e*(p*y) /\ (e*p)*z = e*(p*z)
      BY <1>5, <1>7
    <2>2. Scaled(e*p, q)[1] = (e*p)*s /\ Scaled(e*p, q)[2] = (e*p)*x
          /\ Scaled(e*p, q)[3] = (e*p)*y /\ Scaled(e*p, q)[4] = (e*p)*z
      BY DEF Scaled, s, x, y, z
    <2>3. e*p \in Int
      BY <1>5
    <2>4. Scaled(e*p, q) \in Quat
      BY <1>1, <2>3, ScaledIs
    <2>5. e*(p*s) \in Int /\ e*(p*x) \in Int /\ e*(p*y) \in Int /\ e*(p*z) \in Int
      BY <1>5, <1>7
    <2>6. <<e*(p*s), e*(p*x), e*(p*y), e*(p*z)>> \in Quat
      BY <2>5, TupleIsQuat
    <2> QED
      BY <2>1, <2>2, <2>4, <2>6, QuatIs
  <1> HIDE DEF Multiple
  <1>14. /\ M[1][2] - M[2][1] = e*(s*z) /\ M[1][2] + M[2][1] = e*(x*y)
         /\ M[3][1] - M[1][3] = e*(s*y) /\ M[3][1] + M[1][3] = e*(x*z)
         /\ M[2][3] - M[3][2] = e*(s*x) /\ M[2][3] + M[3][2] = e*(y*z)
    <2>1. /\ s*z \in Int /\ x*y \in Int /\ s*y \in Int /\ x*z \in Int /\ s*x \in Int /\ y*z \in Int
          /\ M[1][2] - M[2][1] \in Int /\ M[1][2] + M[2][1] \in Int
          /\ M[3][1] - M[1][3] \in Int /\ M[3][1] + M[1][3] \in Int
          /\ M[2][3] - M[3][2] \in Int /\ M[2][3] + M[3][2] \in Int
      BY <1>4, <1>7
    <2> QED
      BY <1>8, <1>10, <2>1
  <1>15. /\ tr + 1 = e*(s*s) /\ M[1][1] - M[2][2] - M[3][3] + 1 = e*(x*x)
         /\ M[2][2] - M[1][1] - M[3][3] + 1 = e*(y*y)
         /\ M[3][3] - M[1][1] - M[2][2] + 1 = e*(z*z)
    <2>1. /\ s*s \in Int /\ x*x \in Int /\ y*y \in Int /\ z*z \in Int /\ tr + 1 \in Int
          /\ M[1][1] - M[2][2] - M[3][3] + 1 \in Int
          /\ M[2][2] - M[1][1] - M[3][3] + 1 \in Int
          /\ M[3][3] - M[1][1] - M[2][2] + 1 \in Int
      BY <1>4, <1>7, <1>11
    <2> QED
      BY <1>9, <1>10, <2>1
  <1>16. /\ x*s = s*x /\ y*s = s*y /\ z*s = s*z /\ y*x = x*y /\ z*x = x*z /\ z*y = y*z
    BY <1>7
  <1>17. CASE tr > 0
    <2>1. rotMatToQuat(M) = Shortest(Scaled(e*s, q))
      BY <1>6, <1>7, <1>13, <1>14, <1>15, <1>16, <1>17
    <2>2. Multiple(s)
      BY <1>1, <1>9, <1>12, <1>17
    <2> QED
      BY <2>1, <2>2 DEF Multiple, M
  <1>18. CASE ~ tr > 0 /\ M[2][2] > M[1][1] /\ M[2][2] > M[3][3]
    <2>1. rotMatToQuat(M) = Shortest(Scaled(e*y, q))
      BY <1>6, <1>7, <1>13, <1>14, <1>15, <1>16, <1>18
    <2>2. Multiple(y)
      BY <1>1, <1>9, <1>12, <1>18
    <2> QED
      BY <2>1, <2>2 DEF Multiple, M
  <1>19. CASE ~ tr > 0 /\ ~ (M[2][2] > M[1][1] /\ M[2][2] > M[3][3]) /\ M[3][3] > M[1][1]
    <2>1. rotMatToQuat(M) = Shortest(Scaled(e*z, q))
      BY <1>6, <1>7, <1>13, <1>14, <1>15, <1>16, <1>19
    <2>2. Multiple(z)
      BY <1>1, <1>9, <1>12, <1>19
    <2> QED
      BY <2>1, <2>2 DEF Multiple, M
  <1>20. CASE ~ tr > 0 /\ ~ (M[2][2] > M[1][1] /\ M[2][2] > M[3][3]) /\ ~ M[3][3] > M[1][1]
    <2>1. rotMatToQuat(M) = Shortest(Scaled(e*x, q))
      BY <1>6, <1>7, <1>13, <1>14, <1>15, <1>16, <1>20
    <2>2. Multiple(x)
      BY <1>1, <1>9, <1>12, <1>20
    <2> QED
      BY <2>1, <2>2 DEF Multiple, M
  <1> QED
    BY <1>17, <1>18, <1>19, <1>20

-----------------------------------------------------------------------------
(* The multiplication matrices, and what undoes a turn.                    *)
One == <<1, 0, 0, 0>>

LEMMA QuatEqual ==
  ASSUME NEW p \in Quat, NEW q \in Quat, p[1] = q[1], p[2] = q[2], p[3] = q[3], p[4] = q[4]
  PROVE  p = q
  BY QuatIs

(* Row by row, quatR and quatL give the product.                           *)
RowsMultiply(a, b, c, d, s, x, y, z) ==
  /\ s*a + (-x)*b + (-y)*c + (-z)*d = s*a - x*b - y*c - z*d
  /\ x*a + s*b + (-z)*c + y*d = s*b + a*x + (y*d - z*c)
  /\ y*a + z*b + s*c + (-x)*d = s*c + a*y + (z*b - x*d)
  /\ z*a + (-y)*b + x*c + s*d = s*d + a*z + (x*c - y*b)
  /\ a*s + (-b)*x + (-c)*y + (-d)*z = s*a - x*b - y*c - z*d
  /\ b*s + a*x + d*y + (-c)*z = s*b + a*x + (y*d - z*c)
  /\ c*s + (-d)*x + a*y + b*z = s*c + a*y + (z*b - x*d)
  /\ d*s + c*x + (-b)*y + a*z = s*d + a*z + (x*c - y*b)

LEMMA Rows ==
  ASSUME NEW a \in Int, NEW b \in Int, NEW c \in Int, NEW d \in Int,
         NEW s \in Int, NEW x \in Int, NEW y \in Int, NEW z \in Int
  PROVE  RowsMultiply(a, b, c, d, s, x, y, z)
  BY DEF RowsMultiply

LEMMA Multiplied ==
  ASSUME NEW p \in Quat, NEW q \in Quat
  PROVE  Apply(quatR(q), p) = Hamilton(p, q) /\ Apply(quatL(p), q) = Hamilton(p, q)
PROOF
  <1> DEFINE A == quatR(q)
             B == quatL(p)
             h == Hamilton(p, q)
  <1>1. /\ p[1] \in Int /\ p[2] \in Int /\ p[3] \in Int /\ p[4] \in Int
        /\ q[1] \in Int /\ q[2] \in Int /\ q[3] \in Int /\ q[4] \in Int
    BY QuatIs
  <1>2. /\ -p[2] \in Int /\ -p[3] \in Int /\ -p[4] \in Int
        /\ -q[2] \in Int /\ -q[3] \in Int /\ -q[4] \in Int
    BY <1>1
  <1>3. /\ A = <<<<q[1], -q[2], -q[3], -q[4]>>, <<q[2], q[1], -q[4], q[3]>>,
                 <<q[3], q[4], q[1], -q[2]>>, <<q[4], -q[3], q[2], q[1]>>>>
        /\ B = <<<<p[1], -p[2], -p[3], -p[4]>>, <<p[2], p[1], p[4], -p[3]>>,
                 <<p[3], -p[4], p[1], p[2]>>, <<p[4], p[3], -p[2], p[1]>>>>
    BY DEF quatR, quatL, w
  <1>4. /\ <<q[1], -q[2], -q[3], -q[4]>> \in Quat /\ <<q[2], q[1], -q[4], q[3]>> \in Quat
         /\ <<q[3], q[4], q[1], -q[2]>> \in Quat /\ <<q[4], -q[3], q[2], q[1]>> \in Quat
    BY <1>1, <1>2, TupleIsQuat
  <1>5. /\ <<p[1], -p[2], -p[3], -p[4]>> \in Quat /\ <<p[2], p[1], p[4], -p[3]>> \in Quat
         /\ <<p[3], -p[4], p[1], p[2]>> \in Quat /\ <<p[4], p[3], -p[2], p[1]>> \in Quat
    BY <1>1, <1>2, TupleIsQuat
  <1> HIDE DEF A, B
  <1>6. /\ DOMAIN A = 1..4 /\ A[1] \in Quat /\ A[2] \in Quat /\ A[3] \in Quat /\ A[4] \in Quat
        /\ DOMAIN B = 1..4 /\ B[1] \in Quat /\ B[2] \in Quat /\ B[3] \in Quat /\ B[4] \in Quat
    BY <1>3, <1>4, <1>5
  <1>7. \A i \in 1..4 : i = 1 \/ i = 2 \/ i = 3 \/ i = 4
    OBVIOUS
  <1>8. /\ Apply(A, p) = [i \in 1..4 |-> Dot(A[i], p)] /\ Apply(B, q) = [i \in 1..4 |-> Dot(B[i], q)]
    BY <1>6 DEF Apply
  <1>9. \A i \in 1..4 : Dot(A[i], p) \in Int /\ Dot(B[i], q) \in Int
    BY <1>6, <1>7, DotQuat
  <1>10. Apply(A, p) \in Quat /\ Apply(B, q) \in Quat
    BY <1>8, <1>9 DEF Quat
  <1>11. h \in Quat
    BY MultIs
  <1>12. /\ h[1] = q[1]*p[1] - q[2]*p[2] - q[3]*p[3] - q[4]*p[4]
         /\ h[2] = q[1]*p[2] + p[1]*q[2] + (q[3]*p[4] - q[4]*p[3])
         /\ h[3] = q[1]*p[3] + p[1]*q[3] + (q[4]*p[2] - q[2]*p[4])
         /\ h[4] = q[1]*p[4] + p[1]*q[4] + (q[2]*p[3] - q[3]*p[2])
    BY DEF Hamilton
  <1> HIDE DEF A, B, h
  <1>13. ASSUME NEW i \in 1..4
         PROVE  /\ Dot(A[i], p) = A[i][1]*p[1] + A[i][2]*p[2] + A[i][3]*p[3] + A[i][4]*p[4]
                /\ Dot(B[i], q) = B[i][1]*q[1] + B[i][2]*q[2] + B[i][3]*q[3] + B[i][4]*q[4]
    BY <1>6, <1>7, DotQuat
  <1>14. /\ Dot(A[1], p) = q[1]*p[1] + (-q[2])*p[2] + (-q[3])*p[3] + (-q[4])*p[4]
         /\ Dot(A[2], p) = q[2]*p[1] + q[1]*p[2] + (-q[4])*p[3] + q[3]*p[4]
         /\ Dot(A[3], p) = q[3]*p[1] + q[4]*p[2] + q[1]*p[3] + (-q[2])*p[4]
         /\ Dot(A[4], p) = q[4]*p[1] + (-q[3])*p[2] + q[2]*p[3] + q[1]*p[4]
    BY <1>3, <1>13
  <1>15. /\ Dot(B[1], q) = p[1]*q[1] + (-p[2])*q[2] + (-p[3])*q[3] + (-p[4])*q[4]
         /\ Dot(B[2], q) = p[2]*q[1] + p[1]*q[2] + p[4]*q[3] + (-p[3])*q[4]
         /\ Dot(B[3], q) = p[3]*q[1] + (-p[4])*q[2] + p[1]*q[3] + p[2]*q[4]
         /\ Dot(B[4], q) = p[4]*q[1] + p[3]*q[2] + (-p[2])*q[3] + p[1]*q[4]
    BY <1>3, <1>13
  <1>16. RowsMultiply(p[1], p[2], p[3], p[4], q[1], q[2], q[3], q[4])
    BY <1>1, Rows
  <1>17. /\ Dot(A[1], p) = h[1] /\ Dot(A[2], p) = h[2] /\ Dot(A[3], p) = h[3] /\ Dot(A[4], p) = h[4]
    BY <1>12, <1>14, <1>16 DEF RowsMultiply
  <1>18. /\ Dot(B[1], q) = h[1] /\ Dot(B[2], q) = h[2] /\ Dot(B[3], q) = h[3] /\ Dot(B[4], q) = h[4]
    BY <1>12, <1>15, <1>16 DEF RowsMultiply
  <1>19. Apply(A, p) = h /\ Apply(B, q) = h
    BY <1>8, <1>10, <1>11, <1>17, <1>18, QuatEqual
  <1> QED
    BY <1>19 DEF A, B, h

LEMMA OneIs == One \in Rotor /\ One[1] = 1 /\ One[2] = 0 /\ One[3] = 0 /\ One[4] = 0
PROOF
  <1>1. 1 \in -1..1 /\ 0 \in -1..1 /\ 1*1 + 0*0 + 0*0 + 0*0 \in {1, 2, 4}
    OBVIOUS
  <1> QED
    BY <1>1, TupleIsRotor DEF One

(* A product times the conjugate is a multiple.                            *)
IsUndone(a, b, c, d, s, x, y, z, r1, r2, r3, r4) ==
  /\ s*r1 - (-x)*r2 - (-y)*r3 - (-z)*r4 = (s*s + x*x + y*y + z*z)*a
  /\ s*r2 + r1*(-x) + ((-y)*r4 - (-z)*r3) = (s*s + x*x + y*y + z*z)*b
  /\ s*r3 + r1*(-y) + ((-z)*r2 - (-x)*r4) = (s*s + x*x + y*y + z*z)*c
  /\ s*r4 + r1*(-z) + ((-x)*r3 - (-y)*r2) = (s*s + x*x + y*y + z*z)*d

LEMMA Undone ==
  ASSUME NEW a \in Int, NEW b \in Int, NEW c \in Int, NEW d \in Int,
         NEW s \in Int, NEW x \in Int, NEW y \in Int, NEW z \in Int,
         NEW r1 \in Int, NEW r2 \in Int, NEW r3 \in Int, NEW r4 \in Int,
         r1 = s*a - x*b - y*c - z*d,
         r2 = s*b + a*x + (y*d - z*c),
         r3 = s*c + a*y + (z*b - x*d),
         r4 = s*d + a*z + (x*c - y*b)
  PROVE  IsUndone(a, b, c, d, s, x, y, z, r1, r2, r3, r4)
  BY DEF IsUndone

LEMMA InverseIs ==
  ASSUME NEW q \in Rotor
  PROVE  /\ quatInverse(q) \in Rotor
         /\ Dot(quatInverse(q), quatInverse(q)) = Dot(q, q)
         /\ \A p \in Quat : Hamilton(Hamilton(p, q), quatInverse(q)) = Scaled(Dot(q, q), p)
PROOF
  <1> DEFINE v == quatInverse(q)
             n == Dot(q, q)
  <1>1. /\ q[1] \in -1..1 /\ q[2] \in -1..1 /\ q[3] \in -1..1 /\ q[4] \in -1..1
        /\ n \in {1, 2, 4} /\ n = q[1]*q[1] + q[2]*q[2] + q[3]*q[3] + q[4]*q[4] /\ q \in Quat
    BY RotorIs
  <1>2. v = <<q[1], -q[2], -q[3], -q[4]>>
    BY DEF quatInverse, w
  <1>3. \A i \in Int : (-i)*(-i) = i*i
    OBVIOUS
  <1>4. /\ -q[2] \in -1..1 /\ -q[3] \in -1..1 /\ -q[4] \in -1..1
        /\ q[1] \in Int /\ q[2] \in Int /\ q[3] \in Int /\ q[4] \in Int
    BY <1>1
  <1>5. q[1]*q[1] + (-q[2])*(-q[2]) + (-q[3])*(-q[3]) + (-q[4])*(-q[4]) = n
    BY <1>1, <1>3, <1>4
  <1> HIDE DEF v, n
  <1>6. v \in Rotor
    BY <1>1, <1>2, <1>4, <1>5, TupleIsRotor
  <1>7. v[1] = q[1] /\ v[2] = -q[2] /\ v[3] = -q[3] /\ v[4] = -q[4]
    BY <1>2
  <1>8. Dot(v, v) = n
    BY <1>5, <1>6, <1>7, RotorIs
  <1>9. ASSUME NEW p \in Quat PROVE Hamilton(Hamilton(p, q), v) = Scaled(n, p)
    <2> DEFINE r == Hamilton(p, q)
               h == Hamilton(r, v)
               m == Scaled(n, p)
    <2>1. /\ r[1] = q[1]*p[1] - q[2]*p[2] - q[3]*p[3] - q[4]*p[4]
          /\ r[2] = q[1]*p[2] + p[1]*q[2] + (q[3]*p[4] - q[4]*p[3])
          /\ r[3] = q[1]*p[3] + p[1]*q[3] + (q[4]*p[2] - q[2]*p[4])
          /\ r[4] = q[1]*p[4] + p[1]*q[4] + (q[2]*p[3] - q[3]*p[2])
      BY DEF Hamilton
    <2>2. r \in Quat /\ v \in Quat
      BY <1>1, <1>6, MultIs, RotorIs
    <2> HIDE DEF r
    <2>3. /\ h[1] = v[1]*r[1] - v[2]*r[2] - v[3]*r[3] - v[4]*r[4]
          /\ h[2] = v[1]*r[2] + r[1]*v[2] + (v[3]*r[4] - v[4]*r[3])
          /\ h[3] = v[1]*r[3] + r[1]*v[3] + (v[4]*r[2] - v[2]*r[4])
          /\ h[4] = v[1]*r[4] + r[1]*v[4] + (v[2]*r[3] - v[3]*r[2])
      BY DEF Hamilton
    <2>4. m[1] = n*p[1] /\ m[2] = n*p[2] /\ m[3] = n*p[3] /\ m[4] = n*p[4]
      BY DEF Scaled
    <2>5. h \in Quat /\ m \in Quat
      BY <1>1, <2>2, MultIs, ScaledIs
    <2>6. /\ r[1] \in Int /\ r[2] \in Int /\ r[3] \in Int /\ r[4] \in Int
          /\ p[1] \in Int /\ p[2] \in Int /\ p[3] \in Int /\ p[4] \in Int
      BY <2>2, QuatIs
    <2>7. IsUndone(p[1], p[2], p[3], p[4], q[1], q[2], q[3], q[4], r[1], r[2], r[3], r[4])
      BY <1>4, <2>1, <2>6, Undone
    <2> HIDE DEF h, m
    <2>8. h[1] = m[1] /\ h[2] = m[2] /\ h[3] = m[3] /\ h[4] = m[4]
      BY <1>1, <1>7, <2>3, <2>4, <2>7 DEF IsUndone
    <2>9. h = m
      BY <2>5, <2>8, QuatEqual
    <2> QED
      BY <2>9 DEF h, m, r
  <1> QED
    BY <1>6, <1>8, <1>9 DEF v, n

(* A product with the inverse undoes a product.                            *)
LEMMA MultUndone ==
  ASSUME NEW p \in Rotor, NEW q \in Rotor
  PROVE  /\ quatMult(quatMult(p, q), quatInverse(q)) = p
         /\ quatMult(q, quatInverse(q)) = One
PROOF
  <1> DEFINE v == quatInverse(q)
             n == Dot(q, q)
  <1>1. p \in Quat /\ q \in Quat /\ n \in {1, 2, 4}
    BY RotorIs
  <1>2. v \in Rotor /\ \A r \in Quat : Hamilton(Hamilton(r, q), v) = Scaled(n, r)
    BY InverseIs
  <1> HIDE DEF v, n
  <1>3. n \in 1..8 /\ n \in Int
    BY <1>1
  <1>4. quatMult(quatMult(p, q), v) = p
    BY <1>1, <1>2, <1>3, MultTwice, RotorShortest
  <1>5. One \in Rotor /\ One \in Quat /\ One[1] = 1 /\ One[2] = 0 /\ One[3] = 0 /\ One[4] = 0
    BY OneIs, RotorIs
  <1>6. Hamilton(One, q) = q
    <2>1. q[1] \in Int /\ q[2] \in Int /\ q[3] \in Int /\ q[4] \in Int
      BY <1>1, QuatIs
    <2> DEFINE h == Hamilton(One, q)
    <2>2. /\ h[1] = q[1]*1 - q[2]*0 - q[3]*0 - q[4]*0
          /\ h[2] = q[1]*0 + 1*q[2] + (q[3]*0 - q[4]*0)
          /\ h[3] = q[1]*0 + 1*q[3] + (q[4]*0 - q[2]*0)
          /\ h[4] = q[1]*0 + 1*q[4] + (q[2]*0 - q[3]*0)
      BY <1>5 DEF Hamilton
    <2>3. h \in Quat
      BY <1>1, <1>5, MultIs
    <2> HIDE DEF h
    <2>4. h = q
      BY <1>1, <2>1, <2>2, <2>3, QuatEqual
    <2> QED
      BY <2>4 DEF h
  <1>7. quatMult(One, q) = q
    <2>1. Scaled(1, q) = q
      BY <1>1 DEF Scaled, Quat
    <2>2. 1 \in 1..8
      OBVIOUS
    <2> QED
      BY <1>1, <1>5, <1>6, <2>1, <2>2, MultIs, RotorShortest
  <1>8. quatMult(q, v) = One
    BY <1>2, <1>3, <1>5, <1>7, MultTwice, RotorShortest
  <1> QED
    BY <1>4, <1>8 DEF v

(* The matrix of the conjugate is the transposed matrix.                   *)
ConjugateEntries(s, x, y, z) ==
  /\ Square(s, -x, -y, -z) = Square(s, x, y, z)
  /\ Square(s, -y, -x, -z) = Square(s, y, x, z)
  /\ Square(s, -z, -x, -y) = Square(s, z, x, y)
  /\ Twice(-x, -y, s, -z) = Twice(x, y, -s, z) /\ Twice(-x, -y, -s, -z) = Twice(x, y, s, z)
  /\ Twice(-x, -z, s, -y) = Twice(x, z, -s, y) /\ Twice(-x, -z, -s, -y) = Twice(x, z, s, y)
  /\ Twice(-y, -z, s, -x) = Twice(y, z, -s, x) /\ Twice(-y, -z, -s, -x) = Twice(y, z, s, x)

LEMMA Conjugate ==
  ASSUME NEW s \in Int, NEW x \in Int, NEW y \in Int, NEW z \in Int
  PROVE  ConjugateEntries(s, x, y, z)
  BY DEF ConjugateEntries, Square, Twice

LEMMA MatOfInverse ==
  ASSUME NEW q \in Rotor
  PROVE  quatToRotMat(quatInverse(q)) = Transposed(quatToRotMat(q))
PROOF
  <1> DEFINE v == quatInverse(q)
             n == Dot(q, q)
             M == quatToRotMat(q)
  <1>1. v \in Rotor /\ Dot(v, v) = n /\ n \in {1, 2, 4} /\ q \in Quat
    BY InverseIs, RotorIs
  <1>2. M \in Mat /\ \A i, j \in 1..3 : n * M[i][j] = Form(q)[i][j]
    BY MatOfQuat
  <1>3. Transposed(M) \in Mat /\ \A i, j \in 1..3 : Transposed(M)[i][j] = M[j][i]
    BY <1>2, TransposedIs
  <1>4. v[1] = q[1] /\ v[2] = -q[2] /\ v[3] = -q[3] /\ v[4] = -q[4]
    BY DEF quatInverse, w
  <1>5. q[1] \in Int /\ q[2] \in Int /\ q[3] \in Int /\ q[4] \in Int
    BY <1>1, QuatIs
  <1>6. ConjugateEntries(q[1], q[2], q[3], q[4])
    BY <1>5, Conjugate
  <1> HIDE DEF v, M, n
  <1>7. \A i, j \in 1..3 : Form(v)[i][j] = Form(q)[j][i]
    <2>1. \A i \in 1..3 : i = 1 \/ i = 2 \/ i = 3
      OBVIOUS
    <2>2. /\ Form(v)[1][1] = Form(q)[1][1] /\ Form(v)[2][2] = Form(q)[2][2]
          /\ Form(v)[3][3] = Form(q)[3][3]
      BY <1>4, <1>6, FormIs DEF ConjugateEntries
    <2>3. /\ Form(v)[1][2] = Form(q)[2][1] /\ Form(v)[2][1] = Form(q)[1][2]
          /\ Form(v)[1][3] = Form(q)[3][1]
      BY <1>4, <1>6, FormIs DEF ConjugateEntries
    <2>4. /\ Form(v)[3][1] = Form(q)[1][3] /\ Form(v)[2][3] = Form(q)[3][2]
          /\ Form(v)[3][2] = Form(q)[2][3]
      BY <1>4, <1>6, FormIs DEF ConjugateEntries
    <2> QED
      BY <2>1, <2>2, <2>3, <2>4
  <1>8. \A i, j \in 1..3 : Form(v)[i][j] = n * Transposed(M)[i][j]
    BY <1>2, <1>3, <1>7
  <1>9. quatToRotMat(v) = Transposed(M)
    BY <1>1, <1>3, <1>8, MatOfQuatIs
  <1> QED
    BY <1>9 DEF v, M

(* The formula of computeOrientErrorQuat is a product with the conjugate.  *)
ErrorEntries(a, b, c, d, s, x, y, z) ==
  /\ (1*s)*a + (x*b + y*c + z*d) = s*a - (-x)*b - (-y)*c - (-z)*d
  /\ (1*s)*b + (-a)*x + -(y*d - z*c) = s*b + a*(-x) + ((-y)*d - (-z)*c)
  /\ (1*s)*c + (-a)*y + -(z*b - x*d) = s*c + a*(-y) + ((-z)*b - (-x)*d)
  /\ (1*s)*d + (-a)*z + -(x*c - y*b) = s*d + a*(-z) + ((-x)*c - (-y)*b)

LEMMA ErrorParts ==
  ASSUME NEW a \in Int, NEW b \in Int, NEW c \in Int, NEW d \in Int,
         NEW s \in Int, NEW x \in Int, NEW y \in Int, NEW z \in Int
  PROVE  ErrorEntries(a, b, c, d, s, x, y, z)
  BY DEF ErrorEntries

(* The error between two orientations is the turn between them.            *)
LEMMA ErrorIsTurn ==
  ASSUME NEW p \in Rotor, NEW q \in Rotor
  PROVE  /\ Product(quatToRotMat(quatMult(p, q)), Transposed(quatToRotMat(q))) = quatToRotMat(p)
         /\ Dot(quatMult(p, q), q) >= 0 => computeOrientErrorQuat(quatMult(p, q), q) = p
PROOF
  <1> DEFINE s == quatMult(p, q)
             v == quatInverse(q)
  <1>1. s \in Rotor /\ v \in Rotor /\ quatMult(s, v) = p
    BY MultReduces, InverseIs, MultUndone
  <1>2. Product(quatToRotMat(s), Transposed(quatToRotMat(q))) = quatToRotMat(p)
    <2>1. quatToRotMat(quatMult(s, v)) = Product(quatToRotMat(s), quatToRotMat(v))
      BY <1>1, MatOfMult
    <2> QED
      BY <1>1, <2>1, MatOfInverse
  <1>3. s \in Quat /\ v \in Quat /\ q \in Quat
    BY <1>1, RotorIs
  <1>4. v[1] = q[1] /\ v[2] = -q[2] /\ v[3] = -q[3] /\ v[4] = -q[4]
    BY DEF quatInverse, w
  <1> HIDE DEF s, v
  <1>5. ASSUME Dot(s, q) >= 0 PROVE computeOrientErrorQuat(s, q) = p
    <2>1. /\ s[1] \in Int /\ s[2] \in Int /\ s[3] \in Int /\ s[4] \in Int
          /\ q[1] \in Int /\ q[2] \in Int /\ q[3] \in Int /\ q[4] \in Int
      BY <1>3, QuatIs
    <2>2. /\ Dot(s, q) = s[1]*q[1] + s[2]*q[2] + s[3]*q[3] + s[4]*q[4]
          /\ Dot(q, s) = q[1]*s[1] + q[2]*s[2] + q[3]*s[3] + q[4]*s[4]
      BY <1>3, DotQuat
    <2>3. ~ Dot(q, s) < 0
      BY <1>5, <2>1, <2>2
    <2> DEFINE u == Times(1, vec(q))
               e == Add(Add(Times(1 * w(q), vec(s)), Times(-w(s), vec(q))), Neg(Cross(u, vec(s))))
               d == Dot(u, vec(s))
    <2>4. computeOrientErrorQuat(s, q) = Quaternion((1 * w(q)) * w(s) + d, e)
      BY <2>3 DEF computeOrientErrorQuat
    <2>5. u = <<q[2], q[3], q[4]>>
      <3>1. u[1] = q[2] /\ u[2] = q[3] /\ u[3] = q[4]
        BY <2>1 DEF Times, vec
      <3>2. u = [i \in 1..3 |-> u[i]] /\ u \in Vec
        <4>1. DOMAIN vec(q) = 1..3 /\ \A i \in 1..3 : vec(q)[i] \in Int
          BY <2>1 DEF vec
        <4> QED
          BY <4>1 DEF Times, Vec
      <3>3. <<q[2], q[3], q[4]>> \in Vec
        BY <2>1 DEF Vec
      <3> HIDE DEF u
      <3> QED
        BY <3>1, <3>2, <3>3, VecIs
    <2>6. vec(s) = <<s[2], s[3], s[4]>> /\ vec(s) \in Vec /\ u \in Vec
      BY <2>1, <2>5 DEF vec, Vec
    <2>7. d = q[2]*s[2] + q[3]*s[3] + q[4]*s[4]
      BY <2>5, <2>6, DotIs
    <2>8. /\ Cross(u, vec(s))[1] = q[3]*s[4] - q[4]*s[3]
          /\ Cross(u, vec(s))[2] = q[4]*s[2] - q[2]*s[4]
          /\ Cross(u, vec(s))[3] = q[2]*s[3] - q[3]*s[2]
          /\ DOMAIN Cross(u, vec(s)) = 1..3
      BY <2>5, <2>6 DEF Cross
    <2> HIDE DEF u, d
    <2>9. /\ Neg(Cross(u, vec(s)))[1] = -(q[3]*s[4] - q[4]*s[3])
          /\ Neg(Cross(u, vec(s)))[2] = -(q[4]*s[2] - q[2]*s[4])
          /\ Neg(Cross(u, vec(s)))[3] = -(q[2]*s[3] - q[3]*s[2])
      BY <2>8 DEF Neg
    <2>10. /\ e[1] = (1*q[1])*s[2] + (-s[1])*q[2] + -(q[3]*s[4] - q[4]*s[3])
           /\ e[2] = (1*q[1])*s[3] + (-s[1])*q[3] + -(q[4]*s[2] - q[2]*s[4])
           /\ e[3] = (1*q[1])*s[4] + (-s[1])*q[4] + -(q[2]*s[3] - q[3]*s[2])
      BY <2>9 DEF Add, Times, vec, w
    <2> HIDE DEF e
    <2>11. computeOrientErrorQuat(s, q) = Shortest(<<(1*q[1])*s[1] + d, e[1], e[2], e[3]>>)
      BY <2>4 DEF Quaternion, w
    <2>12. Hamilton(s, v) = <<q[1]*s[1] - (-q[2])*s[2] - (-q[3])*s[3] - (-q[4])*s[4],
                              q[1]*s[2] + s[1]*(-q[2]) + ((-q[3])*s[4] - (-q[4])*s[3]),
                              q[1]*s[3] + s[1]*(-q[3]) + ((-q[4])*s[2] - (-q[2])*s[4]),
                              q[1]*s[4] + s[1]*(-q[4]) + ((-q[2])*s[3] - (-q[3])*s[2])>>
      BY <1>4 DEF Hamilton
    <2>13. /\ (1*q[1])*s[1] + d = q[1]*s[1] - (-q[2])*s[2] - (-q[3])*s[3] - (-q[4])*s[4]
           /\ e[1] = q[1]*s[2] + s[1]*(-q[2]) + ((-q[3])*s[4] - (-q[4])*s[3])
           /\ e[2] = q[1]*s[3] + s[1]*(-q[3]) + ((-q[4])*s[2] - (-q[2])*s[4])
           /\ e[3] = q[1]*s[4] + s[1]*(-q[4]) + ((-q[2])*s[3] - (-q[3])*s[2])
      <3>1. ErrorEntries(s[1], s[2], s[3], s[4], q[1], q[2], q[3], q[4])
        BY <2>1, ErrorParts
      <3> QED
        BY <2>7, <2>10, <3>1 DEF ErrorEntries
    <2>14. computeOrientErrorQuat(s, q) = Shortest(Hamilton(s, v))
      BY <2>11, <2>12, <2>13
    <2> QED
      BY <1>1, <1>3, <2>14, MultIs
  <1> QED
    BY <1>2, <1>5 DEF s

(* The angular velocity of a turn is about the axis of the turn.           *)
LEMMA OmegaIs ==
  ASSUME NEW p \in Rotor, NEW q \in Rotor
  PROVE  Shortest(quatToOmega(q, quatMult(p, q)))
           = Shortest(vec(quatMult(quatMult(p, q), quatInverse(q))))
PROOF
  <1> DEFINE s == quatMult(p, q)
             v == quatInverse(q)
             o == quatToOmega(q, s)
             u == vec(p)
  <1>1. s \in Rotor /\ v \in Rotor /\ quatMult(s, v) = p
    BY MultReduces, InverseIs, MultUndone
  <1>2. PICK k \in {1, 2, 4} : Hamilton(s, v) = Scaled(k, p)
    BY <1>1, MultReduces
  <1>3. s \in Quat /\ q \in Quat
    BY <1>1, RotorIs
  <1>4. /\ s[1] \in Int /\ s[2] \in Int /\ s[3] \in Int /\ s[4] \in Int
        /\ q[1] \in Int /\ q[2] \in Int /\ q[3] \in Int /\ q[4] \in Int
        /\ -q[2] \in Int /\ -q[3] \in Int /\ -q[4] \in Int
    BY <1>3, QuatIs
  <1>5. v[1] = q[1] /\ v[2] = -q[2] /\ v[3] = -q[3] /\ v[4] = -q[4]
    BY DEF quatInverse, w
  <1> DEFINE r1 == <<-q[2], q[1], q[4], -q[3]>>
             r2 == <<-q[3], -q[4], q[1], q[2]>>
             r3 == <<-q[4], q[3], -q[2], q[1]>>
  <1>6. r1 \in Quat /\ r2 \in Quat /\ r3 \in Quat
    BY <1>4, TupleIsQuat
  <1>7. /\ Dot(r1, s) = (-q[2])*s[1] + q[1]*s[2] + q[4]*s[3] + (-q[3])*s[4]
        /\ Dot(r2, s) = (-q[3])*s[1] + (-q[4])*s[2] + q[1]*s[3] + q[2]*s[4]
        /\ Dot(r3, s) = (-q[4])*s[1] + q[3]*s[2] + (-q[2])*s[3] + q[1]*s[4]
    BY <1>3, <1>6, DotQuat
  <1>8. o = Apply(<<r1, r2, r3>>, s)
    BY DEF quatToOmega, w
  <1>9. /\ Hamilton(s, v)[2] = q[1]*s[2] + s[1]*(-q[2]) + ((-q[3])*s[4] - (-q[4])*s[3])
        /\ Hamilton(s, v)[3] = q[1]*s[3] + s[1]*(-q[3]) + ((-q[4])*s[2] - (-q[2])*s[4])
        /\ Hamilton(s, v)[4] = q[1]*s[4] + s[1]*(-q[4]) + ((-q[2])*s[3] - (-q[3])*s[2])
    BY <1>5 DEF Hamilton
  <1>10. Scaled(k, p)[2] = k*u[1] /\ Scaled(k, p)[3] = k*u[2] /\ Scaled(k, p)[4] = k*u[3]
    BY DEF Scaled, vec
  <1>11. u \in [1..3 -> -1..1]
    <2>1. p[2] \in -1..1 /\ p[3] \in -1..1 /\ p[4] \in -1..1
      BY RotorIs
    <2> QED
      BY <2>1 DEF vec
  <1>12. \A i \in 1..3 : i = 1 \/ i = 2 \/ i = 3
    OBVIOUS
  <1> HIDE DEF r1, r2, r3, s, v, o, u
  <1>13. o = [i \in 1..3 |-> Dot(<<r1, r2, r3>>[i], s)]
    BY <1>8 DEF Apply
  <1>14. /\ Dot(r1, s) = Hamilton(s, v)[2] /\ Dot(r2, s) = Hamilton(s, v)[3]
         /\ Dot(r3, s) = Hamilton(s, v)[4]
    <2>1. RowsMultiply(s[1], s[2], s[3], s[4], q[1], -q[2], -q[3], -q[4])
      BY <1>4, Rows
    <2>2. -(-q[2]) = q[2] /\ -(-q[3]) = q[3] /\ -(-q[4]) = q[4]
      BY <1>4
    <2> QED
      BY <1>7, <1>9, <2>1, <2>2 DEF RowsMultiply
  <1>15. \A i \in 1..3 : Dot(<<r1, r2, r3>>[i], s) = k * u[i]
    BY <1>2, <1>10, <1>12, <1>14
  <1>16. o = [i \in 1..3 |-> k * u[i]]
    BY <1>13, <1>15
  <1>17. CASE \E n \in 1..3 : u[n] # 0
    <2>1. PICK n \in 1..3 : u[n] # 0
      BY <1>17
    <2>2. k \in 1..8 /\ 1 \in 1..8
      OBVIOUS
    <2>3. Shortest(o) = u
      BY <1>11, <1>16, <2>1, <2>2, ShortestMultiple
    <2>4. u = [i \in 1..3 |-> 1 * u[i]]
      BY <1>11
    <2>5. Shortest([i \in 1..3 |-> 1 * u[i]]) = u
      BY <1>11, <2>1, <2>2, ShortestMultiple
    <2> QED
      BY <1>1, <2>3, <2>4, <2>5 DEF o, s, v, u
  <1>18. CASE \A n \in 1..3 : u[n] = 0
    <2>1. \A i \in 1..3 : k * u[i] = u[i]
      BY <1>18
    <2>2. o = u
      BY <1>11, <1>16, <2>1
    <2> QED
      BY <1>1, <2>2 DEF o, s, v, u
  <1> QED
    BY <1>17, <1>18

-----------------------------------------------------------------------------
(* Roll, pitch and yaw.                                                    *)
LEMMA RotIs ==
  ASSUME NEW a \in Turns, NEW C1, NEW S1, NEW C2, NEW S2, NEW C3, NEW S3,
         C1 = cos(a[1]), S1 = sin(a[1]), C2 = cos(a[2]), S2 = sin(a[2]),
         C3 = cos(a[3]), S3 = sin(a[3])
  PROVE  /\ rpyToRot(a) \in Mat
         /\ C1 \in Int /\ S1 \in Int /\ C2 \in Int /\ S2 \in Int /\ C3 \in Int /\ S3 \in Int
         /\ rpyToRot(a)[1][1] = C2*C3 /\ rpyToRot(a)[1][2] = C2*S3 /\ rpyToRot(a)[1][3] = -S2
         /\ rpyToRot(a)[2][1] = S1*S2*C3 - C1*S3 /\ rpyToRot(a)[2][2] = S1*S2*S3 + C1*C3
         /\ rpyToRot(a)[2][3] = S1*C2
         /\ rpyToRot(a)[3][1] = C1*S2*C3 + S1*S3 /\ rpyToRot(a)[3][2] = C1*S2*S3 - S1*C3
         /\ rpyToRot(a)[3][3] = C1*C2
PROOF
  <1> DEFINE X == <<<<1, 0, 0>>, <<0, C1, S1>>, <<0, -S1, C1>>>>
             Y == <<<<C2, 0, -S2>>, <<0, 1, 0>>, <<S2, 0, C2>>>>
             Z == <<<<C3, S3, 0>>, <<-S3, C3, 0>>, <<0, 0, 1>>>>
             P == Product(X, Y)
             M == Product(P, Z)
  <1>1. a[1] \in 0..3 /\ a[2] \in 0..3 /\ a[3] \in 0..3
    BY DEF Turns
  <1>2. C1 \in Int /\ S1 \in Int /\ C2 \in Int /\ S2 \in Int /\ C3 \in Int /\ S3 \in Int
    BY <1>1, QuarterTurns
  <1>3. X \in Mat /\ Y \in Mat /\ Z \in Mat
    <2>1. X = xRot(a[1]) /\ Y = yRot(a[2]) /\ Z = zRot(a[3])
      BY DEF xRot, yRot, zRot
    <2> QED
      BY <1>1, <2>1, AxisTurns, MatOfQuat
  <1>4. rpyToRot(a) = M
    BY DEF rpyToRot
  <1> HIDE DEF X, Y, Z
  <1>5. /\ P \in Mat
        /\ \A i, j \in 1..3 : P[i][j] = X[i][1]*Y[1][j] + X[i][2]*Y[2][j] + X[i][3]*Y[3][j]
    BY <1>3, ProductIs
  <1> HIDE DEF P
  <1>6. /\ M \in Mat
        /\ \A i, j \in 1..3 : M[i][j] = P[i][1]*Z[1][j] + P[i][2]*Z[2][j] + P[i][3]*Z[3][j]
    BY <1>3, <1>5, ProductIs
  <1> HIDE DEF M
  <1>7. /\ P[1][1] = 1*C2 + 0*0 + 0*S2 /\ P[1][2] = 1*0 + 0*1 + 0*0 /\ P[1][3] = 1*(-S2) + 0*0 + 0*C2
        /\ P[2][1] = 0*C2 + C1*0 + S1*S2 /\ P[2][2] = 0*0 + C1*1 + S1*0
        /\ P[2][3] = 0*(-S2) + C1*0 + S1*C2
        /\ P[3][1] = 0*C2 + (-S1)*0 + C1*S2 /\ P[3][2] = 0*0 + (-S1)*1 + C1*0
        /\ P[3][3] = 0*(-S2) + (-S1)*0 + C1*C2
    BY <1>5 DEF X, Y
  <1>8. /\ P[1][1] = C2 /\ P[1][2] = 0 /\ P[1][3] = -S2
        /\ P[2][1] = S1*S2 /\ P[2][2] = C1 /\ P[2][3] = S1*C2
        /\ P[3][1] = C1*S2 /\ P[3][2] = -S1 /\ P[3][3] = C1*C2
    BY <1>2, <1>7
  <1>9. /\ M[1][1] = C2*C3 + 0*(-S3) + (-S2)*0 /\ M[1][2] = C2*S3 + 0*C3 + (-S2)*0
        /\ M[1][3] = C2*0 + 0*0 + (-S2)*1
        /\ M[2][1] = (S1*S2)*C3 + C1*(-S3) + (S1*C2)*0 /\ M[2][2] = (S1*S2)*S3 + C1*C3 + (S1*C2)*0
        /\ M[2][3] = (S1*S2)*0 + C1*0 + (S1*C2)*1
        /\ M[3][1] = (C1*S2)*C3 + (-S1)*(-S3) + (C1*C2)*0
        /\ M[3][2] = (C1*S2)*S3 + (-S1)*C3 + (C1*C2)*0
        /\ M[3][3] = (C1*S2)*0 + (-S1)*0 + (C1*C2)*1
    BY <1>6, <1>8 DEF Z
  <1>10. /\ M[1][1] = C2*C3 /\ M[1][2] = C2*S3 /\ M[1][3] = -S2
         /\ M[2][1] = S1*S2*C3 - C1*S3 /\ M[2][2] = S1*S2*S3 + C1*C3 /\ M[2][3] = S1*C2
         /\ M[3][1] = C1*S2*C3 + S1*S3 /\ M[3][2] = C1*S2*S3 - S1*C3 /\ M[3][3] = C1*C2
    BY <1>2, <1>9
  <1> QED
    BY <1>2, <1>4, <1>6, <1>10

(* Cosine and sine of a quarter turn.                                      *)
Angle(c, s) ==
  \/ c = 1 /\ s = 0
  \/ c = 0 /\ s = 1
  \/ c = -1 /\ s = 0
  \/ c = 0 /\ s = -1

HasEarEntries(C1, S1, C2, S2, C3, S3) ==
  /\ (C2*C3)*(C2*C3) + (C2*S3)*(C2*S3) + (-S2)*(-S2) = 1
  /\ (C2*C3)*(-S3) + (C2*S3)*C3 + (-S2)*0 = 0
  /\ (S1*S2*C3 - C1*S3)*(C2*C3) + (S1*S2*S3 + C1*C3)*(C2*S3) + (S1*C2)*(-S2) = 0
  /\ (S1*S2*C3 - C1*S3)*(-S3) + (S1*S2*S3 + C1*C3)*C3 + (S1*C2)*0 = C1
  /\ (C1*S2*C3 + S1*S3)*(C2*C3) + (C1*S2*S3 - S1*C3)*(C2*S3) + (C1*C2)*(-S2) = 0
  /\ (C1*S2*C3 + S1*S3)*(-S3) + (C1*S2*S3 - S1*C3)*C3 + (C1*C2)*0 = -S1

LEMMA EarEntries ==
  ASSUME NEW C1 \in Int, NEW S1 \in Int, NEW C2 \in Int, NEW S2 \in Int,
         NEW C3 \in Int, NEW S3 \in Int, Angle(C1, S1), Angle(C2, S2), Angle(C3, S3)
  PROVE  HasEarEntries(C1, S1, C2, S2, C3, S3)
  BY DEF HasEarEntries, Angle

LEMMA AngleIs ==
  ASSUME NEW k \in 0..3
  PROVE  cos(k) \in Int /\ sin(k) \in Int /\ Angle(cos(k), sin(k))
  BY QuarterTurns DEF Angle

(* rpyToEar and rpyToEarInv differ by the rotation.                        *)
LEMMA EarIs ==
  ASSUME NEW a \in Turns
  PROVE  rpyToEar(a) = Product(rpyToRot(a), rpyToEarInv(a))
PROOF
  <1> DEFINE C1 == cos(a[1])
             S1 == sin(a[1])
             C2 == cos(a[2])
             S2 == sin(a[2])
             C3 == cos(a[3])
             S3 == sin(a[3])
             M == rpyToRot(a)
             I == rpyToEarInv(a)
             E == rpyToEar(a)
             P == Product(M, I)
  <1>1. /\ C1 \in Int /\ S1 \in Int /\ C2 \in Int /\ S2 \in Int /\ C3 \in Int /\ S3 \in Int
        /\ Angle(C1, S1) /\ Angle(C2, S2) /\ Angle(C3, S3)
    BY AngleIs DEF Turns
  <1>2. /\ M \in Mat
        /\ M[1][1] = C2*C3 /\ M[1][2] = C2*S3 /\ M[1][3] = -S2
        /\ M[2][1] = S1*S2*C3 - C1*S3 /\ M[2][2] = S1*S2*S3 + C1*C3 /\ M[2][3] = S1*C2
        /\ M[3][1] = C1*S2*C3 + S1*S3 /\ M[3][2] = C1*S2*S3 - S1*C3 /\ M[3][3] = C1*C2
    BY RotIs
  <1>3. I = <<<<C2*C3, -S3, 0>>, <<C2*S3, C3, 0>>, <<-S2, 0, 1>>>>
    BY DEF rpyToEarInv
  <1>4. E = <<<<1, 0, -S2>>, <<0, C1, C2*S1>>, <<0, -S1, C2*C1>>>>
    BY DEF rpyToEar
  <1> HIDE DEF C1, S1, C2, S2, C3, S3, M, I, E
  <1>5. /\ C2*C3 \in Int /\ C2*S3 \in Int /\ -S3 \in Int /\ -S2 \in Int /\ -S1 \in Int
        /\ C2*S1 \in Int /\ C2*C1 \in Int /\ C2*S1 = S1*C2 /\ C2*C1 = C1*C2
    BY <1>1
  <1>6. I \in Mat
    BY <1>1, <1>3, <1>5 DEF Mat, Vec
  <1>7. E \in Mat
    BY <1>1, <1>4, <1>5 DEF Mat, Vec
  <1>8. /\ P \in Mat
        /\ \A i, j \in 1..3 : P[i][j] = M[i][1]*I[1][j] + M[i][2]*I[2][j] + M[i][3]*I[3][j]
    BY <1>2, <1>6, ProductIs
  <1>9. HasEarEntries(C1, S1, C2, S2, C3, S3)
    BY <1>1, EarEntries
  <1> HIDE DEF P
  <1>10. P[1][1] = 1 /\ P[1][2] = 0 /\ P[2][1] = 0 /\ P[2][2] = C1 /\ P[3][1] = 0 /\ P[3][2] = -S1
    BY <1>2, <1>3, <1>8, <1>9 DEF HasEarEntries
  <1>11. /\ P[1][3] = M[1][1]*0 + M[1][2]*0 + M[1][3]*1
         /\ P[2][3] = M[2][1]*0 + M[2][2]*0 + M[2][3]*1
         /\ P[3][3] = M[3][1]*0 + M[3][2]*0 + M[3][3]*1
    BY <1>3, <1>8
  <1>12. \A i, j \in 1..3 : M[i][j] \in Int
    BY <1>2, MatEntry
  <1>13. P[1][3] = M[1][3] /\ P[2][3] = M[2][3] /\ P[3][3] = M[3][3]
    BY <1>11, <1>12
  <1>14. \A i \in 1..3 : i = 1 \/ i = 2 \/ i = 3
    OBVIOUS
  <1>15. \A i, j \in 1..3 : E[i][j] = P[i][j]
    BY <1>2, <1>4, <1>5, <1>10, <1>13, <1>14
  <1>16. E = P
    BY <1>7, <1>8, <1>15, MatEqual
  <1> QED
    BY <1>16 DEF E, P, M, I

(* A quarter turn more and a quarter turn less.                            *)
LEMMA Neighbours ==
  ASSUME NEW k \in 0..3
  PROVE  /\ cos(k + 1) = -sin(k) /\ cos(k - 1) = sin(k) /\ cos(k + 0) = cos(k) /\ cos(k - 0) = cos(k)
         /\ sin(k + 1) = cos(k) /\ sin(k - 1) = -cos(k) /\ sin(k + 0) = sin(k) /\ sin(k - 0) = sin(k)
PROOF
  <1>1. /\ 0 % 4 = 0 /\ 1 % 4 = 1 /\ 2 % 4 = 2 /\ 3 % 4 = 3 /\ 4 % 4 = 0
        /\ \A i \in Int : i = -1 => i % 4 = 3
    OBVIOUS
  <1>2. /\ cos(0) = 1 /\ cos(1) = 0 /\ cos(2) = -1 /\ cos(3) = 0 /\ cos(4) = 1
        /\ sin(0) = 0 /\ sin(1) = 1 /\ sin(2) = 0 /\ sin(3) = -1 /\ sin(4) = 0
        /\ \A i \in Int : i = -1 => cos(i) = 0 /\ sin(i) = -1
    BY <1>1 DEF cos, sin
  <1>3. k + 0 = k /\ k - 0 = k
    OBVIOUS
  <1>4. CASE k = 0
    <2>1. k + 1 = 1 /\ k - 1 = -1 /\ k - 1 \in Int
      BY <1>4
    <2> QED
      BY <1>2, <1>3, <1>4, <2>1
  <1>5. CASE k = 1
    <2>1. k + 1 = 2 /\ k - 1 = 0
      BY <1>5
    <2> QED
      BY <1>2, <1>3, <1>5, <2>1
  <1>6. CASE k = 2
    <2>1. k + 1 = 3 /\ k - 1 = 1
      BY <1>6
    <2> QED
      BY <1>2, <1>3, <1>6, <2>1
  <1>7. CASE k = 3
    <2>1. k + 1 = 4 /\ k - 1 = 2
      BY <1>7
    <2> QED
      BY <1>2, <1>3, <1>7, <2>1
  <1> QED
    BY <1>4, <1>5, <1>6, <1>7

(* The derivative of rpyToEarInv is the difference a quarter turn makes.   *)
LEMMA RatesAre ==
  ASSUME NEW a \in Turns, NEW d \in {<<0, 1, 0>>, <<0, 0, 1>>}, NEW i \in 1..3, NEW j \in 1..3
  PROVE  2 * rpyToEarInv_dot(a, d)[i][j]
           = rpyToEarInv([n \in 1..3 |-> a[n] + d[n]])[i][j]
             - rpyToEarInv([n \in 1..3 |-> a[n] - d[n]])[i][j]
PROOF
  <1> DEFINE C2 == cos(a[2])
             S2 == sin(a[2])
             C3 == cos(a[3])
             S3 == sin(a[3])
             F == rpyToEarInv([n \in 1..3 |-> a[n] + d[n]])
             B == rpyToEarInv([n \in 1..3 |-> a[n] - d[n]])
             D == rpyToEarInv_dot(a, d)
  <1>1. a[2] \in 0..3 /\ a[3] \in 0..3
    BY DEF Turns
  <1>2. C2 \in Int /\ S2 \in Int /\ C3 \in Int /\ S3 \in Int
    BY <1>1, AngleIs
  <1>3. /\ F = <<<<cos(a[2] + d[2])*cos(a[3] + d[3]), -sin(a[3] + d[3]), 0>>,
                <<cos(a[2] + d[2])*sin(a[3] + d[3]), cos(a[3] + d[3]), 0>>,
                <<-sin(a[2] + d[2]), 0, 1>>>>
        /\ B = <<<<cos(a[2] - d[2])*cos(a[3] - d[3]), -sin(a[3] - d[3]), 0>>,
                <<cos(a[2] - d[2])*sin(a[3] - d[3]), cos(a[3] - d[3]), 0>>,
                <<-sin(a[2] - d[2]), 0, 1>>>>
    BY DEF rpyToEarInv
  <1>4. D = <<<<-C3*S2*d[2] - C2*S3*d[3], -C3*d[3], 0>>,
              <<C3*C2*d[3] - S3*S2*d[2], -S3*d[3], 0>>,
              <<-C2*d[2], 0, 0>>>>
    BY DEF rpyToEarInv_dot
  <1>5. i = 1 \/ i = 2 \/ i = 3
    OBVIOUS
  <1>6. j = 1 \/ j = 2 \/ j = 3
    OBVIOUS
  <1> HIDE DEF F, B, D
  <1>7. CASE d = <<0, 1, 0>>
    <2>1. d[2] = 1 /\ d[3] = 0
      BY <1>7
    <2>2. /\ cos(a[2] + d[2]) = -S2 /\ sin(a[2] + d[2]) = C2
          /\ cos(a[2] - d[2]) = S2 /\ sin(a[2] - d[2]) = -C2
          /\ cos(a[3] + d[3]) = C3 /\ sin(a[3] + d[3]) = S3
          /\ cos(a[3] - d[3]) = C3 /\ sin(a[3] - d[3]) = S3
      BY <1>1, <2>1, Neighbours
    <2> HIDE DEF C2, S2, C3, S3
    <2>3. /\ F = <<<<(-S2)*C3, -S3, 0>>, <<(-S2)*S3, C3, 0>>, <<-C2, 0, 1>>>>
          /\ B = <<<<S2*C3, -S3, 0>>, <<S2*S3, C3, 0>>, <<-(-C2), 0, 1>>>>
          /\ D = <<<<-C3*S2*1 - C2*S3*0, -C3*0, 0>>, <<C3*C2*0 - S3*S2*1, -S3*0, 0>>, <<-C2*1, 0, 0>>>>
      BY <1>3, <1>4, <2>1, <2>2
    <2>4. /\ 2*(-C3*S2*1 - C2*S3*0) = (-S2)*C3 - S2*C3 /\ 2*(-C3*0) = -S3 - (-S3)
          /\ 2*0 = 0 - 0 /\ 2*0 = 1 - 1 /\ 2*(-S3*0) = C3 - C3
          /\ 2*(C3*C2*0 - S3*S2*1) = (-S2)*S3 - S2*S3 /\ 2*(-C2*1) = -C2 - (-(-C2))
      BY <1>2
    <2>5. 2 * D[i][j] = F[i][j] - B[i][j]
      BY <1>5, <1>6, <2>3, <2>4
    <2> QED
      BY <2>5 DEF D, F, B
  <1>8. CASE d = <<0, 0, 1>>
    <2>1. d[2] = 0 /\ d[3] = 1
      BY <1>8
    <2>2. /\ cos(a[3] + d[3]) = -S3 /\ sin(a[3] + d[3]) = C3
          /\ cos(a[3] - d[3]) = S3 /\ sin(a[3] - d[3]) = -C3
          /\ cos(a[2] + d[2]) = C2 /\ sin(a[2] + d[2]) = S2
          /\ cos(a[2] - d[2]) = C2 /\ sin(a[2] - d[2]) = S2
      BY <1>1, <2>1, Neighbours
    <2> HIDE DEF C2, S2, C3, S3
    <2>3. /\ F = <<<<C2*(-S3), -C3, 0>>, <<C2*C3, -S3, 0>>, <<-S2, 0, 1>>>>
          /\ B = <<<<C2*S3, -(-C3), 0>>, <<C2*(-C3), S3, 0>>, <<-S2, 0, 1>>>>
          /\ D = <<<<-C3*S2*0 - C2*S3*1, -C3*1, 0>>, <<C3*C2*1 - S3*S2*0, -S3*1, 0>>, <<-C2*0, 0, 0>>>>
      BY <1>3, <1>4, <2>1, <2>2
    <2>4. /\ 2*(-C3*S2*0 - C2*S3*1) = C2*(-S3) - C2*S3 /\ 2*(-C3*1) = -C3 - (-(-C3))
          /\ 2*0 = 0 - 0 /\ 2*0 = 1 - 1 /\ 2*(-S3*1) = -S3 - S3
          /\ 2*(C3*C2*1 - S3*S2*0) = C2*C3 - C2*(-C3) /\ 2*(-C2*0) = -S2 - (-S2)
      BY <1>2
    <2>5. 2 * D[i][j] = F[i][j] - B[i][j]
      BY <1>5, <1>6, <2>3, <2>4
    <2> QED
      BY <2>5 DEF D, F, B
  <1> QED
    BY <1>7, <1>8

-----------------------------------------------------------------------------
(* Rotation vectors.                                                       *)
LEMMA VecOfRotor ==
  ASSUME NEW q \in Rotor
  PROVE  /\ vec(q) \in Vec /\ vec(q) \in [1..3 -> -1..1]
         /\ vec(q)[1] = q[2] /\ vec(q)[2] = q[3] /\ vec(q)[3] = q[4]
         /\ Dot(vec(q), vec(q)) = q[2]*q[2] + q[3]*q[3] + q[4]*q[4]
         /\ Dot(vec(q), vec(q)) # 0 => \A k \in 1..8 : Shortest([i \in 1..3 |-> k * vec(q)[i]]) = vec(q)
PROOF
  <1> DEFINE v == vec(q)
  <1>1. q[2] \in -1..1 /\ q[3] \in -1..1 /\ q[4] \in -1..1
    BY RotorIs
  <1>2. v \in Vec /\ v \in [1..3 -> -1..1] /\ v[1] = q[2] /\ v[2] = q[3] /\ v[3] = q[4]
    BY <1>1 DEF vec, Vec
  <1> HIDE DEF v
  <1>3. Dot(v, v) = q[2]*q[2] + q[3]*q[3] + q[4]*q[4]
    BY <1>2, DotIs
  <1>4. ASSUME Dot(v, v) # 0, NEW k \in 1..8
        PROVE  Shortest([i \in 1..3 |-> k * v[i]]) = v
    <2>1. \E n \in 1..3 : v[n] # 0
      BY <1>1, <1>2, <1>3, <1>4
    <2>2. PICK n \in 1..3 : v[n] # 0
      BY <2>1
    <2> QED
      BY <1>2, <2>2, ShortestMultiple
  <1> QED
    BY <1>2, <1>3, <1>4 DEF v

(* The kinds of rotations of the cube, by their quaternion: none, half     *)
(* turns, quarter turns about a face and thirds of a turn about a corner.  *)
AreLengths(n, s, d) ==
  \/ d = 0 /\ n = 1 /\ s \in {-1, 1}
  \/ d = 1 /\ n = 1 /\ s = 0
  \/ d = 2 /\ n = 2 /\ s = 0
  \/ d = 1 /\ n = 2 /\ s = 1
  \/ d = 1 /\ n = 2 /\ s = -1
  \/ d = 3 /\ n = 4 /\ s = 1
  \/ d = 3 /\ n = 4 /\ s = -1

LEMMA Lengths ==
  ASSUME NEW n \in {1, 2, 4}, NEW s \in -1..1, NEW x \in -1..1, NEW y \in -1..1, NEW z \in -1..1,
         n = s*s + x*x + y*y + z*z, NEW d \in Int, d = x*x + y*y + z*z
  PROVE  AreLengths(n, s, d)
PROOF
  <1>1. n = s*s + d /\ d \in 0..3
    <2>1. x*x \in 0..1 /\ y*y \in 0..1 /\ z*z \in 0..1 /\ s*s \in 0..1
      OBVIOUS
    <2> QED
      BY <2>1
  <1>2. s = 0 \/ s = 1 \/ s = -1
    OBVIOUS
  <1> QED
    BY <1>1, <1>2 DEF AreLengths

IsKind(s, n, d, v, V) ==
  \/ d = 0 /\ n = 1 /\ s \in {-1, 1} /\ V = ZeroRotVec
  \/ d = 1 /\ n = 1 /\ s = 0 /\ V = RotVec(v, 180)
  \/ d = 2 /\ n = 2 /\ s = 0 /\ V = RotVec(v, 180)
  \/ d = 1 /\ n = 2 /\ s = 1 /\ V = RotVec(v, 90)
  \/ d = 1 /\ n = 2 /\ s = -1 /\ V = RotVec(v, 270)
  \/ d = 3 /\ n = 4 /\ s = 1 /\ V = RotVec(v, 120)
  \/ d = 3 /\ n = 4 /\ s = -1 /\ V = RotVec(v, 240)

LEMMA Kinds ==
  ASSUME NEW q \in Rotor
  PROVE  IsKind(q[1], Dot(q, q), Dot(vec(q), vec(q)), vec(q), quatToRotVec(q))
PROOF
  <1> DEFINE s == q[1]
             n == Dot(q, q)
             v == vec(q)
             d == Dot(v, v)
             V == quatToRotVec(q)
             h == CASE s = 0 -> 90
                    [] d = s * s -> IF s > 0 THEN 45 ELSE 135
                    [] OTHER -> IF s > 0 THEN 60 ELSE 120
  <1>1. /\ s \in -1..1 /\ n \in {1, 2, 4} /\ q[2] \in -1..1 /\ q[3] \in -1..1 /\ q[4] \in -1..1
        /\ n = s*s + q[2]*q[2] + q[3]*q[3] + q[4]*q[4]
    BY RotorIs
  <1>2. d = q[2]*q[2] + q[3]*q[3] + q[4]*q[4]
    BY VecOfRotor
  <1>3. V = IF d = 0 THEN ZeroRotVec ELSE RotVec(Shortest(v), 2 * h)
    BY DEF quatToRotVec, w
  <1>4. v \in [1..3 -> -1..1] /\ (d # 0 => \A k \in 1..8 : Shortest([i \in 1..3 |-> k * v[i]]) = v)
    BY VecOfRotor
  <1> HIDE DEF s, n, v, d, V
  <1>5. d # 0 => Shortest(v) = v
    <2>1. 1 \in 1..8
      OBVIOUS
    <2>2. [i \in 1..3 |-> 1 * v[i]] = v
      <3>1. \A i \in 1..3 : 1 * v[i] = v[i]
        BY <1>4
      <3> QED
        BY <1>4, <3>1
    <2> QED
      BY <1>4, <2>1, <2>2
  <1>6. AreLengths(n, s, d)
    <2>1. d \in Int
      BY <1>1, <1>2
    <2> QED
      BY <1>1, <1>2, <2>1, Lengths
  <1>7. /\ s = 0 /\ d # 0 => 2 * h = 180
        /\ s = 1 /\ d = 1 => 2 * h = 90
        /\ s = -1 /\ d = 1 => 2 * h = 270
        /\ s = 1 /\ d = 3 => 2 * h = 120
        /\ s = -1 /\ d = 3 => 2 * h = 240
    <2>1. s = 0 /\ d # 0 => h = 90
      <3>1. s = 0 => s*s = 0
        OBVIOUS
      <3> QED
        BY <3>1
    <2>2. s = 1 => ~ s = 0 /\ s*s = 1 /\ s > 0
      OBVIOUS
    <2>3. s = -1 => ~ s = 0 /\ s*s = 1 /\ ~ s > 0
      OBVIOUS
    <2>4. (s = 1 /\ d = 1 => h = 45) /\ (s = -1 /\ d = 1 => h = 135)
      BY <2>2, <2>3
    <2>5. (s = 1 /\ d = 3 => h = 60) /\ (s = -1 /\ d = 3 => h = 120)
      BY <2>2, <2>3
    <2> HIDE DEF h
    <2> QED
      BY <2>1, <2>4, <2>5
  <1> HIDE DEF h
  <1>8. /\ d = 0 => V = ZeroRotVec
        /\ d # 0 => V = RotVec(v, 2 * h)
    BY <1>3, <1>5
  <1>9. IsKind(s, n, d, v, V)
    BY <1>6, <1>7, <1>8 DEF IsKind, AreLengths
  <1> QED
    BY <1>9 DEF s, n, d, v, V

(* Back from the rotation vector to the quaternion.                        *)
LEMMA VecToQuat ==
  ASSUME NEW q \in Rotor
  PROVE  rotVecToQuat(quatToRotVec(q)) = q \/ q = <<-1, 0, 0, 0>>
PROOF
  <1> DEFINE s == q[1]
             n == Dot(q, q)
             d == Dot(vec(q), vec(q))
             V == quatToRotVec(q)
  <1>1. IsKind(s, n, d, vec(q), V)
    BY Kinds
  <1>2. q \in Quat /\ q[1] = s /\ s \in -1..1 /\ q[2] \in -1..1 /\ q[3] \in -1..1 /\ q[4] \in -1..1
    BY RotorIs
  <1>3. /\ vec(q)[1] = q[2] /\ vec(q)[2] = q[3] /\ vec(q)[3] = q[4]
        /\ d = q[2]*q[2] + q[3]*q[3] + q[4]*q[4]
    BY VecOfRotor
  <1> HIDE DEF s, n, d, V
  <1>4. Quaternion(s, vec(q)) = q
    <2>1. Quaternion(s, vec(q)) = Shortest(<<s, q[2], q[3], q[4]>>)
      BY <1>3 DEF Quaternion
    <2>2. <<s, q[2], q[3], q[4]>> = Scaled(1, q)
      <3>1. \A i \in 1..4 : 1 * q[i] = q[i]
        BY <1>2 DEF Quat
      <3>2. Scaled(1, q) = q
        BY <1>2, <3>1 DEF Scaled, Quat
      <3>3. <<s, q[2], q[3], q[4]>> \in Quat
        BY <1>2, TupleIsQuat
      <3> DEFINE t == <<s, q[2], q[3], q[4]>>
      <3>4. t[1] = s /\ t[2] = q[2] /\ t[3] = q[3] /\ t[4] = q[4]
        OBVIOUS
      <3> HIDE DEF t
      <3>5. t = q
        BY <1>2, <3>3, <3>4, QuatEqual DEF t
      <3> QED
        BY <3>2, <3>5 DEF t
    <2>3. 1 \in 1..8
      OBVIOUS
    <2> QED
      BY <2>1, <2>2, <2>3, RotorShortest
  <1>5. CASE d = 0
    <2>1. q[2] = 0 /\ q[3] = 0 /\ q[4] = 0
      BY <1>2, <1>3, <1>5
    <2>2. V = ZeroRotVec /\ s \in {-1, 1}
      BY <1>1, <1>5 DEF IsKind
    <2>3. rotVecToQuat(V) = <<1, 0, 0, 0>>
      BY <2>2 DEF rotVecToQuat, ZeroRotVec, RotVec
    <2> DEFINE t == <<s, 0, 0, 0>>
    <2>4. t[1] = s /\ t[2] = 0 /\ t[3] = 0 /\ t[4] = 0 /\ t \in Quat
      BY <2>2, TupleIsQuat
    <2> HIDE DEF t
    <2>5. q = t
      BY <1>2, <2>1, <2>4, QuatEqual
    <2> QED
      BY <2>2, <2>3, <2>5 DEF t, V
  <1>6. CASE V = RotVec(vec(q), 180) /\ s = 0
    <2>1. rotVecToQuat(V) = Quaternion(0, vec(q))
      BY <1>6 DEF rotVecToQuat, RotVec
    <2> QED
      BY <1>4, <1>6, <2>1 DEF V
  <1>7. CASE (V = RotVec(vec(q), 90) \/ V = RotVec(vec(q), 120)) /\ s = 1
    <2>1. rotVecToQuat(V) = Quaternion(1, vec(q))
      BY <1>7 DEF rotVecToQuat, RotVec
    <2> QED
      BY <1>4, <1>7, <2>1 DEF V
  <1>8. CASE (V = RotVec(vec(q), 270) \/ V = RotVec(vec(q), 240)) /\ s = -1
    <2>1. rotVecToQuat(V) = Quaternion(-1, vec(q))
      BY <1>8 DEF rotVecToQuat, RotVec
    <2> QED
      BY <1>4, <1>8, <2>1 DEF V
  <1> QED
    BY <1>1, <1>5, <1>6, <1>7, <1>8 DEF IsKind

(* Rodrigues' formula, entry by entry.                                     *)
Rodrigues(c2, s2, d, e, u, v, t) == (c2*e + ((2 - c2)*u*v) \div d - s2*t) \div 2

IsTurn(s, d, c2, s2) ==
  \/ s = 0 /\ d \in {1, 2} /\ c2 = -2 /\ s2 = 0
  \/ s = 1 /\ d = 1 /\ c2 = 0 /\ s2 = 2
  \/ s = -1 /\ d = 1 /\ c2 = 0 /\ s2 = -2
  \/ s = 1 /\ d = 3 /\ c2 = -1 /\ s2 = 1
  \/ s = -1 /\ d = 3 /\ c2 = -1 /\ s2 = -1

RodriguesEntries(n, s, d, c2, s2, x, y, z) ==
  /\ n * Rodrigues(c2, s2, d, 1, x, x, 0) = Square(s, x, y, z)
  /\ n * Rodrigues(c2, s2, d, 0, x, y, -z) = Twice(x, y, s, z)
  /\ n * Rodrigues(c2, s2, d, 0, y, x, z) = Twice(x, y, -s, z)
  /\ Rodrigues(c2, s2, d, 1, x, x, 0) \in Int
  /\ Rodrigues(c2, s2, d, 0, x, y, -z) \in Int
  /\ Rodrigues(c2, s2, d, 0, y, x, z) \in Int

LEMMA RodriguesEntry ==
  ASSUME NEW s, NEW d, NEW c2, NEW s2, IsTurn(s, d, c2, s2), NEW n, n = s*s + d,
         NEW x \in -1..1, NEW y \in -1..1, NEW z \in -1..1, d = x*x + y*y + z*z
  PROVE  RodriguesEntries(n, s, d, c2, s2, x, y, z)
PROOF
  <1>1. CASE s = 0 /\ d = 1 /\ c2 = -2 /\ s2 = 0
    BY <1>1 DEF RodriguesEntries, Rodrigues, Square, Twice
  <1>2. CASE s = 0 /\ d = 2 /\ c2 = -2 /\ s2 = 0
    BY <1>2 DEF RodriguesEntries, Rodrigues, Square, Twice
  <1>3. CASE s = 1 /\ d = 1 /\ c2 = 0 /\ s2 = 2
    BY <1>3 DEF RodriguesEntries, Rodrigues, Square, Twice
  <1>4. CASE s = -1 /\ d = 1 /\ c2 = 0 /\ s2 = -2
    BY <1>4 DEF RodriguesEntries, Rodrigues, Square, Twice
  <1>5. CASE s = 1 /\ d = 3 /\ c2 = -1 /\ s2 = 1
    BY <1>5 DEF RodriguesEntries, Rodrigues, Square, Twice
  <1>6. CASE s = -1 /\ d = 3 /\ c2 = -1 /\ s2 = -1
    BY <1>6 DEF RodriguesEntries, Rodrigues, Square, Twice
  <1> QED
    BY <1>1, <1>2, <1>3, <1>4, <1>5, <1>6 DEF IsTurn

(* The matrix of a rotation vector is that of its quaternion.              *)
LEMMA VecToMat ==
  ASSUME NEW q \in Rotor
  PROVE  rotVecToRotMat(quatToRotVec(q)) = quatToRotMat(q)
PROOF
  <1> DEFINE s == q[1]
             x == q[2]
             y == q[3]
             z == q[4]
             n == Dot(q, q)
             v == vec(q)
             d == Dot(v, v)
             V == quatToRotVec(q)
             S == skew_sim(v)
             M == rotVecToRotMat(V)
             Parts(c2, s2) == [i \in 1..3 |-> [j \in 1..3 |->
               (c2 * Identity[i][j] + ((2 - c2) * v[i] * v[j]) \div d - s2 * S[i][j]) \div 2]]
  <1>1. IsKind(s, n, d, v, V)
    BY Kinds
  <1>2. /\ s \in -1..1 /\ x \in -1..1 /\ y \in -1..1 /\ z \in -1..1
        /\ n \in {1, 2, 4} /\ n = s*s + x*x + y*y + z*z
    BY RotorIs
  <1>3. v \in Vec /\ v[1] = x /\ v[2] = y /\ v[3] = z /\ d = x*x + y*y + z*z
    BY VecOfRotor
  <1>4. S = <<<<0, -z, y>>, <<z, 0, -x>>, <<-y, x, 0>>>>
    BY DEF skew_sim, vec
  <1>5. Identity = <<<<1, 0, 0>>, <<0, 1, 0>>, <<0, 0, 1>>>>
    BY DEF Identity
  <1>6. ASSUME NEW c2, NEW s2,
               \/ V = RotVec(v, 180) /\ c2 = -2 /\ s2 = 0
               \/ V = RotVec(v, 90) /\ c2 = 0 /\ s2 = 2
               \/ V = RotVec(v, 270) /\ c2 = 0 /\ s2 = -2
               \/ V = RotVec(v, 120) /\ c2 = -1 /\ s2 = 1
               \/ V = RotVec(v, 240) /\ c2 = -1 /\ s2 = -1
        PROVE  M = Parts(c2, s2)
    <2> HIDE DEF V, v, d, S
    <2>1. CASE V = RotVec(v, 180) /\ c2 = -2 /\ s2 = 0
      BY <2>1 DEF rotVecToRotMat, RotVec, S, d
    <2>2. CASE V = RotVec(v, 90) /\ c2 = 0 /\ s2 = 2
      BY <2>2 DEF rotVecToRotMat, RotVec, S, d
    <2>3. CASE V = RotVec(v, 270) /\ c2 = 0 /\ s2 = -2
      BY <2>3 DEF rotVecToRotMat, RotVec, S, d
    <2>4. CASE V = RotVec(v, 120) /\ c2 = -1 /\ s2 = 1
      BY <2>4 DEF rotVecToRotMat, RotVec, S, d
    <2>5. CASE V = RotVec(v, 240) /\ c2 = -1 /\ s2 = -1
      BY <2>5 DEF rotVecToRotMat, RotVec, S, d
    <2> QED
      BY <1>6, <2>1, <2>2, <2>3, <2>4, <2>5
  <1> HIDE DEF s, x, y, z, n, v, d, V, S, M
  <1>7. n = s*s + d
    BY <1>2, <1>3
  <1>8. ASSUME NEW c2 \in Int, NEW s2 \in Int, IsTurn(s, d, c2, s2), M = Parts(c2, s2)
        PROVE  M = quatToRotMat(q)
    <2> DEFINE E(i, j) == (c2 * Identity[i][j] + ((2 - c2) * v[i] * v[j]) \div d - s2 * S[i][j]) \div 2
               U == Parts(c2, s2)
    <2>1. /\ E(1, 1) = Rodrigues(c2, s2, d, 1, x, x, 0)
          /\ E(1, 2) = Rodrigues(c2, s2, d, 0, x, y, -z)
          /\ E(1, 3) = Rodrigues(c2, s2, d, 0, x, z, y)
          /\ E(2, 1) = Rodrigues(c2, s2, d, 0, y, x, z)
          /\ E(2, 2) = Rodrigues(c2, s2, d, 1, y, y, 0)
          /\ E(2, 3) = Rodrigues(c2, s2, d, 0, y, z, -x)
          /\ E(3, 1) = Rodrigues(c2, s2, d, 0, z, x, -y)
          /\ E(3, 2) = Rodrigues(c2, s2, d, 0, z, y, x)
          /\ E(3, 3) = Rodrigues(c2, s2, d, 1, z, z, 0)
      BY <1>3, <1>4, <1>5 DEF Rodrigues
    <2>2. \A i, j \in 1..3 : U[i][j] = E(i, j)
      OBVIOUS
    <2>3. DOMAIN U = 1..3 /\ \A i \in 1..3 : U[i] = [j \in 1..3 |-> E(i, j)]
      OBVIOUS
    <2>4. -y \in -1..1 /\ -(-y) = y /\ -x \in -1..1 /\ -z \in -1..1
      BY <1>2
    <2>5. d = x*x + z*z + y*y /\ d = y*y + z*z + x*x /\ d = x*x + y*y + z*z
          /\ d = x*x + z*z + (-y)*(-y) /\ d = y*y + x*x + z*z /\ d = z*z + x*x + y*y
      BY <1>2, <1>3
    <2>6. RodriguesEntries(n, s, d, c2, s2, x, y, z)
      BY <1>2, <1>7, <1>8, <2>5, RodriguesEntry
    <2>7. RodriguesEntries(n, s, d, c2, s2, y, z, x)
      BY <1>2, <1>7, <1>8, <2>5, RodriguesEntry
    <2>8. RodriguesEntries(n, s, d, c2, s2, z, x, y)
      BY <1>2, <1>7, <1>8, <2>5, RodriguesEntry
    <2> HIDE DEF E, U
    <2>9. \A i \in 1..3 : i = 1 \/ i = 2 \/ i = 3
      OBVIOUS
    <2>10. \A i, j \in 1..3 : E(i, j) \in Int
      BY <2>1, <2>6, <2>7, <2>8, <2>9 DEF RodriguesEntries
    <2>11. U \in Mat
      <3>1. U = [i \in 1..3 |-> [j \in 1..3 |-> E(i, j)]]
        BY DEF U, E
      <3> QED
        BY <2>10, <3>1 DEF Mat, Vec
    <2>12. /\ Form(q)[1][1] = Square(s, x, y, z) /\ Form(q)[1][2] = Twice(x, y, s, z)
           /\ Form(q)[1][3] = Twice(x, z, -s, y) /\ Form(q)[2][1] = Twice(x, y, -s, z)
           /\ Form(q)[2][2] = Square(s, y, x, z) /\ Form(q)[2][3] = Twice(y, z, s, x)
           /\ Form(q)[3][1] = Twice(x, z, s, y) /\ Form(q)[3][2] = Twice(y, z, -s, x)
           /\ Form(q)[3][3] = Square(s, z, x, y)
      BY FormIs DEF s, x, y, z
    <2>13. /\ Square(s, y, z, x) = Square(s, y, x, z) /\ Twice(z, x, s, y) = Twice(x, z, s, y)
           /\ Twice(z, x, -s, y) = Twice(x, z, -s, y)
      BY <1>2 DEF Square, Twice
    <2>14. \A i, j \in 1..3 : Form(q)[i][j] = n * U[i][j]
      BY <2>1, <2>2, <2>6, <2>7, <2>8, <2>9, <2>12, <2>13 DEF RodriguesEntries
    <2>15. quatToRotMat(q) = U
      BY <1>2, <2>11, <2>14, MatOfQuatIs DEF n
    <2> QED
      BY <1>8, <2>15 DEF U
  <1>9. ASSUME d = 0 PROVE M = quatToRotMat(q)
    <2>1. x = 0 /\ y = 0 /\ z = 0 /\ n = 1 /\ s*s = 1 /\ V = ZeroRotVec
      <3>1. x = 0 /\ y = 0 /\ z = 0
        BY <1>2, <1>3, <1>9
      <3> QED
        BY <1>1, <1>9, <3>1 DEF IsKind
    <2>2. M = Identity
      BY <2>1 DEF M, rotVecToRotMat, ZeroRotVec, RotVec
    <2>3. Identity \in Mat
      BY DEF Identity, Mat, Vec
    <2>4. /\ Square(s, x, y, z) = 1 /\ Square(s, y, x, z) = 1 /\ Square(s, z, x, y) = 1
          /\ Twice(x, y, s, z) = 0 /\ Twice(x, y, -s, z) = 0 /\ Twice(x, z, s, y) = 0
          /\ Twice(x, z, -s, y) = 0 /\ Twice(y, z, s, x) = 0 /\ Twice(y, z, -s, x) = 0
      BY <1>2, <2>1 DEF Square, Twice
    <2>5. /\ Form(q)[1][1] = 1 /\ Form(q)[1][2] = 0 /\ Form(q)[1][3] = 0
          /\ Form(q)[2][1] = 0 /\ Form(q)[2][2] = 1 /\ Form(q)[2][3] = 0
          /\ Form(q)[3][1] = 0 /\ Form(q)[3][2] = 0 /\ Form(q)[3][3] = 1
      BY <2>4, FormIs DEF s, x, y, z
    <2>6. \A i, j \in 1..3 : Form(q)[i][j] = 1 * Identity[i][j]
      <3>1. \A i \in 1..3 : i = 1 \/ i = 2 \/ i = 3
        OBVIOUS
      <3> QED
        BY <1>5, <2>5, <3>1
    <2> QED
      BY <2>1, <2>2, <2>3, <2>6, MatOfQuatIs DEF n
  <1>10. ASSUME d # 0 PROVE M = quatToRotMat(q)
    <2>1. \E c2, s2 \in Int : IsTurn(s, d, c2, s2) /\ M = Parts(c2, s2)
      <3>1. CASE s = 0 /\ V = RotVec(v, 180) /\ d \in {1, 2}
        BY <1>6, <3>1 DEF IsTurn
      <3>2. CASE s = 1 /\ V = RotVec(v, 90) /\ d = 1
        BY <1>6, <3>2 DEF IsTurn
      <3>3. CASE s = -1 /\ V = RotVec(v, 270) /\ d = 1
        BY <1>6, <3>3 DEF IsTurn
      <3>4. CASE s = 1 /\ V = RotVec(v, 120) /\ d = 3
        BY <1>6, <3>4 DEF IsTurn
      <3>5. CASE s = -1 /\ V = RotVec(v, 240) /\ d = 3
        BY <1>6, <3>5 DEF IsTurn
      <3> QED
        BY <1>1, <1>10, <3>1, <3>2, <3>3, <3>4, <3>5 DEF IsKind
    <2> QED
      BY <1>8, <2>1
  <1> QED
    BY <1>9, <1>10 DEF M, V

(* A quaternion and its opposite are the same rotation.                    *)
LEMMA MatOfOpposite ==
  ASSUME NEW q \in Rotor
  PROVE  quatToRotMat(Neg(q)) = quatToRotMat(q)
PROOF
  <1> DEFINE p == Neg(q)
             n == Dot(q, q)
             M == quatToRotMat(q)
  <1>1. p \in Rotor /\ q \in Quat /\ p \in Quat /\ n \in {1, 2, 4} /\ M \in Mat
    BY Opposite, RotorIs, MatOfQuat
  <1>2. Scaled(-1, q) = Scaled(1, p)
    BY Opposite
  <1>3. Scaled(1, p) = p
    <2>1. \A i \in 1..4 : 1 * p[i] = p[i]
      BY <1>1 DEF Quat
    <2> QED
      BY <1>1, <2>1 DEF Scaled, Quat
  <1>4. \A i, j \in 1..3 : n * M[i][j] = Form(q)[i][j]
    BY MatOfQuat
  <1> HIDE DEF p, n, M
  <1>5. -1 \in Int /\ (-1)*(-1) = 1
    OBVIOUS
  <1>6. \A i, j \in 1..3 : Form(p)[i][j] = ((-1)*(-1)) * Form(q)[i][j]
    BY <1>1, <1>2, <1>3, <1>5, FormScaled
  <1>7. \A i, j \in 1..3 : n * M[i][j] \in Int
    BY <1>1, MatEntry
  <1>8. \A i, j \in 1..3 : Form(p)[i][j] = n * M[i][j]
    BY <1>4, <1>5, <1>6, <1>7
  <1>9. Dot(p, p) = n
    <2>1. Dot(p, p) = ((-1)*(-1)) * Dot(q, q)
      BY <1>1, <1>2, <1>3, <1>5, ScaledIs
    <2> QED
      BY <1>1, <1>5, <2>1 DEF n
  <1>10. quatToRotMat(p) = M
    BY <1>1, <1>8, <1>9, MatOfQuatIs
  <1> QED
    BY <1>10 DEF p, M

(* The opposite of a quaternion turns about the opposite axis.             *)
LEMMA OppositeVec ==
  ASSUME NEW q \in Rotor
  PROVE  /\ vec(Neg(q)) = Neg(vec(q))
         /\ Dot(vec(Neg(q)), vec(Neg(q))) = Dot(vec(q), vec(q))
         /\ Dot(Neg(q), Neg(q)) = Dot(q, q)
         /\ Neg(q)[1] = -q[1]
PROOF
  <1> DEFINE p == Neg(q)
             u == vec(p)
             v == vec(q)
  <1>1. p \in Rotor /\ p[1] = -q[1] /\ p[2] = -q[2] /\ p[3] = -q[3] /\ p[4] = -q[4]
    BY Opposite
  <1>2. /\ q[1] \in -1..1 /\ q[2] \in -1..1 /\ q[3] \in -1..1 /\ q[4] \in -1..1
        /\ Dot(q, q) = q[1]*q[1] + q[2]*q[2] + q[3]*q[3] + q[4]*q[4]
        /\ Dot(p, p) = p[1]*p[1] + p[2]*p[2] + p[3]*p[3] + p[4]*p[4]
    BY <1>1, RotorIs
  <1>3. /\ v \in Vec /\ v[1] = q[2] /\ v[2] = q[3] /\ v[3] = q[4]
        /\ u \in Vec /\ u[1] = p[2] /\ u[2] = p[3] /\ u[3] = p[4]
        /\ Dot(v, v) = q[2]*q[2] + q[3]*q[3] + q[4]*q[4]
        /\ Dot(u, u) = p[2]*p[2] + p[3]*p[3] + p[4]*p[4]
    BY <1>1, VecOfRotor
  <1> HIDE DEF p, u, v
  <1>4. \A i \in Int : (-i)*(-i) = i*i
    OBVIOUS
  <1>5. Dot(u, u) = Dot(v, v) /\ Dot(p, p) = Dot(q, q)
    BY <1>1, <1>2, <1>3, <1>4
  <1>6. Neg(v) \in Vec /\ Neg(v)[1] = -v[1] /\ Neg(v)[2] = -v[2] /\ Neg(v)[3] = -v[3]
    BY <1>3, VecIs DEF Neg, Vec
  <1>7. u = Neg(v)
    BY <1>1, <1>3, <1>6, VecIs
  <1> QED
    BY <1>1, <1>5, <1>7 DEF p, u, v

(* The shorter way round.                                                  *)
LEMMA ShortWay ==
  ASSUME NEW q \in Rotor
  PROVE  /\ rotVecToRotMat(rangePi(quatToRotVec(q))) = quatToRotMat(q)
         /\ rangePi(quatToRotVec(q)).angle <= 180
PROOF
  <1> DEFINE p == Neg(q)
             v == vec(q)
             V == quatToRotVec(q)
             W == quatToRotVec(p)
  <1>1. p \in Rotor
    BY Opposite
  <1>2. IsKind(q[1], Dot(q, q), Dot(v, v), v, V)
    BY Kinds
  <1>3. IsKind(-q[1], Dot(q, q), Dot(v, v), Neg(v), W)
    BY <1>1, Kinds, OppositeVec
  <1>4. rotVecToRotMat(V) = quatToRotMat(q) /\ rotVecToRotMat(W) = quatToRotMat(q)
    BY <1>1, VecToMat, MatOfOpposite
  <1>5. q[1] \in -1..1
    BY RotorIs
  <1> HIDE DEF p, v, V, W
  <1>6. CASE V = ZeroRotVec
    <2>1. rangePi(V) = V /\ V.angle = 0
      BY <1>6 DEF rangePi, ZeroRotVec, RotVec
    <2> QED
      BY <1>4, <2>1 DEF V
  <1>7. CASE \E a \in {90, 120, 180} : V = RotVec(v, a)
    <2>1. rangePi(V) = V /\ V.angle <= 180
      BY <1>7 DEF rangePi, RotVec
    <2> QED
      BY <1>4, <2>1 DEF V
  <1>8. CASE V = RotVec(v, 270) /\ Dot(v, v) = 1 /\ q[1] = -1
    <2>1. W = RotVec(Neg(v), 90)
      BY <1>3, <1>8 DEF IsKind
    <2>2. V.axis = v /\ V.angle = 270 /\ W.angle = 90
      BY <1>8, <2>1 DEF RotVec
    <2> DEFINE a2 == V.angle - 360 * ((V.angle + 180) \div 360)
    <2>3. a2 \in Int /\ a2 < 0 /\ 0 - a2 = 90 /\ ~ V.angle <= 180
      BY <2>2
    <2>4. rangePi(V) = RotVec(IF a2 < 0 THEN Neg(V.axis) ELSE V.axis, IF a2 < 0 THEN -a2 ELSE a2)
      BY <2>3 DEF rangePi
    <2>5. \A i \in Int : -i = 0 - i
      OBVIOUS
    <2> HIDE DEF a2
    <2>6. -a2 = 90
      BY <2>3, <2>5
    <2>7. rangePi(V) = W
      BY <2>1, <2>2, <2>3, <2>4, <2>6
    <2> QED
      BY <1>4, <2>2, <2>7 DEF V
  <1>9. CASE V = RotVec(v, 240) /\ Dot(v, v) = 3 /\ q[1] = -1
    <2>1. W = RotVec(Neg(v), 120)
      BY <1>3, <1>9 DEF IsKind
    <2>2. V.axis = v /\ V.angle = 240 /\ W.angle = 120
      BY <1>9, <2>1 DEF RotVec
    <2> DEFINE a2 == V.angle - 360 * ((V.angle + 180) \div 360)
    <2>3. a2 \in Int /\ a2 < 0 /\ 0 - a2 = 120 /\ ~ V.angle <= 180
      BY <2>2
    <2>4. rangePi(V) = RotVec(IF a2 < 0 THEN Neg(V.axis) ELSE V.axis, IF a2 < 0 THEN -a2 ELSE a2)
      BY <2>3 DEF rangePi
    <2>5. \A i \in Int : -i = 0 - i
      OBVIOUS
    <2> HIDE DEF a2
    <2>6. -a2 = 120
      BY <2>3, <2>5
    <2>7. rangePi(V) = W
      BY <2>1, <2>2, <2>3, <2>4, <2>6
    <2> QED
      BY <1>4, <2>2, <2>7 DEF V
  <1> QED
    BY <1>2, <1>6, <1>7, <1>8, <1>9 DEF IsKind

(* The trace and the differences across the diagonal.                      *)
LEMMA Traces ==
  ASSUME NEW q \in Rotor
  PROVE  /\ Trace(quatToRotMat(q)) \in Int
         /\ Dot(q, q) * (Trace(quatToRotMat(q)) + 1) = 4 * (q[1]*q[1])
         /\ Neg(skew_simToVec(quatToRotMat(q))) = [i \in 1..3 |-> (4 \div Dot(q, q)) * (q[1]*vec(q)[i])]
PROOF
  <1> DEFINE n == Dot(q, q)
             s == q[1]
             x == q[2]
             y == q[3]
             z == q[4]
             v == vec(q)
             M == quatToRotMat(q)
             e == 4 \div n
             T == Neg(skew_simToVec(M))
  <1>1. /\ n \in {1, 2, 4} /\ n = s*s + x*x + y*y + z*z /\ q \in Quat
        /\ s \in -1..1 /\ x \in -1..1 /\ y \in -1..1 /\ z \in -1..1
    BY RotorIs
  <1>2. M \in Mat /\ \A i, j \in 1..3 : n * M[i][j] = Form(q)[i][j]
    BY MatOfQuat
  <1>3. /\ n*M[1][1] = Square(s, x, y, z) /\ n*M[2][2] = Square(s, y, x, z)
        /\ n*M[3][3] = Square(s, z, x, y)
        /\ n*M[1][2] = Twice(x, y, s, z) /\ n*M[2][1] = Twice(x, y, -s, z)
        /\ n*M[3][1] = Twice(x, z, s, y) /\ n*M[1][3] = Twice(x, z, -s, y)
        /\ n*M[2][3] = Twice(y, z, s, x) /\ n*M[3][2] = Twice(y, z, -s, x)
    BY <1>2, FormIs
  <1>4. /\ M[1][1] \in Int /\ M[1][2] \in Int /\ M[1][3] \in Int
        /\ M[2][1] \in Int /\ M[2][2] \in Int /\ M[2][3] \in Int
        /\ M[3][1] \in Int /\ M[3][2] \in Int /\ M[3][3] \in Int
    BY <1>2, MatEntry
  <1>5. v[1] = x /\ v[2] = y /\ v[3] = z
    BY VecOfRotor
  <1>6. Trace(M) = M[1][1] + M[2][2] + M[3][3]
    BY DEF Trace
  <1>7. skew_simToVec(M) = <<M[3][2] - M[2][3], M[1][3] - M[3][1], M[2][1] - M[1][2]>>
    BY DEF skew_simToVec
  <1> HIDE DEF n, s, x, y, z, v, M, e, T
  <1>8. n \in Int /\ s \in Int /\ x \in Int /\ y \in Int /\ z \in Int
    BY <1>1
  <1>9. Trace(M) \in Int /\ n*(Trace(M) + 1) = 4*(s*s)
    <2>1. HasPivots(n, s, x, y, z, M[1][1], M[2][2], M[3][3])
      BY <1>1, <1>3, <1>4, Pivots
    <2> QED
      BY <1>4, <1>6, <2>1 DEF HasPivots
  <1>10. /\ n*(M[1][2] - M[2][1]) = 4*(s*z) /\ n*(M[3][1] - M[1][3]) = 4*(s*y)
         /\ n*(M[2][3] - M[3][2]) = 4*(s*x)
    <2>1. HasOffDiagonals(n, s, x, y, z, M[1][2], M[2][1])
      BY <1>3, <1>4, <1>8, OffDiagonals
    <2>2. HasOffDiagonals(n, s, x, z, y, M[3][1], M[1][3])
      BY <1>3, <1>4, <1>8, OffDiagonals
    <2>3. HasOffDiagonals(n, s, y, z, x, M[2][3], M[3][2])
      BY <1>3, <1>4, <1>8, OffDiagonals
    <2> QED
      BY <2>1, <2>2, <2>3 DEF HasOffDiagonals
  <1>11. /\ M[1][2] - M[2][1] = e*(s*z) /\ M[3][1] - M[1][3] = e*(s*y)
         /\ M[2][3] - M[3][2] = e*(s*x)
    <2>1. /\ s*z \in Int /\ s*y \in Int /\ s*x \in Int /\ M[1][2] - M[2][1] \in Int
          /\ M[3][1] - M[1][3] \in Int /\ M[2][3] - M[3][2] \in Int
      BY <1>4, <1>8
    <2> QED
      BY <1>1, <1>10, <2>1, Quotient DEF e
  <1>12. /\ M[3][2] - M[2][3] \in Int /\ M[1][3] - M[3][1] \in Int /\ M[2][1] - M[1][2] \in Int
         /\ -(M[3][2] - M[2][3]) = M[2][3] - M[3][2]
         /\ -(M[1][3] - M[3][1]) = M[3][1] - M[1][3]
         /\ -(M[2][1] - M[1][2]) = M[1][2] - M[2][1]
    BY <1>4
  <1> DEFINE t == skew_simToVec(M)
  <1>13. /\ DOMAIN t = 1..3 /\ t[1] = M[3][2] - M[2][3] /\ t[2] = M[1][3] - M[3][1]
         /\ t[3] = M[2][1] - M[1][2]
    BY <1>7
  <1>14. \A i \in 1..3 : i = 1 \/ i = 2 \/ i = 3
    OBVIOUS
  <1> HIDE DEF t
  <1>15. T = [i \in 1..3 |-> -t[i]]
    BY <1>13 DEF Neg, T, t
  <1>16. \A i \in 1..3 : -t[i] = e * (s * v[i])
    BY <1>5, <1>11, <1>12, <1>13, <1>14
  <1>17. T = [i \in 1..3 |-> e * (s * v[i])]
    BY <1>15, <1>16
  <1> QED
    BY <1>9, <1>17 DEF n, s, v, M, e, T

(* The rotation vector of a matrix is that of its quaternion.              *)
LEMMA VecOfMat ==
  ASSUME NEW q \in Rotor, q[1] = 1
  PROVE  rotMatToRotVec(quatToRotMat(q)) = quatToRotVec(q)
PROOF
  <1> DEFINE n == Dot(q, q)
             v == vec(q)
             d == Dot(v, v)
             M == quatToRotMat(q)
             t == Neg(skew_simToVec(M))
             V == quatToRotVec(q)
             e == 4 \div n
  <1>1. n \in {1, 2, 4} /\ q[1] = 1 /\ IsKind(q[1], n, d, v, V)
    BY RotorIs, Kinds
  <1>2. Trace(M) \in Int /\ n * (Trace(M) + 1) = 4 * (q[1]*q[1]) /\ t = [i \in 1..3 |-> e * (q[1] * v[i])]
    BY Traces
  <1>3. /\ v \in Vec /\ v \in [1..3 -> -1..1] /\ d = q[2]*q[2] + q[3]*q[3] + q[4]*q[4]
        /\ v[1] = q[2] /\ v[2] = q[3] /\ v[3] = q[4]
        /\ d # 0 => \A k \in 1..8 : Shortest([i \in 1..3 |-> k * v[i]]) = v
    BY VecOfRotor
  <1>4. q[2] \in -1..1 /\ q[3] \in -1..1 /\ q[4] \in -1..1
    BY RotorIs
  <1>5. rotMatToRotVec(M) = IF t = Zero THEN ZeroRotVec
                            ELSE RotVec(Shortest(t), IF Trace(M) = 1 THEN 90 ELSE 120)
    BY DEF rotMatToRotVec
  <1>6. e \in {1, 2, 4}
    BY <1>1
  <1> HIDE DEF n, v, d, M, t, V, e
  <1>7. \A i \in 1..3 : 1 * v[i] = v[i] /\ v[i] \in Int
    <2>1. \A i \in 1..3 : v[i] \in Int
      BY <1>3 DEF Vec
    <2>2. \A k \in Int : 1 * k = k
      OBVIOUS
    <2> QED
      BY <2>1, <2>2
  <1>8. t = [i \in 1..3 |-> e * v[i]]
    BY <1>1, <1>2, <1>7
  <1>9. CASE d = 0
    <2>1. v[1] = 0 /\ v[2] = 0 /\ v[3] = 0
      BY <1>3, <1>4, <1>9
    <2>2. \A i \in 1..3 : i = 1 \/ i = 2 \/ i = 3
      OBVIOUS
    <2>3. e * 0 = 0
      BY <1>6
    <2>4. \A i \in 1..3 : e * v[i] = 0
      BY <2>1, <2>2, <2>3
    <2>5. t = [i \in 1..3 |-> 0]
      BY <1>8, <2>4
    <2>6. Zero = [i \in 1..3 |-> 0]
      BY DEF Zero
    <2>7. V = ZeroRotVec
      BY <1>1, <1>9 DEF IsKind
    <2> QED
      BY <1>5, <2>5, <2>6, <2>7 DEF M, V
  <1>10. CASE d # 0
    <2>1. e \in 1..8
      BY <1>6
    <2>2. Shortest(t) = v
      BY <1>3, <1>8, <1>10, <2>1
    <2>3. t # Zero
      <3>1. v[1] # 0 \/ v[2] # 0 \/ v[3] # 0
        BY <1>3, <1>4, <1>10
      <3>2. \E i \in 1..3 : v[i] # 0 /\ v[i] \in -1..1
        BY <1>3, <3>1
      <3>3. \E i \in 1..3 : e * v[i] # 0
        BY <1>6, <3>2
      <3>4. \A i \in 1..3 : Zero[i] = 0
        BY DEF Zero
      <3> QED
        BY <1>8, <3>3, <3>4
    <2>4. rotMatToRotVec(M) = RotVec(v, IF Trace(M) = 1 THEN 90 ELSE 120)
      BY <1>5, <2>2, <2>3
    <2>5. 4 * (q[1]*q[1]) = 4
      BY <1>1
    <2>6. CASE n = 2 /\ V = RotVec(v, 90)
      <3>1. Trace(M) = 1
        BY <1>2, <2>5, <2>6
      <3> QED
        BY <2>4, <2>6, <3>1 DEF M, V
    <2>7. CASE n = 4 /\ V = RotVec(v, 120)
      <3>1. Trace(M) # 1
        BY <1>2, <2>5, <2>7
      <3> QED
        BY <2>4, <2>7, <3>1 DEF M, V
    <2> QED
      BY <1>1, <1>10, <2>6, <2>7 DEF IsKind
  <1> QED
    BY <1>9, <1>10

(* Only half turns lose their axis.                                        *)
LEMMA MatToVec ==
  ASSUME NEW q \in Rotor
  PROVE  rotVecToRotMat(rotMatToRotVec(quatToRotMat(q))) = quatToRotMat(q) \/ HalfTurn(quatToRotMat(q))
PROOF
  <1>1. q[1] \in -1..1 /\ Dot(q, q) \in {1, 2, 4}
    BY RotorIs
  <1>2. CASE q[1] = 1
    BY <1>2, VecOfMat, VecToMat
  <1>3. CASE q[1] # 1 /\ q[1] # 0
    <2>1. Neg(q) \in Rotor /\ Neg(q)[1] = -q[1]
      BY Opposite
    <2>2. \A i \in -1..1 : i # 1 /\ i # 0 => -i = 1
      OBVIOUS
    <2>3. Neg(q)[1] = 1
      BY <1>1, <1>3, <2>1, <2>2
    <2> QED
      BY <2>1, <2>3, VecOfMat, VecToMat, MatOfOpposite
  <1>4. CASE q[1] = 0
    <2> DEFINE n == Dot(q, q)
               t == Trace(quatToRotMat(q))
    <2>1. t \in Int /\ n * (t + 1) = 4 * (q[1]*q[1]) /\ n \in {1, 2, 4}
      BY <1>1, Traces
    <2> HIDE DEF n, t
    <2>2. 4 * (q[1]*q[1]) = 0
      BY <1>4
    <2>3. t = -1
      BY <2>1, <2>2
    <2> QED
      BY <2>3 DEF HalfTurn, t
  <1> QED
    BY <1>1, <1>2, <1>3, <1>4

-----------------------------------------------------------------------------
(* Back from the matrix to roll, pitch and yaw.                            *)
(* The rows and columns of the matrix have length 1 and are orthogonal, and*)
(* its determinant is 1.                                                   *)
FormIdentities(n, s, x, y, z) ==
  /\ Square(s, x, y, z)*Square(s, x, y, z) + Twice(x, y, s, z)*Twice(x, y, s, z)
     + Twice(x, z, -s, y)*Twice(x, z, -s, y) = n*n
  /\ Twice(x, z, -s, y)*Twice(x, z, -s, y) + Twice(y, z, s, x)*Twice(y, z, s, x)
     + Square(s, z, x, y)*Square(s, z, x, y) = n*n
  /\ Twice(x, z, -s, y)*Twice(y, z, -s, x) - Twice(x, y, s, z)*Square(s, z, x, y) = n*Twice(x, y, -s, z)
  /\ Square(s, x, y, z)*Square(s, z, x, y) - Twice(x, z, -s, y)*Twice(x, z, s, y) = n*Square(s, y, x, z)
  /\ Twice(x, y, s, z)*Twice(y, z, s, x) - Twice(x, z, -s, y)*Square(s, y, x, z) = n*Twice(x, z, s, y)
  /\ Twice(x, z, -s, y)*Twice(x, y, -s, z) - Square(s, x, y, z)*Twice(y, z, s, x) = n*Twice(y, z, -s, x)

LEMMA FormOrthogonal ==
  ASSUME NEW n \in Int, NEW s \in Int, NEW x \in Int, NEW y \in Int, NEW z \in Int,
         n = s*s + x*x + y*y + z*z
  PROVE  FormIdentities(n, s, x, y, z)
  BY DEF FormIdentities, Square, Twice

IsOrthogonal(m11, m12, m13, m21, m22, m23, m31, m32, m33) ==
  /\ m11*m11 + m12*m12 + m13*m13 = 1 /\ m13*m13 + m23*m23 + m33*m33 = 1
  /\ m21 = m13*m32 - m12*m33 /\ m22 = m11*m33 - m13*m31
  /\ m31 = m12*m23 - m13*m22 /\ m32 = m13*m21 - m11*m23

LEMMA Orthogonal ==
  ASSUME NEW q \in Rotor
  PROVE  IsOrthogonal(quatToRotMat(q)[1][1], quatToRotMat(q)[1][2], quatToRotMat(q)[1][3],
                      quatToRotMat(q)[2][1], quatToRotMat(q)[2][2], quatToRotMat(q)[2][3],
                      quatToRotMat(q)[3][1], quatToRotMat(q)[3][2], quatToRotMat(q)[3][3])
PROOF
  <1> DEFINE n == Dot(q, q)
             s == q[1]
             x == q[2]
             y == q[3]
             z == q[4]
             M == quatToRotMat(q)
             E(a, b, c, d) == (n*a)*(n*b) - (n*c)*(n*d)
  <1>1. /\ n \in {1, 2, 4} /\ n = s*s + x*x + y*y + z*z
        /\ s \in -1..1 /\ x \in -1..1 /\ y \in -1..1 /\ z \in -1..1
    BY RotorIs
  <1>2. M \in Mat /\ \A i, j \in 1..3 : n * M[i][j] = Form(q)[i][j]
    BY MatOfQuat
  <1>3. /\ n*M[1][1] = Square(s, x, y, z) /\ n*M[2][2] = Square(s, y, x, z)
        /\ n*M[3][3] = Square(s, z, x, y)
        /\ n*M[1][2] = Twice(x, y, s, z) /\ n*M[2][1] = Twice(x, y, -s, z)
        /\ n*M[3][1] = Twice(x, z, s, y) /\ n*M[1][3] = Twice(x, z, -s, y)
        /\ n*M[2][3] = Twice(y, z, s, x) /\ n*M[3][2] = Twice(y, z, -s, x)
    BY <1>2, FormIs
  <1>4. /\ M[1][1] \in Int /\ M[1][2] \in Int /\ M[1][3] \in Int
        /\ M[2][1] \in Int /\ M[2][2] \in Int /\ M[2][3] \in Int
        /\ M[3][1] \in Int /\ M[3][2] \in Int /\ M[3][3] \in Int
    BY <1>2, MatEntry
  <1> HIDE DEF n, s, x, y, z, M
  <1>5. FormIdentities(n, s, x, y, z)
    <2>1. n \in Int /\ s \in Int /\ x \in Int /\ y \in Int /\ z \in Int
      BY <1>1
    <2> QED
      BY <1>1, <2>1, FormOrthogonal
  <1>6. /\ (n*M[1][1])*(n*M[1][1]) + (n*M[1][2])*(n*M[1][2]) + (n*M[1][3])*(n*M[1][3]) = n*n
        /\ (n*M[1][3])*(n*M[1][3]) + (n*M[2][3])*(n*M[2][3]) + (n*M[3][3])*(n*M[3][3]) = n*n
        /\ E(M[1][3], M[3][2], M[1][2], M[3][3]) = n*(n*M[2][1])
        /\ E(M[1][1], M[3][3], M[1][3], M[3][1]) = n*(n*M[2][2])
        /\ E(M[1][2], M[2][3], M[1][3], M[2][2]) = n*(n*M[3][1])
        /\ E(M[1][3], M[2][1], M[1][1], M[2][3]) = n*(n*M[3][2])
    BY <1>3, <1>5 DEF FormIdentities
  <1>7. ASSUME NEW a \in Int, NEW b \in Int, NEW c \in Int,
               (n*a)*(n*a) + (n*b)*(n*b) + (n*c)*(n*c) = n*n
        PROVE  a*a + b*b + c*c = 1
    <2> DEFINE m == a*a + b*b + c*c
    <2>1. (n*n)*m = n*n /\ m \in Int
      BY SMTT(30), <1>1, <1>7
    <2> HIDE DEF m
    <2>2. m = 1
      BY <1>1, <2>1
    <2> QED
      BY <2>2 DEF m
  <1>8. ASSUME NEW a \in Int, NEW b \in Int, NEW c \in Int, NEW d \in Int, NEW e \in Int,
               E(a, b, c, d) = n*(n*e)
        PROVE  e = a*b - c*d
    <2> DEFINE m == a*b - c*d
    <2>1. (n*n)*m = (n*n)*e /\ m \in Int
      BY <1>1, <1>8
    <2> HIDE DEF m
    <2>2. m = e
      BY <1>1, <2>1
    <2> QED
      BY <2>2 DEF m
  <1> HIDE DEF E
  <1>9. /\ M[1][1]*M[1][1] + M[1][2]*M[1][2] + M[1][3]*M[1][3] = 1
        /\ M[1][3]*M[1][3] + M[2][3]*M[2][3] + M[3][3]*M[3][3] = 1
    BY SMTT(30), <1>4, <1>6, <1>7
  <1>10. /\ M[2][1] = M[1][3]*M[3][2] - M[1][2]*M[3][3]
         /\ M[2][2] = M[1][1]*M[3][3] - M[1][3]*M[3][1]
         /\ M[3][1] = M[1][2]*M[2][3] - M[1][3]*M[2][2]
         /\ M[3][2] = M[1][3]*M[2][1] - M[1][1]*M[2][3]
    BY SMTT(30), <1>4, <1>6, <1>8
  <1> QED
    BY <1>9, <1>10 DEF IsOrthogonal, M

(* atan2 finds the angle of any direction along the axes.                  *)
LEMMA ArcTangent ==
  ASSUME NEW s \in -1..1, NEW c \in -1..1, s*s + c*c = 1
  PROVE  atan2(s, c) \in 0..3 /\ sin(atan2(s, c)) = s /\ cos(atan2(s, c)) = c
PROOF
  <1>1. /\ sin(0) = 0 /\ cos(0) = 1 /\ sin(1) = 1 /\ cos(1) = 0
        /\ sin(2) = 0 /\ cos(2) = -1 /\ sin(3) = -1 /\ cos(3) = 0
    BY QuarterTurns
  <1>2. Angle(c, s)
    BY DEF Angle
  <1>3. \E k \in 0..3 : s = sin(k) /\ c = cos(k)
    BY <1>1, <1>2 DEF Angle
  <1>4. ~ (s = 0 /\ c = 0)
    BY <1>2 DEF Angle
  <1>5. atan2(s, c) = CHOOSE k \in 0..3 : s = sin(k) /\ c = cos(k)
    BY <1>4 DEF atan2
  <1> QED
    BY <1>3, <1>5

LEMMA AnglesBack ==
  ASSUME NEW q \in Rotor, ~ GimbalLock(rotTorpy(quatToRotMat(q)))
  PROVE  rpyToRot(rotTorpy(quatToRotMat(q))) = quatToRotMat(q)
PROOF
  <1> DEFINE M == quatToRotMat(q)
             a == rotTorpy(M)
             C1 == cos(a[1])
             S1 == sin(a[1])
             C2 == cos(a[2])
             S2 == sin(a[2])
             C3 == cos(a[3])
             S3 == sin(a[3])
             N == rpyToRot(a)
  <1>1. M \in Mat /\ \A i, j \in 1..3 : M[i][j] \in -1..1
    BY MatOfQuat
  <1>2. IsOrthogonal(M[1][1], M[1][2], M[1][3], M[2][1], M[2][2], M[2][3], M[3][1], M[3][2], M[3][3])
    BY Orthogonal
  <1>3. a[1] = atan2(M[2][3], M[3][3]) /\ a[2] = minusAsin(M[1][3]) /\ a[3] = atan2(M[1][2], M[1][1])
    BY DEF rotTorpy
  <1>4. a = <<a[1], a[2], a[3]>>
    BY DEF rotTorpy
  <1>5. C2 # 0
    BY DEF GimbalLock
  <1> HIDE DEF M, a
  <1>6. /\ M[1][1] \in -1..1 /\ M[1][2] \in -1..1 /\ M[1][3] \in -1..1
        /\ M[2][1] \in -1..1 /\ M[2][2] \in -1..1 /\ M[2][3] \in -1..1
        /\ M[3][1] \in -1..1 /\ M[3][2] \in -1..1 /\ M[3][3] \in -1..1
    BY <1>1
  <1>7. /\ sin(0) = 0 /\ cos(0) = 1 /\ cos(1) = 0 /\ cos(3) = 0
    BY QuarterTurns
  <1>8. M[1][3] = 0 /\ a[2] = 0 /\ C2 = 1 /\ S2 = 0
    <2>1. \A i \in -1..1 : i = 0 \/ (-i) % 4 = 1 \/ (-i) % 4 = 3
      OBVIOUS
    <2>2. M[1][3] = 0
      BY <1>3, <1>5, <1>6, <1>7, <2>1 DEF minusAsin
    <2>3. (-0) % 4 = 0
      OBVIOUS
    <2>4. a[2] = 0
      BY <1>3, <2>2, <2>3 DEF minusAsin
    <2> QED
      BY <1>7, <2>2, <2>4
  <1> HIDE DEF C1, S1, C2, S2, C3, S3
  <1>9. M[1][2]*M[1][2] + M[1][1]*M[1][1] = 1 /\ M[2][3]*M[2][3] + M[3][3]*M[3][3] = 1
    BY <1>2, <1>6, <1>8 DEF IsOrthogonal
  <1>10. /\ a[1] \in 0..3 /\ S1 = M[2][3] /\ C1 = M[3][3]
         /\ a[3] \in 0..3 /\ S3 = M[1][2] /\ C3 = M[1][1]
    BY <1>3, <1>6, <1>9, ArcTangent DEF S1, C1, S3, C3
  <1>11. a \in Turns
    BY <1>4, <1>8, <1>10 DEF Turns
  <1> HIDE DEF N
  <1>12. /\ N \in Mat
         /\ N[1][1] = C2*C3 /\ N[1][2] = C2*S3 /\ N[1][3] = -S2
         /\ N[2][1] = S1*S2*C3 - C1*S3 /\ N[2][2] = S1*S2*S3 + C1*C3 /\ N[2][3] = S1*C2
         /\ N[3][1] = C1*S2*C3 + S1*S3 /\ N[3][2] = C1*S2*S3 - S1*C3 /\ N[3][3] = C1*C2
    BY <1>11, RotIs DEF C1, S1, C2, S2, C3, S3, N
  <1>13. /\ N[1][1] = C3 /\ N[1][2] = S3 /\ N[1][3] = 0
         /\ N[2][1] = -(C1*S3) /\ N[2][2] = C1*C3 /\ N[2][3] = S1
         /\ N[3][1] = S1*S3 /\ N[3][2] = -(S1*C3) /\ N[3][3] = C1
    <2>1. C1 \in Int /\ S1 \in Int /\ C3 \in Int /\ S3 \in Int
      BY <1>6, <1>10
    <2>2. /\ 1*C3 = C3 /\ 1*S3 = S3 /\ S1*1 = S1 /\ C1*1 = C1
          /\ S1*0*C3 - C1*S3 = -(C1*S3) /\ S1*0*S3 + C1*C3 = C1*C3
          /\ C1*0*C3 + S1*S3 = S1*S3 /\ C1*0*S3 - S1*C3 = -(S1*C3)
      BY <2>1
    <2>3. /\ N[1][1] = 1*C3 /\ N[1][2] = 1*S3 /\ N[1][3] = -S2
          /\ N[2][1] = S1*0*C3 - C1*S3 /\ N[2][2] = S1*0*S3 + C1*C3 /\ N[2][3] = S1*1
          /\ N[3][1] = C1*0*C3 + S1*S3 /\ N[3][2] = C1*0*S3 - S1*C3 /\ N[3][3] = C1*1
      BY <1>8, <1>12
    <2>4. -S2 = 0
      <3>1. \A i \in Int : -i = 0 - i
        OBVIOUS
      <3>2. S2 \in Int /\ 0 - S2 = 0
        BY <1>8
      <3> QED
        BY <3>1, <3>2
    <2> QED
      BY <2>2, <2>3, <2>4
  <1>14. /\ M[2][1] = -(C1*S3) /\ M[2][2] = C1*C3 /\ M[3][1] = S1*S3 /\ M[3][2] = -(S1*C3)
    BY <1>2, <1>6, <1>8, <1>10 DEF IsOrthogonal
  <1>15. \A i \in 1..3 : i = 1 \/ i = 2 \/ i = 3
    OBVIOUS
  <1>16. \A i, j \in 1..3 : N[i][j] = M[i][j]
    BY <1>8, <1>10, <1>13, <1>14, <1>15
  <1>17. N = M
    BY <1>1, <1>12, <1>16, MatEqual
  <1> QED
    BY <1>17 DEF N, M, a

-----------------------------------------------------------------------------
(* Orientation errors, and the matrix that takes a vector to another.      *)
LEMMA IdentityIs ==
  /\ Identity \in Mat
  /\ Identity[1][1] = 1 /\ Identity[1][2] = 0 /\ Identity[1][3] = 0
  /\ Identity[2][1] = 0 /\ Identity[2][2] = 1 /\ Identity[2][3] = 0
  /\ Identity[3][1] = 0 /\ Identity[3][2] = 0 /\ Identity[3][3] = 1
  BY DEF Identity, Mat, Vec

LEMMA NoTurn ==
  /\ rpyToRot(Zero) = Identity
  /\ \A A \in Mat : Product(A, Transposed(Identity)) = A
PROOF
  <1> DEFINE N == rpyToRot(Zero)
             T == Transposed(Identity)
  <1>1. \A i \in 1..3 : i = 1 \/ i = 2 \/ i = 3
    OBVIOUS
  <1>2. N = Identity
    <2>1. Zero \in Turns /\ Zero[1] = 0 /\ Zero[2] = 0 /\ Zero[3] = 0
      BY DEF Zero, Turns
    <2>2. cos(0) = 1 /\ sin(0) = 0
      BY QuarterTurns
    <2> HIDE DEF N
    <2> DEFINE C == cos(0)
               S == sin(0)
    <2>3. C = cos(Zero[1]) /\ S = sin(Zero[1]) /\ C = cos(Zero[2]) /\ S = sin(Zero[2])
          /\ C = cos(Zero[3]) /\ S = sin(Zero[3])
      BY <2>1
    <2> HIDE DEF C, S
    <2>4. /\ N \in Mat
          /\ N[1][1] = C*C /\ N[1][2] = C*S /\ N[1][3] = -S
          /\ N[2][1] = S*S*C - C*S /\ N[2][2] = S*S*S + C*C /\ N[2][3] = S*C
          /\ N[3][1] = C*S*C + S*S /\ N[3][2] = C*S*S - S*C /\ N[3][3] = C*C
      BY <2>1, <2>3, RotIs DEF N
    <2>5. C = 1 /\ S = 0 /\ C \in Int /\ S \in Int
      BY <2>2 DEF C, S
    <2>6. C*C = 1 /\ C*S = 0 /\ S*S*C - C*S = 0 /\ S*S*S + C*C = 1 /\ S*C = 0
          /\ C*S*C + S*S = 0 /\ C*S*S - S*C = 0
      BY <2>5
    <2>7. -S = 0
      <3>1. \A i \in Int : -i = 0 - i
        OBVIOUS
      <3>2. 0 - S = 0
        BY <2>5
      <3> QED
        BY <2>5, <3>1, <3>2
    <2>8. \A i, j \in 1..3 : N[i][j] = Identity[i][j]
      BY <1>1, <2>4, <2>6, <2>7, IdentityIs
    <2> QED
      BY <2>4, <2>8, IdentityIs, MatEqual
  <1>3. ASSUME NEW A \in Mat PROVE Product(A, T) = A
    <2> DEFINE P == Product(A, T)
    <2>1. T \in Mat /\ \A i, j \in 1..3 : T[i][j] = Identity[j][i]
      BY IdentityIs, TransposedIs
    <2> HIDE DEF T
    <2>2. /\ P \in Mat
          /\ \A i, j \in 1..3 : P[i][j] = A[i][1]*T[1][j] + A[i][2]*T[2][j] + A[i][3]*T[3][j]
      BY <2>1, ProductIs
    <2> HIDE DEF P
    <2>3. \A i \in 1..3 : A[i][1] \in Int /\ A[i][2] \in Int /\ A[i][3] \in Int
      BY MatEntry
    <2>4. \A i \in 1..3 : /\ P[i][1] = A[i][1]*1 + A[i][2]*0 + A[i][3]*0
                          /\ P[i][2] = A[i][1]*0 + A[i][2]*1 + A[i][3]*0
                          /\ P[i][3] = A[i][1]*0 + A[i][2]*0 + A[i][3]*1
      BY <2>1, <2>2, IdentityIs
    <2>5. \A i \in 1..3 : P[i][1] = A[i][1] /\ P[i][2] = A[i][2] /\ P[i][3] = A[i][3]
      BY <2>3, <2>4
    <2>6. \A i, j \in 1..3 : P[i][j] = A[i][j]
      BY <1>1, <2>5
    <2> QED
      BY <2>2, <2>6, MatEqual DEF P
  <1> QED
    BY <1>2, <1>3

(* Vectors along the axes are equal, opposite or orthogonal, and two       *)
(* orthogonal ones and their cross product are a basis.                    *)
LEMMA AxisIs ==
  ASSUME NEW v \in Axes
  PROVE  /\ v \in Vec /\ v[1] \in -1..1 /\ v[2] \in -1..1 /\ v[3] \in -1..1
         /\ v[1]*v[1] + v[2]*v[2] + v[3]*v[3] = 1
PROOF
  <1>1. \A a, b, c \in -1..1 :
          LET u == <<a, b, c>>
          IN  u \in Vec /\ u[1] = a /\ u[2] = b /\ u[3] = c
    BY DEF Vec
  <1>2. \E a, b, c \in -1..1 : v = <<a, b, c>> /\ a*a + b*b + c*c = 1
    BY DEF Axes
  <1> QED
    BY SMTT(30), <1>1, <1>2

LEMMA AxesApart ==
  ASSUME NEW a \in -1..1, NEW b \in -1..1, NEW c \in -1..1,
         NEW d \in -1..1, NEW e \in -1..1, NEW f \in -1..1,
         a*a + b*b + c*c = 1, d*d + e*e + f*f = 1,
         ~ (a = d /\ b = e /\ c = f), ~ (a = -d /\ b = -e /\ c = -f)
  PROVE  a*d + b*e + c*f = 0
  OBVIOUS

CrossOrthogonal(a, b, c, d, e, f) == (b*f - c*e)*a + (c*d - a*f)*b + (a*e - b*d)*c = 0

LEMMA CrossIsOrthogonal ==
  ASSUME NEW a \in Int, NEW b \in Int, NEW c \in Int, NEW d \in Int, NEW e \in Int, NEW f \in Int
  PROVE  CrossOrthogonal(a, b, c, d, e, f)
  BY DEF CrossOrthogonal

Expanded(a, b, c, k, l, m, x, y, z, p, q, r) ==
  (a*x + b*y + c*z)*x + (a*k + b*l + c*m)*k + (a*p + b*q + c*r)*p
    = a*(x*x + k*k + p*p) + b*(y*x + l*k + q*p) + c*(z*x + m*k + r*p)

LEMMA Expands ==
  ASSUME NEW a \in Int, NEW b \in Int, NEW c \in Int, NEW k \in Int, NEW l \in Int, NEW m \in Int,
         NEW x \in Int, NEW y \in Int, NEW z \in Int, NEW p \in Int, NEW q \in Int, NEW r \in Int
  PROVE  Expanded(a, b, c, k, l, m, x, y, z, p, q, r)
  BY DEF Expanded

LEMMA NegIs ==
  ASSUME NEW v \in Vec
  PROVE  Neg(v) \in Vec /\ Neg(v)[1] = -v[1] /\ Neg(v)[2] = -v[2] /\ Neg(v)[3] = -v[3]
PROOF
  <1>1. DOMAIN v = 1..3 /\ \A i \in 1..3 : v[i] \in Int
    BY DEF Vec
  <1>2. \A k \in Int : -k \in Int
    OBVIOUS
  <1> QED
    BY <1>1, <1>2 DEF Neg, Vec

LEMMA CrossIs ==
  ASSUME NEW u \in Vec, NEW v \in Vec
  PROVE  /\ Cross(u, v) \in Vec
         /\ Cross(u, v)[1] = u[2]*v[3] - u[3]*v[2]
         /\ Cross(u, v)[2] = u[3]*v[1] - u[1]*v[3]
         /\ Cross(u, v)[3] = u[1]*v[2] - u[2]*v[1]
PROOF
  <1> DEFINE a == u[2]*v[3] - u[3]*v[2]
             b == u[3]*v[1] - u[1]*v[3]
             c == u[1]*v[2] - u[2]*v[1]
  <1>1. a \in Int /\ b \in Int /\ c \in Int
    BY VecIs
  <1>2. Cross(u, v) = <<a, b, c>>
    BY DEF Cross
  <1> HIDE DEF a, b, c
  <1>3. Cross(u, v) \in Vec /\ Cross(u, v)[1] = a /\ Cross(u, v)[2] = b /\ Cross(u, v)[3] = c
    BY <1>1, <1>2 DEF Vec
  <1> QED
    BY <1>3 DEF a, b, c

LEMMA VectorToVector ==
  ASSUME NEW u \in Axes, NEW v \in Axes, u # Neg(v)
  PROVE  Apply(twovecToRot(u, v), u) = v
PROOF
  <1> DEFINE c == Cross(u, v)
             D == <<u, v, c>>
             B == Transposed(D)
             C == <<<<0, 1, 0>>, <<1, 0, 0>>, <<0, 0, 1>>>>
             P == Product(B, C)
             Q == Product(P, Transposed(B))
             A == Apply(Q, u)
  <1>1. /\ u \in Vec /\ u[1] \in -1..1 /\ u[2] \in -1..1 /\ u[3] \in -1..1
        /\ u[1]*u[1] + u[2]*u[2] + u[3]*u[3] = 1
        /\ v \in Vec /\ v[1] \in -1..1 /\ v[2] \in -1..1 /\ v[3] \in -1..1
        /\ v[1]*v[1] + v[2]*v[2] + v[3]*v[3] = 1
    BY AxisIs
  <1>2. \A i \in 1..3 : i = 1 \/ i = 2 \/ i = 3
    OBVIOUS
  <1>3. CASE u = v
    <2> DEFINE I == Apply(Identity, u)
    <2>1. twovecToRot(u, v) = Identity
      BY <1>3 DEF twovecToRot
    <2>2. /\ I \in Vec
          /\ I[1] = 1*u[1] + 0*u[2] + 0*u[3]
          /\ I[2] = 0*u[1] + 1*u[2] + 0*u[3]
          /\ I[3] = 0*u[1] + 0*u[2] + 1*u[3]
      BY <1>1, IdentityIs, ApplyIs
    <2> HIDE DEF I
    <2>3. I[1] = u[1] /\ I[2] = u[2] /\ I[3] = u[3]
      BY <1>1, <2>2
    <2>4. I = u
      BY <1>1, <2>2, <2>3, VecIs
    <2> QED
      BY <1>3, <2>1, <2>4 DEF I
  <1>4. CASE u # v
    <2>1. twovecToRot(u, v) = Q
      BY <1>4 DEF twovecToRot
    <2>2. ~ (u[1] = v[1] /\ u[2] = v[2] /\ u[3] = v[3])
      BY <1>1, <1>4, VecIs
    <2>3. ~ (u[1] = -v[1] /\ u[2] = -v[2] /\ u[3] = -v[3])
      <3>1. Neg(v) \in Vec /\ Neg(v)[1] = -v[1] /\ Neg(v)[2] = -v[2] /\ Neg(v)[3] = -v[3]
        BY <1>1, NegIs
      <3> QED
        BY <1>1, <3>1, VecIs
    <2>4. u[1]*v[1] + u[2]*v[2] + u[3]*v[3] = 0
      BY <1>1, <2>2, <2>3, AxesApart
    <2>5. /\ u[1] \in Int /\ u[2] \in Int /\ u[3] \in Int
          /\ v[1] \in Int /\ v[2] \in Int /\ v[3] \in Int
      BY <1>1, VecIs
    <2>6. /\ c \in Vec /\ c[1] = u[2]*v[3] - u[3]*v[2] /\ c[2] = u[3]*v[1] - u[1]*v[3]
          /\ c[3] = u[1]*v[2] - u[2]*v[1]
      BY <1>1, CrossIs
    <2> HIDE DEF c
    <2>7. c[1]*u[1] + c[2]*u[2] + c[3]*u[3] = 0
      <3>1. CrossOrthogonal(u[1], u[2], u[3], v[1], v[2], v[3])
        BY <2>5, CrossIsOrthogonal
      <3> QED
        BY <2>6, <3>1 DEF CrossOrthogonal
    <2>8. D \in Mat /\ D[1] = u /\ D[2] = v /\ D[3] = c
      BY <1>1, <2>6 DEF Mat
    <2> HIDE DEF D
    <2>9. B \in Mat /\ \A i, j \in 1..3 : B[i][j] = D[j][i]
      BY <2>8, TransposedIs
    <2> HIDE DEF B
    <2>10. Transposed(B) \in Mat /\ \A i, j \in 1..3 : Transposed(B)[i][j] = B[j][i]
      BY <2>9, TransposedIs
    <2>11. /\ C \in Mat /\ C[1][1] = 0 /\ C[1][2] = 1 /\ C[1][3] = 0
           /\ C[2][1] = 1 /\ C[2][2] = 0 /\ C[2][3] = 0
           /\ C[3][1] = 0 /\ C[3][2] = 0 /\ C[3][3] = 1
      BY DEF Mat, Vec
    <2> HIDE DEF C
    <2>12. /\ P \in Mat
           /\ \A i, j \in 1..3 : P[i][j] = B[i][1]*C[1][j] + B[i][2]*C[2][j] + B[i][3]*C[3][j]
      BY <2>9, <2>11, ProductIs
    <2> HIDE DEF P
    <2>13. /\ Q \in Mat
           /\ \A i, j \in 1..3 : Q[i][j] = P[i][1]*Transposed(B)[1][j] + P[i][2]*Transposed(B)[2][j]
                                           + P[i][3]*Transposed(B)[3][j]
      BY <2>10, <2>12, ProductIs
    <2> HIDE DEF Q
    <2>14. A \in Vec /\ \A i \in 1..3 : A[i] = Q[i][1]*u[1] + Q[i][2]*u[2] + Q[i][3]*u[3]
      BY <1>1, <2>13, ApplyIs
    <2> HIDE DEF A
    <2>15. ASSUME NEW i \in 1..3 PROVE A[i] = v[i]
      <3>1. u[i] \in Int /\ v[i] \in Int /\ c[i] \in Int
        BY <1>1, <2>6 DEF Vec
      <3>2. B[i][1] = u[i] /\ B[i][2] = v[i] /\ B[i][3] = c[i]
        BY <2>8, <2>9
      <3>3. /\ P[i][1] = u[i]*0 + v[i]*1 + c[i]*0 /\ P[i][2] = u[i]*1 + v[i]*0 + c[i]*0
            /\ P[i][3] = u[i]*0 + v[i]*0 + c[i]*1
        BY <2>11, <2>12, <3>2
      <3>4. P[i][1] = v[i] /\ P[i][2] = u[i] /\ P[i][3] = c[i]
        BY <3>1, <3>3
      <3>5. \A j \in 1..3 : Q[i][j] = v[i]*u[j] + u[i]*v[j] + c[i]*c[j]
        <4>1. \A j \in 1..3 : Transposed(B)[1][j] = u[j] /\ Transposed(B)[2][j] = v[j]
                              /\ Transposed(B)[3][j] = c[j]
          BY <2>8, <2>9, <2>10
        <4> QED
          BY <2>13, <3>4, <4>1
      <3>6. A[i] = (v[i]*u[1] + u[i]*v[1] + c[i]*c[1])*u[1] + (v[i]*u[2] + u[i]*v[2] + c[i]*c[2])*u[2]
                   + (v[i]*u[3] + u[i]*v[3] + c[i]*c[3])*u[3]
        BY <2>14, <3>5
      <3>7. /\ u[1] \in Int /\ u[2] \in Int /\ u[3] \in Int /\ v[1] \in Int /\ v[2] \in Int
            /\ v[3] \in Int /\ c[1] \in Int /\ c[2] \in Int /\ c[3] \in Int
        BY <1>1, <2>6, VecIs
      <3>8. Expanded(v[i], u[i], c[i], u[2], v[2], c[2], u[1], v[1], c[1], u[3], v[3], c[3])
        BY <3>1, <3>7, Expands
      <3>9. A[i] = v[i]*(u[1]*u[1] + u[2]*u[2] + u[3]*u[3]) + u[i]*(v[1]*u[1] + v[2]*u[2] + v[3]*u[3])
                   + c[i]*(c[1]*u[1] + c[2]*u[2] + c[3]*u[3])
        BY <3>6, <3>8 DEF Expanded
      <3>10. v[1]*u[1] + v[2]*u[2] + v[3]*u[3] = 0
        BY <2>4, <3>7
      <3>11. A[i] = v[i]*1 + u[i]*0 + c[i]*0
        BY <1>1, <2>7, <3>9, <3>10
      <3> QED
        BY <3>1, <3>11
    <2>16. A = v
      BY <1>1, <2>14, <2>15, VecIs
    <2> QED
      BY <2>1, <2>16 DEF A
  <1> QED
    BY <1>3, <1>4

-----------------------------------------------------------------------------
(* The orientation that is turned: after a turn it is the turn times the   *)
(* rotation before, as a quaternion and as a matrix.                       *)
RotationInv ==
  /\ quat \in Rotor
  /\ R = quatToRotMat(quat)
  /\ rpy \in Turns
  /\ before # <<>> => /\ before \in Rotor
                      /\ quat = quatMult(rpyToquat(rpy), before)

(* The orientation before the first turn.                                  *)
LEMMA OneIsIdentity == quatToRotMat(One) = Identity
PROOF
  <1>1. Zero \in Turns
    BY DEF Zero, Turns
  <1> DEFINE q == rpyToquat(Zero)
             p == quatMult(q, quatInverse(q))
  <1>2. q \in Rotor /\ quatToRotMat(q) = Identity
    BY <1>1, AnglesAre, NoTurn
  <1> HIDE DEF q
  <1>3. p = One
    BY <1>2, MultUndone
  <1>4. quatInverse(q) \in Rotor /\ quatToRotMat(quatInverse(q)) = Transposed(Identity)
    BY <1>2, InverseIs, MatOfInverse
  <1>5. quatToRotMat(p) = Product(Identity, Transposed(Identity))
    BY <1>2, <1>4, MatOfMult
  <1> QED
    BY <1>3, <1>5, IdentityIs, NoTurn

LEMMA RotationStart == RotationInit => RotationInv
  BY OneIs, OneIsIdentity DEF RotationInit, RotationInv, One, Zero, Turns

LEMMA RotationStep ==
  ASSUME RotationInv, NEW a \in Turns, Turn(a)
  PROVE  RotationInv'
PROOF
  <1> DEFINE p == rpyToquat(a)
  <1>1. p \in Rotor /\ quatToRotMat(p) = rpyToRot(a)
    BY AnglesAre
  <1> HIDE DEF p
  <1>2. quat \in Rotor /\ R = quatToRotMat(quat)
    BY DEF RotationInv
  <1>3. quat' = quatMult(p, quat) /\ before' = quat /\ rpy' = a /\ R' = Product(rpyToRot(a), R)
    BY DEF Turn, p
  <1>4. quat' \in Rotor
    BY <1>1, <1>2, <1>3, MultReduces
  <1>5. R' = quatToRotMat(quat')
    BY <1>1, <1>2, <1>3, MatOfMult
  <1>6. quat' = quatMult(rpyToquat(a), quat)
    BY <1>3 DEF p
  <1> QED
    BY <1>2, <1>3, <1>4, <1>5, <1>6 DEF RotationInv

LEMMA RotationHolds == RotationSpec => []RotationInv
PROOF
  <1>1. RotationInv /\ [\E a \in Turns : Turn(a)]_rotationVars => RotationInv'
    <2> SUFFICES ASSUME RotationInv, [\E a \in Turns : Turn(a)]_rotationVars
                 PROVE  RotationInv'
      OBVIOUS
    <2>1. CASE \E a \in Turns : Turn(a)
      BY <2>1, RotationStep
    <2>2. CASE UNCHANGED rotationVars
      BY <2>2 DEF RotationInv, rotationVars
    <2> QED
      BY <2>1, <2>2
  <1> QED
    BY <1>1, RotationStart, PTL DEF RotationSpec

LEMMA RotationTyped == RotationInv => RotationTypeOK
PROOF
  <1> SUFFICES ASSUME RotationInv PROVE RotationTypeOK
    OBVIOUS
  <1>1. quat \in Rotor /\ R = quatToRotMat(quat) /\ rpy \in Turns
        /\ before \in {<<>>} \cup Rotor
    BY DEF RotationInv
  <1>2. R \in [1..3 -> [1..3 -> Int]] /\ \A i, j \in 1..3 : R[i][j] \in -1..1
    BY <1>1, MatOfQuat DEF Mat, Vec
  <1>3. \A i \in 1..3 : R[i] \in [1..3 -> -1..1]
    BY <1>2
  <1>4. R \in [1..3 -> [1..3 -> -1..1]]
    BY <1>2, <1>3
  <1>5. quat \in [1..4 -> -1..1] /\ before \in {<<>>} \cup [1..4 -> -1..1]
    BY <1>1 DEF Rotor
  <1> QED
    BY <1>1, <1>4, <1>5 DEF RotationTypeOK, Turns

(* Each part of OrientationsAgree.                                         *)
LEMMA QuaternionsDo == RotationInv /\ before # <<>> => QuaternionsAgree
PROOF
  <1> SUFFICES ASSUME RotationInv, before # <<>> PROVE QuaternionsAgree
    OBVIOUS
  <1> DEFINE p == rpyToquat(rpy)
  <1>1. quat \in Rotor /\ R = quatToRotMat(quat) /\ before \in Rotor /\ rpy \in Turns
        /\ quat = quatMult(p, before)
    BY DEF RotationInv
  <1>2. p \in Rotor
    BY <1>1, AnglesAre
  <1> HIDE DEF p
  <1>3. UpToSign(rotMatToQuat(R), quat)
    BY <1>1, MatToQuat
  <1>4. quatMult(quat, quatInverse(quat)) = One
    BY <1>1, MultUndone
  <1>5. p \in Quat /\ before \in Quat
    BY <1>1, <1>2, RotorIs
  <1>6. /\ Apply(quatR(before), p) = Hamilton(p, before)
        /\ Apply(quatL(p), before) = Hamilton(p, before)
        /\ quat = Shortest(Hamilton(p, before))
    BY <1>1, <1>5, Multiplied, MultIs
  <1> QED
    BY <1>1, <1>3, <1>4, <1>6 DEF QuaternionsAgree, One, p

LEMMA AnglesDo == RotationInv /\ before # <<>> => AnglesAgree
PROOF
  <1> SUFFICES ASSUME RotationInv, before # <<>> PROVE AnglesAgree
    OBVIOUS
  <1>1. quat \in Rotor /\ R = quatToRotMat(quat) /\ rpy \in Turns
    BY DEF RotationInv
  <1>2. quatToRotMat(rpyToquat(rpy)) = rpyToRot(rpy)
    BY <1>1, AnglesAre
  <1>3. ~ GimbalLock(quatToRPY(quat)) => rpyToRot(quatToRPY(quat)) = R
    BY <1>1, AnglesBack DEF quatToRPY
  <1>4. rpyToEar(rpy) = Product(rpyToRot(rpy), rpyToEarInv(rpy))
    BY <1>1, EarIs
  <1> QED
    BY <1>2, <1>3, <1>4 DEF AnglesAgree

LEMMA RatesDo == RotationInv /\ before # <<>> => RatesAgree
PROOF
  <1> SUFFICES ASSUME RotationInv, before # <<>> PROVE RatesAgree
    OBVIOUS
  <1> DEFINE p == rpyToquat(rpy)
  <1>1. before \in Rotor /\ rpy \in Turns /\ quat = quatMult(p, before)
    BY DEF RotationInv
  <1>2. p \in Rotor
    BY <1>1, AnglesAre
  <1> HIDE DEF p
  <1>3. Shortest(quatToOmega(before, quat)) = Shortest(vec(quatMult(quat, quatInverse(before))))
    BY <1>1, <1>2, OmegaIs
  <1>4. \A d \in {<<0, 1, 0>>, <<0, 0, 1>>} : \A i, j \in 1..3 :
          2 * rpyToEarInv_dot(rpy, d)[i][j]
            = rpyToEarInv([n \in 1..3 |-> rpy[n] + d[n]])[i][j]
              - rpyToEarInv([n \in 1..3 |-> rpy[n] - d[n]])[i][j]
    BY <1>1, RatesAre
  <1> QED
    BY <1>3, <1>4 DEF RatesAgree

LEMMA VectorsDo == RotationInv /\ before # <<>> => VectorsAgree
PROOF
  <1> SUFFICES ASSUME RotationInv PROVE VectorsAgree
    OBVIOUS
  <1>1. quat \in Rotor /\ R = quatToRotMat(quat)
    BY DEF RotationInv
  <1>2. rotVecToQuat(quatToRotVec(quat)) = quat \/ quat = <<-1, 0, 0, 0>>
    BY <1>1, VecToQuat
  <1>3. rotVecToRotMat(quatToRotVec(quat)) = R
    BY <1>1, VecToMat
  <1>4. /\ rotVecToRotMat(rangePi(quatToRotVec(quat))) = R
        /\ rangePi(quatToRotVec(quat)).angle <= 180
    BY <1>1, ShortWay
  <1>5. rotVecToRotMat(rotMatToRotVec(R)) = R \/ HalfTurn(R)
    BY <1>1, MatToVec
  <1> QED
    BY <1>2, <1>3, <1>4, <1>5, Zenon DEF VectorsAgree

LEMMA ErrorsDo == RotationInv /\ before # <<>> => ErrorsAgree
PROOF
  <1> SUFFICES ASSUME RotationInv, before # <<>> PROVE ErrorsAgree
    OBVIOUS
  <1> DEFINE p == rpyToquat(rpy)
  <1>1. R = quatToRotMat(quat) /\ before \in Rotor /\ rpy \in Turns /\ quat = quatMult(p, before)
    BY DEF RotationInv
  <1>2. p \in Rotor /\ quatToRotMat(p) = rpyToRot(rpy)
    BY <1>1, AnglesAre
  <1> HIDE DEF p
  <1>3. /\ Product(R, Transposed(quatToRotMat(before))) = quatToRotMat(p)
        /\ Dot(quat, before) >= 0 => computeOrientErrorQuat(quat, before) = p
    BY <1>1, <1>2, ErrorIsTurn
  <1>4. computeOrientErrorMat(R, quatToRotMat(before)) = rotMatToRotVec(rpyToRot(rpy))
    BY <1>2, <1>3 DEF computeOrientErrorMat
  <1>5. quatToRotMat(p) \in Mat
    BY <1>2, MatOfQuat
  <1>6. Product(rpyToRot(rpy), Transposed(rpyToRot(Zero))) = rpyToRot(rpy)
    BY <1>2, <1>5, NoTurn
  <1>7. computeOrientErrorRpy(rpy, Zero) = rotMatToRotVec(rpyToRot(rpy))
    BY <1>6 DEF computeOrientErrorRpy
  <1>8. Dot(quat, before) >= 0 => UpToSign(computeOrientErrorQuat(quat, before), p)
    BY <1>3 DEF UpToSign
  <1>9. \A v1, v2 \in Axes : v1 # Neg(v2) => Apply(twovecToRot(v1, v2), v1) = v2
    BY VectorToVector
  <1> QED
    BY <1>4, <1>7, <1>8, <1>9 DEF ErrorsAgree, p

(* Whatever turns an orientation goes through, its quaternion, matrix,     *)
(* Euler angles and rotation vector stay those of one rotation, the rates  *)
(* are its derivatives, and the error between two orientations is the turn *)
(* between them (rotations.hpp).                                           *)
THEOREM OrientationsAlwaysAgree == RotationSpec => []OrientationsAgree
PROOF
  <1>1. RotationInv => OrientationsAgree
    BY QuaternionsDo, AnglesDo, RatesDo, VectorsDo, ErrorsDo DEF OrientationsAgree
  <1> QED
    BY <1>1, RotationHolds, PTL

(* Every quaternion an orientation reaches has the smallest integer        *)
(* components there are, and every matrix is one of 0, 1 and -1: the exact *)
(* arithmetic of the model never grows (rotations.hpp, quatMult and        *)
(* Product of rotations).                                                  *)
THEOREM OrientationsStaySmall == RotationSpec => []RotationTypeOK
  BY RotationHolds, RotationTyped, PTL
=============================================================================
