---------------------------- MODULE StartupProofs ----------------------------
(***************************************************************************)
(* Proofs about Startup, for any components, commands, states and bounds   *)
(* and any procedures that are well formed: type correctness, that a call  *)
(* reaches components of one name, and that what a procedure has got past  *)
(* has happened.                                                           *)
(***************************************************************************)
EXTENDS Startup, FiniteSetTheorems, TLAPS

MaybeOwner == Owner \cup {NoOwner}

-----------------------------------------------------------------------------
(* The inductive invariant, by the variables it is about.                  *)

\* A call has an owner, and the one that was asked for, unless it is for all.
Addressed ==
  \A c \in 1..Len(calls) :
    /\ calls[c].owner = NoOwner => calls[c].all
    /\ calls[c].asked # NoOwner => calls[c].owner = calls[c].asked

\* A reader has calls that were made, and accepts those that are for it.
Delivered ==
  /\ inbox \in [Reader -> Seq(1..Len(calls))]
  /\ \A a \in accepted : a[1] \in 1..Len(calls) /\ IsFor(calls[a[1]], a[2])

DirectoryInv == DirectoryTypeOK /\ Addressed /\ Delivered

\* What is told of a state was true at some time.
Told ==
  /\ \A i \in Instance : \A k \in 1..Len(published[i]) : <<OwnerOf[i], published[i][k]>> \in been
  /\ \A o \in Owner : app_states[o] # NoState => <<o, app_states[o]>> \in been

WatcherInv == WatcherTypeOK /\ Told

NodeTypeOK ==
  /\ step \in 1..(Len(script) + 1)
  /\ at \in Place
  /\ calling \in BOOLEAN
  /\ polls \in 0..MaxPolls
  /\ stop \in BOOLEAN
  /\ outcome \in {"running", "done", "failed"}

Course == WellFormed(script) /\ (Running => step <= Len(script))

\* Where a step may be; a state that was found has been.
Reached ==
  /\ Running /\ calling => script[step].op = "require"
  /\ Running /\ at = "reached" =>
       script[step].op = "waitState" /\ <<script[step].owner, script[step].state>> \in been

\* Of the calls cs, those that say what the step s sends.
CallsOf(cs, s) == {c \in DOMAIN cs : cs[c].asked = s.owner /\ cs[c].cmd = s.cmd}

\* Every call was sent by a step that is past.
Accounted ==
  \A c \in 1..Len(calls) : \E k \in 1..(step - 1) :
    Sends(script[k]) /\ calls[c].asked = script[k].owner /\ calls[c].cmd = script[k].cmd

NodeInv == NodeTypeOK /\ Course /\ Reached /\ Accounted /\ PassedHasHappened

Inv == DirectoryInv /\ WatcherInv /\ NodeInv

-----------------------------------------------------------------------------

LEMMA OwnersAreNames == \A i \in Instance : OwnerOf[i] \in Owner
PROOF
  BY ComponentsAssumption DEF Owner

LEMMA Initially == Init => Inv
PROOF
  <1> SUFFICES ASSUME Init PROVE Inv
    OBVIOUS
  <1>1. PICK s \in Procedures :
          /\ script = s.steps
          /\ DirectoryInit(UNION {OfferedBy(i) : i \in s.up})
          /\ WatcherInit([i \in Instance |-> IF i \in s.up THEN "idle" ELSE NoState])
    BY DEF Init
  <1>2. /\ step = 1 /\ at = "poll" /\ calling = FALSE /\ polls = 0
        /\ stop = FALSE /\ outcome = "running"
    BY DEF Init
  <1>3. WellFormed(script) /\ s.up \subseteq Instance
    BY <1>1, ProceduresAssumption
  <1>4. UNION {OfferedBy(i) : i \in s.up} \subseteq Reader
    BY <1>3, StartupAssumption DEF OfferedBy, Reader
  <1>5. calls = <<>> /\ DirectoryInv
    BY <1>1, <1>4, DirectoryAssumption
       DEF DirectoryInit, DirectoryTypeOK, DirectoryInv, Delivered, Addressed
  <1> DEFINE start == [i \in Instance |-> IF i \in s.up THEN "idle" ELSE NoState]
  <1>6. start \in [Instance -> State \cup {NoState}]
    BY StartupAssumption
  <1>7. WatcherInv
    <2> HIDE DEF start
    <2>1. WatcherInit(start)
      BY <1>1 DEF start
    <2>2. published = [i \in Instance |-> IF start[i] = NoState THEN <<>> ELSE <<start[i]>>]
      BY <2>1 DEF WatcherInit
    <2>3. ASSUME NEW i \in Instance PROVE published[i] \in Seq(State)
      <3>1. CASE start[i] = NoState
        BY <2>2, <3>1
      <3>2. CASE start[i] # NoState
        <4>1. start[i] \in State /\ published[i] = <<start[i]>>
          BY <1>6, <2>2, <3>2
        <4> QED
          BY <4>1
      <3> QED
        BY <3>1, <3>2
    <2>4. published \in [Instance -> Seq(State)]
      BY <2>2, <2>3
    <2>5. state \in [Instance -> State \cup {NoState}]
          /\ app_states \in [Owner -> State \cup {NoState}]
          /\ \A o \in Owner : app_states[o] = NoState
      BY <2>1, <1>6 DEF WatcherInit
    <2>6. been \subseteq Owner \X State
      BY <2>1, <1>6, OwnersAreNames DEF WatcherInit
    <2>7. \A i \in Instance : \A k \in 1..Len(published[i]) : <<OwnerOf[i], published[i][k]>> \in been
      BY <2>1, <2>2 DEF WatcherInit
    <2> QED
      BY <2>4, <2>5, <2>6, <2>7 DEF WatcherTypeOK, WatcherInv, Told
  <1>8. NodeInv
    <2>1. Len(script) \in Nat \ {0}
      BY <1>3 DEF WellFormed
    <2>2. NodeTypeOK
      <3>1. step \in 1..(Len(script) + 1)
        BY <1>2, <2>1
      <3>2. polls \in 0..MaxPolls
        BY <1>2, StartupAssumption
      <3>3. at \in Place /\ outcome \in {"running", "done", "failed"}
        BY <1>2 DEF Place
      <3> QED
        BY <1>2, <3>1, <3>2, <3>3 DEF NodeTypeOK
    <2>3. Course /\ Reached
      BY <1>2, <1>3, <2>1 DEF Course, Running, Reached
    <2>4. Accounted /\ PassedHasHappened
      BY <1>2, <1>5 DEF Accounted, PassedHasHappened
    <2> QED
      BY <2>2, <2>3, <2>4 DEF NodeInv
  <1> QED
    BY <1>5, <1>7, <1>8 DEF Inv

-----------------------------------------------------------------------------
(* The directory.                                                          *)

\* Discovery and what a reader drops: nothing is sent or accepted.
LEMMA DiscoveryKeeps ==
  ASSUME DirectoryInv, NEW r \in Reader, Discover(r) \/ Match(r) \/ NoticeGone(r) \/ Drop(r)
  PROVE  DirectoryInv' /\ calls' = calls
PROOF
  <1>1. CASE Discover(r) \/ Match(r) \/ NoticeGone(r)
    BY <1>1 DEF Discover, Match, NoticeGone, DirectoryInv, DirectoryTypeOK, Addressed, Delivered
  <1>2. CASE Drop(r)
    <2>1. UNCHANGED <<readers, discovered, matched, infos, calls, accepted>>
          /\ inbox' = [inbox EXCEPT ![r] = Tail(@)] /\ inbox[r] # <<>>
      BY <1>2 DEF Drop, HasCall
    <2>2. inbox' \in [Reader -> Seq(1..Len(calls))] /\ inbox' \in [Reader -> Seq(1..MaxCalls)]
      BY <2>1 DEF DirectoryInv, DirectoryTypeOK, Delivered
    <2> QED
      BY <2>1, <2>2 DEF DirectoryInv, DirectoryTypeOK, Addressed, Delivered
  <1> QED
    BY <1>1, <1>2

LEMMA ListKeeps ==
  ASSUME DirectoryInv, getDiscoveredParticipantsInfo
  PROVE  DirectoryInv' /\ calls' = calls
PROOF
  BY DEF getDiscoveredParticipantsInfo, DirectoryInv, DirectoryTypeOK, Addressed, Delivered

\* The owner of a call is a name, the one that was asked for if there was one.
LEMMA FoundIsAsked ==
  ASSUME DirectoryInv, NEW owner \in MaybeOwner, NEW name \in Command, NEW all,
         Callable(owner, name, all)
  PROVE  /\ FoundOwner(owner, name, all) \in MaybeOwner
         /\ FoundOwner(owner, name, all) = NoOwner => owner = NoOwner /\ all
         /\ owner # NoOwner => FoundOwner(owner, name, all) = owner
PROOF
  <1>1. CASE owner = NoOwner /\ all
    BY <1>1 DEF FoundOwner, MaybeOwner
  <1>2. CASE ~ (owner = NoOwner /\ all)
    <2>1. Cardinality(cmdList(owner, name)) = 1
      BY <1>2 DEF Callable
    <2>2. cmdList(owner, name) # {}
      BY <2>1, FS_EmptySet
    <2> DEFINE r == CHOOSE r \in cmdList(owner, name) : TRUE
    <2>3. r \in cmdList(owner, name)
      BY <2>2
    <2>4. FoundOwner(owner, name, all) = ownerOf(r)
      BY <1>2 DEF FoundOwner
    <2> HIDE DEF r
    <2>5. r \in Reader /\ (owner # NoOwner => ownerOf(r) = owner)
      BY <2>3 DEF cmdList, find, findByName, getCommandsList, DirectoryInv, DirectoryTypeOK
    <2>6. ownerOf(r) \in Owner
      BY <2>5, OwnersAreNames DEF ownerOf, Reader
    <2> QED
      BY <2>4, <2>5, <2>6, DirectoryAssumption DEF MaybeOwner
  <1> QED
    BY <1>1, <1>2

LEMMA SendKeeps ==
  ASSUME DirectoryInv, NEW owner \in MaybeOwner, NEW name \in Command, NEW all \in BOOLEAN,
         Callable(owner, name, all), sendMessage(owner, name, all)
  PROVE  /\ DirectoryInv'
         /\ Len(calls') = Len(calls) + 1
         /\ \A c \in 1..Len(calls) : calls'[c] = calls[c]
         /\ calls'[Len(calls) + 1].asked = owner
         /\ calls'[Len(calls) + 1].cmd = name
PROOF
  <1> DEFINE m == [owner |-> FoundOwner(owner, name, all), cmd |-> name,
                   asked |-> owner, all |-> owner = NoOwner /\ all]
             n == Len(calls) + 1
  <1>1. m \in [owner : Owner \cup {NoOwner}, cmd : Command, asked : Owner \cup {NoOwner},
               all : BOOLEAN]
    BY FoundIsAsked DEF MaybeOwner
  <1>2. (m.owner = NoOwner => m.all) /\ (m.asked # NoOwner => m.owner = m.asked)
    BY FoundIsAsked
  <1>3. m.asked = owner /\ m.cmd = name
    OBVIOUS
  <1>4. calls' = Append(calls, m) /\ n \in 1..MaxCalls /\ Len(calls) \in Nat
        /\ inbox' = [r \in Reader |-> IF r \in matched \cap readers
                                      THEN Append(inbox[r], n) ELSE inbox[r]]
        /\ UNCHANGED <<readers, discovered, matched, infos, accepted>>
    BY DirectoryAssumption DEF sendMessage, DirectoryInv, DirectoryTypeOK
  <1> HIDE DEF m
  <1>5. /\ calls' \in Seq([owner : Owner \cup {NoOwner}, cmd : Command,
                            asked : Owner \cup {NoOwner}, all : BOOLEAN])
        /\ Len(calls') = n /\ calls'[n] = m
        /\ \A c \in 1..Len(calls) : calls'[c] = calls[c]
    BY <1>1, <1>4 DEF DirectoryInv, DirectoryTypeOK
  <1>6. inbox' \in [Reader -> Seq(1..n)]
    <2>1. \A r \in Reader : inbox[r] \in Seq(1..Len(calls))
      BY DEF DirectoryInv, Delivered
    <2>2. \A r \in Reader : inbox[r] \in Seq(1..n)
      BY <2>1, <1>4
    <2>3. \A r \in Reader : Append(inbox[r], n) \in Seq(1..n)
      BY <2>2, <1>4
    <2> QED
      BY <2>2, <2>3, <1>4
  <1>7. inbox' \in [Reader -> Seq(1..MaxCalls)]
    BY <1>4, <1>6, DirectoryAssumption
  <1>8. DirectoryTypeOK'
    BY <1>4, <1>5, <1>7 DEF DirectoryInv, DirectoryTypeOK
  <1>9. Addressed'
    BY <1>2, <1>4, <1>5 DEF DirectoryInv, Addressed
  <1>10. Delivered'
    BY <1>4, <1>5, <1>6 DEF DirectoryInv, Delivered, IsFor
  <1> QED
    BY <1>3, <1>4, <1>5, <1>8, <1>9, <1>10 DEF DirectoryInv

\* Readers come and go.
LEMMA WithdrawKeeps ==
  ASSUME DirectoryInv, NEW gone, Withdraw(gone),
         UNCHANGED <<discovered, matched, infos, calls, accepted>>
  PROVE  DirectoryInv'
PROOF
  <1>1. inbox' \in [Reader -> Seq(1..Len(calls))] /\ inbox' \in [Reader -> Seq(1..MaxCalls)]
    <2>1. <<>> \in Seq(1..Len(calls)) /\ <<>> \in Seq(1..MaxCalls)
      OBVIOUS
    <2>2. \A r \in Reader : inbox[r] \in Seq(1..Len(calls)) /\ inbox[r] \in Seq(1..MaxCalls)
      BY DEF DirectoryInv, DirectoryTypeOK, Delivered
    <2>3. inbox' = [r \in Reader |-> IF r \in gone THEN <<>> ELSE inbox[r]]
      BY DEF Withdraw
    <2> QED
      BY <2>1, <2>2, <2>3
  <1>2. readers' \subseteq Reader
    BY DEF DirectoryInv, DirectoryTypeOK, Withdraw
  <1> QED
    BY <1>1, <1>2 DEF DirectoryInv, DirectoryTypeOK, Addressed, Delivered

LEMMA AcceptIsForIt ==
  ASSUME DirectoryInv, NEW r \in Reader, Accept(r),
         readers' \subseteq Reader,
         inbox' \in [Reader -> Seq(1..Len(calls))]
  PROVE  DirectoryInv' /\ calls' = calls
PROOF
  <1>1. inbox[r] \in Seq(1..Len(calls)) /\ inbox[r] # <<>>
    BY DEF Accept, HasCall, DirectoryInv, Delivered
  <1>2. Head(inbox[r]) \in 1..Len(calls) /\ IsFor(calls[Head(inbox[r])], r)
    BY <1>1 DEF Accept
  <1>3. Len(calls) \in Nat /\ Len(calls) <= MaxCalls
    BY DEF DirectoryInv, DirectoryTypeOK
  <1>4. inbox' \in [Reader -> Seq(1..MaxCalls)] /\ Head(inbox[r]) \in 1..MaxCalls
    BY <1>2, <1>3, DirectoryAssumption
  <1>5. accepted' = accepted \cup {<<Head(inbox[r]), r>>}
        /\ UNCHANGED <<discovered, matched, infos, calls>>
    BY DEF Accept
  <1>6. accepted' \subseteq (1..MaxCalls) \X Reader
    BY <1>4, <1>5 DEF DirectoryInv, DirectoryTypeOK
  <1>7. DirectoryTypeOK' /\ Addressed'
    BY <1>4, <1>5, <1>6 DEF DirectoryInv, DirectoryTypeOK, Addressed
  <1>8. Delivered'
    BY <1>2, <1>5 DEF DirectoryInv, Delivered, IsFor
  <1> QED
    BY <1>5, <1>7, <1>8 DEF DirectoryInv

-----------------------------------------------------------------------------
(* The watcher.                                                            *)

LEMMA EnterKeeps ==
  ASSUME WatcherInv, NEW i \in Instance, NEW s \in State, Enter(i, s)
  PROVE  WatcherInv' /\ been \subseteq been'
PROOF
  <1>1. published[i] \in Seq(State)
    BY DEF WatcherInv, WatcherTypeOK
  <1>2. Append(published[i], s) \in Seq(State)
        /\ Len(Append(published[i], s)) = Len(published[i]) + 1
        /\ Append(published[i], s)[Len(published[i]) + 1] = s
        /\ \A k \in 1..Len(published[i]) : Append(published[i], s)[k] = published[i][k]
    BY <1>1
  <1>3. <<OwnerOf[i], s>> \in Owner \X State
    BY OwnersAreNames
  <1>4. /\ state' = [state EXCEPT ![i] = s]
        /\ published' = [published EXCEPT ![i] = Append(published[i], s)]
        /\ been' = been \cup {<<OwnerOf[i], s>>}
        /\ app_states' = app_states
    BY DEF Enter
  <1>5. WatcherTypeOK'
    BY <1>2, <1>3, <1>4 DEF WatcherInv, WatcherTypeOK
  <1>6. ASSUME NEW j \in Instance, NEW k \in 1..Len(published'[j])
        PROVE  <<OwnerOf[j], published'[j][k]>> \in been'
    <2>1. CASE j = i
      <3>1. published'[j] = Append(published[i], s)
        BY <1>4, <2>1 DEF WatcherInv, WatcherTypeOK
      <3>2. CASE k = Len(published[i]) + 1
        BY <1>2, <1>4, <2>1, <3>1, <3>2
      <3>3. CASE k \in 1..Len(published[i])
        BY <1>2, <1>4, <2>1, <3>1, <3>3 DEF WatcherInv, Told
      <3> QED
        BY <1>1, <1>2, <3>1, <3>2, <3>3
    <2>2. CASE j # i
      BY <1>4, <2>2 DEF WatcherInv, WatcherTypeOK, Told
    <2> QED
      BY <2>1, <2>2
  <1>7. Told'
    BY <1>4, <1>6 DEF WatcherInv, Told
  <1> QED
    BY <1>4, <1>5, <1>7 DEF WatcherInv

LEMMA VanishKeeps ==
  ASSUME WatcherInv, NEW i \in Instance, Vanish(i)
  PROVE  WatcherInv' /\ been \subseteq been'
PROOF
  <1>1. <<>> \in Seq(State)
    OBVIOUS
  <1>2. /\ state' = [state EXCEPT ![i] = NoState]
        /\ published' = [published EXCEPT ![i] = <<>>]
        /\ UNCHANGED <<app_states, been>>
    BY DEF Vanish
  <1>3. WatcherTypeOK'
    BY <1>1, <1>2 DEF WatcherInv, WatcherTypeOK
  <1>4. Told'
    BY <1>2 DEF WatcherInv, WatcherTypeOK, Told
  <1> QED
    BY <1>2, <1>3, <1>4 DEF WatcherInv

LEMMA ReceiveKeeps ==
  ASSUME WatcherInv, NEW i \in Instance, Receive(i)
  PROVE  WatcherInv' /\ been \subseteq been'
PROOF
  <1>1. published[i] \in Seq(State) /\ published[i] # <<>>
    BY DEF Receive, WatcherInv, WatcherTypeOK
  <1>2. Tail(published[i]) \in Seq(State) /\ Head(published[i]) \in State
        /\ 1 \in 1..Len(published[i]) /\ Head(published[i]) = published[i][1]
        /\ \A k \in 1..Len(Tail(published[i])) :
             k + 1 \in 1..Len(published[i]) /\ Tail(published[i])[k] = published[i][k + 1]
    BY <1>1
  <1>3. /\ app_states' = [app_states EXCEPT ![OwnerOf[i]] = Head(published[i])]
        /\ published' = [published EXCEPT ![i] = Tail(published[i])]
        /\ UNCHANGED <<state, been>>
    BY DEF Receive
  <1>4. WatcherTypeOK'
    BY <1>2, <1>3, OwnersAreNames DEF WatcherInv, WatcherTypeOK
  <1>5. ASSUME NEW j \in Instance, NEW k \in 1..Len(published'[j])
        PROVE  <<OwnerOf[j], published'[j][k]>> \in been'
    <2>1. CASE j = i
      <3>1. published'[j] = Tail(published[i])
        BY <1>3, <2>1 DEF WatcherInv, WatcherTypeOK
      <3> QED
        BY <1>2, <1>3, <2>1, <3>1 DEF WatcherInv, Told
    <2>2. CASE j # i
      BY <1>3, <2>2 DEF WatcherInv, WatcherTypeOK, Told
    <2> QED
      BY <2>1, <2>2
  <1>6. ASSUME NEW o \in Owner, app_states'[o] # NoState
        PROVE  <<o, app_states'[o]>> \in been'
    <2>1. CASE o = OwnerOf[i]
      <3>1. app_states'[o] = published[i][1]
        BY <1>2, <1>3, <2>1 DEF WatcherInv, WatcherTypeOK
      <3> QED
        BY <1>2, <1>3, <2>1, <3>1 DEF WatcherInv, Told
    <2>2. CASE o # OwnerOf[i]
      BY <1>3, <1>6, <2>2 DEF WatcherInv, WatcherTypeOK, Told
    <2> QED
      BY <2>1, <2>2
  <1> QED
    BY <1>3, <1>4, <1>5, <1>6 DEF WatcherInv, Told

-----------------------------------------------------------------------------
(* The procedure.                                                          *)

\* Nothing the procedure does, and no call.
LEMMA NodeStands ==
  ASSUME NodeInv, calls' = calls, been \subseteq been',
         UNCHANGED <<script, step, at, calling, polls>>,
         stop' \in BOOLEAN, outcome' = outcome \/ outcome' \in {"done", "failed"}
  PROVE  NodeInv'
PROOF
  <1>1. NodeTypeOK'
    BY DEF NodeInv, NodeTypeOK
  <1>2. Course' /\ Reached'
    BY DEF NodeInv, Course, Reached, Running
  <1>3. Accounted'
    BY DEF NodeInv, Accounted
  <1>4. PassedHasHappened'
    BY DEF NodeInv, PassedHasHappened
  <1> QED
    BY <1>1, <1>2, <1>3, <1>4 DEF NodeInv

\* A place within the step; the place "reached" is after a state was found.
LEMMA NodeMoves ==
  ASSUME NodeInv, Running, calls' = calls, been' = been,
         UNCHANGED <<script, step, stop, outcome>>,
         at' \in Place, calling' \in BOOLEAN, polls' \in 0..MaxPolls,
         calling' => script[step].op = "require",
         at' = "reached" =>
           script[step].op = "waitState" /\ <<script[step].owner, script[step].state>> \in been
  PROVE  NodeInv'
PROOF
  <1>1. NodeTypeOK'
    BY DEF NodeInv, NodeTypeOK
  <1>2. Course' /\ Reached'
    BY DEF NodeInv, Course, Reached, Running
  <1>3. Accounted' /\ PassedHasHappened'
    BY DEF NodeInv, Accounted, PassedHasHappened
  <1> QED
    BY <1>1, <1>2, <1>3 DEF NodeInv

LEMMA AdvanceCourse ==
  ASSUME NodeInv, Running, Advance
  PROVE  /\ NodeTypeOK' /\ Course' /\ Reached'
         /\ step \in 1..Len(script) /\ step' = step + 1 /\ script' = script
PROOF
  <1>1. Len(script) \in Nat \ {0} /\ step \in 1..Len(script)
    BY DEF NodeInv, NodeTypeOK, Course, WellFormed
  <1>2. /\ at' = "poll" /\ calling' = FALSE /\ polls' = 0 /\ step' = step + 1
        /\ outcome' = IF step = Len(script) THEN "done" ELSE outcome
        /\ UNCHANGED <<script, stop>>
    BY DEF Advance
  <1>3. NodeTypeOK'
    <2>1. step' \in 1..(Len(script') + 1)
      BY <1>1, <1>2
    <2>2. polls' \in 0..MaxPolls
      BY <1>2, StartupAssumption
    <2>3. at' \in Place /\ outcome' \in {"running", "done", "failed"}
      BY <1>2 DEF Place, NodeInv, NodeTypeOK
    <2>4. calling' \in BOOLEAN /\ stop' \in BOOLEAN
      BY <1>2 DEF NodeInv, NodeTypeOK
    <2> QED
      BY <2>1, <2>2, <2>3, <2>4 DEF NodeTypeOK
  <1>4. Course'
    <2>1. WellFormed(script)'
      BY <1>2 DEF NodeInv, Course, WellFormed, StepFits, Sends
    <2>2. Running' => step' <= Len(script')
      BY <1>1, <1>2 DEF Running
    <2> QED
      BY <2>1, <2>2 DEF Course
  <1>5. Reached'
    BY <1>2 DEF Reached
  <1> QED
    BY <1>1, <1>2, <1>3, <1>4, <1>5

\* On to the next step without a call: the step left requires none, and what it
\* waited for, if it had to, has been.
LEMMA AdvancePasses ==
  ASSUME NodeInv, Running, Advance, calls' = calls, been' = been,
         script[step].op # "require",
         script[step].op = "waitState" /\ script[step].must =>
           <<script[step].owner, script[step].state>> \in been
  PROVE  NodeInv'
PROOF
  <1>1. /\ NodeTypeOK' /\ Course' /\ Reached'
        /\ step \in 1..Len(script) /\ step' = step + 1 /\ script' = script
    BY AdvanceCourse
  <1>2. step \in Nat /\ Len(script) \in Nat
    BY <1>1 DEF NodeInv, Course, WellFormed
  <1>3. Accounted'
    <2> SUFFICES ASSUME NEW c \in 1..Len(calls)
                 PROVE  \E k \in 1..step :
                          /\ Sends(script[k])
                          /\ calls[c].asked = script[k].owner /\ calls[c].cmd = script[k].cmd
      BY <1>1, <1>2 DEF Accounted, Sends
    <2>1. \E k \in 1..(step - 1) :
            Sends(script[k]) /\ calls[c].asked = script[k].owner /\ calls[c].cmd = script[k].cmd
      BY DEF NodeInv, Accounted
    <2> QED
      BY <2>1, <1>2
  <1>4. PassedHasHappened'
    <2> SUFFICES ASSUME NEW k \in 1..(step' - 1)
                 PROVE  /\ script[k].op = "waitState" /\ script[k].must =>
                             <<script[k].owner, script[k].state>> \in been
                        /\ script[k].op = "require" => Cardinality(CallsOf(calls, script[k])) = 1
      BY <1>1 DEF PassedHasHappened, CallsOf
    <2>1. CASE k \in 1..(step - 1)
      BY <2>1 DEF NodeInv, PassedHasHappened, CallsOf
    <2>2. CASE k = step
      BY <2>2
    <2> QED
      BY <1>1, <1>2, <2>1, <2>2
  <1> QED
    BY <1>1, <1>3, <1>4 DEF NodeInv

\* On to the next step with the one call that the step makes.
LEMMA AdvanceSends ==
  ASSUME NodeInv, Running, Advance, been' = been, Sends(script[step]),
         DOMAIN calls = 1..Len(calls), DOMAIN calls' = 1..(Len(calls) + 1), Len(calls) \in Nat,
         Len(calls') = Len(calls) + 1,
         \A c \in 1..Len(calls) : calls'[c] = calls[c],
         calls'[Len(calls) + 1].asked = script[step].owner,
         calls'[Len(calls) + 1].cmd = script[step].cmd
  PROVE  NodeInv'
PROOF
  <1> DEFINE n == Len(calls) + 1
  <1>1. /\ NodeTypeOK' /\ Course' /\ Reached'
        /\ step \in 1..Len(script) /\ step' = step + 1 /\ script' = script
    BY AdvanceCourse
  <1>2. step \in Nat /\ Len(script) \in Nat
    BY <1>1 DEF NodeInv, Course, WellFormed
  <1>3. Accounted'
    <2> SUFFICES ASSUME NEW c \in 1..n
                 PROVE  \E k \in 1..step :
                          /\ Sends(script[k])
                          /\ calls'[c].asked = script[k].owner /\ calls'[c].cmd = script[k].cmd
      BY <1>1, <1>2 DEF Accounted, Sends
    <2>1. CASE c = n
      BY <2>1, <1>1, <1>2
    <2>2. CASE c \in 1..Len(calls)
      BY <2>2, <1>1, <1>2 DEF NodeInv, Accounted
    <2> QED
      BY <2>1, <2>2
  \* No two steps send the same, so this one adds to its own calls only.
  <1>4. ASSUME NEW k \in 1..Len(script), Sends(script[k]), k # step
        PROVE  ~ (script[k].owner = script[step].owner /\ script[k].cmd = script[step].cmd)
    BY <1>1, <1>4 DEF NodeInv, Course, WellFormed
  <1>5. ASSUME NEW k \in 1..(step - 1), script[k].op = "require"
        PROVE  CallsOf(calls', script[k]) = CallsOf(calls, script[k])
    <2>1. k \in 1..Len(script) /\ k # step /\ Sends(script[k])
      BY <1>1, <1>2, <1>5 DEF Sends
    <2>2. ~ (calls'[n].asked = script[k].owner /\ calls'[n].cmd = script[k].cmd)
      BY <2>1, <1>4
    <2> QED
      BY <2>2, <1>1 DEF CallsOf
  <1>6. CallsOf(calls', script[step]) = {Len(calls) + 1}
    <2>1. ASSUME NEW c \in 1..Len(calls)
          PROVE  ~ (calls[c].asked = script[step].owner /\ calls[c].cmd = script[step].cmd)
      <3>1. PICK k \in 1..(step - 1) :
              Sends(script[k]) /\ calls[c].asked = script[k].owner /\ calls[c].cmd = script[k].cmd
        BY DEF NodeInv, Accounted
      <3>2. k \in 1..Len(script) /\ k # step
        BY <1>1, <1>2
      <3> QED
        BY <3>1, <3>2, <1>4
    <2> DEFINE s == script[step]
    <2>2. CallsOf(calls', s) = {c \in 1..n : calls'[c].asked = s.owner /\ calls'[c].cmd = s.cmd}
      BY <1>1 DEF CallsOf
    <2>3. \A c \in 1..n : (calls'[c].asked = s.owner /\ calls'[c].cmd = s.cmd) <=> c = n
      <3>1. calls'[n].asked = s.owner /\ calls'[n].cmd = s.cmd
        OBVIOUS
      <3>2. \A c \in 1..n : c # n => c \in 1..Len(calls)
        OBVIOUS
      <3> QED
        BY <2>1, <3>1, <3>2
    <2> HIDE DEF s
    <2>4. n \in 1..n
      OBVIOUS
    <2>5. CallsOf(calls', s) = {n}
      BY <2>2, <2>3, <2>4
    <2> QED
      BY <2>5 DEF s
  <1>7. PassedHasHappened'
    <2> SUFFICES ASSUME NEW k \in 1..(step' - 1)
                 PROVE  /\ script[k].op = "waitState" /\ script[k].must =>
                             <<script[k].owner, script[k].state>> \in been
                        /\ script[k].op = "require" => Cardinality(CallsOf(calls', script[k])) = 1
      BY <1>1 DEF PassedHasHappened, CallsOf
    <2>1. CASE k \in 1..(step - 1)
      BY <2>1, <1>5 DEF NodeInv, PassedHasHappened, CallsOf
    <2>2. CASE k = step
      <3>1. Cardinality({Len(calls) + 1}) = 1
        BY FS_Singleton
      <3>2. script[step].op # "waitState"
        BY DEF Sends
      <3> QED
        BY <1>6, <2>2, <3>1, <3>2
    <2> QED
      BY <1>1, <1>2, <2>1, <2>2
  <1> QED
    BY <1>1, <1>3, <1>7 DEF NodeInv

-----------------------------------------------------------------------------
(* The steps.                                                              *)

\* What the step the procedure is at looks like.
LEMMA StepAt ==
  ASSUME NodeInv, Running
  PROVE  /\ step \in 1..Len(script) /\ StepFits(script[step])
         /\ calling => script[step].op = "require"
         /\ polls \in 0..MaxPolls /\ calling \in BOOLEAN /\ {"poll", "reached", "list"} \subseteq Place
PROOF
  <1>1. Len(script) \in Nat \ {0} /\ step \in 1..Len(script)
    BY DEF NodeInv, NodeTypeOK, Course, WellFormed
  <1> QED
    BY <1>1 DEF NodeInv, NodeTypeOK, Course, WellFormed, Reached, Place

LEMMA AgainKeeps ==
  ASSUME NodeInv, Running, Again, calls' = calls, been' = been
  PROVE  NodeInv'
PROOF
  <1>1. /\ polls' = polls + 1 /\ polls < MaxPolls /\ at' = "poll" /\ calling' = FALSE
        /\ UNCHANGED <<script, step, stop, outcome>>
    BY DEF Again
  <1>2. polls' \in 0..MaxPolls
    BY <1>1, StepAt, StartupAssumption
  <1>3. at' \in Place /\ at' # "reached" /\ calling' \in BOOLEAN
    BY <1>1 DEF Place
  <1> QED
    BY <1>1, <1>2, <1>3, NodeMoves

LEMMA GiveUpKeeps ==
  ASSUME NodeInv, Running, GiveUp, calls' = calls, been' = been
  PROVE  NodeInv'
PROOF
  <1>1. CASE Op = "waitState" /\ ~ script[step].must
    <2>1. Advance
      BY <1>1 DEF GiveUp
    <2> QED
      BY <1>1, <2>1, AdvancePasses DEF Op
  <1>2. CASE ~ (Op = "waitState" /\ ~ script[step].must)
    <2>1. Return("done") \/ Return("failed")
      BY <1>2 DEF GiveUp
    <2>2. outcome' \in {"done", "failed"} /\ UNCHANGED <<script, step, at, calling, polls, stop>>
      BY <2>1 DEF Return
    <2>3. stop' \in BOOLEAN
      BY <2>2 DEF NodeInv, NodeTypeOK
    <2> QED
      BY <2>2, <2>3, NodeStands
  <1> QED
    BY <1>1, <1>2

LEMMA GotoKeeps ==
  ASSUME NodeInv, Running, NEW place \in Place, NEW isCall \in BOOLEAN, Goto(place, isCall),
         calls' = calls, been' = been,
         isCall => script[step].op = "require",
         place = "reached" =>
           script[step].op = "waitState" /\ <<script[step].owner, script[step].state>> \in been
  PROVE  NodeInv'
PROOF
  <1>1. /\ at' = place /\ calling' = isCall
        /\ UNCHANGED <<script, step, polls, stop, outcome>>
    BY DEF Goto
  <1>2. polls' \in 0..MaxPolls
    BY <1>1, StepAt
  <1> QED
    BY <1>1, <1>2, NodeMoves

LEMMA WaitStateKeeps ==
  ASSUME Inv, waitState
  PROVE  NodeInv'
PROOF
  <1>1. Running /\ script[step].op = "waitState" /\ NodeInv /\ WatcherInv
    BY DEF waitState, Op, Inv
  <1>2. UNCHANGED <<directoryVars, watcherVars>> /\ calls' = calls /\ been' = been
    BY DEF waitState, directoryVars, watcherVars
  <1>3. CASE GiveUp
    BY <1>1, <1>2, <1>3, GiveUpKeeps
  <1>4. CASE Again
    BY <1>1, <1>2, <1>4, AgainKeeps
  <1>5. CASE Goto("reached", FALSE) /\ findState(script[step].owner, script[step].state)
    <2>1. script[step].owner \in Owner /\ script[step].state \in State
      BY <1>1, StepAt DEF StepFits
    <2>2. <<script[step].owner, script[step].state>> \in been
      BY <1>1, <1>5, <2>1, WatcherAssumption DEF findState, WatcherInv, Told
    <2> QED
      BY <1>1, <1>2, <1>5, <2>2, GotoKeeps DEF Place
  <1> QED
    BY <1>3, <1>4, <1>5 DEF waitState

LEMMA WaitStateReturnsKeeps ==
  ASSUME Inv, waitStateReturns
  PROVE  NodeInv'
PROOF
  <1>1. Running /\ at = "reached" /\ NodeInv
    BY DEF waitStateReturns, Inv
  <1>2. calls' = calls /\ been' = been
    BY DEF waitStateReturns, directoryVars, watcherVars
  <1>3. CASE GiveUp
    BY <1>1, <1>2, <1>3, GiveUpKeeps
  <1>4. CASE Advance
    BY <1>1, <1>2, <1>4, AdvancePasses DEF NodeInv, Reached
  <1> QED
    BY <1>3, <1>4 DEF waitStateReturns

LEMMA SearchKeeps ==
  ASSUME Inv, Search
  PROVE  DirectoryInv' /\ NodeInv' /\ UNCHANGED watcherVars
PROOF
  <1>1. Running /\ NodeInv /\ DirectoryInv /\ UNCHANGED watcherVars /\ been' = been
    BY DEF Search, Inv, watcherVars
  <1>2. CASE GiveUp /\ UNCHANGED directoryVars
    <2>1. calls' = calls /\ DirectoryInv'
      BY <1>1, <1>2 DEF directoryVars, DirectoryInv, DirectoryTypeOK, Addressed, Delivered
    <2> QED
      BY <1>1, <1>2, <2>1, GiveUpKeeps
  <1>3. CASE Goto("list", calling) /\ getDiscoveredParticipantsInfo
    <2>1. DirectoryInv' /\ calls' = calls
      BY <1>1, <1>3, ListKeeps
    <2> QED
      BY <1>1, <1>3, <2>1, GotoKeeps, StepAt DEF Place
  <1> QED
    BY <1>1, <1>2, <1>3 DEF Search

LEMMA WaitCommandKeeps ==
  ASSUME Inv, waitCommand
  PROVE  NodeInv'
PROOF
  <1>1. Running /\ script[step].op = "waitCommand" /\ NodeInv /\ calls' = calls /\ been' = been
    BY DEF waitCommand, Op, Inv, directoryVars, watcherVars
  <1>2. CASE Advance
    BY <1>1, <1>2, AdvancePasses
  <1>3. CASE Again
    BY <1>1, <1>3, AgainKeeps
  <1>4. CASE GiveUp
    BY <1>1, <1>4, GiveUpKeeps
  <1> QED
    BY <1>2, <1>3, <1>4 DEF waitCommand

LEMMA FindUniqueKeeps ==
  ASSUME Inv, findUnique
  PROVE  NodeInv'
PROOF
  <1>1. Running /\ NodeInv /\ calls' = calls /\ been' = been /\ script[step].op = "require"
    BY DEF findUnique, Op, Inv, directoryVars, watcherVars
  <1>2. CASE Goto("poll", TRUE)
    BY <1>1, <1>2, GotoKeeps DEF Place
  <1>3. CASE Again
    BY <1>1, <1>3, AgainKeeps
  <1>4. CASE GiveUp
    BY <1>1, <1>4, GiveUpKeeps
  <1> QED
    BY <1>2, <1>3, <1>4 DEF findUnique

LEMMA CallCommandKeeps ==
  ASSUME Inv, callCommand
  PROVE  DirectoryInv' /\ NodeInv' /\ UNCHANGED watcherVars
PROOF
  <1> DEFINE s == script[step]
  <1>1. Running /\ NodeInv /\ DirectoryInv /\ UNCHANGED watcherVars /\ been' = been
        /\ (s.op = "call" \/ calling)
    BY DEF callCommand, Inv, watcherVars, Op
  <1>2. step \in 1..Len(script) /\ StepFits(s) /\ s.op \in {"require", "call"}
    BY <1>1, StepAt
  <1>3. ASSUME UNCHANGED directoryVars PROVE calls' = calls /\ DirectoryInv'
    BY <1>1, <1>3 DEF directoryVars, DirectoryInv, DirectoryTypeOK, Addressed, Delivered
  <1>4. CASE ~ Callable(s.owner, s.cmd, s.all)
    <2>1. UNCHANGED directoryVars /\ IF s.op = "require" THEN Again \/ GiveUp ELSE Advance
      BY <1>4 DEF callCommand, Op
    <2>2. CASE Again
      BY <1>1, <1>3, <2>1, <2>2, AgainKeeps
    <2>3. CASE GiveUp
      BY <1>1, <1>3, <2>1, <2>3, GiveUpKeeps
    <2>4. CASE s.op # "require" /\ Advance
      BY <1>1, <1>2, <1>3, <2>1, <2>4, AdvancePasses
    <2> QED
      BY <1>1, <1>3, <2>1, <2>2, <2>3, <2>4
  <1>5. CASE Callable(s.owner, s.cmd, s.all) /\ IsLocal(s.owner, s.cmd, s.all)
    <2>1. stop' = TRUE /\ outcome' = "done"
          /\ UNCHANGED <<script, step, at, calling, polls, directoryVars>>
      BY <1>5 DEF callCommand
    <2> QED
      BY <1>1, <1>3, <2>1, NodeStands
  <1>6. CASE Callable(s.owner, s.cmd, s.all) /\ ~ IsLocal(s.owner, s.cmd, s.all)
    <2>1. Advance /\ sendMessage(s.owner, s.cmd, s.all)
      BY <1>6 DEF callCommand
    <2>2. s.owner \in MaybeOwner /\ s.cmd \in Command /\ s.all \in BOOLEAN
      BY <1>2 DEF StepFits, Sends, MaybeOwner
    <2>3. /\ DirectoryInv'
          /\ Len(calls') = Len(calls) + 1
          /\ \A c \in 1..Len(calls) : calls'[c] = calls[c]
          /\ calls'[Len(calls) + 1].asked = s.owner
          /\ calls'[Len(calls) + 1].cmd = s.cmd
      BY <1>1, <1>6, <2>1, <2>2, SendKeeps
    <2>4. /\ DOMAIN calls = 1..Len(calls) /\ Len(calls) \in Nat
          /\ DOMAIN calls' = 1..Len(calls')
      BY <1>1, <2>3 DEF DirectoryInv, DirectoryTypeOK
    <2> QED
      BY <1>1, <1>2, <2>1, <2>3, <2>4, AdvanceSends DEF Sends
  <1> QED
    BY <1>4, <1>5, <1>6

-----------------------------------------------------------------------------
(* The components.                                                         *)

LEMMA ServeKeeps ==
  ASSUME Inv, NEW r \in Reader, Serve(r)
  PROVE  Inv'
PROOF
  <1> DEFINE i == r.inst
             served == [inbox EXCEPT ![r] = Tail(@)]
  <1>1. DirectoryInv /\ WatcherInv /\ NodeInv /\ Accept(r) /\ i \in Instance
    BY DEF Inv, Serve, Reader
  <1>2. served \in [Reader -> Seq(1..Len(calls))]
    BY <1>1 DEF Accept, HasCall, DirectoryInv, Delivered
  <1>3. readers \subseteq Reader /\ stop \in BOOLEAN
    BY <1>1 DEF DirectoryInv, DirectoryTypeOK, NodeInv, NodeTypeOK
  <1>4. "idle" \in State /\ "run" \in State
    BY StartupAssumption
  <1>5. ASSUME inbox' = served, readers' = readers PROVE DirectoryInv' /\ calls' = calls
    BY <1>1, <1>2, <1>3, <1>5, AcceptIsForIt
  <1>6. ASSUME UNCHANGED watcherVars PROVE WatcherInv' /\ been \subseteq been'
    BY <1>1, <1>6 DEF watcherVars, WatcherInv, WatcherTypeOK, Told
  <1>7. ASSUME UNCHANGED nodeVars, calls' = calls, been \subseteq been' PROVE NodeInv'
    BY <1>1, <1>3, <1>7, NodeStands DEF nodeVars
  <1>8. CASE r.cmd = "load"
    <2>1. inbox' = served /\ UNCHANGED nodeVars
      BY <1>8 DEF Serve
    <2>2. CASE UNCHANGED <<readers, watcherVars>>
      BY <1>5, <1>6, <1>7, <2>1, <2>2 DEF Inv
    <2>3. CASE Offer(OfferedBy(Loaded)) /\ Enter(Loaded, "idle")
      <3>1. readers' \subseteq Reader
        BY <1>3, <2>3, StartupAssumption DEF Offer, OfferedBy, Reader
      <3>2. DirectoryInv' /\ calls' = calls
        BY <1>1, <1>2, <2>1, <3>1, AcceptIsForIt
      <3>3. WatcherInv' /\ been \subseteq been'
        BY <1>1, <1>4, <2>3, EnterKeeps, StartupAssumption
      <3> QED
        BY <1>7, <2>1, <3>2, <3>3 DEF Inv
    <2> QED
      BY <1>8, <2>2, <2>3 DEF Serve
  <1>9. CASE r.cmd = "activate"
    <2>1. inbox' = served /\ UNCHANGED <<readers, nodeVars>>
          /\ (Enter(i, "run") \/ UNCHANGED watcherVars)
      BY <1>9 DEF Serve
    <2>2. WatcherInv' /\ been \subseteq been'
      BY <1>1, <1>4, <1>6, <2>1, EnterKeeps
    <2> QED
      BY <1>5, <1>7, <2>1, <2>2 DEF Inv
  <1>10. CASE r.cmd = "shutdown" /\ i = Self
    <2>1. inbox' = served /\ stop' = TRUE
          /\ UNCHANGED <<readers, watcherVars, script, step, at, calling, polls, outcome>>
      BY <1>10 DEF Serve
    <2>2. NodeInv'
      BY <1>1, <1>5, <1>6, <2>1, NodeStands
    <2> QED
      BY <1>5, <1>6, <2>1, <2>2 DEF Inv
  <1>11. CASE ~ (r.cmd = "load") /\ ~ (r.cmd = "activate") /\ ~ (r.cmd = "shutdown" /\ i = Self)
    <2>1. Withdraw({q \in readers : q.inst = i}) /\ Vanish(i) /\ UNCHANGED nodeVars
      BY <1>11 DEF Serve
    <2>2. <<>> \in Seq(1..Len(calls)) /\ \A q \in Reader : inbox[q] \in Seq(1..Len(calls))
      BY <1>1 DEF DirectoryInv, Delivered
    <2>3. inbox' \in [Reader -> Seq(1..Len(calls))] /\ readers' \subseteq Reader
      BY <1>3, <2>1, <2>2 DEF Withdraw
    <2>4. DirectoryInv' /\ calls' = calls
      BY <1>1, <2>3, AcceptIsForIt
    <2>5. WatcherInv' /\ been \subseteq been'
      BY <1>1, <2>1, VanishKeeps
    <2> QED
      BY <1>7, <2>1, <2>4, <2>5 DEF Inv
  <1> QED
    BY <1>8, <1>9, <1>10, <1>11

LEMMA OthersKeep ==
  ASSUME Inv, NEW i \in Instance,
         \/ Receive(i) /\ UNCHANGED <<directoryVars, nodeVars>>
         \/ WithdrawActivate(i) \/ Die(i)
  PROVE  Inv'
PROOF
  <1>1. DirectoryInv /\ WatcherInv /\ NodeInv /\ stop \in BOOLEAN
    BY DEF Inv, NodeInv, NodeTypeOK
  <1>2. ASSUME UNCHANGED nodeVars, calls' = calls, been \subseteq been' PROVE NodeInv'
    BY <1>1, <1>2, NodeStands DEF nodeVars
  <1>3. CASE Receive(i) /\ UNCHANGED <<directoryVars, nodeVars>>
    <2>1. DirectoryInv' /\ calls' = calls
      BY <1>1, <1>3 DEF directoryVars, DirectoryInv, DirectoryTypeOK, Addressed, Delivered
    <2> QED
      BY <1>1, <1>2, <1>3, <2>1, ReceiveKeeps DEF Inv
  <1>4. CASE WithdrawActivate(i)
    <2> DEFINE gone == {[inst |-> i, cmd |-> "activate"]}
    <2>1. Withdraw(gone)
          /\ UNCHANGED <<discovered, matched, infos, calls, accepted, watcherVars, nodeVars>>
      BY <1>4 DEF WithdrawActivate
    <2>2. DirectoryInv'
      BY <1>1, <2>1, WithdrawKeeps
    <2>3. WatcherInv' /\ been \subseteq been'
      BY <1>1, <2>1 DEF watcherVars, WatcherInv, WatcherTypeOK, Told
    <2> QED
      BY <1>2, <2>1, <2>2, <2>3 DEF Inv
  <1>5. CASE Die(i)
    <2>1. Withdraw({r \in readers : r.inst = i}) /\ Vanish(i)
          /\ UNCHANGED <<discovered, matched, infos, calls, accepted, nodeVars>>
      BY <1>5 DEF Die
    <2>2. DirectoryInv'
      BY <1>1, <2>1, WithdrawKeeps
    <2> QED
      BY <1>1, <1>2, <2>1, <2>2, VanishKeeps DEF Inv
  <1> QED
    BY <1>3, <1>4, <1>5

LEMMA Inductive == Inv /\ [Next]_vars => Inv'
PROOF
  <1> SUFFICES ASSUME Inv, [Next]_vars PROVE Inv'
    OBVIOUS
  <1>0. DirectoryInv /\ WatcherInv /\ NodeInv /\ stop \in BOOLEAN
    BY DEF Inv, NodeInv, NodeTypeOK
  <1>1. ASSUME UNCHANGED directoryVars PROVE DirectoryInv' /\ calls' = calls
    BY <1>0, <1>1 DEF directoryVars, DirectoryInv, DirectoryTypeOK, Addressed, Delivered
  <1>2. ASSUME UNCHANGED watcherVars PROVE WatcherInv' /\ been \subseteq been'
    BY <1>0, <1>2 DEF watcherVars, WatcherInv, WatcherTypeOK, Told
  <1>3. ASSUME UNCHANGED nodeVars, calls' = calls, been \subseteq been' PROVE NodeInv'
    BY <1>0, <1>3, NodeStands DEF nodeVars
  <1>4. CASE waitState
    BY <1>1, <1>2, <1>4, WaitStateKeeps DEF waitState, Inv
  <1>5. CASE waitStateReturns
    BY <1>1, <1>2, <1>5, WaitStateReturnsKeeps DEF waitStateReturns, Inv
  <1>6. CASE Search
    BY <1>2, <1>6, SearchKeeps DEF Inv
  <1>7. CASE waitCommand
    BY <1>1, <1>2, <1>7, WaitCommandKeeps DEF waitCommand, Inv
  <1>8. CASE findUnique
    BY <1>1, <1>2, <1>8, FindUniqueKeeps DEF findUnique, Inv
  <1>9. CASE callCommand
    BY <1>2, <1>9, CallCommandKeeps DEF Inv
  <1>10. CASE Signal
    <2>1. stop' = TRUE
          /\ UNCHANGED <<directoryVars, watcherVars, script, step, at, calling, polls, outcome>>
      BY <1>10 DEF Signal
    <2> QED
      BY <1>0, <1>1, <1>2, <2>1, NodeStands DEF Inv
  <1>11. ASSUME NEW r \in Reader, Discover(r) \/ Match(r) \/ NoticeGone(r) \/ Drop(r),
                UNCHANGED <<watcherVars, nodeVars>>
         PROVE  Inv'
    BY <1>0, <1>2, <1>3, <1>11, DiscoveryKeeps DEF Inv
  <1>12. ASSUME NEW r \in Reader, Serve(r) PROVE Inv'
    BY <1>12, ServeKeeps
  <1>13. ASSUME NEW i \in Instance,
                \/ Receive(i) /\ UNCHANGED <<directoryVars, nodeVars>>
                \/ WithdrawActivate(i) \/ Die(i)
         PROVE  Inv'
    BY <1>13, OthersKeep
  <1>14. CASE UNCHANGED vars
    BY <1>1, <1>2, <1>3, <1>14 DEF vars, Inv
  <1> QED
    BY <1>4, <1>5, <1>6, <1>7, <1>8, <1>9, <1>10, <1>11, <1>12, <1>13, <1>14 DEF Next, Node

THEOREM Invariant == Spec => []Inv
PROOF
  BY Initially, Inductive, PTL DEF Spec

-----------------------------------------------------------------------------

\* Every variable keeps to its values, whatever the components and procedures.
THEOREM TypeCorrect == Spec => []TypeOK
PROOF
  <1>1. Inv => TypeOK
    BY DEF Inv, DirectoryInv, WatcherInv, NodeInv, NodeTypeOK, TypeOK
  <1> QED
    BY <1>1, Invariant, PTL

\* A call that is not for everyone is accepted by components of one name only,
\* the one that was asked for if there was one (command_manager.cpp:165-202).
THEOREM OneOwner == Spec => []ReachesOneOwner
PROOF
  <1>1. ASSUME Inv PROVE ReachesOneOwner
    <2> SUFFICES ASSUME NEW a \in accepted
                 PROVE  LET call == calls[a[1]]
                            reached == {ownerOf(b[2]) : b \in {b \in accepted : b[1] = a[1]}}
                        IN  /\ a[2].cmd = call.cmd
                            /\ call.all \/ Cardinality(reached) = 1
                            /\ call.asked # NoOwner => reached = {call.asked}
      BY DEF ReachesOneOwner
    <2> DEFINE call == calls[a[1]]
               reached == {ownerOf(b[2]) : b \in {b \in accepted : b[1] = a[1]}}
    <2>1. \A b \in accepted : b[1] \in 1..Len(calls) /\ IsFor(calls[b[1]], b[2])
      BY <1>1 DEF Inv, DirectoryInv, Delivered
    <2>2. call.owner = NoOwner => call.all
      BY <1>1, <2>1 DEF Inv, DirectoryInv, Addressed
    <2>3. call.asked # NoOwner => call.owner = call.asked
      BY <1>1, <2>1 DEF Inv, DirectoryInv, Addressed
    <2>4. call.owner # NoOwner => reached = {call.owner}
      BY <2>1 DEF IsFor
    <2>5. Cardinality({call.owner}) = 1
      BY FS_Singleton
    <2>6. a[2].cmd = call.cmd
      BY <2>1 DEF IsFor
    <2> HIDE DEF call, reached
    <2> QED
      BY <2>2, <2>3, <2>4, <2>5, <2>6 DEF call, reached
  <1> QED
    BY <1>1, Invariant, PTL

\* What a procedure waited for has been, and what it had to send it sent once
\* (run_dls2.cpp.in:145-175, 368-400).
THEOREM PassedHappened == Spec => []PassedHasHappened
PROOF
  <1>1. Inv => PassedHasHappened
    BY DEF Inv, NodeInv
  <1> QED
    BY <1>1, Invariant, PTL
=============================================================================
