-------------------------- MODULE OrchestratorProofs --------------------------
(***************************************************************************)
(* Proofs about the path of an event (EventLog) within Orchestrator, for   *)
(* any threads, events, thresholds and capacities: topic and file have one *)
(* order, only repetitions are held back, and a read beside the callback   *)
(* is faithful; and about the queue: the worst event is shown first.       *)
(***************************************************************************)
EXTENDS Orchestrator, FiniteSetTheorems, WellFoundedInduction, TLAPS

\* What becomes of a read that is over.
Forgets == reading' = NotReading /\ UNCHANGED <<now, loggerVars, listenerVars>>

\* All that the orchestrator does to the log.
LogNext ==
  \/ \E t \in Thread : (\E k \in Kind : Calls(t, k)) \/ Notifies(t) \/ Writes(t)
  \/ Tick \/ Pushes \/ Indexes \/ ReadBegins \/ Reads \/ Forgets

-----------------------------------------------------------------------------
(* The inductive invariant.                                                *)

\* Who is within the logger holds its mutex.
Held ==
  /\ mutex \in Thread \cup {NoThread}
  /\ place \in [Thread -> {"out", "notify", "write"}]
  /\ \A t \in Thread : place[t] # "out" => mutex = t

Logged ==
  /\ now \in 0 .. MaxTime
  /\ calls \in 0 .. MaxCalls
  /\ DOMAIN logging = Thread
  /\ \A t \in Thread : place[t] # "out" => logging[t] \in Event /\ logging[t].call = calls

\* Topic and file have the calls in order; the call in progress is the latest.
Ordered ==
  /\ published \in Seq(Event) /\ file \in Seq(Call)
  /\ Len(published) <= calls
  /\ \A i \in 1 .. Len(published) : published[i].call <= calls
  /\ \A i \in 1 .. Len(file) : file[i] <= calls
  /\ \A t \in Thread : place[t] = "notify" =>
       Len(published) < calls /\ \A i \in 1 .. Len(published) : published[i].call < calls
  /\ \A t \in Thread : place[t] # "out" => \A i \in 1 .. Len(file) : file[i] < calls
  /\ \A i, j \in 1 .. Len(published) : i < j => published[i].call < published[j].call
  /\ \A i, j \in 1 .. Len(file) : i < j => file[i] < file[j]

\* last_event_pub_time_ is the time of the latest event of an id.
Timed ==
  /\ last_event_pub_time_ \in [EventID -> (0 .. MaxTime) \cup {Never}]
  /\ \A i \in 1 .. Len(published) :
       /\ published[i].time <= now
       /\ last_event_pub_time_[published[i].id] # Never
       /\ published[i].time <= last_event_pub_time_[published[i].id]
  /\ \A id \in EventID : last_event_pub_time_[id] # Never =>
       \E i \in 1 .. Len(published) :
         published[i].id = id /\ published[i].time = last_event_pub_time_[id]
  /\ held \subseteq Event

\* The buffer is the end of what arrived, and the index follows its last push.
Buffered ==
  /\ arrived \in 0 .. Len(published)
  /\ callback \in {"out", "pushed"}
  /\ callback = "pushed" => arrived > 0
  /\ event_buffer_ \in Seq(Event)
  /\ Len(event_buffer_) = IF arrived < Capacity THEN arrived ELSE Capacity
  /\ \A i \in 1 .. Len(event_buffer_) :
       event_buffer_[i] = published[arrived - Len(event_buffer_) + i]
  /\ unbounded_buffer_idx_ = IF callback = "pushed" THEN arrived - 2 ELSE arrived - 1

ReadTyped ==
  /\ reading.active \in BOOLEAN
  /\ reading.from \in Nat /\ reading.upto \in Int /\ reading.begun \in Nat
  /\ reading.events \in Seq(Event)
  /\ reading = [active |-> reading.active, from |-> reading.from, upto |-> reading.upto,
                begun |-> reading.begun, events |-> reading.events]

\* What was read is published, in order, and before all that is still to be read.
ReadSoFar ==
  /\ \A i \in 1 .. Len(reading.events) : \E k \in 1 .. Len(published) :
       reading.events[i] = published[k]
  /\ \A i, j \in 1 .. Len(reading.events) :
       i < j => reading.events[i].call < reading.events[j].call
  /\ reading.active =>
       \A i \in 1 .. Len(reading.events), k \in 1 .. Len(published) :
         k > arrived - Len(event_buffer_) + reading.from =>
           reading.events[i].call < published[k].call

\* The bounds are within the buffer, and nothing is missed before it overflows.
ReadWithin ==
  reading.active =>
    /\ reading.from <= reading.upto + 1
    /\ reading.upto < Len(event_buffer_)
    /\ reading.begun <= arrived
    /\ arrived <= Capacity =>
         /\ reading.upto = reading.begun - 1
         /\ Len(reading.events) = reading.from
         /\ \A i \in 1 .. Len(reading.events) : reading.events[i] = published[i]

Inv == Held /\ Logged /\ Ordered /\ Timed /\ OnlySpamIsHeld /\ Buffered /\ ReadTyped /\ ReadSoFar
       /\ ReadWithin

-----------------------------------------------------------------------------

LEMMA EventFields ==
  ASSUME NEW e \in Event
  PROVE  /\ e.id \in EventID /\ e.time \in 0 .. MaxTime /\ e.call \in 1 .. MaxCalls
         /\ e.time \in Nat /\ e.call \in Nat
PROOF
  BY EventLogAssumption DEF Event, Call

LEMMA Parameters ==
  /\ NoThread \notin Thread /\ Never \notin Nat
  /\ Threshold \in Nat /\ Capacity \in Nat /\ Capacity > 0 /\ MaxCalls \in Nat /\ MaxTime \in Nat
PROOF
  BY EventLogAssumption

\* The events and the lines there are.
LEMMA Entries ==
  ASSUME Inv
  PROVE  /\ Len(published) \in Nat /\ Len(file) \in Nat /\ calls \in Nat /\ now \in Nat
         /\ \A i \in 1 .. Len(published) :
              /\ published[i] \in Event /\ published[i].call \in Nat
              /\ published[i].time \in Nat /\ published[i].id \in EventID
         /\ \A i \in 1 .. Len(file) : file[i] \in Nat
PROOF
  <1>1. published \in Seq(Event) /\ file \in Seq(Call)
    BY DEF Inv, Ordered
  <1>2. calls \in Nat /\ now \in Nat
    BY Parameters DEF Inv, Logged
  <1>3. \A i \in 1 .. Len(published) : published[i] \in Event
    BY <1>1
  <1>4. \A i \in 1 .. Len(file) : file[i] \in Nat
    <2>1. \A i \in 1 .. Len(file) : file[i] \in Call
      BY <1>1
    <2> QED
      BY <2>1 DEF Call
  <1> QED
    BY <1>1, <1>2, <1>3, <1>4, EventFields

LEMMA Initially == LogInit => Inv
PROOF
  <1> SUFFICES ASSUME LogInit PROVE Inv
    OBVIOUS
  <1>1. Held
    BY Parameters DEF LogInit, Held
  <1>0. Logged
    <2>1. now = 0 /\ calls = 0 /\ DOMAIN logging = Thread /\ \A t \in Thread : place[t] = "out"
      BY DEF LogInit
    <2> QED
      BY <2>1, Parameters DEF Logged
  <1>2. published = << >> /\ file = << >> /\ calls = 0 /\ held = {}
        /\ last_event_pub_time_ = [i \in EventID |-> Never]
    BY DEF LogInit
  <1>3. published \in Seq(Event) /\ file \in Seq(Call) /\ Len(published) = 0 /\ Len(file) = 0
    BY <1>2
  <1>4. Ordered
    <2>1. \A t \in Thread : place[t] = "out"
      BY DEF LogInit
    <2> QED
      BY <1>2, <1>3, <2>1 DEF Ordered
  <1>5. Timed /\ OnlySpamIsHeld
    BY <1>2, <1>3, Parameters DEF Timed, OnlySpamIsHeld
  <1>6. Buffered
    BY <1>3, Parameters DEF LogInit, Buffered
  <1>7. reading = NotReading
    BY DEF LogInit
  <1>8. ReadTyped /\ ReadSoFar /\ ReadWithin
    BY <1>7 DEF NotReading, ReadTyped, ReadSoFar, ReadWithin
  <1> QED
    BY <1>0, <1>1, <1>4, <1>5, <1>6, <1>8 DEF Inv

LEMMA CallsKeeps ==
  ASSUME Inv, NEW t \in Thread, NEW k \in Kind, Calls(t, k)
  PROVE  Inv'
PROOF
  <1> DEFINE e == [id |-> k.id, severity |-> k.severity, time |-> now, call |-> calls + 1]
  <1>1. /\ calls < MaxCalls /\ place[t] = "out" /\ mutex = NoThread /\ mutex' = t
        /\ place' = [place EXCEPT ![t] = "notify"]
        /\ calls' = calls + 1
        /\ logging' = [logging EXCEPT ![t] = e]
        /\ UNCHANGED <<now, last_event_pub_time_, published, held, file, listenerVars, reading>>
    BY DEF Calls
  <1>2. e \in Event /\ e.call = calls + 1
    BY <1>1, Parameters DEF Inv, Logged, Event, EventID, Call
  <1>3. \A u \in Thread : place[u] = "out"
    BY <1>1, Parameters DEF Inv, Held
  <1>4. \A u \in Thread : place'[u] # "out" => u = t
    BY <1>1, <1>3 DEF Inv, Held
  <1>5. Held'
    BY <1>1, <1>4 DEF Inv, Held
  <1>6. Logged'
    <2> HIDE DEF e
    <2> QED
      BY <1>1, <1>2, <1>4, Parameters DEF Inv, Logged
  <1>7. Ordered'
    <2>0. calls' = calls + 1
      BY <1>1
    <2>1. \A i \in 1 .. Len(published) : published[i].call < calls'
      <3>1. \A i \in 1 .. Len(published) : published[i].call <= calls
        BY DEF Inv, Ordered
      <3> QED
        BY <2>0, <3>1, Entries
    <2>2. \A i \in 1 .. Len(file) : file[i] < calls'
      <3>1. \A i \in 1 .. Len(file) : file[i] <= calls
        BY DEF Inv, Ordered
      <3> QED
        BY <2>0, <3>1, Entries
    <2>3. Len(published) < calls'
      <3>1. Len(published) <= calls
        BY DEF Inv, Ordered
      <3> QED
        BY <2>0, <3>1, Entries
    <2>4. published' = published /\ file' = file /\ calls' \in Nat
      BY <1>1, Entries
    <2>5. /\ published \in Seq(Event) /\ file \in Seq(Call)
          /\ \A i, j \in 1 .. Len(published) : i < j => published[i].call < published[j].call
          /\ \A i, j \in 1 .. Len(file) : i < j => file[i] < file[j]
      BY DEF Inv, Ordered
    <2>6. /\ Len(published) <= calls'
          /\ \A i \in 1 .. Len(published) : published[i].call <= calls'
          /\ \A i \in 1 .. Len(file) : file[i] <= calls'
      BY <2>1, <2>2, <2>3, <2>4, Entries
    <2> QED
      BY <2>1, <2>2, <2>3, <2>4, <2>5, <2>6 DEF Ordered
  <1>8. Timed' /\ OnlySpamIsHeld'
    BY <1>1 DEF Inv, Timed, OnlySpamIsHeld
  <1>9. Buffered' /\ ReadTyped' /\ ReadSoFar' /\ ReadWithin'
    BY <1>1 DEF Inv, listenerVars, Buffered, ReadTyped, ReadSoFar, ReadWithin
  <1> QED
    BY <1>5, <1>6, <1>7, <1>8, <1>9 DEF Inv

LEMMA WritesKeeps ==
  ASSUME Inv, NEW t \in Thread, Writes(t)
  PROVE  Inv'
PROOF
  <1> DEFINE n == Len(file) + 1
  <1>1. /\ place[t] = "write" /\ file' = Append(file, logging[t].call)
        /\ place' = [place EXCEPT ![t] = "out"]
        /\ logging' = [logging EXCEPT ![t] = NoThread]
        /\ mutex' = NoThread
        /\ UNCHANGED <<now, calls, last_event_pub_time_, published, held, listenerVars, reading>>
    BY DEF Writes
  <1>2. \A u \in Thread : place'[u] = "out"
    BY <1>1 DEF Inv, Held
  <1>3. Held' /\ Logged'
    BY <1>1, <1>2 DEF Inv, Held, Logged
  <1>4. logging[t].call = calls /\ calls \in Call
    <2>1. logging[t] \in Event /\ logging[t].call = calls
      BY <1>1 DEF Inv, Logged
    <2> QED
      BY <2>1, EventFields DEF Call
  <1>5. /\ file' \in Seq(Call) /\ Len(file') = n /\ file'[n] = calls
        /\ \A i \in 1 .. Len(file) : file'[i] = file[i] /\ file[i] < calls
    <2>1. file \in Seq(Call) /\ file' = Append(file, calls)
      BY <1>1, <1>4 DEF Inv, Ordered
    <2>2. \A i \in 1 .. Len(file) : file[i] < calls
      BY <1>1 DEF Inv, Ordered
    <2> QED
      BY <1>4, <2>1, <2>2
  <1>6. \A i \in 1 .. n : i = n \/ i \in 1 .. Len(file)
    BY DEF Inv, Ordered
  <1>7. \A i \in 1 .. n : file'[i] <= calls
    BY <1>4, <1>5, <1>6 DEF Inv, Ordered, Call
  <1>8. \A i, j \in 1 .. n : i < j => file'[i] < file'[j]
    <2> SUFFICES ASSUME NEW i \in 1 .. n, NEW j \in 1 .. n, i < j PROVE file'[i] < file'[j]
      OBVIOUS
    <2>1. i \in 1 .. Len(file) /\ (j = n \/ j \in 1 .. Len(file))
      BY <1>6
    <2> QED
      BY <1>5, <2>1 DEF Inv, Ordered
  <1>9. Ordered'
    BY <1>1, <1>2, <1>5, <1>7, <1>8 DEF Inv, Ordered
  <1>10. Timed' /\ OnlySpamIsHeld'
    BY <1>1 DEF Inv, Timed, OnlySpamIsHeld
  <1>11. Buffered' /\ ReadTyped' /\ ReadSoFar' /\ ReadWithin'
    BY <1>1 DEF Inv, listenerVars, Buffered, ReadTyped, ReadSoFar, ReadWithin
  <1> QED
    BY <1>3, <1>9, <1>10, <1>11 DEF Inv

LEMMA NotifiesKeeps ==
  ASSUME Inv, NEW t \in Thread, Notifies(t)
  PROVE  Inv'
PROOF
  <1> DEFINE e == [logging[t] EXCEPT !.time = now]
             n == Len(published) + 1
             last == last_event_pub_time_
  <1>1. /\ place[t] = "notify"
        /\ IF Spamming(e)
           THEN held' = held \cup {e} /\ UNCHANGED <<published, last_event_pub_time_>>
           ELSE /\ published' = Append(published, e)
                /\ last_event_pub_time_' = [last EXCEPT ![e.id] = now]
                /\ UNCHANGED held
        /\ place' = [place EXCEPT ![t] = "write"]
        /\ UNCHANGED <<now, mutex, logging, calls, file, listenerVars, reading>>
    BY DEF Notifies
  <1>2. logging[t] \in Event /\ logging[t].call = calls /\ now \in 0 .. MaxTime
    BY <1>1 DEF Inv, Logged
  <1>3. e \in Event /\ e.time = now /\ e.call = calls /\ e.id \in EventID
    BY <1>2 DEF Event
  <1> HIDE DEF e
  <1>4. Held' /\ Logged'
    BY <1>1 DEF Inv, Held, Logged
  <1>5. \A u \in Thread : place'[u] # "notify" /\ (place'[u] # "out" => place[u] # "out")
    BY <1>1 DEF Inv, Held
  <1>6. last \in [EventID -> (0 .. MaxTime) \cup {Never}]
    BY DEF Inv, Timed
  <1>7. CASE Spamming(e)
    <2>1. held' = held \cup {e} /\ UNCHANGED <<published, last_event_pub_time_, now, calls, file>>
      BY <1>1, <1>7
    <2>2. Ordered'
      BY <1>5, <2>1 DEF Inv, Ordered
    <2>3. Timed'
      BY <1>3, <2>1 DEF Inv, Timed
    <2>4. PICK i \in 1 .. Len(published) : published[i].id = e.id /\ published[i].time = last[e.id]
      BY <1>3, <1>7 DEF Inv, Timed, Spamming
    <2>5. e.time \in published[i].time .. (published[i].time + Threshold - 1)
      <3>1. published[i].time <= now /\ published[i].time \in Nat /\ now \in Nat
        BY <2>4, Entries DEF Inv, Timed
      <3>2. now - published[i].time < Threshold
        BY <1>3, <1>7, <2>4 DEF Spamming
      <3> QED
        BY <1>3, <3>1, <3>2, Parameters
    <2>6. OnlySpamIsHeld'
      BY <2>1, <2>4, <2>5 DEF Inv, OnlySpamIsHeld
    <2>7. Buffered' /\ ReadTyped' /\ ReadSoFar' /\ ReadWithin'
      BY <1>1, <2>1 DEF Inv, listenerVars, Buffered, ReadTyped, ReadSoFar, ReadWithin
    <2> QED
      BY <1>4, <2>2, <2>3, <2>6, <2>7 DEF Inv
  <1>8. CASE ~ Spamming(e)
    <2>1. /\ published' = Append(published, e)
          /\ last_event_pub_time_' = [last EXCEPT ![e.id] = now]
          /\ UNCHANGED <<held, now, mutex, logging, calls, file, listenerVars, reading>>
      BY <1>1, <1>8
    <2>2. /\ published' \in Seq(Event) /\ Len(published') = n /\ published'[n] = e
          /\ \A i \in 1 .. Len(published) : published'[i] = published[i]
      <3>1. published \in Seq(Event)
        BY DEF Inv, Ordered
      <3> QED
        BY <1>3, <2>1, <3>1
    <2>3. \A i \in 1 .. n : i = n \/ i \in 1 .. Len(published)
      BY Entries
    <2>4. /\ Len(published) < calls /\ \A i \in 1 .. Len(published) : published[i].call < calls
      BY <1>1 DEF Inv, Ordered
    <2>5. Ordered'
      <3>1. n <= calls /\ \A i \in 1 .. n : published'[i].call <= calls
        BY <1>3, <2>2, <2>3, <2>4, Entries
      <3>2. ASSUME NEW i \in 1 .. n, NEW j \in 1 .. n, i < j
            PROVE  published'[i].call < published'[j].call
        <4>1. i \in 1 .. Len(published) /\ (j = n \/ j \in 1 .. Len(published))
          BY <2>3, <3>2, Entries
        <4>2. CASE j = n
          BY <1>3, <2>2, <2>4, <4>1, <4>2
        <4>3. CASE j \in 1 .. Len(published)
          BY <2>2, <3>2, <4>1, <4>3 DEF Inv, Ordered
        <4> QED
          BY <4>1, <4>2, <4>3
      <3> QED
        BY <1>5, <2>1, <2>2, <3>1, <3>2 DEF Inv, Ordered
    <2>6. last'[e.id] = now /\ \A id \in EventID : id # e.id => last'[id] = last[id]
      BY <1>3, <1>6, <2>1
    <2>7. Timed'
      <3>1. last' \in [EventID -> (0 .. MaxTime) \cup {Never}]
        BY <1>2, <1>6, <2>1
      <3>2. ASSUME NEW i \in 1 .. n
            PROVE  /\ published'[i].time <= now
                   /\ last'[published'[i].id] # Never
                   /\ published'[i].time <= last'[published'[i].id]
        <4>1. now # Never /\ now \in Nat
          BY <1>2, Parameters
        <4>2. CASE i = n
          BY <1>3, <2>2, <2>6, <4>1, <4>2
        <4>3. CASE i \in 1 .. Len(published)
          <5>1. published'[i] = published[i] /\ published[i].id \in EventID
            BY <2>2, <4>3, Entries
          <5>2. /\ published[i].time <= now
                /\ last[published[i].id] # Never
                /\ published[i].time <= last[published[i].id]
            BY <4>3 DEF Inv, Timed
          <5>3. CASE published[i].id = e.id
            BY <2>6, <4>1, <5>1, <5>2, <5>3
          <5>4. CASE published[i].id # e.id
            BY <2>6, <5>1, <5>2, <5>4
          <5> QED
            BY <5>3, <5>4
        <4> QED
          BY <2>3, <4>2, <4>3
      <3>3. ASSUME NEW id \in EventID, last'[id] # Never
            PROVE  \E i \in 1 .. n : published'[i].id = id /\ published'[i].time = last'[id]
        <4>1. n \in 1 .. n /\ \A i \in 1 .. Len(published) : i \in 1 .. n
          BY Entries
        <4>2. CASE id = e.id
          BY <1>3, <2>2, <2>6, <4>1, <4>2
        <4>3. CASE id # e.id
          <5>1. PICK i \in 1 .. Len(published) : published[i].id = id /\ published[i].time = last[id]
            BY <2>6, <3>3, <4>3 DEF Inv, Timed
          <5> QED
            BY <2>2, <2>6, <4>1, <4>3, <5>1
        <4> QED
          BY <4>2, <4>3
      <3>4. held' \subseteq Event
        BY <2>1 DEF Inv, Timed
      <3> QED
        BY <2>1, <2>2, <3>1, <3>2, <3>3, <3>4 DEF Timed
    <2>8. OnlySpamIsHeld'
      <3>1. ASSUME NEW i \in 1 .. n, NEW j \in 1 .. n, i < j, published'[i].id = published'[j].id
            PROVE  published'[j].time - published'[i].time >= Threshold
        <4>1. i \in 1 .. Len(published) /\ (j = n \/ j \in 1 .. Len(published))
          BY <2>3, <3>1, Entries
        <4>2. CASE j = n
          <5>1. published[i].id = e.id /\ published'[j].time = now
            BY <1>3, <2>2, <3>1, <4>1, <4>2
          <5>2. last[e.id] # Never /\ published[i].time <= last[e.id]
            BY <4>1, <5>1 DEF Inv, Timed
          <5>3. last[e.id] \in Nat /\ now \in Nat /\ published[i].time \in Nat
            BY <1>2, <1>3, <1>6, <4>1, <5>2, Entries
          <5>4. now - last[e.id] >= Threshold
            BY SMTT(30), <1>3, <1>8, <5>2, <5>3, Parameters DEF Spamming
          <5> QED
            BY SMTT(30), <2>2, <4>1, <5>1, <5>2, <5>3, <5>4, Parameters
        <4>3. CASE j \in 1 .. Len(published)
          BY <2>2, <3>1, <4>1, <4>3 DEF Inv, OnlySpamIsHeld
        <4> QED
          BY <4>1, <4>2, <4>3
      <3>2. ASSUME NEW h \in held
            PROVE  \E i \in 1 .. n :
                     /\ published'[i].id = h.id
                     /\ h.time \in published'[i].time .. (published'[i].time + Threshold - 1)
        <4>1. PICK i \in 1 .. Len(published) :
                /\ published[i].id = h.id
                /\ h.time \in published[i].time .. (published[i].time + Threshold - 1)
          BY DEF Inv, OnlySpamIsHeld
        <4>2. i \in 1 .. n
          BY Entries
        <4> QED
          BY <2>2, <4>1, <4>2
      <3> QED
        BY <2>1, <2>2, <3>1, <3>2 DEF OnlySpamIsHeld
    <2>9. Buffered'
      <3>1. arrived \in 0 .. Len(published) /\ Len(event_buffer_) <= arrived /\ Len(event_buffer_) \in Nat
        BY Entries, Parameters DEF Inv, Buffered
      <3>2. arrived' \in 0 .. Len(published')
        BY <2>1, <2>2, <3>1, Entries DEF listenerVars
      <3>3. ASSUME NEW i \in 1 .. Len(event_buffer_)
            PROVE  event_buffer_[i] = published'[arrived - Len(event_buffer_) + i]
        <4>1. arrived - Len(event_buffer_) + i \in 1 .. Len(published)
          BY <3>1, Entries
        <4>2. event_buffer_[i] = published[arrived - Len(event_buffer_) + i]
          BY DEF Inv, Buffered
        <4> QED
          BY <2>2, <4>1, <4>2
      <3> QED
        BY <2>1, <3>2, <3>3 DEF Inv, Buffered, listenerVars
    <2>10. ReadTyped'
      BY <2>1 DEF Inv, ReadTyped
    <2>11. ReadSoFar'
      <3>1. ASSUME NEW i \in 1 .. Len(reading.events)
            PROVE  \E k \in 1 .. n : reading.events[i] = published'[k]
        <4>1. PICK k \in 1 .. Len(published) : reading.events[i] = published[k]
          BY DEF Inv, ReadSoFar
        <4>2. k \in 1 .. n
          BY Entries
        <4> QED
          BY <2>2, <4>1, <4>2
      <3>2. ASSUME reading.active, NEW i \in 1 .. Len(reading.events), NEW k \in 1 .. n,
                   k > arrived - Len(event_buffer_) + reading.from
            PROVE  reading.events[i].call < published'[k].call
        <4>1. CASE k = n
          <5>1. PICK j \in 1 .. Len(published) : reading.events[i] = published[j]
            BY DEF Inv, ReadSoFar
          <5> QED
            BY <1>3, <2>2, <2>4, <4>1, <5>1
        <4>2. CASE k \in 1 .. Len(published)
          BY <2>2, <3>2, <4>2 DEF Inv, ReadSoFar
        <4> QED
          BY <2>3, <4>1, <4>2
      <3> QED
        BY <2>1, <2>2, <3>1, <3>2 DEF Inv, ReadSoFar, listenerVars
    <2>12. ReadWithin'
      <3>1. ASSUME reading.active, arrived <= Capacity, NEW i \in 1 .. Len(reading.events)
            PROVE  reading.events[i] = published'[i]
        <4>1. Len(reading.events) = reading.from /\ reading.from <= reading.upto + 1
              /\ reading.upto = reading.begun - 1 /\ reading.begun <= arrived
              /\ reading.events[i] = published[i]
          BY <3>1 DEF Inv, ReadWithin
        <4>2. i \in 1 .. Len(published)
          BY <4>1, Entries DEF Inv, ReadTyped, Buffered
        <4> QED
          BY <2>2, <4>1, <4>2
      <3> QED
        BY <2>1, <3>1 DEF Inv, ReadWithin, listenerVars
    <2> QED
      BY <1>4, <2>5, <2>7, <2>8, <2>9, <2>10, <2>11, <2>12 DEF Inv
  <1> QED
    BY <1>7, <1>8

LEMMA TickKeeps ==
  ASSUME Inv, Tick
  PROVE  Inv'
PROOF
  <1>1. now' = now + 1 /\ now < MaxTime /\ UNCHANGED <<loggerVars, listenerVars, reading>>
    BY DEF Tick
  <1>2. now' \in 0 .. MaxTime
    BY <1>1, Entries, Parameters
  <1>3. Held' /\ Logged' /\ Ordered'
    BY <1>1, <1>2 DEF Inv, loggerVars, Held, Logged, Ordered
  <1>4. \A i \in 1 .. Len(published) : published[i].time <= now'
    <2>1. \A i \in 1 .. Len(published) : published[i].time <= now
      BY DEF Inv, Timed
    <2> QED
      BY <1>1, <2>1, Entries
  <1>5. Timed' /\ OnlySpamIsHeld'
    BY <1>1, <1>4 DEF Inv, loggerVars, Timed, OnlySpamIsHeld
  <1>6. Buffered' /\ ReadTyped' /\ ReadSoFar' /\ ReadWithin'
    BY <1>1 DEF Inv, loggerVars, listenerVars, Buffered, ReadTyped, ReadSoFar, ReadWithin
  <1> QED
    BY <1>3, <1>5, <1>6 DEF Inv

\* The logger's part of the invariant is not the listener's concern.
LEMMA LoggerStands ==
  ASSUME Inv, UNCHANGED <<now, loggerVars>>
  PROVE  Held' /\ Logged' /\ Ordered' /\ Timed' /\ OnlySpamIsHeld'
PROOF
  <1>1. Held' /\ Logged' /\ Ordered'
    BY DEF Inv, loggerVars, Held, Logged, Ordered
  <1>2. Timed' /\ OnlySpamIsHeld'
    BY DEF Inv, loggerVars, Timed, OnlySpamIsHeld
  <1> QED
    BY <1>1, <1>2

\* What is known of the buffer, in numbers.
LEMMA Positions ==
  ASSUME Inv
  PROVE  /\ arrived \in Nat /\ arrived <= Len(published)
         /\ event_buffer_ \in Seq(Event)
         /\ Len(event_buffer_) \in Nat /\ Len(event_buffer_) <= arrived
         /\ Len(event_buffer_) <= Capacity
         /\ arrived <= Capacity => Len(event_buffer_) = arrived
         /\ arrived >= Capacity => Len(event_buffer_) = Capacity
PROOF
  BY Entries, Parameters DEF Inv, Buffered

LEMMA PushesKeeps ==
  ASSUME Inv, Pushes
  PROVE  Inv'
PROOF
  <1> DEFINE e == published[arrived + 1]
             b == event_buffer_
  <1>1. /\ callback = "out" /\ arrived < Len(published) /\ arrived' = arrived + 1
        /\ b' = Pushed(b, e) /\ callback' = "pushed"
        /\ UNCHANGED <<now, loggerVars, unbounded_buffer_idx_, reading>>
    BY DEF Pushes
  <1>2. published' = published
    BY <1>1 DEF loggerVars
  <1>3. e \in Event
    BY SMTT(30), <1>1, Entries, Positions
  <1>4. /\ b' \in Seq(Event)
        /\ Len(b') = IF arrived' < Capacity THEN arrived' ELSE Capacity
        /\ \A i \in 1 .. Len(b') : b'[i] = published[arrived' - Len(b') + i]
    <2>0. \A i \in 1 .. Len(b) : b[i] = published[arrived - Len(b) + i]
      BY DEF Inv, Buffered
    <2>1. CASE Len(b) < Capacity
      <3>1. b' = Append(b, e) /\ Len(b) = arrived
        BY <1>1, <2>1, Positions, Parameters DEF Pushed
      <3>2. b' \in Seq(Event) /\ Len(b') = arrived + 1 /\ b'[arrived + 1] = e
            /\ \A i \in 1 .. Len(b) : b'[i] = b[i]
        BY <1>3, <3>1, Positions
      <3>3. ASSUME NEW i \in 1 .. Len(b') PROVE b'[i] = published[arrived' - Len(b') + i]
        <4>1. arrived' - Len(b') + i = i
          BY <1>1, <3>2, Positions
        <4>2. CASE i = arrived + 1
          BY <3>2, <4>1, <4>2
        <4>3. CASE i \in 1 .. Len(b)
          BY <2>0, <3>1, <3>2, <4>1, <4>3, Positions
        <4> QED
          BY <3>1, <3>2, <4>2, <4>3, Positions
      <3>4. Len(b') = IF arrived' < Capacity THEN arrived' ELSE Capacity
        BY <1>1, <2>1, <3>1, <3>2, Positions, Parameters
      <3> QED
        BY <3>2, <3>3, <3>4
    <2>2. CASE ~ (Len(b) < Capacity)
      <3>1. b' = Append(Tail(b), e) /\ Len(b) = Capacity /\ arrived >= Capacity
        BY <1>1, <2>2, Positions, Parameters DEF Pushed
      <3>2. Tail(b) \in Seq(Event) /\ Len(Tail(b)) = Capacity - 1
            /\ \A i \in 1 .. (Capacity - 1) : Tail(b)[i] = b[i + 1]
        BY <3>1, Positions, Parameters
      <3>3. b' \in Seq(Event) /\ Len(b') = Capacity /\ b'[Capacity] = e
            /\ \A i \in 1 .. (Capacity - 1) : b'[i] = Tail(b)[i]
        BY <1>3, <3>1, <3>2, Parameters
      <3>4. ASSUME NEW i \in 1 .. Len(b') PROVE b'[i] = published[arrived' - Len(b') + i]
        <4>1. CASE i = Capacity
          <5>1. arrived' - Len(b') + i = arrived + 1
            BY <1>1, <3>3, <4>1, Positions, Parameters
          <5> QED
            BY <3>3, <4>1, <5>1
        <4>2. CASE i \in 1 .. (Capacity - 1)
          <5>1. arrived' - Len(b') + i = arrived - Len(b) + (i + 1) /\ i + 1 \in 1 .. Len(b)
            BY <1>1, <3>1, <3>3, <4>2, Positions, Parameters
          <5>2. b'[i] = b[i + 1]
            BY <3>2, <3>3, <4>2
          <5> QED
            BY <2>0, <5>1, <5>2
        <4> QED
          BY <3>3, <4>1, <4>2, Parameters
      <3> QED
        BY SMTT(30), <1>1, <3>1, <3>3, <3>4, Positions, Parameters
    <2> QED
      BY <2>1, <2>2
  <1>5. Buffered'
    <2>1. arrived' \in 0 .. Len(published') /\ arrived' > 0
      BY <1>1, <1>2, Positions, Entries
    <2>2. unbounded_buffer_idx_' = arrived' - 2
      BY <1>1, Positions DEF Inv, Buffered
    <2> QED
      BY <1>1, <1>2, <1>4, <2>1, <2>2 DEF Buffered
  <1>6. arrived' - Len(b') >= arrived - Len(b) /\ Len(b') >= Len(b) /\ Len(b') \in Nat
    BY <1>1, <1>4, Positions, Parameters
  <1>7. ReadTyped'
    BY <1>1 DEF Inv, ReadTyped
  <1>8. ReadSoFar'
    <2>1. ASSUME reading.active, NEW i \in 1 .. Len(reading.events), NEW k \in 1 .. Len(published),
                 k > arrived' - Len(b') + reading.from
          PROVE  reading.events[i].call < published[k].call
      <3>1. k > arrived - Len(b) + reading.from
        BY <1>1, <1>6, <2>1, Positions DEF Inv, ReadTyped
      <3> QED
        BY <2>1, <3>1 DEF Inv, ReadSoFar
    <2> QED
      BY <1>1, <1>2, <2>1 DEF Inv, ReadSoFar
  <1>9. ReadWithin'
    <2>1. ASSUME reading.active
          PROVE  reading.upto < Len(b') /\ reading.begun <= arrived'
                 /\ (arrived' <= Capacity => arrived <= Capacity)
      <3>1. reading.upto < Len(b) /\ reading.begun <= arrived
            /\ reading.upto \in Int /\ reading.begun \in Nat
        BY <2>1 DEF Inv, ReadWithin, ReadTyped
      <3>2. arrived' = arrived + 1 /\ arrived \in Nat /\ Capacity \in Nat
        BY <1>1, Positions, Parameters
      <3>3. Len(b) \in Nat
        BY Positions
      <3>4. reading.upto < Len(b')
        BY <1>6, <3>1, <3>3
      <3>5. reading.begun <= arrived'
        BY <3>1, <3>2
      <3>6. arrived' <= Capacity => arrived <= Capacity
        BY <3>2
      <3> QED
        BY <3>4, <3>5, <3>6
    <2> QED
      BY <1>1, <1>2, <2>1 DEF Inv, ReadWithin
  <1> QED
    BY <1>1, <1>5, <1>7, <1>8, <1>9, LoggerStands DEF Inv

LEMMA IndexesKeeps ==
  ASSUME Inv, Indexes
  PROVE  Inv'
PROOF
  <1>1. /\ callback = "pushed" /\ callback' = "out"
        /\ unbounded_buffer_idx_' = unbounded_buffer_idx_ + 1
        /\ UNCHANGED <<now, loggerVars, arrived, event_buffer_, reading>>
    BY DEF Indexes
  <1>2. unbounded_buffer_idx_' = arrived - 1
    BY <1>1, Positions DEF Inv, Buffered
  <1>3. Buffered'
    BY <1>1, <1>2 DEF Inv, loggerVars, Buffered
  <1>4. ReadTyped' /\ ReadSoFar' /\ ReadWithin'
    BY <1>1 DEF Inv, loggerVars, ReadTyped, ReadSoFar, ReadWithin
  <1> QED
    BY <1>1, <1>3, <1>4, LoggerStands DEF Inv

LEMMA ReadBeginsKeeps ==
  ASSUME Inv, ReadBegins
  PROVE  Inv'
PROOF
  <1> DEFINE idx == unbounded_buffer_idx_
             b == Bounds(idx)
  <1>1. /\ reading' = [active |-> TRUE, from |-> b.from, upto |-> b.upto,
                       begun |-> idx + 1, events |-> << >>]
        /\ UNCHANGED <<now, loggerVars, listenerVars>>
    BY DEF ReadBegins
  <1>2. idx \in Int /\ idx >= -1 /\ idx < arrived
    BY Positions DEF Inv, Buffered
  <1>3. /\ b.from = 0
        /\ b.upto \in Int /\ b.upto >= -1 /\ b.upto < Len(event_buffer_)
        /\ arrived <= Capacity => b.upto = idx
    <2>1. CASE idx < 0
      BY <1>2, <2>1, Positions, Parameters DEF Bounds, buffer_max_idx_
    <2>2. CASE idx >= 0 /\ idx > Capacity - 1
      BY <1>2, <2>2, Positions, Parameters DEF Bounds, buffer_max_idx_
    <2>3. CASE idx >= 0 /\ idx <= Capacity - 1 /\ idx >= Capacity - 1
      BY <1>2, <2>3, Positions, Parameters DEF Bounds, buffer_max_idx_
    <2>4. CASE idx >= 0 /\ idx <= Capacity - 1 /\ ~ (idx >= Capacity - 1)
      BY <1>2, <2>4, Positions, Parameters DEF Bounds, buffer_max_idx_
    <2> QED
      BY <1>2, <2>1, <2>2, <2>3, <2>4, Parameters
  <1> HIDE DEF b
  <1>4. /\ reading'.active = TRUE /\ reading'.from = 0 /\ reading'.upto = b.upto
        /\ reading'.begun = idx + 1 /\ reading'.events = << >>
    BY <1>1, <1>3
  <1>5. ReadTyped'
    BY <1>1, <1>2, <1>3, <1>4 DEF ReadTyped
  <1>6. ReadSoFar'
    BY <1>4 DEF ReadSoFar
  <1>7. ReadWithin'
    BY <1>1, <1>2, <1>3, <1>4, Positions DEF ReadWithin, listenerVars
  <1>8. Buffered'
    BY <1>1 DEF Inv, Buffered, listenerVars, loggerVars
  <1> QED
    BY <1>1, <1>5, <1>6, <1>7, <1>8, LoggerStands DEF Inv

LEMMA ReadsKeeps ==
  ASSUME Inv, Reads
  PROVE  Inv'
PROOF
  <1> DEFINE old == reading
             at == old.from + 1
             e == event_buffer_[at]
             n == Len(old.events) + 1
             k == arrived - Len(event_buffer_) + at
  <1>1. /\ old.active /\ old.from <= old.upto /\ old.from < Len(event_buffer_)
        /\ reading' = [old EXCEPT !.from = @ + 1, !.events = Append(@, e)]
        /\ UNCHANGED <<now, loggerVars, listenerVars>>
    BY DEF Reads
  <1>2. old.from \in Nat /\ old.upto \in Int /\ old.begun \in Nat /\ old.events \in Seq(Event)
        /\ Len(old.events) \in Nat
    BY DEF Inv, ReadTyped
  <1>3. at \in 1 .. Len(event_buffer_) /\ k \in 1 .. Len(published) /\ e = published[k]
        /\ e \in Event
    <2>1. at \in 1 .. Len(event_buffer_)
      BY <1>1, <1>2, Positions
    <2>2. e = published[k] /\ e \in Event
      BY <2>1, Positions DEF Inv, Buffered
    <2>3. k \in 1 .. Len(published)
      BY <2>1, Positions, Entries
    <2> QED
      BY <2>1, <2>2, <2>3
  <1> HIDE DEF e
  <1>4. /\ reading'.active = old.active /\ reading'.from = at /\ reading'.upto = old.upto
        /\ reading'.begun = old.begun /\ reading'.events = Append(old.events, e)
        /\ reading' = [active |-> old.active, from |-> at, upto |-> old.upto,
                       begun |-> old.begun, events |-> Append(old.events, e)]
    BY <1>1 DEF Inv, ReadTyped
  <1>5. /\ reading'.events \in Seq(Event) /\ Len(reading'.events) = n /\ reading'.events[n] = e
        /\ \A i \in 1 .. Len(old.events) : reading'.events[i] = old.events[i]
    BY <1>2, <1>3, <1>4
  <1>6. \A i \in 1 .. n : i = n \/ i \in 1 .. Len(old.events)
    BY <1>2
  <1>7. ReadTyped'
    BY <1>2, <1>4, <1>5 DEF Inv, ReadTyped
  <1>8. \A i \in 1 .. Len(old.events) : old.events[i].call < e.call
    <2>1. k > arrived - Len(event_buffer_) + old.from
      BY <1>2, Positions
    <2> QED
      BY <1>1, <1>3, <2>1 DEF Inv, ReadSoFar
  <1>9. ReadSoFar'
    <2>1. UNCHANGED <<published, arrived, event_buffer_>>
      BY <1>1 DEF loggerVars, listenerVars
    <2>2. ASSUME NEW i \in 1 .. n PROVE \E j \in 1 .. Len(published) : reading'.events[i] = published[j]
      BY <1>3, <1>5, <1>6 DEF Inv, ReadSoFar
    <2>3. ASSUME NEW i \in 1 .. n, NEW j \in 1 .. n, i < j
          PROVE  reading'.events[i].call < reading'.events[j].call
      <3>1. i \in 1 .. Len(old.events) /\ (j = n \/ j \in 1 .. Len(old.events))
        BY <1>2, <1>6, <2>3
      <3> QED
        BY <1>5, <1>8, <2>3, <3>1 DEF Inv, ReadSoFar
    <2>4. ASSUME NEW i \in 1 .. n, NEW j \in 1 .. Len(published),
                 j > arrived - Len(event_buffer_) + at
          PROVE  reading'.events[i].call < published[j].call
      <3>1. CASE i = n
        BY <1>3, <1>5, <2>4, <3>1, Positions DEF Inv, Ordered
      <3>2. CASE i \in 1 .. Len(old.events)
        <4>1. j > arrived - Len(event_buffer_) + old.from
          BY <1>2, <2>4, Positions
        <4> QED
          BY <1>1, <1>5, <3>2, <4>1 DEF Inv, ReadSoFar
      <3> QED
        BY <1>6, <3>1, <3>2
    <2> QED
      BY SMTT(30), <1>4, <1>5, <2>1, <2>2, <2>3, <2>4 DEF ReadSoFar
  <1>10. ReadWithin'
    <2>1. UNCHANGED <<published, arrived, event_buffer_>>
      BY <1>1 DEF loggerVars, listenerVars
    <2>2. at <= old.upto + 1 /\ old.upto < Len(event_buffer_) /\ old.begun <= arrived
      BY <1>1, <1>2 DEF Inv, ReadWithin
    <2>3. ASSUME arrived <= Capacity
          PROVE  /\ old.upto = old.begun - 1 /\ n = at
                 /\ \A i \in 1 .. n : reading'.events[i] = published[i]
      <3>1. /\ old.upto = old.begun - 1 /\ Len(old.events) = old.from
            /\ \A i \in 1 .. Len(old.events) : old.events[i] = published[i]
        BY <1>1, <2>3 DEF Inv, ReadWithin
      <3>2. k = n
        BY <1>2, <2>3, <3>1, Positions
      <3> QED
        BY <1>3, <1>5, <1>6, <3>1, <3>2
    <2> QED
      BY <1>4, <1>5, <2>1, <2>2, <2>3 DEF ReadWithin
  <1>11. Buffered'
    BY <1>1 DEF Inv, Buffered, listenerVars, loggerVars
  <1> QED
    BY <1>1, <1>7, <1>9, <1>10, <1>11, LoggerStands DEF Inv

LEMMA ForgetsKeeps ==
  ASSUME Inv, Forgets
  PROVE  Inv'
PROOF
  <1>1. reading' = NotReading /\ UNCHANGED <<now, loggerVars, listenerVars>>
    BY DEF Forgets
  <1>2. ReadTyped' /\ ReadSoFar' /\ ReadWithin'
    BY <1>1 DEF NotReading, ReadTyped, ReadSoFar, ReadWithin
  <1>3. Buffered'
    BY <1>1 DEF Inv, Buffered, listenerVars, loggerVars
  <1> QED
    BY <1>1, <1>2, <1>3, LoggerStands DEF Inv

LEMMA NextIsOfTheLog == Next => LogNext \/ UNCHANGED logVars
PROOF
  <1> SUFFICES ASSUME Next PROVE LogNext \/ UNCHANGED logVars
    OBVIOUS
  <1>1. CASE (Logger \/ Tick \/ Callback) /\ UNCHANGED orchestratorVars
    BY <1>1 DEF LogNext, Logger, Callback
  <1>2. CASE Activates \/ Deactivates \/ Quits \/ Destroyed
    BY <1>2 DEF Activates, Deactivates, Quits, Destroyed
  <1>3. CASE Run
    <2>1. CASE RunReads
      BY <2>1 DEF RunReads, LogNext
    <2>2. CASE RunReadsOn
      BY <2>2 DEF RunReadsOn, LogNext
    <2>3. CASE RunQueues
      BY <2>3 DEF RunQueues, LogNext, Forgets
    <2> QED
      BY <1>3, <2>1, <2>2, <2>3 DEF Run
  <1>4. CASE Telemetry
    BY <1>4 DEF Telemetry, TelemetryCopies, TelemetryShows, TelemetryEnds
  <1> QED
    BY <1>1, <1>2, <1>3, <1>4 DEF Next

LEMMA Inductive == Inv /\ [Next]_vars => Inv'
PROOF
  <1> SUFFICES ASSUME Inv, LogNext \/ UNCHANGED logVars PROVE Inv'
    BY NextIsOfTheLog DEF vars
  <1>1. ASSUME NEW t \in Thread, NEW k \in Kind, Calls(t, k) PROVE Inv'
    BY <1>1, CallsKeeps
  <1>2. ASSUME NEW t \in Thread, Notifies(t) PROVE Inv'
    BY <1>2, NotifiesKeeps
  <1>3. ASSUME NEW t \in Thread, Writes(t) PROVE Inv'
    BY <1>3, WritesKeeps
  <1>4. CASE Tick
    BY <1>4, TickKeeps
  <1>5. CASE Pushes
    BY <1>5, PushesKeeps
  <1>6. CASE Indexes
    BY <1>6, IndexesKeeps
  <1>7. CASE ReadBegins
    BY <1>7, ReadBeginsKeeps
  <1>8. CASE Reads
    BY <1>8, ReadsKeeps
  <1>9. CASE Forgets
    BY <1>9, ForgetsKeeps
  <1>10. CASE UNCHANGED logVars
    <2>1. UNCHANGED <<now, loggerVars, listenerVars, reading>>
      BY <1>10 DEF logVars
    <2>2. Buffered' /\ ReadTyped' /\ ReadSoFar' /\ ReadWithin'
      BY <2>1 DEF Inv, loggerVars, listenerVars, Buffered, ReadTyped, ReadSoFar, ReadWithin
    <2> QED
      BY <2>1, <2>2, LoggerStands DEF Inv
  <1> QED
    BY <1>1, <1>2, <1>3, <1>4, <1>5, <1>6, <1>7, <1>8, <1>9, <1>10 DEF LogNext

THEOREM Invariant == Spec => []Inv
PROOF
  <1>1. Init => Inv
    BY Initially DEF Init
  <1> QED
    BY <1>1, Inductive, PTL DEF Spec

-----------------------------------------------------------------------------

LEMMA NumbersIncrease ==
  ASSUME NEW events \in Seq(Event)
  PROVE  Increasing(Numbers(events)) <=>
           \A i, j \in 1 .. Len(events) : i < j => events[i].call < events[j].call
PROOF
  <1>1. Len(Numbers(events)) = Len(events)
        /\ \A i \in 1 .. Len(events) : Numbers(events)[i] = events[i].call
    BY DEF Numbers
  <1> QED
    BY <1>1 DEF Increasing

\* Whatever threads log, topic and file tell the calls in one order
\* (app_logger.hpp: "Serialize the complete operation across event, terminal and
\* file outputs").
THEOREM OneOrder == Spec => []SameOrder
PROOF
  <1>1. ASSUME Inv PROVE SameOrder
    <2>1. Increasing(file)
      BY <1>1 DEF Inv, Ordered, Increasing
    <2>2. Increasing(Numbers(published))
      BY <1>1, NumbersIncrease DEF Inv, Ordered
    <2> QED
      BY <2>1, <2>2 DEF SameOrder
  <1> QED
    BY <1>1, Invariant, PTL

\* Only what repeats an id within the threshold is held back, and no such
\* repetition goes out (event_logger.cpp:79-97).
THEOREM SpamHeld == Spec => []OnlySpamIsHeld
PROOF
  <1>1. Inv => OnlySpamIsHeld
    BY DEF Inv
  <1> QED
    BY <1>1, Invariant, PTL

LEMMA InvReads == ASSUME Inv PROVE ReadsAreFaithful
PROOF
  <1>1. reading.active /\ reading.from <= reading.upto => reading.from < Len(event_buffer_)
    BY Positions DEF Inv, ReadWithin, ReadTyped
  <1>2. Increasing(Numbers(reading.events))
    BY NumbersIncrease DEF Inv, ReadTyped, ReadSoFar
  <1>3. ASSUME ReadDone, arrived <= Capacity
        PROVE  reading.events = SubSeq(published, 1, reading.begun)
    <2> DEFINE n == reading.begun
    <2>1. reading.active /\ reading.from > reading.upto
      BY <1>3 DEF ReadDone
    <2>2. /\ reading.from \in Nat /\ reading.upto \in Int /\ n \in Nat
          /\ reading.events \in Seq(Event)
      BY DEF Inv, ReadTyped
    <2>3. /\ reading.from <= reading.upto + 1 /\ n <= arrived
          /\ reading.upto = n - 1 /\ Len(reading.events) = reading.from
          /\ \A i \in 1 .. Len(reading.events) : reading.events[i] = published[i]
      BY <1>3, <2>1 DEF Inv, ReadWithin
    <2>4. Len(reading.events) = n /\ n <= Len(published)
      BY <2>1, <2>2, <2>3, Positions
    <2>5. SubSeq(published, 1, n) = [i \in 1 .. n |-> published[i]]
      BY <2>2, <2>4 DEF Inv, Ordered
    <2>6. reading.events = [i \in 1 .. n |-> reading.events[i]]
      BY <2>2, <2>4
    <2> QED
      BY <2>3, <2>4, <2>5, <2>6
  <1> QED
    BY <1>1, <1>2, <1>3 DEF ReadsAreFaithful

\* A read beside the callback stays within the buffer and brings the events in
\* order, all of them while the buffer has not overflowed
\* (event_logger.cpp:129-131, 184-187).
THEOREM ReadsFaithful == Spec => []ReadsAreFaithful
PROOF
  <1>1. Inv => ReadsAreFaithful
    BY InvReads
  <1> QED
    BY <1>1, Invariant, PTL

\* The variables of the path of an event keep to their values.
THEOREM TypeCorrect == Spec => []LogTypeOK
PROOF
  <1>1. ASSUME Inv PROVE LogTypeOK
    <2>1. /\ now \in 0 .. MaxTime /\ mutex \in Thread \cup {NoThread}
          /\ place \in [Thread -> {"out", "notify", "write"}]
          /\ \A t \in Thread : logging[t] \in Event \/ place[t] = "out"
          /\ calls \in 0 .. MaxCalls
      BY <1>1 DEF Inv, Held, Logged
    <2>2. /\ last_event_pub_time_ \in [EventID -> (0 .. MaxTime) \cup {Never}]
          /\ published \in Seq(Event) /\ held \subseteq Event /\ file \in Seq(Call)
      BY <1>1 DEF Inv, Timed, Ordered
    <2>3. /\ arrived \in 0 .. Len(published) /\ callback \in {"out", "pushed"}
          /\ event_buffer_ \in Seq(Event) /\ Len(event_buffer_) <= Capacity
          /\ reading.events \in Seq(Event)
      BY <1>1, Positions DEF Inv, Buffered, ReadTyped
    <2>4. unbounded_buffer_idx_ \in -1 .. MaxCalls
      <3>1. arrived <= MaxCalls
        BY <1>1, Positions, Entries, Parameters DEF Inv, Logged, Ordered
      <3> QED
        BY <1>1, <3>1, Positions, Parameters DEF Inv, Buffered
    <2> QED
      BY <2>1, <2>2, <2>3, <2>4 DEF LogTypeOK
  <1> QED
    BY <1>1, Invariant, PTL

-----------------------------------------------------------------------------
(* The queue and what the telemetry shows of it.                           *)

\* The events are told apart: the time between two of one id is more than none.
\* The logger keeps the 250 ms that are the default (app_logger.cpp:7,
\* event_logger.hpp:55).
Apart == Threshold > 0

\* The calls whose events are published.
Recorded == {published[i].call : i \in 1 .. Len(published)}

\* What is queued is published, and what is copied or shown is queued.
QueueInv ==
  /\ events_priority_queue_ \in Queue /\ copied \in Queue
  /\ Queued(events_priority_queue_) \subseteq Recorded
  /\ Queued(copied) \subseteq Queued(events_priority_queue_)
  /\ shown \in Seq(Queued(events_priority_queue_)) /\ Len(shown) <= event_to_publish_

\* The threads of the orchestrator and the orchestrator itself.
ThreadInv ==
  /\ telemetry_started_ \in BOOLEAN
  /\ telemetry \in {"none", "cycle", "copied", "ended"}
  /\ should_quit \in BOOLEAN
  /\ object \in {"inactive", "active", "destroyed", "terminated"}

\* The first n of a queue: what is further on is not before what is ahead of
\* it, and what is left out is behind all n.
Ranked(s, q, n) ==
  /\ \A i \in 1 .. Len(s) : s[i] \in Queued(q)
  /\ \A i, j \in 1 .. Len(s) : i < j => ~ Before(EventOf(s[j]), EventOf(s[i]))
  /\ \A c \in Queued(q) :
       \/ \E i \in 1 .. Len(s) : s[i] = c
       \/ Len(s) = n /\ \A i \in 1 .. Len(s) : Before(EventOf(s[i]), EventOf(c))

\* What a step never does: take an event off the queue; leave one out of it
\* that was there when a read began, before the listener's buffer overflowed;
\* or show, of the queue that was copied, anything but its first events.
WorstComesFirst ==
  [][/\ Queued(events_priority_queue_) \subseteq Queued(events_priority_queue_')
     /\ RunQueues /\ arrived <= Capacity =>
          \A i \in 1 .. reading.begun : published[i].call \in Queued(events_priority_queue_')
     /\ TelemetryShows => Ranked(shown', copied, event_to_publish_)]_vars

LEMMA LeastNat ==
  ASSUME NEW S, S \subseteq Nat, S # {}
  PROVE  \E m \in S : \A n \in S : m <= n
PROOF
  <1> DEFINE R == OpToRel(<, Nat)
  <1>1. IsWellFoundedOn(R, Nat)
    BY NatLessThanWellFounded
  <1>2. \A a, b \in Nat : <<a, b>> \in R <=> a < b
    BY DEF OpToRel
  <1> HIDE DEF R
  <1>3. PICK m \in S : \A n \in S : ~ (<<n, m>> \in R)
    BY <1>1, WFMin
  <1>4. \A n \in S : m \in Nat /\ n \in Nat /\ ~ (n < m)
    BY <1>2, <1>3
  <1> QED
    BY <1>4

\* CompareEvents is a strict order.
LEMMA BeforeIsAnOrder ==
  ASSUME NEW a \in Event, NEW b \in Event, NEW c \in Event
  PROVE  /\ ~ Before(a, a)
         /\ Before(a, b) => ~ Before(b, a)
         /\ Before(a, b) /\ Before(b, c) => Before(a, c)
PROOF
  <1>1. \A e \in Event : e.severity \in Nat /\ e.id \in Nat /\ e.time \in Nat
    BY EventLogAssumption, EventFields DEF Event, EventID
  <1>2. /\ a.severity \in Nat /\ a.id \in Nat /\ a.time \in Nat
        /\ b.severity \in Nat /\ b.id \in Nat /\ b.time \in Nat
        /\ c.severity \in Nat /\ c.id \in Nat /\ c.time \in Nat
    BY <1>1
  <1> QED
    BY <1>2 DEF Before

\* An event is known by its call.
LEMMA EventOfCall ==
  ASSUME Inv, NEW i \in 1 .. Len(published)
  PROVE  EventOf(published[i].call) = published[i]
PROOF
  <1>1. \A j \in 1 .. Len(published) : published[j].call = published[i].call => j = i
    BY SMTT(30), Entries DEF Inv, Ordered
  <1>2. \A e \in Published : e.call = published[i].call => e = published[i]
    BY <1>1 DEF Published
  <1>3. published[i] \in Published
    BY DEF Published
  <1> HIDE DEF Published
  <1> QED
    BY <1>2, <1>3 DEF EventOf

\* Two events that are published differ in what is compared.
LEMMA PublishedDiffer ==
  ASSUME Apart, Inv, NEW i \in 1 .. Len(published), NEW j \in 1 .. Len(published), i # j
  PROVE  Before(published[i], published[j]) \/ Before(published[j], published[i])
PROOF
  <1>1. \A k \in 1 .. Len(published) :
          /\ published[k].severity \in Nat /\ published[k].id \in Nat
          /\ published[k].time \in Nat
    <2>1. \A e \in Event : e.severity \in Nat /\ e.id \in Nat /\ e.time \in Nat
      BY EventLogAssumption, EventFields DEF Event, EventID
    <2> QED
      BY <2>1, Entries
  <1>2. ASSUME NEW k \in 1 .. Len(published), NEW l \in 1 .. Len(published), k < l,
               published[k].id = published[l].id
        PROVE  published[l].time > published[k].time
    <2>1. published[l].time - published[k].time >= Threshold
      BY <1>2 DEF Inv, OnlySpamIsHeld
    <2> QED
      BY SMTT(30), <1>1, <2>1, Parameters DEF Apart
  <1>3. /\ published[i].severity \in Nat /\ published[i].id \in Nat /\ published[i].time \in Nat
        /\ published[j].severity \in Nat /\ published[j].id \in Nat /\ published[j].time \in Nat
    BY <1>1
  <1>4. published[i].id = published[j].id =>
          published[i].time > published[j].time \/ published[j].time > published[i].time
    <2>1. i < j \/ j < i
      BY Entries
    <2> QED
      BY <1>2, <2>1
  <1> QED
    BY <1>3, <1>4 DEF Before

\* Of some of the events that are published one is before all the others: no
\* number of them is the least without it.
LEMMA FirstExists ==
  ASSUME Apart, Inv, NEW S, S \subseteq Recorded, S # {}
  PROVE  \E c \in S : \A d \in S \ {c} : Before(EventOf(c), EventOf(d))
PROOF
  <1> DEFINE T == {i \in 1 .. Len(published) : published[i].call \in S}
             First(i, n) == \A j \in T : j <= n /\ j # i => Before(published[i], published[j])
             Bad == {n \in 0 .. Len(published) :
                       /\ \E i \in T : i <= n
                       /\ ~ \E i \in T : i <= n /\ First(i, n)}
  <1>1. Len(published) \in Nat /\ \A i \in T : i \in Nat /\ i \in 1 .. Len(published)
    BY Entries
  <1>2. \A i \in T : published[i] \in Event
    BY Entries
  <1>3. Bad = {}
    <2> SUFFICES ASSUME Bad # {} PROVE FALSE
      OBVIOUS
    <2>1. PICK n \in Bad : \A m \in Bad : n <= m
      <3>1. Bad \subseteq Nat
        BY <1>1
      <3> HIDE DEF Bad
      <3> QED
        BY <3>1, LeastNat
    <2>2. n \in Nat /\ n <= Len(published)
      BY <1>1, <2>1
    <2>3. ~ \E i \in T : i <= n /\ First(i, n)
      BY <2>1
    <2>4. PICK k \in T : k <= n
      BY <2>1
    <2>5. n \in T
      <3> SUFFICES ASSUME n \notin T PROVE FALSE
        OBVIOUS
      <3>1. n - 1 \in 0 .. Len(published) /\ n - 1 \notin Bad
        <4>1. n - 1 \in 0 .. Len(published) /\ ~ (n <= n - 1)
          BY <1>1, <2>2, <2>4
        <4> HIDE DEF Bad
        <4> QED
          BY <2>1, <4>1
      <3>2. \A i \in T : i <= n <=> i <= n - 1
        <4> SUFFICES ASSUME NEW i \in T PROVE i <= n <=> i <= n - 1
          OBVIOUS
        <4>1. i # n
          OBVIOUS
        <4>2. i \in Nat
          BY <1>1
        <4> HIDE DEF T, Bad
        <4> QED
          BY <2>2, <4>1, <4>2
      <3>3. \E i \in T : i <= n - 1 /\ First(i, n - 1)
        <4>1. \E i \in T : i <= n - 1
          BY <2>4, <3>2
        <4> HIDE DEF T, First
        <4> QED
          BY <3>1, <4>1
      <3> QED
        BY <2>3, <3>2, <3>3
    <2>6. \A i \in T : i <= n => i = n \/ i <= n - 1
      <3> HIDE DEF T
      <3> QED
        BY <1>1, <2>2
    <2>7. PICK l \in T : l <= n - 1 /\ First(l, n - 1)
      <3>1. n - 1 \in 0 .. Len(published) /\ n - 1 \notin Bad
        <4>1. n - 1 \in 0 .. Len(published) /\ ~ (n <= n - 1)
          BY <1>1, <2>2, <2>5
        <4> HIDE DEF Bad
        <4> QED
          BY <2>1, <4>1
      <3>2. \E i \in T : i <= n - 1
        <4> SUFFICES ASSUME ~ \E i \in T : i <= n - 1 PROVE FALSE
          OBVIOUS
        <4>1. First(n, n)
          BY <2>6
        <4> HIDE DEF T, First
        <4> QED
          BY <2>2, <2>3, <2>5, <4>1
      <3> HIDE DEF T, First
      <3> QED
        BY <3>1, <3>2
    <2>8. l # n /\ l <= n
      <3> HIDE DEF T, First
      <3> QED
        BY <1>1, <2>2, <2>7
    <2>9. CASE Before(published[l], published[n])
      <3>1. First(l, n)
        BY <2>6, <2>7, <2>9
      <3> HIDE DEF T, First
      <3> QED
        BY <2>3, <2>8, <3>1
    <2>10. CASE Before(published[n], published[l])
      <3>1. ASSUME NEW j \in T, j <= n, j # n PROVE Before(published[n], published[j])
        <4>1. j = l \/ Before(published[l], published[j])
          BY <2>6, <2>7, <3>1
        <4>2. published[n] \in Event /\ published[l] \in Event /\ published[j] \in Event
          BY <1>2, <2>5
        <4> HIDE DEF T, First
        <4> QED
          BY <2>10, <4>1, <4>2, BeforeIsAnOrder
      <3>2. First(n, n)
        BY <3>1
      <3> HIDE DEF T, First
      <3> QED
        BY <2>2, <2>3, <2>5, <3>2
    <2> HIDE DEF T
    <2> QED
      BY <1>1, <2>5, <2>8, <2>9, <2>10, PublishedDiffer
  <1>4. \E i \in T : First(i, Len(published))
    <2>1. \E i \in T : i <= Len(published)
      BY <1>1 DEF Recorded
    <2>2. Len(published) \in 0 .. Len(published) /\ Len(published) \notin Bad
      <3>1. Len(published) \in 0 .. Len(published)
        BY <1>1
      <3> HIDE DEF Bad
      <3> QED
        BY <1>3, <3>1
    <2> HIDE DEF T, First
    <2> QED
      BY <2>1, <2>2
  <1>5. PICK i \in T : First(i, Len(published))
    BY <1>4
  <1>6. ASSUME NEW d \in S, d # published[i].call
        PROVE  Before(EventOf(published[i].call), EventOf(d))
    <2>1. PICK j \in 1 .. Len(published) : published[j].call = d
      BY DEF Recorded
    <2>2. j \in T /\ j # i /\ j <= Len(published)
      BY <1>1, <1>6, <2>1
    <2>3. Before(published[i], published[j])
      BY <1>5, <2>2
    <2> QED
      BY <2>1, <2>3, EventOfCall
  <1> QED
    BY <1>5, <1>6

\* The worst of a queue is one of it.
LEMMA TopOfQueue ==
  ASSUME Apart, Inv, NEW q, Queued(q) \subseteq Recorded, Queued(q) # {}
  PROVE  /\ TopOf(q) \in Queued(q)
         /\ \A d \in Queued(q) : d = TopOf(q) \/ Before(EventOf(TopOf(q)), EventOf(d))
PROOF
  <1>1. \E c \in Queued(q) : \A d \in Queued(q) \ {c} : Before(EventOf(c), EventOf(d))
    BY FirstExists
  <1>2. /\ TopOf(q) \in Queued(q)
        /\ \A d \in Queued(q) \ {TopOf(q)} : Before(EventOf(TopOf(q)), EventOf(d))
    BY Zenon, <1>1 DEF TopOf
  <1> QED
    BY <1>2

\* What is popped i times of a queue: those ahead, in order, and the rest.
Popped(s, q, i) ==
  /\ s.left \in Queue /\ Queued(s.left) \subseteq Queued(q)
  /\ s.popped \in Seq(Queued(q)) /\ Len(s.popped) <= i
  /\ Len(s.popped) = i \/ Queued(s.left) = {}
  /\ \A c \in Queued(q) : c \in Queued(s.left) \/ \E j \in 1 .. Len(s.popped) : s.popped[j] = c
  /\ \A j \in 1 .. Len(s.popped), c \in Queued(s.left) :
       c = s.popped[j] \/ Before(EventOf(s.popped[j]), EventOf(c))
  /\ \A j, k \in 1 .. Len(s.popped) : j < k =>
       s.popped[j] = s.popped[k] \/ Before(EventOf(s.popped[j]), EventOf(s.popped[k]))

Pops(s) ==
  IF Queued(s.left) = {} THEN s
  ELSE LET c == TopOf(s.left) IN
       [left |-> [s.left EXCEPT ![c] = @ - 1], popped |-> Append(s.popped, c)]

LEMMA PopsKeeps ==
  ASSUME Apart, Inv, NEW q, Queued(q) \subseteq Recorded, NEW i \in Nat, NEW s, Popped(s, q, i)
  PROVE  Popped(Pops(s), q, i + 1)
PROOF
  <1> DEFINE left == s.left
             popped == s.popped
  <1>1. /\ left \in Queue /\ Queued(left) \subseteq Queued(q)
        /\ popped \in Seq(Queued(q)) /\ Len(popped) \in Nat /\ Len(popped) <= i
        /\ Len(popped) = i \/ Queued(left) = {}
        /\ \A c \in Queued(q) : c \in Queued(left) \/ \E j \in 1 .. Len(popped) : popped[j] = c
        /\ \A j \in 1 .. Len(popped), c \in Queued(left) :
             c = popped[j] \/ Before(EventOf(popped[j]), EventOf(c))
        /\ \A j, k \in 1 .. Len(popped) : j < k =>
             popped[j] = popped[k] \/ Before(EventOf(popped[j]), EventOf(popped[k]))
    BY DEF Popped
  <1>2. CASE Queued(left) = {}
    <2>1. Pops(s) = s
      BY <1>2 DEF Pops
    <2>2. Len(popped) <= i + 1
      BY <1>1
    <2> QED
      BY <1>1, <1>2, <2>1, <2>2 DEF Popped
  <1>3. CASE Queued(left) # {}
    <2> DEFINE c == TopOf(left)
               rest == [left EXCEPT ![c] = @ - 1]
               more == Append(popped, c)
    <2>1. Pops(s) = [left |-> rest, popped |-> more]
      BY <1>3 DEF Pops
    <2>2. c \in Queued(left) /\ \A d \in Queued(left) : d = c \/ Before(EventOf(c), EventOf(d))
      BY <1>1, <1>3, TopOfQueue
    <2> HIDE DEF left, popped
    <2>3. c \in Call /\ c \in Queued(q) /\ left[c] \in 1 .. MaxQueued
      <3>1. c \in Call /\ left[c] > 0 /\ left[c] \in 0 .. MaxQueued
        BY <1>1, <2>2 DEF Queued, Queue
      <3> QED
        BY <1>1, <2>2, <3>1, OrchestratorAssumption
    <2> HIDE DEF c
    <2>4. /\ rest \in Queue /\ \A d \in Call : d # c => rest[d] = left[d]
          /\ rest[c] = left[c] - 1
      <3>1. left[c] - 1 \in 0 .. MaxQueued
        BY <2>3, OrchestratorAssumption
      <3> QED
        BY <1>1, <2>3, <3>1 DEF Queue
    <2>5. Queued(rest) \subseteq Queued(left)
          /\ \A d \in Queued(left) : d # c => d \in Queued(rest)
      <3> HIDE DEF rest
      <3> QED
        BY <2>2, <2>4 DEF Queued
    <2>6. /\ more \in Seq(Queued(q)) /\ Len(more) = Len(popped) + 1
          /\ \A j \in 1 .. Len(popped) : more[j] = popped[j] /\ j \in 1 .. Len(more)
          /\ more[Len(popped) + 1] = c
          /\ \A j \in 1 .. Len(more) : j \in 1 .. Len(popped) \/ j = Len(popped) + 1
      BY <1>1, <2>3
    <2> HIDE DEF rest, more
    <2>7. Len(more) <= i + 1 /\ Len(more) = i + 1
      BY <1>1, <1>3, <2>6
    <2>8. \A d \in Queued(q) : d \in Queued(rest) \/ \E j \in 1 .. Len(more) : more[j] = d
      <3>1. Len(popped) + 1 \in 1 .. Len(more)
        BY <1>1, <2>6
      <3>2. ASSUME NEW d \in Queued(q)
            PROVE  d \in Queued(rest) \/ \E j \in 1 .. Len(more) : more[j] = d
        <4>1. CASE d = c
          BY <2>6, <3>1, <4>1
        <4>2. CASE d # c /\ d \in Queued(left)
          BY <2>5, <4>2
        <4>3. CASE \E j \in 1 .. Len(popped) : popped[j] = d
          BY Zenon, <2>6, <4>3
        <4> QED
          BY <1>1, <4>1, <4>2, <4>3
      <3> QED
        BY <3>2
    <2>9. \A j \in 1 .. Len(more), d \in Queued(rest) :
            d = more[j] \/ Before(EventOf(more[j]), EventOf(d))
      <3> SUFFICES ASSUME NEW j \in 1 .. Len(more), NEW d \in Queued(rest)
                   PROVE  d = more[j] \/ Before(EventOf(more[j]), EventOf(d))
        OBVIOUS
      <3>1. d \in Queued(left)
        BY <2>5
      <3>2. CASE j = Len(popped) + 1
        <4>1. more[j] = c
          BY <2>6, <3>2
        <4> QED
          BY <2>2, <3>1, <4>1
      <3>3. CASE j \in 1 .. Len(popped)
        <4>1. more[j] = popped[j]
          BY <2>6, <3>3
        <4> QED
          BY <1>1, <3>1, <3>3, <4>1
      <3> QED
        BY <2>6, <3>2, <3>3
    <2>10. \A j, k \in 1 .. Len(more) : j < k =>
             more[j] = more[k] \/ Before(EventOf(more[j]), EventOf(more[k]))
      <3> SUFFICES ASSUME NEW j \in 1 .. Len(more), NEW k \in 1 .. Len(more), j < k
                   PROVE  more[j] = more[k] \/ Before(EventOf(more[j]), EventOf(more[k]))
        OBVIOUS
      <3>1. j \in 1 .. Len(popped)
        BY <1>1, <2>6
      <3>2. more[j] = popped[j]
        BY <2>6, <3>1
      <3>3. CASE k = Len(popped) + 1
        <4>1. more[k] = c
          BY <2>6, <3>3
        <4> QED
          BY <1>1, <2>2, <3>1, <3>2, <4>1
      <3>4. CASE k \in 1 .. Len(popped)
        <4>1. more[k] = popped[k]
          BY <2>6, <3>4
        <4> QED
          BY <1>1, <3>1, <3>2, <3>4, <4>1
      <3> QED
        BY <2>6, <3>3, <3>4
    <2>11. Pops(s).left = rest /\ Pops(s).popped = more
      BY <2>1
    <2>12. Queued(rest) \subseteq Queued(q)
      BY <1>1, <2>5
    <2> QED
      BY Zenon, <2>4, <2>6, <2>7, <2>8, <2>9, <2>10, <2>11, <2>12 DEF Popped
  <1> QED
    BY <1>2, <1>3

\* The queue can be popped n times: no number of times is the least without it.
LEMMA PopsExist ==
  ASSUME NEW q, NEW n \in Nat
  PROVE  \E f : /\ f = [i \in 0 .. n |-> IF i = 0 THEN [left |-> q, popped |-> << >>]
                                         ELSE Pops(f[i - 1])]
                /\ FirstOf(q, n) = f[n].popped
PROOF
  <1> DEFINE start == [left |-> q, popped |-> << >>]
             Step(f, m) == [i \in 0 .. m |-> IF i = 0 THEN start ELSE Pops(f[i - 1])]
             Bad == {m \in Nat : ~ \E f : f = Step(f, m)}
  <1>1. Bad = {}
    <2> SUFFICES ASSUME Bad # {} PROVE FALSE
      OBVIOUS
    <2>1. PICK m \in Bad : \A k \in Bad : m <= k
      <3>1. Bad \subseteq Nat
        OBVIOUS
      <3> HIDE DEF Bad
      <3> QED
        BY <3>1, LeastNat
    <2>2. m \in Nat
      BY <2>1
    <2>3. m # 0
      <3> DEFINE f == [i \in 0 .. 0 |-> start]
      <3>1. f = Step(f, 0)
        <4> HIDE DEF start
        <4> QED
          OBVIOUS
      <3> HIDE DEF f
      <3> QED
        BY <2>1, <3>1
    <2>4. PICK f : f = Step(f, m - 1)
      <3>1. m - 1 \in Nat /\ ~ (m <= m - 1)
        BY <2>2, <2>3
      <3>2. m - 1 \notin Bad
        <4> HIDE DEF Bad
        <4> QED
          BY <2>1, <3>1
      <3> HIDE DEF Step
      <3> QED
        BY <3>1, <3>2
    <2> DEFINE g == [i \in 0 .. m |-> IF i = m THEN Pops(f[m - 1]) ELSE f[i]]
    <2>5. ASSUME NEW i \in 0 .. m
          PROVE  g[i] = IF i = 0 THEN start ELSE Pops(g[i - 1])
      <3> HIDE DEF start
      <3>1. CASE i = 0
        <4>1. g[i] = f[i] /\ i \in 0 .. (m - 1)
          BY <2>2, <2>3, <3>1
        <4>2. f[i] = start
          BY <2>4, <3>1, <4>1
        <4> QED
          BY <3>1, <4>1, <4>2
      <3>2. CASE i = m
        <4>1. g[i] = Pops(f[m - 1]) /\ m - 1 \in 0 .. m /\ m - 1 # m
          BY <2>2, <2>3, <3>2
        <4>2. g[m - 1] = f[m - 1]
          BY <4>1
        <4> HIDE DEF g
        <4> QED
          BY <2>3, <3>2, <4>1, <4>2
      <3>3. CASE i # 0 /\ i # m
        <4>1. i \in 0 .. (m - 1) /\ i - 1 \in 0 .. m /\ i - 1 # m
          BY <2>2, <3>3
        <4>2. g[i] = f[i] /\ g[i - 1] = f[i - 1]
          BY <3>3, <4>1
        <4>3. f[i] = Pops(f[i - 1])
          BY <2>4, <3>3, <4>1
        <4> HIDE DEF g
        <4> QED
          BY <3>3, <4>2, <4>3
      <3> QED
        BY <3>1, <3>2, <3>3
    <2>6. g = Step(g, m)
      <3>1. g = [i \in 0 .. m |-> g[i]]
        OBVIOUS
      <3> HIDE DEF g, start
      <3> QED
        BY Zenon, <2>5, <3>1
    <2> HIDE DEF g, Step
    <2> QED
      BY <2>1, <2>6
  <1>2. \E f : f = Step(f, n)
    <2> HIDE DEF Step
    <2> QED
      BY <1>1
  <1> DEFINE pop == CHOOSE f : f = Step(f, n)
  <1>3. pop = Step(pop, n)
    <2> HIDE DEF Step
    <2> QED
      BY Zenon, <1>2
  <1>4. FirstOf(q, n) = pop[n].popped
    BY DEF FirstOf, Pops
  <1> HIDE DEF pop
  <1> QED
    BY Zenon, <1>3, <1>4

\* What is shown of a queue are its first n.
LEMMA FirstOfRanks ==
  ASSUME Apart, Inv, NEW q \in Queue, Queued(q) \subseteq Recorded, NEW n \in Nat
  PROVE  /\ FirstOf(q, n) \in Seq(Queued(q)) /\ Len(FirstOf(q, n)) <= n
         /\ Ranked(FirstOf(q, n), q, n)
PROOF
  <1> DEFINE start == [left |-> q, popped |-> << >>]
  <1>1. PICK f : /\ f = [i \in 0 .. n |-> IF i = 0 THEN start ELSE Pops(f[i - 1])]
                 /\ FirstOf(q, n) = f[n].popped
    BY PopsExist
  <1>2. f[0] = start /\ \A i \in 1 .. n : f[i] = Pops(f[i - 1])
    <2>1. \A i \in 0 .. n : f[i] = IF i = 0 THEN start ELSE Pops(f[i - 1])
      <3> HIDE DEF start
      <3> QED
        BY Zenon, <1>1
    <2>2. 0 \in 0 .. n /\ \A i \in 1 .. n : i \in 0 .. n /\ i # 0
      OBVIOUS
    <2> HIDE DEF start
    <2> QED
      BY Zenon, <2>1, <2>2
  <1>3. Popped(start, q, 0)
    <2>1. start.left = q /\ start.popped = << >>
      OBVIOUS
    <2>2. << >> \in Seq(Queued(q)) /\ Len(<< >>) = 0 /\ \A j \in 1 .. 0 : FALSE
      OBVIOUS
    <2> HIDE DEF start
    <2> QED
      BY <2>1, <2>2 DEF Popped
  <1> DEFINE Bad == {i \in 0 .. n : ~ Popped(f[i], q, i)}
  <1>4. Bad = {}
    <2> SUFFICES ASSUME Bad # {} PROVE FALSE
      OBVIOUS
    <2>1. PICK i \in Bad : \A k \in Bad : i <= k
      <3>1. Bad \subseteq Nat
        OBVIOUS
      <3> HIDE DEF Bad
      <3> QED
        BY <3>1, LeastNat
    <2>2. i \in Nat /\ i <= n /\ ~ Popped(f[i], q, i)
      BY <2>1
    <2>3. i # 0
      BY <1>2, <1>3, <2>2
    <2>4. i - 1 \in Nat /\ i - 1 \in 0 .. n /\ ~ (i <= i - 1) /\ i \in 1 .. n /\ (i - 1) + 1 = i
      BY <2>2, <2>3
    <2>5. Popped(f[i - 1], q, i - 1)
      <3>1. i - 1 \notin Bad
        <4> HIDE DEF Bad
        <4> QED
          BY <2>1, <2>4
      <3> QED
        BY <2>4, <3>1
    <2>6. Popped(Pops(f[i - 1]), q, (i - 1) + 1)
      BY Zenon, <2>4, <2>5, PopsKeeps
    <2> QED
      BY Zenon, <1>2, <2>2, <2>4, <2>6
  <1> DEFINE s == FirstOf(q, n)
             left == f[n].left
  <1>5. /\ Queued(left) \subseteq Queued(q)
        /\ s \in Seq(Queued(q)) /\ Len(s) \in Nat /\ Len(s) <= n
        /\ Len(s) = n \/ Queued(left) = {}
        /\ \A c \in Queued(q) : c \in Queued(left) \/ \E j \in 1 .. Len(s) : s[j] = c
        /\ \A j \in 1 .. Len(s), c \in Queued(left) : c = s[j] \/ Before(EventOf(s[j]), EventOf(c))
        /\ \A j, k \in 1 .. Len(s) : j < k => s[j] = s[k] \/ Before(EventOf(s[j]), EventOf(s[k]))
    <2>1. n \in 0 .. n
      OBVIOUS
    <2>2. Popped(f[n], q, n)
      BY <1>4, <2>1
    <2>3. f[n].popped = s
      BY <1>1
    <2> HIDE DEF s
    <2>4. Len(s) \in Nat
      BY <2>2, <2>3 DEF Popped
    <2> QED
      BY Zenon, <2>2, <2>3, <2>4 DEF Popped
  <1> HIDE DEF s, left, Bad
  <1>6. \A c \in Queued(q) : EventOf(c) \in Event
    <2>1. ASSUME NEW c \in Queued(q) PROVE EventOf(c) \in Event
      <3>1. PICK i \in 1 .. Len(published) : published[i].call = c
        BY DEF Recorded
      <3> QED
        BY <3>1, EventOfCall, Entries
    <2> QED
      BY <2>1
  <1>7. \A i \in 1 .. Len(s) : s[i] \in Queued(q)
    BY <1>5
  <1>8. ASSUME NEW i \in 1 .. Len(s), NEW j \in 1 .. Len(s), i < j
        PROVE  ~ Before(EventOf(s[j]), EventOf(s[i]))
    <2>1. EventOf(s[i]) \in Event /\ EventOf(s[j]) \in Event
      BY <1>6, <1>7
    <2>2. s[i] = s[j] \/ Before(EventOf(s[i]), EventOf(s[j]))
      BY <1>5, <1>8
    <2> QED
      BY <2>1, <2>2, BeforeIsAnOrder
  <1>9. ASSUME NEW c \in Queued(q), ~ \E i \in 1 .. Len(s) : s[i] = c
        PROVE  Len(s) = n /\ \A i \in 1 .. Len(s) : Before(EventOf(s[i]), EventOf(c))
    BY <1>5, <1>9
  <1>10. Ranked(s, q, n)
    BY <1>7, <1>8, <1>9 DEF Ranked
  <1> QED
    BY <1>5, <1>10 DEF s

\* What is published stays published.
LEMMA RecordedGrows ==
  ASSUME Inv, [Next]_vars
  PROVE  Recorded \subseteq Recorded'
PROOF
  <1>1. CASE UNCHANGED published
    BY <1>1 DEF Recorded
  <1>2. ASSUME NEW t \in Thread, Notifies(t) PROVE Recorded \subseteq Recorded'
    <2>1. CASE UNCHANGED published
      BY <2>1 DEF Recorded
    <2>2. CASE published' = Append(published, [logging[t] EXCEPT !.time = now])
      <3>1. /\ Len(published') = Len(published) + 1
            /\ \A i \in 1 .. Len(published) : published'[i] = published[i]
        BY <2>2 DEF Inv, Ordered
      <3>2. \A i \in 1 .. Len(published) : i \in 1 .. Len(published')
        BY <3>1, Entries
      <3> QED
        BY <3>1, <3>2 DEF Recorded
    <2> QED
      BY <1>2, <2>1, <2>2 DEF Notifies
  <1>3. LogNext \/ UNCHANGED logVars
    BY NextIsOfTheLog DEF vars
  <1>4. (\E t \in Thread : Notifies(t)) \/ UNCHANGED published
    BY <1>3 DEF LogNext, Calls, Writes, Tick, Pushes, Indexes, ReadBegins, Reads, Forgets,
                loggerVars, logVars
  <1> QED
    BY <1>1, <1>2, <1>4

\* How often a call is among the events that were read.
LEMMA TimesCounts ==
  ASSUME NEW events \in Seq(Event), NEW c
  PROVE  /\ Times(c, events) \in Nat
         /\ Times(c, events) > 0 <=> \E i \in 1 .. Len(events) : events[i].call = c
PROOF
  <1> DEFINE S == {i \in 1 .. Len(events) : events[i].call = c}
  <1>1. IsFiniteSet(1 .. Len(events))
    BY FS_Interval
  <1>2. IsFiniteSet(S)
    BY <1>1, FS_Subset
  <1>3. Cardinality(S) \in Nat /\ (Cardinality(S) = 0 <=> S = {})
    BY <1>2, FS_CardinalityType, FS_EmptySet
  <1>4. Times(c, events) = Cardinality(S)
    BY DEF Times
  <1>5. S = {} <=> ~ \E i \in 1 .. Len(events) : events[i].call = c
    OBVIOUS
  <1> HIDE DEF S
  <1> QED
    BY <1>3, <1>4, <1>5

\* What run() read joins the queue, and what was queued stays.
LEMMA RunQueuesAdds ==
  ASSUME Inv, QueueInv, RunQueues
  PROVE  /\ events_priority_queue_' \in Queue
         /\ \A c \in Call : events_priority_queue_'[c] > 0 <=>
              \/ events_priority_queue_[c] > 0
              \/ \E i \in 1 .. Len(reading.events) : reading.events[i].call = c
PROOF
  <1>1. reading.events \in Seq(Event)
    BY DEF Inv, ReadTyped
  <1>2. events_priority_queue_' =
          [c \in Call |-> AtMost(events_priority_queue_[c] + Times(c, reading.events))]
    BY DEF RunQueues
  <1>3. ASSUME NEW c \in Call
        PROVE  /\ AtMost(events_priority_queue_[c] + Times(c, reading.events)) \in 0 .. MaxQueued
               /\ AtMost(events_priority_queue_[c] + Times(c, reading.events)) > 0 <=>
                    events_priority_queue_[c] > 0 \/ Times(c, reading.events) > 0
    <2>1. events_priority_queue_[c] \in 0 .. MaxQueued /\ Times(c, reading.events) \in Nat
      BY <1>1, TimesCounts DEF QueueInv, Queue
    <2> QED
      BY <2>1, OrchestratorAssumption DEF AtMost
  <1>4. \A c \in Call : events_priority_queue_'[c] =
          AtMost(events_priority_queue_[c] + Times(c, reading.events))
    BY <1>2
  <1>5. events_priority_queue_' \in Queue
    BY <1>2, <1>3 DEF Queue
  <1> QED
    BY <1>1, <1>3, <1>4, <1>5, TimesCounts

LEMMA RunQueuesKeeps ==
  ASSUME Inv, QueueInv, RunQueues
  PROVE  QueueInv' /\ Queued(events_priority_queue_) \subseteq Queued(events_priority_queue_')
PROOF
  <1>1. Queued(events_priority_queue_) \subseteq Queued(events_priority_queue_')
    BY RunQueuesAdds DEF Queued
  <1>2. UNCHANGED <<published, copied, shown>>
    BY DEF RunQueues, loggerVars
  <1>3. Recorded' = Recorded
    BY <1>2 DEF Recorded
  <1>4. Queued(events_priority_queue_') \subseteq Recorded
    <2>1. ASSUME NEW i \in 1 .. Len(reading.events) PROVE reading.events[i].call \in Recorded
      BY DEF Inv, ReadSoFar, Recorded
    <2>2. \A c \in Call : events_priority_queue_[c] > 0 => c \in Recorded
      BY DEF QueueInv, Queued
    <2>3. ASSUME NEW c \in Queued(events_priority_queue_') PROVE c \in Recorded
      <3>1. c \in Call /\ events_priority_queue_'[c] > 0
        BY DEF Queued
      <3>2. \/ events_priority_queue_[c] > 0
            \/ \E i \in 1 .. Len(reading.events) : reading.events[i].call = c
        BY <3>1, RunQueuesAdds
      <3> QED
        BY <2>1, <2>2, <3>1, <3>2
    <2> QED
      BY <2>3
  <1>5. shown \in Seq(Queued(events_priority_queue_'))
    BY <1>1 DEF QueueInv
  <1> QED
    BY <1>1, <1>2, <1>3, <1>4, <1>5, RunQueuesAdds DEF QueueInv

LEMMA TelemetryShowsKeeps ==
  ASSUME Apart, Inv, QueueInv, TelemetryShows
  PROVE  QueueInv' /\ Ranked(shown', copied, event_to_publish_)
PROOF
  <1>1. copied \in Queue /\ Queued(copied) \subseteq Recorded
    BY DEF QueueInv
  <1>2. /\ shown' \in Seq(Queued(copied)) /\ Len(shown') <= event_to_publish_
        /\ Ranked(shown', copied, event_to_publish_)
    BY <1>1, FirstOfRanks, OrchestratorAssumption DEF TelemetryShows
  <1>3. copied' \in Queue /\ Queued(copied') = {}
    <2>1. copied' = [c \in Call |-> 0]
      BY DEF TelemetryShows
    <2> QED
      BY <2>1, OrchestratorAssumption DEF Queue, Queued
  <1>4. UNCHANGED <<published, events_priority_queue_>>
    BY DEF TelemetryShows, logVars, loggerVars
  <1>5. Recorded' = Recorded
    BY <1>4 DEF Recorded
  <1>6. shown' \in Seq(Queued(events_priority_queue_))
    BY <1>2 DEF QueueInv
  <1> QED
    BY <1>2, <1>3, <1>4, <1>5, <1>6 DEF QueueInv

LEMMA QueueInductive ==
  ASSUME Apart, Inv, QueueInv, [Next]_vars
  PROVE  QueueInv' /\ Queued(events_priority_queue_) \subseteq Queued(events_priority_queue_')
PROOF
  <1>1. CASE RunQueues
    BY <1>1, RunQueuesKeeps
  <1>2. CASE TelemetryShows
    BY <1>2, TelemetryShowsKeeps DEF TelemetryShows
  <1>3. CASE TelemetryCopies
    BY <1>3, RecordedGrows DEF TelemetryCopies, QueueInv
  <1>4. CASE UNCHANGED <<events_priority_queue_, copied, shown>>
    BY <1>4, RecordedGrows DEF QueueInv
  <1>5. RunQueues \/ TelemetryShows \/ TelemetryCopies
        \/ UNCHANGED <<events_priority_queue_, copied, shown>>
    BY DEF Next, vars, orchestratorVars, Activates, Deactivates, Quits, Destroyed, Run, RunReads,
           RunReadsOn, Telemetry, TelemetryEnds
  <1> QED
    BY <1>1, <1>2, <1>3, <1>4, <1>5

LEMMA ThreadInductive == ThreadInv /\ [Next]_vars => ThreadInv'
PROOF
  <1> SUFFICES ASSUME ThreadInv, [Next]_vars PROVE ThreadInv'
    OBVIOUS
  <1>1. CASE Activates
    BY <1>1 DEF Activates, ThreadInv
  <1>2. CASE Deactivates \/ Quits \/ Destroyed
    BY <1>2 DEF Deactivates, Quits, Destroyed, ThreadInv
  <1>3. CASE Telemetry
    BY <1>3 DEF Telemetry, TelemetryCopies, TelemetryShows, TelemetryEnds, ThreadInv
  <1>4. CASE UNCHANGED <<telemetry_started_, telemetry, should_quit, object>>
    BY <1>4 DEF ThreadInv
  <1>5. Activates \/ Deactivates \/ Quits \/ Destroyed \/ Telemetry
        \/ UNCHANGED <<telemetry_started_, telemetry, should_quit, object>>
    BY DEF Next, vars, orchestratorVars, Run, RunReads, RunReadsOn, RunQueues
  <1> QED
    BY <1>1, <1>2, <1>3, <1>4, <1>5

LEMMA QueueInvariant == ASSUME Apart PROVE Spec => [](QueueInv /\ ThreadInv)
PROOF
  <1>1. ASSUME Init PROVE QueueInv /\ ThreadInv
    <2>1. /\ events_priority_queue_ = [c \in Call |-> 0] /\ copied = [c \in Call |-> 0]
          /\ shown = << >>
      BY <1>1 DEF Init
    <2>2. /\ events_priority_queue_ \in Queue /\ copied \in Queue
          /\ Queued(events_priority_queue_) = {} /\ Queued(copied) = {}
      BY <2>1, OrchestratorAssumption DEF Queue, Queued
    <2>3. shown \in Seq(Queued(events_priority_queue_)) /\ Len(shown) <= event_to_publish_
      BY <2>1, OrchestratorAssumption
    <2>4. ThreadInv
      BY <1>1 DEF Init, ThreadInv
    <2> QED
      BY <2>2, <2>3, <2>4 DEF QueueInv
  <1>2. Inv /\ (QueueInv /\ ThreadInv) /\ [Next]_vars => (QueueInv /\ ThreadInv)'
    BY QueueInductive, ThreadInductive
  <1> QED
    BY <1>1, <1>2, Invariant, PTL DEF Spec

\* Of the events that the telemetry of the orchestrator was given, it shows the
\* worst, the worst first; nothing that was read is taken off or left out of the
\* queue (orchestrator_base.cpp:55-63, 98-107).
THEOREM WorstFirst == ASSUME Apart PROVE Spec => WorstComesFirst
PROOF
  <1> DEFINE Step ==
        /\ Queued(events_priority_queue_) \subseteq Queued(events_priority_queue_')
        /\ RunQueues /\ arrived <= Capacity =>
             \A i \in 1 .. reading.begun : published[i].call \in Queued(events_priority_queue_')
        /\ TelemetryShows => Ranked(shown', copied, event_to_publish_)
  <1>1. ASSUME Inv, QueueInv, [Next]_vars PROVE Step
    <2>1. Queued(events_priority_queue_) \subseteq Queued(events_priority_queue_')
      BY <1>1, QueueInductive
    <2>2. ASSUME RunQueues, arrived <= Capacity, NEW i \in 1 .. reading.begun
          PROVE  published[i].call \in Queued(events_priority_queue_')
      <3>1. reading.events = SubSeq(published, 1, reading.begun) /\ ReadDone
        BY <1>1, <2>2, InvReads DEF RunQueues, ReadsAreFaithful
      <3>2. /\ reading.begun \in Nat /\ reading.begun <= arrived /\ arrived <= Len(published)
            /\ Len(published) \in Nat /\ arrived \in Nat
        BY <1>1, <3>1, Positions, Entries DEF Inv, ReadTyped, ReadWithin, ReadDone
      <3>3. /\ Len(reading.events) = reading.begun /\ reading.events[i] = published[i]
            /\ i \in 1 .. Len(published) /\ published \in Seq(Event)
        BY <1>1, <3>1, <3>2 DEF Inv, Ordered
      <3>4. published[i].call \in Call
        BY <3>3, EventFields DEF Call
      <3>5. i \in 1 .. Len(reading.events)
        BY <3>3
      <3>6. events_priority_queue_'[published[i].call] > 0
        BY <1>1, <2>2, <3>3, <3>4, <3>5, RunQueuesAdds
      <3> QED
        BY <3>4, <3>6 DEF Queued
    <2>3. TelemetryShows => Ranked(shown', copied, event_to_publish_)
      BY <1>1, TelemetryShowsKeeps
    <2> QED
      BY <2>1, <2>2, <2>3
  <1>2. Inv /\ (QueueInv /\ ThreadInv) /\ [Next]_vars => Step
    BY <1>1
  <1> QED
    BY <1>2, Invariant, QueueInvariant, PTL DEF Spec, WorstComesFirst

\* All the variables of the orchestrator and of the path of an event keep to
\* their values; what is shown is never more than was asked for.
THEOREM OrchestratorTypeCorrect == ASSUME Apart PROVE Spec => []TypeOK
PROOF
  <1>1. ASSUME LogTypeOK, QueueInv, ThreadInv PROVE TypeOK
    <2>1. shown \in Seq(Call)
      <3>1. Queued(events_priority_queue_) \subseteq Call
        BY DEF Queued
      <3> QED
        BY <1>1, <3>1 DEF QueueInv
    <2> QED
      BY <1>1, <2>1 DEF TypeOK, QueueInv, ThreadInv
  <1>2. LogTypeOK /\ (QueueInv /\ ThreadInv) => TypeOK
    BY <1>1
  <1> QED
    BY <1>2, TypeCorrect, QueueInvariant, PTL
=============================================================================
