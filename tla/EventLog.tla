------------------------------ MODULE EventLog ------------------------------
(***************************************************************************)
(* The path of an event: a component's logger (app_logger.cpp), which      *)
(* several threads call, the notifier behind it that holds back repeated   *)
(* events (RobustEventNotifier), the topic, and a listener (EventListener) *)
(* whose callback fills a circular buffer that another thread reads.       *)
(* The topic is reliable and keeps everything: what is published arrives,  *)
(* in order.  The buffer and the index of the listener have no lock.       *)
(***************************************************************************)
EXTENDS Naturals, Integers, Sequences, FiniteSets

CONSTANTS
  Thread,      \* the threads that log
  Kind,        \* the events they log: records with an id and a severity, both numbers
  NoThread,    \* nobody
  Never,       \* no time: an id that is not in the map
  Threshold,   \* spamming_threshold_ms_, in ticks
  Capacity,    \* the capacity of the listener's buffer
  MaxCalls,    \* bound: calls of the logger
  MaxTime      \* bound: ticks of the clock

ASSUME EventLogAssumption ==
  /\ NoThread \notin Thread /\ Never \notin Nat
  /\ {Threshold, Capacity, MaxCalls, MaxTime} \subseteq Nat
  /\ Capacity > 0
  /\ \A k \in Kind : k.id \in Nat /\ k.severity \in Nat

EventID == {k.id : k \in Kind}
Call == 1 .. MaxCalls
Event == [id : EventID, severity : {k.severity : k \in Kind}, time : 0 .. MaxTime, call : Call]

VARIABLES
  now,                    \* the clock
  mutex,                  \* AppLogger::mutex_: who holds it
  place,                  \* place[t]: where t is in the logger
  logging,                \* logging[t]: the event t logs
  calls,                  \* calls made so far: the number of the latest
  last_event_pub_time_,   \* by id: when an event of the id was published last
  published,              \* every event published, in order
  held,                   \* the events held back
  file,                   \* the lines of the file, by the number of the call
  arrived,                \* how many published events the callback has begun with
  callback,               \* where the callback is
  event_buffer_,          \* the last Capacity events, the oldest first
  unbounded_buffer_idx_,  \* the index of the event written last
  reading                 \* the read in progress: its bounds, how many events there were
                          \* when it began, and what it has collected

loggerVars == <<mutex, place, logging, calls, last_event_pub_time_, published, held, file>>
listenerVars == <<arrived, callback, event_buffer_, unbounded_buffer_idx_>>
logVars == <<now, loggerVars, listenerVars, reading>>

NotReading == [active |-> FALSE, from |-> 0, upto |-> -1, begun |-> 0, events |-> << >>]

LogTypeOK ==
  /\ now \in 0 .. MaxTime
  /\ mutex \in Thread \cup {NoThread}
  /\ place \in [Thread -> {"out", "notify", "write"}]
  /\ \A t \in Thread : logging[t] \in Event \/ place[t] = "out"
  /\ calls \in 0 .. MaxCalls
  /\ last_event_pub_time_ \in [EventID -> (0 .. MaxTime) \cup {Never}]
  /\ published \in Seq(Event)
  /\ held \subseteq Event
  /\ file \in Seq(Call)
  /\ arrived \in 0 .. Len(published)
  /\ callback \in {"out", "pushed"}
  /\ event_buffer_ \in Seq(Event) /\ Len(event_buffer_) <= Capacity
  /\ unbounded_buffer_idx_ \in -1 .. MaxCalls
  /\ reading.events \in Seq(Event)

LogInit ==
  /\ now = 0
  /\ mutex = NoThread
  /\ place = [t \in Thread |-> "out"]
  /\ logging = [t \in Thread |-> NoThread]
  /\ calls = 0
  /\ last_event_pub_time_ = [i \in EventID |-> Never]
  /\ published = << >>
  /\ held = {}
  /\ file = << >>
  /\ arrived = 0
  /\ callback = "out"
  /\ event_buffer_ = << >>
  /\ unbounded_buffer_idx_ = -1
  /\ reading = NotReading

-----------------------------------------------------------------------------
(* The logger: the mutex is held from the event to the line of the file.   *)

\* Fault: the mutex is not taken.
CallsUnlocked(t, k) ==
  /\ calls < MaxCalls
  /\ place[t] = "out"
  /\ UNCHANGED mutex
  /\ place' = [place EXCEPT ![t] = "notify"]
  /\ calls' = calls + 1
  /\ logging' = [logging EXCEPT ![t] =
       [id |-> k.id, severity |-> k.severity, time |-> now, call |-> calls + 1]]
  /\ UNCHANGED <<now, last_event_pub_time_, published, held, file, listenerVars, reading>>

\* info, debug, warning, error and fatal differ in the event they notify.
Calls(t, k) ==
  /\ calls < MaxCalls
  /\ place[t] = "out"
  /\ mutex = NoThread
  /\ mutex' = t
  /\ place' = [place EXCEPT ![t] = "notify"]
  /\ calls' = calls + 1
  /\ logging' = [logging EXCEPT ![t] =
       [id |-> k.id, severity |-> k.severity, time |-> now, call |-> calls + 1]]
  /\ UNCHANGED <<now, last_event_pub_time_, published, held, file, listenerVars, reading>>

\* Fault: off by one.
SpammingAtThreshold(e) ==
  /\ last_event_pub_time_[e.id] # Never
  /\ e.time - last_event_pub_time_[e.id] <= Threshold

\* An event of the id was published less than the threshold ago.
Spamming(e) ==
  /\ last_event_pub_time_[e.id] # Never
  /\ e.time - last_event_pub_time_[e.id] < Threshold

\* RobustEventNotifier::notify: the time is taken once, when it is called.
Notifies(t) ==
  LET e == [logging[t] EXCEPT !.time = now] IN
  /\ place[t] = "notify"
  /\ IF Spamming(e)
     THEN held' = held \cup {e} /\ UNCHANGED <<published, last_event_pub_time_>>
     ELSE /\ published' = Append(published, e)
          /\ last_event_pub_time_' = [last_event_pub_time_ EXCEPT ![e.id] = now]
          /\ UNCHANGED held
  /\ place' = [place EXCEPT ![t] = "write"]
  /\ UNCHANGED <<now, mutex, logging, calls, file, listenerVars, reading>>

\* The line goes to the file, and the call returns.
Writes(t) ==
  /\ place[t] = "write"
  /\ file' = Append(file, logging[t].call)
  /\ place' = [place EXCEPT ![t] = "out"]
  /\ logging' = [logging EXCEPT ![t] = NoThread]
  /\ mutex' = NoThread
  /\ UNCHANGED <<now, calls, last_event_pub_time_, published, held, listenerVars, reading>>

Tick ==
  /\ now < MaxTime
  /\ now' = now + 1
  /\ UNCHANGED <<loggerVars, listenerVars, reading>>

-----------------------------------------------------------------------------
(* The listener's callback: push_back, then the index.                     *)

\* Fault: the index goes first (Counts), the event after it (Appends).
Counts ==
  /\ callback = "out"
  /\ arrived < Len(published)
  /\ arrived' = arrived + 1
  /\ unbounded_buffer_idx_' = unbounded_buffer_idx_ + 1
  /\ callback' = "pushed"
  /\ UNCHANGED <<now, loggerVars, event_buffer_, reading>>

Appends ==
  /\ callback = "pushed"
  /\ event_buffer_' = Append(event_buffer_, published[arrived])
  /\ callback' = "out"
  /\ UNCHANGED <<now, loggerVars, arrived, unbounded_buffer_idx_, reading>>

CallbackSwapped == Counts \/ Appends

\* Fault: a full buffer is written over from its first place.
PushedInPlace(buffer, e) ==
  IF Len(buffer) < Capacity THEN Append(buffer, e) ELSE [buffer EXCEPT ![1] = e]

\* A full buffer drops its oldest element.
Pushed(buffer, e) ==
  IF Len(buffer) < Capacity THEN Append(buffer, e) ELSE Append(Tail(buffer), e)

Pushes ==
  /\ callback = "out"
  /\ arrived < Len(published)
  /\ arrived' = arrived + 1
  /\ event_buffer_' = Pushed(event_buffer_, published[arrived + 1])
  /\ callback' = "pushed"
  /\ UNCHANGED <<now, loggerVars, unbounded_buffer_idx_, reading>>

Indexes ==
  /\ callback = "pushed"
  /\ unbounded_buffer_idx_' = unbounded_buffer_idx_ + 1
  /\ callback' = "out"
  /\ UNCHANGED <<now, loggerVars, arrived, event_buffer_, reading>>

-----------------------------------------------------------------------------
(* readEvents.                                                             *)

buffer_max_idx_ == Capacity - 1

\* Fault: the last index is left out.
BoundsShort(idx) == [from |-> 0, upto |-> IF idx > buffer_max_idx_ THEN buffer_max_idx_ ELSE idx - 1]

\* Which places of the buffer are read, once the index is known: idx_read is
\* set to zero at every call.
Bounds(idx) ==
  LET idx_read == 0
      delta == idx - idx_read
  IN CASE idx < idx_read -> [from |-> idx_read, upto |-> -1]
       [] idx >= idx_read /\ delta > buffer_max_idx_ -> [from |-> 0, upto |-> buffer_max_idx_]
       [] idx >= idx_read /\ delta <= buffer_max_idx_ /\ idx >= buffer_max_idx_ ->
            [from |-> buffer_max_idx_ - delta, upto |-> buffer_max_idx_ - delta + delta]
       [] OTHER -> [from |-> idx_read, upto |-> idx]

ReadBegins ==
  /\ ~reading.active
  /\ LET b == Bounds(unbounded_buffer_idx_) IN
       reading' = [active |-> TRUE, from |-> b.from, upto |-> b.upto,
                  begun |-> unbounded_buffer_idx_ + 1, events |-> << >>]
  /\ UNCHANGED <<now, loggerVars, listenerVars>>

\* Past the last element event_buffer_[i] is anything.
Reads ==
  /\ reading.active
  /\ reading.from <= reading.upto
  /\ reading.from < Len(event_buffer_)
  /\ reading' = [reading EXCEPT !.from = @ + 1,
                                !.events = Append(@, event_buffer_[reading.from + 1])]
  /\ UNCHANGED <<now, loggerVars, listenerVars>>

ReadDone == reading.active /\ reading.from > reading.upto

Logger == \E t \in Thread : (\E k \in Kind : Calls(t, k)) \/ Notifies(t) \/ Writes(t)
Callback == Pushes \/ Indexes

-----------------------------------------------------------------------------
(* Properties.                                                             *)

Increasing(s) == \A i, j \in 1 .. Len(s) : i < j => s[i] < s[j]
Numbers(events) == [i \in 1 .. Len(events) |-> events[i].call]

\* The events and the lines of one component tell its calls in the same order,
\* whichever threads made them (app_logger.hpp: "Serialize the complete
\* operation across event, terminal and file outputs").
SameOrder == Increasing(file) /\ Increasing(Numbers(published))

\* Of one id, no two events are published within the threshold, and an event is
\* held back only when one of its id went out within the threshold before it
\* (event_logger.cpp:79-97).
OnlySpamIsHeld ==
  /\ \A i, j \in 1 .. Len(published) :
       i < j /\ published[i].id = published[j].id =>
         published[j].time - published[i].time >= Threshold
  /\ \A e \in held : \E i \in 1 .. Len(published) :
       published[i].id = e.id /\ e.time \in published[i].time .. (published[i].time + Threshold - 1)

\* Wherever the callback is, a read stays within the events that are in the
\* buffer (the element is there before the index says so), and brings every event
\* at most once and in the order of the topic, also while the full buffer moves
\* under it; until the buffer has overflowed, a read that ends has missed none of
\* the events that were in it when it began (event_logger.cpp:129-131, 184-187).
ReadsAreFaithful ==
  /\ reading.active /\ reading.from <= reading.upto => reading.from < Len(event_buffer_)
  /\ Increasing(Numbers(reading.events))
  /\ ReadDone /\ arrived <= Capacity =>
       reading.events = SubSeq(published, 1, reading.begun)
=============================================================================
