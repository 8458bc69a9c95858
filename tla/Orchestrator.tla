---------------------------- MODULE Orchestrator ----------------------------
(***************************************************************************)
(* The orchestrator (orchestrator_base.cpp): its periodic run() adds the   *)
(* events it reads to a priority queue, and a telemetry thread, started at *)
(* the first activation, shows the first few of a copy of the queue.       *)
(***************************************************************************)
EXTENDS EventLog

CONSTANTS
  event_to_publish_,   \* how many events the telemetry shows
  MaxQueued            \* bound: copies of one event in the queue

ASSUME OrchestratorAssumption == event_to_publish_ \in Nat \ {0} /\ MaxQueued \in Nat \ {0}

VARIABLES
  events_priority_queue_,   \* by the number of the call: its copies in the queue
  telemetry_started_,
  telemetry,                \* where the telemetry thread is
  copied,                   \* its copy of the queue
  shown,                    \* the events it showed last, the first one first
  should_quit,
  object                    \* the orchestrator itself

orchestratorVars == <<events_priority_queue_, telemetry_started_, telemetry, copied, shown,
                      should_quit, object>>
vars == <<logVars, orchestratorVars>>

Queue == [Call -> 0 .. MaxQueued]

TypeOK ==
  /\ LogTypeOK
  /\ events_priority_queue_ \in Queue
  /\ telemetry_started_ \in BOOLEAN
  /\ telemetry \in {"none", "cycle", "copied", "ended"}
  /\ copied \in Queue
  /\ shown \in Seq(Call) /\ Len(shown) <= event_to_publish_
  /\ should_quit \in BOOLEAN
  /\ object \in {"inactive", "active", "destroyed", "terminated"}

Init ==
  /\ LogInit
  /\ events_priority_queue_ = [c \in Call |-> 0]
  /\ telemetry_started_ = FALSE
  /\ telemetry = "none"
  /\ copied = [c \in Call |-> 0]
  /\ shown = << >>
  /\ should_quit = FALSE
  /\ object = "inactive"

-----------------------------------------------------------------------------

\* activation() starts the thread once.
Activates ==
  /\ object = "inactive" /\ ~should_quit
  /\ object' = "active"
  /\ telemetry_started_' = TRUE
  /\ telemetry' = IF telemetry_started_ THEN telemetry ELSE "cycle"
  /\ UNCHANGED <<logVars, events_priority_queue_, copied, shown, should_quit>>

Deactivates ==
  /\ object = "active" /\ ~reading.active
  /\ object' = "inactive"
  /\ UNCHANGED <<logVars, events_priority_queue_, telemetry_started_, telemetry, copied, shown, should_quit>>

Quits ==
  /\ object = "inactive"
  /\ should_quit' = TRUE
  /\ UNCHANGED <<logVars, events_priority_queue_, telemetry_started_, telemetry, copied, shown, object>>

\* run() is called while the component is active; its read of the events goes
\* on beside the callback.
RunReads == object = "active" /\ ReadBegins /\ UNCHANGED orchestratorVars
RunReadsOn == Reads /\ UNCHANGED orchestratorVars

Times(c, events) == Cardinality({i \in 1 .. Len(events) : events[i].call = c})
AtMost(n) == IF n > MaxQueued THEN MaxQueued ELSE n

\* Under event_mutex_ all that was read is pushed.
RunQueues ==
  /\ ReadDone
  /\ events_priority_queue_' =
       [c \in Call |-> AtMost(events_priority_queue_[c] + Times(c, reading.events))]
  /\ reading' = NotReading
  /\ UNCHANGED <<now, loggerVars, listenerVars, telemetry_started_, telemetry, copied, shown,
                 should_quit, object>>

Published == {published[i] : i \in 1 .. Len(published)}
EventOf(c) == CHOOSE e \in Published : e.call = c

\* CompareEvents: the severity, then the id, then the time, the latest first.
Before(a, b) ==
  \/ a.severity > b.severity
  \/ (a.severity = b.severity /\ a.id > b.id)
  \/ (a.severity = b.severity /\ a.id = b.id /\ a.time > b.time)

Queued(q) == {c \in Call : q[c] > 0}
\* Fault: the order of the queue is the other way round.
BottomOf(q) == CHOOSE c \in Queued(q) :
                 \A d \in Queued(q) \ {c} : Before(EventOf(d), EventOf(c))

\* Of one component, two events that are published differ in what is compared.
TopOf(q) == CHOOSE c \in Queued(q) :
              \A d \in Queued(q) \ {c} : Before(EventOf(c), EventOf(d))

\* The first n of a queue, one after the other.
FirstOf(q, n) ==
  LET pop[i \in 0 .. n] ==
        IF i = 0 THEN [left |-> q, popped |-> << >>]
        ELSE LET s == pop[i - 1] IN
             IF Queued(s.left) = {} THEN s
             ELSE LET c == TopOf(s.left) IN
                  [left |-> [s.left EXCEPT ![c] = @ - 1], popped |-> Append(s.popped, c)]
  IN pop[n].popped

TelemetryCopies ==
  /\ telemetry = "cycle" /\ ~should_quit
  /\ copied' = events_priority_queue_
  /\ telemetry' = "copied"
  /\ UNCHANGED <<logVars, events_priority_queue_, telemetry_started_, shown, should_quit, object>>

TelemetryShows ==
  /\ telemetry = "copied"
  /\ shown' = FirstOf(copied, event_to_publish_)
  /\ copied' = [c \in Call |-> 0]
  /\ telemetry' = "cycle"
  /\ UNCHANGED <<logVars, events_priority_queue_, telemetry_started_, should_quit, object>>

TelemetryEnds ==
  /\ telemetry = "cycle" /\ should_quit
  /\ telemetry' = "ended"
  /\ UNCHANGED <<logVars, events_priority_queue_, telemetry_started_, copied, shown, should_quit, object>>

\* Nobody joins the thread: the destructor of a thread that was started ends
\* the program.
Destroyed ==
  /\ should_quit
  /\ object' = IF telemetry_started_ THEN "terminated" ELSE "destroyed"
  /\ UNCHANGED <<logVars, events_priority_queue_, telemetry_started_, telemetry, copied, shown, should_quit>>

Alive == object \in {"inactive", "active"}

Telemetry == TelemetryCopies \/ TelemetryShows \/ TelemetryEnds
Run == RunReads \/ RunReadsOn \/ RunQueues

Next ==
  /\ Alive
  /\ \/ (Logger \/ Tick \/ Callback) /\ UNCHANGED orchestratorVars
     \/ Activates \/ Deactivates \/ Quits \/ Destroyed
     \/ Run
     \/ Telemetry

Spec == Init /\ [][Next]_vars

\* Threads that hold a lock, the callback and the telemetry thread run, and the
\* component's period comes again and again while it is active.
Fairness ==
  /\ WF_vars(Alive /\ (\E t \in Thread : Notifies(t) \/ Writes(t)) /\ UNCHANGED orchestratorVars)
  /\ WF_vars(Alive /\ Callback /\ UNCHANGED orchestratorVars)
  /\ WF_vars(Alive /\ RunReads) /\ WF_vars(Alive /\ RunReadsOn) /\ WF_vars(Alive /\ RunQueues)
  /\ WF_vars(Alive /\ TelemetryCopies) /\ WF_vars(Alive /\ TelemetryShows)

FairSpec == Spec /\ Fairness

-----------------------------------------------------------------------------
(* Properties.                                                             *)

\* An orchestrator that stays active shows in the end, of all that was ever
\* published, the worst event or a worse one, also when it was activated late:
\* every read begins with the oldest event (event_logger.cpp:166).
WorstIsShown ==
  <>[](object = "active") =>
    \A c \in Call : (\E e \in Published : e.call = c) ~>
      \/ arrived > Capacity
      \/ shown # << >> /\ \E e \in Published : e.call = c /\ ~ Before(e, EventOf(shown[1]))
=============================================================================
