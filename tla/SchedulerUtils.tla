--------------------------- MODULE SchedulerUtils ---------------------------
(***************************************************************************)
(* The cycles of a periodic component: SchedulerUtils (modules/application *)
(* /src/sched_utils.cpp) as PeriodicApp::run() and deactivating() use it.  *)
(* Durations are whole numbers.                                            *)
(***************************************************************************)
EXTENDS Integers

CONSTANTS
  Periods,          (* the periods that may be configured                  *)
  runtime_factor,   (* of the period, for SCHED_DEADLINE                   *)
  deadline_factor,
  priority,         (* for SCHED_FIFO                                      *)
  TimeFactors,      (* the factors the simulation can announce             *)
  MaxTime           (* bound: the steady clock                             *)

ASSUME SchedulerAssumption ==
  /\ Periods \subseteq Int /\ TimeFactors \subseteq Int
  /\ MaxTime \in Nat

VARIABLES
  sched_policy,         (* the configured policy                           *)
  period,               (* the configured period                           *)
  scheduler_attributes, (* what the kernel was last told                   *)
  curr_time_factor,
  realTimeFactor,       (* what the simulation announced last              *)
  desired_time,         (* the next wake-up                                *)
  steady_clock,
  cycle,                (* where the activity thread is                    *)
  slot                  (* history: the wake-up before desired_time        *)

schedulerVars == <<sched_policy, period, scheduler_attributes, curr_time_factor,
                   realTimeFactor, desired_time, steady_clock, cycle, slot>>

effective_period(factor) == period * factor

(* setSchedulerPolicy(), with the three policies it knows.                 *)
Supported == {"SCHED_DEADLINE", "SCHED_FIFO", "SCHED_OTHER"}

setSchedulerPolicy(factor) ==
  CASE sched_policy = "SCHED_DEADLINE" ->
         [sched_period |-> effective_period(factor),
          sched_runtime |-> effective_period(factor) * runtime_factor,
          sched_deadline |-> effective_period(factor) * deadline_factor]
    [] sched_policy = "SCHED_FIFO" -> [sched_priority |-> priority]
    [] sched_policy = "SCHED_OTHER" -> [sched_priority |-> 0]

Unset == [sched_priority |-> -1]

SchedulerInit ==
  /\ sched_policy \in Supported \cup {"SCHED_RR"}
  /\ period \in Periods
  /\ scheduler_attributes = Unset
  /\ curr_time_factor = 1
  /\ realTimeFactor = 1
  /\ desired_time = 0
  /\ steady_clock \in 0 .. 1
  /\ cycle = "outside"
  /\ slot = 0

-----------------------------------------------------------------------------
(* run() begins, after whatever time the component was idle.               *)
RunBegins ==
  /\ cycle = "outside"
  /\ IF sched_policy \in Supported
     THEN /\ cycle' = "working"
          /\ scheduler_attributes' = setSchedulerPolicy(curr_time_factor)
     ELSE /\ cycle' = "thrown"
          /\ UNCHANGED scheduler_attributes
  /\ desired_time' = IF sched_policy # "SCHED_DEADLINE" THEN steady_clock
                     ELSE desired_time
  /\ slot' = desired_time'
  /\ UNCHANGED <<sched_policy, period, curr_time_factor, realTimeFactor, steady_clock>>

RunEnds ==
  /\ cycle = "working"
  /\ cycle' = "outside"
  /\ UNCHANGED <<sched_policy, period, scheduler_attributes, curr_time_factor,
                 realTimeFactor, desired_time, steady_clock, slot>>

(* A cycle takes its time, a pause included.                               *)
TimePasses ==
  /\ cycle \in {"outside", "working"}
  /\ steady_clock < MaxTime
  /\ steady_clock' = steady_clock + 1
  /\ UNCHANGED <<sched_policy, period, scheduler_attributes, curr_time_factor,
                 realTimeFactor, desired_time, cycle, slot>>

(* Time: a message of the simulation; time is never slowed down.           *)
setRealTimeFactor(factor) ==
  /\ factor >= 1
  /\ realTimeFactor' = factor
  /\ UNCHANGED <<sched_policy, period, scheduler_attributes, curr_time_factor,
                 desired_time, steady_clock, cycle, slot>>

(* Fault: the slot that is under way is not skipped.                       *)
missedRoundedDown(wake, p) ==
  IF steady_clock > wake THEN (steady_clock - wake) \div p ELSE 0

(* The slots that expired while the cycle ran are skipped.                 *)
missed_periods(wake, p) ==
  IF steady_clock > wake THEN (steady_clock - wake) \div p + 1 ELSE 0

(* executeEndLoopTask(), with the period of the new factor.                *)
executeEndLoopTask(factor) ==
  LET p == effective_period(factor)
      wake == desired_time + p
  IN  CASE sched_policy = "SCHED_DEADLINE" ->
             cycle' = "asleep" /\ UNCHANGED <<desired_time, slot>>
        [] sched_policy # "SCHED_DEADLINE" /\ p <= 0 ->
             cycle' = "thrown" /\ UNCHANGED <<desired_time, slot>>
        [] OTHER ->
             /\ desired_time' = wake + p * missed_periods(wake, p)
             /\ slot' = desired_time
             /\ cycle' = "asleep"

(* The end of the cycle: newTimeFactor(), then executeEndLoopTask().       *)
CycleEnds ==
  /\ cycle = "working"
  /\ curr_time_factor' = realTimeFactor
  /\ scheduler_attributes' = IF realTimeFactor # curr_time_factor
                             THEN setSchedulerPolicy(realTimeFactor)
                             ELSE scheduler_attributes
  /\ executeEndLoopTask(realTimeFactor)
  /\ UNCHANGED <<sched_policy, period, realTimeFactor, steady_clock>>

(* sleep_until() returns at the wake-up or late; sched_yield() when the    *)
(* kernel gives the thread its next runtime.                               *)
WakesUp ==
  /\ cycle = "asleep"
  /\ steady_clock' \in steady_clock .. MaxTime
  /\ sched_policy # "SCHED_DEADLINE" => steady_clock' >= desired_time
  /\ cycle' = "working"
  /\ UNCHANGED <<sched_policy, period, scheduler_attributes, curr_time_factor,
                 realTimeFactor, desired_time, slot>>

SchedulerNext ==
  \/ RunBegins
  \/ RunEnds
  \/ TimePasses
  \/ \E factor \in TimeFactors : setRealTimeFactor(factor)
  \/ CycleEnds
  \/ WakesUp

SchedulerSpec == SchedulerInit /\ [][SchedulerNext]_schedulerVars

-----------------------------------------------------------------------------
(* However long cycles and pauses take and whenever the time factor        *)
(* changes, the component sleeps until the next slot of its phase, never   *)
(* longer than a period and never past ("Keep the original phase, but skip *)
(* expired slots", sched_utils.cpp:115); and the kernel has the attributes *)
(* of the factor that is in use.                                           *)
SlotsAreKept ==
  /\ cycle = "asleep" /\ sched_policy # "SCHED_DEADLINE" =>
       LET p == effective_period(curr_time_factor)
       IN  /\ desired_time > slot /\ (desired_time - slot) % p = 0
           /\ desired_time - steady_clock \in 0 .. p
  /\ cycle \in {"working", "asleep"} =>
       scheduler_attributes = setSchedulerPolicy(curr_time_factor)
=============================================================================
