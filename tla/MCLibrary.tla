------------------------------ MODULE MCLibrary ------------------------------
(***************************************************************************)
(* The instance of the parts that meet no other: a behaviour is about one  *)
(* of them, chosen at the start, and leaves the others alone.              *)
(***************************************************************************)
EXTENDS Rotations, Profiler, ResourceMonitors, Pose, TopicMonitor, SchedulerUtils,
        SignalGather

CONSTANTS camera, imu, teleop

VARIABLE part   (* the one this behaviour is about                         *)

vars == <<part, rotationVars, profilerVars, monitorVars, poseVars, topicVars,
          schedulerVars, gatherVars>>

-----------------------------------------------------------------------------
(* What a round of the resource monitors can find; a first round that      *)
(* cannot open /proc/stat finds no thermal zones either.                   *)
Memory(total, available) == [total |-> total, available |-> available]
NoMemory == NoFile

Reading(ticks, busy, lines, stat, mem, temp, rss, cpu) ==
  [ticks |-> ticks, busy |-> busy, lines |-> lines, stat |-> stat, mem |-> mem,
   zones |-> stat, temp |-> temp, rss |-> rss, cpu |-> cpu]

MCReadings ==
  {Reading(2, <<2, 1>>, 1, TRUE, Memory(4, 1), 40, 10, 1),
   Reading(1, <<1, 0>>, 2, FALSE, NoMemory, NoFile, 30, NoFile),
   Reading(2, <<0, 2>>, 1, TRUE, Memory(4, 0), 60, NoFile, 5),
   Reading(4, <<3, 4>>, 2, TRUE, Memory(4, 3), 50, 20, 3),
   Reading(1, <<0, 1>>, 2, TRUE, Memory(4, 2), NoFile, 20, 0),
   Reading(0, <<0, 0>>, 2, TRUE, Memory(0, 0), 30, 10, 4)}

(* What a reader can know of its input; one has stopped receiving.         *)
Input(freq, stamp, writer, missed) ==
  [freq |-> freq, stamp |-> stamp, receiving |-> TRUE, writer |-> writer, missed |-> missed]

MCInputStates ==
  {Input(2, 0, teleop, 0), Input(8, 1, camera, 1), Input(4, 2, imu, 0),
   [Input(8, 1, camera, 1) EXCEPT !.receiving = FALSE]}

(* Of the three controllers.                                             *)
MCPremultiplier == <<1, 2, 1>>

MCnodes_specs == (camera :> 4) @@ (imu :> 2)

-----------------------------------------------------------------------------
Init ==
  /\ part \in {"rotations", "profiler", "monitors", "poses", "topics", "cycles", "signals"}
  /\ RotationInit
  /\ ProfilerInit
  /\ MonitorInit
  /\ PoseInit
  /\ TopicInit
  /\ SchedulerInit
  /\ part # "cycles" => sched_policy = "SCHED_RR" /\ period = 2 /\ steady_clock = 0
  /\ GatherInit

Next ==
  \/ /\ part = "rotations"
     /\ \E a \in Turns : Turn(a)
     /\ UNCHANGED <<part, profilerVars, monitorVars, poseVars, topicVars,
                    schedulerVars, gatherVars>>
  \/ /\ part = "profiler"
     /\ ProfilerNext
     /\ UNCHANGED <<part, rotationVars, monitorVars, poseVars, topicVars,
                    schedulerVars, gatherVars>>
  \/ /\ part = "monitors"
     /\ MonitorNext
     /\ UNCHANGED <<part, rotationVars, profilerVars, poseVars, topicVars,
                    schedulerVars, gatherVars>>
  \/ /\ part = "poses"
     /\ PoseNext
     /\ UNCHANGED <<part, rotationVars, profilerVars, monitorVars, topicVars,
                    schedulerVars, gatherVars>>
  \/ /\ part = "topics"
     /\ TopicNext
     /\ UNCHANGED <<part, rotationVars, profilerVars, monitorVars, poseVars,
                    schedulerVars, gatherVars>>
  \/ /\ part = "cycles"
     /\ SchedulerNext
     /\ UNCHANGED <<part, rotationVars, profilerVars, monitorVars, poseVars,
                    topicVars, gatherVars>>
  \/ /\ part = "signals"
     /\ GatherNext
     /\ UNCHANGED <<part, rotationVars, profilerVars, monitorVars, poseVars,
                    topicVars, schedulerVars>>

Spec == Init /\ [][Next]_vars
=============================================================================
