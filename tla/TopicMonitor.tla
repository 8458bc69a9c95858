---------------------------- MODULE TopicMonitor ----------------------------
(***************************************************************************)
(* The monitoring of the inputs of a periodic plugin: TopicMonitor, used   *)
(* by the monitor thread in PeriodicAppPlugin::childMonitor, while the     *)
(* plugin builds its inputs and readers update what is known of them.      *)
(* The monitor copies the inputs first: their stamps, periods and missed   *)
(* messages are those of the copy.  The copy shares the readers, so whether *)
(* an input receives and who writes it are asked of the reader, later.  A  *)
(* step of a round asks each reader once at most.                          *)
(*                                                                         *)
(* Inputs are numbered in the order they are built; inputs_map gives each  *)
(* topic that number.  A period is kept as its frequency, 0 when there is  *)
(* none, and the factor is 1 over max_exceeding_divisor.                   *)
(***************************************************************************)
EXTENDS MovingWindow, FiniteSets

CONSTANTS
  Inputs,                (* bound: how many inputs are built               *)
  InputStates,           (* what a reader can know: frequency, stamp,      *)
                         (* receiving, writer, missed                      *)
  NoWriter,
  nodes_specs,           (* the frequency of each node that has one        *)
  max_exceeding_divisor,
  sync_threshold,
  FREQ_MOVING_WINDOW_DEFAULT_SIZE,
  MaxChecks,             (* bound: rounds of the monitor                   *)
  MaxReadings            (* bound: what the readers hear                   *)

ASSUME TopicAssumption ==
  /\ \A s \in InputStates :
       s \in [freq : Nat, stamp : Int, receiving : BOOLEAN, writer : {s.writer}, missed : Nat]
  /\ \A node \in DOMAIN nodes_specs : nodes_specs[node] \in Nat
  /\ max_exceeding_divisor \in Nat \ {0}
  /\ sync_threshold \in Nat
  /\ FREQ_MOVING_WINDOW_DEFAULT_SIZE \in Nat \ {0}

VARIABLES
  input_info,            (* what is known of the inputs that are built     *)
  round,                 (* where the monitor is in a round                *)
  copied,                (* the monitor's copy, empty between rounds       *)
  reference,             (* the input the others are compared with         *)
  inputs_map_size,       (* the monitor's inputs_map_                      *)
  input_topic_infos,     (* desired frequency, frequencies, missed         *)
  enable_checks,
  notified,              (* the events of the round                        *)
  checks,                (* bound: rounds                                  *)
  readings,              (* bound: what was heard                          *)
  heard,                 (* history: what each input showed in each round  *)
                         (* since the monitor last began anew              *)
  watched,               (* history: the copy of the last round, receiving *)
                         (* as the readers said when the inputs were compared *)
  grown                  (* history: the monitor last began anew with more *)
                         (* inputs in the map than in its copy             *)

topicVars == <<input_info, readings, round, copied, reference, inputs_map_size, input_topic_infos,
               enable_checks, notified, checks, heard, watched, grown>>

Unheard == [freq |-> 0, stamp |-> 0, receiving |-> FALSE, writer |-> NoWriter, missed |-> 0]

TopicInit ==
  /\ input_info = <<>>
  /\ round = "over"
  /\ copied = <<>>
  /\ reference = 0
  /\ inputs_map_size = 0
  /\ input_topic_infos = <<>>
  /\ enable_checks = <<>>
  /\ notified = {}
  /\ checks = 0
  /\ readings = 0
  /\ heard = <<>>
  /\ watched = <<>>
  /\ grown = FALSE

monitorKeeps == <<inputs_map_size, input_topic_infos, enable_checks, heard, grown>>

monitorState == <<round, copied, reference, notified, checks, watched, monitorKeeps>>

(* The input and its place in the map appear together.                     *)
BuildInput ==
  /\ Len(input_info) < Inputs
  /\ input_info' = Append(input_info, Unheard)
  /\ UNCHANGED <<readings, monitorState>>

(* A reader hears of its input at any time, also while the monitor works   *)
(* on its copy.                                                            *)
Hear(i, s) ==
  /\ checks < MaxChecks
  /\ readings < MaxReadings
  /\ readings' = readings + 1
  /\ input_info[i] # s
  /\ input_info' = [input_info EXCEPT ![i] = s]
  /\ UNCHANGED monitorState

-----------------------------------------------------------------------------
(* The monitor copies the inputs under the mutex, and reads the map later. *)
CopyInputs ==
  /\ round = "over"
  /\ checks < MaxChecks
  /\ round' = "copied"
  /\ copied' = input_info
  /\ UNCHANGED <<input_info, readings, reference, notified, checks, watched, monitorKeeps>>

NewInfo == [desired |-> 0, missed |-> 0,
            freqs |-> NumericalMovingWindow(FREQ_MOVING_WINDOW_DEFAULT_SIZE)]

getActualFrequency(w, freq) == IF freq > 0 THEN push(w, freq) ELSE w

HasSpec(s) == s.writer \in DOMAIN nodes_specs

(* The copy of an input, with the writer its reader knows now.             *)
Asked(i) == [copied[i] EXCEPT !.writer = input_info[i].writer]

(* Every round pushes the latest frequency; that of the writer is looked   *)
(* up until one is known, and kept.                                        *)
getInputTopicInfo(infos, enabled) ==
  /\ input_topic_infos' =
       [i \in DOMAIN infos |->
         [desired |-> IF ~ enabled[i] /\ HasSpec(Asked(i))
                      THEN nodes_specs[Asked(i).writer] ELSE infos[i].desired,
          missed |-> Asked(i).missed,
          freqs |-> getActualFrequency(infos[i].freqs, Asked(i).freq)]]
  /\ enable_checks' = [i \in DOMAIN infos |-> enabled[i] \/ HasSpec(Asked(i))]

(* A mean is nominal when it differs by less than the factor.              *)
Nominal(info) ==
  LET desired == info.desired * info.freqs.size
      delta == IF info.freqs.sum > desired THEN info.freqs.sum - desired ELSE desired - info.freqs.sum
  IN  delta * max_exceeding_divisor < desired

checkDesiredFrequency ==
  [i \in DOMAIN input_topic_infos' |->
     \/ ~ enable_checks'[i]
     \/ input_topic_infos'[i].freqs.sum = 0
     \/ Nominal(input_topic_infos'[i])]

(* The monitor begins anew, with the inputs of its copy, when the map has  *)
(* changed its size; then it updates and checks.                           *)
childMonitor ==
  LET anew == inputs_map_size # Len(input_info)
      infos == IF anew THEN [i \in DOMAIN copied |-> NewInfo] ELSE input_topic_infos
      enabled == IF anew THEN [i \in DOMAIN copied |-> FALSE] ELSE enable_checks
      past == IF anew THEN [i \in DOMAIN copied |-> <<>>] ELSE heard
  IN  /\ round = "copied"
      /\ round' = "informed"
      /\ inputs_map_size' = Len(input_info)
      /\ getInputTopicInfo(infos, enabled)
      /\ notified' = {<<"WRONG_SEQUENCE_ID", i>> : i \in {j \in DOMAIN copied : copied[j].missed # 0}}
                       \cup {<<"WRONG_INPUT_FREQUENCY", i>> :
                              i \in {j \in DOMAIN infos : ~ checkDesiredFrequency[j]}}
      /\ heard' = [i \in DOMAIN past |-> Append(past[i], Asked(i))]
      /\ grown' = IF anew THEN Len(copied) < Len(input_info) ELSE grown
      /\ UNCHANGED <<input_info, readings, copied, reference, checks, watched>>

(* The copy, with the inputs that receive.                                 *)
WithReceiving(receiving) ==
  [i \in DOMAIN copied |-> [copied[i] EXCEPT !.receiving = i \in receiving]]

RoundIsOver(receiving) ==
  /\ round' = "over"
  /\ copied' = <<>>
  /\ reference' = 0
  /\ watched' = WithReceiving(receiving)
  /\ checks' = checks + 1
  /\ UNCHANGED <<input_info, readings, monitorKeeps>>

ReceivingNow == {i \in DOMAIN copied : input_info[i].receiving}

(* The reference is the first input that receives when it is asked.        *)
ChooseReference ==
  /\ round = "informed"
  /\ ReceivingNow # {}
  /\ round' = "compare"
  /\ reference' = Min(ReceivingNow)
  /\ UNCHANGED <<input_info, readings, copied, notified, checks, watched, monitorKeeps>>

(* Without a reference nothing is compared.                                *)
NoneReceives ==
  /\ round = "informed"
  /\ ReceivingNow = {}
  /\ RoundIsOver({})
  /\ UNCHANGED notified

Apart(s, u) == (IF s.stamp > u.stamp THEN s.stamp - u.stamp ELSE u.stamp - s.stamp) > sync_threshold

(* Fault: all are compared with the first input, whether it receives or not. *)
areTopicsSyncWithFirst(receiving) == \A i \in receiving : ~ Apart(copied[1], copied[i])

(* The inputs that receive are compared with the reference only.           *)
areTopicsSync(receiving) == \A i \in receiving : ~ Apart(copied[reference], copied[i])

(* The others are asked again, and those that receive by now are compared  *)
(* by the stamps of the copy.                                              *)
CompareInputs ==
  LET receiving == ReceivingNow \cup {reference}
  IN  /\ round = "compare"
      /\ notified' = IF areTopicsSync(receiving) THEN notified
                     ELSE notified \cup {<<"INPUTS_NOT_SYNCHRONIZED", 0>>}
      /\ RoundIsOver(receiving)

TopicNext ==
  \/ BuildInput
  \/ \E i \in DOMAIN input_info, s \in InputStates : Hear(i, s)
  \/ CopyInputs
  \/ childMonitor
  \/ ChooseReference
  \/ NoneReceives
  \/ CompareInputs

TopicSpec == TopicInit /\ [][TopicNext]_topicVars
-----------------------------------------------------------------------------
(* The frequencies among what was heard.                                   *)
Frequencies(said) ==
  InOrder([k \in {j \in DOMAIN said : said[j].freq > 0} |-> said[k].freq], Len(said))

Known(said) == {k \in DOMAIN said : HasSpec(said[k])}

SpecOf(said) == nodes_specs[said[Min(Known(said))].writer]

(* The mean of the frequencies in the window is off the one of the first   *)
(* writer that has one.                                                    *)
OffFrequency(said) ==
  LET freqs == Latest(Frequencies(said), FREQ_MOVING_WINDOW_DEFAULT_SIZE)
      n == Len(freqs)
  IN  /\ Known(said) # {}
      /\ n > 0
      /\ \/ Total(freqs) * max_exceeding_divisor >= (max_exceeding_divisor + 1) * SpecOf(said) * n
         \/ Total(freqs) * max_exceeding_divisor <= (max_exceeding_divisor - 1) * SpecOf(said) * n

Distance(i, j) == IF watched[i].stamp > watched[j].stamp
                  THEN watched[i].stamp - watched[j].stamp
                  ELSE watched[j].stamp - watched[i].stamp

Monitored == Len(input_topic_infos) < inputs_map_size <=> grown

FrequenciesReported ==
  \A i \in DOMAIN heard : <<"WRONG_INPUT_FREQUENCY", i>> \in notified <=> OffFrequency(heard[i])

SynchronyReported ==
  LET receiving == {i \in DOMAIN watched : watched[i].receiving}
  IN  IF <<"INPUTS_NOT_SYNCHRONIZED", 0>> \in notified
      THEN \E i, j \in receiving : Distance(i, j) > sync_threshold
      ELSE \A i, j \in receiving : Distance(i, j) <= 2 * sync_threshold

(* Between rounds: every input in the map is monitored unless one was      *)
(* built while the monitor began anew (and none since); a frequency is     *)
(* reported for exactly the inputs that were off it; of inputs that are    *)
(* reported as not synchronized two that received when they were compared  *)
(* are apart by their stamps in the copy, and without a report all that    *)
(* received are within twice the threshold                                 *)
(* (periodic_app_plugin.cpp:31-110, topic_monitor.cpp).                    *)
InputsAreWatched ==
  checks > 0 /\ round = "over" => Monitored /\ FrequenciesReported /\ SynchronyReported
=============================================================================
