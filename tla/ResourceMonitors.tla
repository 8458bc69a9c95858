-------------------------- MODULE ResourceMonitors --------------------------
(***************************************************************************)
(* What the supervisor and every periodic application measure of the       *)
(* machine: SystemResourceMonitor with Supervisor::checkHardware, and      *)
(* ProcessResourceMonitor (modules/utils, modules/supervisor).             *)
(*                                                                         *)
(* A round reads /proc and /sys once.  What it finds is a reading: the     *)
(* ticks that passed, those each processor was busy, the lines of          *)
(* /proc/stat (which never get fewer), the total and available memory, a   *)
(* temperature, and the accounting of one process; NoFile where a file     *)
(* cannot be read.                                                         *)
(***************************************************************************)
EXTENDS MovingWindow

CONSTANTS
  Processors,         (* their number                                      *)
  Readings,           (* what a round can find                             *)
  MonitorWindow,      (* resource_monitor_window_size and that of processes *)
  NoFile,             (* a file that cannot be read                        *)
  cpu_threshold,      (* system_cpu_threshold                              *)
  mem_threshold,
  MaxRounds           (* bound: rounds                                     *)

ASSUME MonitorAssumption ==
  /\ Processors \in Nat /\ MonitorWindow \in Nat /\ NoFile \notin Int
  /\ \A r \in Readings :
       /\ r.ticks \in Nat /\ r.busy \in [1 .. Processors -> Int]
       /\ r.lines \in 0 .. Processors /\ r.stat \in BOOLEAN /\ r.zones \in BOOLEAN
       /\ r.mem # NoFile => r.mem.total \in Int /\ r.mem.available \in Int
       /\ r.temp # NoFile => r.temp \in Int
       /\ r.rss # NoFile => r.rss \in Int
       /\ r.cpu # NoFile => r.cpu \in Nat

VARIABLES
  cpus_times,         (* the last snapshots of /proc/stat                  *)
  cpu_usage_w,        (* a window per line                                 *)
  latest_cpus_usage,  (* the windows whose means are the latest usages     *)
  mem_usage_w,
  thermal_zones,      (* "unknown", "none" or "found"                      *)
  temperature_w,
  latest_temperature, (* the window behind the latest temperature          *)
  reported,           (* the hardware events of the last round             *)
  process,            (* the monitor of a process                          *)
  counters,           (* the machine: counters of /proc/stat               *)
  history             (* history: the readings so far                      *)

systemVars == <<cpus_times, cpu_usage_w, latest_cpus_usage, mem_usage_w,
                thermal_zones, temperature_w, latest_temperature>>
monitorVars == <<systemVars, reported, process, counters, history>>

Line(total, idle) == [total |-> total, idle |-> idle]
NewWindow == NumericalMovingWindow(MonitorWindow)

MonitorInit ==
  /\ cpus_times = <<>>
  /\ cpu_usage_w = <<>>
  /\ latest_cpus_usage = <<>>
  /\ mem_usage_w = NewWindow
  /\ thermal_zones = "unknown"
  /\ temperature_w = NewWindow
  /\ latest_temperature = NewWindow
  /\ reported = {}
  /\ process = [last_total_ticks |-> 0, elapsed |-> 0, returned |-> 0,
                cpu_percentage_w |-> NewWindow, memory_percentage_w |-> NewWindow]
  /\ counters = [i \in 1..Processors |-> Line(0, 0)]
  /\ history = <<>>

-----------------------------------------------------------------------------
(* SystemResourceMonitor                                                   *)

Ticked(r) ==
  [i \in 1..Processors |->
     Line(counters[i].total + r.ticks, counters[i].idle + r.ticks - r.busy[i])]

(* Fault: three snapshots are kept.                                        *)
readProcStatLate(now, r) ==
  IF ~ r.stat THEN cpus_times
  ELSE IF Len(cpus_times) = 3 THEN Append(Tail(cpus_times), now)
  ELSE Append(cpus_times, now)

(* Two snapshots are kept; a round that cannot read adds none.             *)
readProcStat(now, r) ==
  IF ~ r.stat THEN cpus_times
  ELSE IF Len(cpus_times) = 2 THEN Append(Tail(cpus_times), now)
  ELSE Append(cpus_times, now)

Usage(prev, new) ==
  LET totalDiff == new.total - prev.total
  IN  IF totalDiff > 0 THEN (100 * (totalDiff - (new.idle - prev.idle))) \div totalDiff ELSE 0

(* All windows start anew when the number of lines has changed.  Nothing   *)
(* is known after less than two snapshots.                                 *)
computeCpusUsage(times) ==
  LET prev == Head(times)
      windows == IF Len(cpu_usage_w) = Len(prev) THEN cpu_usage_w
                 ELSE [i \in DOMAIN prev |-> NewWindow]
      pushed == [i \in DOMAIN prev |-> push(windows[i], Usage(prev[i], Last(times)[i]))]
  IN  IF Len(times) < 2
      THEN latest_cpus_usage' = <<>> /\ UNCHANGED cpu_usage_w
      ELSE cpu_usage_w' = pushed /\ latest_cpus_usage' = pushed

MemUsage(m) == IF m.total <= 0 THEN 0
               ELSE IF m.available <= 0 THEN 100
               ELSE (100 * (m.total - m.available)) \div m.total

computeMemUsage(r) ==
  mem_usage_w' = IF r.mem = NoFile THEN mem_usage_w ELSE push(mem_usage_w, MemUsage(r.mem))

(* The zones are looked up once, whatever is found.  A temperature that    *)
(* cannot be read leaves the last one in place.                            *)
computeTemperature(r) ==
  LET zones == IF thermal_zones # "unknown" THEN thermal_zones
               ELSE IF r.zones THEN "found" ELSE "none"
      readable == zones = "found" /\ r.temp # NoFile
  IN  /\ thermal_zones' = zones
      /\ temperature_w' = IF readable THEN push(temperature_w, r.temp) ELSE temperature_w
      /\ latest_temperature' = IF readable THEN temperature_w' ELSE latest_temperature

monitor(r) ==
  /\ counters' = Ticked(r)
  /\ cpus_times' = readProcStat(SubSeq(counters', 1, r.lines), r)
  /\ computeCpusUsage(cpus_times')
  /\ computeMemUsage(r)
  /\ computeTemperature(r)

(* The supervisor compares the means; the temperature is only read.        *)
checkHardware ==
  LET hot == {i \in DOMAIN latest_cpus_usage' : MeanExceeds(latest_cpus_usage'[i], cpu_threshold)}
  IN  reported' = {<<"CPU_USAGE_TOO_HIGH", i>> : i \in hot}
                    \cup (IF MeanExceeds(mem_usage_w', mem_threshold)
                          THEN {<<"MEM_USAGE_TOO_HIGH", 0>>} ELSE {})

-----------------------------------------------------------------------------
(* ProcessResourceMonitor                                                  *)

updateAllocatedMemory(r) == push(process.memory_percentage_w, r.rss)

(* The first sample, a clock that did not advance and a counter that went  *)
(* back only set the base of the next one; the ticks are hundredths of the *)
(* clock's.                                                                *)
update(r) ==
  LET elapsed == process.elapsed + r.ticks
      memory == updateAllocatedMemory(r)
      Base(code) == [process EXCEPT !.last_total_ticks = r.cpu, !.elapsed = 0,
                                    !.memory_percentage_w = memory, !.returned = code]
  IN  process' =
        IF r.rss = NoFile
        THEN [process EXCEPT !.elapsed = elapsed, !.returned = 1]
        ELSE IF r.cpu = NoFile
        THEN [process EXCEPT !.elapsed = elapsed, !.memory_percentage_w = memory, !.returned = 2]
        ELSE IF process.last_total_ticks = 0 THEN Base(0)
        ELSE IF elapsed <= 0 \/ r.cpu < process.last_total_ticks THEN Base(3)
        ELSE [Base(0) EXCEPT !.cpu_percentage_w =
                push(@, (100 * (r.cpu - process.last_total_ticks)) \div elapsed)]

-----------------------------------------------------------------------------
Round(r) ==
  /\ Len(history) < MaxRounds
  /\ history # <<>> => r.lines >= Last(history).lines
  /\ monitor(r)
  /\ checkHardware
  /\ update(r)
  /\ history' = Append(history, r)

MonitorNext == \E r \in Readings : Round(r)

MonitorSpec == MonitorInit /\ [][MonitorNext]_monitorVars

-----------------------------------------------------------------------------
(* What was measured, from a history h.  A window counts what is below 0   *)
(* as 0.                                                                   *)
Sample(v) == Max({v, 0})
Samples(found) ==
  InOrder([k \in {j \in DOMAIN found : found[j] # NoFile} |-> Sample(found[k])], Len(found))

Memories(h) ==
  Samples([k \in DOMAIN h |-> IF h[k].mem = NoFile THEN NoFile ELSE MemUsage(h[k].mem)])
Temperatures(h) == IF h # <<>> /\ h[1].zones THEN Samples([k \in DOMAIN h |-> h[k].temp]) ELSE <<>>
ProcessMemories(h) == Samples([k \in DOMAIN h |-> h[k].rss])

TicksIn(h, a, b) == Total([j \in 1..(b - a) |-> h[a + j].ticks])
BusyIn(h, i, a, b) == Total([j \in 1..(b - a) |-> h[a + j].busy[i]])

(* The usage of a line is that between the last two rounds that read       *)
(* /proc/stat, k at the latest.                                            *)
Reads(h, k) == {j \in 1..k : h[j].stat}
LastRead(h, k) == Max(Reads(h, k))
ReadBefore(h, k) == Max(Reads(h, k) \ {LastRead(h, k)})
Measured(h, k) == \E a, b \in Reads(h, k) : a < b
Lines(h, k) == h[ReadBefore(h, k)].lines

BusyShare(h, i, k) ==
  LET a == ReadBefore(h, k)
      b == LastRead(h, k)
  IN  IF TicksIn(h, a, b) > 0 THEN (100 * BusyIn(h, i, a, b)) \div TicksIn(h, a, b) ELSE 0

(* The shares of a line since the number of lines last changed.            *)
BusyShares(h, i) ==
  InOrder([k \in {j \in DOMAIN h : Measured(h, j) /\ Lines(h, j) = Lines(h, Len(h))} |->
            Sample(BusyShare(h, i, k))], Len(h))

(* The processor time of the process over the clock, between two rounds    *)
(* that read both.                                                         *)
Accounts(h) == {k \in DOMAIN h : h[k].rss # NoFile /\ h[k].cpu # NoFile}
AccountBefore(h, k) == Max({j \in Accounts(h) : j < k})
Used(h, k) == h[k].cpu - h[AccountBefore(h, k)].cpu
Passed(h, k) == TicksIn(h, AccountBefore(h, k), k)
Compared(h) ==
  {k \in Accounts(h) : /\ \E j \in Accounts(h) : j < k
                       /\ h[AccountBefore(h, k)].cpu # 0 /\ Used(h, k) >= 0 /\ Passed(h, k) > 0}
ProcessShares(h) ==
  InOrder([k \in Compared(h) |-> Sample((100 * Used(h, k)) \div Passed(h, k))], Len(h))

IsHigh(samples, limit) ==
  LET last == Latest(samples, MonitorWindow) IN last # <<>> /\ Total(last) > limit * Len(last)

(* After every round the reported events and the published means are those *)
(* of the last intervals that were measured, whatever could not be read    *)
(* and whichever line appeared meanwhile (supervisor.cpp:118-149,          *)
(* system_resource_monitor.cpp, process_resource_monitor.cpp:21-66).       *)
LoadIsReported ==
  history # <<>> =>
    /\ Measured(history, Len(history)) =>
         \A i \in 1..Lines(history, Len(history)) :
           /\ IsWindowOf(latest_cpus_usage[i], BusyShares(history, i))
           /\ <<"CPU_USAGE_TOO_HIGH", i>> \in reported <=> IsHigh(BusyShares(history, i), cpu_threshold)
    /\ IsWindowOf(mem_usage_w, Memories(history))
    /\ <<"MEM_USAGE_TOO_HIGH", 0>> \in reported <=> IsHigh(Memories(history), mem_threshold)
    /\ IsWindowOf(latest_temperature, Temperatures(history))
    /\ IsWindowOf(process.cpu_percentage_w, ProcessShares(history))
    /\ IsWindowOf(process.memory_percentage_w, ProcessMemories(history))
=============================================================================
