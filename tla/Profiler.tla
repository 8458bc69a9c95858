------------------------------ MODULE Profiler ------------------------------
(***************************************************************************)
(* dls::profiler (modules/utils): the durations between tic and toc of an  *)
(* id, in a moving window per id.                                          *)
(***************************************************************************)
EXTENDS MovingWindow

CONSTANTS
  Ids,          (* the names of the measured stretches of code             *)
  WindowSize,   (* DEFAULT_WINDOW_SIZE                                     *)
  MaxDuration,  (* bound: the longest stretch                              *)
  MaxTocs       (* bound: the stretches that end                           *)

ASSUME ProfilerAssumption == WindowSize \in Nat \ {0}

VARIABLES
  g_starts,       (* the age of the stretches under way                    *)
  g_windows,      (* the windows that exist                                *)
  g_last_values,  (* the last durations                                    *)
  durations       (* history: all durations of each id, in order           *)

profilerVars == <<g_starts, g_windows, g_last_values, durations>>

NoEntries == [id \in {} |-> 0]

(* An entry of a map is written, an old one of its name replaced.          *)
Entry(map, id, value) ==
  [i \in DOMAIN map \cup {id} |-> IF i = id THEN value ELSE map[i]]

ProfilerInit ==
  /\ g_starts = NoEntries
  /\ g_windows = NoEntries
  /\ g_last_values = NoEntries
  /\ durations = [id \in Ids |-> <<>>]

(* A second tic starts the stretch anew.                                   *)
tic(id) ==
  /\ g_starts' = Entry(g_starts, id, 0)
  /\ UNCHANGED <<g_windows, g_last_values, durations>>

(* A toc without its tic throws, and changes nothing.                      *)
toc(id) ==
  LET ms == g_starts[id]
      window == IF id \in DOMAIN g_windows THEN g_windows[id]
                ELSE NumericalMovingWindow(WindowSize)
  IN  /\ id \in DOMAIN g_starts
      /\ Len(durations[id]) < MaxTocs
      /\ g_starts' = [i \in DOMAIN g_starts \ {id} |-> g_starts[i]]
      /\ g_windows' = Entry(g_windows, id, push(window, ms))
      /\ g_last_values' = Entry(g_last_values, id, ms)
      /\ durations' = [durations EXCEPT ![id] = Append(@, ms)]

(* Time passes.                                                            *)
Elapse ==
  /\ g_starts # NoEntries
  /\ \A id \in DOMAIN g_starts : g_starts[id] < MaxDuration
  /\ g_starts' = [id \in DOMAIN g_starts |-> g_starts[id] + 1]
  /\ UNCHANGED <<g_windows, g_last_values, durations>>

ProfilerNext ==
  \/ \E id \in Ids : tic(id) \/ toc(id)
  \/ Elapse

ProfilerSpec == ProfilerInit /\ [][ProfilerNext]_profilerVars

getStats(id) ==
  IF id \notin DOMAIN g_windows
  THEN [count |-> 0, total |-> 0, min |-> 0, max |-> 0, last |-> 0, dev |-> 0]
  ELSE LET w == g_windows[id]
       IN  [count |-> w.size, total |-> w.sum, min |-> min(w), max |-> max(w),
            last |-> g_last_values[id], dev |-> stddev(w)]

-----------------------------------------------------------------------------
(* The statistics of every id are those of its own last durations, however *)
(* the stretches overlap and restart (profiler.hpp:43-95,                  *)
(* numerical_moving_window.tpp).                                           *)
StatsAreExact ==
  \A id \in Ids :
    IF durations[id] = <<>> THEN getStats(id).count = 0
    ELSE /\ IsWindowOf(g_windows[id], durations[id])
         /\ getStats(id).last = Last(durations[id])
=============================================================================
