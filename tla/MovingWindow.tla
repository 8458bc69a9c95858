---------------------------- MODULE MovingWindow ----------------------------
(***************************************************************************)
(* NumericalMovingWindow (modules/utils): a circular buffer of the last    *)
(* samples, clamped at 0, with running sums and extrema.  Samples are      *)
(* integers; a mean is compared as a sum and a count.                      *)
(***************************************************************************)
EXTENDS Integers, Sequences, SequencesExt

NumericalMovingWindow(capacity) ==
  [capacity |-> capacity, data |-> [i \in 0..(capacity - 1) |-> 0],
   size |-> 0, head |-> 0, sum |-> 0, sumSq |-> 0, max |-> 0, min |-> 0]

Held(w) == {w.data[(w.head + i) % w.capacity] : i \in 0..(w.size - 1)}

recomputeExtrema(w) == [w EXCEPT !.max = Max(Held(w)), !.min = Min(Held(w))]

(* A window that is not full writes behind its last sample.                *)
Extend(w, v) ==
  [w EXCEPT !.data[(w.head + w.size) % w.capacity] = v,
            !.size = @ + 1,
            !.sum = @ + v, !.sumSq = @ + v * v,
            !.max = IF w.size = 0 \/ v > @ THEN v ELSE @,
            !.min = IF w.size = 0 \/ v < @ THEN v ELSE @]

(* Fault: the extrema are not recomputed when one is overwritten.          *)
OverwriteKeepingExtrema(w, v) ==
  [w EXCEPT !.data[w.head] = v,
            !.head = (@ + 1) % w.capacity,
            !.sum = @ - w.data[w.head] + v,
            !.sumSq = @ - w.data[w.head] * w.data[w.head] + v * v,
            !.max = IF v > @ THEN v ELSE @,
            !.min = IF v < @ THEN v ELSE @]

(* A full one replaces its oldest sample; the extrema are recomputed only  *)
(* when that sample was one of them.                                       *)
Overwrite(w, v) ==
  LET old == w.data[w.head]
      written == [w EXCEPT !.data[w.head] = v,
                           !.head = (@ + 1) % w.capacity,
                           !.sum = @ - old + v,
                           !.sumSq = @ - old * old + v * v]
  IN  IF old \in {w.min, w.max} THEN recomputeExtrema(written)
      ELSE [written EXCEPT !.max = IF v > @ THEN v ELSE @,
                           !.min = IF v < @ THEN v ELSE @]

push(w, value) ==
  LET v == Max({value, 0})
  IN  IF w.capacity = 0 THEN w
      ELSE IF w.size < w.capacity THEN Extend(w, v)
      ELSE Overwrite(w, v)

(* The extrema wait for the next push.                                     *)
clear(w) == [w EXCEPT !.size = 0, !.head = 0, !.sum = 0, !.sumSq = 0]

MeanExceeds(w, limit) == w.size > 0 /\ w.sum > limit * w.size
max(w) == IF w.size = 0 THEN 0 ELSE w.max
min(w) == IF w.size = 0 THEN 0 ELSE w.min

(* n * (n - 1) times the square of the standard deviation.                 *)
stddev(w) == IF w.size <= 1 THEN 0 ELSE w.size * w.sumSq - w.sum * w.sum
-----------------------------------------------------------------------------
(* The last n elements.                                                    *)
Latest(s, n) == SubSeq(s, Max({1, Len(s) - n + 1}), Len(s))

(* The sums of the first elements, of all of them, and of their squares.   *)
Sums(s) ==
  LET sum[k \in 0 .. Len(s)] == IF k = 0 THEN 0 ELSE sum[k - 1] + s[k] IN sum
Total(s) == Sums(s)[Len(s)]
Squared(s) == [i \in DOMAIN s |-> s[i] * s[i]]
Squares(s) == Total(Squared(s))

(* The values that a function has on the first n numbers, in their order.  *)
InOrder(value, n) ==
  LET first[k \in 0 .. n] ==
        IF k = 0 THEN <<>>
        ELSE IF k \in DOMAIN value THEN Append(first[k - 1], value[k])
        ELSE first[k - 1]
  IN  first[n]

(* A window holds what the last samples give.                              *)
IsWindowOf(w, samples) ==
  LET last == Latest(samples, w.capacity)
  IN  /\ w.size = Len(last)
      /\ w.sum = Total(last)
      /\ stddev(w) = IF Len(last) <= 1 THEN 0
                     ELSE Len(last) * Squares(last) - Total(last) * Total(last)
      /\ last # <<>> => max(w) = Max(ToSet(last)) /\ min(w) = Min(ToSet(last))
=============================================================================
