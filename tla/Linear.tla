------------------------------- MODULE Linear -------------------------------
(***************************************************************************)
(* The part of Eigen that modules/math uses, over the integers: vectors    *)
(* are tuples, matrices tuples of rows, indices start at 1.                *)
(***************************************************************************)
EXTENDS Integers, Sequences

Neg(v) == [i \in DOMAIN v |-> -v[i]]
Add(u, v) == [i \in DOMAIN u |-> u[i] + v[i]]
Times(k, v) == [i \in DOMAIN v |-> k * v[i]]
Dot(u, v) == IF Len(u) = 3 THEN u[1]*v[1] + u[2]*v[2] + u[3]*v[3]
             ELSE u[1]*v[1] + u[2]*v[2] + u[3]*v[3] + u[4]*v[4]
Cross(u, v) == <<u[2]*v[3] - u[3]*v[2], u[3]*v[1] - u[1]*v[3], u[1]*v[2] - u[2]*v[1]>>

Transposed(A) == [i \in DOMAIN A[1] |-> [j \in DOMAIN A |-> A[j][i]]]
Apply(A, v) == [i \in DOMAIN A |-> Dot(A[i], v)]
Product(A, B) == Transposed([j \in DOMAIN B |-> Apply(A, Transposed(B)[j])])
Trace(A) == A[1][1] + A[2][2] + A[3][3]
Identity == <<<<1, 0, 0>>, <<0, 1, 0>>, <<0, 0, 1>>>>
Zero == <<0, 0, 0>>

(* The shortest integer vector on the ray of v (components up to 8).       *)
Shortest(v) ==
  LET Divides(k) == \A i \in DOMAIN v : v[i] % k = 0
      g == CHOOSE k \in 1..8 : Divides(k) /\ \A m \in (k + 1)..8 : ~ Divides(m)
  IN  [i \in DOMAIN v |-> v[i] \div g]
=============================================================================
