------------------------------ MODULE MCService ------------------------------
EXTENDS Service

CONSTANTS c1, c2, k1, v1, v2

MCMaxCalls == [c \in Client |-> IF c \in Timed THEN 2 ELSE 1]
=============================================================================
