----------------------------- MODULE AtomicStore -----------------------------
(***************************************************************************)
(* What the parameter store of DLS2 promises: reads and writes are atomic, *)
(* and an answer tells what the store holds at that moment.  Whether a     *)
(* write updates a parameter that exists is left open: the comment at      *)
(* parameter_server.cpp:30 says that it does, the emplace below it keeps   *)
(* the old value, and in both cases the answer tells the value that is     *)
(* stored.  Service implements it.                                         *)
(***************************************************************************)
CONSTANTS Key, Value, NoValue

VARIABLES
  store,      \* store[k]: the value of the parameter k, or NoValue
  answers     \* every answer given so far

Found(k, v) == [key |-> k, value |-> v, rw |-> TRUE]
NotFound(k) == [key |-> k, value |-> NoValue, rw |-> FALSE]

Init == store = [k \in Key |-> NoValue] /\ answers = {}

\* What the parameter k can be after v was written: a new parameter is v, one
\* that exists is updated or keeps its value.
Written(k, v) == {v} \cup ({store[k]} \ {NoValue})

\* A parameter is written and nobody is told.
Put(k, v) ==
  /\ \E w \in Written(k, v) : store' = [store EXCEPT ![k] = w]
  /\ UNCHANGED answers

\* A parameter is written, and what it is now is told.
Write(k, v) ==
  \E w \in Written(k, v) :
    /\ store' = [store EXCEPT ![k] = w]
    /\ answers' = answers \cup {Found(k, w)}

\* A parameter is read.
Read(k) ==
  /\ answers' = answers \cup {IF store[k] = NoValue THEN NotFound(k) ELSE Found(k, store[k])}
  /\ UNCHANGED store

Next == \E k \in Key : Read(k) \/ \E v \in Value : Put(k, v) \/ Write(k, v)

Spec == Init /\ [][Next]_<<store, answers>>
=============================================================================
