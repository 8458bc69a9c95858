--------------------------- MODULE MCControlLayer ---------------------------
EXTENDS ControlLayer, TLC

CONSTANTS trot, jump, p1, p2, p3

(* Process identifiers are interchangeable.                                *)
PidSymmetry == Permutations(Pid)
=============================================================================
