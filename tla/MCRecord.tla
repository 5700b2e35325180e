------------------------------ MODULE MCRecord ------------------------------
(* Model checking Record: two processes race for a directory and a name.   *)
EXTENDS Record, TLC

CONSTANTS p1, p2
MCProc == {p1, p2}
MCSymmetry == Permutations(MCProc)
=============================================================================
