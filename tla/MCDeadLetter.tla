---------------------------- MODULE MCDeadLetter ----------------------------
(* DeadLetter on small instances; each cfg sets the constants.             *)
EXTENDS DeadLetter, TLC

CONSTANTS v1, v2, p1, p2

Symmetry == Permutations(Runs) \cup Permutations(Events)
=============================================================================
