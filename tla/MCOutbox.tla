------------------------------ MODULE MCOutbox ------------------------------
(* Outbox on small instances; each cfg sets the constants.                 *)
EXTENDS Outbox, TLC

CONSTANTS p1, p2

Symmetry == Permutations(Runs)
=============================================================================
