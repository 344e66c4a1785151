---------------------------- MODULE MCIdempotency ----------------------------
(* Idempotency on small instances; each cfg sets the constants.            *)
EXTENDS Idempotency, TLC

CONSTANTS k1, k2, c1, c2, c3

Symmetry == Permutations({k1, k2} \cap Keys) \cup Permutations(Calls)
=============================================================================
