----------------------------- MODULE MCSessions -----------------------------
(* Sessions on small instances; each cfg sets the constants.               *)
EXTENDS Sessions, TLC

CONSTANTS u1, u2, t1, t2, t3, t4, c1, c2, c3, c4

Symmetry == Permutations(Tokens) \cup Permutations(Calls) \cup Permutations(Users)
=============================================================================
