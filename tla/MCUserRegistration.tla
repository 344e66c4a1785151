------------------------- MODULE MCUserRegistration -------------------------
(* UserRegistration on small instances; each cfg sets the constants.       *)
EXTENDS UserRegistration, TLC

CONSTANTS r1, r2, d1, d2, e1, e2

Symmetry == Permutations({r1, r2}) \cup Permutations({e1, e2}) \cup Permutations({d1, d2})
=============================================================================
