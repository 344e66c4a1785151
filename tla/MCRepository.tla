---------------------------- MODULE MCRepository ----------------------------
(* Repository on small instances; each cfg sets the constants.             *)
EXTENDS Repository, TLC

CONSTANTS u1, u2, e1, e2, o1, o2, c1, c2

Symmetry ==
  Permutations(Users) \cup Permutations(Emails) \cup Permutations(Objects) \cup Permutations(Calls)
=============================================================================
