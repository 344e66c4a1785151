----------------------------- MODULE MCMessaging -----------------------------
(* Messaging on small instances; each cfg sets the constants.              *)
EXTENDS Messaging, TLC

CONSTANTS p1, p2, h1, h2, m1, m2, n1, n2

Symmetry == Permutations(Processes) \cup Permutations(Handlers)
            \cup Permutations(Messages) \cup Permutations(Names)
=============================================================================
