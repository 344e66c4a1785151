---------------------------- MODULE MCUnitOfWork ----------------------------
(* UnitOfWork on small instances; each cfg sets the constants.             *)
EXTENDS UnitOfWork, TLC

CONSTANTS l1, l2, l3

Symmetry == Permutations(Listeners)
=============================================================================
