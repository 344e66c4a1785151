------------------------- MODULE MCDecoratedCalls -------------------------
(* Two calls, one of which may fill the cache for the other.              *)
EXTENDS DecoratedCalls, TLC

CONSTANTS c1, c2
=============================================================================
