-------------------------- MODULE MCWalletTransfers --------------------------
(* WalletTransfers on small instances; each cfg sets the constants.        *)
EXTENDS WalletTransfers

CONSTANTS w1, w2, t1

=============================================================================
