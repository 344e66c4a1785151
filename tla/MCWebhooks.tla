----------------------------- MODULE MCWebhooks -----------------------------
(* Webhooks on a small instance; the cfg sets the constants.               *)
EXTENDS Webhooks

CONSTANTS s1, s2, s3
=============================================================================
