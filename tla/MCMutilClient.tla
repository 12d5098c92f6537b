---------------------------- MODULE MCMutilClient ---------------------------
(* Instances of MutilClient for TLC.                                       *)
EXTENDS MutilClient, TLC

CONSTANTS pa, u1, u2

\* Only u1 is configured; pa learns of u2 from Redis, if it does.
One == pa :> {u1}
=============================================================================
