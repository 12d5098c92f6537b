--------------------------- MODULE MCNonceManager ---------------------------
(* Instances of NonceManager for TLC.                                      *)
EXTENDS NonceManager, TLC

CONSTANTS g1, g2

Sym == Permutations(Threads)
=============================================================================
