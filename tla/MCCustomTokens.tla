--------------------------- MODULE MCCustomTokens ---------------------------
(* Instances of CustomTokens for TLC.                                      *)
EXTENDS CustomTokens, TLC

CONSTANTS pa, pb, a1, a2, b1, lrc, foo, bar, x0, x1, x2

OneEach == (a1 :> pa) @@ (b1 :> pb)
TwoInOne == (a1 :> pa) @@ (a2 :> pa)
TwoAndOne == (a1 :> pa) @@ (a2 :> pa) @@ (b1 :> pb)
Market == {<<lrc, x0>>}
=============================================================================
