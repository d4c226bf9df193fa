--------------------------- MODULE MCSubscriptions ---------------------------
EXTENDS Subscriptions

CONSTANTS A, B, pa1, pa2, pb1

MCPoolMint == (pa1 :> A) @@ (pa2 :> A) @@ (pb1 :> B)
=============================================================================
