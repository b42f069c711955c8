---------------------------- MODULE MCLiveSync ----------------------------
(* A peer on the common chain and one that left it at its second block.    *)
EXTENDS LiveSync, TLC

CONSTANTS a, b

MCMaxQueue == (a :> 2) @@ (b :> 1)
MCMaxH == (a :> 3) @@ (b :> 2)
=============================================================================
