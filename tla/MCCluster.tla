----------------------------- MODULE MCCluster -----------------------------
(* Two proposers that take turns and the attester they share.              *)
EXTENDS Cluster

CONSTANTS p1, p2, a1

MCTurns == <<p1, p2>>
=============================================================================
