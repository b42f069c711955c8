---------------------------- MODULE MCCrossShard ----------------------------
(***************************************************************************)
(* Two exports of one account, deadlines of one or two blocks, one failing *)
(* snapshot write, and a fact ledger that holds one fact.                  *)
(***************************************************************************)
EXTENDS CrossShard
=============================================================================
