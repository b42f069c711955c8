------------------------------- MODULE Chain -------------------------------
(***************************************************************************)
(* What the two models of one shard's chain have in common: Ledger, which  *)
(* follows a block step by step, and SealLoop, which seals blocks at once  *)
(* out of what the node has queued (pwm-core/src/chain.rs).                *)
(***************************************************************************)
EXTENDS LedgerOps

CONSTANTS Txs,        \* the signed transactions that may arrive
          Start,      \* the ledger the run starts from
          MaxHeight   \* bound: no block above this height

ASSUME TxsAssumption == \A tx \in Txs : IsTransaction(tx)
ASSUME MaxHeightAssumption == MaxHeight \in Nat

\* No account is final and nothing is queued or in escrow when the run starts.
ASSUME StartAssumption ==
    /\ IsLedger(Start)
    /\ Start.fin = {} /\ Start.pend = {} /\ Start.imported = {}
    /\ DOMAIN Start.locks = {} /\ DOMAIN Start.exported = {}

VARIABLES height,   \* canonical_h, the sealed tip
          l         \* the ledger: Chain::st, or the clone a block is built on

\* Inclusion height of the block under construction.
H == height + 1
=============================================================================
