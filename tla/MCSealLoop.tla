----------------------------- MODULE MCSealLoop -----------------------------
(* An instance of SealLoop for TLC: b may be finalized in favour of r, or  *)
(* filter its senders from height 2 on, while k, whose transfers need a    *)
(* cosignature and wait for a block, pays it; p, of another hi, may lock   *)
(* an export, whose import by b comes when the lock is due, while that of  *)
(* an export of y, on another chain, comes in time; r, the only validator, *)
(* may withdraw its stake.                                                 *)
EXTENDS SealLoop, MCTxs, TLC

LoopAccounts == {"b", "r", "p", "k"}

HiLoop == [a \in LoopAccounts \cup {"y"} |-> IF a = "p" THEN 2 ELSE 1]

LoopStart ==
    LedgerOf(LoopAccounts, LoopAccounts,
             [b |-> 2, r |-> 2, p |-> 2, k |-> 2], [b |-> 0, r |-> 1, p |-> 0, k |-> 0],
             [a \in {"b"} |-> "r"], {1})

LoopTxs ==
    TransfersOf("k", "b", 1, 0, WitnessCosign("r"), 0..1)
    \cup PoliciesOf("b", ActivatePolicy(Redirect), "r", 0, RescueCosign("r"), {1})
    \cup PoliciesOf("b", SetPolicy("sender_filter", Deferred(2)), "b", 1, {}, {1})
    \cup AmountsOf("unstake", "r", 1, {0})
    \cup ExportsOf("p", "b", 1, 1, 0, {0})
    \cup ImportsOf("b", <<"p", 0>>, "b", 1, {}, {1})
    \cup ImportsOf("b", <<"y", 0>>, "b", 1, {[to |-> "b", hi |-> 1, amount |-> 1]}, {1})

LoopValidators == <<"r">>
=============================================================================
