------------------------------ MODULE MCLedger ------------------------------
(* Instances of Ledger for TLC: the scenarios and the transactions of each. *)
EXTENDS Ledger, MCTxs, TLC

HiPair == [a \in {"c", "b"} |-> 1]

NoFacts == <<>>

-----------------------------------------------------------------------------
(* Conservation, emergency, escrow and epochs together.  c queues its      *)
(* transfers to b, which exports to d in the other domain of this chain;   *)
(* either can be finalized in favour of r, with a row queued or a lock     *)
(* open.  d may import the export here before the lock times out; an       *)
(* export of y, on another chain, comes in with its provenance and may be  *)
(* tried twice.  r and d are the validators, n is not registered.          *)

HiTwo == [a \in {"c", "b", "r", "d", "n", "y"} |-> IF a = "d" THEN 2 ELSE 1]

MixedStart ==
    LedgerOf({"c", "b", "r", "d", "n"}, {"c", "b", "r", "d"},
             [c |-> 5, b |-> 3, r |-> 3, d |-> 2, n |-> 0],
             [c |-> 1, b |-> 1, r |-> 2, d |-> 1, n |-> 0],
             [c |-> "r", b |-> "r"], {1, 2})

FromB == [to |-> "d", hi |-> 2, amount |-> 2]
FromY == [to |-> "b", hi |-> 1, amount |-> 3]

MixedFacts == (<<"y", 0>> :> FromY)

MixedTxs ==
    TransfersOf("c", "b", 1, 1, {}, 1..2)
    \cup TransfersOf("b", "c", 1, 0, {}, {1})
    \cup AmountsOf("stake", "c", 2, {1})
    \cup AmountsOf("unstake", "d", 1, 0..1)
    \cup PoliciesOf("c", ActivatePolicy(Redirect), "r", 0, RescueCosign("r"), 1..2)
    \cup PoliciesOf("b", ActivatePolicy(Redirect), "r", 0, RescueCosign("r"), 1..2)
    \cup PoliciesOf("b", SetPolicy("sender_filter", Deferred(2)), "b", 1, {}, {1})
    \cup ExportsOf("b", "d", 2, 2, 0, 1..2)
    \cup ImportsOf("d", <<"b", 1>>, "d", 2, {FromB}, 0..1)
    \cup ImportsOf("r", <<"y", 0>>, "b", 3, {FromY}, 0..1)
    \cup InitsOf("n", {"b"}, [p \in {Redirect} |-> Dormant])
    \cup PlainsOf("claim", "d", {0})
    \cup PlainsOf("burn", "n", {1})

MixedValidators == <<"r", "d">>

-----------------------------------------------------------------------------
(* A conservation account that is itself the rescue account of its         *)
(* recipient: c pays b, and b is finalized in favour of c meanwhile.       *)

SelfRescueStart ==
    LedgerOf({"c", "b"}, {"c", "b"}, [c |-> 5, b |-> 1], [c |-> 0, b |-> 1],
             [a \in {"b"} |-> "c"], {1})

SelfRescueTxs ==
    TransfersOf("c", "b", 2, 1, {}, 0..1)
    \cup PoliciesOf("b", ActivatePolicy(Redirect), "c", 0, RescueCosign("c"), {1})

SelfRescueValidators == <<"b">>
=============================================================================
