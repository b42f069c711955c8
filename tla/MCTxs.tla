------------------------------- MODULE MCTxs -------------------------------
(* Signed transactions and starting ledgers for the instances of Ledger    *)
(* and of the modules built on it.                                         *)
EXTENDS Policy

\* Transactions, by type, with the nonces in ns.
TransfersOf(a, to, amount, fee, cos, ns) ==
    {[type |-> "transfer", from |-> a, nonce |-> n, cosigns |-> cos, to |-> to,
      amount |-> amount, fee |-> fee] : n \in ns}

AmountsOf(type, a, amount, ns) ==
    {[type |-> type, from |-> a, nonce |-> n, cosigns |-> {}, amount |-> amount] :
        n \in ns}

PlainsOf(type, a, ns) ==
    {[type |-> type, from |-> a, nonce |-> n, cosigns |-> {}] : n \in ns}

ExportsOf(a, to, hi, amount, fee, ns) ==
    {[type |-> "export", from |-> a, nonce |-> n, cosigns |-> {}, to |-> to,
      hi |-> hi, amount |-> amount, fee |-> fee] : n \in ns}

ImportsOf(a, id, to, amount, prov, ns) ==
    {[type |-> "import", from |-> a, nonce |-> n, cosigns |-> {}, id |-> id,
      to |-> to, amount |-> amount, fee |-> 1, provenance |-> prov] : n \in ns}

PoliciesOf(a, action, target, fee, cos, ns) ==
    {[type |-> "policy", from |-> a, nonce |-> n, cosigns |-> cos,
      action |-> action, target |-> target, fee |-> fee] : n \in ns}

InitsOf(a, rescue, modes) ==
    {[type |-> "init", from |-> a, nonce |-> 0, cosigns |-> {}, rescue |-> rescue,
      modes |-> modes]}

RescueCosign(r)  == {[role |-> "rescue", signer |-> r]}
WitnessCosign(r) == {[role |-> "witness", signer |-> r]}

\* A ledger after genesis and the registrations of the accounts in rescues,
\* whose redirect is dormant; each of them has spent nonce 0 on its Init.
LedgerOf(accounts, open, bal, stake, rescues, active) ==
    [open |-> open, fin |-> {}, bal |-> bal, stake |-> stake,
     nonce |-> [a \in accounts |-> IF a \in DOMAIN rescues THEN 1 ELSE 0],
     pol |-> [a \in accounts |->
                IF a \in DOMAIN rescues
                THEN [NoPolicies EXCEPT !.dormant = {Redirect}] ELSE NoPolicies],
     rescue |-> rescues, claimed |-> {}, fees |-> 0, pend |-> {},
     locks |-> <<>>, exported |-> <<>>, imported |-> {}, active |-> active]
=============================================================================
