------------------------------ MODULE LedgerOps ------------------------------
(***************************************************************************)
(* The state of one shard and the pure functions the chain is built from:  *)
(* pwm-core/src/state.rs (State, apply_tx_impl, refund_exp_locks,          *)
(* drain_conservation_at_height, reward_producer_v2) and the epoch and     *)
(* producer functions of pwm-core/src/chain.rs.                            *)
(*                                                                         *)
(* A ledger is a record l:                                                 *)
(*   open      the initialized accounts                                    *)
(*   fin       the finalized ones                                          *)
(*   bal, stake, nonce, pol    one value per account                       *)
(*   rescue    the rescue address of the accounts that named one           *)
(*   claimed   the accounts whose ipv4_claimed_phase is set                *)
(*   fees      fee_pool                                                    *)
(*   pend      pending_conservation; its rows carry the height at which    *)
(*             they fall due, which orders them as the vector does         *)
(*   locks     cross_shard_locks, by export id                             *)
(*   exported  exported_registry, by export id                             *)
(*   imported  imported_set                                                *)
(*   active    active_validator_indices, which the code keeps increasing   *)
(*                                                                         *)
(* A handler that returns a Result is the set of ledgers it can leave:     *)
(* empty when it returns an error.  Signatures are taken as verified and   *)
(* amounts stay far below 2^128.  Marks are not part of the ledger here.   *)
(***************************************************************************)
EXTENDS Policy, FiniteSets, Sequences

CONSTANTS Accounts,     \* accounts of this shard
          Foreign,      \* accounts of other shards
          Hi,           \* high byte of the domain of an account
          CosignFlag,   \* accounts with COSIGN_NON_DISABLEABLE
          ConservFlag,  \* accounts with CONSERVATION
          Validators,   \* cfg.vals.set, a sequence of accounts
          MinStake,     \* cfg.min_validator_stake
          EpochLength,  \* cfg.epoch_length_blocks
          ConservDelay, \* cfg.conservation_delay_blocks
          LockTimeout,  \* cfg.xshard_lock_to_blocks
          MinImportFee, \* MIN_IMPORT_FEE_UNITS
          Allocation,   \* allocation of the only claim phase
          Reward,       \* compute_block_reward of any height
          RewardStake   \* cfg.pwm_stake_min

ASSUME AccountsAssumption ==
    /\ Accounts \cap Foreign = {}
    /\ Hi \in [Accounts \cup Foreign -> Nat]
    /\ CosignFlag \subseteq Accounts
    /\ ConservFlag \subseteq Accounts

\* A state holds its accounts in memory.
ASSUME FiniteAssumption == IsFiniteSet(Accounts)

ASSUME ValidatorsAssumption == Validators \in Seq(Accounts)

ASSUME ParametersAssumption ==
    {MinStake, EpochLength, ConservDelay, LockTimeout, MinImportFee,
     Allocation, Reward, RewardStake} \subseteq Nat

-----------------------------------------------------------------------------
(* Rows of the ledger                                                      *)

\* The id of an export hashes the transaction, which holds signer and nonce.
ExportIds == (Accounts \cup Foreign) \X Nat

ExportId(tx) == <<tx.from, tx.nonce>>

PendingRows == [sender: Accounts, to: Accounts, amount: Nat, fee: Nat,
                nonce: Nat, at: Nat]

LockRows == [sender: Accounts, amount: Nat, unlock: Nat,
             state: {"Locked", "Released", "Refunded"}]

Provenances == [to: Accounts \cup Foreign, hi: Nat, amount: Nat]

\* s, if it is a record of these fields.
AsLedger(s) ==
    [open |-> s.open, fin |-> s.fin, bal |-> s.bal, stake |-> s.stake,
     nonce |-> s.nonce, pol |-> s.pol, rescue |-> s.rescue,
     claimed |-> s.claimed, fees |-> s.fees, pend |-> s.pend,
     locks |-> s.locks, exported |-> s.exported, imported |-> s.imported,
     active |-> s.active]

IsLedger(s) ==
    /\ s = AsLedger(s)
    /\ s.open \subseteq Accounts
    /\ s.fin \subseteq Accounts
    /\ s.bal \in [Accounts -> Nat]
    /\ s.stake \in [Accounts -> Nat]
    /\ s.nonce \in [Accounts -> Nat]
    /\ s.pol \in [Accounts -> PolicySets]
    /\ DOMAIN s.rescue \subseteq Accounts
    /\ \A a \in DOMAIN s.rescue : s.rescue[a] \in Accounts
    /\ s.claimed \subseteq Accounts
    /\ s.fees \in Nat
    /\ s.pend \subseteq PendingRows
    /\ DOMAIN s.locks \subseteq ExportIds
    /\ \A id \in DOMAIN s.locks : s.locks[id] \in LockRows
    /\ DOMAIN s.exported \subseteq ExportIds
    /\ \A id \in DOMAIN s.exported : s.exported[id] \in Provenances
    /\ s.imported \subseteq ExportIds
    /\ s.active \subseteq DOMAIN Validators

(* Signed transactions.  A cosignature carries a role; the identity of the *)
(* key behind it is the account it belongs to.  A transaction of any other *)
(* shape is refused by validate_tx_shape before it reaches a state.  An    *)
(* Init names at most one rescue account, an Import brings at most one     *)
(* provenance record.                                                      *)

Cosignatures == [role: {"rescue", "witness"}, signer: Accounts]

TxTypes == {"init", "transfer", "stake", "unstake", "burn", "claim",
            "export", "import", "policy"}

IsTransaction(tx) ==
    /\ tx.type \in TxTypes
    /\ tx.from \in Accounts
    /\ tx.nonce \in Nat
    /\ tx.cosigns \subseteq Cosignatures
    /\ tx.type = "init" => /\ tx.rescue \subseteq Accounts
                           /\ DOMAIN tx.modes \subseteq PolicyKinds
                           /\ \A p \in DOMAIN tx.modes : tx.modes[p] \in ActivationModes
    /\ tx.type \in {"transfer", "stake", "unstake", "export", "import"} => tx.amount \in Nat
    /\ tx.type \in {"transfer", "export", "import", "policy"} => tx.fee \in Nat
    /\ tx.type \in {"transfer", "import"} => tx.to \in Accounts
    /\ tx.type = "export" => tx.to \in Accounts \cup Foreign /\ tx.hi \in Nat
    /\ tx.type = "import" => tx.id \in ExportIds /\ tx.provenance \subseteq Provenances
    /\ tx.type = "policy" => tx.action \in PolicyActions /\ tx.target \in Accounts

\* The function f with x mapped to v.
Put(f, x, v) == [y \in DOMAIN f \cup {x} |-> IF y = x THEN v ELSE f[y]]

\* One value of f, a balance, a stake or a nonce, raised or lowered by x.
Plus(f, a, x)  == [f EXCEPT ![a] = @ + x]
Minus(f, a, x) == [f EXCEPT ![a] = @ - x]

\* x of the balances b moves from one account to another, f leaves as a fee.
Moved(b, from, to, x, f) == Plus(Minus(b, from, x + f), to, x)

SameHi(a, b) == Hi[a] = Hi[b]

HasPending(l, a) == \E row \in l.pend : row.sender = a

-----------------------------------------------------------------------------
(* The policy gates.  A routing is a set with the one account to credit,   *)
(* or the empty set when the transfer is refused.                          *)

\* eval_emerg_redirect
RescueOf(l, sender, a) ==
    IF /\ a \in DOMAIN l.rescue
       /\ l.rescue[a] \in l.open
       /\ SameHi(sender, l.rescue[a])
    THEN {l.rescue[a]} ELSE {}

\* The recipient's policies in evaluate_policy and conservation_recipient_dst.
RouteTo(l, sender, to, h) ==
    IF to \in l.fin /\ ActiveAt(l.pol[to], Redirect, h)
    THEN RescueOf(l, sender, to)
    ELSE IF \/ ActiveAt(l.pol[to], "same_domain", h) /\ ~SameHi(sender, to)
            \/ ActiveAt(l.pol[to], "sender_filter", h) /\ sender # to
            \/ ActiveAt(l.pol[to], "default", h)
    THEN {} ELSE {to}

\* is_finalized_blocked
FinalizedBlocks(l, tx) ==
    CASE tx.type = "init"   -> FALSE
      [] tx.type = "policy" -> ~FinalizedAllows(l.pol[tx.from], tx.action)
      [] OTHER              -> TRUE

\* The cosign gates of evaluate_policy; Policy transactions target their sender.
CosignMissing(l, tx, h) ==
    /\ tx.cosigns = {}
    /\ \/ tx.from \in CosignFlag /\ tx.type \in {"transfer", "policy"}
       \/ tx.type = "policy" /\ ActiveAt(l.pol[tx.from], "cosign", h)

\* evaluate_policy on the sender's side, for every body.
SenderAllowed(l, tx, h) ==
    /\ ~(tx.from \in l.fin /\ FinalizedBlocks(l, tx))
    /\ ~CosignMissing(l, tx, h)

\* Fault: only policy transactions are held back.
ConflictsWithPendingPolicy(tx) == tx.type = "policy" /\ ~IsEmergency(tx.action)

\* pending_tx_conflict: what a sender with a queued transfer may not do.
ConflictsWithPending(tx) ==
    /\ tx.type # "transfer"
    /\ tx.type = "policy" => ~IsEmergency(tx.action)

-----------------------------------------------------------------------------
(* The bodies of apply_tx_impl.                                            *)

InitAccount(l, tx, h) ==
    {[l EXCEPT !.open = @ \cup {tx.from},
               !.nonce = Plus(@, tx.from, 1),
               !.pol = Put(@, tx.from, SetPolModes(@[tx.from], tx.modes, h)),
               !.rescue = res] :
        res \in {q \in IF tx.rescue = {} THEN {l.rescue}
                       ELSE {Put(l.rescue, tx.from, a) : a \in tx.rescue} :
                   tx.from \notin l.open}}

\* Debit, then credit the recipient, the sender itself included.
Pay(l, tx, dst) ==
    [l EXCEPT !.nonce = Plus(@, tx.from, 1),
              !.fees = @ + tx.fee,
              !.bal = Moved(@, tx.from, dst, tx.amount, tx.fee)]

\* A conservation account only queues: neither its balance nor its nonce moves.
Enqueue(l, tx, dst, h) ==
    [l EXCEPT !.pend = @ \cup
        {[sender |-> tx.from, to |-> dst, amount |-> tx.amount, fee |-> tx.fee,
          nonce |-> tx.nonce, at |-> h + ConservDelay]}]

Transfer(l, tx, h, skip) ==
    {IF tx.from \in ConservFlag THEN Enqueue(l, tx, dst, h) ELSE Pay(l, tx, dst) :
        dst \in {d \in IF skip \/ tx.to \notin l.open THEN {tx.to}
                       ELSE RouteTo(l, tx.from, tx.to, h) :
                    /\ tx.from # tx.to
                    /\ d \in l.open
                    /\ l.bal[tx.from] >= tx.amount + tx.fee
                    /\ ~(tx.from \in ConservFlag /\ HasPending(l, tx.from))}}

Stake(l, tx) ==
    IF l.bal[tx.from] < tx.amount THEN {}
    ELSE {[l EXCEPT !.bal = Minus(@, tx.from, tx.amount),
                    !.stake = Plus(@, tx.from, tx.amount),
                    !.nonce = Plus(@, tx.from, 1)]}

Unstake(l, tx) ==
    IF l.stake[tx.from] < tx.amount THEN {}
    ELSE {[l EXCEPT !.stake = Minus(@, tx.from, tx.amount),
                    !.bal = Plus(@, tx.from, tx.amount),
                    !.nonce = Plus(@, tx.from, 1)]}

\* Whether the marks suffice is outside this model: the caller may try.
BurnMark(l, tx) == {[l EXCEPT !.nonce = Plus(@, tx.from, 1)]}

Claim(l, tx) ==
    IF tx.from \in l.claimed THEN {}
    ELSE {[l EXCEPT !.bal = Plus(@, tx.from, Allocation),
                    !.claimed = @ \cup {tx.from},
                    !.nonce = Plus(@, tx.from, 1)]}

\* export_context_is_valid
ExportContextValid(tx) ==
    tx.amount > 0 /\ Hi[tx.from] # tx.hi /\ Hi[tx.to] = tx.hi

Export(l, tx, h) ==
    LET id == ExportId(tx) IN
    IF ~ExportContextValid(tx) \/ l.bal[tx.from] < tx.amount + tx.fee THEN {}
    ELSE {[l EXCEPT
             !.bal = Minus(@, tx.from, tx.amount + tx.fee),
             !.nonce = Plus(@, tx.from, 1),
             !.fees = @ + tx.fee,
             !.exported = IF id \in DOMAIN @ THEN @
                          ELSE Put(@, id, [to |-> tx.to, hi |-> tx.hi,
                                           amount |-> tx.amount]),
             !.locks = IF id \in DOMAIN @ THEN @
                       ELSE Put(@, id, [sender |-> tx.from, amount |-> tx.amount,
                                        unlock |-> h + LockTimeout,
                                        state |-> "Locked"])]}

\* The record an import is compared with: the registry's, or the one it brings.
Expected(l, tx) ==
    IF tx.id \in DOMAIN l.exported
    THEN {p \in {l.exported[tx.id]} : tx.provenance \subseteq {p}}
    ELSE tx.provenance

ImportAllowed(l, tx, p) ==
    /\ tx.amount > 0 /\ SameHi(tx.to, tx.from)
    /\ tx.id \in DOMAIN l.locks => l.locks[tx.id].state # "Refunded"
    /\ tx.id \notin l.imported
    /\ p.amount = tx.amount /\ p.to = tx.to /\ p.hi = Hi[tx.from]
    /\ tx.to \in l.open
    /\ tx.fee >= MinImportFee /\ l.bal[tx.from] >= tx.fee

Import(l, tx) ==
    {[l EXCEPT
        !.bal = Plus(Minus(@, tx.from, tx.fee), tx.to, tx.amount),
        !.nonce = Plus(@, tx.from, 1),
        !.fees = @ + tx.fee,
        !.exported = Put(@, tx.id, p),
        !.locks = [id \in DOMAIN @ |->
                     IF id = tx.id /\ @[id].state = "Locked"
                     THEN [@[id] EXCEPT !.state = "Released"] ELSE @[id]],
        !.imported = @ \cup {tx.id}] :
     p \in {q \in Expected(l, tx) : ImportAllowed(l, tx, q)}}

\* validate_pol_action and the fee rules of validate_tx_shape.
PolicyTxValid(l, tx) ==
    /\ tx.from \in CosignFlag => ~WeakensCosign(tx.action)
    /\ CASE tx.action.act \in {"set", "deactivate"} -> tx.fee > 0
         [] IsEmergency(tx.action)                  -> TRUE
         [] OTHER                                   -> tx.fee = 0
    /\ IsEmergency(tx.action) =>
         /\ tx.from \in DOMAIN l.rescue
         /\ tx.target = l.rescue[tx.from]
         /\ SameHi(tx.from, tx.target)
         /\ tx.target \in l.open
         /\ [role |-> "rescue", signer |-> tx.target] \in tx.cosigns

\* Fault: the stake is paid out and stays.
EvacuateKeepingStake(l, a, target) ==
    LET swept == IF a = target THEN l
                 ELSE [l EXCEPT !.bal = Plus(Put(@, a, 0), target, l.bal[a] + l.stake[a])]
    IN [swept EXCEPT !.pend = {row \in @ : row.sender # a}]

\* The sweep of balance and stake that an emergency activation ends with.
Evacuate(l, a, target) ==
    LET swept == IF a = target THEN l
                 ELSE [l EXCEPT !.bal = Plus(Put(@, a, 0), target, l.bal[a] + l.stake[a]),
                                !.stake = Put(@, a, 0)]
    IN [swept EXCEPT !.pend = {row \in @ : row.sender # a}]

PolicyBody(l, tx, h) ==
    IF \/ ~PolicyTxValid(l, tx)
       \/ ~CanApply(l.pol[tx.from], tx.action, h)
       \/ l.bal[tx.from] < tx.fee
    THEN {}
    ELSE LET paid == [l EXCEPT !.bal = Minus(@, tx.from, tx.fee),
                               !.fees = @ + tx.fee,
                               !.nonce = Plus(@, tx.from, 1),
                               !.pol = Put(@, tx.from, Apply(@[tx.from], tx.action, h)),
                               !.fin = IF Finalizes(l.pol[tx.from], tx.action)
                                       THEN @ \cup {tx.from} ELSE @]
         IN {IF IsEmergency(tx.action) THEN Evacuate(paid, tx.from, tx.target)
             ELSE paid}

-----------------------------------------------------------------------------
(* apply_tx_impl: the checks before the body, then the body.  With skip    *)
(* (apply_prechecked_tx) the policies are not evaluated.                   *)

\* Fault: a nonce ahead of the account's is let in.
AdmittedAhead(l, tx, h, skip) ==
    /\ tx.from \in l.open \/ tx.type = "init"
    /\ tx.nonce >= l.nonce[tx.from]
    /\ skip \/ SenderAllowed(l, tx, h)
    /\ ~(HasPending(l, tx.from) /\ ConflictsWithPending(tx))

Admitted(l, tx, h, skip) ==
    /\ tx.from \in l.open \/ tx.type = "init"
    /\ tx.nonce = l.nonce[tx.from]
    /\ skip \/ SenderAllowed(l, tx, h)
    /\ ~(HasPending(l, tx.from) /\ ConflictsWithPending(tx))

Body(l, tx, h, skip) ==
    CASE tx.type = "init"     -> InitAccount(l, tx, h)
      [] tx.type = "transfer" -> Transfer(l, tx, h, skip)
      [] tx.type = "stake"    -> Stake(l, tx)
      [] tx.type = "unstake"  -> Unstake(l, tx)
      [] tx.type = "burn"     -> BurnMark(l, tx)
      [] tx.type = "claim"    -> Claim(l, tx)
      [] tx.type = "export"   -> Export(l, tx, h)
      [] tx.type = "import"   -> Import(l, tx)
      [] tx.type = "policy"   -> PolicyBody(l, tx, h)

ApplyTx(l, tx, h, skip) ==
    IF Admitted(l, tx, h, skip) THEN Body(l, tx, h, skip) ELSE {}

(* enforce_import_provenance_prefilter: an import is admitted for an export *)
(* this chain registered, or with the record of one that a handoff from its *)
(* own chain registered in facts.                                          *)
ImportKnown(l, tx, facts) ==
    /\ tx.id \notin l.imported
    /\ \E p \in IF tx.id \in DOMAIN l.exported
               THEN {q \in {l.exported[tx.id]} : tx.provenance \subseteq {q}}
               ELSE {q \in tx.provenance : tx.id \in DOMAIN facts /\ facts[tx.id] = q} :
         p.to = tx.to /\ p.amount = tx.amount /\ p.hi = Hi[tx.from]

\* Fault: the worker checks everything but the policies.
PrecheckPassesUngated(l, tx, h) == ApplyTx(l, tx, h, TRUE) # {}

(* What a precheck worker queues as validated at the tip of height h - 1:  *)
(* its policies allow it there without a redirect, and it applies at h.    *)
PrecheckPasses(l, tx, h) ==
    /\ SenderAllowed(l, tx, h - 1)
    /\ tx.type = "transfer" /\ tx.to \in l.open
         => RouteTo(l, tx.from, tx.to, h - 1) = {tx.to}
    /\ ApplyTx(l, tx, h, FALSE) # {}

-----------------------------------------------------------------------------
(* The steps of a block outside its transactions.                          *)

\* recompute_active_idxs: the validators with enough stake.
Stakers(l) == {i \in DOMAIN Validators : l.stake[Validators[i]] >= MinStake}

\* roll_epoch_if_needed
RollEpoch(l, h) ==
    IF EpochLength > 0 /\ h % EpochLength = 0
    THEN [l EXCEPT !.active = Stakers(l)] ELSE l

(* pick_prod_idx and prod_acct: the active indices take turns, in their    *)
(* order, one per height.                                                  *)
HasProducer(l) == l.active # {}
Producer(l, h) ==
    Validators[CHOOSE i \in l.active :
        Cardinality({j \in l.active : j < i}) = h % Cardinality(l.active)]

\* Fault: a lock that was released is refunded too.
ExpiredUnrefunded(l, h) ==
    {id \in DOMAIN l.locks : l.locks[id].state # "Refunded" /\ h >= l.locks[id].unlock}

\* The locks refund_exp_locks refunds, and what it does with one of them.
ExpiredLocks(l, h) ==
    {id \in DOMAIN l.locks : l.locks[id].state = "Locked" /\ h >= l.locks[id].unlock}

\* Fault: the refunded id is not consumed.
RefundLockReusable(l, id) ==
    [l EXCEPT !.bal = Plus(@, l.locks[id].sender, l.locks[id].amount),
              !.locks = Put(@, id, [@[id] EXCEPT !.state = "Refunded"])]

RefundLock(l, id) ==
    [l EXCEPT !.bal = Plus(@, l.locks[id].sender, l.locks[id].amount),
              !.locks = Put(@, id, [@[id] EXCEPT !.state = "Refunded"]),
              !.imported = @ \cup {id}]

(* apply_due_conservation: where the row's amount goes, if it can go.      *)
DrainRoutes(l, row, h) ==
    {dst \in IF row.to \in l.open THEN RouteTo(l, row.sender, row.to, h) ELSE {} :
        /\ row.sender \in l.open
        /\ l.nonce[row.sender] = row.nonce
        /\ row.sender \notin l.fin
        /\ dst \in l.open
        /\ l.bal[row.sender] >= row.amount + row.fee}

\* Fault: the sender's nonce does not move.
DrainRowSameNonce(l, row, dst) ==
    [l EXCEPT !.pend = @ \ {row},
              !.fees = @ + row.fee,
              !.bal = Put(Minus(@, row.sender, row.amount + row.fee),
                          dst, l.bal[dst] + row.amount)]

(* Both accounts are read before either is written, and the recipient is   *)
(* written last: a row routed to its own sender leaves the credited copy.  *)
DrainRow(l, row, dst) ==
    [l EXCEPT !.pend = @ \ {row},
              !.fees = @ + row.fee,
              !.bal = Put(Minus(@, row.sender, row.amount + row.fee),
                          dst, l.bal[dst] + row.amount),
              !.nonce = Put(Plus(@, row.sender, 1), dst, l.nonce[dst])]

\* reward_producer_v2: nothing for a producer whose stake fell too low.
PaidReward(l, p) ==
    IF l.stake[p] >= RewardStake THEN Reward ELSE 0

PayReward(l, p) == [l EXCEPT !.bal = Plus(@, p, PaidReward(l, p))]
=============================================================================
