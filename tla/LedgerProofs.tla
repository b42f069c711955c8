---------------------------- MODULE LedgerProofs ----------------------------
(***************************************************************************)
(* Proofs about the specifications of Ledger and SealLoop, which follow    *)
(* the same ledger, for every finite set of accounts, every set of signed  *)
(* transactions and every admissible start.  Of a block's steps (Ledger):  *)
(* its types, what a finalized account keeps, that a queued conservation   *)
(* transfer can be executed, that an escrowed value is handed out once,    *)
(* that the chain implements the escrow of ModeB, and, unless a due row    *)
(* comes back to its sender, that value is conserved and that a row which  *)
(* leaves the queue consumes its nonce.  Of the loop (SealLoop): its       *)
(* types, that a sender loses a transaction only through its own, that a   *)
(* failing batch has a culprit, refunds apart, and what can lose a         *)
(* follower.                                                               *)
(*                                                                         *)
(* First come the operators of LedgerOps: for each of them the fields of a *)
(* ledger it changes and their new values (the Effect lemmas), and that a  *)
(* ledger stays a ledger (the Type lemmas).  Then the steps of Ledger are  *)
(* reduced to six kinds of change of the ledger (StepCases); every         *)
(* invariant is proved by these six cases, from the outcomes of the        *)
(* operators.  Every step of a block is shown to open one lock, release    *)
(* one, refund one or leave the locks as they are.  Next come sums over    *)
(* finite functions, and what each step adds to the supply.                *)
(*                                                                         *)
(* The blocks of SealLoop are folds; these come next, as functions on the  *)
(* subsets of what is folded over.  A block is then seen entry by entry:   *)
(* what it keeps (Grown), what the search reaches along with it (Alike,    *)
(* and EscrowAlike for the locks the block refunds), and what a block      *)
(* without its workers' checks does (SamePolicies).                        *)
(***************************************************************************)
EXTENDS Ledger, SealLoop, FiniteSetTheorems, WellFoundedInduction, TLAPS

Fields == {"open", "fin", "bal", "stake", "nonce", "pol", "rescue", "claimed",
           "fees", "pend", "locks", "exported", "imported", "active"}

\* m is a ledger record that differs from s in the fields fs at most.
Changes(s, m, fs) == m = AsLedger(m) /\ \A f \in Fields \ fs : m[f] = s[f]

-----------------------------------------------------------------------------
(* What the policy operators do to the policy fields of an account.        *)

(* set_pol_mode leaves well-formed policy fields.                          *)
LEMMA SetPolModesType ==
  ASSUME NEW p \in PolicySets, NEW modes, DOMAIN modes \subseteq PolicyKinds,
         \A k \in DOMAIN modes : modes[k] \in ActivationModes, NEW h \in Nat
  PROVE  SetPolModes(p, modes, h) \in PolicySets
<1>1. \A q \in DOMAIN modes : modes[q].at \in Nat
  BY DEF ActivationModes
<1> QED
  BY <1>1 DEF SetPolModes, PolicySets

(* apply_policy_action leaves well-formed policy fields.                   *)
LEMMA ApplyType ==
  ASSUME NEW p \in PolicySets, NEW a \in PolicyActions, NEW h \in Nat
  PROVE  Apply(p, a, h) \in PolicySets
<1>1. a.policy \in PolicyKinds /\ a.mode \in ActivationModes
      /\ a.act \in {"set", "activate", "deactivate"}
  BY DEF PolicyActions
<1>2. SetPolModes(p, [q \in {a.policy} |-> a.mode], h) \in PolicySets
  BY <1>1, SetPolModesType
<1>3. Activated(p, a.policy) \in PolicySets
  BY <1>1 DEF Activated, PolicySets
<1>4. Deactivated(p, a.policy, h) \in PolicySets
  BY <1>1 DEF Deactivated, PolicySets
<1> QED
  BY <1>1, <1>2, <1>3, <1>4 DEF Apply

(* The activation that finalizes an account leaves its redirect active.    *)
LEMMA FinalizesActivates ==
  ASSUME NEW p \in PolicySets, NEW a, Finalizes(p, a), NEW h
  PROVE  Redirect \in Apply(p, a, h).active
  BY DEF Finalizes, Apply, Activated, PolicySets

-----------------------------------------------------------------------------
(* Effects of the transaction bodies.                                      *)

InitOutcome(s, tx, h, m) ==
    /\ Changes(s, m, {"open", "nonce", "pol", "rescue"})
    /\ tx.from \notin s.open
    /\ m.open = s.open \cup {tx.from}
    /\ m.nonce = Plus(s.nonce, tx.from, 1)
    /\ m.pol = Put(s.pol, tx.from, SetPolModes(s.pol[tx.from], tx.modes, h))
    /\ \/ m.rescue = s.rescue
       \/ \E a \in tx.rescue : m.rescue = Put(s.rescue, tx.from, a)

LEMMA InitEffect ==
  ASSUME NEW s, s = AsLedger(s), NEW tx, NEW h, NEW m \in InitAccount(s, tx, h)
  PROVE  InitOutcome(s, tx, h, m)
<1> DEFINE pols == Put(s.pol, tx.from, SetPolModes(s.pol[tx.from], tx.modes, h))
<1>1. PICK res \in IF tx.rescue = {} THEN {s.rescue}
                  ELSE {Put(s.rescue, tx.from, a) : a \in tx.rescue} :
        /\ tx.from \notin s.open
        /\ m = [s EXCEPT
                !.open = @ \cup {tx.from},
                !.nonce = Plus(@, tx.from, 1),
                !.pol = pols,
                !.rescue = res]
  BY DEF InitAccount
<1>2. res = s.rescue \/ \E a \in tx.rescue : res = Put(s.rescue, tx.from, a)
  OBVIOUS
<1> HIDE DEF pols
<1>3. /\ Changes(s, m, {"open", "nonce", "pol", "rescue"})
      /\ m.open = s.open \cup {tx.from}
      /\ m.nonce = Plus(s.nonce, tx.from, 1)
      /\ m.pol = pols
      /\ m.rescue = res
  BY <1>1 DEF AsLedger, Changes, Fields
<1> QED
  BY <1>1, <1>2, <1>3 DEF pols, InitOutcome

PayOutcome(s, tx, dst, m) ==
    /\ Changes(s, m, {"bal", "nonce", "fees"})
    /\ m.bal = Moved(s.bal, tx.from, dst, tx.amount, tx.fee)
    /\ m.nonce = Plus(s.nonce, tx.from, 1)
    /\ m.fees = s.fees + tx.fee

LEMMA PayEffect ==
  ASSUME NEW s, s = AsLedger(s), NEW tx, NEW dst
  PROVE  PayOutcome(s, tx, dst, Pay(s, tx, dst))
<1> DEFINE m == Pay(s, tx, dst)
           bals == Moved(s.bal, tx.from, dst, tx.amount, tx.fee)
<1>1. m = [s EXCEPT !.nonce = Plus(@, tx.from, 1), !.fees = @ + tx.fee, !.bal = bals]
  BY DEF Pay
<1> HIDE DEF m, bals
<1>2. /\ Changes(s, m, {"bal", "nonce", "fees"})
      /\ m.bal = bals
      /\ m.nonce = Plus(s.nonce, tx.from, 1)
      /\ m.fees = s.fees + tx.fee
  BY <1>1 DEF AsLedger, Changes, Fields
<1> QED
  BY <1>2 DEF m, bals, PayOutcome

EnqueueOutcome(s, tx, dst, h, m) ==
    /\ Changes(s, m, {"pend"})
    /\ m.pend = s.pend \cup
         {[sender |-> tx.from, to |-> dst, amount |-> tx.amount, fee |-> tx.fee,
           nonce |-> tx.nonce, at |-> h + ConservDelay]}

LEMMA EnqueueEffect ==
  ASSUME NEW s, s = AsLedger(s), NEW tx, NEW dst, NEW h
  PROVE  EnqueueOutcome(s, tx, dst, h, Enqueue(s, tx, dst, h))
  BY DEF Enqueue, AsLedger, Changes, Fields, EnqueueOutcome

StakeOutcome(s, tx, m) ==
    /\ Changes(s, m, {"bal", "stake", "nonce"})
    /\ ~(s.bal[tx.from] < tx.amount)
    /\ m.bal = Minus(s.bal, tx.from, tx.amount)
    /\ m.stake = Plus(s.stake, tx.from, tx.amount)
    /\ m.nonce = Plus(s.nonce, tx.from, 1)

LEMMA StakeEffect ==
  ASSUME NEW s, s = AsLedger(s), NEW tx, NEW m \in Stake(s, tx)
  PROVE  StakeOutcome(s, tx, m)
  BY DEF Stake, AsLedger, Changes, Fields, StakeOutcome

UnstakeOutcome(s, tx, m) ==
    /\ Changes(s, m, {"bal", "stake", "nonce"})
    /\ ~(s.stake[tx.from] < tx.amount)
    /\ m.stake = Minus(s.stake, tx.from, tx.amount)
    /\ m.bal = Plus(s.bal, tx.from, tx.amount)
    /\ m.nonce = Plus(s.nonce, tx.from, 1)

LEMMA UnstakeEffect ==
  ASSUME NEW s, s = AsLedger(s), NEW tx, NEW m \in Unstake(s, tx)
  PROVE  UnstakeOutcome(s, tx, m)
  BY DEF Unstake, AsLedger, Changes, Fields, UnstakeOutcome

BurnOutcome(s, tx, m) ==
    /\ Changes(s, m, {"nonce"})
    /\ m.nonce = Plus(s.nonce, tx.from, 1)

LEMMA BurnEffect ==
  ASSUME NEW s, s = AsLedger(s), NEW tx, NEW m \in BurnMark(s, tx)
  PROVE  BurnOutcome(s, tx, m)
  BY DEF BurnMark, AsLedger, Changes, Fields, BurnOutcome

ClaimOutcome(s, tx, m) ==
    /\ Changes(s, m, {"bal", "claimed", "nonce"})
    /\ m.bal = Plus(s.bal, tx.from, Allocation)
    /\ m.claimed = s.claimed \cup {tx.from}
    /\ m.nonce = Plus(s.nonce, tx.from, 1)

LEMMA ClaimEffect ==
  ASSUME NEW s, s = AsLedger(s), NEW tx, NEW m \in Claim(s, tx)
  PROVE  ClaimOutcome(s, tx, m)
  BY DEF Claim, AsLedger, Changes, Fields, ClaimOutcome

ExportOutcome(s, tx, h, m) ==
    /\ Changes(s, m, {"bal", "nonce", "fees", "exported", "locks"})
    /\ ~(s.bal[tx.from] < tx.amount + tx.fee)
    /\ m.bal = Minus(s.bal, tx.from, tx.amount + tx.fee)
    /\ m.nonce = Plus(s.nonce, tx.from, 1)
    /\ m.fees = s.fees + tx.fee
    /\ IF ExportId(tx) \in DOMAIN s.exported THEN m.exported = s.exported
       ELSE m.exported = Put(s.exported, ExportId(tx),
                             [to |-> tx.to, hi |-> tx.hi, amount |-> tx.amount])
    /\ IF ExportId(tx) \in DOMAIN s.locks THEN m.locks = s.locks
       ELSE m.locks = Put(s.locks, ExportId(tx),
                          [sender |-> tx.from, amount |-> tx.amount,
                           unlock |-> h + LockTimeout, state |-> "Locked"])

LEMMA ExportEffect ==
  ASSUME NEW s, s = AsLedger(s), NEW tx, NEW h, NEW m \in Export(s, tx, h)
  PROVE  ExportOutcome(s, tx, h, m)
<1> DEFINE id == ExportId(tx)
           expd == IF id \in DOMAIN s.exported THEN s.exported
                   ELSE Put(s.exported, id, [to |-> tx.to, hi |-> tx.hi,
                                             amount |-> tx.amount])
           lcks == IF id \in DOMAIN s.locks THEN s.locks
                   ELSE Put(s.locks, id, [sender |-> tx.from, amount |-> tx.amount,
                                          unlock |-> h + LockTimeout,
                                          state |-> "Locked"])
<1>1. /\ ~(s.bal[tx.from] < tx.amount + tx.fee)
      /\ m = [s EXCEPT !.bal = Minus(@, tx.from, tx.amount + tx.fee),
                       !.nonce = Plus(@, tx.from, 1),
                       !.fees = @ + tx.fee,
                       !.exported = expd,
                       !.locks = lcks]
  BY DEF Export
<1> HIDE DEF expd, lcks
<1>2. /\ Changes(s, m, {"bal", "nonce", "fees", "exported", "locks"})
      /\ m.bal = Minus(s.bal, tx.from, tx.amount + tx.fee)
      /\ m.nonce = Plus(s.nonce, tx.from, 1)
      /\ m.fees = s.fees + tx.fee
      /\ m.exported = expd
      /\ m.locks = lcks
  BY <1>1 DEF AsLedger, Changes, Fields
<1> QED
  BY <1>1, <1>2 DEF expd, lcks, ExportOutcome

ImportOutcome(s, tx, m) ==
    /\ Changes(s, m, {"bal", "nonce", "fees", "exported", "locks", "imported"})
    /\ m.bal = Plus(Minus(s.bal, tx.from, tx.fee), tx.to, tx.amount)
    /\ m.nonce = Plus(s.nonce, tx.from, 1)
    /\ m.fees = s.fees + tx.fee
    /\ m.locks = [id \in DOMAIN s.locks |->
                    IF id = tx.id /\ s.locks[id].state = "Locked"
                    THEN [s.locks[id] EXCEPT !.state = "Released"]
                    ELSE s.locks[id]]
    /\ m.imported = s.imported \cup {tx.id}
    /\ \E p \in Expected(s, tx) :
         ImportAllowed(s, tx, p) /\ m.exported = Put(s.exported, tx.id, p)

LEMMA ImportEffect ==
  ASSUME NEW s, s = AsLedger(s), NEW tx, NEW m \in Import(s, tx)
  PROVE  ImportOutcome(s, tx, m)
<1> DEFINE lcks == [id \in DOMAIN s.locks |->
                      IF id = tx.id /\ s.locks[id].state = "Locked"
                      THEN [s.locks[id] EXCEPT !.state = "Released"] ELSE s.locks[id]]
<1>1. PICK p \in Expected(s, tx) :
        /\ ImportAllowed(s, tx, p)
        /\ m = [s EXCEPT !.bal = Plus(Minus(@, tx.from, tx.fee), tx.to, tx.amount),
                         !.nonce = Plus(@, tx.from, 1),
                         !.fees = @ + tx.fee,
                         !.exported = Put(@, tx.id, p),
                         !.locks = lcks,
                         !.imported = @ \cup {tx.id}]
  BY DEF Import
<1> HIDE DEF lcks
<1>2. /\ Changes(s, m, {"bal", "nonce", "fees", "exported", "locks", "imported"})
      /\ m.bal = Plus(Minus(s.bal, tx.from, tx.fee), tx.to, tx.amount)
      /\ m.nonce = Plus(s.nonce, tx.from, 1)
      /\ m.fees = s.fees + tx.fee
      /\ m.exported = Put(s.exported, tx.id, p)
      /\ m.locks = lcks
      /\ m.imported = s.imported \cup {tx.id}
  BY <1>1 DEF AsLedger, Changes, Fields
<1> QED
  BY <1>1, <1>2 DEF lcks, ImportOutcome

(* A policy transaction pays its fee, changes its sender's policies and    *)
(* moves value only when it activates the sender's redirect.               *)
PolicyOutcome(s, tx, h, m) ==
    /\ Changes(s, m, {"bal", "stake", "fees", "nonce", "pol", "fin", "pend"})
    /\ PolicyTxValid(s, tx)
    /\ CanApply(s.pol[tx.from], tx.action, h)
    /\ ~(s.bal[tx.from] < tx.fee)
    /\ m.nonce = Plus(s.nonce, tx.from, 1)
    /\ m.fees = s.fees + tx.fee
    /\ m.pol = Put(s.pol, tx.from, Apply(s.pol[tx.from], tx.action, h))
    /\ m.fin = IF Finalizes(s.pol[tx.from], tx.action)
               THEN s.fin \cup {tx.from} ELSE s.fin
    /\ m.pend = IF IsEmergency(tx.action)
                THEN {row \in s.pend : row.sender # tx.from} ELSE s.pend
    /\ LET paid == Minus(s.bal, tx.from, tx.fee) IN
       \/ m.bal = paid /\ m.stake = s.stake
       \/ /\ IsEmergency(tx.action) /\ tx.from # tx.target
          /\ m.bal = Plus(Put(paid, tx.from, 0), tx.target,
                          paid[tx.from] + s.stake[tx.from])
          /\ m.stake = Put(s.stake, tx.from, 0)

LEMMA PolicyEffect ==
  ASSUME NEW s, s = AsLedger(s), NEW tx, NEW h, NEW m \in PolicyBody(s, tx, h)
  PROVE  PolicyOutcome(s, tx, h, m)
<1> DEFINE fins == IF Finalizes(s.pol[tx.from], tx.action)
                   THEN s.fin \cup {tx.from} ELSE s.fin
           pols == Put(s.pol, tx.from, Apply(s.pol[tx.from], tx.action, h))
<1>0. PICK paid : paid = [s EXCEPT !.bal = Minus(@, tx.from, tx.fee),
                                   !.fees = @ + tx.fee,
                                   !.nonce = Plus(@, tx.from, 1),
                                   !.pol = pols,
                                   !.fin = fins]
  OBVIOUS
<1>1. /\ PolicyTxValid(s, tx)
      /\ CanApply(s.pol[tx.from], tx.action, h)
      /\ ~(s.bal[tx.from] < tx.fee)
      /\ m = IF IsEmergency(tx.action) THEN Evacuate(paid, tx.from, tx.target) ELSE paid
  BY <1>0 DEF PolicyBody
<1> HIDE DEF fins, pols
<1>2. /\ Changes(s, paid, {"bal", "fees", "nonce", "pol", "fin"})
      /\ paid.bal = Minus(s.bal, tx.from, tx.fee)
      /\ paid.fees = s.fees + tx.fee
      /\ paid.nonce = Plus(s.nonce, tx.from, 1)
      /\ paid.pol = pols
      /\ paid.fin = fins
  BY <1>0 DEF AsLedger, Changes, Fields
<1>3. CASE ~IsEmergency(tx.action)
  BY <1>1, <1>2, <1>3 DEF Changes, Fields, fins, pols, PolicyOutcome
<1>4. CASE IsEmergency(tx.action) /\ tx.from = tx.target
  <2>1. m = [paid EXCEPT !.pend = {row \in @ : row.sender # tx.from}]
    BY <1>1, <1>4 DEF Evacuate
  <2>2. /\ Changes(paid, m, {"pend"})
        /\ m.pend = {row \in paid.pend : row.sender # tx.from}
    BY <1>2, <2>1 DEF Changes, Fields, AsLedger
  <2> QED
    BY <1>1, <1>2, <1>4, <2>2 DEF Changes, Fields, fins, pols, PolicyOutcome
<1>5. CASE IsEmergency(tx.action) /\ tx.from # tx.target
  <2> DEFINE rows == {row \in paid.pend : row.sender # tx.from}
             x == paid.bal[tx.from] + paid.stake[tx.from]
  <2>1. m = [[paid EXCEPT !.bal = Plus(Put(@, tx.from, 0), tx.target, x),
                          !.stake = Put(@, tx.from, 0)] EXCEPT !.pend = rows]
    BY <1>1, <1>2, <1>5 DEF Evacuate, Changes, AsLedger
  <2> HIDE DEF rows, x
  <2>2. /\ Changes(paid, m, {"bal", "stake", "pend"})
        /\ m.bal = Plus(Put(paid.bal, tx.from, 0), tx.target, x)
        /\ m.stake = Put(paid.stake, tx.from, 0)
        /\ m.pend = rows
    BY <1>2, <2>1 DEF Changes, Fields, AsLedger
  <2>3. paid.stake = s.stake /\ paid.pend = s.pend
    BY <1>2 DEF Changes, Fields
  <2>4. Changes(s, m, {"bal", "stake", "fees", "nonce", "pol", "fin", "pend"})
    BY <1>2, <2>2 DEF Changes, Fields
  <2>5. /\ m.fees = paid.fees /\ m.nonce = paid.nonce
        /\ m.pol = paid.pol /\ m.fin = paid.fin
    BY <2>2 DEF Changes, Fields
  <2> QED
    BY <1>1, <1>2, <1>5, <2>2, <2>3, <2>4, <2>5 DEF rows, x, fins, pols, PolicyOutcome
<1> QED
  BY <1>3, <1>4, <1>5 DEF PolicyOutcome

-----------------------------------------------------------------------------
(* Effects of the steps outside the transactions.                          *)

RollOutcome(s, h, m) ==
    /\ Changes(s, m, {"active"})
    /\ m.active \in {s.active, Stakers(s)}

LEMMA RollEffect ==
  ASSUME NEW s, s = AsLedger(s), NEW h
  PROVE  RollOutcome(s, h, RollEpoch(s, h))
  BY DEF RollEpoch, AsLedger, Changes, Fields, RollOutcome

RefundOutcome(s, id, m) ==
    /\ Changes(s, m, {"bal", "locks", "imported"})
    /\ m.bal = Plus(s.bal, s.locks[id].sender, s.locks[id].amount)
    /\ m.locks = Put(s.locks, id, [s.locks[id] EXCEPT !.state = "Refunded"])
    /\ m.imported = s.imported \cup {id}

LEMMA RefundEffect ==
  ASSUME NEW s, s = AsLedger(s), NEW id
  PROVE  RefundOutcome(s, id, RefundLock(s, id))
<1> DEFINE lcks == Put(s.locks, id, [s.locks[id] EXCEPT !.state = "Refunded"])
<1>1. RefundLock(s, id) = [s EXCEPT !.bal = Plus(@, s.locks[id].sender, s.locks[id].amount),
                                    !.locks = lcks,
                                    !.imported = @ \cup {id}]
  BY DEF RefundLock
<1> HIDE DEF lcks
<1> QED
  BY <1>1 DEF AsLedger, Changes, Fields, lcks, RefundOutcome

DrainOutcome(s, row, dst, m) ==
    /\ Changes(s, m, {"pend", "fees", "bal", "nonce"})
    /\ m.pend = s.pend \ {row}
    /\ m.fees = s.fees + row.fee
    /\ m.bal = Put(Minus(s.bal, row.sender, row.amount + row.fee),
                                       dst, s.bal[dst] + row.amount)
    /\ m.nonce = Put(Plus(s.nonce, row.sender, 1), dst, s.nonce[dst])

LEMMA DrainEffect ==
  ASSUME NEW s, s = AsLedger(s), NEW row, NEW dst
  PROVE  DrainOutcome(s, row, dst, DrainRow(s, row, dst))
<1> DEFINE bals == Put(Minus(s.bal, row.sender, row.amount + row.fee),
                       dst, s.bal[dst] + row.amount)
           ncs == Put(Plus(s.nonce, row.sender, 1), dst, s.nonce[dst])
<1>1. DrainRow(s, row, dst) = [s EXCEPT !.pend = @ \ {row}, !.fees = @ + row.fee,
                                        !.bal = bals, !.nonce = ncs]
  BY DEF DrainRow
<1> HIDE DEF bals, ncs
<1> QED
  BY <1>1 DEF AsLedger, Changes, Fields, bals, ncs, DrainOutcome

RewardOutcome(s, p, m) ==
    /\ Changes(s, m, {"bal"})
    /\ m.bal = Plus(s.bal, p, PaidReward(s, p))

LEMMA RewardEffect ==
  ASSUME NEW s, s = AsLedger(s), NEW p
  PROVE  RewardOutcome(s, p, PayReward(s, p))
  BY DEF PayReward, AsLedger, Changes, Fields, RewardOutcome

-----------------------------------------------------------------------------
(* Types                                                                   *)

LEMMA PlusType ==
  ASSUME NEW f \in [Accounts -> Nat], NEW a, NEW x \in Nat
  PROVE  Plus(f, a, x) \in [Accounts -> Nat]
<1>1. CASE a \in Accounts
  <2>1. f[a] + x \in Nat
    BY <1>1
  <2> QED
    BY <2>1 DEF Plus
<1>2. CASE a \notin Accounts
  <2>1. Plus(f, a, x) = f
    BY <1>2 DEF Plus
  <2> QED
    BY <2>1
<1> QED
  BY <1>1, <1>2

LEMMA MinusType ==
  ASSUME NEW f \in [Accounts -> Nat], NEW a \in Accounts, NEW x \in Nat, f[a] >= x
  PROVE  Minus(f, a, x) \in [Accounts -> Nat]
  BY DEF Minus

LEMMA MovedType ==
  ASSUME NEW f \in [Accounts -> Nat], NEW a \in Accounts, NEW b, NEW x \in Nat,
         NEW y \in Nat, f[a] >= x + y
  PROVE  Moved(f, a, b, x, y) \in [Accounts -> Nat]
<1>1. x + y \in Nat
  OBVIOUS
<1>2. Minus(f, a, x + y) \in [Accounts -> Nat]
  BY <1>1, MinusType
<1> QED
  BY <1>2, PlusType DEF Moved

LEMMA PutType ==
  ASSUME NEW S, NEW T, NEW f \in [S -> T], NEW a \in S, NEW v \in T
  PROVE  Put(f, a, v) \in [S -> T]
  BY DEF Put

(* A field that does not change keeps its type; so a ledger stays one if   *)
(* the fields that change have theirs.                                     *)
LEMMA ChangesType ==
  ASSUME NEW s, IsLedger(s), NEW m, NEW fs, Changes(s, m, fs),
         "open" \in fs => m.open \subseteq Accounts,
         "fin" \in fs => m.fin \subseteq Accounts,
         "bal" \in fs => m.bal \in [Accounts -> Nat],
         "stake" \in fs => m.stake \in [Accounts -> Nat],
         "nonce" \in fs => m.nonce \in [Accounts -> Nat],
         "pol" \in fs => m.pol \in [Accounts -> PolicySets],
         "rescue" \in fs => /\ DOMAIN m.rescue \subseteq Accounts
                           /\ \A a \in DOMAIN m.rescue : m.rescue[a] \in Accounts,
         "claimed" \in fs => m.claimed \subseteq Accounts,
         "fees" \in fs => m.fees \in Nat,
         "pend" \in fs => m.pend \subseteq PendingRows,
         "locks" \in fs => /\ DOMAIN m.locks \subseteq ExportIds
                          /\ \A id \in DOMAIN m.locks : m.locks[id] \in LockRows,
         "exported" \in fs => /\ DOMAIN m.exported \subseteq ExportIds
                             /\ \A id \in DOMAIN m.exported : m.exported[id] \in Provenances,
         "imported" \in fs => m.imported \subseteq ExportIds,
         "active" \in fs => m.active \subseteq DOMAIN Validators
  PROVE  IsLedger(m)
<1>1. m = AsLedger(m)
  BY DEF Changes
<1>2. /\ m.open \subseteq Accounts
      /\ m.fin \subseteq Accounts
      /\ m.bal \in [Accounts -> Nat]
      /\ m.stake \in [Accounts -> Nat]
      /\ m.nonce \in [Accounts -> Nat]
      /\ m.pol \in [Accounts -> PolicySets]
  BY DEF Changes, Fields, IsLedger
<1>3. /\ DOMAIN m.rescue \subseteq Accounts
      /\ \A a \in DOMAIN m.rescue : m.rescue[a] \in Accounts
      /\ m.claimed \subseteq Accounts
      /\ m.fees \in Nat
      /\ m.pend \subseteq PendingRows
      /\ m.imported \subseteq ExportIds
      /\ m.active \subseteq DOMAIN Validators
  BY DEF Changes, Fields, IsLedger
<1>4. /\ DOMAIN m.locks \subseteq ExportIds
      /\ \A id \in DOMAIN m.locks : m.locks[id] \in LockRows
  BY DEF Changes, Fields, IsLedger
<1>5. /\ DOMAIN m.exported \subseteq ExportIds
      /\ \A id \in DOMAIN m.exported : m.exported[id] \in Provenances
  BY DEF Changes, Fields, IsLedger
<1> QED
  BY <1>1, <1>2, <1>3, <1>4, <1>5 DEF IsLedger

LEMMA InitType ==
  ASSUME NEW s, IsLedger(s), NEW tx, IsTransaction(tx), tx.type = "init",
         NEW h \in Nat, NEW m \in InitAccount(s, tx, h)
  PROVE  IsLedger(m)
<1>1. /\ tx.from \in Accounts
      /\ tx.rescue \subseteq Accounts
      /\ DOMAIN tx.modes \subseteq PolicyKinds
      /\ \A p \in DOMAIN tx.modes : tx.modes[p] \in ActivationModes
  BY DEF IsTransaction
<1>2. /\ s.nonce \in [Accounts -> Nat] /\ s.pol \in [Accounts -> PolicySets]
      /\ s.open \subseteq Accounts /\ s = AsLedger(s)
      /\ DOMAIN s.rescue \subseteq Accounts
      /\ \A a \in DOMAIN s.rescue : s.rescue[a] \in Accounts
  BY DEF IsLedger
<1>e. InitOutcome(s, tx, h, m)
  BY <1>2, InitEffect
<1>3. SetPolModes(s.pol[tx.from], tx.modes, h) \in PolicySets
  BY <1>1, <1>2, SetPolModesType
<1>4. m.nonce \in [Accounts -> Nat]
  BY <1>2, <1>e, PlusType DEF InitOutcome
<1>5. m.pol \in [Accounts -> PolicySets]
  <2>1. Put(s.pol, tx.from, SetPolModes(s.pol[tx.from], tx.modes, h))
          \in [Accounts -> PolicySets]
    BY <1>1, <1>2, <1>3, PutType
  <2> QED
    BY <1>e, <2>1 DEF InitOutcome
<1>6. DOMAIN m.rescue \subseteq Accounts
      /\ \A a \in DOMAIN m.rescue : m.rescue[a] \in Accounts
  BY <1>1, <1>2, <1>e DEF Put, InitOutcome
<1>7. m.open \subseteq Accounts
  BY <1>1, <1>2, <1>e DEF InitOutcome
<1> QED
  BY <1>2, <1>4, <1>5, <1>6, <1>7, <1>e, ChangesType DEF InitOutcome

LEMMA TransferType ==
  ASSUME NEW s, IsLedger(s), NEW tx, IsTransaction(tx), tx.type = "transfer",
         NEW h \in Nat, NEW skip, NEW m \in Transfer(s, tx, h, skip)
  PROVE  IsLedger(m)
<1>1. tx.from \in Accounts /\ tx.amount \in Nat /\ tx.fee \in Nat /\ tx.nonce \in Nat
  BY DEF IsTransaction
<1>2. /\ s.nonce \in [Accounts -> Nat] /\ s.bal \in [Accounts -> Nat]
      /\ s.fees \in Nat /\ s.open \subseteq Accounts /\ s.pend \subseteq PendingRows
      /\ s = AsLedger(s)
  BY DEF IsLedger
<1>3. PICK dst \in s.open :
        /\ s.bal[tx.from] >= tx.amount + tx.fee
        /\ m = IF tx.from \in ConservFlag THEN Enqueue(s, tx, dst, h) ELSE Pay(s, tx, dst)
  BY DEF Transfer
<1>4. CASE m = Pay(s, tx, dst)
  <2>e. PayOutcome(s, tx, dst, m)
    BY <1>2, <1>4, PayEffect
  <2>1. m.nonce \in [Accounts -> Nat]
    BY <1>2, <1>4, <2>e, PlusType DEF PayOutcome
  <2>2. m.bal \in [Accounts -> Nat]
    <3>1. Moved(s.bal, tx.from, dst, tx.amount, tx.fee) \in [Accounts -> Nat]
      BY <1>1, <1>2, <1>3, MovedType
    <3> QED
      BY <1>4, <2>e, <3>1 DEF PayOutcome
  <2>3. m.fees \in Nat
    BY <1>1, <1>2, <1>4, <2>e DEF PayOutcome
  <2> QED
    BY <1>2, <1>4, <2>1, <2>2, <2>3, <2>e, ChangesType DEF PayOutcome
<1>5. CASE m = Enqueue(s, tx, dst, h)
  <2>e. EnqueueOutcome(s, tx, dst, h, m)
    BY <1>2, <1>5, EnqueueEffect
  <2>1. h + ConservDelay \in Nat
    BY ParametersAssumption
  <2>2. [sender |-> tx.from, to |-> dst, amount |-> tx.amount, fee |-> tx.fee,
         nonce |-> tx.nonce, at |-> h + ConservDelay] \in PendingRows
    BY <1>1, <1>2, <2>1 DEF PendingRows
  <2>3. m.pend \subseteq PendingRows
    BY <1>2, <1>5, <2>2, <2>e DEF EnqueueOutcome
  <2> QED
    BY <1>2, <1>5, <2>3, <2>e, ChangesType DEF EnqueueOutcome
<1> QED
  BY <1>3, <1>4, <1>5

LEMMA AmountType ==
  ASSUME NEW s, IsLedger(s), NEW tx, IsTransaction(tx), tx.type \in {"stake", "unstake"},
         NEW m \in Stake(s, tx) \cup Unstake(s, tx)
  PROVE  IsLedger(m)
<1>1. tx.from \in Accounts /\ tx.amount \in Nat
  BY DEF IsTransaction
<1>2. /\ s.nonce \in [Accounts -> Nat] /\ s.bal \in [Accounts -> Nat]
      /\ s.stake \in [Accounts -> Nat] /\ s = AsLedger(s)
  BY DEF IsLedger
<1>3. CASE m \in Stake(s, tx)
  <2>e. StakeOutcome(s, tx, m)
    BY <1>2, <1>3, StakeEffect
  <2>1. s.bal[tx.from] >= tx.amount
    BY <1>1, <1>2, <1>3, <2>e DEF StakeOutcome
  <2>2. /\ m.nonce \in [Accounts -> Nat]
        /\ m.bal \in [Accounts -> Nat]
        /\ m.stake \in [Accounts -> Nat]
    <3>1. Minus(s.bal, tx.from, tx.amount) \in [Accounts -> Nat]
      BY <1>1, <1>2, <2>1, MinusType
    <3>2. /\ Plus(s.stake, tx.from, tx.amount) \in [Accounts -> Nat]
          /\ Plus(s.nonce, tx.from, 1) \in [Accounts -> Nat]
      BY <1>1, <1>2, PlusType
    <3> QED
      BY <2>e, <3>1, <3>2 DEF StakeOutcome
  <2> QED
    BY <1>2, <1>3, <2>2, <2>e, ChangesType DEF StakeOutcome
<1>4. CASE m \in Unstake(s, tx)
  <2>e. UnstakeOutcome(s, tx, m)
    BY <1>2, <1>4, UnstakeEffect
  <2>1. s.stake[tx.from] >= tx.amount
    BY <1>1, <1>2, <1>4, <2>e DEF UnstakeOutcome
  <2>2. /\ m.nonce \in [Accounts -> Nat]
        /\ m.bal \in [Accounts -> Nat]
        /\ m.stake \in [Accounts -> Nat]
    <3>1. Minus(s.stake, tx.from, tx.amount) \in [Accounts -> Nat]
      BY <1>1, <1>2, <2>1, MinusType
    <3>2. /\ Plus(s.bal, tx.from, tx.amount) \in [Accounts -> Nat]
          /\ Plus(s.nonce, tx.from, 1) \in [Accounts -> Nat]
      BY <1>1, <1>2, PlusType
    <3> QED
      BY <2>e, <3>1, <3>2 DEF UnstakeOutcome
  <2> QED
    BY <1>2, <1>4, <2>2, <2>e, ChangesType DEF UnstakeOutcome
<1> QED
  BY <1>3, <1>4

LEMMA PlainType ==
  ASSUME NEW s, IsLedger(s), NEW tx, IsTransaction(tx), tx.type \in {"burn", "claim"},
         NEW m \in BurnMark(s, tx) \cup Claim(s, tx)
  PROVE  IsLedger(m)
<1>1. tx.from \in Accounts /\ Allocation \in Nat
  BY ParametersAssumption DEF IsTransaction
<1>2. /\ s.nonce \in [Accounts -> Nat] /\ s.bal \in [Accounts -> Nat]
      /\ s.claimed \subseteq Accounts /\ s = AsLedger(s)
  BY DEF IsLedger
<1>3. CASE m \in BurnMark(s, tx)
  <2>e. BurnOutcome(s, tx, m)
    BY <1>2, <1>3, BurnEffect
  <2>1. m.nonce \in [Accounts -> Nat]
    BY <1>2, <2>e, PlusType DEF BurnOutcome
  <2> QED
    BY <2>e, <2>1, ChangesType DEF BurnOutcome
<1>4. CASE m \in Claim(s, tx)
  <2>e. ClaimOutcome(s, tx, m)
    BY <1>2, <1>4, ClaimEffect
  <2>1. /\ m.nonce \in [Accounts -> Nat]
        /\ m.bal \in [Accounts -> Nat]
        /\ m.claimed \subseteq Accounts
    BY <1>1, <1>2, <1>4, <2>e, PlusType DEF ClaimOutcome
  <2> QED
    BY <1>2, <1>4, <2>1, <2>e, ChangesType DEF ClaimOutcome
<1> QED
  BY <1>3, <1>4

LEMMA ExportType ==
  ASSUME NEW s, IsLedger(s), NEW tx, IsTransaction(tx), tx.type = "export",
         NEW h \in Nat, NEW m \in Export(s, tx, h)
  PROVE  IsLedger(m)
<1>1. /\ tx.from \in Accounts /\ tx.amount \in Nat /\ tx.fee \in Nat
      /\ tx.to \in Accounts \cup Foreign /\ tx.hi \in Nat /\ tx.nonce \in Nat
  BY DEF IsTransaction
<1>2. /\ s.nonce \in [Accounts -> Nat] /\ s.bal \in [Accounts -> Nat]
      /\ s.fees \in Nat /\ s = AsLedger(s)
      /\ DOMAIN s.locks \subseteq ExportIds
      /\ \A id \in DOMAIN s.locks : s.locks[id] \in LockRows
      /\ DOMAIN s.exported \subseteq ExportIds
      /\ \A id \in DOMAIN s.exported : s.exported[id] \in Provenances
  BY DEF IsLedger
<1>e. ExportOutcome(s, tx, h, m)
  BY <1>2, ExportEffect
<1>3. s.bal[tx.from] >= tx.amount + tx.fee
  BY <1>1, <1>2, <1>e DEF ExportOutcome
<1>4. m.nonce \in [Accounts -> Nat] /\ m.bal \in [Accounts -> Nat] /\ m.fees \in Nat
  <2>1. tx.amount + tx.fee \in Nat
    BY <1>1
  <2>2. Minus(s.bal, tx.from, tx.amount + tx.fee) \in [Accounts -> Nat]
    BY <1>1, <1>2, <1>3, <2>1, MinusType
  <2>3. Plus(s.nonce, tx.from, 1) \in [Accounts -> Nat]
    BY <1>2, PlusType
  <2> QED
    BY <1>1, <1>2, <1>e, <2>2, <2>3 DEF ExportOutcome
<1>5. ExportId(tx) \in ExportIds
  BY <1>1 DEF ExportId, ExportIds
<1>6. [to |-> tx.to, hi |-> tx.hi, amount |-> tx.amount] \in Provenances
  BY <1>1 DEF Provenances
<1>7. [sender |-> tx.from, amount |-> tx.amount, unlock |-> h + LockTimeout,
       state |-> "Locked"] \in LockRows
  BY <1>1, ParametersAssumption DEF LockRows
<1>8. /\ DOMAIN m.exported \subseteq ExportIds
      /\ \A id \in DOMAIN m.exported : m.exported[id] \in Provenances
  BY <1>2, <1>5, <1>6, <1>e DEF Put, ExportOutcome
<1>9. /\ DOMAIN m.locks \subseteq ExportIds
      /\ \A id \in DOMAIN m.locks : m.locks[id] \in LockRows
  BY <1>2, <1>5, <1>7, <1>e DEF Put, ExportOutcome
<1> QED
  BY <1>2, <1>4, <1>8, <1>9, <1>e, ChangesType DEF ExportOutcome

LEMMA ImportType ==
  ASSUME NEW s, IsLedger(s), NEW tx, IsTransaction(tx), tx.type = "import",
         NEW m \in Import(s, tx)
  PROVE  IsLedger(m)
<1>1. /\ tx.from \in Accounts /\ tx.amount \in Nat /\ tx.fee \in Nat
      /\ tx.to \in Accounts /\ tx.id \in ExportIds /\ tx.provenance \subseteq Provenances
  BY DEF IsTransaction
<1>2. /\ s.nonce \in [Accounts -> Nat] /\ s.bal \in [Accounts -> Nat]
      /\ s.fees \in Nat /\ s = AsLedger(s) /\ s.imported \subseteq ExportIds
      /\ DOMAIN s.locks \subseteq ExportIds
      /\ \A id \in DOMAIN s.locks : s.locks[id] \in LockRows
      /\ DOMAIN s.exported \subseteq ExportIds
      /\ \A id \in DOMAIN s.exported : s.exported[id] \in Provenances
  BY DEF IsLedger
<1>e. ImportOutcome(s, tx, m)
  BY <1>2, ImportEffect
<1>3. PICK p \in Expected(s, tx) :
        ImportAllowed(s, tx, p) /\ m.exported = Put(s.exported, tx.id, p)
  BY <1>2, <1>e DEF ImportOutcome
<1>4. s.bal[tx.from] >= tx.fee
  BY <1>3 DEF ImportAllowed
<1>5. m.nonce \in [Accounts -> Nat] /\ m.fees \in Nat /\ m.imported \subseteq ExportIds
  BY <1>1, <1>2, <1>e, PlusType DEF ImportOutcome
<1>6. m.bal \in [Accounts -> Nat]
  <2>1. Minus(s.bal, tx.from, tx.fee) \in [Accounts -> Nat]
    BY <1>1, <1>2, <1>4, MinusType
  <2> QED
    BY <1>1, <1>2, <2>1, <1>e, PlusType DEF ImportOutcome
<1>7. p \in Provenances
  BY <1>1, <1>2, <1>3 DEF Expected
<1>8. /\ DOMAIN m.exported \subseteq ExportIds
      /\ \A id \in DOMAIN m.exported : m.exported[id] \in Provenances
  BY <1>1, <1>2, <1>3, <1>7 DEF Put
<1>9. /\ DOMAIN m.locks \subseteq ExportIds
      /\ \A id \in DOMAIN m.locks : m.locks[id] \in LockRows
  <2>1. \A id \in DOMAIN s.locks : [s.locks[id] EXCEPT !.state = "Released"] \in LockRows
    BY <1>2 DEF LockRows
  <2> QED
    BY <1>2, <2>1, <1>e DEF ImportOutcome
<1> QED
  BY <1>2, <1>5, <1>6, <1>8, <1>9, <1>e, ChangesType DEF ImportOutcome

LEMMA PolicyTxType ==
  ASSUME NEW s, IsLedger(s), NEW tx, IsTransaction(tx), tx.type = "policy",
         NEW h \in Nat, NEW m \in PolicyBody(s, tx, h)
  PROVE  IsLedger(m)
<1>1. /\ tx.from \in Accounts /\ tx.fee \in Nat /\ tx.target \in Accounts
      /\ tx.action \in PolicyActions
  BY DEF IsTransaction
<1>2. /\ s.nonce \in [Accounts -> Nat] /\ s.bal \in [Accounts -> Nat]
      /\ s.stake \in [Accounts -> Nat] /\ s.pol \in [Accounts -> PolicySets]
      /\ s.fees \in Nat /\ s = AsLedger(s) /\ s.fin \subseteq Accounts
      /\ s.pend \subseteq PendingRows
  BY DEF IsLedger
<1>e. PolicyOutcome(s, tx, h, m)
  BY <1>2, PolicyEffect
<1>3. s.bal[tx.from] >= tx.fee
  BY <1>1, <1>2, <1>e DEF PolicyOutcome
<1>4. /\ m.nonce \in [Accounts -> Nat] /\ m.fees \in Nat
      /\ m.fin \subseteq Accounts /\ m.pend \subseteq PendingRows
  BY <1>1, <1>2, <1>e, PlusType DEF PolicyOutcome
<1>5. m.pol \in [Accounts -> PolicySets]
  <2>1. Apply(s.pol[tx.from], tx.action, h) \in PolicySets
    BY <1>1, <1>2, ApplyType
  <2>2. Put(s.pol, tx.from, Apply(s.pol[tx.from], tx.action, h)) \in [Accounts -> PolicySets]
    BY <1>1, <1>2, <2>1, PutType
  <2> QED
    BY <1>e, <2>2 DEF PolicyOutcome
<1> DEFINE paid == Minus(s.bal, tx.from, tx.fee)
<1>6. paid \in [Accounts -> Nat] /\ 0 \in Nat
  BY <1>1, <1>2, <1>3, MinusType
<1> HIDE DEF paid
<1>7. Put(paid, tx.from, 0) \in [Accounts -> Nat] /\ Put(s.stake, tx.from, 0) \in [Accounts -> Nat]
  BY <1>1, <1>2, <1>6, PutType
<1>8. paid[tx.from] + s.stake[tx.from] \in Nat
  BY <1>1, <1>2, <1>6
<1>9. Plus(Put(paid, tx.from, 0), tx.target, paid[tx.from] + s.stake[tx.from])
        \in [Accounts -> Nat]
  BY <1>7, <1>8, PlusType
<1>10. m.bal \in [Accounts -> Nat] /\ m.stake \in [Accounts -> Nat]
  BY <1>2, <1>6, <1>7, <1>9, <1>e DEF paid, PolicyOutcome
<1> QED
  BY <1>2, <1>4, <1>5, <1>10, <1>e, ChangesType DEF PolicyOutcome

(* Every transaction leaves a ledger, or fails.                            *)
LEMMA ApplyTxType ==
  ASSUME NEW s, IsLedger(s), NEW tx, IsTransaction(tx), NEW h \in Nat, NEW skip,
         NEW m \in ApplyTx(s, tx, h, skip)
  PROVE  IsLedger(m)
<1>1. m \in Body(s, tx, h, skip)
  BY DEF ApplyTx
<1>2. tx.type \in TxTypes
  BY DEF IsTransaction
<1>3. CASE tx.type = "init"
  BY <1>1, <1>3, InitType DEF Body
<1>4. CASE tx.type = "transfer"
  BY <1>1, <1>4, TransferType DEF Body
<1>5. CASE tx.type \in {"stake", "unstake"}
  BY <1>1, <1>5, AmountType DEF Body
<1>6. CASE tx.type \in {"burn", "claim"}
  BY <1>1, <1>6, PlainType DEF Body
<1>7. CASE tx.type = "export"
  BY <1>1, <1>7, ExportType DEF Body
<1>8. CASE tx.type = "import"
  BY <1>1, <1>8, ImportType DEF Body
<1>9. CASE tx.type = "policy"
  BY <1>1, <1>9, PolicyTxType DEF Body
<1> QED
  BY <1>2, <1>3, <1>4, <1>5, <1>6, <1>7, <1>8, <1>9 DEF TxTypes

LEMMA RollType ==
  ASSUME NEW s, IsLedger(s), NEW h
  PROVE  IsLedger(RollEpoch(s, h))
<1>1. s = AsLedger(s) /\ s.active \subseteq DOMAIN Validators
  BY DEF IsLedger
<1>e. RollOutcome(s, h, RollEpoch(s, h))
  BY <1>1, RollEffect
<1>2. RollEpoch(s, h).active \subseteq DOMAIN Validators
  BY <1>1, <1>e DEF Stakers, RollOutcome
<1> QED
  BY <1>1, <1>2, <1>e, ChangesType DEF RollOutcome

LEMMA RefundType ==
  ASSUME NEW s, IsLedger(s), NEW id \in DOMAIN s.locks
  PROVE  IsLedger(RefundLock(s, id))
<1>1. /\ s = AsLedger(s) /\ s.bal \in [Accounts -> Nat] /\ s.imported \subseteq ExportIds
      /\ DOMAIN s.locks \subseteq ExportIds
      /\ \A i \in DOMAIN s.locks : s.locks[i] \in LockRows
  BY DEF IsLedger
<1> DEFINE m == RefundLock(s, id)
<1>e. RefundOutcome(s, id, m)
  BY <1>1, RefundEffect
<1>2. s.locks[id].amount \in Nat /\ [s.locks[id] EXCEPT !.state = "Refunded"] \in LockRows
  BY <1>1 DEF LockRows
<1>3. m.bal \in [Accounts -> Nat] /\ m.imported \subseteq ExportIds
  BY <1>1, <1>2, <1>e, PlusType DEF RefundOutcome
<1>4. /\ DOMAIN m.locks \subseteq ExportIds
      /\ \A i \in DOMAIN m.locks : m.locks[i] \in LockRows
  BY <1>1, <1>2, <1>e DEF Put, RefundOutcome
<1>5. Changes(s, m, {"bal", "locks", "imported"})
  BY <1>1, <1>e DEF RefundOutcome
<1> HIDE DEF m
<1>6. IsLedger(m)
  BY <1>3, <1>4, <1>5, ChangesType
<1> QED
  BY <1>6 DEF m

LEMMA DrainType ==
  ASSUME NEW s, IsLedger(s), NEW row \in s.pend, NEW h, NEW dst \in DrainRoutes(s, row, h)
  PROVE  IsLedger(DrainRow(s, row, dst))
<1>1. /\ s = AsLedger(s) /\ s.bal \in [Accounts -> Nat] /\ s.nonce \in [Accounts -> Nat]
      /\ s.fees \in Nat /\ s.pend \subseteq PendingRows /\ s.open \subseteq Accounts
  BY DEF IsLedger
<1>2. row.sender \in Accounts /\ row.amount \in Nat /\ row.fee \in Nat
  BY <1>1 DEF PendingRows
<1>3. dst \in Accounts /\ s.bal[row.sender] >= row.amount + row.fee
  BY <1>1 DEF DrainRoutes
<1> DEFINE m == DrainRow(s, row, dst)
<1>e. DrainOutcome(s, row, dst, m)
  BY <1>1, DrainEffect
<1> HIDE DEF m
<1>4. /\ Minus(s.bal, row.sender, row.amount + row.fee) \in [Accounts -> Nat]
      /\ s.bal[dst] + row.amount \in Nat
  <2>1. row.amount + row.fee \in Nat
    BY <1>2
  <2>2. Minus(s.bal, row.sender, row.amount + row.fee) \in [Accounts -> Nat]
    BY <1>1, <1>2, <1>3, <2>1, MinusType
  <2>3. s.bal[dst] + row.amount \in Nat
    BY <1>1, <1>2, <1>3
  <2> QED
    BY <2>2, <2>3
<1>5. m.bal \in [Accounts -> Nat]
  <2>1. Put(Minus(s.bal, row.sender, row.amount + row.fee), dst, s.bal[dst] + row.amount)
          \in [Accounts -> Nat]
    BY <1>3, <1>4, PutType
  <2> QED
    BY <1>e, <2>1 DEF DrainOutcome
<1>6. m.nonce \in [Accounts -> Nat]
  <2>1. Plus(s.nonce, row.sender, 1) \in [Accounts -> Nat] /\ s.nonce[dst] \in Nat
    BY <1>1, <1>3, PlusType
  <2>2. Put(Plus(s.nonce, row.sender, 1), dst, s.nonce[dst]) \in [Accounts -> Nat]
    BY <1>3, <2>1, PutType
  <2> QED
    BY <1>e, <2>2 DEF DrainOutcome
<1>7. m.fees \in Nat /\ m.pend \subseteq PendingRows
  BY <1>1, <1>2, <1>e DEF DrainOutcome
<1>8. Changes(s, m, {"pend", "fees", "bal", "nonce"})
  BY <1>1, <1>e DEF DrainOutcome
<1>9. IsLedger(m)
  BY <1>5, <1>6, <1>7, <1>8, ChangesType
<1> QED
  BY <1>9 DEF m

LEMMA RewardType ==
  ASSUME NEW s, IsLedger(s), NEW p
  PROVE  IsLedger(PayReward(s, p)) /\ PaidReward(s, p) \in Nat
<1>1. s = AsLedger(s) /\ s.bal \in [Accounts -> Nat]
  BY DEF IsLedger
<1>e. RewardOutcome(s, p, PayReward(s, p))
  BY <1>1, RewardEffect
<1>2. PaidReward(s, p) \in Nat
  BY ParametersAssumption DEF PaidReward
<1>3. PayReward(s, p).bal \in [Accounts -> Nat]
  BY <1>1, <1>2, <1>e, PlusType DEF RewardOutcome
<1> QED
  BY <1>1, <1>2, <1>3, <1>e, ChangesType DEF RewardOutcome

-----------------------------------------------------------------------------
(* One value of a changed function.                                        *)

LEMMA PlusAt ==
  ASSUME NEW f \in [Accounts -> Nat], NEW a \in Accounts, NEW x \in Nat, NEW b \in Accounts
  PROVE  Plus(f, a, x)[b] = IF b = a THEN f[b] + x ELSE f[b]
  BY DEF Plus

LEMMA MinusAt ==
  ASSUME NEW f \in [Accounts -> Nat], NEW a \in Accounts, NEW x \in Nat, NEW b \in Accounts
  PROVE  Minus(f, a, x)[b] = IF b = a THEN f[b] - x ELSE f[b]
  BY DEF Minus

LEMMA PutAt ==
  ASSUME NEW S, NEW T, NEW f \in [S -> T], NEW a, NEW v, NEW b \in S
  PROVE  Put(f, a, v)[b] = IF b = a THEN v ELSE f[b]
  BY DEF Put

-----------------------------------------------------------------------------
(* What any transaction does: to the accounts that did not sign it, to the *)
(* signer's nonce, and to the set of finalized accounts.                   *)

Untouched(s, m, a) ==
    /\ m.nonce[a] = s.nonce[a]
    /\ m.stake[a] = s.stake[a]
    /\ m.pol[a] = s.pol[a]
    /\ m.bal[a] >= s.bal[a]

\* Registrations are kept, rescue addresses of registered accounts too.
Grows(s, m) ==
    /\ s.open \subseteq m.open
    /\ \A a \in s.open \cap DOMAIN s.rescue :
          a \in DOMAIN m.rescue /\ m.rescue[a] = s.rescue[a]

\* The signer became final, and what its emergency activation required.
NowFinal(s, tx, m) ==
    /\ m.fin = s.fin \cup {tx.from}
    /\ m.nonce[tx.from] > s.nonce[tx.from]
    /\ Redirect \in m.pol[tx.from].active
    /\ tx.from \in DOMAIN s.rescue
    /\ s.rescue[tx.from] \in s.open
    /\ SameHi(tx.from, s.rescue[tx.from])

TxOutcome(s, tx, m) ==
    /\ Grows(s, m)
    /\ \A a \in Accounts \ {tx.from} : Untouched(s, m, a)
    /\ m.nonce[tx.from] >= s.nonce[tx.from]
    /\ m.fin = s.fin \/ NowFinal(s, tx, m)

\* Changes that leave policies, registrations and finality alone.
LEMMA ValueChanges ==
  ASSUME NEW s, NEW m,
         Changes(s, m, {"bal", "stake", "nonce", "fees", "claimed", "pend",
                        "exported", "locks", "imported", "active"})
  PROVE  Grows(s, m) /\ m.fin = s.fin /\ m.pol = s.pol /\ m.open = s.open
  BY DEF Changes, Fields, Grows

LEMMA ChangesMore ==
  ASSUME NEW s, NEW m, NEW fs, NEW gs, Changes(s, m, fs), fs \subseteq gs
  PROVE  Changes(s, m, gs)
  BY DEF Changes

LEMMA InitTx ==
  ASSUME NEW s, IsLedger(s), NEW tx, IsTransaction(tx), NEW h,
         NEW m, InitOutcome(s, tx, h, m)
  PROVE  TxOutcome(s, tx, m)
<1>1. /\ tx.from \in Accounts
      /\ s.nonce \in [Accounts -> Nat] /\ s.pol \in [Accounts -> PolicySets]
      /\ s.bal \in [Accounts -> Nat]
  BY DEF IsLedger, IsTransaction
<1>2. /\ m.bal = s.bal /\ m.stake = s.stake /\ m.fin = s.fin
      /\ tx.from \notin s.open
      /\ m.open = s.open \cup {tx.from}
  BY DEF InitOutcome, Changes, Fields
<1>3. Grows(s, m)
  BY <1>2 DEF InitOutcome, Put, Grows
<1>4. ASSUME NEW a \in Accounts
      PROVE  m.nonce[a] = IF a = tx.from THEN s.nonce[a] + 1 ELSE s.nonce[a]
  BY <1>1, PlusAt DEF InitOutcome
<1>5. ASSUME NEW a \in Accounts \ {tx.from}
      PROVE  m.pol[a] = s.pol[a]
  <2> DEFINE q == SetPolModes(s.pol[tx.from], tx.modes, h)
  <2>1. m.pol = Put(s.pol, tx.from, q)
    BY DEF InitOutcome
  <2> HIDE DEF q
  <2> QED
    BY <1>1, <2>1 DEF Put
<1>6. ASSUME NEW a \in Accounts \ {tx.from}
      PROVE  Untouched(s, m, a)
  <2>1. m.nonce[a] = s.nonce[a] /\ m.bal[a] >= s.bal[a]
    BY <1>1, <1>2, <1>4
  <2> QED
    BY <1>2, <1>5, <2>1 DEF Untouched
<1>7. m.nonce[tx.from] >= s.nonce[tx.from]
  BY <1>1, <1>4
<1> QED
  BY <1>2, <1>3, <1>6, <1>7 DEF TxOutcome

(* The bodies other than Init and Policy move balances, stakes and the     *)
(* signer's nonce; nobody else's balance falls.                            *)
LEMMA ValueTx ==
  ASSUME NEW s, IsLedger(s), NEW tx, IsTransaction(tx), NEW m,
         Changes(s, m, {"bal", "stake", "nonce", "fees", "claimed", "pend",
                        "exported", "locks", "imported", "active"}),
         \A a \in Accounts \ {tx.from} : /\ m.stake[a] = s.stake[a]
                                         /\ m.bal[a] >= s.bal[a],
         m.nonce \in {s.nonce, Plus(s.nonce, tx.from, 1)}
  PROVE  TxOutcome(s, tx, m)
<1>1. tx.from \in Accounts /\ s.nonce \in [Accounts -> Nat]
  BY DEF IsLedger, IsTransaction
<1>2. Grows(s, m) /\ m.fin = s.fin /\ m.pol = s.pol
  BY ValueChanges
<1>3. ASSUME NEW a \in Accounts
      PROVE  /\ a # tx.from => m.nonce[a] = s.nonce[a]
             /\ m.nonce[a] >= s.nonce[a]
  <2>1. CASE m.nonce = s.nonce
    BY <1>1, <2>1
  <2>2. CASE m.nonce = Plus(s.nonce, tx.from, 1)
    BY <1>1, <2>2, PlusAt
  <2> QED
    BY <2>1, <2>2
<1> QED
  BY <1>1, <1>2, <1>3 DEF TxOutcome, Untouched

LEMMA PayTx ==
  ASSUME NEW s, IsLedger(s), NEW tx, IsTransaction(tx), tx.type = "transfer",
         NEW dst \in Accounts, s.bal[tx.from] >= tx.amount + tx.fee,
         NEW m, PayOutcome(s, tx, dst, m)
  PROVE  TxOutcome(s, tx, m)
<1>1. /\ tx.from \in Accounts /\ tx.amount \in Nat /\ tx.fee \in Nat
      /\ tx.amount + tx.fee \in Nat /\ s.bal \in [Accounts -> Nat]
  BY DEF IsLedger, IsTransaction
<1>2. Changes(s, m, {"bal", "stake", "nonce", "fees", "claimed", "pend",
                     "exported", "locks", "imported", "active"})
  BY ChangesMore DEF PayOutcome
<1>3. ASSUME NEW a \in Accounts \ {tx.from}
      PROVE  m.stake[a] = s.stake[a] /\ m.bal[a] >= s.bal[a]
  <2> DEFINE f == Minus(s.bal, tx.from, tx.amount + tx.fee)
  <2>1. f \in [Accounts -> Nat]
    BY <1>1, MinusType
  <2>2. f[a] = s.bal[a]
    BY <1>1, MinusAt
  <2>3. m.bal = Plus(f, dst, tx.amount) /\ m.stake = s.stake
    BY DEF PayOutcome, Moved, Changes, Fields
  <2> HIDE DEF f
  <2>4. m.bal[a] = IF a = dst THEN f[a] + tx.amount ELSE f[a]
    BY <1>1, <2>1, <2>3, PlusAt
  <2> QED
    BY <1>1, <2>1, <2>2, <2>3, <2>4
<1> QED
  BY <1>2, <1>3, ValueTx DEF PayOutcome

LEMMA EnqueueTx ==
  ASSUME NEW s, IsLedger(s), NEW tx, IsTransaction(tx),
         NEW dst, NEW h, NEW m, EnqueueOutcome(s, tx, dst, h, m)
  PROVE  TxOutcome(s, tx, m)
<1>1. Changes(s, m, {"bal", "stake", "nonce", "fees", "claimed", "pend",
                     "exported", "locks", "imported", "active"})
  BY ChangesMore DEF EnqueueOutcome
<1>2. m.bal = s.bal /\ m.stake = s.stake /\ m.nonce = s.nonce
  BY DEF EnqueueOutcome, Changes, Fields
<1>3. \A a \in Accounts : s.bal[a] \in Nat
  BY DEF IsLedger
<1>4. \A a \in Accounts : m.bal[a] >= s.bal[a]
  BY <1>2, <1>3
<1> QED
  BY <1>1, <1>2, <1>4, ValueTx

LEMMA StakeTx ==
  ASSUME NEW s, IsLedger(s), NEW tx, IsTransaction(tx), tx.type \in {"stake", "unstake"},
         NEW m, StakeOutcome(s, tx, m) \/ UnstakeOutcome(s, tx, m)
  PROVE  TxOutcome(s, tx, m)
<1>1. /\ tx.from \in Accounts /\ tx.amount \in Nat
      /\ s.bal \in [Accounts -> Nat] /\ s.stake \in [Accounts -> Nat]
  BY DEF IsLedger, IsTransaction
<1>2. Changes(s, m, {"bal", "stake", "nonce", "fees", "claimed", "pend",
                     "exported", "locks", "imported", "active"})
  BY ChangesMore DEF StakeOutcome, UnstakeOutcome
<1>3. ASSUME NEW a \in Accounts \ {tx.from}
      PROVE  m.stake[a] = s.stake[a] /\ m.bal[a] >= s.bal[a]
  <2>1. s.bal[a] \in Nat
    BY <1>1
  <2>2. CASE StakeOutcome(s, tx, m)
    <3>1. m.bal[a] = s.bal[a]
      BY <1>1, <2>2, MinusAt DEF StakeOutcome
    <3>2. m.stake[a] = s.stake[a]
      BY <1>1, <2>2, PlusAt DEF StakeOutcome
    <3> QED
      BY <2>1, <3>1, <3>2
  <2>3. CASE UnstakeOutcome(s, tx, m)
    <3>1. m.bal[a] = s.bal[a]
      <4>1. m.bal = Plus(s.bal, tx.from, tx.amount)
        BY <2>3 DEF UnstakeOutcome
      <4> QED
        BY <1>1, <4>1, PlusAt
    <3>2. m.stake[a] = s.stake[a]
      BY <1>1, <2>3, MinusAt DEF UnstakeOutcome
    <3> QED
      BY <2>1, <3>1, <3>2
  <2> QED
    BY <2>2, <2>3
<1>4. m.nonce = Plus(s.nonce, tx.from, 1)
  BY DEF StakeOutcome, UnstakeOutcome
<1> QED
  BY <1>2, <1>3, <1>4, ValueTx

LEMMA PlainTx ==
  ASSUME NEW s, IsLedger(s), NEW tx, IsTransaction(tx),
         NEW m, BurnOutcome(s, tx, m) \/ ClaimOutcome(s, tx, m)
  PROVE  TxOutcome(s, tx, m)
<1>1. tx.from \in Accounts /\ s.bal \in [Accounts -> Nat] /\ Allocation \in Nat
  BY ParametersAssumption DEF IsLedger, IsTransaction
<1>2. Changes(s, m, {"bal", "stake", "nonce", "fees", "claimed", "pend",
                     "exported", "locks", "imported", "active"})
  BY ChangesMore DEF BurnOutcome, ClaimOutcome
<1>3. m.stake = s.stake /\ m.nonce = Plus(s.nonce, tx.from, 1)
  BY DEF BurnOutcome, ClaimOutcome, Changes, Fields
<1>4. ASSUME NEW a \in Accounts \ {tx.from}
      PROVE  m.bal[a] = s.bal[a]
  <2>1. CASE BurnOutcome(s, tx, m)
    BY <2>1 DEF BurnOutcome, Changes, Fields
  <2>2. CASE ClaimOutcome(s, tx, m)
    BY <1>1, <2>2, PlusAt DEF ClaimOutcome
  <2> QED
    BY <2>1, <2>2
<1>5. ASSUME NEW a \in Accounts \ {tx.from}
      PROVE  m.stake[a] = s.stake[a] /\ m.bal[a] >= s.bal[a]
  BY <1>1, <1>3, <1>4
<1> QED
  BY <1>2, <1>3, <1>5, ValueTx

LEMMA ExportTx ==
  ASSUME NEW s, IsLedger(s), NEW tx, IsTransaction(tx), tx.type = "export",
         NEW h, NEW m, ExportOutcome(s, tx, h, m)
  PROVE  TxOutcome(s, tx, m)
<1>1. /\ tx.from \in Accounts /\ tx.amount + tx.fee \in Nat
      /\ s.bal \in [Accounts -> Nat]
  BY DEF IsLedger, IsTransaction
<1>2. Changes(s, m, {"bal", "stake", "nonce", "fees", "claimed", "pend",
                     "exported", "locks", "imported", "active"})
  BY ChangesMore DEF ExportOutcome
<1>3. /\ m.stake = s.stake /\ m.nonce = Plus(s.nonce, tx.from, 1)
      /\ m.bal = Minus(s.bal, tx.from, tx.amount + tx.fee)
  BY DEF ExportOutcome, Changes, Fields
<1>4. ASSUME NEW a \in Accounts \ {tx.from}
      PROVE  m.bal[a] = s.bal[a]
  BY <1>1, <1>3, MinusAt
<1>5. ASSUME NEW a \in Accounts \ {tx.from}
      PROVE  m.stake[a] = s.stake[a] /\ m.bal[a] >= s.bal[a]
  BY <1>1, <1>3, <1>4
<1> QED
  BY <1>2, <1>3, <1>5, ValueTx

LEMMA ImportTx ==
  ASSUME NEW s, IsLedger(s), NEW tx, IsTransaction(tx), tx.type = "import",
         NEW m, ImportOutcome(s, tx, m)
  PROVE  TxOutcome(s, tx, m)
<1>1. /\ tx.from \in Accounts /\ tx.to \in Accounts /\ tx.amount \in Nat /\ tx.fee \in Nat
      /\ s.bal \in [Accounts -> Nat]
  BY DEF IsLedger, IsTransaction
<1>2. Changes(s, m, {"bal", "stake", "nonce", "fees", "claimed", "pend",
                     "exported", "locks", "imported", "active"})
  BY ChangesMore DEF ImportOutcome
<1> DEFINE f == Minus(s.bal, tx.from, tx.fee)
<1>3. /\ m.stake = s.stake /\ m.nonce = Plus(s.nonce, tx.from, 1)
      /\ m.bal = Plus(f, tx.to, tx.amount)
      /\ s.bal[tx.from] >= tx.fee
  BY DEF ImportOutcome, ImportAllowed, Changes, Fields
<1>4. f \in [Accounts -> Nat]
  BY <1>1, <1>3, MinusType
<1>5. \A a \in Accounts \ {tx.from} : f[a] = s.bal[a]
  BY <1>1, MinusAt
<1> HIDE DEF f
<1>6. ASSUME NEW a \in Accounts \ {tx.from}
      PROVE  m.stake[a] = s.stake[a] /\ m.bal[a] >= s.bal[a]
  <2>1. Plus(f, tx.to, tx.amount)[a] = IF a = tx.to THEN f[a] + tx.amount ELSE f[a]
    BY <1>1, <1>4, PlusAt
  <2> QED
    BY <1>1, <1>3, <1>5, <2>1
<1> QED
  BY <1>2, <1>3, <1>6, ValueTx

LEMMA PolicyTx ==
  ASSUME NEW s, IsLedger(s), NEW tx, IsTransaction(tx), tx.type = "policy",
         NEW h, NEW m, PolicyOutcome(s, tx, h, m)
  PROVE  TxOutcome(s, tx, m)
<1> DEFINE paid == Minus(s.bal, tx.from, tx.fee)
           x == paid[tx.from] + s.stake[tx.from]
<1>1. /\ tx.from \in Accounts /\ tx.fee \in Nat /\ tx.target \in Accounts
      /\ s.bal \in [Accounts -> Nat] /\ s.stake \in [Accounts -> Nat]
      /\ s.nonce \in [Accounts -> Nat] /\ s.pol \in [Accounts -> PolicySets]
  BY DEF IsLedger, IsTransaction
<1>2. m.open = s.open /\ m.rescue = s.rescue
  BY DEF PolicyOutcome, Changes, Fields
<1>3. s.bal[tx.from] >= tx.fee
  BY <1>1 DEF PolicyOutcome
<1>4. paid \in [Accounts -> Nat]
  BY <1>1, <1>3, MinusType
<1>5. \A a \in Accounts \ {tx.from} : paid[a] = s.bal[a]
  BY <1>1, MinusAt
<1>6. \/ m.bal = paid /\ m.stake = s.stake
      \/ /\ m.bal = Plus(Put(paid, tx.from, 0), tx.target, x)
         /\ m.stake = Put(s.stake, tx.from, 0)
  BY DEF PolicyOutcome
<1>7. x \in Nat
  <2> HIDE DEF paid
  <2> QED
    BY <1>1, <1>4
<1> HIDE DEF paid, x
<1>8. ASSUME NEW a \in Accounts \ {tx.from}
      PROVE  m.stake[a] = s.stake[a] /\ m.bal[a] >= s.bal[a]
  <2>1. s.bal[a] \in Nat
    BY <1>1
  <2>2. CASE m.bal = paid /\ m.stake = s.stake
    BY <1>5, <2>1, <2>2
  <2>3. CASE /\ m.bal = Plus(Put(paid, tx.from, 0), tx.target, x)
             /\ m.stake = Put(s.stake, tx.from, 0)
    <3> DEFINE g == Put(paid, tx.from, 0)
    <3>1. m.stake[a] = s.stake[a]
      BY <1>1, <2>3 DEF Put
    <3>2. g[a] = s.bal[a]
      BY <1>4, <1>5 DEF Put
    <3>3. g \in [Accounts -> Nat]
      BY <1>1, <1>4 DEF Put
    <3> HIDE DEF g
    <3>4. Plus(g, tx.target, x)[a] = IF a = tx.target THEN g[a] + x ELSE g[a]
      BY <1>1, <1>7, <3>3, PlusAt
    <3>5. m.bal[a] = Plus(g, tx.target, x)[a]
      BY <2>3 DEF g
    <3> QED
      BY <1>7, <2>1, <3>1, <3>2, <3>4, <3>5
  <2> QED
    BY <1>6, <2>2, <2>3
<1>9. ASSUME NEW a \in Accounts
      PROVE  m.nonce[a] = IF a = tx.from THEN s.nonce[a] + 1 ELSE s.nonce[a]
  <2>1. m.nonce = Plus(s.nonce, tx.from, 1)
    BY DEF PolicyOutcome
  <2>2. Plus(s.nonce, tx.from, 1)[a] = IF a = tx.from THEN s.nonce[a] + 1 ELSE s.nonce[a]
    BY <1>1 DEF Plus
  <2> QED
    BY <2>1, <2>2
<1> DEFINE q == Apply(s.pol[tx.from], tx.action, h)
<1>10. m.pol = Put(s.pol, tx.from, q)
  BY DEF PolicyOutcome
<1>11. m.fin = s.fin \/ NowFinal(s, tx, m)
  <2>1. CASE Finalizes(s.pol[tx.from], tx.action)
    <3>1. m.fin = s.fin \cup {tx.from}
      BY <2>1 DEF PolicyOutcome
    <3>2. m.nonce[tx.from] > s.nonce[tx.from]
      BY <1>1, <1>9
    <3>3. Redirect \in q.active
      BY <1>1, <2>1, FinalizesActivates
    <3> HIDE DEF q
    <3>4. Redirect \in m.pol[tx.from].active
      BY <1>1, <1>10, <3>3 DEF Put
    <3>5. IsEmergency(tx.action)
      BY <2>1 DEF Finalizes, IsEmergency
    <3>6. PolicyTxValid(s, tx)
      BY DEF PolicyOutcome
    <3>7. /\ tx.from \in DOMAIN s.rescue
          /\ s.rescue[tx.from] \in s.open
          /\ SameHi(tx.from, s.rescue[tx.from])
      BY <3>5, <3>6 DEF PolicyTxValid
    <3> QED
      BY <3>1, <3>2, <3>4, <3>7 DEF NowFinal
  <2>2. CASE ~Finalizes(s.pol[tx.from], tx.action)
    BY <2>2 DEF PolicyOutcome
  <2> QED
    BY <2>1, <2>2
<1> HIDE DEF q
<1>12. ASSUME NEW a \in Accounts \ {tx.from}
       PROVE  Untouched(s, m, a)
  <2>1. m.pol[a] = s.pol[a]
    BY <1>1, <1>10 DEF Put
  <2> QED
    BY <1>8, <1>9, <2>1 DEF Untouched
<1>13. m.nonce[tx.from] >= s.nonce[tx.from]
  BY <1>1, <1>9
<1> QED
  BY <1>2, <1>11, <1>12, <1>13 DEF TxOutcome, Grows

(* A transaction that applies.                                             *)
LEMMA ApplyTxOutcome ==
  ASSUME NEW s, IsLedger(s), NEW tx, IsTransaction(tx), NEW h \in Nat, NEW skip,
         NEW m \in ApplyTx(s, tx, h, skip)
  PROVE  TxOutcome(s, tx, m)
<1>1. m \in Body(s, tx, h, skip) /\ s = AsLedger(s) /\ s.open \subseteq Accounts
  BY DEF ApplyTx, IsLedger
<1>2. tx.type \in TxTypes
  BY DEF IsTransaction
<1>3. CASE tx.type = "init"
  BY <1>1, <1>3, InitEffect, InitTx DEF Body
<1>4. CASE tx.type = "transfer"
  <2>1. PICK dst \in s.open :
          /\ s.bal[tx.from] >= tx.amount + tx.fee
          /\ m = IF tx.from \in ConservFlag THEN Enqueue(s, tx, dst, h) ELSE Pay(s, tx, dst)
    BY <1>1, <1>4 DEF Body, Transfer
  <2>2. CASE m = Pay(s, tx, dst)
    <3>1. PayOutcome(s, tx, dst, m)
      BY <1>1, <2>2, PayEffect
    <3> QED
      BY <1>1, <1>4, <2>1, <3>1, PayTx
  <2>3. CASE m = Enqueue(s, tx, dst, h)
    <3>1. EnqueueOutcome(s, tx, dst, h, m)
      BY <1>1, <2>3, EnqueueEffect
    <3> QED
      BY <3>1, EnqueueTx
  <2> QED
    BY <2>1, <2>2, <2>3
<1>5. CASE tx.type \in {"stake", "unstake"}
  <2>1. StakeOutcome(s, tx, m) \/ UnstakeOutcome(s, tx, m)
    BY <1>1, <1>5, StakeEffect, UnstakeEffect DEF Body
  <2> QED
    BY <1>5, <2>1, StakeTx
<1>6. CASE tx.type \in {"burn", "claim"}
  <2>1. BurnOutcome(s, tx, m) \/ ClaimOutcome(s, tx, m)
    BY <1>1, <1>6, BurnEffect, ClaimEffect DEF Body
  <2> QED
    BY <2>1, PlainTx
<1>7. CASE tx.type = "export"
  BY <1>1, <1>7, ExportEffect, ExportTx DEF Body
<1>8. CASE tx.type = "import"
  BY <1>1, <1>8, ImportEffect, ImportTx DEF Body
<1>9. CASE tx.type = "policy"
  BY <1>1, <1>9, PolicyEffect, PolicyTx DEF Body
<1> QED
  BY <1>2, <1>3, <1>4, <1>5, <1>6, <1>7, <1>8, <1>9 DEF TxTypes

-----------------------------------------------------------------------------
(* Types.  Rows are visited only while the block is drained: that no row   *)
(* disappears from the queue before its visit rests on it.                 *)

VisitsInDrain == phase # "drain" => visit = {}

TypeInv == TypeOK /\ VisitsInDrain

LEMMA HeightType ==
  ASSUME TypeOK
  PROVE  H \in Nat
  BY DEF TypeOK, H

LEMMA InitTypeInv == Init => TypeInv
  BY StartAssumption DEF Init, TypeInv, TypeOK, VisitsInDrain, Phases

LEMMA IncludeTypeInv ==
  ASSUME TypeInv, NEW tx \in Txs, NEW skip \in BOOLEAN, Include(tx, skip)
  PROVE  TypeInv'
<1>1. IsTransaction(tx) /\ IsLedger(l) /\ H \in Nat /\ issued \in Nat /\ visit = {}
  BY HeightType, TxsAssumption DEF TypeInv, TypeOK, VisitsInDrain, Include
<1>2. IsLedger(l')
  BY <1>1, ApplyTxType DEF Include
<1>3. Issued(tx) \in Nat
  BY <1>1, ParametersAssumption DEF Issued, IsTransaction
<1>4. issued' \in Nat
  BY <1>1, <1>3 DEF Include
<1> QED
  BY <1>1, <1>2, <1>4 DEF Include, TypeInv, TypeOK, VisitsInDrain

LEMMA NextTypeInv == TypeInv /\ [Next]_vars => TypeInv'
<1> SUFFICES ASSUME TypeInv, [Next]_vars
             PROVE  TypeInv'
  OBVIOUS
<1> USE DEF TypeInv, TypeOK, VisitsInDrain, Phases
<1>1. H \in Nat
  BY HeightType
<1>2. CASE UNCHANGED vars
  BY <1>2 DEF vars
<1>3. CASE BeginBlock
  <2>1. IsLedger(l')
    BY <1>3, RollType DEF BeginBlock
  <2>2. l'.pend = l.pend
    <3>1. RollOutcome(l, H, l')
      BY <1>3, RollEffect DEF BeginBlock, IsLedger
    <3> QED
      BY <3>1 DEF RollOutcome, Changes, Fields
  <2> QED
    BY <1>3, <2>1, <2>2 DEF BeginBlock
<1>4. CASE Refund
  <2>1. PICK id \in ExpiredLocks(l, H) : l' = RefundLock(l, id)
    BY <1>4 DEF Refund
  <2>2. IsLedger(l')
    BY <2>1, RefundType DEF ExpiredLocks
  <2> QED
    BY <1>4, <2>2 DEF Refund
<1>5. CASE RefundsDone
  BY <1>5 DEF RefundsDone
<1>6. ASSUME NEW type, IncludeType(type)
      PROVE  TypeInv'
  BY <1>6, IncludeTypeInv DEF IncludeType
<1>7. CASE CloseTxs
  BY <1>7 DEF CloseTxs
<1>8. CASE BeginDrain
  BY <1>8 DEF BeginDrain
<1>9. CASE Drain
  <2>1. PICK row \in visit :
          /\ l' \in IF DrainRoutes(l, row, H) = {} THEN {l}
                    ELSE {DrainRow(l, row, dst) : dst \in DrainRoutes(l, row, H)}
          /\ visit' = visit \ {row}
    BY <1>9 DEF Drain
  <2>2. CASE l' = l
    BY <1>9, <2>1, <2>2 DEF Drain
  <2>3. CASE l' # l
    <3>1. PICK dst \in DrainRoutes(l, row, H) : l' = DrainRow(l, row, dst)
      BY <2>1, <2>3
    <3>2. IsLedger(l')
      BY <2>1, <3>1, DrainType
    <3>3. DrainOutcome(l, row, dst, l')
      BY <3>1, DrainEffect DEF IsLedger
    <3>4. l'.pend = l.pend \ {row}
      BY <3>3 DEF DrainOutcome
    <3> QED
      BY <1>9, <2>1, <3>2, <3>4 DEF Drain
  <2> QED
    BY <2>2, <2>3
<1>10. CASE Seal
  <2>1. IsLedger(l') /\ PaidReward(l, Producer(l, H)) \in Nat
    BY <1>10, RewardType DEF Seal
  <2>2. issued' \in Nat
    BY <1>10, <2>1 DEF Seal
  <2> QED
    BY <1>1, <1>10, <2>1, <2>2 DEF Seal
<1> QED
  BY <1>2, <1>3, <1>4, <1>5, <1>6, <1>7, <1>8, <1>9, <1>10 DEF Next

(* The state of the chain and of the block under construction has its      *)
(* declared shape through every step of Chain::seal_entries: no balance,   *)
(* stake or fee pool is ever debited below zero, no transaction reaches    *)
(* outside the accounts of the shard.                                      *)
THEOREM TypeCorrect == Spec => []TypeOK
<1>1. TypeInv => TypeOK
  BY DEF TypeInv
<1> QED
  BY <1>1, InitTypeInv, NextTypeInv, PTL DEF Spec

-----------------------------------------------------------------------------
(* The six kinds of step: nothing, the epoch, a refund, a transaction, a   *)
(* drained row, and the reward that seals the block.                       *)

StepKind ==
    \/ l' = l /\ tip' = tip /\ issued' = issued
    \/ RollOutcome(l, H, l') /\ HasProducer(l') /\ tip' = tip /\ issued' = issued
    \/ \E id \in ExpiredLocks(l, H) :
          RefundOutcome(l, id, l') /\ tip' = tip /\ issued' = issued
    \/ \E tx \in Txs, skip \in BOOLEAN : Include(tx, skip)
    \/ \E row \in l.pend : \E dst \in DrainRoutes(l, row, H) :
          /\ row \in visit
          /\ DrainOutcome(l, row, dst, l') /\ tip' = tip /\ issued' = issued
    \/ /\ phase = "drain"
       /\ RewardOutcome(l, Producer(l, H), l') /\ tip' = l'
       /\ issued' = issued + PaidReward(l, Producer(l, H))

LEMMA StepCases ==
  ASSUME TypeInv, [Next]_vars
  PROVE  StepKind
<1>1. l = AsLedger(l) /\ visit \subseteq l.pend
  BY DEF TypeInv, TypeOK, IsLedger
<1>2. CASE UNCHANGED vars
  BY <1>2 DEF vars, StepKind
<1>3. CASE BeginBlock
  <2>1. RollOutcome(l, H, l')
    BY <1>1, <1>3, RollEffect DEF BeginBlock
  <2> QED
    BY <1>3, <2>1 DEF BeginBlock, StepKind
<1>4. CASE Refund
  <2>1. PICK id \in ExpiredLocks(l, H) : l' = RefundLock(l, id)
    BY <1>4 DEF Refund
  <2>2. RefundOutcome(l, id, l')
    BY <1>1, <2>1, RefundEffect
  <2> QED
    BY <1>4, <2>2 DEF Refund, StepKind
<1>5. CASE RefundsDone \/ CloseTxs \/ BeginDrain
  BY <1>5 DEF RefundsDone, CloseTxs, BeginDrain, StepKind
<1>6. ASSUME NEW type, IncludeType(type)
      PROVE  StepKind
  BY <1>6 DEF IncludeType, StepKind
<1>7. CASE Drain
  <2>1. PICK row \in visit :
          l' \in IF DrainRoutes(l, row, H) = {} THEN {l}
                 ELSE {DrainRow(l, row, dst) : dst \in DrainRoutes(l, row, H)}
    BY <1>7 DEF Drain
  <2>2. CASE l' = l
    BY <1>7, <2>2 DEF Drain, StepKind
  <2>3. CASE l' # l
    <3>1. PICK dst \in DrainRoutes(l, row, H) : l' = DrainRow(l, row, dst)
      BY <2>1, <2>3
    <3>2. DrainOutcome(l, row, dst, l')
      BY <1>1, <3>1, DrainEffect
    <3> QED
      BY <1>1, <1>7, <3>2 DEF Drain, StepKind
  <2> QED
    BY <2>2, <2>3
<1>8. CASE Seal
  <2>1. RewardOutcome(l, Producer(l, H), l')
    BY <1>1, <1>8, RewardEffect DEF Seal
  <2> QED
    BY <1>8, <2>1 DEF Seal, StepKind
<1> QED
  BY <1>2, <1>3, <1>4, <1>5, <1>6, <1>7, <1>8 DEF Next

(* The steps that are no transaction: they leave registrations, policies,  *)
(* stakes and finality alone, no nonce goes back, and a finalized account  *)
(* only receives.                                                          *)
BlockOutcome(s, m) ==
    /\ Changes(s, m, {"bal", "nonce", "fees", "pend", "locks", "imported", "active"})
    /\ \A a \in Accounts : m.nonce[a] >= s.nonce[a]
    /\ \A a \in s.fin : m.nonce[a] = s.nonce[a] /\ m.bal[a] >= s.bal[a]

LEMMA CreditGrows ==
  ASSUME NEW f \in [Accounts -> Nat], NEW a, NEW x \in Nat, NEW b \in Accounts
  PROVE  Plus(f, a, x)[b] >= f[b]
  BY DEF Plus

LEMMA RollBlock ==
  ASSUME NEW s, IsLedger(s), NEW m, NEW h, RollOutcome(s, h, m)
  PROVE  BlockOutcome(s, m)
<1>1. m.bal = s.bal /\ m.nonce = s.nonce
  BY DEF RollOutcome, Changes, Fields
<1>2. \A a \in Accounts : s.nonce[a] \in Nat /\ s.bal[a] \in Nat
  BY DEF IsLedger
<1>3. Changes(s, m, {"bal", "nonce", "fees", "pend", "locks", "imported", "active"})
  BY ChangesMore DEF RollOutcome
<1>4. s.fin \subseteq Accounts
  BY DEF IsLedger
<1> QED
  BY <1>1, <1>2, <1>3, <1>4 DEF BlockOutcome

\* A refund or a reward: somebody is credited.
LEMMA CreditBlock ==
  ASSUME NEW s, IsLedger(s), NEW m, NEW p, NEW x \in Nat, m.bal = Plus(s.bal, p, x),
         Changes(s, m, {"bal", "locks", "imported"})
  PROVE  BlockOutcome(s, m)
<1>1. m.nonce = s.nonce
  BY DEF Changes, Fields
<1>2. s.bal \in [Accounts -> Nat] /\ s.fin \subseteq Accounts
      /\ \A a \in Accounts : s.nonce[a] \in Nat
  BY DEF IsLedger
<1>3. \A a \in Accounts : m.bal[a] >= s.bal[a]
  BY <1>2, CreditGrows
<1>4. Changes(s, m, {"bal", "nonce", "fees", "pend", "locks", "imported", "active"})
  BY ChangesMore
<1> QED
  BY <1>1, <1>2, <1>3, <1>4 DEF BlockOutcome

\* Every balance but the sender's, and every nonce, after a row is drained.
LEMMA DrainValues ==
  ASSUME NEW s, IsLedger(s), NEW row \in s.pend, NEW h,
         NEW dst \in DrainRoutes(s, row, h), NEW m, DrainOutcome(s, row, dst, m)
  PROVE  /\ \A a \in Accounts : m.nonce[a] >= s.nonce[a]
         /\ \A a \in Accounts \ {row.sender} :
               m.nonce[a] = s.nonce[a] /\ m.bal[a] >= s.bal[a]
<1>1. /\ s.bal \in [Accounts -> Nat] /\ s.nonce \in [Accounts -> Nat]
      /\ s.open \subseteq Accounts /\ s.pend \subseteq PendingRows
  BY DEF IsLedger
<1>2. /\ row.sender \in Accounts /\ row.amount \in Nat /\ row.fee \in Nat
      /\ row.amount + row.fee \in Nat
  BY <1>1 DEF PendingRows
<1>3. dst \in Accounts /\ s.bal[row.sender] >= row.amount + row.fee
  BY <1>1 DEF DrainRoutes
<1> DEFINE f == Minus(s.bal, row.sender, row.amount + row.fee)
           g == Plus(s.nonce, row.sender, 1)
<1>4. f \in [Accounts -> Nat] /\ \A a \in Accounts \ {row.sender} : f[a] = s.bal[a]
  <2>1. f \in [Accounts -> Nat]
    BY <1>1, <1>2, <1>3, MinusType
  <2>2. \A a \in Accounts \ {row.sender} : f[a] = s.bal[a]
    BY <1>1 DEF Minus
  <2> QED
    BY <2>1, <2>2
<1>5. g \in [Accounts -> Nat]
      /\ \A a \in Accounts : g[a] = IF a = row.sender THEN s.nonce[a] + 1 ELSE s.nonce[a]
  <2>1. g \in [Accounts -> Nat]
    BY <1>1, PlusType
  <2>2. \A a \in Accounts : g[a] = IF a = row.sender THEN s.nonce[a] + 1 ELSE s.nonce[a]
    BY <1>1 DEF Plus
  <2> QED
    BY <2>1, <2>2
<1>6. /\ m.bal = Put(f, dst, s.bal[dst] + row.amount)
      /\ m.nonce = Put(g, dst, s.nonce[dst])
  BY DEF DrainOutcome
<1> HIDE DEF f, g
<1>7. \A a \in Accounts : m.bal[a] = IF a = dst THEN s.bal[dst] + row.amount ELSE f[a]
  BY <1>4, <1>6 DEF Put
<1>8. \A a \in Accounts : m.nonce[a] = IF a = dst THEN s.nonce[dst] ELSE g[a]
  BY <1>5, <1>6 DEF Put
<1> QED
  BY <1>1, <1>2, <1>4, <1>5, <1>7, <1>8

LEMMA DrainBlock ==
  ASSUME NEW s, IsLedger(s), NEW row \in s.pend, NEW h,
         NEW dst \in DrainRoutes(s, row, h), NEW m, DrainOutcome(s, row, dst, m)
  PROVE  BlockOutcome(s, m)
<1>1. row.sender \notin s.fin /\ s.fin \subseteq Accounts
  BY DEF DrainRoutes, IsLedger
<1>2. Changes(s, m, {"bal", "nonce", "fees", "pend", "locks", "imported", "active"})
  BY ChangesMore DEF DrainOutcome
<1> QED
  BY <1>1, <1>2, DrainValues DEF BlockOutcome

\* So a step is a transaction, a step of the block, or the seal of it.
LEMMA StepOutcomes ==
  ASSUME TypeInv, [Next]_vars
  PROVE  \/ \E tx \in Txs, skip \in BOOLEAN : Include(tx, skip)
         \/ (l' = l \/ BlockOutcome(l, l')) /\ tip' \in {tip, l'}
<1>1. StepKind /\ IsLedger(l) /\ IsLedger(l')
  BY StepCases, NextTypeInv DEF TypeInv, TypeOK
<1>2. CASE RollOutcome(l, H, l') /\ tip' = tip
  BY <1>1, <1>2, RollBlock
<1>3. ASSUME NEW id \in ExpiredLocks(l, H), RefundOutcome(l, id, l')
      PROVE  BlockOutcome(l, l')
  <2>1. l.locks[id].amount \in Nat
    BY <1>1 DEF IsLedger, ExpiredLocks, LockRows
  <2>2. /\ l'.bal = Plus(l.bal, l.locks[id].sender, l.locks[id].amount)
        /\ Changes(l, l', {"bal", "locks", "imported"})
    BY <1>3 DEF RefundOutcome
  <2> QED
    BY <1>1, <2>1, <2>2, CreditBlock
<1>4. ASSUME NEW row \in l.pend, NEW dst \in DrainRoutes(l, row, H),
             DrainOutcome(l, row, dst, l')
      PROVE  BlockOutcome(l, l')
  BY <1>1, <1>4, DrainBlock
<1>5. CASE RewardOutcome(l, Producer(l, H), l') /\ tip' = l'
  <2>1. PaidReward(l, Producer(l, H)) \in Nat
    BY <1>1, RewardType
  <2>2. /\ l'.bal = Plus(l.bal, Producer(l, H), PaidReward(l, Producer(l, H)))
        /\ Changes(l, l', {"bal"})
    BY <1>5 DEF RewardOutcome
  <2>3. Changes(l, l', {"bal", "locks", "imported"})
    BY <2>2, ChangesMore
  <2>4. BlockOutcome(l, l')
    BY <1>1, <2>1, <2>2, <2>3, CreditBlock
  <2> QED
    BY <1>5, <2>4
<1> QED
  BY <1>1, <1>2, <1>3, <1>4, <1>5 DEF StepKind

-----------------------------------------------------------------------------
(* Finality.  What is final in s: registered, redirecting, with a rescue   *)
(* account that can receive.                                               *)

FinalOK(s) ==
    \A a \in s.fin : /\ a \in s.open
                     /\ Redirect \in s.pol[a].active
                     /\ a \in DOMAIN s.rescue
                     /\ s.rescue[a] \in s.open
                     /\ SameHi(a, s.rescue[a])

(* The clone is ahead of the tip: an account finalized since the tip has   *)
(* spent a nonce since, which is what stops an entry that a worker checked *)
(* against the tip, and whose policies are not looked at again.            *)
Ahead(s, m) ==
    /\ s.open \subseteq m.open
    /\ \A a \in Accounts : m.nonce[a] >= s.nonce[a]
    /\ \A a \in m.fin \ s.fin : m.nonce[a] > s.nonce[a]

FinalInv == TypeInv /\ FinalOK(tip) /\ FinalOK(l) /\ Ahead(tip, l)

\* The gate of evaluate_policy leaves a final account its Init, at most.
LEMMA FinalCannotSign ==
  ASSUME NEW s, FinalOK(s), NEW tx, IsTransaction(tx), tx.from \in s.fin,
         NEW h, SenderAllowed(s, tx, h)
  PROVE  tx.type = "init" /\ tx.from \in s.open
<1>1. Redirect \in s.pol[tx.from].active /\ tx.from \in s.open
  BY DEF FinalOK
<1>2. ~FinalizedAllows(s.pol[tx.from], tx.action)
  BY <1>1 DEF FinalizedAllows
<1>3. ~FinalizedBlocks(s, tx)
  BY DEF SenderAllowed
<1> QED
  BY <1>1, <1>2, <1>3 DEF FinalizedBlocks

LEMMA InitNeedsNew ==
  ASSUME NEW s, NEW tx, tx.type = "init", NEW h, NEW skip, NEW m \in ApplyTx(s, tx, h, skip)
  PROVE  tx.from \notin s.open
  BY DEF ApplyTx, Body, InitAccount

(* No transaction of a final account is applied to a block, neither a raw  *)
(* one nor one that a worker checked against the tip s.                    *)
LEMMA SignerNotFinal ==
  ASSUME NEW s, IsLedger(s), FinalOK(s), NEW r, IsLedger(r), FinalOK(r), Ahead(s, r),
         NEW tx, IsTransaction(tx), NEW h, NEW skip \in BOOLEAN,
         NEW m \in ApplyTx(r, tx, h, skip), skip => PrecheckPasses(s, tx, h)
  PROVE  tx.from \notin r.fin
<1>1. tx.from \in Accounts /\ tx.nonce = r.nonce[tx.from]
  BY DEF IsTransaction, ApplyTx, Admitted
<1>2. s.nonce \in [Accounts -> Nat] /\ r.nonce \in [Accounts -> Nat]
  BY DEF IsLedger
<1>3. CASE skip = FALSE
  <2>1. SenderAllowed(r, tx, h)
    BY <1>3 DEF ApplyTx, Admitted
  <2> QED
    BY <2>1, FinalCannotSign, InitNeedsNew
<1>4. CASE skip = TRUE
  <2>1. SenderAllowed(s, tx, h - 1) /\ ApplyTx(s, tx, h, FALSE) # {}
    BY <1>4 DEF PrecheckPasses
  <2>2. tx.nonce = s.nonce[tx.from]
    BY <2>1 DEF ApplyTx, Admitted
  <2>3. tx.from \notin r.fin \ s.fin
    <3>1. ~(r.nonce[tx.from] > s.nonce[tx.from])
      BY <1>1, <1>2, <2>2
    <3> QED
      BY <3>1 DEF Ahead
  <2>4. tx.from \notin s.fin
    BY <2>1, FinalCannotSign, InitNeedsNew DEF Ahead
  <2> QED
    BY <2>3, <2>4
<1> QED
  BY <1>3, <1>4

LEMMA SenderNotFinal ==
  ASSUME FinalInv, NEW tx \in Txs, NEW skip \in BOOLEAN, Include(tx, skip)
  PROVE  tx.from \notin l.fin
<1>1. /\ IsLedger(tip) /\ IsLedger(l) /\ FinalOK(tip) /\ FinalOK(l) /\ Ahead(tip, l)
      /\ IsTransaction(tx)
  BY TxsAssumption DEF FinalInv, TypeInv, TypeOK
<1>2. l' \in ApplyTx(l, tx, H, skip) /\ (skip => PrecheckPasses(tip, tx, H))
  BY DEF Include
<1> QED
  BY <1>1, <1>2, SignerNotFinal

LEMMA InitFinalizesNobody ==
  ASSUME NEW s, IsLedger(s), NEW tx, NEW h, NEW skip, NEW m \in ApplyTx(s, tx, h, skip)
  PROVE  tx.from \in s.open \/ m.fin = s.fin
<1> SUFFICES ASSUME tx.from \notin s.open
             PROVE  m.fin = s.fin
  OBVIOUS
<1>1. m \in InitAccount(s, tx, h)
  BY DEF ApplyTx, Admitted, Body
<1>2. InitOutcome(s, tx, h, m)
  BY <1>1, InitEffect DEF IsLedger
<1> QED
  BY <1>2 DEF InitOutcome, Changes, Fields

LEMMA TxFinal ==
  ASSUME NEW s, IsLedger(s), FinalOK(s), NEW tx, NEW m, TxOutcome(s, tx, m),
         tx.from \notin s.fin, tx.from \in s.open \/ m.fin = s.fin
  PROVE  FinalOK(m)
<1>1. Grows(s, m) /\ s.fin \subseteq Accounts
  BY DEF TxOutcome, IsLedger
<1>2. ASSUME NEW a \in s.fin
      PROVE  /\ a \in m.open /\ Redirect \in m.pol[a].active
             /\ a \in DOMAIN m.rescue /\ m.rescue[a] \in m.open
             /\ SameHi(a, m.rescue[a])
  <2>1. m.pol[a] = s.pol[a]
    BY <1>1 DEF TxOutcome, Untouched
  <2> QED
    BY <1>1, <2>1 DEF FinalOK, Grows
<1>3. CASE m.fin = s.fin
  BY <1>2, <1>3 DEF FinalOK
<1>4. CASE NowFinal(s, tx, m) /\ tx.from \in s.open
  <2>1. /\ m.fin = s.fin \cup {tx.from}
        /\ Redirect \in m.pol[tx.from].active
        /\ tx.from \in DOMAIN s.rescue
        /\ s.rescue[tx.from] \in s.open
        /\ SameHi(tx.from, s.rescue[tx.from])
    BY <1>4 DEF NowFinal
  <2>2. tx.from \in DOMAIN m.rescue /\ m.rescue[tx.from] = s.rescue[tx.from]
    BY <1>1, <1>4, <2>1 DEF Grows
  <2>3. tx.from \in m.open
    BY <1>1, <1>4 DEF Grows
  <2> QED
    BY <1>1, <1>2, <2>1, <2>2, <2>3 DEF FinalOK, Grows
<1> QED
  BY <1>3, <1>4 DEF TxOutcome

LEMMA BlockFinal ==
  ASSUME NEW s, FinalOK(s), NEW m, BlockOutcome(s, m)
  PROVE  FinalOK(m) /\ m.fin = s.fin /\ m.open = s.open
<1>1. /\ m.fin = s.fin /\ m.open = s.open /\ m.pol = s.pol /\ m.rescue = s.rescue
  BY DEF BlockOutcome, Changes, Fields
<1> QED
  BY <1>1 DEF FinalOK

LEMMA TxAhead ==
  ASSUME NEW s, IsLedger(s), NEW m, NEW n, IsLedger(m), IsLedger(n), Ahead(s, m),
         NEW tx, tx.from \in Accounts, TxOutcome(m, tx, n)
  PROVE  Ahead(s, n)
<1>1. /\ \A a \in Accounts : s.nonce[a] \in Nat /\ m.nonce[a] \in Nat /\ n.nonce[a] \in Nat
      /\ m.fin \subseteq Accounts
  BY DEF IsLedger
<1>2. \A a \in Accounts : n.nonce[a] >= m.nonce[a]
  BY <1>1 DEF TxOutcome, Untouched
<1>3. \A a \in n.fin \ m.fin : a = tx.from /\ n.nonce[a] > m.nonce[a]
  BY DEF TxOutcome, NowFinal
<1>4. s.open \subseteq n.open
  BY DEF Ahead, TxOutcome, Grows
<1>5. ASSUME NEW a \in Accounts
      PROVE  n.nonce[a] >= s.nonce[a]
  BY <1>1, <1>2 DEF Ahead
<1>6. ASSUME NEW a \in n.fin \ s.fin
      PROVE  n.nonce[a] > s.nonce[a]
  <2>1. CASE a \in m.fin
    <3>1. m.nonce[a] > s.nonce[a] /\ a \in Accounts
      BY <1>1, <2>1 DEF Ahead
    <3> QED
      BY <1>1, <1>2, <3>1
  <2>2. CASE a \notin m.fin
    <3>1. a \in Accounts /\ n.nonce[a] > m.nonce[a]
      BY <1>3, <2>2
    <3>2. m.nonce[a] >= s.nonce[a]
      BY <3>1 DEF Ahead
    <3> QED
      BY <1>1, <3>1, <3>2
  <2> QED
    BY <2>1, <2>2
<1> QED
  BY <1>4, <1>5, <1>6 DEF Ahead

LEMMA BlockAhead ==
  ASSUME NEW s, IsLedger(s), NEW m, NEW n, IsLedger(m), IsLedger(n), Ahead(s, m),
         BlockOutcome(m, n)
  PROVE  Ahead(s, n)
<1>1. /\ \A a \in Accounts : s.nonce[a] \in Nat /\ m.nonce[a] \in Nat /\ n.nonce[a] \in Nat
      /\ m.fin \subseteq Accounts
  BY DEF IsLedger
<1>2. n.fin = m.fin /\ n.open = m.open
  BY DEF BlockOutcome, Changes, Fields
<1>3. ASSUME NEW a \in Accounts
      PROVE  n.nonce[a] >= s.nonce[a] /\ (m.nonce[a] > s.nonce[a] => n.nonce[a] > s.nonce[a])
  <2>1. n.nonce[a] >= m.nonce[a] /\ m.nonce[a] >= s.nonce[a]
    BY DEF BlockOutcome, Ahead
  <2> QED
    BY <1>1, <2>1
<1> QED
  BY <1>1, <1>2, <1>3 DEF Ahead

LEMMA SelfAhead ==
  ASSUME NEW s, IsLedger(s)
  PROVE  Ahead(s, s)
<1>1. \A a \in Accounts : s.nonce[a] \in Nat
  BY DEF IsLedger
<1> QED
  BY <1>1 DEF Ahead

LEMMA InitFinalInv == Init => FinalInv
<1> SUFFICES ASSUME Init
             PROVE  FinalInv
  OBVIOUS
<1>1. TypeInv
  BY InitTypeInv
<1>2. tip = Start /\ l = Start /\ IsLedger(Start) /\ Start.fin = {}
  BY StartAssumption DEF Init
<1> QED
  BY <1>1, <1>2, SelfAhead DEF FinalInv, FinalOK

\* What a transaction in a block does, for use under FinalInv.
LEMMA IncludeOutcome ==
  ASSUME FinalInv, NEW tx \in Txs, NEW skip \in BOOLEAN, Include(tx, skip)
  PROVE  /\ TxOutcome(l, tx, l')
         /\ tx.from \notin l.fin /\ tx.from \in Accounts
         /\ tx.from \in l.open \/ l'.fin = l.fin
         /\ tip' = tip
<1>1. IsTransaction(tx) /\ IsLedger(l) /\ H \in Nat
  BY TxsAssumption, HeightType DEF FinalInv, TypeInv, TypeOK
<1>2. l' \in ApplyTx(l, tx, H, skip)
  BY DEF Include
<1>3. TxOutcome(l, tx, l')
  BY <1>1, <1>2, ApplyTxOutcome
<1>4. tx.from \in l.open \/ l'.fin = l.fin
  BY <1>1, <1>2, InitFinalizesNobody
<1>5. tx.from \in Accounts /\ tip' = tip
  BY <1>1 DEF IsTransaction, Include
<1> QED
  BY <1>3, <1>4, <1>5, SenderNotFinal

LEMMA NextFinalInv == FinalInv /\ [Next]_vars => FinalInv'
<1> SUFFICES ASSUME FinalInv, [Next]_vars
             PROVE  FinalInv'
  OBVIOUS
<1>1. TypeInv'
  BY NextTypeInv DEF FinalInv
<1>2. /\ IsLedger(tip) /\ IsLedger(l) /\ IsLedger(l')
      /\ FinalOK(tip) /\ FinalOK(l) /\ Ahead(tip, l)
  BY <1>1 DEF FinalInv, TypeInv, TypeOK
<1>3. ASSUME NEW tx \in Txs, NEW skip \in BOOLEAN, Include(tx, skip)
      PROVE  FinalOK(tip') /\ FinalOK(l') /\ Ahead(tip', l')
  <2>1. /\ TxOutcome(l, tx, l') /\ tip' = tip
        /\ tx.from \notin l.fin /\ tx.from \in Accounts
        /\ tx.from \in l.open \/ l'.fin = l.fin
    BY <1>3, IncludeOutcome
  <2>2. FinalOK(l')
    BY <1>2, <2>1, TxFinal
  <2>3. Ahead(tip, l')
    BY <1>2, <2>1, TxAhead
  <2> QED
    BY <1>2, <2>1, <2>2, <2>3
<1>4. ASSUME (l' = l \/ BlockOutcome(l, l')) /\ tip' \in {tip, l'}
      PROVE  FinalOK(tip') /\ FinalOK(l') /\ Ahead(tip', l')
  <2>1. FinalOK(l') /\ Ahead(tip, l')
    BY <1>2, <1>4, BlockFinal, BlockAhead
  <2>2. Ahead(l', l')
    BY <1>2, SelfAhead
  <2>3. CASE tip' = tip
    BY <1>2, <2>1, <2>3
  <2>4. CASE tip' = l'
    BY <2>1, <2>2, <2>4
  <2> QED
    BY <1>4, <2>3, <2>4
<1>5. FinalOK(tip') /\ FinalOK(l') /\ Ahead(tip', l')
  BY <1>3, <1>4, StepOutcomes DEF FinalInv
<1> QED
  BY <1>1, <1>5 DEF FinalInv

(* Every finalized account redirects, at every height, to a registered     *)
(* rescue account of its own domain: the routing of RouteTo never finds an *)
(* account frozen without a way out for what is sent to it.                *)
THEOREM FinalizedRedirectsAlways == Spec => []FinalizedRedirects
<1>1. FinalInv => FinalizedRedirects
  BY DEF FinalInv, FinalOK, FinalizedRedirects
<1> QED
  BY <1>1, InitFinalInv, NextFinalInv, PTL DEF Spec

(* No step of any block moves a finalized account: not even an entry that  *)
(* a worker prechecked before the account became final, and that the block *)
(* applies without evaluating its policies.                                *)
THEOREM FinalizedStaysFrozen == Spec => FinalizedFrozen
<1>1. ASSUME FinalInv, [Next]_vars
      PROVE  [\A a \in l.fin : /\ a \in l'.fin
                               /\ l'.nonce[a] = l.nonce[a]
                               /\ l'.stake[a] = l.stake[a]
                               /\ l'.pol[a] = l.pol[a]
                               /\ l'.bal[a] >= l.bal[a]]_vars
  <2>1. l.fin \subseteq Accounts /\ \A a \in Accounts : l.bal[a] \in Nat
    BY <1>1 DEF FinalInv, TypeInv, TypeOK, IsLedger
  <2>2. ASSUME NEW tx \in Txs, NEW skip \in BOOLEAN, Include(tx, skip), NEW a \in l.fin
        PROVE  a \in l'.fin /\ Untouched(l, l', a)
    <3>1. TxOutcome(l, tx, l') /\ tx.from \notin l.fin
      BY <1>1, <2>2, IncludeOutcome
    <3> QED
      BY <2>1, <2>2, <3>1 DEF TxOutcome, NowFinal
  <2>3. ASSUME l' = l \/ BlockOutcome(l, l'), NEW a \in l.fin
        PROVE  a \in l'.fin /\ Untouched(l, l', a)
    <3>1. CASE l' = l
      BY <2>1, <3>1 DEF Untouched
    <3>2. CASE BlockOutcome(l, l')
      BY <2>1, <3>2 DEF BlockOutcome, Changes, Fields, Untouched
    <3> QED
      BY <2>3, <3>1, <3>2
  <2>4. \A a \in l.fin : a \in l'.fin /\ Untouched(l, l', a)
    BY <1>1, <2>2, <2>3, StepOutcomes DEF FinalInv
  <2> QED
    BY <2>4 DEF Untouched
<1> QED
  BY <1>1, InitFinalInv, NextFinalInv, PTL DEF Spec, FinalizedFrozen

-----------------------------------------------------------------------------
(* The conservation queue.                                                 *)

RowsOK(s) ==
    \A row \in s.pend :
        /\ row.sender \in (s.open \cap ConservFlag) \ s.fin
        /\ s.nonce[row.sender] = row.nonce
        /\ s.bal[row.sender] >= row.amount + row.fee
        /\ \A other \in s.pend : other.sender = row.sender => other = row

RowsInv == FinalInv /\ RowsOK(l)

(* What a transaction does to the queue: nothing, unless its sender has a  *)
(* row, and then only what pending_tx_conflict lets through; it cancels    *)
(* the sender's rows; or it appends the sender's first one.                *)
LEMMA QueueOutcome ==
  ASSUME NEW s, IsLedger(s), NEW tx, IsTransaction(tx), NEW h, NEW skip,
         NEW m \in ApplyTx(s, tx, h, skip)
  PROVE  \/ m.pend = s.pend /\ (HasPending(s, tx.from) => tx.from \notin ConservFlag)
         \/ /\ m.pend = {row \in s.pend : row.sender # tx.from}
            /\ m.nonce = Plus(s.nonce, tx.from, 1)
         \/ /\ tx.from \in ConservFlag \cap s.open /\ ~HasPending(s, tx.from)
            /\ tx.nonce = s.nonce[tx.from] /\ tx.from # tx.to
            /\ s.bal[tx.from] >= tx.amount + tx.fee
            /\ \E dst \in s.open : /\ dst = tx.to \/ dst \in RouteTo(s, tx.from, tx.to, h)
                                   /\ EnqueueOutcome(s, tx, dst, h, m)
<1>1. s = AsLedger(s) /\ tx.type \in TxTypes
  BY DEF IsLedger, IsTransaction
<1>2. /\ m \in Body(s, tx, h, skip)
      /\ tx.nonce = s.nonce[tx.from]
      /\ ~(HasPending(s, tx.from) /\ ConflictsWithPending(tx))
      /\ tx.from \in s.open \/ tx.type = "init"
  BY DEF ApplyTx, Admitted
<1>3. CASE tx.type = "transfer"
  <2>1. PICK dst \in s.open :
          /\ dst = tx.to \/ dst \in RouteTo(s, tx.from, tx.to, h)
          /\ tx.from # tx.to
          /\ s.bal[tx.from] >= tx.amount + tx.fee
          /\ ~(tx.from \in ConservFlag /\ HasPending(s, tx.from))
          /\ m = IF tx.from \in ConservFlag THEN Enqueue(s, tx, dst, h) ELSE Pay(s, tx, dst)
    BY <1>2, <1>3 DEF Body, Transfer
  <2>2. CASE tx.from \in ConservFlag
    <3>1. EnqueueOutcome(s, tx, dst, h, m)
      BY <1>1, <2>1, <2>2, EnqueueEffect
    <3> QED
      BY <1>2, <1>3, <2>1, <2>2, <3>1
  <2>3. CASE tx.from \notin ConservFlag
    <3>1. PayOutcome(s, tx, dst, m)
      BY <1>1, <2>1, <2>3, PayEffect
    <3>2. m.pend = s.pend
      BY <3>1 DEF PayOutcome, Changes, Fields
    <3> QED
      BY <2>3, <3>2
  <2> QED
    BY <2>2, <2>3
<1>4. CASE tx.type = "policy"
  <2>1. PolicyOutcome(s, tx, h, m)
    BY <1>1, <1>2, <1>4, PolicyEffect DEF Body
  <2>2. /\ m.pend = IF IsEmergency(tx.action)
                    THEN {row \in s.pend : row.sender # tx.from} ELSE s.pend
        /\ m.nonce = Plus(s.nonce, tx.from, 1)
    BY <2>1 DEF PolicyOutcome
  <2>3. ~IsEmergency(tx.action) => ~HasPending(s, tx.from)
    BY <1>2, <1>4 DEF ConflictsWithPending
  <2> QED
    BY <2>2, <2>3
<1>5. CASE tx.type \notin {"transfer", "policy"}
  <2>1. ~HasPending(s, tx.from)
    BY <1>2, <1>5 DEF ConflictsWithPending
  <2>2. CASE tx.type = "init"
    BY <1>1, <1>2, <2>1, <2>2, InitEffect DEF Body, InitOutcome, Changes, Fields
  <2>3. CASE tx.type = "stake"
    BY <1>1, <1>2, <2>1, <2>3, StakeEffect DEF Body, StakeOutcome, Changes, Fields
  <2>4. CASE tx.type = "unstake"
    BY <1>1, <1>2, <2>1, <2>4, UnstakeEffect DEF Body, UnstakeOutcome, Changes, Fields
  <2>5. CASE tx.type = "burn"
    BY <1>1, <1>2, <2>1, <2>5, BurnEffect DEF Body, BurnOutcome, Changes, Fields
  <2>6. CASE tx.type = "claim"
    <3>1. ClaimOutcome(s, tx, m)
      BY <1>1, <1>2, <2>6, ClaimEffect DEF Body
    <3> QED
      BY <2>1, <3>1 DEF ClaimOutcome, Changes, Fields
  <2>7. CASE tx.type = "export"
    <3>1. ExportOutcome(s, tx, h, m)
      BY <1>1, <1>2, <2>7, ExportEffect DEF Body
    <3> QED
      BY <2>1, <3>1 DEF ExportOutcome, Changes, Fields
  <2>8. CASE tx.type = "import"
    <3>1. ImportOutcome(s, tx, m)
      BY <1>1, <1>2, <2>8, ImportEffect DEF Body
    <3> QED
      BY <2>1, <3>1 DEF ImportOutcome, Changes, Fields
  <2> QED
    BY <1>1, <1>5, <2>2, <2>3, <2>4, <2>5, <2>6, <2>7, <2>8 DEF TxTypes
<1> QED
  BY <1>3, <1>4, <1>5

\* A row of another sender is as executable after the transaction as before.
LEMMA OthersRows ==
  ASSUME NEW s, IsLedger(s), RowsOK(s), NEW tx, NEW m, IsLedger(m), TxOutcome(s, tx, m),
         NEW row \in s.pend, row.sender # tx.from
  PROVE  /\ row.sender \in (m.open \cap ConservFlag) \ m.fin
         /\ m.nonce[row.sender] = row.nonce
         /\ m.bal[row.sender] >= row.amount + row.fee
<1>1. /\ row.sender \in Accounts /\ row.amount \in Nat /\ row.fee \in Nat
      /\ s.bal[row.sender] \in Nat /\ m.bal[row.sender] \in Nat
  BY DEF IsLedger, PendingRows
<1>2. /\ row.sender \in (s.open \cap ConservFlag) \ s.fin
      /\ s.nonce[row.sender] = row.nonce
      /\ s.bal[row.sender] >= row.amount + row.fee
  BY DEF RowsOK
<1>3. m.nonce[row.sender] = s.nonce[row.sender] /\ m.bal[row.sender] >= s.bal[row.sender]
  BY <1>1 DEF TxOutcome, Untouched
<1>4. row.sender \in m.open /\ row.sender \notin m.fin
  BY <1>2 DEF TxOutcome, Grows, NowFinal
<1>5. m.bal[row.sender] >= row.amount + row.fee
  BY <1>1, <1>2, <1>3
<1> QED
  BY <1>2, <1>3, <1>4, <1>5

LEMMA IncludeRows ==
  ASSUME RowsInv, NEW tx \in Txs, NEW skip \in BOOLEAN, Include(tx, skip)
  PROVE  RowsOK(l')
<1>1. /\ IsLedger(l) /\ IsLedger(l') /\ RowsOK(l) /\ IsTransaction(tx)
      /\ l' \in ApplyTx(l, tx, H, skip)
  BY IncludeTypeInv, TxsAssumption DEF RowsInv, FinalInv, TypeInv, TypeOK, Include
<1>2. TxOutcome(l, tx, l') /\ tx.from \notin l.fin
  BY IncludeOutcome DEF RowsInv
<1>3. \A row \in l.pend : row.sender # tx.from =>
        /\ row.sender \in (l'.open \cap ConservFlag) \ l'.fin
        /\ l'.nonce[row.sender] = row.nonce
        /\ l'.bal[row.sender] >= row.amount + row.fee
  BY <1>1, <1>2, OthersRows
<1>4. \A row, other \in l.pend : other.sender = row.sender => other = row
  BY <1>1 DEF RowsOK
<1>5. CASE l'.pend = l.pend /\ (HasPending(l, tx.from) => tx.from \notin ConservFlag)
  <2>1. \A row \in l.pend : row.sender # tx.from
    BY <1>1, <1>5 DEF RowsOK, HasPending
  <2> QED
    BY <1>3, <1>4, <1>5, <2>1 DEF RowsOK
<1>6. CASE l'.pend = {row \in l.pend : row.sender # tx.from}
  BY <1>3, <1>4, <1>6 DEF RowsOK
<1>7. CASE /\ tx.from \in ConservFlag \cap l.open /\ ~HasPending(l, tx.from)
           /\ tx.nonce = l.nonce[tx.from]
           /\ l.bal[tx.from] >= tx.amount + tx.fee
           /\ \E dst \in l.open : EnqueueOutcome(l, tx, dst, H, l')
  <2>1. PICK dst \in l.open : EnqueueOutcome(l, tx, dst, H, l')
    BY <1>7
  <2> DEFINE new == [sender |-> tx.from, to |-> dst, amount |-> tx.amount, fee |-> tx.fee,
                     nonce |-> tx.nonce, at |-> H + ConservDelay]
  <2>2. l'.pend = l.pend \cup {new}
    BY <2>1 DEF EnqueueOutcome
  <2>3. /\ l'.open = l.open /\ l'.fin = l.fin
        /\ l'.nonce = l.nonce /\ l'.bal = l.bal
    BY <2>1 DEF EnqueueOutcome, Changes, Fields
  <2>4. /\ new.sender = tx.from /\ new.nonce = tx.nonce
        /\ new.amount = tx.amount /\ new.fee = tx.fee
    OBVIOUS
  <2> HIDE DEF new
  <2>5. \A row \in l.pend : row.sender # tx.from
    BY <1>7 DEF HasPending
  <2>6. /\ new.sender \in (l'.open \cap ConservFlag) \ l'.fin
        /\ l'.nonce[new.sender] = new.nonce
        /\ l'.bal[new.sender] >= new.amount + new.fee
    BY <1>2, <1>7, <2>3, <2>4
  <2> QED
    BY <1>3, <1>4, <2>2, <2>4, <2>5, <2>6 DEF RowsOK
<1> QED
  BY <1>1, <1>5, <1>6, <1>7, QueueOutcome

\* The steps that move neither the queue nor a nonce, and only credit.
LEMMA CreditRows ==
  ASSUME NEW s, IsLedger(s), RowsOK(s), NEW m, IsLedger(m),
         m.open = s.open, m.fin = s.fin, m.pend = s.pend, m.nonce = s.nonce,
         \A a \in Accounts : m.bal[a] >= s.bal[a]
  PROVE  RowsOK(m)
<1>1. ASSUME NEW row \in s.pend
      PROVE  m.bal[row.sender] >= row.amount + row.fee
  <2>1. /\ row.sender \in Accounts /\ row.amount \in Nat /\ row.fee \in Nat
        /\ s.bal[row.sender] \in Nat /\ m.bal[row.sender] \in Nat
    BY DEF IsLedger, PendingRows
  <2>2. s.bal[row.sender] >= row.amount + row.fee
    BY DEF RowsOK
  <2> QED
    BY <2>1, <2>2
<1> QED
  BY <1>1 DEF RowsOK

LEMMA DrainRows ==
  ASSUME NEW s, IsLedger(s), RowsOK(s), NEW row \in s.pend, NEW h,
         NEW dst \in DrainRoutes(s, row, h), NEW m, IsLedger(m),
         DrainOutcome(s, row, dst, m)
  PROVE  RowsOK(m)
<1>1. m.pend = s.pend \ {row} /\ m.open = s.open /\ m.fin = s.fin
  BY DEF DrainOutcome, Changes, Fields
<1>2. \A a \in Accounts \ {row.sender} : m.nonce[a] = s.nonce[a] /\ m.bal[a] >= s.bal[a]
  BY DrainValues
<1>3. ASSUME NEW other \in m.pend
      PROVE  m.nonce[other.sender] = other.nonce
             /\ m.bal[other.sender] >= other.amount + other.fee
  <2>1. /\ other.sender \in Accounts /\ other.amount \in Nat /\ other.fee \in Nat
        /\ s.bal[other.sender] \in Nat /\ m.bal[other.sender] \in Nat
    BY DEF IsLedger, PendingRows
  <2>2. other \in s.pend /\ other.sender # row.sender
    BY <1>1 DEF RowsOK
  <2>3. s.bal[other.sender] >= other.amount + other.fee /\ s.nonce[other.sender] = other.nonce
    BY <2>2 DEF RowsOK
  <2> QED
    BY <1>2, <2>1, <2>2, <2>3
<1> QED
  BY <1>1, <1>3 DEF RowsOK

LEMMA NextRowsInv == RowsInv /\ [Next]_vars => RowsInv'
<1> SUFFICES ASSUME RowsInv, [Next]_vars
             PROVE  RowsInv'
  OBVIOUS
<1>1. FinalInv'
  BY NextFinalInv DEF RowsInv
<1>2. IsLedger(l) /\ IsLedger(l') /\ RowsOK(l) /\ StepKind
  BY <1>1, StepCases DEF RowsInv, FinalInv, TypeInv, TypeOK
<1>3. \A a \in Accounts : l.bal[a] \in Nat
  BY <1>2 DEF IsLedger
<1>4. ASSUME l' = l
      PROVE  RowsOK(l')
  BY <1>2, <1>4
<1>5. ASSUME RollOutcome(l, H, l')
      PROVE  RowsOK(l')
  <2>1. /\ l'.open = l.open /\ l'.fin = l.fin /\ l'.pend = l.pend
        /\ l'.nonce = l.nonce /\ l'.bal = l.bal
    BY <1>5 DEF RollOutcome, Changes, Fields
  <2> QED
    BY <1>2, <1>3, <2>1, CreditRows
<1>6. ASSUME NEW id \in ExpiredLocks(l, H), RefundOutcome(l, id, l')
      PROVE  RowsOK(l')
  <2>1. /\ l'.open = l.open /\ l'.fin = l.fin /\ l'.pend = l.pend /\ l'.nonce = l.nonce
        /\ l'.bal = Plus(l.bal, l.locks[id].sender, l.locks[id].amount)
    BY <1>6 DEF RefundOutcome, Changes, Fields
  <2>2. l.locks[id].amount \in Nat /\ l.bal \in [Accounts -> Nat]
    BY <1>2 DEF IsLedger, ExpiredLocks, LockRows
  <2>3. \A a \in Accounts : l'.bal[a] >= l.bal[a]
    BY <2>1, <2>2, CreditGrows
  <2> QED
    BY <1>2, <2>1, <2>3, CreditRows
<1>7. ASSUME NEW tx \in Txs, NEW skip \in BOOLEAN, Include(tx, skip)
      PROVE  RowsOK(l')
  BY <1>7, IncludeRows
<1>8. ASSUME NEW row \in l.pend, NEW dst \in DrainRoutes(l, row, H),
             DrainOutcome(l, row, dst, l')
      PROVE  RowsOK(l')
  BY <1>2, <1>8, DrainRows
<1>9. ASSUME RewardOutcome(l, Producer(l, H), l')
      PROVE  RowsOK(l')
  <2>1. /\ l'.open = l.open /\ l'.fin = l.fin /\ l'.pend = l.pend /\ l'.nonce = l.nonce
        /\ l'.bal = Plus(l.bal, Producer(l, H), PaidReward(l, Producer(l, H)))
    BY <1>9 DEF RewardOutcome, Changes, Fields
  <2>2. PaidReward(l, Producer(l, H)) \in Nat /\ l.bal \in [Accounts -> Nat]
    BY <1>2, RewardType DEF IsLedger
  <2>3. \A a \in Accounts : l'.bal[a] >= l.bal[a]
    BY <2>1, <2>2, CreditGrows
  <2> QED
    BY <1>2, <2>1, <2>3, CreditRows
<1>10. RowsOK(l')
  BY <1>2, <1>4, <1>5, <1>6, <1>7, <1>8, <1>9 DEF StepKind
<1> QED
  BY <1>1, <1>10 DEF RowsInv

(* A queued conservation transfer stays executable until it is drained or  *)
(* cancelled: no other transaction of its sender, raw or prevalidated, and *)
(* no step of a block takes its nonce or its funds away.                   *)
THEOREM PendingStaysExecutable == Spec => []PendingExecutable
<1>1. Init => RowsInv
  BY InitFinalInv, StartAssumption DEF Init, RowsInv, RowsOK
<1>2. RowsInv => PendingExecutable
  BY DEF RowsInv, RowsOK, PendingExecutable
<1> QED
  BY <1>1, <1>2, NextRowsInv, PTL DEF Spec

-----------------------------------------------------------------------------
(* The escrow of cross-shard exports.  A consumed or registered id is that *)
(* of a lock of this chain, or of an export from another one.              *)

EscrowOK(s) ==
    /\ \A id \in DOMAIN s.locks : s.locks[id].state = "Locked" <=> id \notin s.imported
    /\ s.imported \subseteq DOMAIN s.locks \cup Foreign \X Nat
    /\ DOMAIN s.exported \subseteq DOMAIN s.locks \cup Foreign \X Nat

EscrowInv ==
    /\ TypeInv
    /\ EscrowOK(tip) /\ EscrowOK(l)
    /\ DOMAIN tip.locks \subseteq DOMAIN l.locks

LEMMA SameEscrow ==
  ASSUME NEW s, EscrowOK(s), NEW m, m.locks = s.locks,
         m.exported = s.exported, m.imported = s.imported
  PROVE  EscrowOK(m) /\ DOMAIN s.locks \subseteq DOMAIN m.locks
  BY DEF EscrowOK

LEMMA RefundEscrow ==
  ASSUME NEW s, EscrowOK(s), NEW id \in DOMAIN s.locks, IsLedger(s),
         NEW m, RefundOutcome(s, id, m)
  PROVE  EscrowOK(m) /\ DOMAIN s.locks \subseteq DOMAIN m.locks
<1> DEFINE row == [s.locks[id] EXCEPT !.state = "Refunded"]
<1>1. row.state = "Refunded"
  BY DEF IsLedger, LockRows
<1>2. /\ m.locks = Put(s.locks, id, row) /\ m.imported = s.imported \cup {id}
      /\ m.exported = s.exported
  BY DEF RefundOutcome, Changes, Fields
<1> HIDE DEF row
<1>3. /\ DOMAIN m.locks = DOMAIN s.locks
      /\ \A i \in DOMAIN s.locks : m.locks[i] = IF i = id THEN row ELSE s.locks[i]
  BY <1>2 DEF Put
<1> QED
  BY <1>1, <1>2, <1>3 DEF EscrowOK

LEMMA ExportEscrow ==
  ASSUME NEW s, EscrowOK(s), NEW tx, IsTransaction(tx), NEW h,
         NEW m, ExportOutcome(s, tx, h, m)
  PROVE  EscrowOK(m) /\ DOMAIN s.locks \subseteq DOMAIN m.locks
<1> DEFINE id == ExportId(tx)
           row == [sender |-> tx.from, amount |-> tx.amount,
                   unlock |-> h + LockTimeout, state |-> "Locked"]
           rec == [to |-> tx.to, hi |-> tx.hi, amount |-> tx.amount]
<1>1. id \notin Foreign \X Nat
  BY AccountsAssumption DEF ExportId, IsTransaction
<1>2. row.state = "Locked"
  OBVIOUS
<1>3. /\ m.imported = s.imported
      /\ m.exported = s.exported \/ m.exported = Put(s.exported, id, rec)
      /\ IF id \in DOMAIN s.locks THEN m.locks = s.locks
         ELSE m.locks = Put(s.locks, id, row)
  BY DEF ExportOutcome, Changes, Fields
<1> HIDE DEF id, row, rec
<1>4. DOMAIN m.exported \subseteq DOMAIN s.exported \cup {id}
  BY <1>3 DEF Put
<1>5. CASE id \in DOMAIN s.locks
  BY <1>3, <1>4, <1>5 DEF EscrowOK
<1>6. CASE id \notin DOMAIN s.locks
  <2>1. /\ DOMAIN m.locks = DOMAIN s.locks \cup {id}
        /\ \A i \in DOMAIN m.locks : m.locks[i] = IF i = id THEN row ELSE s.locks[i]
    BY <1>3, <1>6 DEF Put
  <2>2. id \notin s.imported
    BY <1>1, <1>6 DEF EscrowOK
  <2> QED
    BY <1>2, <1>3, <1>4, <2>1, <2>2 DEF EscrowOK
<1> QED
  BY <1>5, <1>6

LEMMA ImportEscrow ==
  ASSUME NEW s, EscrowOK(s), IsLedger(s), NEW tx, NEW m, ImportOutcome(s, tx, m),
         tx.id \in DOMAIN s.locks \cup Foreign \X Nat
  PROVE  EscrowOK(m) /\ DOMAIN s.locks \subseteq DOMAIN m.locks
<1>1. /\ DOMAIN m.locks = DOMAIN s.locks
      /\ m.imported = s.imported \cup {tx.id}
      /\ DOMAIN m.exported = DOMAIN s.exported \cup {tx.id}
  BY DEF ImportOutcome, Put
<1>2. ASSUME NEW i \in DOMAIN s.locks
      PROVE  /\ i # tx.id => m.locks[i] = s.locks[i]
             /\ i = tx.id => m.locks[i].state # "Locked"
  <2>1. m.locks[i] = IF i = tx.id /\ s.locks[i].state = "Locked"
                     THEN [s.locks[i] EXCEPT !.state = "Released"] ELSE s.locks[i]
    BY DEF ImportOutcome
  <2>2. [s.locks[i] EXCEPT !.state = "Released"].state = "Released"
    BY DEF IsLedger, LockRows
  <2> QED
    BY <2>1, <2>2
<1> QED
  BY <1>1, <1>2 DEF EscrowOK

LEMMA IncludeEscrow ==
  ASSUME EscrowInv, NEW tx \in Txs, NEW skip \in BOOLEAN, Include(tx, skip)
  PROVE  EscrowOK(l') /\ DOMAIN l.locks \subseteq DOMAIN l'.locks
<1>1. /\ l = AsLedger(l) /\ IsLedger(l) /\ EscrowOK(l) /\ EscrowOK(tip)
      /\ DOMAIN tip.locks \subseteq DOMAIN l.locks
      /\ IsTransaction(tx) /\ tx.type \in TxTypes
  BY TxsAssumption DEF EscrowInv, TypeInv, TypeOK, IsLedger, IsTransaction
<1>2. l' \in Body(l, tx, H, skip)
  BY DEF Include, ApplyTx
<1>3. CASE tx.type = "export"
  <2>1. ExportOutcome(l, tx, H, l')
    BY <1>1, <1>2, <1>3, ExportEffect DEF Body
  <2> QED
    BY <1>1, <2>1, ExportEscrow
<1>4. CASE tx.type = "import"
  <2>1. ImportOutcome(l, tx, l')
    BY <1>1, <1>2, <1>4, ImportEffect DEF Body
  <2>2. tx.id \in DOMAIN tip.exported \cup DOMAIN Facts
    BY <1>4 DEF Include, ImportKnown
  <2>3. tx.id \in DOMAIN l.locks \cup Foreign \X Nat
    BY <1>1, <2>2, FactsAssumption DEF EscrowOK
  <2> QED
    BY <1>1, <2>1, <2>3, ImportEscrow
<1>5. CASE tx.type \notin {"export", "import"}
  <2>1. l'.locks = l.locks /\ l'.exported = l.exported /\ l'.imported = l.imported
    <3>1. CASE tx.type = "init"
      <4>1. InitOutcome(l, tx, H, l')
        BY <1>1, <1>2, <3>1, InitEffect DEF Body
      <4> QED
        BY <4>1 DEF InitOutcome, Changes, Fields
    <3>2. CASE tx.type = "transfer"
      <4>1. PICK dst : l' \in {Pay(l, tx, dst), Enqueue(l, tx, dst, H)}
        BY <1>2, <3>2 DEF Body, Transfer
      <4>2. PayOutcome(l, tx, dst, l') \/ EnqueueOutcome(l, tx, dst, H, l')
        BY <1>1, <4>1, PayEffect, EnqueueEffect
      <4> QED
        BY <4>2 DEF PayOutcome, EnqueueOutcome, Changes, Fields
    <3>3. CASE tx.type \in {"stake", "unstake"}
      <4>1. StakeOutcome(l, tx, l') \/ UnstakeOutcome(l, tx, l')
        BY <1>1, <1>2, <3>3, StakeEffect, UnstakeEffect DEF Body
      <4> QED
        BY <4>1 DEF StakeOutcome, UnstakeOutcome, Changes, Fields
    <3>4. CASE tx.type \in {"burn", "claim"}
      <4>1. BurnOutcome(l, tx, l') \/ ClaimOutcome(l, tx, l')
        BY <1>1, <1>2, <3>4, BurnEffect, ClaimEffect DEF Body
      <4> QED
        BY <4>1 DEF BurnOutcome, ClaimOutcome, Changes, Fields
    <3>5. CASE tx.type = "policy"
      <4>1. PolicyOutcome(l, tx, H, l')
        BY <1>1, <1>2, <3>5, PolicyEffect DEF Body
      <4> QED
        BY <4>1 DEF PolicyOutcome, Changes, Fields
    <3> QED
      BY <1>1, <1>5, <3>1, <3>2, <3>3, <3>4, <3>5 DEF TxTypes
  <2> QED
    BY <1>1, <2>1, SameEscrow
<1> QED
  BY <1>3, <1>4, <1>5

LEMMA NextEscrowInv == EscrowInv /\ [Next]_vars => EscrowInv'
<1> SUFFICES ASSUME EscrowInv, [Next]_vars
             PROVE  EscrowInv'
  OBVIOUS
<1>1. /\ TypeInv /\ TypeInv' /\ IsLedger(l) /\ StepKind
      /\ EscrowOK(tip) /\ EscrowOK(l) /\ DOMAIN tip.locks \subseteq DOMAIN l.locks
  BY NextTypeInv, StepCases DEF EscrowInv, TypeInv, TypeOK
<1> DEFINE Goal == EscrowOK(l') /\ DOMAIN l.locks \subseteq DOMAIN l'.locks
<1>2. ASSUME l'.locks = l.locks, l'.exported = l.exported, l'.imported = l.imported
      PROVE  Goal
  BY <1>1, <1>2, SameEscrow
<1>3. ASSUME RollOutcome(l, H, l')
      PROVE  Goal
  BY <1>2, <1>3 DEF RollOutcome, Changes, Fields
<1>4. ASSUME NEW id \in ExpiredLocks(l, H), RefundOutcome(l, id, l')
      PROVE  Goal
  BY <1>1, <1>4, RefundEscrow DEF ExpiredLocks
<1>5. ASSUME NEW tx \in Txs, NEW skip \in BOOLEAN, Include(tx, skip)
      PROVE  Goal /\ tip' = tip
  BY <1>5, IncludeEscrow DEF Include
<1>6. ASSUME NEW row, NEW dst, DrainOutcome(l, row, dst, l')
      PROVE  Goal
  BY <1>2, <1>6 DEF DrainOutcome, Changes, Fields
<1>7. ASSUME RewardOutcome(l, Producer(l, H), l')
      PROVE  Goal
  BY <1>2, <1>7 DEF RewardOutcome, Changes, Fields
<1> HIDE DEF Goal
<1>8. CASE l' = l /\ tip' = tip
  BY <1>1, <1>8 DEF EscrowInv
<1>9. CASE l' # l \/ tip' # tip
  <2>1. Goal /\ tip' \in {tip, l'}
    BY <1>1, <1>3, <1>4, <1>5, <1>6, <1>7, <1>9 DEF StepKind
  <2>2. CASE tip' = tip
    BY <1>1, <2>1, <2>2 DEF EscrowInv, Goal
  <2>3. CASE tip' = l'
    BY <1>1, <2>1, <2>3 DEF EscrowInv, Goal
  <2> QED
    BY <2>1, <2>2, <2>3
<1> QED
  BY <1>8, <1>9

(* The value of an export is handed out once, in every shard and for every *)
(* interleaving of imports, timeouts and repeated exports: a lock is open  *)
(* exactly as long as neither an import nor a refund consumed its id.      *)
THEOREM EscrowIsExclusive == Spec => []EscrowExclusive
<1>1. Init => EscrowInv
  BY InitTypeInv, StartAssumption DEF Init, EscrowInv, EscrowOK
<1>2. EscrowInv => EscrowExclusive
  BY DEF EscrowInv, EscrowOK, EscrowExclusive
<1> QED
  BY <1>1, <1>2, NextEscrowInv, PTL DEF Spec

-----------------------------------------------------------------------------
(* What a step of the chain does to the locks.                             *)

KeptBut(id) ==
    \A i \in DOMAIN l.locks \ {id} : l'.locks[i].state = l.locks[i].state

LocksStand == /\ DOMAIN l'.locks = DOMAIN l.locks
        /\ \A i \in DOMAIN l.locks : l'.locks[i].state = l.locks[i].state

OpensLock(id) == /\ id \in SignedExports \ DOMAIN l.locks
              /\ DOMAIN l'.locks = DOMAIN l.locks \cup {id}
              /\ l'.locks[id].state = "Locked"
              /\ KeptBut(id)

ClosesLock(id, state) == /\ id \in DOMAIN l.locks
                     /\ l.locks[id].state = "Locked"
                     /\ DOMAIN l'.locks = DOMAIN l.locks
                     /\ l'.locks[id].state = state
                     /\ KeptBut(id)

LockStep == \/ LocksStand
            \/ \E id : OpensLock(id)
            \/ \E id : ClosesLock(id, "Released") \/ ClosesLock(id, "Refunded")

LEMMA ExportLockStep ==
  ASSUME NEW tx \in Txs, tx.type = "export", ExportOutcome(l, tx, H, l')
  PROVE  LockStep
<1> DEFINE id == ExportId(tx)
           row == [sender |-> tx.from, amount |-> tx.amount,
                   unlock |-> H + LockTimeout, state |-> "Locked"]
<1>1. IF id \in DOMAIN l.locks THEN l'.locks = l.locks ELSE l'.locks = Put(l.locks, id, row)
  BY DEF ExportOutcome
<1>2. id \in SignedExports
  BY DEF SignedExports
<1>3. row.state = "Locked"
  OBVIOUS
<1> HIDE DEF id, row
<1>4. CASE id \in DOMAIN l.locks
  BY <1>1, <1>4 DEF LockStep, LocksStand
<1>5. CASE id \notin DOMAIN l.locks
  <2>1. /\ DOMAIN l'.locks = DOMAIN l.locks \cup {id}
        /\ \A i \in DOMAIN l'.locks : l'.locks[i] = IF i = id THEN row ELSE l.locks[i]
    BY <1>1, <1>5 DEF Put
  <2>2. OpensLock(id)
    BY <1>2, <1>3, <1>5, <2>1 DEF OpensLock, KeptBut
  <2> QED
    BY <2>2 DEF LockStep
<1> QED
  BY <1>4, <1>5

LEMMA ImportLockStep ==
  ASSUME IsLedger(l), NEW tx, ImportOutcome(l, tx, l')
  PROVE  LockStep
<1>1. /\ DOMAIN l'.locks = DOMAIN l.locks
      /\ \A i \in DOMAIN l.locks :
           l'.locks[i] = IF i = tx.id /\ l.locks[i].state = "Locked"
                         THEN [l.locks[i] EXCEPT !.state = "Released"] ELSE l.locks[i]
  BY DEF ImportOutcome
<1>2. CASE tx.id \in DOMAIN l.locks /\ l.locks[tx.id].state = "Locked"
  <2>1. [l.locks[tx.id] EXCEPT !.state = "Released"].state = "Released"
    BY <1>2 DEF IsLedger, LockRows
  <2>2. ClosesLock(tx.id, "Released")
    BY <1>1, <1>2, <2>1 DEF ClosesLock, KeptBut
  <2> QED
    BY <2>2 DEF LockStep
<1>3. CASE ~(tx.id \in DOMAIN l.locks /\ l.locks[tx.id].state = "Locked")
  BY <1>1, <1>3 DEF LockStep, LocksStand
<1> QED
  BY <1>2, <1>3

LEMMA RefundLockStep ==
  ASSUME IsLedger(l), NEW id \in ExpiredLocks(l, H), RefundOutcome(l, id, l')
  PROVE  LockStep
<1> DEFINE row == [l.locks[id] EXCEPT !.state = "Refunded"]
<1>1. id \in DOMAIN l.locks /\ l.locks[id].state = "Locked"
  BY DEF ExpiredLocks
<1>2. row.state = "Refunded"
  BY <1>1 DEF IsLedger, LockRows
<1>3. l'.locks = Put(l.locks, id, row)
  BY DEF RefundOutcome
<1> HIDE DEF row
<1>4. /\ DOMAIN l'.locks = DOMAIN l.locks
      /\ \A i \in DOMAIN l.locks : l'.locks[i] = IF i = id THEN row ELSE l.locks[i]
  BY <1>1, <1>3 DEF Put
<1>5. ClosesLock(id, "Refunded")
  BY <1>1, <1>2, <1>4 DEF ClosesLock, KeptBut
<1> QED
  BY <1>5 DEF LockStep

LEMMA OtherTxKeepsLocks ==
  ASSUME NEW s, s = AsLedger(s), NEW tx, NEW h, NEW skip, NEW m \in Body(s, tx, h, skip),
         tx.type \in TxTypes \ {"export", "import"}
  PROVE  m.locks = s.locks
<1>1. CASE tx.type = "init"
  <2>1. InitOutcome(s, tx, h, m)
    BY <1>1, InitEffect DEF Body
  <2> QED
    BY <2>1 DEF InitOutcome, Changes, Fields
<1>2. CASE tx.type = "transfer"
  <2>1. PICK dst : m \in {Pay(s, tx, dst), Enqueue(s, tx, dst, h)}
    BY <1>2 DEF Body, Transfer
  <2>2. PayOutcome(s, tx, dst, m) \/ EnqueueOutcome(s, tx, dst, h, m)
    BY <2>1, PayEffect, EnqueueEffect
  <2> QED
    BY <2>2 DEF PayOutcome, EnqueueOutcome, Changes, Fields
<1>3. CASE tx.type \in {"stake", "unstake"}
  <2>1. StakeOutcome(s, tx, m) \/ UnstakeOutcome(s, tx, m)
    BY <1>3, StakeEffect, UnstakeEffect DEF Body
  <2> QED
    BY <2>1 DEF StakeOutcome, UnstakeOutcome, Changes, Fields
<1>4. CASE tx.type \in {"burn", "claim"}
  <2>1. BurnOutcome(s, tx, m) \/ ClaimOutcome(s, tx, m)
    BY <1>4, BurnEffect, ClaimEffect DEF Body
  <2> QED
    BY <2>1 DEF BurnOutcome, ClaimOutcome, Changes, Fields
<1>5. CASE tx.type = "policy"
  <2>1. PolicyOutcome(s, tx, h, m)
    BY <1>5, PolicyEffect DEF Body
  <2> QED
    BY <2>1 DEF PolicyOutcome, Changes, Fields
<1> QED
  BY <1>1, <1>2, <1>3, <1>4, <1>5 DEF TxTypes

LEMMA IncludeLockStep ==
  ASSUME EscrowInv, NEW tx \in Txs, NEW skip \in BOOLEAN, Include(tx, skip)
  PROVE  LockStep
<1>1. /\ l = AsLedger(l) /\ IsLedger(l)
      /\ IsTransaction(tx) /\ tx.type \in TxTypes
  BY TxsAssumption DEF EscrowInv, TypeInv, TypeOK, IsLedger, IsTransaction
<1>2. l' \in Body(l, tx, H, skip)
  BY DEF Include, ApplyTx
<1>3. CASE tx.type = "export"
  <2>1. ExportOutcome(l, tx, H, l')
    BY <1>1, <1>2, <1>3, ExportEffect DEF Body
  <2> QED
    BY <1>3, <2>1, ExportLockStep
<1>4. CASE tx.type = "import"
  <2>1. ImportOutcome(l, tx, l')
    BY <1>1, <1>2, <1>4, ImportEffect DEF Body
  <2> QED
    BY <1>1, <2>1, ImportLockStep
<1>5. CASE tx.type \notin {"export", "import"}
  <2>1. l'.locks = l.locks
    BY <1>1, <1>2, <1>5, OtherTxKeepsLocks
  <2> QED
    BY <2>1 DEF LockStep, LocksStand
<1> QED
  BY <1>3, <1>4, <1>5

LEMMA NextLockStep ==
  ASSUME EscrowInv, [Next]_vars
  PROVE  LockStep
<1>1. IsLedger(l) /\ StepKind
  BY StepCases DEF EscrowInv, TypeInv, TypeOK
<1>2. ASSUME l'.locks = l.locks
      PROVE  LockStep
  BY <1>2 DEF LockStep, LocksStand
<1>3. ASSUME RollOutcome(l, H, l')
      PROVE  LockStep
  BY <1>2, <1>3 DEF RollOutcome, Changes, Fields
<1>4. ASSUME NEW id \in ExpiredLocks(l, H), RefundOutcome(l, id, l')
      PROVE  LockStep
  BY <1>1, <1>4, RefundLockStep
<1>5. ASSUME NEW tx \in Txs, NEW skip \in BOOLEAN, Include(tx, skip)
      PROVE  LockStep
  BY <1>5, IncludeLockStep
<1>6. ASSUME NEW row, NEW dst, DrainOutcome(l, row, dst, l')
      PROVE  LockStep
  BY <1>2, <1>6 DEF DrainOutcome, Changes, Fields
<1>7. ASSUME RewardOutcome(l, Producer(l, H), l')
      PROVE  LockStep
  BY <1>2, <1>7 DEF RewardOutcome, Changes, Fields
<1> QED
  BY <1>1, <1>2, <1>3, <1>4, <1>5, <1>6, <1>7 DEF StepKind

-----------------------------------------------------------------------------
(* The refinement.                                                         *)

ModeBInv == EscrowInv /\ DOMAIN l.locks \subseteq SignedExports

LEMMA NextModeBInv == ModeBInv /\ [Next]_vars => ModeBInv'
<1> SUFFICES ASSUME ModeBInv, [Next]_vars
             PROVE  ModeBInv'
  OBVIOUS
<1>1. EscrowInv'
  BY NextEscrowInv DEF ModeBInv
<1>2. LockStep
  BY NextLockStep DEF ModeBInv
<1>3. DOMAIN l'.locks \subseteq SignedExports
  BY <1>2 DEF ModeBInv, LockStep, LocksStand, OpensLock, ClosesLock
<1> QED
  BY <1>1, <1>3 DEF ModeBInv, SignedExports

LEMMA OpenedIsLock ==
  ASSUME NEW id, OpensLock(id)
  PROVE  Escrow!Lock(id)
<1>1. /\ id \notin DOMAIN l.locks
      /\ DOMAIN l'.locks = DOMAIN l.locks \cup {id}
      /\ l'.locks[id].state = "Locked"
      /\ \A i \in DOMAIN l.locks : l'.locks[i].state = l.locks[i].state
  BY DEF OpensLock, KeptBut
<1>2. id \notin InState("Locked") \cup InState("Released") \cup InState("Refunded")
  BY <1>1 DEF InState
<1>3. InState("Locked")' = InState("Locked") \cup {id}
  BY <1>1 DEF InState
<1>4. InState("Released")' = InState("Released") /\ InState("Refunded")' = InState("Refunded")
  BY <1>1 DEF InState
<1> QED
  BY <1>2, <1>3, <1>4 DEF Escrow!Lock

LEMMA ClosedMoves ==
  ASSUME NEW id, NEW state \in {"Released", "Refunded"}, ClosesLock(id, state)
  PROVE  /\ id \in InState("Locked")
         /\ InState("Locked")' = InState("Locked") \ {id}
         /\ InState(state)' = InState(state) \cup {id}
         /\ \A other \in {"Released", "Refunded"} \ {state} : InState(other)' = InState(other)
<1>1. /\ id \in DOMAIN l.locks /\ l.locks[id].state = "Locked"
      /\ DOMAIN l'.locks = DOMAIN l.locks /\ l'.locks[id].state = state
      /\ \A i \in DOMAIN l.locks \ {id} : l'.locks[i].state = l.locks[i].state
  BY DEF ClosesLock, KeptBut
<1> QED
  BY <1>1 DEF InState

LEMMA KeptStutters ==
  ASSUME LocksStand
  PROVE  UNCHANGED <<InState("Locked"), InState("Released"), InState("Refunded")>>
  BY DEF LocksStand, InState

(* Every step of the chain is a step of Mode B or leaves its state alone.  *)
LEMMA StepImplements ==
  ASSUME ModeBInv, [Next]_vars
  PROVE  [Escrow!Next]_<<InState("Locked"), InState("Released"), InState("Refunded")>>
<1>1. LockStep
  BY NextLockStep DEF ModeBInv
<1>2. CASE LocksStand
  BY <1>2, KeptStutters
<1>3. ASSUME NEW id, OpensLock(id)
      PROVE  Escrow!Next
  <2>1. id \in SignedExports /\ Escrow!Lock(id)
    BY <1>3, OpenedIsLock DEF OpensLock
  <2> QED
    BY <2>1 DEF Escrow!Next
<1>4. ASSUME NEW id, ClosesLock(id, "Released") \/ ClosesLock(id, "Refunded")
      PROVE  Escrow!Next
  <2>1. id \in SignedExports
    BY <1>4 DEF ClosesLock, ModeBInv
  <2>2. CASE ClosesLock(id, "Released")
    <3>1. Escrow!Release(id)
      BY <2>2, ClosedMoves DEF Escrow!Release
    <3> QED
      BY <2>1, <3>1 DEF Escrow!Next
  <2>3. CASE ClosesLock(id, "Refunded")
    <3>1. Escrow!Refund(id)
      BY <2>3, ClosedMoves DEF Escrow!Refund
    <3> QED
      BY <2>1, <3>1 DEF Escrow!Next
  <2> QED
    BY <1>4, <2>2, <2>3
<1> QED
  BY <1>1, <1>2, <1>3, <1>4 DEF LockStep

(* The chain implements Mode B: on one chain the value of an export is     *)
(* released to the importer or refunded to the sender, once, and its id is *)
(* never locked again.                                                     *)
THEOREM LedgerImplementsModeB == Spec => ImplementsModeB
<1>1. Init => ModeBInv
  <2>1. Init => EscrowInv
    BY InitTypeInv, StartAssumption DEF Init, EscrowInv, EscrowOK
  <2> QED
    BY <2>1, StartAssumption DEF Init, ModeBInv
<1>2. Init => Escrow!Init
  BY StartAssumption DEF Init, Escrow!Init, InState
<1>3. ModeBInv /\ [Next]_vars
      => [Escrow!Next]_<<InState("Locked"), InState("Released"), InState("Refunded")>>
  BY StepImplements
<1> QED
  BY <1>1, <1>2, <1>3, NextModeBInv, PTL DEF Spec, ImplementsModeB, Escrow!Spec

-----------------------------------------------------------------------------
(* Sums.  SumFunction adds the values of a function over a finite domain,  *)
(* one arbitrary element after the other.  The recursion has a solution,   *)
(* which no order of the elements changes (AddsAny), so a sum is any of    *)
(* its terms plus the sum of the others (SumSplit).                        *)

\* Every set of numbers that is not empty has a least element.
LEMMA LeastNumber ==
    ASSUME NEW T \in SUBSET Nat, T # {}
    PROVE  \E n \in T : \A m \in T : n <= m
<1> DEFINE R == OpToRel(<, Nat)
<1>1. IsWellFoundedOn(R, Nat)
  BY NatLessThanWellFounded
<1>2. \A i, j \in Nat : <<i, j>> \in R <=> i < j
  BY DEF OpToRel
<1> HIDE DEF R
<1>3. PICK x \in T : \A y \in T : ~ (<<y, x>> \in R)
  BY <1>1, WFMin
<1>4. ASSUME NEW y \in T PROVE x <= y
  <2>1. ~(y < x) /\ x \in Nat /\ y \in Nat
    BY <1>2, <1>3
  <2>2. QED  BY <2>1
<1>5. QED  BY <1>4

\* A set with 0 and the successor of each of its elements is all of Nat.
LEMMA Induction ==
    ASSUME NEW S \in SUBSET Nat, 0 \in S, \A n \in S : n + 1 \in S
    PROVE  S = Nat
<1> SUFFICES ASSUME S # Nat PROVE FALSE
  OBVIOUS
<1>1. Nat \ S # {}
  OBVIOUS
<1>2. PICK n \in Nat \ S : \A m \in Nat \ S : n <= m
  BY <1>1, LeastNumber
<1>3. n # 0
  OBVIOUS
<1>4. n - 1 \in Nat /\ n - 1 \notin Nat \ S
  BY <1>2, <1>3
<1>5. n \in S
  BY <1>4
<1>6. QED  BY <1>5

\* A set of finite subsets that holds each one whose smaller subsets it
\* holds is all of them.
LEMMA SizeInduction ==
    ASSUME NEW D, IsFiniteSet(D), NEW T \in SUBSET SUBSET D,
           \A s \in SUBSET D :
              (\A r \in SUBSET s : Cardinality(r) < Cardinality(s) => r \in T) => s \in T
    PROVE  T = SUBSET D
<1> DEFINE Sizes == {Cardinality(s) : s \in (SUBSET D) \ T}
<1>1. \A s \in SUBSET D : Cardinality(s) \in Nat
  BY FS_Subset, FS_CardinalityType
<1> SUFFICES ASSUME T # SUBSET D PROVE FALSE
  OBVIOUS
<1>2. Sizes \in SUBSET Nat /\ Sizes # {}
  BY <1>1
<1>3. PICK n \in Sizes : \A m \in Sizes : n <= m
  BY <1>2, LeastNumber
<1>4. PICK s \in (SUBSET D) \ T : Cardinality(s) = n
  BY <1>3
<1>5. ASSUME NEW r \in SUBSET s, Cardinality(r) < Cardinality(s) PROVE r \in T
  <2>1. r \in SUBSET D
    OBVIOUS
  <2>2. Cardinality(r) \in Nat /\ Cardinality(s) \in Nat
    BY <1>1, <2>1
  <2>3. CASE r \notin T
    <3>1. Cardinality(r) \in Sizes
      BY <2>1, <2>3
    <3>2. QED  BY <1>3, <1>4, <1>5, <2>2, <3>1
  <2>4. QED  BY <2>3
<1>6. QED  BY <1>4, <1>5

\* The recursion that SumFunction stands for.
Pick(s) == CHOOSE x \in s : TRUE

Adds(g, f, D) ==
    g = [s \in SUBSET D |-> IF s = {} THEN 0 ELSE f[Pick(s)] + g[s \ {Pick(s)}]]

\* SumFunction is a solution of it, if there is one.
LEMMA AddsDef ==
    ASSUME NEW f, \E g : Adds(g, f, DOMAIN f)
    PROVE  \E g : Adds(g, f, DOMAIN f) /\ SumFunction(f) = g[DOMAIN f]
<1> DEFINE g == CHOOSE g : Adds(g, f, DOMAIN f)
<1>1. Adds(g, f, DOMAIN f)
  OBVIOUS
<1>2. SumFunction(f) = g[DOMAIN f]
  BY DEF SumFunction, SumFunctionOnSet, FoldFunctionOnSet, MapThenFoldSet, Adds, Pick
<1>3. QED  BY <1>1, <1>2

\* The recursion through Pick has a solution on the subsets of up to n elements.
SmallSets(D, n) == {s \in SUBSET D : Cardinality(s) <= n}

AddsSmall(g, f, D, n) ==
    g = [s \in SmallSets(D, n) |-> IF s = {} THEN 0 ELSE f[Pick(s)] + g[s \ {Pick(s)}]]

LEMMA PickIn == \A s : s # {} => Pick(s) \in s
BY DEF Pick

\* A finite set without one of its elements is smaller.
LEMMA Smaller ==
    ASSUME NEW D, IsFiniteSet(D), NEW s \in SUBSET D, NEW x \in s
    PROVE  /\ Cardinality(s) \in Nat /\ s \ {x} \in SUBSET D
           /\ Cardinality(s \ {x}) \in Nat
           /\ Cardinality(s \ {x}) = Cardinality(s) - 1
<1>1. IsFiniteSet(s)
  BY FS_Subset
<1>2. QED  BY <1>1, FS_CardinalityType, FS_RemoveElement

\* A solution up to n elements gives one up to n + 1.
LEMMA MoreOnce ==
    ASSUME NEW D, IsFiniteSet(D), NEW f, NEW n \in Nat, NEW g, AddsSmall(g, f, D, n)
    PROVE  \E k : AddsSmall(k, f, D, n + 1)
<1> DEFINE k == [s \in SmallSets(D, n + 1) |->
                   IF s = {} THEN 0 ELSE f[Pick(s)] + g[s \ {Pick(s)}]]
<1>1. \A s \in SUBSET D : Cardinality(s) \in Nat
  BY FS_Subset, FS_CardinalityType
<1>2. ASSUME NEW s \in SmallSets(D, n) PROVE k[s] = g[s]
  <2>1. s \in SmallSets(D, n + 1)
    BY <1>1 DEF SmallSets
  <2>2. QED  BY <2>1 DEF AddsSmall
<1>3. ASSUME NEW s \in SmallSets(D, n + 1), s # {} PROVE s \ {Pick(s)} \in SmallSets(D, n)
  <2>1. Pick(s) \in s
    BY <1>3, PickIn
  <2>2. QED  BY <2>1, <1>3, Smaller DEF SmallSets
<1>4. k = [s \in SmallSets(D, n + 1) |->
             IF s = {} THEN 0 ELSE f[Pick(s)] + k[s \ {Pick(s)}]]
  <2>1. \A s \in SmallSets(D, n + 1) :
           (IF s = {} THEN 0 ELSE f[Pick(s)] + g[s \ {Pick(s)}])
           = (IF s = {} THEN 0 ELSE f[Pick(s)] + k[s \ {Pick(s)}])
    BY <1>2, <1>3
  <2>2. QED  BY <2>1
<1>5. QED  BY <1>4 DEF AddsSmall

\* So there is a solution on all subsets of a finite set.
LEMMA AddsExists ==
    ASSUME NEW D, IsFiniteSet(D), NEW f
    PROVE  \E g : Adds(g, f, D)
<1> DEFINE N == {n \in Nat : \E g : AddsSmall(g, f, D, n)}
<1>1. 0 \in N
  <2> DEFINE g == [s \in SmallSets(D, 0) |-> 0]
  <2>1. \A s \in SmallSets(D, 0) : s = {}
    BY FS_Subset, FS_CardinalityType, FS_EmptySet DEF SmallSets
  <2>2. g = [s \in SmallSets(D, 0) |-> IF s = {} THEN 0 ELSE f[Pick(s)] + g[s \ {Pick(s)}]]
    BY <2>1
  <2>3. QED  BY <2>2 DEF AddsSmall
<1>2. \A n \in N : n + 1 \in N
  BY MoreOnce
<1>3. Cardinality(D) \in N
  BY <1>1, <1>2, FS_CardinalityType, Induction
<1>4. PICK g : AddsSmall(g, f, D, Cardinality(D))
  BY <1>3
<1>5. SmallSets(D, Cardinality(D)) = SUBSET D
  BY FS_Subset DEF SmallSets
<1>6. QED  BY <1>4, <1>5 DEF AddsSmall, Adds

\* What is used of a solution.
AddsStep(g, f, D) ==
    /\ g[{}] = 0
    /\ \A s \in SUBSET D : s # {} => g[s] = f[Pick(s)] + g[s \ {Pick(s)}]

LEMMA AddsSteps ==
    ASSUME NEW D, NEW f, NEW g, Adds(g, f, D)
    PROVE  AddsStep(g, f, D)
<1>1. ASSUME NEW s \in SUBSET D
      PROVE  g[s] = IF s = {} THEN 0 ELSE f[Pick(s)] + g[s \ {Pick(s)}]
  BY DEF Adds
<1>2. QED  BY <1>1 DEF AddsStep

\* Sums of numbers are numbers.
LEMMA AddsNat ==
    ASSUME NEW D, IsFiniteSet(D), NEW f \in [D -> Nat], NEW g, AddsStep(g, f, D)
    PROVE  \A s \in SUBSET D : g[s] \in Nat
<1> DEFINE T == {s \in SUBSET D : g[s] \in Nat}
<1>1. ASSUME NEW s \in SUBSET D,
             \A r \in SUBSET s : Cardinality(r) < Cardinality(s) => r \in T
      PROVE  s \in T
  <2>1. CASE s = {}
    BY <2>1 DEF AddsStep
  <2>2. CASE s # {}
    <3>1. Pick(s) \in s
      BY <2>2, PickIn
    <3>2. s \ {Pick(s)} \in T
      BY <1>1, <3>1, Smaller
    <3>3. f[Pick(s)] \in Nat /\ g[s \ {Pick(s)}] \in Nat
      BY <3>1, <3>2
    <3>4. g[s] = f[Pick(s)] + g[s \ {Pick(s)}]
      BY <2>2 DEF AddsStep
    <3>5. QED  BY <3>3, <3>4
  <2>3. QED  BY <2>1, <2>2
<1>2. T \in SUBSET SUBSET D
  OBVIOUS
<1> HIDE DEF T
<1>3. T = SUBSET D
  BY <1>1, <1>2, SizeInduction
<1>4. QED  BY <1>3 DEF T

LEMMA SwapSum ==
    ASSUME NEW a \in Nat, NEW b \in Nat, NEW r \in Nat, NEW u, NEW v, NEW w,
           u = a + v, v = b + r, w = a + r
    PROVE  u = b + w
OBVIOUS

\* The order of the elements does not matter.
LEMMA AddsAny ==
    ASSUME NEW D, IsFiniteSet(D), NEW f \in [D -> Nat], NEW g, AddsStep(g, f, D)
    PROVE  \A s \in SUBSET D : \A x \in s : g[s] = f[x] + g[s \ {x}]
<1> DEFINE T == {s \in SUBSET D : \A x \in s : g[s] = f[x] + g[s \ {x}]}
<1>1. ASSUME NEW s \in SUBSET D,
             \A r \in SUBSET s : Cardinality(r) < Cardinality(s) => r \in T,
             NEW x \in s
      PROVE  g[s] = f[x] + g[s \ {x}]
  <2> PICK y : y = Pick(s)
    OBVIOUS
  <2>1. y \in s
    BY PickIn
  <2>2. g[s] = f[y] + g[s \ {y}]
    BY DEF AddsStep
  <2>3. CASE y = x
    BY <2>2, <2>3
  <2>4. CASE y # x
    <3>1. s \ {y} \in T /\ s \ {x} \in T
      BY <1>1, <2>1, Smaller
    <3>2. g[s \ {y}] = f[x] + g[(s \ {y}) \ {x}]
      BY <2>4, <3>1
    <3>3. g[s \ {x}] = f[y] + g[(s \ {x}) \ {y}]
      BY <2>1, <2>4, <3>1
    <3>4. (s \ {y}) \ {x} = (s \ {x}) \ {y}
      OBVIOUS
    <3> PICK r : r = g[(s \ {x}) \ {y}]
      OBVIOUS
    <3>5. r \in Nat
      BY AddsNat
    <3>6. g[s \ {y}] = f[x] + r /\ g[s \ {x}] = f[y] + r
      BY <3>2, <3>3, <3>4
    <3>7. f[x] \in Nat /\ f[y] \in Nat
      BY <2>1
    <3>8. QED  BY ONLY <2>2, <3>5, <3>6, <3>7, SwapSum
  <2>5. QED  BY <2>3, <2>4
<1>2. T \in SUBSET SUBSET D
  OBVIOUS
<1>3. \A s \in SUBSET D :
         (\A r \in SUBSET s : Cardinality(r) < Cardinality(s) => r \in T) => s \in T
  BY <1>1
<1> HIDE DEF T
<1>4. T = SUBSET D
  BY <1>2, <1>3, SizeInduction
<1>5. QED  BY <1>4 DEF T

\* Two sums agree where their functions do.
LEMMA AddsAgree ==
    ASSUME NEW D, NEW f, NEW g, AddsStep(g, f, D),
           NEW E, NEW e, NEW k, AddsStep(k, e, E),
           NEW S, IsFiniteSet(S), S \subseteq D, S \subseteq E,
           \A x \in S : f[x] = e[x]
    PROVE  g[S] = k[S]
<1> DEFINE T == {s \in SUBSET S : g[s] = k[s]}
<1>1. ASSUME NEW s \in SUBSET S,
             \A r \in SUBSET s : Cardinality(r) < Cardinality(s) => r \in T
      PROVE  s \in T
  <2>1. CASE s = {}
    BY <2>1 DEF AddsStep
  <2>2. CASE s # {}
    <3>1. Pick(s) \in s
      BY <2>2, PickIn
    <3>2. s \ {Pick(s)} \in T
      BY <1>1, <3>1, Smaller
    <3>3. g[s] = f[Pick(s)] + g[s \ {Pick(s)}]
      BY <2>2 DEF AddsStep
    <3>4. k[s] = e[Pick(s)] + k[s \ {Pick(s)}]
      BY <2>2 DEF AddsStep
    <3>5. QED  BY <3>1, <3>2, <3>3, <3>4
  <2>3. QED  BY <2>1, <2>2
<1>2. T \in SUBSET SUBSET S
  OBVIOUS
<1> HIDE DEF T
<1>3. T = SUBSET S
  BY <1>1, <1>2, SizeInduction
<1>4. QED  BY <1>3 DEF T

\* f without x.
But(f, x) == [y \in DOMAIN f \ {x} |-> f[y]]

LEMMA SumOf ==
    ASSUME NEW D, IsFiniteSet(D), NEW f \in [D -> Nat]
    PROVE  \E g : AddsStep(g, f, D) /\ SumFunction(f) = g[D]
<1>1. DOMAIN f = D
  OBVIOUS
<1>2. PICK g : Adds(g, f, D) /\ SumFunction(f) = g[D]
  BY <1>1, AddsExists, AddsDef
<1>3. QED  BY <1>2, AddsSteps

LEMMA ButType ==
    ASSUME NEW D, IsFiniteSet(D), NEW f \in [D -> Nat], NEW x \in D
    PROVE  But(f, x) \in [D \ {x} -> Nat] /\ IsFiniteSet(D \ {x})
BY FS_RemoveElement DEF But

\* A sum is any one of its terms plus the sum of the others, a number.
LEMMA SumSplit ==
    ASSUME NEW D, IsFiniteSet(D), NEW f \in [D -> Nat], NEW x \in D
    PROVE  /\ SumFunction(f) = f[x] + SumFunction(But(f, x))
           /\ SumFunction(But(f, x)) \in Nat
<1>1. But(f, x) \in [D \ {x} -> Nat] /\ IsFiniteSet(D \ {x})
  BY ButType
<1>2. PICK g : AddsStep(g, f, D) /\ SumFunction(f) = g[D]
  BY SumOf
<1>3. PICK k : AddsStep(k, But(f, x), D \ {x}) /\ SumFunction(But(f, x)) = k[D \ {x}]
  BY <1>1, SumOf
<1>4. \A y \in D \ {x} : f[y] = But(f, x)[y]
  BY DEF But
<1>5. g[D \ {x}] = k[D \ {x}]
  BY <1>1, <1>2, <1>3, <1>4, AddsAgree
<1>6. g[D] = f[x] + g[D \ {x}]
  BY <1>2, AddsAny
<1>7. g[D \ {x}] \in Nat
  BY <1>2, AddsNat
<1>8. QED  BY <1>2, <1>3, <1>5, <1>6, <1>7

LEMMA SumNat ==
    ASSUME NEW D, IsFiniteSet(D), NEW f \in [D -> Nat]
    PROVE  SumFunction(f) \in Nat
<1>1. PICK g : AddsStep(g, f, D) /\ SumFunction(f) = g[D]
  BY SumOf
<1>2. QED  BY <1>1, AddsNat

LEMMA SumEmpty ==
    ASSUME NEW f \in [{} -> Nat]
    PROVE  SumFunction(f) = 0
<1>1. PICK g : AddsStep(g, f, {}) /\ SumFunction(f) = g[{}]
  BY SumOf, FS_EmptySet
<1>2. QED  BY <1>1 DEF AddsStep

\* What changing one value of a function does to its sum.
LEMMA SumPut ==
    ASSUME NEW D, IsFiniteSet(D), NEW f \in [D -> Nat], NEW x \in D, NEW v \in Nat
    PROVE  SumFunction(Put(f, x, v)) = SumFunction(f) - f[x] + v
<1>1. Put(f, x, v) \in [D -> Nat] /\ Put(f, x, v)[x] = v
  BY DEF Put
<1>2. But(Put(f, x, v), x) = But(f, x)
  BY DEF Put, But
<1>3. SumFunction(Put(f, x, v)) = v + SumFunction(But(f, x))
  BY <1>1, <1>2, SumSplit
<1>4. SumFunction(f) = f[x] + SumFunction(But(f, x)) /\ SumFunction(But(f, x)) \in Nat
  BY SumSplit
<1>5. f[x] \in Nat
  OBVIOUS
<1>6. QED  BY <1>3, <1>4, <1>5

LEMMA SumAdd ==
    ASSUME NEW D, IsFiniteSet(D), NEW f \in [D -> Nat], NEW x, x \notin D, NEW v \in Nat
    PROVE  SumFunction(Put(f, x, v)) = SumFunction(f) + v
<1>1. /\ Put(f, x, v) \in [D \cup {x} -> Nat] /\ Put(f, x, v)[x] = v
      /\ IsFiniteSet(D \cup {x}) /\ x \in D \cup {x}
  BY FS_AddElement DEF Put
<1>2. But(Put(f, x, v), x) = f
  BY DEF Put, But
<1>3. SumFunction(Put(f, x, v)) = v + SumFunction(f)
  BY <1>1, <1>2, SumSplit
<1>4. SumFunction(f) \in Nat
  BY SumNat
<1>5. QED  BY <1>3, <1>4

\* The same for the updates of LedgerOps.
LEMMA SumPlus ==
    ASSUME NEW f \in [Accounts -> Nat], NEW a \in Accounts, NEW x \in Nat
    PROVE  SumFunction(Plus(f, a, x)) = SumFunction(f) + x
<1>1. f[a] \in Nat /\ f[a] + x \in Nat
  OBVIOUS
<1>2. Plus(f, a, x) = Put(f, a, f[a] + x)
  BY DEF Plus, Put
<1>3. SumFunction(Put(f, a, f[a] + x)) = SumFunction(f) - f[a] + (f[a] + x)
  BY <1>1, FiniteAssumption, SumPut
<1>4. SumFunction(f) \in Nat
  BY FiniteAssumption, SumNat
<1>5. QED  BY <1>1, <1>2, <1>3, <1>4

LEMMA SumMinus ==
    ASSUME NEW f \in [Accounts -> Nat], NEW a \in Accounts, NEW x \in Nat, f[a] >= x
    PROVE  SumFunction(Minus(f, a, x)) = SumFunction(f) - x
<1>1. f[a] \in Nat /\ f[a] - x \in Nat
  OBVIOUS
<1>2. Minus(f, a, x) = Put(f, a, f[a] - x)
  BY DEF Minus, Put
<1>3. SumFunction(Put(f, a, f[a] - x)) = SumFunction(f) - f[a] + (f[a] - x)
  BY <1>1, FiniteAssumption, SumPut
<1>4. SumFunction(f) \in Nat
  BY FiniteAssumption, SumNat
<1>5. QED  BY <1>1, <1>2, <1>3, <1>4

LEMMA SumMoved ==
    ASSUME NEW f \in [Accounts -> Nat], NEW a \in Accounts, NEW b \in Accounts,
           NEW x \in Nat, NEW y \in Nat, f[a] >= x + y
    PROVE  SumFunction(Moved(f, a, b, x, y)) = SumFunction(f) - y
<1>1. x + y \in Nat
  OBVIOUS
<1>2. Minus(f, a, x + y) \in [Accounts -> Nat]
  BY <1>1, MinusType
<1>3. SumFunction(Minus(f, a, x + y)) = SumFunction(f) - (x + y)
  BY <1>1, SumMinus
<1>4. SumFunction(Moved(f, a, b, x, y)) = SumFunction(Minus(f, a, x + y)) + x
  BY <1>2, SumPlus DEF Moved
<1>5. SumFunction(f) \in Nat
  BY FiniteAssumption, SumNat
<1>6. QED  BY <1>3, <1>4, <1>5

-----------------------------------------------------------------------------
(* The parts of the supply.                                                *)

\* The ids of the open locks, and what each of them holds.
OpenLocks(s) == {i \in DOMAIN s.locks : s.locks[i].state = "Locked"}
LockedAmounts(s) == [id \in OpenLocks(s) |-> s.locks[id].amount]

LEMMA HeldSum == \A s : LockedValue(s) = SumFunction(LockedAmounts(s))
BY DEF LockedValue, LockedAmounts, OpenLocks

LEMMA HeldType ==
    ASSUME NEW s, IsLedger(s), IsFiniteSet(DOMAIN s.locks)
    PROVE  IsFiniteSet(OpenLocks(s)) /\ LockedAmounts(s) \in [OpenLocks(s) -> Nat]
<1>1. \A id \in OpenLocks(s) : s.locks[id].amount \in Nat
  BY DEF IsLedger, LockRows, OpenLocks
<1>2. OpenLocks(s) \in SUBSET DOMAIN s.locks
  BY DEF OpenLocks
<1>3. QED  BY <1>1, <1>2, FS_Subset DEF LockedAmounts

\* A lock that closes takes its amount out of the locked value.
LEMMA LockCloses ==
    ASSUME NEW s, IsLedger(s), IsFiniteSet(DOMAIN s.locks), NEW id \in OpenLocks(s),
           NEW m, DOMAIN m.locks = DOMAIN s.locks, m.locks[id].state # "Locked",
           \A i \in DOMAIN s.locks \ {id} : m.locks[i] = s.locks[i]
    PROVE  LockedValue(m) = LockedValue(s) - s.locks[id].amount
<1>1. OpenLocks(m) = OpenLocks(s) \ {id}
  BY DEF OpenLocks
<1>2. LockedAmounts(m) = But(LockedAmounts(s), id)
  BY <1>1 DEF LockedAmounts, But, OpenLocks
<1>3. /\ LockedValue(s) = LockedAmounts(s)[id] + LockedValue(m)
      /\ LockedValue(m) \in Nat
  BY <1>2, HeldSum, HeldType, SumSplit
<1>4. LockedAmounts(s)[id] = s.locks[id].amount /\ LockedAmounts(s)[id] \in Nat
  BY HeldType DEF LockedAmounts
<1>5. QED  BY <1>3, <1>4

\* A lock that opens adds it.
LEMMA LockOpens ==
    ASSUME NEW s, IsLedger(s), IsFiniteSet(DOMAIN s.locks), NEW id, id \notin DOMAIN s.locks,
           NEW row, row.state = "Locked", row.amount \in Nat,
           NEW m, m.locks = Put(s.locks, id, row)
    PROVE  LockedValue(m) = LockedValue(s) + row.amount
<1>1. OpenLocks(m) = OpenLocks(s) \cup {id} /\ id \notin OpenLocks(s)
  BY DEF OpenLocks, Put
<1>2. LockedAmounts(m) = Put(LockedAmounts(s), id, row.amount)
  BY <1>1 DEF LockedAmounts, Put, OpenLocks
<1>3. QED  BY <1>1, <1>2, HeldSum, HeldType, SumAdd

\* The supply is the sum of four numbers.
LEMMA SupplyParts ==
    ASSUME NEW s, IsLedger(s), IsFiniteSet(DOMAIN s.locks)
    PROVE  /\ SumFunction(s.bal) \in Nat /\ SumFunction(s.stake) \in Nat
           /\ s.fees \in Nat /\ LockedValue(s) \in Nat
           /\ Supply(s) = SumFunction(s.bal) + SumFunction(s.stake) + s.fees + LockedValue(s)
<1>1. s.bal \in [Accounts -> Nat] /\ s.stake \in [Accounts -> Nat] /\ s.fees \in Nat
  BY DEF IsLedger
<1>2. SumFunction(s.bal) \in Nat /\ SumFunction(s.stake) \in Nat
  BY <1>1, FiniteAssumption, SumNat
<1>3. LockedValue(s) \in Nat
  BY HeldSum, HeldType, SumNat
<1>4. QED  BY <1>1, <1>2, <1>3 DEF Supply

\* m holds x more than s.
Gains(s, m, x) == Supply(m) = Supply(s) + x

\* The supply changes by what its four parts change.
LEMMA PartsGain ==
    ASSUME NEW s, IsLedger(s), IsFiniteSet(DOMAIN s.locks), NEW m,
           NEW b \in Int, SumFunction(m.bal) = SumFunction(s.bal) + b,
           NEW k \in Int, SumFunction(m.stake) = SumFunction(s.stake) + k,
           NEW f \in Int, m.fees = s.fees + f,
           NEW v \in Int, LockedValue(m) = LockedValue(s) + v,
           NEW x, x = b + k + f + v
    PROVE  Gains(s, m, x)
<1>1. Supply(m) = SumFunction(m.bal) + SumFunction(m.stake) + m.fees + LockedValue(m)
  BY DEF Supply
<1>2. QED  BY <1>1, SupplyParts DEF Gains

LEMMA SameLocks ==
    ASSUME NEW s, IsLedger(s), IsFiniteSet(DOMAIN s.locks), NEW m, m.locks = s.locks
    PROVE  LockedValue(m) = LockedValue(s) + 0
<1>1. LockedValue(m) = LockedValue(s)
  BY DEF LockedValue
<1>2. QED  BY <1>1, SupplyParts

\* Balances, stakes and fees change, locks do not.
LEMMA ValueGain ==
    ASSUME NEW s, IsLedger(s), IsFiniteSet(DOMAIN s.locks), NEW m, m.locks = s.locks,
           NEW b \in Int, SumFunction(m.bal) = SumFunction(s.bal) + b,
           NEW k \in Int, SumFunction(m.stake) = SumFunction(s.stake) + k,
           NEW f \in Int, m.fees = s.fees + f,
           NEW x, x = b + k + f
    PROVE  Gains(s, m, x)
<1>1. LockedValue(m) = LockedValue(s) + 0
  BY SameLocks
<1>2. x = b + k + f + 0 /\ 0 \in Int
  OBVIOUS
<1>3. QED  BY <1>1, <1>2, PartsGain

LEMMA SameValue ==
    ASSUME NEW s, IsLedger(s), IsFiniteSet(DOMAIN s.locks), NEW m, m.locks = s.locks,
           m.bal = s.bal, m.stake = s.stake, m.fees = s.fees
    PROVE  Gains(s, m, 0)
<1>1. /\ SumFunction(m.bal) = SumFunction(s.bal) + 0
      /\ SumFunction(m.stake) = SumFunction(s.stake) + 0
      /\ m.fees = s.fees + 0 /\ 0 \in Int /\ 0 = 0 + 0 + 0
  BY SupplyParts
<1>2. QED  BY <1>1, ValueGain

\* A credit: a reward or a claim.
LEMMA CreditGain ==
    ASSUME NEW s, IsLedger(s), IsFiniteSet(DOMAIN s.locks),
           NEW a \in Accounts, NEW x \in Nat,
           NEW m, m.locks = s.locks, m.stake = s.stake, m.fees = s.fees,
           m.bal = Plus(s.bal, a, x)
    PROVE  Gains(s, m, x)
<1>1. SumFunction(m.bal) = SumFunction(s.bal) + x
  BY SumPlus DEF IsLedger
<1>2. /\ SumFunction(m.stake) = SumFunction(s.stake) + 0
      /\ m.fees = s.fees + 0 /\ 0 \in Int /\ x \in Int /\ x = x + 0 + 0
  BY SupplyParts
<1>3. QED  BY <1>1, <1>2, ValueGain

LEMMA PayGain ==
    ASSUME NEW s, IsLedger(s), IsFiniteSet(DOMAIN s.locks), NEW tx, IsTransaction(tx),
           tx.type = "transfer", NEW dst \in Accounts,
           s.bal[tx.from] >= tx.amount + tx.fee,
           NEW m, PayOutcome(s, tx, dst, m)
    PROVE  Gains(s, m, 0)
<1>1. /\ tx.from \in Accounts /\ tx.amount \in Nat /\ tx.fee \in Nat
      /\ s.bal \in [Accounts -> Nat]
  BY DEF IsTransaction, IsLedger
<1>2. /\ m.bal = Moved(s.bal, tx.from, dst, tx.amount, tx.fee)
      /\ m.stake = s.stake /\ m.locks = s.locks /\ m.fees = s.fees + tx.fee
  BY DEF PayOutcome, Changes, Fields
<1>3. SumFunction(m.bal) = SumFunction(s.bal) - tx.fee
  BY <1>1, <1>2, SumMoved
<1>4. /\ SumFunction(m.bal) = SumFunction(s.bal) + (0 - tx.fee)
      /\ SumFunction(m.stake) = SumFunction(s.stake) + 0
      /\ 0 - tx.fee \in Int /\ 0 \in Int /\ tx.fee \in Int
      /\ 0 = (0 - tx.fee) + 0 + tx.fee
  BY <1>1, <1>2, <1>3, SupplyParts
<1>5. QED  BY <1>2, <1>4, ValueGain

LEMMA StakeGain ==
    ASSUME NEW s, IsLedger(s), IsFiniteSet(DOMAIN s.locks), NEW tx, IsTransaction(tx),
           tx.type \in {"stake", "unstake"},
           NEW m, StakeOutcome(s, tx, m) \/ UnstakeOutcome(s, tx, m)
    PROVE  Gains(s, m, 0)
<1>1. /\ tx.from \in Accounts /\ tx.amount \in Nat
      /\ s.bal \in [Accounts -> Nat] /\ s.stake \in [Accounts -> Nat]
  BY DEF IsTransaction, IsLedger
<1>2. m.locks = s.locks /\ m.fees = s.fees
  BY DEF StakeOutcome, UnstakeOutcome, Changes, Fields
<1>3. m.fees = s.fees + 0 /\ 0 \in Int
  BY <1>2, SupplyParts
<1>4. CASE StakeOutcome(s, tx, m)
  <2>1. /\ m.bal = Minus(s.bal, tx.from, tx.amount)
        /\ m.stake = Plus(s.stake, tx.from, tx.amount)
        /\ s.bal[tx.from] >= tx.amount
    BY <1>1, <1>4 DEF StakeOutcome
  <2>2. SumFunction(m.bal) = SumFunction(s.bal) - tx.amount
    BY <1>1, <2>1, SumMinus
  <2>3. SumFunction(m.stake) = SumFunction(s.stake) + tx.amount
    BY <1>1, <2>1, SumPlus
  <2>4. /\ SumFunction(m.bal) = SumFunction(s.bal) + (0 - tx.amount)
        /\ 0 - tx.amount \in Int /\ tx.amount \in Int
        /\ 0 = (0 - tx.amount) + tx.amount + 0
    BY <1>1, <2>2, SupplyParts
  <2>5. QED  BY <1>2, <1>3, <2>3, <2>4, ValueGain
<1>5. CASE UnstakeOutcome(s, tx, m)
  <2>1. /\ m.bal = Plus(s.bal, tx.from, tx.amount)
        /\ m.stake = Minus(s.stake, tx.from, tx.amount)
        /\ s.stake[tx.from] >= tx.amount
    BY <1>1, <1>5 DEF UnstakeOutcome
  <2>2. SumFunction(m.stake) = SumFunction(s.stake) - tx.amount
    BY <1>1, <2>1, SumMinus
  <2>3. SumFunction(m.bal) = SumFunction(s.bal) + tx.amount
    BY <1>1, <2>1, SumPlus
  <2>4. /\ SumFunction(m.stake) = SumFunction(s.stake) + (0 - tx.amount)
        /\ 0 - tx.amount \in Int /\ tx.amount \in Int
        /\ 0 = tx.amount + (0 - tx.amount) + 0
    BY <1>1, <2>2, SupplyParts
  <2>5. QED  BY <1>2, <1>3, <2>3, <2>4, ValueGain
<1>6. QED  BY <1>4, <1>5

\* A policy transaction pays its fee; the sweep moves all the signer has.
LEMMA PolicyGain ==
    ASSUME NEW s, IsLedger(s), IsFiniteSet(DOMAIN s.locks), NEW tx, IsTransaction(tx),
           tx.type = "policy", NEW h, NEW m, PolicyOutcome(s, tx, h, m)
    PROVE  Gains(s, m, 0)
<1>1. /\ tx.from \in Accounts /\ tx.target \in Accounts /\ tx.fee \in Nat
      /\ s.bal \in [Accounts -> Nat] /\ s.stake \in [Accounts -> Nat]
  BY DEF IsTransaction, IsLedger
<1>2. m.locks = s.locks /\ m.fees = s.fees + tx.fee /\ s.bal[tx.from] >= tx.fee
  BY <1>1 DEF PolicyOutcome, Changes, Fields
<1> PICK paid : paid = Minus(s.bal, tx.from, tx.fee)
  OBVIOUS
<1>3. paid \in [Accounts -> Nat] /\ SumFunction(paid) = SumFunction(s.bal) - tx.fee
  BY <1>1, <1>2, MinusType, SumMinus
<1>4. CASE m.bal = paid /\ m.stake = s.stake
  <2>1. /\ SumFunction(m.bal) = SumFunction(s.bal) + (0 - tx.fee)
        /\ SumFunction(m.stake) = SumFunction(s.stake) + 0
        /\ 0 - tx.fee \in Int /\ tx.fee \in Int /\ 0 \in Int
        /\ 0 = (0 - tx.fee) + 0 + tx.fee
    BY <1>1, <1>3, <1>4, SupplyParts
  <2>2. QED  BY <1>2, <2>1, ValueGain
<1>5. ASSUME m.bal = Plus(Put(paid, tx.from, 0), tx.target, paid[tx.from] + s.stake[tx.from]),
             m.stake = Put(s.stake, tx.from, 0)
      PROVE  Gains(s, m, 0)
  <2> PICK a, k : a = paid[tx.from] /\ k = s.stake[tx.from]
    OBVIOUS
  <2>1. a \in Nat /\ k \in Nat /\ a + k \in Nat /\ 0 \in Nat
    BY <1>1, <1>3
  <2> PICK swept : swept = Put(paid, tx.from, 0)
    OBVIOUS
  <2>2. swept \in [Accounts -> Nat]
    BY <1>1, <1>3, <2>1, PutType
  <2>3. SumFunction(swept) = SumFunction(paid) - a + 0
    BY <1>1, <1>3, <2>1, FiniteAssumption, SumPut
  <2>4. SumFunction(m.bal) = SumFunction(swept) + (a + k)
    BY <1>1, <1>5, <2>1, <2>2, SumPlus
  <2>5. SumFunction(m.stake) = SumFunction(s.stake) - k + 0
    BY <1>1, <1>5, <2>1, FiniteAssumption, SumPut
  <2>6. /\ SumFunction(m.bal) = SumFunction(s.bal) + (k - tx.fee)
        /\ SumFunction(m.stake) = SumFunction(s.stake) + (0 - k)
        /\ k - tx.fee \in Int /\ 0 - k \in Int /\ tx.fee \in Int
        /\ 0 = (k - tx.fee) + (0 - k) + tx.fee
    BY <1>1, <1>3, <2>1, <2>3, <2>4, <2>5, SupplyParts
  <2>7. QED  BY <1>2, <2>6, ValueGain
<1>6. QED  BY <1>4, <1>5 DEF PolicyOutcome

\* The amount of an export moves from a balance to a lock of its own.
LEMMA ExportGain ==
    ASSUME NEW s, IsLedger(s), IsFiniteSet(DOMAIN s.locks), NEW tx, IsTransaction(tx),
           tx.type = "export", ExportId(tx) \notin DOMAIN s.locks,
           NEW h, NEW m, ExportOutcome(s, tx, h, m)
    PROVE  Gains(s, m, 0)
<1>1. /\ tx.from \in Accounts /\ tx.amount \in Nat /\ tx.fee \in Nat
      /\ s.bal \in [Accounts -> Nat] /\ tx.amount + tx.fee \in Nat
  BY DEF IsTransaction, IsLedger
<1>2. /\ m.bal = Minus(s.bal, tx.from, tx.amount + tx.fee)
      /\ m.stake = s.stake /\ m.fees = s.fees + tx.fee
      /\ ~(s.bal[tx.from] < tx.amount + tx.fee)
  BY DEF ExportOutcome, Changes, Fields
<1>3. SumFunction(m.bal) = SumFunction(s.bal) - (tx.amount + tx.fee)
  BY <1>1, <1>2, SumMinus
<1> DEFINE row == [sender |-> tx.from, amount |-> tx.amount,
                   unlock |-> h + LockTimeout, state |-> "Locked"]
<1>4. row.state = "Locked" /\ row.amount = tx.amount
  OBVIOUS
<1>5. m.locks = Put(s.locks, ExportId(tx), row)
  BY DEF ExportOutcome
<1> HIDE DEF row
<1>6. LockedValue(m) = LockedValue(s) + tx.amount
  BY <1>1, <1>4, <1>5, LockOpens
<1>7. /\ SumFunction(m.bal) = SumFunction(s.bal) + (0 - (tx.amount + tx.fee))
      /\ SumFunction(m.stake) = SumFunction(s.stake) + 0
      /\ 0 - (tx.amount + tx.fee) \in Int /\ 0 \in Int /\ tx.fee \in Int /\ tx.amount \in Int
      /\ 0 = (0 - (tx.amount + tx.fee)) + 0 + tx.fee + tx.amount
  BY <1>1, <1>2, <1>3, SupplyParts
<1>8. QED  BY <1>2, <1>6, <1>7, PartsGain

\* An import credits its amount, from the lock of this chain when there is one.
LEMMA ImportGain ==
    ASSUME NEW s, IsLedger(s), IsFiniteSet(DOMAIN s.locks), NEW tx, IsTransaction(tx),
           tx.type = "import", NEW m, ImportOutcome(s, tx, m),
           tx.id \in DOMAIN s.locks =>
              s.locks[tx.id].state = "Locked" /\ s.locks[tx.id].amount = tx.amount
    PROVE  Gains(s, m, IF tx.id \in DOMAIN s.locks THEN 0 ELSE tx.amount)
<1>1. /\ tx.from \in Accounts /\ tx.amount \in Nat /\ tx.fee \in Nat /\ tx.to \in Accounts
      /\ s.bal \in [Accounts -> Nat]
  BY DEF IsTransaction, IsLedger
<1>2. /\ m.bal = Plus(Minus(s.bal, tx.from, tx.fee), tx.to, tx.amount)
      /\ m.stake = s.stake /\ m.fees = s.fees + tx.fee
      /\ s.bal[tx.from] >= tx.fee
  BY DEF ImportOutcome, Changes, Fields, ImportAllowed
<1> PICK f : f = Minus(s.bal, tx.from, tx.fee)
  OBVIOUS
<1>9. f \in [Accounts -> Nat] /\ SumFunction(f) = SumFunction(s.bal) - tx.fee
  BY <1>1, <1>2, MinusType, SumMinus
<1>3. SumFunction(m.bal) = SumFunction(s.bal) - tx.fee + tx.amount
  <2>1. SumFunction(m.bal) = SumFunction(f) + tx.amount
    BY <1>1, <1>2, <1>9, SumPlus
  <2>2. QED  BY <1>9, <2>1
<1>4. m.locks = [id \in DOMAIN s.locks |->
                   IF id = tx.id /\ s.locks[id].state = "Locked"
                   THEN [s.locks[id] EXCEPT !.state = "Released"] ELSE s.locks[id]]
  BY DEF ImportOutcome
<1>5. /\ SumFunction(m.bal) = SumFunction(s.bal) + (tx.amount - tx.fee)
      /\ SumFunction(m.stake) = SumFunction(s.stake) + 0
      /\ tx.amount - tx.fee \in Int /\ 0 \in Int /\ tx.fee \in Int
  BY <1>1, <1>2, <1>3, SupplyParts
<1>6. CASE tx.id \notin DOMAIN s.locks
  <2>1. DOMAIN m.locks = DOMAIN s.locks /\ \A i \in DOMAIN s.locks : m.locks[i] = s.locks[i]
    BY <1>4, <1>6
  <2>2. OpenLocks(m) = OpenLocks(s)
    BY <2>1 DEF OpenLocks
  <2>3. LockedAmounts(m) = LockedAmounts(s)
    BY <2>1, <2>2 DEF LockedAmounts, OpenLocks
  <2>4. /\ LockedValue(m) = LockedValue(s) + 0
        /\ tx.amount = (tx.amount - tx.fee) + 0 + tx.fee + 0
    BY <1>1, <2>3, HeldSum, SupplyParts
  <2>5. QED  BY <1>2, <1>5, <1>6, <2>4, PartsGain
<1>7. CASE tx.id \in DOMAIN s.locks
  <2> PICK id : id = tx.id
    OBVIOUS
  <2>1. /\ DOMAIN m.locks = DOMAIN s.locks
        /\ \A i \in DOMAIN s.locks \ {id} : m.locks[i] = s.locks[i]
        /\ m.locks[id] = [s.locks[id] EXCEPT !.state = "Released"]
    BY <1>4, <1>7
  <2>2. m.locks[id].state # "Locked"
    BY <1>7, <2>1 DEF IsLedger, LockRows
  <2>3. id \in OpenLocks(s)
    BY <1>7 DEF OpenLocks
  <2>4. LockedValue(m) = LockedValue(s) - s.locks[id].amount
    BY ONLY IsLedger(s), IsFiniteSet(DOMAIN s.locks), <2>1, <2>2, <2>3, LockCloses
  <2>5. /\ LockedValue(m) = LockedValue(s) + (0 - tx.amount)
        /\ 0 - tx.amount \in Int
        /\ 0 = (tx.amount - tx.fee) + 0 + tx.fee + (0 - tx.amount)
    BY <1>1, <1>7, <2>4, SupplyParts
  <2>6. QED  BY <1>2, <1>5, <1>7, <2>5, PartsGain
<1>8. QED  BY <1>6, <1>7

\* A refund is the reverse of an export, a fee apart.
LEMMA RefundGain ==
    ASSUME NEW s, IsLedger(s), IsFiniteSet(DOMAIN s.locks), NEW id \in OpenLocks(s),
           NEW m, RefundOutcome(s, id, m)
    PROVE  Gains(s, m, 0)
<1>1. /\ s.locks[id].sender \in Accounts /\ s.locks[id].amount \in Nat
      /\ id \in DOMAIN s.locks /\ s.bal \in [Accounts -> Nat]
  BY DEF IsLedger, LockRows, OpenLocks
<1> PICK a, x : a = s.locks[id].sender /\ x = s.locks[id].amount
  OBVIOUS
<1>2. /\ m.bal = Plus(s.bal, a, x) /\ m.stake = s.stake /\ m.fees = s.fees
      /\ m.locks = Put(s.locks, id, [s.locks[id] EXCEPT !.state = "Refunded"])
  BY DEF RefundOutcome, Changes, Fields
<1>3. SumFunction(m.bal) = SumFunction(s.bal) + x
  BY <1>1, <1>2, SumPlus
<1>4. /\ DOMAIN m.locks = DOMAIN s.locks
      /\ \A i \in DOMAIN s.locks \ {id} : m.locks[i] = s.locks[i]
      /\ m.locks[id] = [s.locks[id] EXCEPT !.state = "Refunded"]
  BY <1>1, <1>2 DEF Put
<1>5. m.locks[id].state # "Locked"
  BY <1>1, <1>4 DEF IsLedger, LockRows
<1>6. LockedValue(m) = LockedValue(s) - x
  BY <1>4, <1>5, LockCloses
<1>7. /\ LockedValue(m) = LockedValue(s) + (0 - x)
      /\ SumFunction(m.stake) = SumFunction(s.stake) + 0 /\ m.fees = s.fees + 0
      /\ 0 - x \in Int /\ x \in Int /\ 0 \in Int
      /\ 0 = x + 0 + 0 + (0 - x)
  BY <1>1, <1>2, <1>6, SupplyParts
<1>8. QED  BY <1>3, <1>7, PartsGain

\* A drained row pays its recipient and its fee, unless it comes back.
LEMMA DrainGain ==
    ASSUME NEW s, IsLedger(s), IsFiniteSet(DOMAIN s.locks), NEW row \in s.pend, NEW h,
           NEW dst \in DrainRoutes(s, row, h), dst # row.sender,
           NEW m, DrainOutcome(s, row, dst, m)
    PROVE  Gains(s, m, 0)
<1>1. /\ s.bal \in [Accounts -> Nat] /\ row.sender \in Accounts
      /\ row.amount \in Nat /\ row.fee \in Nat /\ row.amount + row.fee \in Nat
      /\ dst \in Accounts /\ s.bal[row.sender] >= row.amount + row.fee
  BY DEF IsLedger, PendingRows, DrainRoutes
<1> PICK f : f = Minus(s.bal, row.sender, row.amount + row.fee)
  OBVIOUS
<1>2. /\ f \in [Accounts -> Nat]
      /\ SumFunction(f) = SumFunction(s.bal) - (row.amount + row.fee)
  BY <1>1, MinusType, SumMinus
<1>3. f[dst] = s.bal[dst] /\ s.bal[dst] \in Nat /\ s.bal[dst] + row.amount \in Nat
  BY <1>1, MinusAt
<1>4. /\ m.bal = Put(f, dst, s.bal[dst] + row.amount)
      /\ m.stake = s.stake /\ m.locks = s.locks /\ m.fees = s.fees + row.fee
  BY DEF DrainOutcome, Changes, Fields
<1>5. SumFunction(m.bal) = SumFunction(f) - f[dst] + (s.bal[dst] + row.amount)
  BY <1>1, <1>2, <1>3, <1>4, FiniteAssumption, SumPut
<1>6. /\ SumFunction(m.bal) = SumFunction(s.bal) + (0 - row.fee)
      /\ SumFunction(m.stake) = SumFunction(s.stake) + 0
      /\ 0 - row.fee \in Int /\ 0 \in Int /\ row.fee \in Int
      /\ 0 = (0 - row.fee) + 0 + row.fee
  BY <1>1, <1>2, <1>3, <1>4, <1>5, SupplyParts
<1>7. QED  BY <1>4, <1>6, ValueGain

-----------------------------------------------------------------------------
(* The locks.  Each was opened by an export of this chain, which spent the *)
(* nonce that its id holds and registered the amount that is locked.       *)

LockTrue(s, id) ==
    /\ id \in Accounts \X Nat
    /\ id[2] < s.nonce[id[1]]
    /\ id \in DOMAIN s.exported
    /\ s.exported[id].amount = s.locks[id].amount

LocksOK(s) ==
    /\ IsFiniteSet(DOMAIN s.locks)
    /\ \A id \in DOMAIN s.locks : LockTrue(s, id)

\* No nonce goes back.
Onward(s, m) == \A a \in Accounts : m.nonce[a] >= s.nonce[a]

\* What the locks and the registry hold stays true while nonces grow.
LEMMA LocksKept ==
    ASSUME NEW s, IsLedger(s), NEW m, IsLedger(m), LocksOK(s), Onward(s, m),
           DOMAIN m.locks = DOMAIN s.locks,
           \A id \in DOMAIN s.locks : /\ m.locks[id].amount = s.locks[id].amount
                                      /\ id \in DOMAIN s.exported => id \in DOMAIN m.exported
                                      /\ m.exported[id] = s.exported[id]
    PROVE  LocksOK(m)
<1>1. ASSUME NEW id \in DOMAIN m.locks PROVE LockTrue(m, id)
  <2>1. LockTrue(s, id)
    BY DEF LocksOK
  <2>2. id[1] \in Accounts /\ id[2] \in Nat /\ id[2] < s.nonce[id[1]]
    BY <2>1 DEF LockTrue
  <2>3. m.nonce[id[1]] \in Nat /\ s.nonce[id[1]] \in Nat /\ m.nonce[id[1]] >= s.nonce[id[1]]
    BY <2>2 DEF Onward, IsLedger
  <2>4. id[2] < m.nonce[id[1]]
    BY <2>2, <2>3
  <2>5. QED  BY <2>1, <2>4 DEF LockTrue
<1>2. QED  BY <1>1 DEF LocksOK

LEMMA SameLocksKept ==
    ASSUME NEW s, IsLedger(s), NEW m, IsLedger(m), LocksOK(s), Onward(s, m),
           m.locks = s.locks, m.exported = s.exported
    PROVE  LocksOK(m)
BY LocksKept

LEMMA TxOnward ==
    ASSUME NEW s, IsLedger(s), NEW tx, IsTransaction(tx), NEW m, TxOutcome(s, tx, m)
    PROVE  Onward(s, m)
<1>1. \A a \in Accounts : s.nonce[a] \in Nat
  BY DEF IsLedger
<1>2. QED  BY <1>1 DEF TxOutcome, Untouched, Onward

\* The id of an export is new: its nonce has not been spent.
LEMMA ExportIsNew ==
    ASSUME NEW s, IsLedger(s), LocksOK(s), EscrowOK(s), NEW tx, IsTransaction(tx),
           tx.nonce = s.nonce[tx.from]
    PROVE  ExportId(tx) \notin DOMAIN s.locks /\ ExportId(tx) \notin DOMAIN s.exported
<1>1. /\ ExportId(tx) = <<tx.from, tx.nonce>>
      /\ tx.from \in Accounts /\ tx.nonce \in Nat
  BY DEF ExportId, IsTransaction
<1>2. ExportId(tx)[1] = tx.from /\ ExportId(tx)[2] = tx.nonce
  BY <1>1
<1>3. ExportId(tx) \notin DOMAIN s.locks
  <2> SUFFICES ASSUME ExportId(tx) \in DOMAIN s.locks PROVE FALSE
    OBVIOUS
  <2>1. ExportId(tx)[2] < s.nonce[ExportId(tx)[1]]
    BY DEF LocksOK, LockTrue
  <2>2. QED  BY <1>1, <1>2, <2>1
<1>4. ExportId(tx) \notin Foreign \X Nat
  BY <1>1, AccountsAssumption
<1>5. QED  BY <1>3, <1>4 DEF EscrowOK

LEMMA ExportLocks ==
    ASSUME NEW s, IsLedger(s), LocksOK(s), EscrowOK(s), NEW tx, IsTransaction(tx),
           tx.type = "export", tx.nonce = s.nonce[tx.from],
           NEW h, NEW m, IsLedger(m), ExportOutcome(s, tx, h, m), TxOutcome(s, tx, m)
    PROVE  LocksOK(m)
<1> PICK x : x = ExportId(tx)
  OBVIOUS
<1>1. x \notin DOMAIN s.locks /\ x \notin DOMAIN s.exported
  BY ExportIsNew
<1> DEFINE row == [sender |-> tx.from, amount |-> tx.amount,
                   unlock |-> h + LockTimeout, state |-> "Locked"]
           rec == [to |-> tx.to, hi |-> tx.hi, amount |-> tx.amount]
<1>2. m.locks = Put(s.locks, x, row) /\ m.exported = Put(s.exported, x, rec)
  BY <1>1 DEF ExportOutcome
<1>3. row.amount = tx.amount /\ rec.amount = tx.amount
  OBVIOUS
<1> HIDE DEF row, rec
<1>4. /\ DOMAIN m.locks = DOMAIN s.locks \cup {x}
      /\ DOMAIN m.exported = DOMAIN s.exported \cup {x}
      /\ m.locks[x] = row /\ m.exported[x] = rec
      /\ \A i \in DOMAIN s.locks : m.locks[i] = s.locks[i]
      /\ \A i \in DOMAIN s.exported : m.exported[i] = s.exported[i]
  BY <1>1, <1>2 DEF Put
<1>5. IsFiniteSet(DOMAIN m.locks)
  BY <1>4, FS_AddElement DEF LocksOK
<1>6. Onward(s, m)
  BY TxOnward
<1>7. ASSUME NEW id \in DOMAIN s.locks PROVE LockTrue(m, id)
  <2>1. LockTrue(s, id)
    BY DEF LocksOK
  <2>2. id[1] \in Accounts /\ id[2] \in Nat /\ id[2] < s.nonce[id[1]]
    BY <2>1 DEF LockTrue
  <2>3. m.nonce[id[1]] \in Nat /\ s.nonce[id[1]] \in Nat /\ m.nonce[id[1]] >= s.nonce[id[1]]
    BY <1>6, <2>2 DEF Onward, IsLedger
  <2>4. id[2] < m.nonce[id[1]]
    BY <2>2, <2>3
  <2>5. QED  BY <1>4, <2>1, <2>4 DEF LockTrue
<1>8. LockTrue(m, x)
  <2>1. x = <<tx.from, tx.nonce>> /\ tx.from \in Accounts /\ tx.nonce \in Nat
    BY DEF ExportId, IsTransaction
  <2>2. m.nonce[tx.from] = s.nonce[tx.from] + 1
    <3>1. m.nonce = Plus(s.nonce, tx.from, 1) /\ s.nonce \in [Accounts -> Nat]
      BY DEF ExportOutcome, IsLedger
    <3>2. QED  BY <2>1, <3>1, PlusAt
  <2>3. x[1] = tx.from /\ x[2] = tx.nonce /\ x \in Accounts \X Nat
    BY <2>1
  <2>4. x[2] < m.nonce[x[1]]
    BY <2>1, <2>2, <2>3
  <2>5. x \in DOMAIN m.exported /\ m.exported[x].amount = m.locks[x].amount
    BY <1>3, <1>4
  <2>6. QED  BY <2>3, <2>4, <2>5 DEF LockTrue
<1>9. QED  BY <1>4, <1>5, <1>7, <1>8 DEF LocksOK

\* An import that finds a lock finds it open, with the amount it claims.
LEMMA ImportFinds ==
    ASSUME NEW s, IsLedger(s), LocksOK(s), EscrowOK(s), NEW tx, NEW m,
           ImportOutcome(s, tx, m), tx.id \in DOMAIN s.locks
    PROVE  /\ s.locks[tx.id].state = "Locked" /\ s.locks[tx.id].amount = tx.amount
           /\ m.exported[tx.id] = s.exported[tx.id]
<1>1. PICK p \in Expected(s, tx) :
         ImportAllowed(s, tx, p) /\ m.exported = Put(s.exported, tx.id, p)
  BY DEF ImportOutcome
<1>2. tx.id \in DOMAIN s.exported /\ s.exported[tx.id].amount = s.locks[tx.id].amount
  BY DEF LocksOK, LockTrue
<1>3. p = s.exported[tx.id]
  BY <1>1, <1>2 DEF Expected
<1>4. p.amount = tx.amount /\ tx.id \notin s.imported
  BY <1>1 DEF ImportAllowed
<1>5. m.exported[tx.id] = p
  BY <1>1 DEF Put
<1>6. s.locks[tx.id].state = "Locked"
  BY <1>4 DEF EscrowOK
<1>7. QED  BY <1>2, <1>3, <1>4, <1>5, <1>6

LEMMA ImportLocks ==
    ASSUME NEW s, IsLedger(s), LocksOK(s), EscrowOK(s), NEW tx, IsTransaction(tx),
           NEW m, IsLedger(m), ImportOutcome(s, tx, m), TxOutcome(s, tx, m)
    PROVE  LocksOK(m)
<1>1. Onward(s, m)
  BY TxOnward
<1>2. /\ DOMAIN m.locks = DOMAIN s.locks
      /\ \A i \in DOMAIN s.locks :
            m.locks[i] = IF i = tx.id /\ s.locks[i].state = "Locked"
                         THEN [s.locks[i] EXCEPT !.state = "Released"] ELSE s.locks[i]
  BY DEF ImportOutcome
<1>3. ASSUME NEW i \in DOMAIN s.locks
      PROVE  m.locks[i].amount = s.locks[i].amount
  <2>1. s.locks[i] \in LockRows
    BY DEF IsLedger
  <2>2. [s.locks[i] EXCEPT !.state = "Released"].amount = s.locks[i].amount
    BY <2>1 DEF LockRows
  <2>3. QED  BY <1>2, <2>2
<1>4. PICK p : m.exported = Put(s.exported, tx.id, p)
  BY DEF ImportOutcome
<1>5. ASSUME NEW i \in DOMAIN s.locks
      PROVE  /\ i \in DOMAIN s.exported => i \in DOMAIN m.exported
             /\ m.exported[i] = s.exported[i]
  <2>1. i \in DOMAIN s.exported
    BY DEF LocksOK, LockTrue
  <2>2. CASE i = tx.id
    BY <1>4, <2>1, <2>2, ImportFinds DEF Put
  <2>3. CASE i # tx.id
    BY <1>4, <2>1, <2>3 DEF Put
  <2>4. QED  BY <2>2, <2>3
<1>6. QED  BY <1>1, <1>2, <1>3, <1>5, LocksKept

LEMMA RefundLocks ==
    ASSUME NEW s, IsLedger(s), LocksOK(s), NEW id \in OpenLocks(s),
           NEW m, IsLedger(m), RefundOutcome(s, id, m)
    PROVE  LocksOK(m)
<1>1. id \in DOMAIN s.locks /\ s.locks[id] \in LockRows
  BY DEF IsLedger, OpenLocks
<1>2. [s.locks[id] EXCEPT !.state = "Refunded"].amount = s.locks[id].amount
  BY <1>1 DEF LockRows
<1>3. /\ m.locks = Put(s.locks, id, [s.locks[id] EXCEPT !.state = "Refunded"])
      /\ m.exported = s.exported /\ m.nonce = s.nonce
  BY DEF RefundOutcome, Changes, Fields
<1>4. /\ DOMAIN m.locks = DOMAIN s.locks
      /\ \A i \in DOMAIN s.locks : m.locks[i].amount = s.locks[i].amount
  BY <1>1, <1>2, <1>3 DEF Put
<1>5. \A a \in Accounts : s.nonce[a] \in Nat
  BY DEF IsLedger
<1>6. Onward(s, m)
  BY <1>3, <1>5 DEF Onward
<1>7. QED  BY <1>3, <1>4, <1>6, LocksKept

-----------------------------------------------------------------------------
(* The producer of a block: in a finite set of indices there is one with   *)
(* every number of smaller ones.                                           *)

Below(S, i) == {j \in S : j < i}

LEMMA RankExists ==
    ASSUME NEW S \in SUBSET Nat, IsFiniteSet(S), NEW k \in Nat, k < Cardinality(S)
    PROVE  \E i \in S : Cardinality(Below(S, i)) = k
<1> DEFINE N == {n \in Nat : n < Cardinality(S) => \E i \in S : Cardinality(Below(S, i)) = n}
<1>1. Cardinality(S) \in Nat
  BY FS_CardinalityType
<1>2. 0 \in N
  <2> SUFFICES ASSUME 0 < Cardinality(S) PROVE \E i \in S : Cardinality(Below(S, i)) = 0
    OBVIOUS
  <2>1. S # {}
    BY FS_EmptySet
  <2>2. PICK i \in S : \A j \in S : i <= j
    BY <2>1, LeastNumber
  <2>3. Below(S, i) = {}
    <3>1. ASSUME NEW j \in S PROVE ~(j < i)
      <4>1. i <= j /\ i \in Nat /\ j \in Nat
        BY <2>2
      <4>2. QED  BY <4>1
    <3>2. QED  BY <3>1 DEF Below
  <2>4. QED  BY <2>3, FS_EmptySet
<1>3. ASSUME NEW n \in N PROVE n + 1 \in N
  <2> SUFFICES ASSUME n + 1 < Cardinality(S)
               PROVE  \E i \in S : Cardinality(Below(S, i)) = n + 1
    OBVIOUS
  <2>1. PICK i \in S : Cardinality(Below(S, i)) = n
    BY <1>1
  <2> DEFINE L == Below(S, i) \cup {i}
  <2>2. IsFiniteSet(Below(S, i)) /\ i \notin Below(S, i)
    <3>1. Below(S, i) \in SUBSET S /\ i \notin Below(S, i)
      BY DEF Below
    <3>2. QED  BY <3>1, FS_Subset
  <2>3. L \in SUBSET S /\ Cardinality(L) = n + 1
    BY <2>1, <2>2, FS_AddElement DEF Below
  <2>4. S \ L # {} /\ S \ L \in SUBSET Nat
    <3>1. L # S
      BY <1>1, <2>3
    <3>2. QED  BY <2>3, <3>1
  <2>5. PICK x \in S \ L : \A j \in S \ L : x <= j
    BY <2>4, LeastNumber
  <2>6. Below(S, x) = L
    <3>1. i < x
      BY <2>5 DEF Below
    <3>2. ASSUME NEW j \in S PROVE j < x <=> j \in L
      <4>1. CASE j \in L
        BY <3>1, <4>1 DEF Below
      <4>2. CASE j \notin L
        BY <2>5, <4>2
      <4>3. QED  BY <4>1, <4>2
    <3>3. QED  BY <2>3, <3>2 DEF Below
  <2>7. QED  BY <2>3, <2>5, <2>6
<1> HIDE DEF N
<1>4. N = Nat
  <2>1. N \in SUBSET Nat
    BY DEF N
  <2>2. QED  BY <1>2, <1>3, <2>1, Induction
<1>5. QED  BY <1>4 DEF N

LEMMA RestBelow ==
    ASSUME NEW n \in Nat, NEW d \in Nat, d > 0
    PROVE  n % d \in Nat /\ n % d < d
OBVIOUS

LEMMA ProducerIsAccount ==
    ASSUME NEW s, IsLedger(s), s.active # {}, NEW h \in Nat
    PROVE  Producer(s, h) \in Accounts
<1>1. Validators \in Seq(Accounts) /\ s.active \in SUBSET (1..Len(Validators))
  <2>1. DOMAIN Validators = 1..Len(Validators)
    BY ValidatorsAssumption
  <2>2. QED  BY <2>1, ValidatorsAssumption DEF IsLedger
<1>2. Len(Validators) \in Nat
  BY <1>1
<1>3. IsFiniteSet(s.active) /\ s.active \in SUBSET Nat
  <2>1. IsFiniteSet(1..Len(Validators)) /\ 1..Len(Validators) \in SUBSET Nat
    BY <1>2, FS_Interval
  <2>2. QED  BY <1>1, <2>1, FS_Subset
<1>4. Cardinality(s.active) \in Nat /\ Cardinality(s.active) > 0
  BY <1>3, FS_CardinalityType, FS_EmptySet
<1>5. PICK k : k = h % Cardinality(s.active)
  OBVIOUS
<1>6. k \in Nat /\ k < Cardinality(s.active)
  BY <1>4, <1>5, RestBelow
<1>7. \E i \in s.active : Cardinality(Below(s.active, i)) = k
  BY <1>3, <1>6, RankExists
<1> DEFINE x == CHOOSE i \in s.active : Cardinality({j \in s.active : j < i}) = k
<1>8. x \in s.active
  BY <1>7 DEF Below
<1>9. Producer(s, h) = Validators[x]
  BY <1>5 DEF Producer
<1> HIDE DEF x
<1>10. QED  BY <1>1, <1>8, <1>9

-----------------------------------------------------------------------------
(* The supply.                                                             *)

\* What a step does to the supply, its locks and the active validators.
Keeps(s, m, x) == Gains(s, m, x) /\ LocksOK(m) /\ m.active = s.active

\* A transaction that leaves the escrow alone.
LEMMA PlainKeeps ==
    ASSUME NEW s, IsLedger(s), LocksOK(s), NEW m, IsLedger(m), Onward(s, m), NEW x,
           Gains(s, m, x), m.locks = s.locks, m.exported = s.exported, m.active = s.active
    PROVE  Keeps(s, m, x)
BY SameLocksKept DEF Keeps

LEMMA InitKeeps ==
    ASSUME NEW s, IsLedger(s), LocksOK(s), NEW tx, NEW h, NEW m, IsLedger(m), Onward(s, m),
           InitOutcome(s, tx, h, m)
    PROVE  Keeps(s, m, 0)
<1>1. /\ m.bal = s.bal /\ m.stake = s.stake /\ m.fees = s.fees /\ m.locks = s.locks
      /\ m.exported = s.exported /\ m.active = s.active
  BY DEF InitOutcome, Changes, Fields
<1>2. Gains(s, m, 0)
  BY <1>1, SameValue DEF LocksOK
<1>3. QED  BY <1>1, <1>2, PlainKeeps

LEMMA TransferKeeps ==
    ASSUME NEW s, IsLedger(s), LocksOK(s), NEW tx, IsTransaction(tx), tx.type = "transfer",
           NEW h, NEW skip, NEW m \in Transfer(s, tx, h, skip), IsLedger(m), Onward(s, m)
    PROVE  Keeps(s, m, 0)
<1>1. s = AsLedger(s) /\ s.open \subseteq Accounts /\ IsFiniteSet(DOMAIN s.locks)
  BY DEF IsLedger, LocksOK
<1>2. PICK dst \in s.open : /\ s.bal[tx.from] >= tx.amount + tx.fee
                            /\ m \in {Enqueue(s, tx, dst, h), Pay(s, tx, dst)}
  BY DEF Transfer
<1>3. CASE m = Pay(s, tx, dst)
  <2>1. PayOutcome(s, tx, dst, m)
    BY <1>1, <1>3, PayEffect
  <2>2. m.locks = s.locks /\ m.exported = s.exported /\ m.active = s.active
    BY <2>1 DEF PayOutcome, Changes, Fields
  <2>3. Gains(s, m, 0)
    BY <1>1, <1>2, <2>1, PayGain
  <2>4. QED  BY <2>2, <2>3, PlainKeeps
<1>4. CASE m = Enqueue(s, tx, dst, h)
  <2>1. EnqueueOutcome(s, tx, dst, h, m)
    BY <1>1, <1>4, EnqueueEffect
  <2>2. /\ m.bal = s.bal /\ m.stake = s.stake /\ m.fees = s.fees /\ m.locks = s.locks
        /\ m.exported = s.exported /\ m.active = s.active
    BY <2>1 DEF EnqueueOutcome, Changes, Fields
  <2>3. Gains(s, m, 0)
    BY <1>1, <2>2, SameValue
  <2>4. QED  BY <2>2, <2>3, PlainKeeps
<1>5. QED  BY <1>2, <1>3, <1>4

LEMMA StakeKeeps ==
    ASSUME NEW s, IsLedger(s), LocksOK(s), NEW tx, IsTransaction(tx),
           tx.type \in {"stake", "unstake"}, NEW m, IsLedger(m), Onward(s, m),
           StakeOutcome(s, tx, m) \/ UnstakeOutcome(s, tx, m)
    PROVE  Keeps(s, m, 0)
<1>1. m.locks = s.locks /\ m.exported = s.exported /\ m.active = s.active
  BY DEF StakeOutcome, UnstakeOutcome, Changes, Fields
<1>2. Gains(s, m, 0)
  BY StakeGain DEF LocksOK
<1>3. QED  BY <1>1, <1>2, PlainKeeps

LEMMA BurnKeeps ==
    ASSUME NEW s, IsLedger(s), LocksOK(s), NEW tx, NEW m, IsLedger(m), Onward(s, m),
           BurnOutcome(s, tx, m)
    PROVE  Keeps(s, m, 0)
<1>1. /\ m.bal = s.bal /\ m.stake = s.stake /\ m.fees = s.fees /\ m.locks = s.locks
      /\ m.exported = s.exported /\ m.active = s.active
  BY DEF BurnOutcome, Changes, Fields
<1>2. Gains(s, m, 0)
  BY <1>1, SameValue DEF LocksOK
<1>3. QED  BY <1>1, <1>2, PlainKeeps

LEMMA ClaimKeeps ==
    ASSUME NEW s, IsLedger(s), LocksOK(s), NEW tx, IsTransaction(tx),
           NEW m, IsLedger(m), Onward(s, m), ClaimOutcome(s, tx, m)
    PROVE  Keeps(s, m, Allocation)
<1>1. /\ m.bal = Plus(s.bal, tx.from, Allocation)
      /\ m.stake = s.stake /\ m.fees = s.fees /\ m.locks = s.locks
      /\ m.exported = s.exported /\ m.active = s.active
  BY DEF ClaimOutcome, Changes, Fields
<1>2. tx.from \in Accounts /\ Allocation \in Nat /\ IsFiniteSet(DOMAIN s.locks)
  BY ParametersAssumption DEF IsTransaction, LocksOK
<1>3. Gains(s, m, Allocation)
  BY <1>1, <1>2, CreditGain
<1>4. QED  BY <1>1, <1>3, PlainKeeps

LEMMA PolicyKeeps ==
    ASSUME NEW s, IsLedger(s), LocksOK(s), NEW tx, IsTransaction(tx), tx.type = "policy",
           NEW h, NEW m, IsLedger(m), Onward(s, m), PolicyOutcome(s, tx, h, m)
    PROVE  Keeps(s, m, 0)
<1>1. m.locks = s.locks /\ m.exported = s.exported /\ m.active = s.active
  BY DEF PolicyOutcome, Changes, Fields
<1>2. Gains(s, m, 0)
  BY PolicyGain DEF LocksOK
<1>3. QED  BY <1>1, <1>2, PlainKeeps

LEMMA ExportKeeps ==
    ASSUME NEW s, IsLedger(s), LocksOK(s), EscrowOK(s), NEW tx, IsTransaction(tx),
           tx.type = "export", tx.nonce = s.nonce[tx.from], NEW h, NEW m, IsLedger(m),
           TxOutcome(s, tx, m), ExportOutcome(s, tx, h, m)
    PROVE  Keeps(s, m, 0)
<1>1. m.active = s.active
  BY DEF ExportOutcome, Changes, Fields
<1>2. Gains(s, m, 0)
  BY ExportIsNew, ExportGain DEF LocksOK
<1>3. QED  BY <1>1, <1>2, ExportLocks DEF Keeps

LEMMA ImportKeeps ==
    ASSUME NEW s, IsLedger(s), LocksOK(s), EscrowOK(s), NEW tx, IsTransaction(tx),
           tx.type = "import", NEW m, IsLedger(m),
           TxOutcome(s, tx, m), ImportOutcome(s, tx, m)
    PROVE  Keeps(s, m, IF tx.id \in DOMAIN s.locks THEN 0 ELSE tx.amount)
<1>1. m.active = s.active
  BY DEF ImportOutcome, Changes, Fields
<1>2. Gains(s, m, IF tx.id \in DOMAIN s.locks THEN 0 ELSE tx.amount)
  BY ImportFinds, ImportGain DEF LocksOK
<1>3. QED  BY <1>1, <1>2, ImportLocks DEF Keeps

\* What Issued says of every transaction is what it adds.
LEMMA IncludeKeeps ==
    ASSUME TypeInv, EscrowOK(l), LocksOK(l),
           NEW tx \in Txs, NEW skip \in BOOLEAN, Include(tx, skip)
    PROVE  Keeps(l, l', Issued(tx)) /\ issued' = issued + Issued(tx)
<1>1. IsTransaction(tx) /\ IsLedger(l) /\ H \in Nat /\ l = AsLedger(l) /\ tx.type \in TxTypes
  BY HeightType, TxsAssumption DEF TypeInv, TypeOK, IsLedger, IsTransaction
<1>2. l' \in ApplyTx(l, tx, H, skip) /\ issued' = issued + Issued(tx)
  BY DEF Include
<1>3. l' \in Body(l, tx, H, skip) /\ tx.nonce = l.nonce[tx.from]
  BY <1>2 DEF ApplyTx, Admitted
<1>4. IsLedger(l') /\ TxOutcome(l, tx, l')
  BY <1>1, <1>2, ApplyTxType, ApplyTxOutcome
<1>5. Onward(l, l')
  BY <1>1, <1>4, TxOnward
<1>6. CASE tx.type = "init"
  <2>1. InitOutcome(l, tx, H, l') /\ Issued(tx) = 0
    BY <1>1, <1>3, <1>6, InitEffect DEF Body, Issued
  <2>2. QED  BY <1>1, <1>2, <1>4, <1>5, <2>1, InitKeeps
<1>7. CASE tx.type = "transfer"
  <2>1. l' \in Transfer(l, tx, H, skip) /\ Issued(tx) = 0
    BY <1>3, <1>7 DEF Body, Issued
  <2>2. QED  BY <1>1, <1>2, <1>4, <1>5, <1>7, <2>1, TransferKeeps
<1>8. CASE tx.type \in {"stake", "unstake"}
  <2>1. (StakeOutcome(l, tx, l') \/ UnstakeOutcome(l, tx, l')) /\ Issued(tx) = 0
    BY <1>1, <1>3, <1>8, StakeEffect, UnstakeEffect DEF Body, Issued
  <2>2. QED  BY <1>1, <1>2, <1>4, <1>5, <1>8, <2>1, StakeKeeps
<1>9. CASE tx.type = "burn"
  <2>1. BurnOutcome(l, tx, l') /\ Issued(tx) = 0
    BY <1>1, <1>3, <1>9, BurnEffect DEF Body, Issued
  <2>2. QED  BY <1>1, <1>2, <1>4, <1>5, <2>1, BurnKeeps
<1>10. CASE tx.type = "claim"
  <2>1. ClaimOutcome(l, tx, l') /\ Issued(tx) = Allocation
    BY <1>1, <1>3, <1>10, ClaimEffect DEF Body, Issued
  <2>2. QED  BY <1>1, <1>2, <1>4, <1>5, <2>1, ClaimKeeps
<1>11. CASE tx.type = "export"
  <2>1. ExportOutcome(l, tx, H, l') /\ Issued(tx) = 0
    BY <1>1, <1>3, <1>11, ExportEffect DEF Body, Issued
  <2>2. QED  BY <1>1, <1>2, <1>3, <1>4, <1>11, <2>1, ExportKeeps
<1>12. CASE tx.type = "import"
  <2>1. /\ ImportOutcome(l, tx, l')
        /\ Issued(tx) = IF tx.id \in DOMAIN l.locks THEN 0 ELSE tx.amount
    BY <1>1, <1>3, <1>12, ImportEffect DEF Body, Issued
  <2>2. QED  BY <1>1, <1>2, <1>4, <1>12, <2>1, ImportKeeps
<1>13. CASE tx.type = "policy"
  <2>1. PolicyOutcome(l, tx, H, l') /\ Issued(tx) = 0
    BY <1>1, <1>3, <1>13, PolicyEffect DEF Body, Issued
  <2>2. QED  BY <1>1, <1>2, <1>4, <1>5, <1>13, <2>1, PolicyKeeps
<1>14. QED
  BY <1>1, <1>6, <1>7, <1>8, <1>9, <1>10, <1>11, <1>12, <1>13 DEF TxTypes

\* A block is only built while there is a producer to pay.
BusyOK == phase # "idle" => HasProducer(l)

SupplyInv == EscrowInv /\ LocksOK(l) /\ BusyOK /\ SupplyConserved

(* No due row goes back to the account it came from.  apply_due_conservation*)
(* does not rule it out: the recipient's redirect may name the sender, and  *)
(* then the balance written for the recipient overwrites the sender's debit.*)
NoneRoutedBack == \A row \in visit : row.sender \notin DrainRoutes(l, row, H)

LEMMA InitSupplyInv == Init => SupplyInv
<1> SUFFICES ASSUME Init PROVE SupplyInv
  OBVIOUS
<1>1. EscrowInv
  BY InitTypeInv, StartAssumption DEF Init, EscrowInv, EscrowOK
<1>2. l = Start /\ issued = 0 /\ DOMAIN l.locks = {} /\ IsLedger(l) /\ phase = "idle"
  BY StartAssumption DEF Init
<1>3. LocksOK(l)
  BY <1>2, FS_EmptySet DEF LocksOK
<1>4. Supply(l) \in Nat
  <2>1. IsLedger(l) /\ IsFiniteSet(DOMAIN l.locks)
    BY <1>2, FS_EmptySet
  <2>2. /\ SumFunction(l.bal) \in Nat /\ SumFunction(l.stake) \in Nat
        /\ l.fees \in Nat /\ LockedValue(l) \in Nat
        /\ Supply(l) = SumFunction(l.bal) + SumFunction(l.stake) + l.fees + LockedValue(l)
    BY <2>1, SupplyParts
  <2>3. QED  BY ONLY <2>2
<1>5. SupplyConserved
  BY <1>2, <1>4 DEF SupplyConserved
<1>6. QED  BY <1>1, <1>2, <1>3, <1>5 DEF SupplyInv, BusyOK

\* What each kind of step adds to the supply is what it issues.
LEMMA StepKeeps ==
    ASSUME SupplyInv, NoneRoutedBack, [Next]_vars
    PROVE  \E x \in Nat : /\ Gains(l, l', x) /\ LocksOK(l') /\ issued' = issued + x
                          /\ HasProducer(l') \/ l'.active = l.active
<1>1. /\ TypeInv /\ TypeInv' /\ IsLedger(l) /\ IsLedger(l') /\ StepKind /\ issued \in Nat
      /\ EscrowOK(l) /\ LocksOK(l) /\ BusyOK /\ IsFiniteSet(DOMAIN l.locks)
  BY NextTypeInv, StepCases DEF SupplyInv, EscrowInv, TypeInv, TypeOK, LocksOK
<1>2. \A a \in Accounts : l.nonce[a] \in Nat
  BY <1>1 DEF IsLedger
<1> DEFINE Goal(x) == /\ Gains(l, l', x) /\ LocksOK(l') /\ issued' = issued + x
                      /\ HasProducer(l') \/ l'.active = l.active
<1>3. issued = issued + 0
  BY <1>1
<1>4. ASSUME l' = l, issued' = issued PROVE Goal(0)
  <2>1. Gains(l, l', 0)
    BY <1>1, <1>4, SameValue
  <2>2. QED  BY <1>1, <1>3, <1>4, <2>1
<1>5. ASSUME RollOutcome(l, H, l'), HasProducer(l'), issued' = issued PROVE Goal(0)
  <2>1. /\ l'.bal = l.bal /\ l'.stake = l.stake /\ l'.fees = l.fees /\ l'.locks = l.locks
        /\ l'.exported = l.exported /\ l'.nonce = l.nonce
    BY <1>5 DEF RollOutcome, Changes, Fields
  <2>2. Gains(l, l', 0)
    BY <1>1, <2>1, SameValue
  <2>3. Onward(l, l')
    BY <1>2, <2>1 DEF Onward
  <2>4. LocksOK(l')
    BY <1>1, <2>1, <2>3, SameLocksKept
  <2>5. QED  BY <1>3, <1>5, <2>2, <2>4
<1>6. ASSUME NEW id \in ExpiredLocks(l, H), RefundOutcome(l, id, l'), issued' = issued
      PROVE  Goal(0)
  <2>1. id \in OpenLocks(l)
    BY DEF ExpiredLocks, OpenLocks
  <2>2. Gains(l, l', 0) /\ LocksOK(l')
    BY <1>1, <1>6, <2>1, RefundGain, RefundLocks
  <2>3. l'.active = l.active
    BY <1>6 DEF RefundOutcome, Changes, Fields
  <2>4. QED  BY <1>3, <1>6, <2>2, <2>3
<1>7. ASSUME NEW tx \in Txs, NEW skip \in BOOLEAN, Include(tx, skip)
      PROVE  Issued(tx) \in Nat /\ Goal(Issued(tx))
  <2>1. IsTransaction(tx)
    BY TxsAssumption
  <2>2. Issued(tx) \in Nat
    BY <2>1, ParametersAssumption DEF Issued, IsTransaction
  <2>3. Keeps(l, l', Issued(tx)) /\ issued' = issued + Issued(tx)
    BY <1>1, <1>7, IncludeKeeps
  <2>4. QED  BY <2>2, <2>3 DEF Keeps
<1>8. ASSUME NEW row \in l.pend, NEW dst \in DrainRoutes(l, row, H), row \in visit,
             DrainOutcome(l, row, dst, l'), issued' = issued
      PROVE  Goal(0)
  <2>1. dst # row.sender
    BY <1>8 DEF NoneRoutedBack
  <2>2. Gains(l, l', 0)
    BY <1>1, <1>8, <2>1, DrainGain
  <2>3. Onward(l, l')
    BY <1>1, <1>8, DrainValues DEF Onward
  <2>4. l'.locks = l.locks /\ l'.exported = l.exported /\ l'.active = l.active
    BY <1>8 DEF DrainOutcome, Changes, Fields
  <2>5. LocksOK(l')
    BY <1>1, <2>3, <2>4, SameLocksKept
  <2>6. QED  BY <1>3, <1>8, <2>2, <2>4, <2>5
<1>9. ASSUME phase = "drain", RewardOutcome(l, Producer(l, H), l'),
             issued' = issued + PaidReward(l, Producer(l, H))
      PROVE  PaidReward(l, Producer(l, H)) \in Nat /\ Goal(PaidReward(l, Producer(l, H)))
  <2>1. Producer(l, H) \in Accounts
    BY <1>1, <1>9, HeightType, ProducerIsAccount DEF BusyOK, HasProducer, TypeInv
  <2>2. PaidReward(l, Producer(l, H)) \in Nat
    BY <1>1, RewardType
  <2>3. /\ l'.bal = Plus(l.bal, Producer(l, H), PaidReward(l, Producer(l, H)))
        /\ l'.stake = l.stake /\ l'.fees = l.fees /\ l'.locks = l.locks
        /\ l'.exported = l.exported /\ l'.active = l.active /\ l'.nonce = l.nonce
    BY <1>9 DEF RewardOutcome, Changes, Fields
  <2>4. Gains(l, l', PaidReward(l, Producer(l, H)))
    BY <1>1, <2>1, <2>2, <2>3, CreditGain
  <2>5. Onward(l, l')
    BY <1>2, <2>3 DEF Onward
  <2>6. LocksOK(l')
    BY <1>1, <2>3, <2>5, SameLocksKept
  <2>7. QED  BY <1>9, <2>2, <2>3, <2>4, <2>6
<1> HIDE DEF Goal
<1>10. \E x \in Nat : Goal(x)
  BY <1>1, <1>4, <1>5, <1>6, <1>7, <1>8, <1>9 DEF StepKind
<1>11. QED  BY <1>10 DEF Goal

\* Only BeginBlock, which finds a producer, leaves the idle phase.
LEMMA LeavesIdle ==
    ASSUME [Next]_vars, phase' # "idle", phase = "idle"
    PROVE  HasProducer(l')
<1>1. BeginBlock
  BY DEF Next, vars, BeginBlock, Refund, RefundsDone, IncludeType, Include, CloseTxs,
         BeginDrain, Drain, Seal
<1>2. QED  BY <1>1 DEF BeginBlock

LEMMA NextSupplyInv == SupplyInv /\ NoneRoutedBack /\ [Next]_vars => SupplyInv'
<1> SUFFICES ASSUME SupplyInv, NoneRoutedBack, [Next]_vars
             PROVE  SupplyInv'
  OBVIOUS
<1>1. EscrowInv'
  BY NextEscrowInv DEF SupplyInv
<1>2. PICK x \in Nat : /\ Gains(l, l', x) /\ LocksOK(l') /\ issued' = issued + x
                       /\ HasProducer(l') \/ l'.active = l.active
  BY StepKeeps
<1>3. BusyOK'
  BY <1>2, LeavesIdle DEF SupplyInv, BusyOK, HasProducer
<1>4. Supply(l) = Supply(Start) + issued /\ Supply(l') = Supply(l) + x
  BY <1>2 DEF SupplyInv, SupplyConserved, Gains
<1>5. issued \in Nat /\ Supply(Start) \in Nat
  <2>1. IsLedger(Start) /\ IsFiniteSet(DOMAIN Start.locks)
    BY StartAssumption, FS_EmptySet
  <2>2. QED  BY <2>1, SupplyParts DEF SupplyInv, EscrowInv, TypeInv, TypeOK
<1>6. SupplyConserved'
  BY <1>2, <1>4, <1>5 DEF SupplyConserved
<1>7. QED  BY <1>1, <1>2, <1>3, <1>6 DEF SupplyInv

(* Balances, stakes, fees and open locks of a shard add up to what there   *)
(* was at the start plus what was issued, through every transaction,       *)
(* refund, drain and reward of every block, as long as no due row comes    *)
(* back to its sender: that is the only way this chain loses track of      *)
(* value, and the instance of MCLedgerSelfRescue shows that it is one.     *)
THEOREM SupplyIsConserved == Spec /\ []NoneRoutedBack => []SupplyConserved
<1>1. SupplyInv => SupplyConserved
  BY DEF SupplyInv
<1> QED
  BY <1>1, InitSupplyInv, NextSupplyInv, PTL DEF Spec

-----------------------------------------------------------------------------
(* A row that leaves the queue took its nonce with it.                     *)

LEMMA RowSpent ==
    ASSUME RowsInv, NoneRoutedBack, [Next]_vars, NEW row \in l.pend, row \notin l'.pend
    PROVE  l'.nonce[row.sender] > row.nonce
<1>1. /\ TypeInv /\ IsLedger(l) /\ StepKind /\ RowsOK(l)
      /\ l.nonce \in [Accounts -> Nat] /\ row.sender \in Accounts /\ row.nonce \in Nat
      /\ row.amount \in Nat /\ row.fee \in Nat
  BY StepCases DEF RowsInv, FinalInv, TypeInv, TypeOK, IsLedger, PendingRows
<1>2. l.nonce[row.sender] = row.nonce
  BY <1>1 DEF RowsOK
<1>3. l'.pend # l.pend /\ l' # l
  OBVIOUS
<1>4. ~RollOutcome(l, H, l')
  BY <1>3 DEF RollOutcome, Changes, Fields
<1>5. \A id : ~RefundOutcome(l, id, l')
  BY <1>3 DEF RefundOutcome, Changes, Fields
<1>6. ~RewardOutcome(l, Producer(l, H), l')
  BY <1>3 DEF RewardOutcome, Changes, Fields
<1>7. ASSUME NEW tx \in Txs, NEW skip \in BOOLEAN, Include(tx, skip)
      PROVE  l'.nonce[row.sender] > row.nonce
  <2>1. IsTransaction(tx) /\ l' \in ApplyTx(l, tx, H, skip) /\ tx.from \in Accounts
    BY <1>7, TxsAssumption DEF Include, IsTransaction
  <2>2. \A dst : ~EnqueueOutcome(l, tx, dst, H, l')
    BY DEF EnqueueOutcome
  <2>3. /\ l'.pend = {r \in l.pend : r.sender # tx.from}
        /\ l'.nonce = Plus(l.nonce, tx.from, 1)
    BY <1>1, <1>3, <2>1, <2>2, QueueOutcome
  <2>4. row.sender = tx.from
    BY <2>3
  <2>5. l'.nonce[row.sender] = row.nonce + 1
    BY <1>1, <1>2, <2>1, <2>3, <2>4, PlusAt
  <2>6. QED  BY <1>1, <2>5
<1>8. ASSUME NEW r \in l.pend, NEW dst \in DrainRoutes(l, r, H), r \in visit,
             DrainOutcome(l, r, dst, l')
      PROVE  l'.nonce[row.sender] > row.nonce
  <2>1. r = row
    BY <1>8 DEF DrainOutcome
  <2>2. dst # row.sender
    BY <1>8, <2>1 DEF NoneRoutedBack
  <2> PICK f : f = Plus(l.nonce, row.sender, 1)
    OBVIOUS
  <2>3. f \in [Accounts -> Nat] /\ f[row.sender] = row.nonce + 1
    <3>1. f \in [Accounts -> Nat]
      BY <1>1, PlusType
    <3>2. f[row.sender] = l.nonce[row.sender] + 1
      BY <1>1, PlusAt
    <3>3. QED  BY <1>2, <3>1, <3>2
  <2>4. l'.nonce = Put(f, dst, l.nonce[dst])
    BY <1>8, <2>1 DEF DrainOutcome
  <2>5. l'.nonce[row.sender] = row.nonce + 1
    BY <1>1, <2>2, <2>3, <2>4 DEF Put
  <2>6. QED  BY <1>1, <2>5
<1>9. QED
  BY <1>1, <1>3, <1>4, <1>5, <1>6, <1>7, <1>8 DEF StepKind

LEMMA InitRowsInv == Init => RowsInv
BY InitFinalInv, StartAssumption DEF Init, RowsInv, RowsOK

(* A signed conservation transfer is executed or cancelled once: whatever  *)
(* takes its row out of the queue, the drain of its height or an emergency *)
(* activation, moves its sender's nonce past it, so the transfer cannot be *)
(* applied again, as long as no due row comes back to its sender.          *)
THEOREM RowsConsumeNonces == Spec /\ []NoneRoutedBack => RowConsumesNonce
<1>1. ASSUME RowsInv, NoneRoutedBack, [Next]_vars
      PROVE  [\A row \in l.pend \ l'.pend : l'.nonce[row.sender] > row.nonce]_vars
  BY <1>1, RowSpent
<1> QED
  BY <1>1, InitRowsInv, NextRowsInv, PTL DEF Spec, RowConsumesNonce

-----------------------------------------------------------------------------
(* When no row comes back.                                                 *)

(* No conservation account is ever named as a rescue account, neither at   *)
(* the start nor by the Init of an account.                                *)
ConservNeverRescues ==
    /\ \A a \in DOMAIN Start.rescue : Start.rescue[a] \notin ConservFlag
    /\ \A tx \in Txs : tx.type = "init" => tx.rescue \cap ConservFlag = {}

RescuesApart(s) == \A a \in DOMAIN s.rescue : s.rescue[a] \notin ConservFlag
RowsApart(s) == \A row \in s.pend : row.to # row.sender

ApartInv == RowsInv /\ RescuesApart(l) /\ RowsApart(l)

\* Rescue accounts are named by Init alone.
LEMMA RescueOutcome ==
    ASSUME NEW s, IsLedger(s), NEW tx, IsTransaction(tx), NEW h, NEW skip,
           NEW m \in ApplyTx(s, tx, h, skip)
    PROVE  m.rescue = s.rescue \/ (tx.type = "init" /\ InitOutcome(s, tx, h, m))
<1>1. s = AsLedger(s) /\ tx.type \in TxTypes /\ m \in Body(s, tx, h, skip)
  BY DEF IsLedger, IsTransaction, ApplyTx
<1>2. CASE tx.type = "init"
  BY <1>1, <1>2, InitEffect DEF Body
<1>3. CASE tx.type = "transfer"
  <2>1. PICK dst : m \in {Pay(s, tx, dst), Enqueue(s, tx, dst, h)}
    BY <1>1, <1>3 DEF Body, Transfer
  <2>2. PayOutcome(s, tx, dst, m) \/ EnqueueOutcome(s, tx, dst, h, m)
    BY <1>1, <2>1, PayEffect, EnqueueEffect
  <2>3. QED  BY <2>2 DEF PayOutcome, EnqueueOutcome, Changes, Fields
<1>4. CASE tx.type \in {"stake", "unstake"}
  <2>1. StakeOutcome(s, tx, m) \/ UnstakeOutcome(s, tx, m)
    BY <1>1, <1>4, StakeEffect, UnstakeEffect DEF Body
  <2>2. QED  BY <2>1 DEF StakeOutcome, UnstakeOutcome, Changes, Fields
<1>5. CASE tx.type \in {"burn", "claim"}
  <2>1. BurnOutcome(s, tx, m) \/ ClaimOutcome(s, tx, m)
    BY <1>1, <1>5, BurnEffect, ClaimEffect DEF Body
  <2>2. QED  BY <2>1 DEF BurnOutcome, ClaimOutcome, Changes, Fields
<1>6. CASE tx.type = "export"
  <2>1. ExportOutcome(s, tx, h, m)
    BY <1>1, <1>6, ExportEffect DEF Body
  <2>2. QED  BY <2>1 DEF ExportOutcome, Changes, Fields
<1>7. CASE tx.type = "import"
  <2>1. ImportOutcome(s, tx, m)
    BY <1>1, <1>7, ImportEffect DEF Body
  <2>2. QED  BY <2>1 DEF ImportOutcome, Changes, Fields
<1>8. CASE tx.type = "policy"
  <2>1. PolicyOutcome(s, tx, h, m)
    BY <1>1, <1>8, PolicyEffect DEF Body
  <2>2. QED  BY <2>1 DEF PolicyOutcome, Changes, Fields
<1>9. QED
  BY <1>1, <1>2, <1>3, <1>4, <1>5, <1>6, <1>7, <1>8 DEF TxTypes

\* A routing of the policy gates ends at the recipient or at a rescue account.
LEMMA RouteEnds ==
    ASSUME NEW s, RescuesApart(s), NEW a \in ConservFlag, NEW b, a # b, NEW h,
           NEW dst \in RouteTo(s, a, b, h)
    PROVE  dst # a
<1>1. dst = b \/ (b \in DOMAIN s.rescue /\ dst = s.rescue[b])
  BY DEF RouteTo, RescueOf
<1>2. QED  BY <1>1 DEF RescuesApart

LEMMA TxApart ==
    ASSUME ConservNeverRescues, NEW s, IsLedger(s), RescuesApart(s), RowsApart(s),
           NEW tx \in Txs, NEW h, NEW skip, NEW m \in ApplyTx(s, tx, h, skip)
    PROVE  RescuesApart(m) /\ RowsApart(m)
<1>1. IsTransaction(tx)
  BY TxsAssumption
<1>2. RescuesApart(m)
  <2>1. CASE m.rescue = s.rescue
    BY <2>1 DEF RescuesApart
  <2>2. CASE tx.type = "init" /\ InitOutcome(s, tx, h, m)
    <3>1. CASE m.rescue = s.rescue
      BY <3>1 DEF RescuesApart
    <3>2. ASSUME NEW a \in tx.rescue, m.rescue = Put(s.rescue, tx.from, a)
          PROVE  RescuesApart(m)
      <4>1. a \notin ConservFlag
        BY <2>2 DEF ConservNeverRescues
      <4>2. QED  BY <3>2, <4>1 DEF RescuesApart, Put
    <3>3. QED  BY <2>2, <3>1, <3>2 DEF InitOutcome
  <2>3. QED  BY <1>1, <2>1, <2>2, RescueOutcome
<1>3. RowsApart(m)
  <2>1. CASE m.pend \subseteq s.pend
    BY <2>1 DEF RowsApart
  <2>2. ASSUME tx.from \in ConservFlag, tx.from # tx.to,
               NEW dst, dst = tx.to \/ dst \in RouteTo(s, tx.from, tx.to, h),
               EnqueueOutcome(s, tx, dst, h, m)
        PROVE  RowsApart(m)
    <3>1. dst # tx.from
      BY <2>2, RouteEnds
    <3> DEFINE new == [sender |-> tx.from, to |-> dst, amount |-> tx.amount, fee |-> tx.fee,
                       nonce |-> tx.nonce, at |-> h + ConservDelay]
    <3>2. m.pend = s.pend \cup {new}
      BY <2>2 DEF EnqueueOutcome
    <3>3. new.sender = tx.from /\ new.to = dst
      OBVIOUS
    <3> HIDE DEF new
    <3>4. QED  BY <3>1, <3>2, <3>3 DEF RowsApart
  <2>3. QED  BY <1>1, <2>1, <2>2, QueueOutcome
<1>4. QED  BY <1>2, <1>3

LEMMA IncludeApart ==
    ASSUME ConservNeverRescues, ApartInv, NEW tx \in Txs, NEW skip \in BOOLEAN,
           Include(tx, skip)
    PROVE  RescuesApart(l') /\ RowsApart(l')
<1>1. /\ IsLedger(l) /\ l' \in ApplyTx(l, tx, H, skip)
      /\ RescuesApart(l) /\ RowsApart(l)
  BY DEF ApartInv, RowsInv, FinalInv, TypeInv, TypeOK, Include
<1>2. QED  BY <1>1, TxApart

LEMMA NextApartInv ==
    ASSUME ConservNeverRescues
    PROVE  ApartInv /\ [Next]_vars => ApartInv'
<1> SUFFICES ASSUME ApartInv, [Next]_vars PROVE ApartInv'
  OBVIOUS
<1>1. RowsInv'
  BY NextRowsInv DEF ApartInv
<1>2. StepKind /\ RescuesApart(l) /\ RowsApart(l)
  BY StepCases DEF ApartInv, RowsInv, FinalInv
<1>3. ASSUME l'.rescue = l.rescue, l'.pend \subseteq l.pend
      PROVE  RescuesApart(l') /\ RowsApart(l')
  BY <1>2, <1>3 DEF RescuesApart, RowsApart
<1>4. RollOutcome(l, H, l') => l'.rescue = l.rescue /\ l'.pend = l.pend
  BY DEF RollOutcome, Changes, Fields
<1>5. \A id : RefundOutcome(l, id, l') => l'.rescue = l.rescue /\ l'.pend = l.pend
  BY DEF RefundOutcome, Changes, Fields
<1>6. \A row, dst : DrainOutcome(l, row, dst, l')
                      => l'.rescue = l.rescue /\ l'.pend = l.pend \ {row}
  BY DEF DrainOutcome, Changes, Fields
<1>7. RewardOutcome(l, Producer(l, H), l') => l'.rescue = l.rescue /\ l'.pend = l.pend
  BY DEF RewardOutcome, Changes, Fields
<1>8. RescuesApart(l') /\ RowsApart(l')
  BY <1>2, <1>3, <1>4, <1>5, <1>6, <1>7, IncludeApart DEF StepKind
<1>9. QED  BY <1>1, <1>8 DEF ApartInv

\* So no due row comes back to its sender.
LEMMA NeverRoutedBack ==
    ASSUME ConservNeverRescues
    PROVE  Spec => []NoneRoutedBack
<1>1. Init => ApartInv
  <2> SUFFICES ASSUME Init PROVE ApartInv
    OBVIOUS
  <2>1. l = Start /\ Start.pend = {}
    BY StartAssumption DEF Init
  <2>2. QED  BY <2>1, InitRowsInv DEF ApartInv, RescuesApart, RowsApart, ConservNeverRescues
<1>2. ApartInv => NoneRoutedBack
  <2> SUFFICES ASSUME ApartInv, NEW row \in visit, row.sender \in DrainRoutes(l, row, H)
               PROVE  FALSE
    BY DEF NoneRoutedBack
  <2>1. row \in l.pend
    BY DEF ApartInv, RowsInv, FinalInv, TypeInv, TypeOK
  <2>2. row.sender \in ConservFlag /\ row.to # row.sender
    BY <2>1 DEF ApartInv, RowsInv, RowsOK, RowsApart
  <2>3. row.sender \in RouteTo(l, row.sender, row.to, H)
    BY DEF DrainRoutes
  <2>4. QED  BY <2>2, <2>3, RouteEnds DEF ApartInv
<1>3. ApartInv /\ [Next]_vars => ApartInv'
  BY NextApartInv
<1> QED
  BY <1>1, <1>2, <1>3, PTL DEF Spec

(* Where no conservation account is named as a rescue account, value is    *)
(* conserved and every row that leaves the queue consumes its nonce, with  *)
(* no further condition: only the redirect of a finalized recipient could  *)
(* turn a row of apply_due_conservation back to its sender.                *)
THEOREM ConservedWithoutSelfRescue ==
    ConservNeverRescues => (Spec => []SupplyConserved /\ RowConsumesNonce)
<1> SUFFICES ASSUME ConservNeverRescues
             PROVE  Spec => []SupplyConserved /\ RowConsumesNonce
  OBVIOUS
<1>1. Spec => []NoneRoutedBack
  BY NeverRoutedBack
<1> QED
  BY <1>1, SupplyIsConserved, RowsConsumeNonces, PTL

-----------------------------------------------------------------------------
(* The folds of a block.  Each is the recursion of MapThenFoldSet over the *)
(* subsets of a finite set, by one of three steps; it has a solution.      *)

FoldStep(kind, e, x, v) ==
    IF kind = "entry" THEN After(v, e[x])
    ELSE IF kind = "refund" THEN RefundLock(v, x) ELSE DrainOne(x, v)

FoldUpto(g, kind, e, b, c, D, n) ==
    g = [s \in SmallSets(D, n) |->
           IF s = {} THEN b ELSE FoldStep(kind, e, c[s], g[s \ {c[s]}])]

FoldAll(g, kind, e, b, c, D) ==
    g = [s \in SUBSET D |-> IF s = {} THEN b ELSE FoldStep(kind, e, c[s], g[s \ {c[s]}])]

LEMMA FoldMore ==
    ASSUME NEW D, IsFiniteSet(D), NEW c, \A s \in SUBSET D : s # {} => c[s] \in s,
           NEW kind, NEW e, NEW b, NEW n \in Nat, NEW g, FoldUpto(g, kind, e, b, c, D, n)
    PROVE  \E k : FoldUpto(k, kind, e, b, c, D, n + 1)
<1> DEFINE k == [s \in SmallSets(D, n + 1) |->
                   IF s = {} THEN b ELSE FoldStep(kind, e, c[s], g[s \ {c[s]}])]
<1>1. \A s \in SUBSET D : Cardinality(s) \in Nat
  BY FS_Subset, FS_CardinalityType
<1>2. ASSUME NEW s \in SmallSets(D, n) PROVE k[s] = g[s]
  <2>1. s \in SmallSets(D, n + 1)
    BY <1>1 DEF SmallSets
  <2>2. QED  BY <2>1 DEF FoldUpto
<1>3. ASSUME NEW s \in SmallSets(D, n + 1), s # {} PROVE s \ {c[s]} \in SmallSets(D, n)
  <2>1. c[s] \in s
    BY <1>3 DEF SmallSets
  <2>2. QED  BY <2>1, <1>3, Smaller DEF SmallSets
<1>4. k = [s \in SmallSets(D, n + 1) |->
             IF s = {} THEN b ELSE FoldStep(kind, e, c[s], k[s \ {c[s]}])]
  <2>1. \A s \in SmallSets(D, n + 1) :
           (IF s = {} THEN b ELSE FoldStep(kind, e, c[s], g[s \ {c[s]}]))
           = (IF s = {} THEN b ELSE FoldStep(kind, e, c[s], k[s \ {c[s]}]))
    BY <1>2, <1>3
  <2>2. QED  BY <2>1
<1>5. QED  BY <1>4 DEF FoldUpto

LEMMA FoldExists ==
    ASSUME NEW D, IsFiniteSet(D), NEW c, \A s \in SUBSET D : s # {} => c[s] \in s,
           NEW kind, NEW e, NEW b
    PROVE  \E g : FoldAll(g, kind, e, b, c, D)
<1> DEFINE N == {n \in Nat : \E g : FoldUpto(g, kind, e, b, c, D, n)}
<1>1. 0 \in N
  <2> DEFINE g == [s \in SmallSets(D, 0) |-> b]
  <2>1. \A s \in SmallSets(D, 0) : s = {}
    BY FS_Subset, FS_CardinalityType, FS_EmptySet DEF SmallSets
  <2>2. g = [s \in SmallSets(D, 0) |->
               IF s = {} THEN b ELSE FoldStep(kind, e, c[s], g[s \ {c[s]}])]
    BY <2>1
  <2>3. QED  BY <2>2 DEF FoldUpto
<1>2. \A n \in N : n + 1 \in N
  BY FoldMore
<1>3. Cardinality(D) \in N
  <2>1. N \in SUBSET Nat
    OBVIOUS
  <2> HIDE DEF N
  <2>2. N = Nat
    BY <1>1, <1>2, <2>1, Induction
  <2>3. QED  BY <2>2, FS_CardinalityType
<1>4. PICK g : FoldUpto(g, kind, e, b, c, D, Cardinality(D))
  BY <1>3
<1>5. SmallSets(D, Cardinality(D)) = SUBSET D
  BY FS_Subset DEF SmallSets
<1>6. QED  BY <1>4, <1>5 DEF FoldUpto, FoldAll

(* refund_exp_locks refunds the expired locks one after the other.         *)
LEMMA RefundedFold ==
    ASSUME NEW s, NEW D, D = ExpiredLocks(s, H), IsFiniteSet(D)
    PROVE  \E g : /\ g[{}] = s
                  /\ \A t \in SUBSET D : t # {} =>
                        \E x \in t : g[t] = RefundLock(g[t \ {x}], x)
                  /\ Refunded(s) = g[D]
<1> DEFINE c == [t \in SUBSET D |-> CHOOSE x \in t : TRUE]
<1>1. \A t \in SUBSET D : t # {} => c[t] \in t
  OBVIOUS
<1>2. \E g : FoldAll(g, "refund", {}, s, c, D)
  <2> HIDE DEF c
  <2> QED  BY <1>1, FoldExists
<1> DEFINE Fold(g) == g = [t \in SUBSET D |->
                         IF t = {} THEN s
                         ELSE RefundLock(g[t \ {CHOOSE x \in t : TRUE}], CHOOSE x \in t : TRUE)]
           g == CHOOSE g : Fold(g)
<1>3. \E f : Fold(f)
  <2> PICK f : FoldAll(f, "refund", {}, s, c, D)
    BY <1>2
  <2>1. \A t \in SUBSET D : FoldStep("refund", {}, c[t], f[t \ {c[t]}])
              = RefundLock(f[t \ {CHOOSE x \in t : TRUE}], CHOOSE x \in t : TRUE)
    BY DEF FoldStep
  <2>2. f = [t \in SUBSET D |-> IF t = {} THEN s
                               ELSE FoldStep("refund", {}, c[t], f[t \ {c[t]}])]
    BY DEF FoldAll
  <2> HIDE DEF c
  <2>3. Fold(f)
    BY <2>1, <2>2
  <2>4. QED  BY <2>3
<1>4. Fold(g)
  BY <1>3
<1>5. Refunded(s) = g[D]
  BY DEF Refunded, FoldSet, MapThenFoldSet
<1>6. QED  BY <1>1, <1>4, <1>5

\* Some element of a finite set has the greatest of its numbers.
LEMMA HasMost ==
    ASSUME NEW D, IsFiniteSet(D), NEW f \in [D -> Nat]
    PROVE  \A t \in SUBSET D : t # {} => \E x \in t : \A y \in t : f[y] <= f[x]
<1> DEFINE T == {t \in SUBSET D : t # {} => \E x \in t : \A y \in t : f[y] <= f[x]}
<1>1. ASSUME NEW t \in SUBSET D, t # {},
             \A r \in SUBSET t : Cardinality(r) < Cardinality(t) => r \in T
      PROVE  \E x \in t : \A y \in t : f[y] <= f[x]
  <2> PICK z \in t : TRUE
    BY <1>1
  <2>1. t \ {z} \in T
    <3>1. t \ {z} \in SUBSET t /\ Cardinality(t \ {z}) < Cardinality(t)
      BY Smaller
    <3> HIDE DEF T
    <3>2. QED  BY <1>1, <3>1
  <2>2. \A y \in t : f[y] \in Nat
    OBVIOUS
  <2>3. CASE t \ {z} = {}
    <3>1. \A y \in t : y = z
      BY <2>3
    <3>2. QED  BY <2>2, <3>1
  <2>4. CASE t \ {z} # {}
    <3>1. PICK x \in t \ {z} : \A y \in t \ {z} : f[y] <= f[x]
      BY <2>1, <2>4
    <3>2. CASE f[z] <= f[x]
      BY <3>1, <3>2
    <3>3. CASE f[x] <= f[z]
      <4>1. ASSUME NEW y \in t PROVE f[y] <= f[z]
        BY <2>2, <3>1, <3>3
      <4>2. QED  BY <4>1
    <3>4. QED  BY <2>2, <3>2, <3>3
  <2>5. QED  BY <2>3, <2>4
<1>2. T \in SUBSET SUBSET D
  OBVIOUS
<1>3. \A t \in SUBSET D :
         (\A r \in SUBSET t : Cardinality(r) < Cardinality(t) => r \in T) => t \in T
  BY <1>1
<1> HIDE DEF T
<1>4. T = SUBSET D
  BY <1>2, <1>3, SizeInduction
<1>5. QED  BY <1>4 DEF T

DueRows(s) == {row \in s.pend : H >= row.at}

DrainWalk(g, s, D) ==
    /\ g[{}] = s
    /\ \A t \in SUBSET D : t # {} => \E x \in t : g[t] = DrainOne(x, g[t \ {x}])

(* drain_conservation_at_height visits the due rows one after the other.   *)
LEMMA DrainedFold ==
    ASSUME NEW s, s.pend \subseteq PendingRows, NEW D, D = DueRows(s),
           IsFiniteSet(D)
    PROVE  \E g : DrainWalk(g, s, D) /\ Drained(s) = g[D]
<1> DEFINE c == [t \in SUBSET D |-> Youngest(t)]
<1>1. \A t \in SUBSET D : t # {} => c[t] \in t
  <2> DEFINE f == [row \in D |-> row.at]
  <2>1. f \in [D -> Nat]
    BY DEF PendingRows, DueRows
  <2>2. ASSUME NEW t \in SUBSET D, t # {} PROVE \E x \in t : \A y \in t : y.at <= x.at
    <3>1. \E x \in t : \A y \in t : f[y] <= f[x]
      <4> HIDE DEF f
      <4> QED  BY <2>1, <2>2, HasMost
    <3>2. QED  BY <3>1
  <2>3. QED  BY <2>2 DEF Youngest
<1>2. \E g : FoldAll(g, "drain", {}, s, c, D)
  <2> HIDE DEF c
  <2> QED  BY <1>1, FoldExists
<1> DEFINE Fold(g) == g = [t \in SUBSET D |->
                         IF t = {} THEN s
                         ELSE DrainOne(Youngest(t), g[t \ {Youngest(t)}])]
           g == CHOOSE g : Fold(g)
<1>3. \E f : Fold(f)
  <2> PICK f : FoldAll(f, "drain", {}, s, c, D)
    BY <1>2
  <2>1. \A t \in SUBSET D : FoldStep("drain", {}, c[t], f[t \ {c[t]}])
              = DrainOne(Youngest(t), f[t \ {Youngest(t)}])
    BY DEF FoldStep
  <2>2. f = [t \in SUBSET D |-> IF t = {} THEN s
                               ELSE FoldStep("drain", {}, c[t], f[t \ {c[t]}])]
    BY DEF FoldAll
  <2> HIDE DEF c
  <2>3. Fold(f)
    BY <2>1, <2>2
  <2>4. QED  BY <2>3
<1>4. Fold(g)
  BY <1>3
<1>5. Drained(s) = g[D]
  BY DEF Drained, MapThenFoldSet, DueRows
<1>6. DrainWalk(g, s, D)
  BY <1>1, <1>4 DEF DrainWalk
<1>7. QED  BY <1>5, <1>6

(* The entries of a block are applied one after the other.                 *)
Walks(g, s, e, n) ==
    /\ g[0] = {s}
    /\ \A k \in 1..n : g[k] = After(g[k - 1], e[k])
    /\ Applied(s, e) = g[n]

LEMMA AppliedFold ==
    ASSUME NEW s, NEW e, NEW n \in Nat, DOMAIN e = 1..n
    PROVE  \E g : Walks(g, s, e, n)
<1> DEFINE D == 1..n
           c == [t \in SUBSET D |-> Max(t)]
<1>0. IsFiniteSet(D) /\ DOMAIN e = D
  BY FS_Interval
<1>1. \A t \in SUBSET D : t # {} => c[t] \in t
  <2> DEFINE f == [i \in D |-> i]
  <2>1. f \in [D -> Nat]
    OBVIOUS
  <2>2. ASSUME NEW t \in SUBSET D, t # {} PROVE \E x \in t : \A y \in t : x >= y
    <3>1. \E x \in t : \A y \in t : f[y] <= f[x]
      <4> HIDE DEF f
      <4> QED  BY <1>0, <2>1, <2>2, HasMost
    <3>2. QED  BY <3>1
  <2>3. QED  BY <2>2 DEF Max
<1>2. \E g : FoldAll(g, "entry", e, {s}, c, D)
  <2> HIDE DEF c, D
  <2> QED  BY <1>0, <1>1, FoldExists
<1> DEFINE Fold(g) == g = [t \in SUBSET DOMAIN e |->
                         IF t = {} THEN {s}
                         ELSE After(g[t \ {Max(t)}], e[Max(t)])]
           g == CHOOSE g : Fold(g)
<1>3. \E f : Fold(f)
  <2> PICK f : FoldAll(f, "entry", e, {s}, c, D)
    BY <1>2
  <2>1. \A t \in SUBSET D : FoldStep("entry", e, c[t], f[t \ {c[t]}])
              = After(f[t \ {Max(t)}], e[Max(t)])
    BY DEF FoldStep
  <2>2. f = [t \in SUBSET D |-> IF t = {} THEN {s}
                               ELSE FoldStep("entry", e, c[t], f[t \ {c[t]}])]
    BY DEF FoldAll
  <2> HIDE DEF c, D
  <2>3. Fold(f)
    BY <1>0, <2>1, <2>2
  <2>4. QED  BY <2>3
<1>4. Fold(g)
  BY <1>3
<1>5. Applied(s, e) = g[DOMAIN e]
  BY DEF Applied, FoldLeft, MapThenFoldSet
<1> DEFINE p == [k \in 0..n |-> g[1..k]]
<1>6. p[0] = {s}
  <2>1. 1..0 = {} /\ 1..0 \in SUBSET DOMAIN e
    OBVIOUS
  <2> HIDE DEF g
  <2>2. g[{}] = {s}
    BY <1>4, <2>1
  <2>3. QED  BY <2>1, <2>2
<1>7. ASSUME NEW k \in 1..n PROVE p[k] = After(p[k - 1], e[k])
  <2>1. 1..k \in SUBSET DOMAIN e /\ 1..k # {} /\ (1..k) \ {k} = 1..(k - 1)
        /\ k \in 0..n /\ k - 1 \in 0..n
    <3>1. \A j : j \in 1..k => j \in 1..n
      OBVIOUS
    <3>2. k \in 1..k
      OBVIOUS
    <3>3. \A j : j \in (1..k) \ {k} <=> j \in 1..(k - 1)
      OBVIOUS
    <3>4. k \in 0..n /\ k - 1 \in 0..n
      OBVIOUS
    <3>5. QED  BY <1>0, <3>1, <3>2, <3>3, <3>4
  <2>2. Max(1..k) = k
    <3>1. Max(1..k) \in 1..k /\ \A y \in 1..k : Max(1..k) >= y
      <4>1. k \in 1..k /\ \A y \in 1..k : k >= y
        OBVIOUS
      <4>2. QED  BY <4>1 DEF Max
    <3>2. QED  BY <3>1
  <2> HIDE DEF g
  <2>3. g[1..k] = After(g[(1..k) \ {k}], e[k])
    BY <1>4, <2>1, <2>2
  <2>4. QED  BY <2>1, <2>3
<1>8. Applied(s, e) = p[n]
  BY <1>5
<1> HIDE DEF p
<1>9. QED  BY <1>6, <1>7, <1>8 DEF Walks

LEMMA UptoShape ==
    ASSUME NEW S, NEW e \in Seq(S), NEW k \in 0..Len(e)
    PROVE  /\ Upto(e, k) \in Seq(S) /\ DOMAIN Upto(e, k) = 1..k /\ Len(Upto(e, k)) = k
           /\ \A j \in 1..k : Upto(e, k)[j] = e[j]
           /\ k = Len(e) => Upto(e, k) = e
<1>1. Upto(e, k) = SubSeq(e, 1, k)
  BY DEF Upto
<1>2. QED  BY <1>1

\* The entries of a block.
Entries == Seq([tx : Txs, at : Nat])

LEMMA AppliedNone ==
    ASSUME NEW s, NEW e \in Entries
    PROVE  Applied(s, Upto(e, 0)) = {s}
<1> DEFINE S == [tx : Txs, at : Nat]
<1>0. e \in Seq(S) /\ 0 \in 0..Len(e)
  BY DEF Entries
<1> HIDE DEF S
<1>1. DOMAIN Upto(e, 0) = 1..0 /\ 0 \in Nat
  BY <1>0, UptoShape
<1>2. PICK g : Walks(g, s, Upto(e, 0), 0)
  BY <1>1, AppliedFold
<1>3. QED  BY <1>2 DEF Walks

LEMMA AppliedMore ==
    ASSUME NEW s, NEW e \in Entries, NEW k \in 1..Len(e)
    PROVE  Applied(s, Upto(e, k)) = After(Applied(s, Upto(e, k - 1)), e[k])
<1> DEFINE S == [tx : Txs, at : Nat]
<1>0. e \in Seq(S) /\ Len(e) \in Nat /\ k \in 0..Len(e)
  BY DEF Entries
<1> HIDE DEF S
<1>1. PICK g : Walks(g, s, Upto(e, k), k)
  <2>1. DOMAIN Upto(e, k) = 1..k /\ k \in Nat
    BY <1>0, UptoShape
  <2>2. QED  BY <2>1, AppliedFold
<1>2. k - 1 \in 0..Len(e)
  BY <1>0
<1>3. PICK f : Walks(f, s, Upto(e, k - 1), k - 1)
  <2>1. DOMAIN Upto(e, k - 1) = 1..(k - 1) /\ k - 1 \in Nat
    BY <1>0, <1>2, UptoShape
  <2>2. QED  BY <2>1, AppliedFold
<1> DEFINE N == {j \in Nat : j <= k - 1 => f[j] = g[j]}
<1>4. 0 \in N
  BY <1>1, <1>3 DEF Walks
<1>5. ASSUME NEW j \in N PROVE j + 1 \in N
  <2> SUFFICES ASSUME j + 1 <= k - 1 PROVE f[j + 1] = g[j + 1]
    OBVIOUS
  <2>1. j + 1 \in 1..(k - 1) /\ j + 1 \in 1..k /\ (j + 1) - 1 = j /\ j <= k - 1
    OBVIOUS
  <2>2. Upto(e, k - 1)[j + 1] = e[j + 1] /\ Upto(e, k)[j + 1] = e[j + 1]
    BY <1>0, <1>2, <2>1, UptoShape
  <2>3. f[j] = g[j]
    BY <2>1
  <2>4. QED  BY <1>1, <1>3, <2>1, <2>2, <2>3 DEF Walks
<1>6. N \in SUBSET Nat
  OBVIOUS
<1> HIDE DEF N
<1>7. N = Nat
  BY <1>4, <1>5, <1>6, Induction
<1>8. f[k - 1] = g[k - 1]
  BY <1>2, <1>7 DEF N
<1>9. k \in 1..k /\ Upto(e, k)[k] = e[k]
  BY <1>0, UptoShape
<1>10. QED  BY <1>1, <1>3, <1>8, <1>9 DEF Walks

-----------------------------------------------------------------------------
(* Blocks as the seal loop sees them.  An account whose nonce has not      *)
(* moved is no poorer: so what it could pay at the tip it can still pay.   *)

Later(s, m) ==
    /\ s.open \subseteq m.open
    /\ \A a \in Accounts : /\ m.nonce[a] >= s.nonce[a]
                           /\ m.nonce[a] = s.nonce[a] => m.bal[a] >= s.bal[a]

LEMMA LaterLater ==
    ASSUME NEW s, IsLedger(s), NEW m, IsLedger(m), NEW n, IsLedger(n),
           Later(s, m), Later(m, n)
    PROVE  Later(s, n)
<1>1. \A a \in Accounts : /\ s.nonce[a] \in Nat /\ m.nonce[a] \in Nat /\ n.nonce[a] \in Nat
                          /\ s.bal[a] \in Nat /\ m.bal[a] \in Nat /\ n.bal[a] \in Nat
  BY DEF IsLedger
<1>2. ASSUME NEW a \in Accounts
      PROVE  /\ n.nonce[a] >= s.nonce[a]
             /\ n.nonce[a] = s.nonce[a] => n.bal[a] >= s.bal[a]
  <2>1. /\ m.nonce[a] >= s.nonce[a] /\ n.nonce[a] >= m.nonce[a]
        /\ m.nonce[a] = s.nonce[a] => m.bal[a] >= s.bal[a]
        /\ n.nonce[a] = m.nonce[a] => n.bal[a] >= m.bal[a]
    BY DEF Later
  <2>2. QED  BY <1>1, <2>1
<1>3. QED  BY <1>2 DEF Later

LEMMA LaterSame ==
    ASSUME NEW s, IsLedger(s), NEW m, s.open = m.open, s.nonce = m.nonce,
           \A a \in Accounts : m.bal[a] >= s.bal[a]
    PROVE  Later(s, m)
<1>1. \A a \in Accounts : s.nonce[a] \in Nat
  BY DEF IsLedger
<1>2. QED  BY <1>1 DEF Later

(* A transaction spends its sender's nonce, or queues a conservation       *)
(* transfer that will.                                                     *)
LEMMA SignerMoves ==
    ASSUME NEW s, IsLedger(s), NEW tx, IsTransaction(tx), NEW h, NEW skip,
           NEW m \in ApplyTx(s, tx, h, skip)
    PROVE  /\ tx.nonce = s.nonce[tx.from]
           /\ \/ m.nonce = Plus(s.nonce, tx.from, 1)
              \/ /\ tx.type = "transfer" /\ tx.from \in ConservFlag
                 /\ \E dst : EnqueueOutcome(s, tx, dst, h, m)
<1>1. /\ s = AsLedger(s) /\ tx.type \in TxTypes /\ m \in Body(s, tx, h, skip)
      /\ tx.nonce = s.nonce[tx.from]
  BY DEF IsLedger, IsTransaction, ApplyTx, Admitted
<1>2. CASE tx.type = "init"
  <2>1. InitOutcome(s, tx, h, m)
    BY <1>1, <1>2, InitEffect DEF Body
  <2>2. QED  BY <1>1, <2>1 DEF InitOutcome
<1>3. CASE tx.type = "transfer"
  <2>1. PICK dst : m = IF tx.from \in ConservFlag THEN Enqueue(s, tx, dst, h)
                       ELSE Pay(s, tx, dst)
    BY <1>1, <1>3 DEF Body, Transfer
  <2>2. CASE tx.from \in ConservFlag
    BY <1>1, <1>3, <2>1, <2>2, EnqueueEffect
  <2>3. CASE tx.from \notin ConservFlag
    BY <1>1, <2>1, <2>3, PayEffect DEF PayOutcome
  <2>4. QED  BY <2>2, <2>3
<1>4. CASE tx.type \in {"stake", "unstake"}
  <2>1. StakeOutcome(s, tx, m) \/ UnstakeOutcome(s, tx, m)
    BY <1>1, <1>4, StakeEffect, UnstakeEffect DEF Body
  <2>2. QED  BY <1>1, <2>1 DEF StakeOutcome, UnstakeOutcome
<1>5. CASE tx.type \in {"burn", "claim"}
  <2>1. BurnOutcome(s, tx, m) \/ ClaimOutcome(s, tx, m)
    BY <1>1, <1>5, BurnEffect, ClaimEffect DEF Body
  <2>2. QED  BY <1>1, <2>1 DEF BurnOutcome, ClaimOutcome
<1>6. CASE tx.type = "export"
  <2>1. ExportOutcome(s, tx, h, m)
    BY <1>1, <1>6, ExportEffect DEF Body
  <2>2. QED  BY <1>1, <2>1 DEF ExportOutcome
<1>7. CASE tx.type = "import"
  <2>1. ImportOutcome(s, tx, m)
    BY <1>1, <1>7, ImportEffect DEF Body
  <2>2. QED  BY <1>1, <2>1 DEF ImportOutcome
<1>8. CASE tx.type = "policy"
  <2>1. PolicyOutcome(s, tx, h, m)
    BY <1>1, <1>8, PolicyEffect DEF Body
  <2>2. QED  BY <1>1, <2>1 DEF PolicyOutcome
<1>9. QED
  BY <1>1, <1>2, <1>3, <1>4, <1>5, <1>6, <1>7, <1>8 DEF TxTypes

LEMMA TxLater ==
    ASSUME NEW s, IsLedger(s), NEW tx, IsTransaction(tx), NEW h \in Nat, NEW skip,
           NEW m \in ApplyTx(s, tx, h, skip)
    PROVE  Later(s, m)
<1>1. TxOutcome(s, tx, m)
  BY ApplyTxOutcome
<1>2. tx.from \in Accounts /\ s.nonce \in [Accounts -> Nat]
      /\ \A a \in Accounts : s.bal[a] \in Nat
  BY DEF IsTransaction, IsLedger
<1>3. \A a \in Accounts \ {tx.from} : m.nonce[a] = s.nonce[a] /\ m.bal[a] >= s.bal[a]
  BY <1>1 DEF TxOutcome, Untouched
<1>4. CASE m.nonce = Plus(s.nonce, tx.from, 1)
  <2>1. m.nonce[tx.from] = s.nonce[tx.from] + 1
    BY <1>2, <1>4, PlusAt
  <2>2. QED  BY <1>1, <1>2, <1>3, <2>1 DEF Later, TxOutcome, Grows
<1>5. ASSUME NEW dst, EnqueueOutcome(s, tx, dst, h, m) PROVE Later(s, m)
  <2>1. m.nonce = s.nonce /\ m.bal = s.bal
    BY <1>5 DEF EnqueueOutcome, Changes, Fields
  <2>2. QED  BY <1>1, <1>2, <2>1 DEF Later, TxOutcome, Grows
<1>6. QED  BY <1>4, <1>5, SignerMoves

\* What a ledger holds in memory is finite.
Finite(s) == IsFiniteSet(s.pend) /\ IsFiniteSet(DOMAIN s.locks)

\* Some balances are credited and their locks closed.
Credited(s, m) ==
    /\ IsLedger(m)
    /\ Changes(s, m, {"bal", "locks", "imported"})
    /\ DOMAIN m.locks = DOMAIN s.locks
    /\ \A a \in Accounts : m.bal[a] >= s.bal[a]

LEMMA RefundCredits ==
    ASSUME NEW s, IsLedger(s), NEW m, Credited(s, m), NEW id \in DOMAIN s.locks
    PROVE  Credited(s, RefundLock(m, id))
<1> DEFINE n == RefundLock(m, id)
<1>1. IsLedger(m) /\ id \in DOMAIN m.locks
  BY DEF Credited
<1>2. IsLedger(n) /\ RefundOutcome(m, id, n)
  BY <1>1, RefundType, RefundEffect DEF IsLedger
<1> HIDE DEF n
<1>3. Changes(s, n, {"bal", "locks", "imported"})
  BY <1>2 DEF Credited, RefundOutcome, Changes, Fields
<1>4. DOMAIN n.locks = DOMAIN s.locks
  BY <1>1, <1>2 DEF RefundOutcome, Put, Credited
<1>5. ASSUME NEW a \in Accounts PROVE n.bal[a] >= s.bal[a]
  <2>1. m.bal \in [Accounts -> Nat] /\ m.locks[id].amount \in Nat /\ s.bal[a] \in Nat
        /\ n.bal \in [Accounts -> Nat]
    BY <1>1, <1>2 DEF IsLedger, LockRows
  <2>2. n.bal[a] >= m.bal[a]
    BY <1>2, <2>1, CreditGrows DEF RefundOutcome
  <2>3. m.bal[a] >= s.bal[a]
    BY DEF Credited
  <2>4. n.bal[a] \in Nat /\ m.bal[a] \in Nat
    BY <2>1
  <2>5. QED  BY <2>1, <2>2, <2>3, <2>4
<1>6. Credited(s, n)
  BY <1>2, <1>3, <1>4, <1>5 DEF Credited
<1>7. QED  BY <1>6 DEF n

LEMMA RefundedCredits ==
    ASSUME NEW s, IsLedger(s), Finite(s)
    PROVE  Credited(s, Refunded(s))
<1> PICK D : D = ExpiredLocks(s, H)
  OBVIOUS
<1>1. D \subseteq DOMAIN s.locks /\ IsFiniteSet(D)
  BY FS_Subset DEF ExpiredLocks, Finite
<1>2. PICK g : /\ g[{}] = s
               /\ \A t \in SUBSET D : t # {} =>
                     \E x \in t : g[t] = RefundLock(g[t \ {x}], x)
               /\ Refunded(s) = g[D]
  BY <1>1, RefundedFold
<1> DEFINE T == {t \in SUBSET D : Credited(s, g[t])}
<1>3. ASSUME NEW t \in SUBSET D,
             \A r \in SUBSET t : Cardinality(r) < Cardinality(t) => r \in T
      PROVE  t \in T
  <2>1. CASE t = {}
    <3>1. s = AsLedger(s) /\ \A a \in Accounts : s.bal[a] >= s.bal[a]
      BY DEF IsLedger
    <3>2. Credited(s, s)
      BY <3>1 DEF Credited, Changes
    <3>3. QED  BY <1>2, <2>1, <3>2
  <2>2. CASE t # {}
    <3>1. PICK x \in t : g[t] = RefundLock(g[t \ {x}], x)
      BY <1>2, <2>2
    <3>2. t \ {x} \in T
      <4>1. t \ {x} \in SUBSET t /\ Cardinality(t \ {x}) < Cardinality(t)
        BY <1>1, Smaller
      <4> HIDE DEF T
      <4>2. QED  BY <1>3, <4>1
    <3>3. x \in DOMAIN s.locks
      BY <1>1
    <3>4. QED  BY <3>1, <3>2, <3>3, RefundCredits
  <2>3. QED  BY <2>1, <2>2
<1>4. T \in SUBSET SUBSET D
  OBVIOUS
<1> HIDE DEF T
<1>5. T = SUBSET D
  BY <1>1, <1>3, <1>4, SizeInduction
<1>6. QED  BY <1>2, <1>5 DEF T

\* The start of a block moves no nonce, no policy and no row, and only credits.
LEMMA OpenedPath ==
    ASSUME NEW s, IsLedger(s), Finite(s)
    PROVE  /\ IsLedger(Opened(s)) /\ Finite(Opened(s))
           /\ Changes(s, Opened(s), {"bal", "locks", "imported", "active"})
           /\ \A a \in Accounts : Opened(s).bal[a] >= s.bal[a]
<1> DEFINE r == RollEpoch(s, H)
<1>1. IsLedger(r) /\ RollOutcome(s, H, r)
  BY RollType, RollEffect DEF IsLedger
<1> HIDE DEF r
<1>2. r.bal = s.bal /\ r.pend = s.pend /\ r.locks = s.locks
  BY <1>1 DEF RollOutcome, Changes, Fields
<1>3. Credited(r, Refunded(r))
  BY <1>1, <1>2, RefundedCredits DEF Finite
<1>4. Opened(s) = Refunded(r)
  BY DEF Opened, r
<1>5. /\ IsLedger(Refunded(r)) /\ Finite(Refunded(r))
      /\ Changes(s, Refunded(r), {"bal", "locks", "imported", "active"})
      /\ \A a \in Accounts : Refunded(r).bal[a] >= s.bal[a]
  BY <1>1, <1>2, <1>3 DEF Credited, Finite, Changes, Fields, RollOutcome
<1>6. QED  BY <1>4, <1>5

\* No due row comes back to its sender.
NoWayBack(s) ==
    RescuesApart(s) /\ \A row \in s.pend : row.sender \in ConservFlag /\ row.to # row.sender

\* The rows that left the queue took their nonces with them.
RowsSpent(s, m) == \A row \in s.pend \ m.pend : m.nonce[row.sender] > row.nonce

LEMMA BlockBlock ==
    ASSUME NEW s, IsLedger(s), NEW m, IsLedger(m), NEW n, IsLedger(n),
           BlockOutcome(s, m), BlockOutcome(m, n)
    PROVE  BlockOutcome(s, n)
<1>1. /\ s.fin \subseteq Accounts /\ m.fin = s.fin
      /\ \A a \in Accounts : /\ s.nonce[a] \in Nat /\ m.nonce[a] \in Nat /\ n.nonce[a] \in Nat
                             /\ s.bal[a] \in Nat /\ m.bal[a] \in Nat /\ n.bal[a] \in Nat
  BY DEF IsLedger, BlockOutcome, Changes, Fields
<1>2. Changes(s, n, {"bal", "nonce", "fees", "pend", "locks", "imported", "active"})
  BY DEF BlockOutcome, Changes, Fields
<1>3. ASSUME NEW a \in Accounts PROVE n.nonce[a] >= s.nonce[a]
  <2>1. n.nonce[a] >= m.nonce[a] /\ m.nonce[a] >= s.nonce[a]
    BY DEF BlockOutcome
  <2>2. QED  BY <1>1, <2>1
<1>4. ASSUME NEW a \in s.fin PROVE n.nonce[a] = s.nonce[a] /\ n.bal[a] >= s.bal[a]
  <2>1. /\ n.nonce[a] = m.nonce[a] /\ m.nonce[a] = s.nonce[a]
        /\ n.bal[a] >= m.bal[a] /\ m.bal[a] >= s.bal[a]
    BY <1>1 DEF BlockOutcome
  <2>2. QED  BY <1>1, <2>1
<1>5. QED  BY <1>2, <1>3, <1>4 DEF BlockOutcome

\* What a drained row does to its sender.
LEMMA DrainSender ==
    ASSUME NEW s, IsLedger(s), NEW row \in s.pend, NEW h,
           NEW dst \in DrainRoutes(s, row, h), NEW m, DrainOutcome(s, row, dst, m)
    PROVE  /\ dst # row.sender => m.nonce[row.sender] = s.nonce[row.sender] + 1
           /\ dst = row.sender => /\ m.nonce[row.sender] = s.nonce[row.sender]
                                  /\ m.bal[row.sender] >= s.bal[row.sender]
<1>1. /\ s.bal \in [Accounts -> Nat] /\ s.nonce \in [Accounts -> Nat]
      /\ row.sender \in Accounts /\ row.amount \in Nat /\ row.fee \in Nat
      /\ row.amount + row.fee \in Nat /\ s.bal[row.sender] >= row.amount + row.fee
  BY DEF IsLedger, PendingRows, DrainRoutes
<1> DEFINE f == Minus(s.bal, row.sender, row.amount + row.fee)
           g == Plus(s.nonce, row.sender, 1)
<1>2. f \in [Accounts -> Nat] /\ g \in [Accounts -> Nat]
      /\ g[row.sender] = s.nonce[row.sender] + 1
  <2>1. f \in [Accounts -> Nat]
    BY <1>1, MinusType
  <2>2. g \in [Accounts -> Nat]
    BY <1>1, PlusType
  <2>3. g[row.sender] = s.nonce[row.sender] + 1
    BY <1>1 DEF Plus
  <2>4. QED  BY <2>1, <2>2, <2>3
<1>3. m.bal = Put(f, dst, s.bal[dst] + row.amount) /\ m.nonce = Put(g, dst, s.nonce[dst])
  BY DEF DrainOutcome
<1> HIDE DEF f, g
<1>4. /\ m.bal[row.sender] = IF row.sender = dst THEN s.bal[dst] + row.amount
                             ELSE f[row.sender]
      /\ m.nonce[row.sender] = IF row.sender = dst THEN s.nonce[dst] ELSE g[row.sender]
  BY <1>1, <1>2, <1>3 DEF Put
<1>5. QED  BY <1>1, <1>2, <1>4

LEMMA DrainLater ==
    ASSUME NEW s, IsLedger(s), NEW row \in s.pend, NEW h,
           NEW dst \in DrainRoutes(s, row, h), NEW m, DrainOutcome(s, row, dst, m)
    PROVE  /\ Later(s, m)
           /\ NoWayBack(s) => m.nonce[row.sender] > row.nonce
<1>1. /\ row.sender \in Accounts /\ s.nonce[row.sender] = row.nonce /\ row.nonce \in Nat
      /\ m.open = s.open
  BY DEF IsLedger, PendingRows, DrainRoutes, DrainOutcome, Changes, Fields
<1>2. ASSUME NEW a \in Accounts
      PROVE  /\ m.nonce[a] >= s.nonce[a]
             /\ m.nonce[a] = s.nonce[a] => m.bal[a] >= s.bal[a]
  <2>1. CASE a # row.sender
    BY <2>1, DrainValues
  <2>2. CASE a = row.sender
    <3>1. m.nonce[a] >= s.nonce[a]
      BY DrainValues
    <3>2. CASE dst = row.sender
      BY <2>2, <3>1, <3>2, DrainSender
    <3>3. CASE dst # row.sender
      <4>1. m.nonce[a] = s.nonce[a] + 1 /\ s.nonce[a] \in Nat
        BY <1>1, <2>2, <3>3, DrainSender
      <4>2. QED  BY <4>1
    <3>4. QED  BY <3>2, <3>3
  <2>3. QED  BY <2>1, <2>2
<1>3. ASSUME NoWayBack(s) PROVE m.nonce[row.sender] > row.nonce
  <2>1. dst \in RouteTo(s, row.sender, row.to, h)
    BY DEF DrainRoutes
  <2>2. dst # row.sender
    BY <1>3, <2>1, RouteEnds DEF NoWayBack
  <2>3. QED  BY <1>1, <2>2, DrainSender
<1>4. QED  BY <1>1, <1>2, <1>3 DEF Later

\* s after rows of t were drained.
DrainedOf(s, m, t) ==
    /\ IsLedger(m)
    /\ m.rescue = s.rescue /\ m.locks = s.locks
    /\ s.pend \ t \subseteq m.pend /\ m.pend \subseteq s.pend
    /\ BlockOutcome(s, m)
    /\ Later(s, m)
    /\ NoWayBack(s) => RowsSpent(s, m)

LEMMA DrainedMore ==
    ASSUME NEW s, IsLedger(s), NEW t \in SUBSET s.pend, NEW row \in t,
           NEW m, DrainedOf(s, m, t \ {row})
    PROVE  DrainedOf(s, DrainOne(row, m), t)
<1>1. IsLedger(m) /\ row \in m.pend /\ m.pend \subseteq s.pend /\ BlockOutcome(s, m)
      /\ s.pend \ t \subseteq m.pend
  BY DEF DrainedOf
<1>2. CASE DrainRoutes(m, row, H) = {}
  BY <1>1, <1>2 DEF DrainOne, DrainedOf
<1>3. CASE DrainRoutes(m, row, H) # {}
  <2> DEFINE n == DrainOne(row, m)
  <2>1. PICK dst \in DrainRoutes(m, row, H) : n = DrainRow(m, row, dst)
    BY <1>3 DEF DrainOne
  <2>2. IsLedger(n) /\ DrainOutcome(m, row, dst, n)
    BY <1>1, <2>1, DrainType, DrainEffect DEF IsLedger
  <2> HIDE DEF n
  <2>3. n.pend = m.pend \ {row} /\ n.rescue = m.rescue /\ n.locks = m.locks
    BY <2>2 DEF DrainOutcome, Changes, Fields
  <2>4. BlockOutcome(s, n)
    BY <1>1, <2>2, DrainBlock, BlockBlock
  <2>5. Later(m, n) /\ (NoWayBack(m) => n.nonce[row.sender] > row.nonce)
    BY <1>1, <2>2, DrainLater
  <2>6. Later(s, n)
    BY <1>1, <2>2, <2>5, LaterLater DEF DrainedOf
  <2>7. ASSUME NoWayBack(s), NEW r \in s.pend \ n.pend PROVE n.nonce[r.sender] > r.nonce
    <3>1. NoWayBack(m)
      BY <1>1, <2>7 DEF NoWayBack, DrainedOf, RescuesApart
    <3>2. CASE r = row
      BY <2>5, <3>1, <3>2
    <3>3. CASE r # row
      <4>1. m.nonce[r.sender] > r.nonce
        BY <2>3, <2>7, <3>3 DEF DrainedOf, RowsSpent
      <4>2. r.sender \in Accounts /\ r.nonce \in Nat
        BY DEF IsLedger, PendingRows
      <4>3. n.nonce[r.sender] >= m.nonce[r.sender]
        BY <2>5, <4>2 DEF Later
      <4>4. n.nonce[r.sender] \in Nat /\ m.nonce[r.sender] \in Nat
        BY <1>1, <2>2, <4>2 DEF IsLedger
      <4>5. QED  BY <4>1, <4>2, <4>3, <4>4
    <3>4. QED  BY <3>2, <3>3
  <2>8. DrainedOf(s, n, t)
    BY <1>1, <2>2, <2>3, <2>4, <2>6, <2>7 DEF DrainedOf, RowsSpent
  <2>9. QED  BY <2>8 DEF n
<1>4. QED  BY <1>2, <1>3

LEMMA DrainedPath ==
    ASSUME NEW s, IsLedger(s), Finite(s)
    PROVE  DrainedOf(s, Drained(s), s.pend)
<1> PICK D : D = DueRows(s)
  OBVIOUS
<1>1. D \subseteq s.pend /\ IsFiniteSet(D) /\ s.pend \subseteq PendingRows
  BY FS_Subset DEF Finite, IsLedger, DueRows
<1>2. PICK g : DrainWalk(g, s, D) /\ Drained(s) = g[D]
  BY <1>1, DrainedFold
<1> DEFINE T == {t \in SUBSET D : DrainedOf(s, g[t], t)}
<1>3. ASSUME NEW t \in SUBSET D,
             \A r \in SUBSET t : Cardinality(r) < Cardinality(t) => r \in T
      PROVE  t \in T
  <2>1. CASE t = {}
    <3>1. /\ s = AsLedger(s) /\ s.fin \subseteq Accounts
          /\ \A a \in Accounts : s.bal[a] \in Nat /\ s.nonce[a] \in Nat
      BY DEF IsLedger
    <3>2. Later(s, s) /\ BlockOutcome(s, s)
      BY <3>1 DEF Later, BlockOutcome, Changes
    <3>3. DrainedOf(s, s, {})
      BY <3>2 DEF DrainedOf, RowsSpent
    <3>4. QED  BY <1>2, <2>1, <3>3 DEF DrainWalk
  <2>2. CASE t # {}
    <3>1. PICK x \in t : g[t] = DrainOne(x, g[t \ {x}])
      BY <1>2, <2>2 DEF DrainWalk
    <3>2. t \ {x} \in T
      <4>1. t \ {x} \in SUBSET t /\ Cardinality(t \ {x}) < Cardinality(t)
        BY <1>1, Smaller
      <4> HIDE DEF T
      <4>2. QED  BY <1>3, <4>1
    <3>3. QED  BY <1>1, <3>1, <3>2, DrainedMore
  <2>3. QED  BY <2>1, <2>2
<1>4. T \in SUBSET SUBSET D
  OBVIOUS
<1> HIDE DEF T
<1>5. T = SUBSET D
  BY <1>1, <1>3, <1>4, SizeInduction
<1>6. DrainedOf(s, Drained(s), D)
  BY <1>2, <1>5 DEF T
<1>7. QED  BY <1>1, <1>6 DEF DrainedOf

\* What the steps around the transactions do, from s to m.
AroundTxs(s, m) ==
    /\ IsLedger(m) /\ Finite(m)
    /\ BlockOutcome(s, m)
    /\ Later(s, m)
    /\ m.pend \subseteq s.pend
    /\ NoWayBack(s) => RowsSpent(s, m)

LEMMA CreditsAround ==
    ASSUME NEW s, IsLedger(s), Finite(s), NEW m, IsLedger(m), Finite(m),
           Changes(s, m, {"bal", "locks", "imported", "active"}),
           \A a \in Accounts : m.bal[a] >= s.bal[a]
    PROVE  AroundTxs(s, m)
<1>1. m.nonce = s.nonce /\ m.open = s.open /\ m.pend = s.pend /\ m.fin = s.fin
  BY DEF Changes, Fields
<1>2. s.fin \subseteq Accounts /\ \A a \in Accounts : s.nonce[a] \in Nat
  BY DEF IsLedger
<1>3. Changes(s, m, {"bal", "nonce", "fees", "pend", "locks", "imported", "active"})
  BY ChangesMore
<1>4. BlockOutcome(s, m)
  BY <1>1, <1>2, <1>3 DEF BlockOutcome
<1>5. QED  BY <1>1, <1>4, LaterSame DEF AroundTxs, RowsSpent

LEMMA OpenedAround ==
    ASSUME NEW s, IsLedger(s), Finite(s)
    PROVE  AroundTxs(s, Opened(s))
BY OpenedPath, CreditsAround

LEMMA AroundAround ==
    ASSUME NEW s, IsLedger(s), NEW m, NEW n, AroundTxs(s, m), AroundTxs(m, n)
    PROVE  AroundTxs(s, n)
<1>1. IsLedger(m) /\ IsLedger(n) /\ m.rescue = s.rescue
  BY DEF AroundTxs, BlockOutcome, Changes, Fields
<1>2. BlockOutcome(s, n) /\ Later(s, n)
  BY <1>1, BlockBlock, LaterLater DEF AroundTxs
<1>3. ASSUME NoWayBack(s), NEW r \in s.pend \ n.pend PROVE n.nonce[r.sender] > r.nonce
  <2>1. NoWayBack(m)
    BY <1>1, <1>3 DEF NoWayBack, AroundTxs, RescuesApart
  <2>2. r.sender \in Accounts /\ r.nonce \in Nat
    BY DEF IsLedger, PendingRows
  <2>3. CASE r \in m.pend
    BY <2>1, <2>3 DEF AroundTxs, RowsSpent
  <2>4. CASE r \notin m.pend
    <3>1. m.nonce[r.sender] > r.nonce
      BY <1>3, <2>4 DEF AroundTxs, RowsSpent
    <3>2. n.nonce[r.sender] >= m.nonce[r.sender]
      BY <2>2 DEF AroundTxs, Later
    <3>3. n.nonce[r.sender] \in Nat /\ m.nonce[r.sender] \in Nat
      BY <1>1, <2>2 DEF IsLedger
    <3>4. QED  BY <2>2, <3>1, <3>2, <3>3
  <2>5. QED  BY <2>3, <2>4
<1>4. QED  BY <1>2, <1>3 DEF AroundTxs, RowsSpent

LEMMA ClosedAround ==
    ASSUME NEW s, IsLedger(s), Finite(s)
    PROVE  AroundTxs(s, Closed(s))
<1> PICK r : r = Refunded(s)
  OBVIOUS
<1> PICK d : d = Drained(r)
  OBVIOUS
<1> PICK p : p = Producer(d, H)
  OBVIOUS
<1>1. Credited(s, r)
  BY RefundedCredits
<1>2. IsLedger(r) /\ Finite(r) /\ Changes(s, r, {"bal", "locks", "imported", "active"})
  BY <1>1 DEF Credited, Finite, Changes, Fields
<1>3. AroundTxs(s, r)
  BY <1>1, <1>2, CreditsAround DEF Credited
<1>4. DrainedOf(r, d, r.pend)
  BY <1>2, DrainedPath
<1>5. AroundTxs(r, d)
  BY <1>2, <1>4, FS_Subset DEF AroundTxs, DrainedOf, Finite
<1>6. IsLedger(d) /\ Finite(d)
  BY <1>5 DEF AroundTxs
<1> DEFINE m == PayReward(d, p)
<1>7. IsLedger(m) /\ RewardOutcome(d, p, m) /\ PaidReward(d, p) \in Nat
  BY <1>6, RewardType, RewardEffect DEF IsLedger
<1> HIDE DEF m
<1>8. d.bal \in [Accounts -> Nat] /\ m.bal = Plus(d.bal, p, PaidReward(d, p))
      /\ m.pend = d.pend /\ m.locks = d.locks
  BY <1>6, <1>7 DEF IsLedger, RewardOutcome, Changes, Fields
<1>9. /\ \A a \in Accounts : m.bal[a] >= d.bal[a]
      /\ Changes(d, m, {"bal", "locks", "imported", "active"})
      /\ Finite(m)
  BY <1>6, <1>7, <1>8, CreditGrows DEF RewardOutcome, Changes, Finite
<1>10. AroundTxs(d, m)
  BY <1>6, <1>7, <1>9, CreditsAround
<1>11. AroundTxs(s, m)
  BY <1>2, <1>3, <1>5, <1>10, AroundAround
<1>12. Closed(s) = m
  BY DEF Closed, m
<1>13. QED  BY <1>11, <1>12

LEMMA TxFinite ==
    ASSUME NEW s, IsLedger(s), Finite(s), NEW tx, IsTransaction(tx), NEW h, NEW skip,
           NEW m \in ApplyTx(s, tx, h, skip)
    PROVE  Finite(m)
<1>1. /\ s = AsLedger(s) /\ m \in Body(s, tx, h, skip) /\ tx.type \in TxTypes
      /\ IsFiniteSet(s.pend) /\ IsFiniteSet(DOMAIN s.locks)
  BY DEF IsLedger, ApplyTx, IsTransaction, Finite
<1>2. IsFiniteSet(m.pend)
  <2>1. CASE m.pend \subseteq s.pend
    BY <1>1, <2>1, FS_Subset
  <2>2. ASSUME NEW dst, EnqueueOutcome(s, tx, dst, h, m) PROVE IsFiniteSet(m.pend)
    <3>1. PICK row : m.pend = s.pend \cup {row}
      BY <2>2 DEF EnqueueOutcome
    <3>2. QED  BY <1>1, <3>1, FS_AddElement
  <2>3. QED  BY <1>1, <2>1, <2>2, QueueOutcome
<1>3. IsFiniteSet(DOMAIN m.locks)
  <2>1. CASE tx.type = "export"
    <3>1. ExportOutcome(s, tx, h, m)
      BY <1>1, <2>1, ExportEffect DEF Body
    <3>2. CASE m.locks = s.locks
      BY <1>1, <3>2
    <3>3. CASE m.locks # s.locks
      <4>1. DOMAIN m.locks = DOMAIN s.locks \cup {ExportId(tx)}
        BY <3>1, <3>3 DEF ExportOutcome, Put
      <4>2. QED  BY <1>1, <4>1, FS_AddElement
    <3>4. QED  BY <3>2, <3>3
  <2>2. CASE tx.type = "import"
    <3>1. ImportOutcome(s, tx, m)
      BY <1>1, <2>2, ImportEffect DEF Body
    <3>2. DOMAIN m.locks = DOMAIN s.locks
      BY <3>1 DEF ImportOutcome
    <3>3. QED  BY <1>1, <3>2
  <2>3. CASE tx.type \notin {"export", "import"}
    BY <1>1, <2>3, OtherTxKeepsLocks
  <2>4. QED  BY <2>1, <2>2, <2>3
<1>4. QED  BY <1>2, <1>3 DEF Finite

\* No row is ahead of its sender's nonce, or comes back to its sender.
Orderly(s) ==
    /\ NoWayBack(s)
    /\ \A row \in s.pend : row.nonce <= s.nonce[row.sender]

LEMMA TxOrderly ==
    ASSUME ConservNeverRescues, NEW s, IsLedger(s), Orderly(s), NEW tx \in Txs,
           NEW h \in Nat, NEW skip, NEW m \in ApplyTx(s, tx, h, skip)
    PROVE  Orderly(m) /\ RowsSpent(s, m)
<1>1. IsTransaction(tx) /\ IsLedger(m) /\ Later(s, m)
  BY TxsAssumption, ApplyTxType, TxLater
<1>2. /\ tx.from \in Accounts /\ s.nonce \in [Accounts -> Nat] /\ m.nonce \in [Accounts -> Nat]
      /\ \A row \in s.pend : row.sender \in Accounts /\ row.nonce \in Nat
  BY <1>1 DEF IsTransaction, IsLedger, PendingRows
<1>3. /\ RescuesApart(s) /\ \A row \in s.pend : row.sender \in ConservFlag
      /\ RowsApart(s) /\ \A row \in s.pend : row.nonce <= s.nonce[row.sender]
  BY DEF Orderly, NoWayBack, RowsApart
<1>4. RescuesApart(m) /\ RowsApart(m)
  BY <1>3, TxApart
<1>5. ASSUME NEW row \in s.pend PROVE row.nonce <= m.nonce[row.sender]
  <2>1. m.nonce[row.sender] >= s.nonce[row.sender]
    BY <1>1, <1>2 DEF Later
  <2>2. QED  BY <1>2, <1>3, <2>1
<1>6. CASE m.pend = s.pend
  BY <1>3, <1>4, <1>5, <1>6 DEF Orderly, NoWayBack, RowsApart, RowsSpent
<1>7. CASE /\ m.pend = {row \in s.pend : row.sender # tx.from}
           /\ m.nonce = Plus(s.nonce, tx.from, 1)
  <2>1. ASSUME NEW row \in s.pend \ m.pend PROVE m.nonce[row.sender] > row.nonce
    <3>1. row.sender = tx.from
      BY <1>7
    <3>2. m.nonce[row.sender] = s.nonce[row.sender] + 1
      BY <1>2, <1>7, <3>1 DEF Plus
    <3>3. QED  BY <1>2, <1>3, <3>2
  <2>2. QED  BY <1>3, <1>4, <1>5, <1>7, <2>1 DEF Orderly, NoWayBack, RowsApart, RowsSpent
<1>8. ASSUME NEW dst, EnqueueOutcome(s, tx, dst, h, m), tx.from \in ConservFlag,
             tx.nonce = s.nonce[tx.from]
      PROVE  Orderly(m) /\ RowsSpent(s, m)
  <2> DEFINE new == [sender |-> tx.from, to |-> dst, amount |-> tx.amount, fee |-> tx.fee,
                     nonce |-> tx.nonce, at |-> h + ConservDelay]
  <2>1. m.pend = s.pend \cup {new} /\ m.nonce = s.nonce
    BY <1>8 DEF EnqueueOutcome, Changes, Fields
  <2>2. new.sender = tx.from /\ new.nonce = tx.nonce
    OBVIOUS
  <2> HIDE DEF new
  <2>3. new.nonce <= m.nonce[new.sender]
    BY <1>2, <1>8, <2>1, <2>2
  <2>4. QED
    BY <1>3, <1>4, <1>5, <1>8, <2>1, <2>2, <2>3 DEF Orderly, NoWayBack, RowsApart, RowsSpent
<1>9. QED  BY <1>1, <1>6, <1>7, <1>8, QueueOutcome

LEMMA AroundOrderly ==
    ASSUME NEW s, IsLedger(s), Orderly(s), NEW m, AroundTxs(s, m)
    PROVE  Orderly(m) /\ RowsSpent(s, m)
<1>1. m.rescue = s.rescue /\ m.pend \subseteq s.pend /\ RowsSpent(s, m) /\ IsLedger(m)
  BY DEF AroundTxs, BlockOutcome, Changes, Fields, Orderly
<1>2. NoWayBack(m)
  BY <1>1 DEF Orderly, NoWayBack, RescuesApart
<1>3. ASSUME NEW row \in m.pend PROVE row.nonce <= m.nonce[row.sender]
  <2>1. row.sender \in Accounts /\ row.nonce \in Nat /\ row.nonce <= s.nonce[row.sender]
    BY <1>1 DEF IsLedger, PendingRows, Orderly
  <2>2. m.nonce[row.sender] >= s.nonce[row.sender]
    BY <2>1 DEF AroundTxs, Later
  <2>3. s.nonce[row.sender] \in Nat /\ m.nonce[row.sender] \in Nat
    BY <1>1, <2>1 DEF IsLedger
  <2>4. QED  BY <2>1, <2>2, <2>3
<1>4. QED  BY <1>1, <1>2, <1>3 DEF Orderly

\* A transaction that has been executed, or waits to be: it cannot apply again.
Spent(s, tx) ==
    \/ s.nonce[tx.from] > tx.nonce
    \/ /\ tx.type = "transfer" /\ tx.from \in ConservFlag
       /\ \E row \in s.pend : row.sender = tx.from /\ row.nonce >= tx.nonce

LEMMA SpentStops ==
    ASSUME NEW s, IsLedger(s), NEW tx, IsTransaction(tx), Spent(s, tx), NEW h, NEW skip
    PROVE  ApplyTx(s, tx, h, skip) = {}
<1>1. s.nonce[tx.from] \in Nat /\ tx.nonce \in Nat
  BY DEF IsLedger, IsTransaction
<1>2. CASE s.nonce[tx.from] > tx.nonce
  <2>1. tx.nonce # s.nonce[tx.from]
    BY <1>1, <1>2
  <2>2. QED  BY <2>1 DEF ApplyTx, Admitted
<1>3. CASE tx.type = "transfer" /\ tx.from \in ConservFlag /\ HasPending(s, tx.from)
  <2>1. Transfer(s, tx, h, skip) = {}
    BY <1>3 DEF Transfer
  <2>2. QED  BY <1>3, <2>1 DEF ApplyTx, Body
<1>4. QED  BY <1>2, <1>3 DEF Spent, HasPending

LEMMA SpentStays ==
    ASSUME NEW s, IsLedger(s), NEW m, IsLedger(m), Later(s, m), RowsSpent(s, m),
           NEW tx, IsTransaction(tx), Spent(s, tx)
    PROVE  Spent(m, tx)
<1>1. /\ s.nonce[tx.from] \in Nat /\ m.nonce[tx.from] \in Nat /\ tx.nonce \in Nat
      /\ m.nonce[tx.from] >= s.nonce[tx.from]
  BY DEF IsLedger, IsTransaction, Later
<1>2. CASE s.nonce[tx.from] > tx.nonce
  <2>1. m.nonce[tx.from] > tx.nonce
    BY <1>1, <1>2
  <2>2. QED  BY <2>1 DEF Spent
<1>3. ASSUME tx.type = "transfer", tx.from \in ConservFlag,
             NEW row \in s.pend, row.sender = tx.from, row.nonce >= tx.nonce
      PROVE  Spent(m, tx)
  <2>1. CASE row \in m.pend
    BY <1>3, <2>1 DEF Spent
  <2>2. CASE row \notin m.pend
    <3>1. m.nonce[tx.from] > row.nonce /\ row.nonce \in Nat
      BY <1>3, <2>2 DEF RowsSpent, IsLedger, PendingRows
    <3>2. m.nonce[tx.from] > tx.nonce
      BY <1>1, <1>3, <3>1
    <3>3. QED  BY <3>2 DEF Spent
  <2>3. QED  BY <2>1, <2>2
<1>4. QED  BY <1>2, <1>3 DEF Spent

LEMMA TxSpends ==
    ASSUME NEW s, IsLedger(s), NEW tx, IsTransaction(tx), NEW h, NEW skip,
           NEW m \in ApplyTx(s, tx, h, skip)
    PROVE  Spent(m, tx)
<1>1. s.nonce \in [Accounts -> Nat] /\ tx.from \in Accounts /\ tx.nonce \in Nat
      /\ tx.nonce = s.nonce[tx.from]
  BY SignerMoves DEF IsLedger, IsTransaction
<1>2. CASE m.nonce = Plus(s.nonce, tx.from, 1)
  <2>1. m.nonce[tx.from] = s.nonce[tx.from] + 1
    BY <1>1, <1>2, PlusAt
  <2>2. m.nonce[tx.from] > tx.nonce
    BY <1>1, <2>1
  <2>3. QED  BY <2>2 DEF Spent
<1>3. ASSUME tx.type = "transfer", tx.from \in ConservFlag,
             NEW dst, EnqueueOutcome(s, tx, dst, h, m)
      PROVE  Spent(m, tx)
  <2> DEFINE row == [sender |-> tx.from, to |-> dst, amount |-> tx.amount, fee |-> tx.fee,
                     nonce |-> tx.nonce, at |-> h + ConservDelay]
  <2>1. row \in m.pend
    BY <1>3 DEF EnqueueOutcome
  <2>2. row.sender = tx.from /\ row.nonce = tx.nonce
    OBVIOUS
  <2> HIDE DEF row
  <2>3. row.nonce >= tx.nonce
    BY <1>1, <2>2
  <2>4. QED  BY <1>3, <2>1, <2>2, <2>3 DEF Spent
<1>4. QED  BY <1>2, <1>3, SignerMoves

LEMMA SpentRows ==
    ASSUME NEW s, IsLedger(s), NEW m, IsLedger(m), NEW n, IsLedger(n), Later(m, n),
           RowsSpent(s, m), RowsSpent(m, n)
    PROVE  RowsSpent(s, n)
<1>1. ASSUME NEW r \in s.pend \ n.pend PROVE n.nonce[r.sender] > r.nonce
  <2>1. r.sender \in Accounts /\ r.nonce \in Nat
    BY DEF IsLedger, PendingRows
  <2>2. CASE r \in m.pend
    BY <1>1, <2>2 DEF RowsSpent
  <2>3. CASE r \notin m.pend
    <3>1. m.nonce[r.sender] > r.nonce
      BY <2>3 DEF RowsSpent
    <3>2. n.nonce[r.sender] >= m.nonce[r.sender]
      BY <2>1 DEF Later
    <3>3. n.nonce[r.sender] \in Nat /\ m.nonce[r.sender] \in Nat
      BY <2>1 DEF IsLedger
    <3>4. QED  BY <2>1, <3>1, <3>2, <3>3
  <2>4. QED  BY <2>2, <2>3
<1>2. QED  BY <1>1 DEF RowsSpent

LEMMA Counting ==
    ASSUME NEW n \in Nat, NEW T \in SUBSET Nat, 0 \in T,
           \A k \in 1..n : k - 1 \in T => k \in T
    PROVE  \A k \in 0..n : k \in T
<1> DEFINE U == {k \in Nat : k <= n => k \in T}
<1>1. 0 \in U
  OBVIOUS
<1>2. ASSUME NEW k \in U PROVE k + 1 \in U
  <2> SUFFICES ASSUME k + 1 <= n PROVE k + 1 \in T
    OBVIOUS
  <2>1. k \in T /\ k + 1 \in 1..n /\ (k + 1) - 1 = k
    OBVIOUS
  <2>2. QED  BY <2>1
<1>3. U \in SUBSET Nat
  OBVIOUS
<1> HIDE DEF U
<1>4. U = Nat
  BY <1>1, <1>2, <1>3, Induction
<1>5. QED  BY <1>4 DEF U

\* What a ledger m is to the ledger s of the tip it is built from.
Grown(s, m) ==
    /\ IsLedger(m) /\ Finite(m) /\ FinalOK(m)
    /\ Later(s, m) /\ Ahead(s, m)

LEMMA SelfGrown ==
    ASSUME NEW s, IsLedger(s), Finite(s), FinalOK(s)
    PROVE  Grown(s, s)
<1>1. Later(s, s)
  <2>1. \A a \in Accounts : s.bal[a] \in Nat
    BY DEF IsLedger
  <2>2. QED  BY <2>1, LaterSame
<1>2. QED  BY <1>1, SelfAhead DEF Grown

LEMMA AroundGrown ==
    ASSUME NEW s, IsLedger(s), NEW m, Grown(s, m), NEW n, AroundTxs(m, n)
    PROVE  Grown(s, n)
<1>1. IsLedger(n) /\ Finite(n) /\ BlockOutcome(m, n) /\ Later(m, n)
  BY DEF AroundTxs
<1>2. Later(s, n)
  BY <1>1, LaterLater DEF Grown
<1>3. Ahead(s, n)
  BY <1>1, BlockAhead DEF Grown
<1>4. FinalOK(n)
  BY <1>1, BlockFinal DEF Grown
<1>5. QED  BY <1>1, <1>2, <1>3, <1>4 DEF Grown

LEMMA TxGrown ==
    ASSUME NEW s, IsLedger(s), FinalOK(s), NEW r, Grown(s, r),
           NEW tx, IsTransaction(tx), NEW h \in Nat, NEW skip \in BOOLEAN,
           NEW m \in ApplyTx(r, tx, h, skip), skip => PrecheckPasses(s, tx, h)
    PROVE  Grown(s, m)
<1>1. IsLedger(r) /\ Finite(r) /\ FinalOK(r) /\ Later(s, r) /\ Ahead(s, r)
  BY DEF Grown
<1>2. IsLedger(m) /\ TxOutcome(r, tx, m) /\ Finite(m) /\ Later(r, m)
  BY <1>1, ApplyTxType, ApplyTxOutcome, TxFinite, TxLater
<1>3. tx.from \notin r.fin
  BY <1>1, SignerNotFinal
<1>4. tx.from \in r.open \/ m.fin = r.fin
  BY <1>1, InitFinalizesNobody
<1>5. FinalOK(m)
  BY <1>1, <1>2, <1>3, <1>4, TxFinal
<1>6. Later(s, m)
  BY <1>1, <1>2, LaterLater
<1>7. Ahead(s, m)
  <2>1. tx.from \in Accounts
    BY DEF IsTransaction
  <2>2. QED  BY <1>1, <1>2, <2>1, TxAhead
<1>8. QED  BY <1>2, <1>5, <1>6, <1>7 DEF Grown

\* What a worker's check promises of the prechecked entries of a block.
Checked(s, e) ==
    \A k \in DOMAIN e : e[k].at = height => PrecheckPasses(s, e[k].tx, H)

LEMMA EntryAt ==
    ASSUME NEW e \in Entries, NEW k \in 1..Len(e)
    PROVE  /\ e[k].tx \in Txs /\ IsTransaction(e[k].tx) /\ e[k].at \in Nat
           /\ k \in DOMAIN e
<1> DEFINE S == [tx : Txs, at : Nat]
<1>0. e \in Seq(S)
  BY DEF Entries
<1> HIDE DEF S
<1>1. e[k] \in S /\ k \in DOMAIN e
  BY <1>0
<1> USE DEF S
<1>2. e[k].tx \in Txs /\ e[k].at \in Nat
  BY <1>1
<1>3. QED  BY <1>1, <1>2, TxsAssumption

LEMMA AppliedGrown ==
    ASSUME H \in Nat, NEW s, IsLedger(s), FinalOK(s), NEW r, Grown(s, r),
           NEW e \in Entries, Checked(s, e)
    PROVE  \A k \in 0..Len(e) : \A m \in Applied(r, Upto(e, k)) : Grown(s, m)
<1> DEFINE T == {k \in Nat : k <= Len(e) => \A m \in Applied(r, Upto(e, k)) : Grown(s, m)}
<1>0. Len(e) \in Nat
  BY DEF Entries
<1>1. 0 \in T
  <2>1. Applied(r, Upto(e, 0)) = {r}
    BY <1>0, AppliedNone
  <2>2. QED  BY <2>1
<1>2. ASSUME NEW k \in 1..Len(e), k - 1 \in T PROVE k \in T
  <2> SUFFICES ASSUME NEW m \in Applied(r, Upto(e, k)) PROVE Grown(s, m)
    BY <1>0
  <2>1. Applied(r, Upto(e, k)) = After(Applied(r, Upto(e, k - 1)), e[k])
    BY AppliedMore
  <2>2. PICK q \in Applied(r, Upto(e, k - 1)) : m \in ApplyTx(q, e[k].tx, H, e[k].at = height)
    BY <2>1 DEF After
  <2>3. Grown(s, q)
    BY <1>2, <2>2
  <2>4. IsTransaction(e[k].tx) /\ (e[k].at = height => PrecheckPasses(s, e[k].tx, H))
    BY EntryAt DEF Checked
  <2>5. (e[k].at = height) \in BOOLEAN
    OBVIOUS
  <2> HIDE DEF T
  <2>6. QED  BY <2>2, <2>3, <2>4, <2>5, TxGrown
<1>3. T \in SUBSET Nat
  OBVIOUS
<1> HIDE DEF T
<1>4. \A k \in 0..Len(e) : k \in T
  BY <1>0, <1>1, <1>2, <1>3, Counting
<1>5. QED  BY <1>4 DEF T

\* The transactions that a block applied can never apply again.
LEMMA AppliedSpent ==
    ASSUME ConservNeverRescues, H \in Nat, NEW s, IsLedger(s), FinalOK(s), NEW r, Grown(s, r),
           Orderly(r), NEW e \in Entries, Checked(s, e)
    PROVE  \A k \in 0..Len(e) : \A m \in Applied(r, Upto(e, k)) :
              Orderly(m) /\ RowsSpent(r, m) /\ Later(r, m) /\ \A j \in 1..k : Spent(m, e[j].tx)
<1> DEFINE P(k, m) == Orderly(m) /\ RowsSpent(r, m) /\ Later(r, m)
                      /\ \A j \in 1..k : Spent(m, e[j].tx)
           T == {k \in Nat : k <= Len(e) => \A m \in Applied(r, Upto(e, k)) : P(k, m)}
<1>0. Len(e) \in Nat /\ IsLedger(r)
  BY DEF Entries, Grown
<1>1. 0 \in T
  <2>1. Applied(r, Upto(e, 0)) = {r}
    BY <1>0, AppliedNone
  <2>2. Later(r, r)
    <3>1. \A a \in Accounts : r.bal[a] \in Nat
      BY <1>0 DEF IsLedger
    <3>2. QED  BY <1>0, <3>1, LaterSame
  <2>3. RowsSpent(r, r)
    BY DEF RowsSpent
  <2>4. QED  BY <2>1, <2>2, <2>3
<1>2. ASSUME NEW k \in 1..Len(e), k - 1 \in T PROVE k \in T
  <2> SUFFICES ASSUME NEW m \in Applied(r, Upto(e, k)) PROVE P(k, m)
    BY <1>0
  <2>1. k \in 0..Len(e) /\ k > 0 /\ k - 1 \in 0..Len(e)
    BY <1>0
  <2>2. Applied(r, Upto(e, k)) = After(Applied(r, Upto(e, k - 1)), e[k])
    BY AppliedMore
  <2>3. PICK q \in Applied(r, Upto(e, k - 1)) : m \in ApplyTx(q, e[k].tx, H, e[k].at = height)
    BY <2>2 DEF After
  <2>4. P(k - 1, q)
    BY <1>2, <2>1, <2>3
  <2>5. e[k].tx \in Txs /\ IsTransaction(e[k].tx)
    BY EntryAt
  <2>6. IsLedger(q) /\ IsLedger(m)
    <3>1. Grown(s, q) /\ Grown(s, m)
      BY <2>1, <2>3, AppliedGrown
    <3>2. QED  BY <3>1 DEF Grown
  <2> HIDE DEF T
  <2>7. Orderly(m) /\ RowsSpent(q, m) /\ Later(q, m)
    BY <2>3, <2>4, <2>5, <2>6, TxOrderly, TxLater
  <2>8. RowsSpent(r, m) /\ Later(r, m)
    BY <1>0, <2>4, <2>6, <2>7, SpentRows, LaterLater
  <2>9. ASSUME NEW j \in 1..k PROVE Spent(m, e[j].tx)
    <3>1. CASE j = k
      BY <2>3, <2>5, <2>6, <3>1, TxSpends
    <3>2. CASE j \in 1..(k - 1)
      <4>1. j \in 1..Len(e) /\ Spent(q, e[j].tx)
        BY <1>0, <2>4, <3>2
      <4>2. IsTransaction(e[j].tx)
        BY <4>1, EntryAt
      <4>3. QED  BY <2>6, <2>7, <4>1, <4>2, SpentStays
    <3>3. QED  BY <3>1, <3>2
  <2>10. QED  BY <2>7, <2>8, <2>9
<1>3. T \in SUBSET Nat
  OBVIOUS
<1> HIDE DEF T
<1>4. \A k \in 0..Len(e) : k \in T
  BY <1>0, <1>1, <1>2, <1>3, Counting
<1>5. QED  BY <1>4 DEF T

LEMMA SealedGrown ==
    ASSUME H \in Nat, IsLedger(l), Finite(l), FinalOK(l),
           NEW e \in Entries, Checked(l, e), NEW s \in SealEntries(e)
    PROVE  /\ Grown(l, s)
           /\ ConservNeverRescues /\ Orderly(l) =>
                 Orderly(s) /\ RowsSpent(l, s) /\ \A j \in 1..Len(e) : Spent(s, e[j].tx)
<1>0. Len(e) \in Nat /\ Len(e) \in 0..Len(e)
  BY DEF Entries
<1>1. PICK r \in Applied(Opened(l), e) : s = Closed(r)
  BY DEF SealEntries
<1>2. r \in Applied(Opened(l), Upto(e, Len(e)))
  BY <1>0, <1>1, UptoShape DEF Entries
<1>3. Grown(l, Opened(l)) /\ AroundTxs(l, Opened(l))
  BY SelfGrown, OpenedAround, AroundGrown
<1>4. Grown(l, r)
  BY <1>0, <1>2, <1>3, AppliedGrown
<1>5. AroundTxs(r, s)
  BY <1>1, <1>4, ClosedAround DEF Grown
<1>6. Grown(l, s)
  BY <1>4, <1>5, AroundGrown
<1>7. ASSUME ConservNeverRescues, Orderly(l)
      PROVE  Orderly(s) /\ RowsSpent(l, s) /\ \A j \in 1..Len(e) : Spent(s, e[j].tx)
  <2>1. Orderly(Opened(l)) /\ RowsSpent(l, Opened(l))
    BY <1>3, <1>7, AroundOrderly
  <2>2. /\ Orderly(r) /\ RowsSpent(Opened(l), r) /\ Later(Opened(l), r)
        /\ \A j \in 1..Len(e) : Spent(r, e[j].tx)
    BY <1>0, <1>2, <1>3, <1>7, <2>1, AppliedSpent
  <2>3. IsLedger(Opened(l)) /\ IsLedger(r) /\ IsLedger(s) /\ Later(r, s)
    BY <1>3, <1>4, <1>5 DEF Grown, AroundTxs
  <2>4. Orderly(s) /\ RowsSpent(r, s)
    BY <1>5, <2>2, <2>3, AroundOrderly
  <2>5. RowsSpent(l, r)
    BY <2>1, <2>2, <2>3, SpentRows
  <2>6. RowsSpent(l, s)
    BY <2>3, <2>4, <2>5, SpentRows
  <2>7. ASSUME NEW j \in 1..Len(e) PROVE Spent(s, e[j].tx)
    BY <2>2, <2>3, <2>4, EntryAt, SpentStays
  <2>8. QED  BY <2>4, <2>6, <2>7
<1>8. QED  BY <1>6, <1>7

-----------------------------------------------------------------------------
(* Parts of a sequence.                                                    *)

LEMMA Cut ==
    ASSUME NEW S, NEW s \in Seq(S), NEW n \in Nat
    PROVE  /\ Upto(s, n) \in Seq(S) /\ From(s, n + 1) \in Seq(S)
           /\ Len(Upto(s, n)) \in Nat /\ Len(From(s, n + 1)) \in Nat
           /\ Len(Upto(s, n)) <= n /\ Len(Upto(s, n)) + Len(From(s, n + 1)) = Len(s)
           /\ \A k \in 1..Len(Upto(s, n)) : Upto(s, n)[k] = s[k] /\ k \in 1..Len(s)
           /\ \A k \in 1..Len(From(s, n + 1)) :
                 From(s, n + 1)[k] = s[k + n] /\ k + n \in 1..Len(s)
           /\ \A k \in 1..Len(s) : \/ k \in 1..Len(Upto(s, n))
                                   \/ k - n \in 1..Len(From(s, n + 1))
<1> DEFINE m == IF n < Len(s) THEN n ELSE Len(s)
<1>1. m \in 0..Len(s) /\ m \in Nat /\ Len(s) \in Nat
  OBVIOUS
<1>2. Upto(s, n) = SubSeq(s, 1, m)
  BY DEF Upto
<1>3. SubSeq(s, 1, m) \in Seq(S) /\ Len(SubSeq(s, 1, m)) = m
  BY <1>1
<1>4. \A k \in 1..m : SubSeq(s, 1, m)[k] = s[k]
  BY <1>1
<1>5. From(s, n + 1) = SubSeq(s, n + 1, Len(s))
  BY DEF From
<1> DEFINE d == IF n < Len(s) THEN Len(s) - n ELSE 0
<1>6. d \in Nat /\ m + d = Len(s) /\ m <= n
  BY <1>1
<1>7. SubSeq(s, n + 1, Len(s)) \in Seq(S) /\ Len(SubSeq(s, n + 1, Len(s))) = d
  BY <1>1
<1>8. \A k \in 1..d : SubSeq(s, n + 1, Len(s))[k] = s[k + n]
  BY <1>1, <1>7
<1>9. \A k \in 1..d : k + n \in 1..Len(s)
  BY <1>1
<1>10. \A k \in 1..Len(s) : k \in 1..m \/ k - n \in 1..d
  BY <1>1
<1>11. \A k \in 1..m : k \in 1..Len(s)
  BY <1>1
<1> HIDE DEF m, d
<1>12. QED  BY <1>1, <1>2, <1>3, <1>4, <1>5, <1>6, <1>7, <1>8, <1>9, <1>10, <1>11

LEMMA ProperSmaller ==
    ASSUME NEW S, IsFiniteSet(S), NEW T \in SUBSET S, T # S
    PROVE  IsFiniteSet(T) /\ Cardinality(T) \in Nat /\ Cardinality(T) < Cardinality(S)
<1>1. IsFiniteSet(T) /\ Cardinality(T) <= Cardinality(S) /\ Cardinality(T) # Cardinality(S)
  BY FS_Subset
<1>2. Cardinality(T) \in Nat /\ Cardinality(S) \in Nat
  BY <1>1, FS_CardinalityType
<1>3. QED  BY <1>1, <1>2

\* The rank of a position in K: how many positions of K come before it.
Rank(K, i) == Cardinality(Below(K, i))

LEMMA RankBelow ==
    ASSUME NEW K \in SUBSET Nat, IsFiniteSet(K), NEW i \in K
    PROVE  Rank(K, i) \in Nat /\ Rank(K, i) < Cardinality(K)
<1>1. Below(K, i) \in SUBSET K /\ i \notin Below(K, i)
  BY DEF Below
<1>2. QED  BY <1>1, ProperSmaller DEF Rank

LEMMA RankGrows ==
    ASSUME NEW K \in SUBSET Nat, IsFiniteSet(K), NEW i \in K, NEW j \in K, i < j
    PROVE  Rank(K, i) < Rank(K, j)
<1>1. Below(K, j) \in SUBSET K
  BY DEF Below
<1>2. IsFiniteSet(Below(K, j))
  BY <1>1, FS_Subset
<1>3. ASSUME NEW x \in Below(K, i) PROVE x \in Below(K, j)
  <2>1. x \in K /\ x < i /\ x \in Nat /\ i \in Nat /\ j \in Nat
    BY DEF Below
  <2>2. x < j
    BY <2>1
  <2>3. QED  BY <2>1, <2>2 DEF Below
<1>4. i \notin Below(K, i) /\ i \in Below(K, j)
  BY DEF Below
<1>5. QED  BY <1>2, <1>3, <1>4, ProperSmaller DEF Rank

LEMMA RankOnce ==
    ASSUME NEW K \in SUBSET Nat, IsFiniteSet(K), NEW i \in K, NEW j \in K,
           Rank(K, i) = Rank(K, j)
    PROVE  i = j
<1>1. i \in Nat /\ j \in Nat /\ Rank(K, i) \in Nat /\ Rank(K, j) \in Nat
  BY RankBelow
<1>2. CASE i < j
  <2>1. Rank(K, i) < Rank(K, j)
    BY <1>2, RankGrows
  <2>2. QED  BY <1>1, <2>1
<1>3. CASE j < i
  <2>1. Rank(K, j) < Rank(K, i)
    BY <1>3, RankGrows
  <2>2. QED  BY <1>1, <2>1
<1>4. QED  BY <1>1, <1>2, <1>3

(* The elements of s at the positions in K keep their order: the n-th of   *)
(* them is the one of rank n - 1.                                          *)
LEMMA Positions ==
    ASSUME NEW S, NEW s \in Seq(S), NEW K \in SUBSET (1..Len(s))
    PROVE  /\ AtPositions(s, K) \in Seq(S)
           /\ Len(AtPositions(s, K)) = Cardinality(K)
           /\ Cardinality(K) \in Nat /\ Cardinality(K) <= Len(s)
           /\ \A n \in 1..Cardinality(K) :
                 \E k \in K : AtPositions(s, K)[n] = s[k] /\ Rank(K, k) = n - 1
           /\ \A k \in K : \E n \in 1..Cardinality(K) : AtPositions(s, K)[n] = s[k]
<1>0. Len(s) \in Nat
  OBVIOUS
<1>1. IsFiniteSet(1..Len(s)) /\ Cardinality(1..Len(s)) = Len(s)
  <2>1. PICK n \in Nat : n = Len(s)
    BY <1>0
  <2>2. IsFiniteSet(1..n) /\ Cardinality(1..n) = IF 1 > n THEN 0 ELSE n - 1 + 1
    BY FS_Interval
  <2>3. Cardinality(1..n) = n
    BY <2>2
  <2>4. QED  BY <2>1, <2>2, <2>3
<1>2. IsFiniteSet(K) /\ Cardinality(K) <= Len(s) /\ K \in SUBSET Nat
  <2>1. K \in SUBSET Nat
    OBVIOUS
  <2> DEFINE D == 1..Len(s)
  <2>2. K \in SUBSET D /\ IsFiniteSet(D) /\ Cardinality(D) = Len(s)
    BY <1>1
  <2> HIDE DEF D
  <2>3. QED  BY <2>1, <2>2, FS_Subset
<1>3. Cardinality(K) \in Nat
  BY <1>2, FS_CardinalityType
<1> DEFINE c(n) == CHOOSE k \in K : Cardinality({j \in K : j < k}) = n - 1
           a == [n \in 1..Cardinality(K) |-> s[c(n)]]
<1>4. AtPositions(s, K) = a
  BY DEF AtPositions
<1>5. ASSUME NEW n \in 1..Cardinality(K) PROVE c(n) \in K /\ Rank(K, c(n)) = n - 1
  <2>1. n - 1 \in Nat /\ n - 1 < Cardinality(K)
    BY <1>3
  <2>2. \E k \in K : Cardinality(Below(K, k)) = n - 1
    BY <1>2, <2>1, RankExists
  <2>3. \E k \in K : Cardinality({j \in K : j < k}) = n - 1
    BY <2>2 DEF Below
  <2>4. c(n) \in K /\ Cardinality({j \in K : j < c(n)}) = n - 1
    BY <2>3
  <2> HIDE DEF c
  <2>5. QED  BY <2>4 DEF Rank, Below
<1> HIDE DEF c
<1>6. \A n \in 1..Cardinality(K) : a[n] = s[c(n)] /\ s[c(n)] \in S
  <2>1. \A k \in 1..Len(s) : s[k] \in S
    OBVIOUS
  <2>2. \A n \in 1..Cardinality(K) : c(n) \in 1..Len(s)
    BY <1>5
  <2>3. QED  BY <2>1, <2>2
<1>7. a \in [1..Cardinality(K) -> S]
  BY <1>6
<1>8. a \in Seq(S) /\ Len(a) = Cardinality(K)
  BY <1>3, <1>7
<1>9. ASSUME NEW k \in K PROVE \E n \in 1..Cardinality(K) : a[n] = s[k]
  <2>1. Rank(K, k) \in Nat /\ Rank(K, k) < Cardinality(K)
    BY <1>2, RankBelow
  <2>2. PICK n \in Nat : n = Rank(K, k) + 1
    BY <2>1
  <2>3. n \in 1..Cardinality(K) /\ Rank(K, k) = n - 1
    BY <1>3, <2>1, <2>2
  <2>4. c(n) \in K /\ Rank(K, c(n)) = Rank(K, k)
    BY <1>5, <2>3
  <2>5. c(n) = k
    BY <1>2, <2>4, RankOnce
  <2>6. QED  BY <1>6, <2>3, <2>5
<1> HIDE DEF a
<1>10. QED  BY <1>2, <1>3, <1>4, <1>5, <1>6, <1>8, <1>9

-----------------------------------------------------------------------------
(* The batch.                                                              *)

LEMMA NoHeightType ==
    ASSUME LoopTypeOK
    PROVE  /\ height \in Nat /\ MaxHeight \in Nat /\ H \in Nat /\ NoHeight \in Nat
           /\ NoHeight # height /\ BlockCap \in Nat /\ QueueCap \in Nat /\ MaxArrivals \in Nat
           /\ Len(queue) \in Nat /\ Len(pool) \in Nat
<1>1. MaxHeight \in Nat /\ height \in 0..MaxHeight
  BY MaxHeightAssumption DEF LoopTypeOK
<1>2. BlockCap \in Nat /\ QueueCap \in Nat /\ MaxArrivals \in Nat
  BY CapsAssumption
<1>3. Len(queue) \in Nat /\ Len(pool) \in Nat
  <2>1. PICK S : queue \in Seq(S)
    BY DEF LoopTypeOK
  <2>2. pool \in Seq(Txs)
    BY DEF LoopTypeOK
  <2>3. QED  BY <2>1, <2>2
<1>4. QED  BY <1>1, <1>2, <1>3 DEF H, NoHeight

LEMMA RawShape ==
    ASSUME LoopTypeOK, NEW txs \in Seq(Txs)
    PROVE  /\ Raw(txs) \in Entries /\ Len(Raw(txs)) = Len(txs)
           /\ \A k \in 1..Len(txs) : Raw(txs)[k].tx = txs[k] /\ Raw(txs)[k].at = NoHeight
           /\ \A s : Checked(s, Raw(txs))
<1> DEFINE n == Len(txs)
           S == [tx : Txs, at : Nat]
<1>1. n \in Nat /\ DOMAIN txs = 1..n /\ \A k \in 1..n : txs[k] \in Txs
  OBVIOUS
<1>2. Raw(txs) = [k \in 1..n |-> Entry(txs[k], NoHeight)]
  BY <1>1 DEF Raw
<1>3. \A k \in 1..n : /\ Entry(txs[k], NoHeight) \in S
                      /\ Entry(txs[k], NoHeight).tx = txs[k]
                      /\ Entry(txs[k], NoHeight).at = NoHeight
  BY <1>1, NoHeightType DEF Entry
<1> HIDE DEF n, S
<1>4. Raw(txs) \in [1..n -> S]
  BY <1>2, <1>3
<1>5. Raw(txs) \in Seq(S) /\ Len(Raw(txs)) = n /\ DOMAIN Raw(txs) = 1..n
  BY <1>1, <1>4
<1>6. \A k \in 1..n : Raw(txs)[k].tx = txs[k] /\ Raw(txs)[k].at = NoHeight
  BY <1>2, <1>3
<1>7. \A s : Checked(s, Raw(txs))
  BY <1>5, <1>6, NoHeightType DEF Checked
<1>8. QED  BY <1>5, <1>6, <1>7 DEF n, S, Entries

LEMMA TxsOfShape ==
    ASSUME NEW e \in Entries
    PROVE  /\ TxsOf(e) \in Seq(Txs) /\ Len(TxsOf(e)) = Len(e) /\ Len(e) \in Nat
           /\ \A k \in 1..Len(e) : TxsOf(e)[k] = e[k].tx
<1>1. Len(e) \in Nat /\ DOMAIN e = 1..Len(e)
  BY DEF Entries
<1>2. \A k \in 1..Len(e) : e[k].tx \in Txs
  BY EntryAt
<1>3. TxsOf(e) = [k \in 1..Len(e) |-> e[k].tx]
  BY <1>1 DEF TxsOf
<1> DEFINE n == Len(e)
<1>4. TxsOf(e) \in [1..n -> Txs] /\ n \in Nat
  BY <1>1, <1>2, <1>3
<1> HIDE DEF n
<1>5. TxsOf(e) \in Seq(Txs) /\ Len(TxsOf(e)) = n
  BY <1>4
<1>6. QED  BY <1>1, <1>3, <1>5 DEF n

\* The elements of a sequence.
LEMMA Elements ==
    ASSUME NEW S, NEW s \in Seq(S), NEW x
    PROVE  x \in ToSet(s) <=> \E k \in 1..Len(s) : x = s[k]
<1>1. DOMAIN s = 1..Len(s)
  OBVIOUS
<1>2. QED  BY <1>1 DEF ToSet

LEMMA QueueIsEntries ==
    ASSUME LoopTypeOK
    PROVE  /\ queue \in Entries
           /\ \A k \in 1..Len(queue) : queue[k].at \in 0..height
<1> DEFINE S == [tx : Txs, at : 0..height]
           S2 == [tx : Txs, at : Nat]
<1>1. queue \in Seq(S) /\ height \in Nat
  BY NoHeightType DEF LoopTypeOK
<1>2. S \subseteq S2 /\ \A x \in S : x.at \in 0..height
  BY <1>1
<1> HIDE DEF S, S2
<1>3. queue \in Seq(S2)
  <2>1. queue \in [1..Len(queue) -> S] /\ Len(queue) \in Nat
    BY <1>1
  <2>2. queue \in [1..Len(queue) -> S2]
    BY <1>2, <2>1
  <2>3. QED  BY <2>1, <2>2
<1>4. \A k \in 1..Len(queue) : queue[k] \in S
  BY <1>1
<1>5. QED  BY <1>2, <1>3, <1>4 DEF S2, Entries

\* Where an entry of the batch comes from.
FromQueue(x) == \E j \in 1..Len(queue) : x = queue[j]

FromThePool(x) == x.at = NoHeight /\ \E j \in 1..Len(pool) : x.tx = pool[j]

LEMMA Joined ==
    ASSUME NEW S, NEW s \in Seq(S), NEW t \in Seq(S)
    PROVE  /\ s \o t \in Seq(S) /\ Len(s) \in Nat /\ Len(t) \in Nat
           /\ Len(s \o t) = Len(s) + Len(t)
           /\ \A k \in 1..Len(s \o t) :
                 (s \o t)[k] = IF k <= Len(s) THEN s[k] ELSE t[k - Len(s)]
OBVIOUS

LEMMA TakenShape ==
    ASSUME LoopTypeOK
    PROVE  /\ Taken \in Entries
           /\ Len(Taken) + Len(QueueRest) + Len(PoolRest) = Len(queue) + Len(pool)
           /\ \A k \in 1..Len(Taken) : FromQueue(Taken[k]) \/ FromThePool(Taken[k])
           /\ \A j \in 1..Len(queue) :
                 \/ \E k \in 1..Len(Taken) : Taken[k] = queue[j]
                 \/ \E k \in 1..Len(QueueRest) : QueueRest[k] = queue[j]
           /\ \A j \in 1..Len(pool) :
                 \/ \E k \in 1..Len(Taken) : Taken[k].tx = pool[j]
                 \/ \E k \in 1..Len(PoolRest) : PoolRest[k] = pool[j]
           /\ QueueRest \in Seq([tx : Txs, at : 0..height]) /\ PoolRest \in Seq(Txs)
           /\ Len(QueueRest) \in Nat /\ Len(QueueRest) <= Len(queue) /\ Len(PoolRest) \in Nat
           /\ \A k \in 1..Len(QueueRest) : FromQueue(QueueRest[k])
           /\ \A k \in 1..Len(PoolRest) : \E j \in 1..Len(pool) : PoolRest[k] = pool[j]
<1> DEFINE S == [tx : Txs, at : 0..height]
           S2 == [tx : Txs, at : Nat]
           a == Upto(queue, BlockCap)
           b == Upto(pool, FromPool)
           r == Raw(b)
<1>1. /\ queue \in Seq(S) /\ queue \in Seq(S2) /\ pool \in Seq(Txs)
      /\ Len(queue) \in Nat /\ Len(pool) \in Nat /\ BlockCap \in Nat
  BY NoHeightType, QueueIsEntries DEF LoopTypeOK, Entries
<1> HIDE DEF S
<1>2. QueueRest = From(queue, BlockCap + 1) /\ PoolRest = From(pool, FromPool + 1)
  BY DEF QueueRest, PoolRest
<1>3. a \in Seq(S2) /\ Len(a) \in Nat /\ Len(a) <= BlockCap
  BY <1>1, Cut
<1>4. FromPool \in Nat
  BY <1>1, <1>3 DEF FromPool
<1>5. b \in Seq(Txs) /\ Len(b) \in Nat
  BY <1>1, <1>4, Cut
<1>6. /\ r \in Seq(S2) /\ Len(r) = Len(b)
      /\ \A k \in 1..Len(b) : r[k].tx = b[k] /\ r[k].at = NoHeight
  BY <1>5, RawShape DEF Entries
<1>7. Taken = a \o r
  BY DEF Taken
<1>8. /\ From(queue, BlockCap + 1) \in Seq(S)
      /\ Len(From(queue, BlockCap + 1)) \in Nat
      /\ Len(a) + Len(From(queue, BlockCap + 1)) = Len(queue)
  BY <1>1, Cut
<1>9. /\ \A k \in 1..Len(a) : a[k] = queue[k] /\ k \in 1..Len(queue)
      /\ \A k \in 1..Len(From(queue, BlockCap + 1)) :
            From(queue, BlockCap + 1)[k] = queue[k + BlockCap] /\ k + BlockCap \in 1..Len(queue)
      /\ \A k \in 1..Len(queue) : \/ k \in 1..Len(a)
                                  \/ k - BlockCap \in 1..Len(From(queue, BlockCap + 1))
  BY <1>1, Cut
<1>10. /\ From(pool, FromPool + 1) \in Seq(Txs)
       /\ Len(From(pool, FromPool + 1)) \in Nat
       /\ Len(b) + Len(From(pool, FromPool + 1)) = Len(pool)
  BY <1>1, <1>4, Cut
<1>11. /\ \A k \in 1..Len(b) : b[k] = pool[k] /\ k \in 1..Len(pool)
       /\ \A k \in 1..Len(From(pool, FromPool + 1)) :
             From(pool, FromPool + 1)[k] = pool[k + FromPool] /\ k + FromPool \in 1..Len(pool)
       /\ \A k \in 1..Len(pool) : \/ k \in 1..Len(b)
                                  \/ k - FromPool \in 1..Len(From(pool, FromPool + 1))
  BY <1>1, <1>4, Cut
<1> HIDE DEF a, b, r, S2
<1>12. /\ Taken \in Seq(S2) /\ Len(Taken) = Len(a) + Len(b)
       /\ \A k \in 1..Len(Taken) : Taken[k] = IF k <= Len(a) THEN a[k] ELSE r[k - Len(a)]
  <2>1. Len(r) \in Nat
    BY <1>5, <1>6
  <2>2. a \in Seq(S2) /\ r \in Seq(S2)
    BY <1>3, <1>6
  <2>3. /\ a \o r \in Seq(S2) /\ Len(a \o r) = Len(a) + Len(r)
        /\ \A k \in 1..Len(a \o r) :
              (a \o r)[k] = IF k <= Len(a) THEN a[k] ELSE r[k - Len(a)]
    BY <2>2, Joined
  <2>4. QED  BY <1>6, <1>7, <2>2, <2>3
<1>13. Taken \in Entries
  BY <1>12 DEF S2, Entries
<1>14. Len(Taken) + Len(QueueRest) + Len(PoolRest) = Len(queue) + Len(pool)
  <2>1. Len(QueueRest) \in Nat /\ Len(a) + Len(QueueRest) = Len(queue)
    BY <1>2, <1>8
  <2>2. Len(PoolRest) \in Nat /\ Len(b) + Len(PoolRest) = Len(pool)
    BY <1>2, <1>10
  <2>3. Len(Taken) = Len(a) + Len(b)
    BY <1>12
  <2>4. QED  BY <1>3, <1>5, <2>1, <2>2, <2>3
<1>15. ASSUME NEW k \in 1..Len(Taken) PROVE FromQueue(Taken[k]) \/ FromThePool(Taken[k])
  <2>1. CASE k <= Len(a)
    <3>1. k \in 1..Len(a) /\ Taken[k] = a[k]
      BY <1>3, <1>5, <1>12, <2>1
    <3>2. QED  BY <1>9, <3>1 DEF FromQueue
  <2>2. CASE ~(k <= Len(a))
    <3>1. k - Len(a) \in 1..Len(b) /\ Taken[k] = r[k - Len(a)]
      BY <1>3, <1>5, <1>12, <2>2
    <3>2. QED  BY <1>6, <1>11, <3>1 DEF FromThePool
  <2>3. QED  BY <2>1, <2>2
<1>16. ASSUME NEW j \in 1..Len(queue)
       PROVE  \/ \E k \in 1..Len(Taken) : Taken[k] = queue[j]
              \/ \E k \in 1..Len(QueueRest) : QueueRest[k] = queue[j]
  <2>1. CASE j \in 1..Len(a)
    <3>1. j \in 1..Len(Taken) /\ j <= Len(a)
      BY <1>3, <1>5, <1>12, <2>1
    <3>2. Taken[j] = queue[j]
      BY <1>9, <1>12, <2>1, <3>1
    <3>3. QED  BY <3>1, <3>2
  <2>2. CASE j - BlockCap \in 1..Len(QueueRest)
    <3>1. QueueRest[j - BlockCap] = queue[(j - BlockCap) + BlockCap]
      BY <1>2, <1>9, <2>2
    <3>2. (j - BlockCap) + BlockCap = j
      BY <1>1
    <3>3. QED  BY <2>2, <3>1, <3>2
  <2>3. QED  BY <1>2, <1>9, <2>1, <2>2
<1>17. ASSUME NEW j \in 1..Len(pool)
       PROVE  \/ \E k \in 1..Len(Taken) : Taken[k].tx = pool[j]
              \/ \E k \in 1..Len(PoolRest) : PoolRest[k] = pool[j]
  <2>1. CASE j \in 1..Len(b)
    <3>1. /\ j + Len(a) \in 1..Len(Taken) /\ ~(j + Len(a) <= Len(a))
          /\ (j + Len(a)) - Len(a) = j
      BY <1>3, <1>5, <1>12, <2>1
    <3>2. Taken[j + Len(a)] = r[j]
      BY <1>12, <3>1
    <3>3. r[j].tx = pool[j]
      BY <1>6, <1>11, <2>1
    <3>4. QED  BY <3>1, <3>2, <3>3
  <2>2. CASE j - FromPool \in 1..Len(PoolRest)
    <3>1. PoolRest[j - FromPool] = pool[(j - FromPool) + FromPool]
      BY <1>2, <1>11, <2>2
    <3>2. (j - FromPool) + FromPool = j
      BY <1>4
    <3>3. QED  BY <2>2, <3>1, <3>2
  <2>3. QED  BY <1>2, <1>11, <2>1, <2>2
<1>18. \A k \in 1..Len(QueueRest) : FromQueue(QueueRest[k])
  BY <1>2, <1>9 DEF FromQueue
<1>19. \A k \in 1..Len(PoolRest) : \E j \in 1..Len(pool) : PoolRest[k] = pool[j]
  BY <1>2, <1>11
<1>20. /\ QueueRest \in Seq(S) /\ PoolRest \in Seq(Txs)
       /\ Len(QueueRest) \in Nat /\ Len(QueueRest) <= Len(queue) /\ Len(PoolRest) \in Nat
  BY <1>1, <1>2, <1>3, <1>8, <1>10
<1>21. QED  BY <1>13, <1>14, <1>15, <1>16, <1>17, <1>18, <1>19, <1>20 DEF S

LEMMA PickedEntries ==
    ASSUME NEW e \in Entries, NEW K \in SUBSET (1..Len(e))
    PROVE  /\ AtPositions(e, K) \in Entries
           /\ Len(AtPositions(e, K)) = Cardinality(K)
           /\ Cardinality(K) \in Nat /\ Cardinality(K) <= Len(e)
           /\ \A n \in 1..Cardinality(K) :
                 \E k \in K : AtPositions(e, K)[n] = e[k] /\ Rank(K, k) = n - 1
           /\ \A k \in K : \E n \in 1..Cardinality(K) : AtPositions(e, K)[n] = e[k]
BY Positions DEF Entries

\* A transaction that the loop has evicted at this tip.
Shunned(tx) == evicted.tip = height /\ tx \in evicted.txs

\* What the two filters leave of the entries e.
Copies(e) == AtPositions(e, {k \in DOMAIN e : ~Skipped(e[k]) /\ Fresh(e, k)})

LEMMA CopiesShape ==
    ASSUME NEW e \in Entries
    PROVE  /\ Copies(e) \in Entries
           /\ Len(Copies(e)) \in Nat /\ Len(Copies(e)) <= Len(e)
           /\ \A n \in 1..Len(Copies(e)) : \E k \in 1..Len(e) : Copies(e)[n] = e[k]
           /\ \A k \in 1..Len(e) :
                 \/ Shunned(e[k].tx)
                 \/ \E n \in 1..Len(Copies(e)) : Copies(e)[n].tx = e[k].tx
           /\ \A n \in 1..Len(Copies(e)), m \in 1..Len(Copies(e)) :
                 n # m => Copies(e)[n].tx # Copies(e)[m].tx
<1> DEFINE K == {k \in DOMAIN e : ~Skipped(e[k]) /\ Fresh(e, k)}
<1>0. DOMAIN e = 1..Len(e) /\ Len(e) \in Nat
  BY DEF Entries
<1>1. K \in SUBSET (1..Len(e)) /\ Copies(e) = AtPositions(e, K)
  BY <1>0 DEF Copies
<1>2. /\ Copies(e) \in Entries /\ Len(Copies(e)) = Cardinality(K)
      /\ Cardinality(K) \in Nat /\ Cardinality(K) <= Len(e)
      /\ \A n \in 1..Cardinality(K) : \E k \in K : Copies(e)[n] = e[k] /\ Rank(K, k) = n - 1
      /\ \A k \in K : \E n \in 1..Cardinality(K) : Copies(e)[n] = e[k]
  <2> HIDE DEF K
  <2>1. /\ AtPositions(e, K) \in Entries /\ Len(AtPositions(e, K)) = Cardinality(K)
        /\ Cardinality(K) \in Nat /\ Cardinality(K) <= Len(e)
        /\ \A n \in 1..Cardinality(K) :
              \E k \in K : AtPositions(e, K)[n] = e[k] /\ Rank(K, k) = n - 1
        /\ \A k \in K : \E n \in 1..Cardinality(K) : AtPositions(e, K)[n] = e[k]
    <3>1. K \in SUBSET (1..Len(e))
      BY <1>1
    <3>2. QED  BY <3>1, PickedEntries
  <2>2. QED  BY <1>1, <2>1
<1>3. ASSUME NEW k \in 1..Len(e), ~Shunned(e[k].tx)
      PROVE  \E n \in 1..Cardinality(K) : Copies(e)[n].tx = e[k].tx
  <2> DEFINE J == {j \in 1..Len(e) : e[j].tx = e[k].tx}
  <2>1. J \in SUBSET Nat /\ J # {}
    OBVIOUS
  <2>2. PICK j \in J : \A i \in J : j <= i
    BY <2>1, LeastNumber
  <2>3. ASSUME NEW i \in 1..(j - 1) PROVE e[i].tx # e[j].tx
    <3>1. i \in 1..Len(e) /\ ~(j <= i)
      BY <1>0
    <3>2. i \notin J
      BY <2>2, <3>1
    <3>3. QED  BY <3>1, <3>2
  <2>4. j \in 1..Len(e) /\ e[j].tx = e[k].tx
    OBVIOUS
  <2>5. ~Skipped(e[j])
    BY <1>3, <2>4 DEF Skipped, Shunned
  <2>6. j \in K
    BY <1>0, <2>3, <2>4, <2>5 DEF Fresh
  <2> HIDE DEF K, J
  <2>7. PICK n \in 1..Cardinality(K) : Copies(e)[n] = e[j]
    BY <1>2, <2>6
  <2>8. QED  BY <2>4, <2>7
<1>4. ASSUME NEW n \in 1..Cardinality(K), NEW m \in 1..Cardinality(K), n # m
      PROVE  Copies(e)[n].tx # Copies(e)[m].tx
  <2>1. PICK i \in K : Copies(e)[n] = e[i] /\ Rank(K, i) = n - 1
    BY <1>2
  <2>2. PICK j \in K : Copies(e)[m] = e[j] /\ Rank(K, j) = m - 1
    BY <1>2
  <2>3. i # j /\ i \in 1..Len(e) /\ j \in 1..Len(e)
    BY <1>1, <1>2, <1>4, <2>1, <2>2
  <2>4. Fresh(e, i) /\ Fresh(e, j)
    OBVIOUS
  <2>5. CASE i < j
    <3>1. i \in 1..(j - 1)
      BY <1>0, <2>3, <2>5
    <3>2. QED  BY <2>1, <2>2, <2>4, <3>1 DEF Fresh
  <2>6. CASE j < i
    <3>1. j \in 1..(i - 1)
      BY <1>0, <2>3, <2>6
    <3>2. QED  BY <2>1, <2>2, <2>4, <3>1 DEF Fresh
  <2>7. QED  BY <1>0, <2>3, <2>5, <2>6
<1> HIDE DEF K
<1>5. \A n \in 1..Len(Copies(e)) : \E k \in 1..Len(e) : Copies(e)[n] = e[k]
  BY <1>1, <1>2
<1>6. \A k \in 1..Len(e) :
         Shunned(e[k].tx) \/ \E n \in 1..Len(Copies(e)) : Copies(e)[n].tx = e[k].tx
  <2>1. ASSUME NEW k \in 1..Len(e), ~Shunned(e[k].tx)
        PROVE  \E n \in 1..Len(Copies(e)) : Copies(e)[n].tx = e[k].tx
    BY <1>2, <1>3, <2>1
  <2>2. QED  BY <2>1
<1>7. \A n \in 1..Len(Copies(e)), m \in 1..Len(Copies(e)) :
         n # m => Copies(e)[n].tx # Copies(e)[m].tx
  BY <1>2, <1>4
<1>8. Copies(e) \in Entries /\ Len(Copies(e)) \in Nat /\ Len(Copies(e)) <= Len(e)
  BY <1>2
<1>9. QED  BY <1>5, <1>6, <1>7, <1>8

LEMMA BatchShape ==
    ASSUME LoopTypeOK
    PROVE  /\ Batch \in Entries
           /\ Len(Batch) \in Nat
           /\ Len(Batch) + Len(QueueRest) + Len(PoolRest) <= Len(queue) + Len(pool)
           /\ \A k \in 1..Len(Batch) : FromQueue(Batch[k]) \/ FromThePool(Batch[k])
           /\ \A k \in 1..Len(Batch), j \in 1..Len(Batch) : k # j => Batch[k].tx # Batch[j].tx
           /\ \A k \in 1..Len(Taken) :
                 Shunned(Taken[k].tx) \/ \E n \in 1..Len(Batch) : Batch[n].tx = Taken[k].tx
<1>1. Taken \in Entries /\ Len(Taken) \in Nat
  BY TakenShape DEF Entries
<1>2. /\ Batch \in Entries /\ Len(Batch) \in Nat /\ Len(Batch) <= Len(Taken)
      /\ \A n \in 1..Len(Batch) : \E k \in 1..Len(Taken) : Batch[n] = Taken[k]
      /\ \A k \in 1..Len(Taken) :
            Shunned(Taken[k].tx) \/ \E n \in 1..Len(Batch) : Batch[n].tx = Taken[k].tx
      /\ \A n \in 1..Len(Batch), m \in 1..Len(Batch) : n # m => Batch[n].tx # Batch[m].tx
  <2>1. Batch = Copies(Taken)
    BY DEF Batch, Copies
  <2>2. QED  BY <1>1, <2>1, CopiesShape
<1>3. Len(Batch) + Len(QueueRest) + Len(PoolRest) <= Len(queue) + Len(pool)
  <2>1. /\ Len(Taken) + Len(QueueRest) + Len(PoolRest) = Len(queue) + Len(pool)
        /\ Len(QueueRest) \in Nat /\ Len(PoolRest) \in Nat
    BY TakenShape
  <2>2. QED  BY <1>1, <1>2, <2>1
<1>4. ASSUME NEW k \in 1..Len(Batch) PROVE FromQueue(Batch[k]) \/ FromThePool(Batch[k])
  <2>1. PICK j \in 1..Len(Taken) : Batch[k] = Taken[j]
    BY <1>2
  <2>2. QED  BY <2>1, TakenShape
<1>5. QED  BY <1>2, <1>3, <1>4

LEMMA HeldMeans ==
    ASSUME LoopTypeOK, NEW tx
    PROVE  Held(tx) <=> \/ \E k \in 1..Len(queue) : queue[k].tx = tx
                        \/ \E k \in 1..Len(pool) : pool[k] = tx
<1>1. tx \in ToSet(pool) <=> \E k \in 1..Len(pool) : pool[k] = tx
  BY Elements DEF LoopTypeOK
<1>2. /\ TxsOf(queue) \in Seq(Txs) /\ Len(TxsOf(queue)) = Len(queue)
      /\ \A k \in 1..Len(queue) : TxsOf(queue)[k] = queue[k].tx
  BY QueueIsEntries, TxsOfShape
<1>3. tx \in ToSet(TxsOf(queue)) <=> \E k \in 1..Len(queue) : queue[k].tx = tx
  BY <1>2, Elements
<1>4. QED  BY <1>1, <1>3 DEF Held

\* Where the transactions that are held go in an attempt.
LEMMA HeldSplits ==
    ASSUME LoopTypeOK, NEW tx, Held(tx)
    PROVE  \/ \E k \in 1..Len(QueueRest) : QueueRest[k].tx = tx
           \/ \E k \in 1..Len(PoolRest) : PoolRest[k] = tx
           \/ Shunned(tx)
           \/ \E k \in 1..Len(Batch) : Batch[k].tx = tx
<1>1. CASE \E k \in 1..Len(queue) : queue[k].tx = tx
  <2>1. PICK j \in 1..Len(queue) : queue[j].tx = tx
    BY <1>1
  <2>2. \/ \E k \in 1..Len(Taken) : Taken[k] = queue[j]
        \/ \E k \in 1..Len(QueueRest) : QueueRest[k] = queue[j]
    BY TakenShape
  <2>3. QED  BY <2>1, <2>2, BatchShape
<1>2. CASE \E k \in 1..Len(pool) : pool[k] = tx
  <2>1. PICK j \in 1..Len(pool) : pool[j] = tx
    BY <1>2
  <2>2. \/ \E k \in 1..Len(Taken) : Taken[k].tx = pool[j]
        \/ \E k \in 1..Len(PoolRest) : PoolRest[k] = pool[j]
    BY TakenShape
  <2>3. QED  BY <2>1, <2>2, BatchShape
<1>3. QED  BY <1>1, <1>2, HeldMeans

LEMMA BatchIsHeld ==
    ASSUME LoopTypeOK, NEW k \in 1..Len(Batch)
    PROVE  Held(Batch[k].tx)
BY BatchShape, HeldMeans DEF FromQueue, FromThePool

-----------------------------------------------------------------------------
(* The inductive invariant of the seal loop.                               *)

Covered(s, tx) ==
    /\ tx.type = "transfer" => s.bal[tx.from] >= tx.amount + tx.fee
    /\ tx.type = "stake" => s.bal[tx.from] >= tx.amount
    /\ tx.type = "export" => s.bal[tx.from] >= tx.amount + tx.fee
    /\ tx.type \in {"import", "policy"} => s.bal[tx.from] >= tx.fee

\* A transaction that waits was applicable once: it pays as long as its nonce stands.
Funded(s, tx) ==
    /\ tx.nonce <= s.nonce[tx.from]
    /\ tx.nonce = s.nonce[tx.from] => Covered(s, tx)

LEMMA AppliesFunded ==
    ASSUME NEW s, IsLedger(s), NEW tx, IsTransaction(tx), NEW h, NEW skip,
           ApplyTx(s, tx, h, skip) # {}
    PROVE  Funded(s, tx)
<1>1. PICK m : m \in ApplyTx(s, tx, h, skip)
  OBVIOUS
<1>2. /\ tx.nonce = s.nonce[tx.from] /\ m \in Body(s, tx, h, skip) /\ s = AsLedger(s)
      /\ s.nonce[tx.from] \in Nat /\ s.bal[tx.from] \in Nat
  BY <1>1 DEF ApplyTx, Admitted, IsLedger, IsTransaction
<1>3. ASSUME tx.type = "transfer" PROVE s.bal[tx.from] >= tx.amount + tx.fee
  BY <1>2, <1>3 DEF Body, Transfer
<1>4. ASSUME tx.type = "stake" PROVE s.bal[tx.from] >= tx.amount
  <2>1. ~(s.bal[tx.from] < tx.amount)
    BY <1>2, <1>4 DEF Body, Stake
  <2>2. tx.amount \in Nat
    BY <1>4 DEF IsTransaction
  <2>3. QED  BY <1>2, <2>1, <2>2
<1>5. ASSUME tx.type = "policy" PROVE s.bal[tx.from] >= tx.fee
  <2>1. ~(s.bal[tx.from] < tx.fee)
    BY <1>2, <1>5 DEF Body, PolicyBody
  <2>2. tx.fee \in Nat
    BY <1>5 DEF IsTransaction
  <2>3. QED  BY <1>2, <2>1, <2>2
<1>6. ASSUME tx.type = "export" PROVE s.bal[tx.from] >= tx.amount + tx.fee
  <2>1. ~(s.bal[tx.from] < tx.amount + tx.fee)
    BY <1>2, <1>6, ExportEffect DEF Body, ExportOutcome
  <2>2. tx.amount + tx.fee \in Nat
    BY <1>6 DEF IsTransaction
  <2>3. QED  BY <1>2, <2>1, <2>2
<1>7. ASSUME tx.type = "import" PROVE s.bal[tx.from] >= tx.fee
  BY <1>2, <1>7, ImportEffect DEF Body, ImportOutcome, ImportAllowed
<1>8. tx.nonce <= s.nonce[tx.from]
  BY <1>2
<1>9. QED  BY <1>3, <1>4, <1>5, <1>6, <1>7, <1>8 DEF Funded, Covered

LEMMA FundedStays ==
    ASSUME NEW s, IsLedger(s), NEW m, IsLedger(m), Later(s, m),
           NEW tx, IsTransaction(tx), Funded(s, tx)
    PROVE  Funded(m, tx)
<1> DEFINE a == tx.from
<1>1. /\ a \in Accounts /\ tx.nonce \in Nat
      /\ s.nonce[a] \in Nat /\ m.nonce[a] \in Nat /\ s.bal[a] \in Nat /\ m.bal[a] \in Nat
  BY DEF IsLedger, IsTransaction
<1>2. m.nonce[a] >= s.nonce[a] /\ (m.nonce[a] = s.nonce[a] => m.bal[a] >= s.bal[a])
  BY <1>1 DEF Later
<1>3. tx.nonce <= s.nonce[a] /\ (tx.nonce = s.nonce[a] => Covered(s, tx))
  BY DEF Funded
<1>4. tx.nonce <= m.nonce[a]
  BY <1>1, <1>2, <1>3
<1>5. ASSUME tx.nonce = m.nonce[a] PROVE Covered(m, tx)
  <2>1. tx.nonce = s.nonce[a] /\ m.nonce[a] = s.nonce[a]
    BY <1>1, <1>2, <1>3, <1>5
  <2>2. Covered(s, tx) /\ m.bal[a] >= s.bal[a]
    BY <1>2, <1>3, <2>1
  <2>3. ASSUME NEW x \in Nat, s.bal[a] >= x PROVE m.bal[a] >= x
    BY <1>1, <2>2, <2>3
  <2>4. /\ tx.type \in {"transfer", "export"} => tx.amount + tx.fee \in Nat
        /\ tx.type = "stake" => tx.amount \in Nat
        /\ tx.type \in {"import", "policy"} => tx.fee \in Nat
    BY DEF IsTransaction
  <2>5. QED  BY <2>2, <2>3, <2>4 DEF Covered
<1>6. QED  BY <1>4, <1>5 DEF Funded

HeldFunded == \A tx \in Txs : Held(tx) => Funded(l, tx)

QueueChecked ==
    \A k \in 1..Len(queue) : queue[k].at = height => PrecheckPasses(l, queue[k].tx, H)

LoopInv == LoopTypeOK /\ Finite(l) /\ FinalOK(l) /\ HeldFunded /\ QueueChecked

LEMMA InitLoopInv == LoopInit => LoopInv
<1> SUFFICES ASSUME LoopInit PROVE LoopInv
  OBVIOUS
<1>1. IsLedger(l) /\ l.fin = {} /\ l.pend = {} /\ DOMAIN l.locks = {}
  BY StartAssumption DEF LoopInit
<1>2. {BlockCap, QueueCap, PoolCap, MaxHeight, MaxArrivals} \subseteq Nat
  BY CapsAssumption
<1>3. MaxHeight \in Nat /\ MaxArrivals \in Nat /\ QueueCap \in Nat /\ NoHeight \in Nat
  BY <1>2 DEF NoHeight
<1>4. /\ height = 0 /\ queue = <<>> /\ pool = <<>> /\ arrived = 0
      /\ evicted.tip = 0 /\ evicted.txs = {}
      /\ accepted = [tx \in Txs |-> NoHeight] /\ blamed = {} /\ agrees = TRUE
  BY DEF LoopInit
<1>5. LoopTypeOK
  BY <1>1, <1>3, <1>4 DEF LoopTypeOK
<1>6. Finite(l) /\ FinalOK(l)
  BY <1>1, FS_EmptySet DEF Finite, FinalOK
<1>7. HeldFunded
  BY <1>4, <1>5, HeldMeans DEF HeldFunded
<1>8. QueueChecked
  BY <1>4 DEF QueueChecked
<1>9. QED  BY <1>5, <1>6, <1>7, <1>8 DEF LoopInv

LEMMA BatchChecked ==
    ASSUME LoopInv
    PROVE  /\ LoopTypeOK /\ IsLedger(l) /\ Finite(l) /\ FinalOK(l)
           /\ Batch \in Entries /\ Checked(l, Batch)
           /\ \A k \in 1..Len(Batch) : Funded(l, Batch[k].tx)
<1>1. LoopTypeOK /\ IsLedger(l) /\ Finite(l) /\ FinalOK(l)
  BY DEF LoopInv, LoopTypeOK
<1>2. Batch \in Entries /\ DOMAIN Batch = 1..Len(Batch)
  BY <1>1, BatchShape DEF Entries
<1>3. ASSUME NEW k \in 1..Len(Batch), Batch[k].at = height
      PROVE  PrecheckPasses(l, Batch[k].tx, H)
  <2>1. ~FromThePool(Batch[k])
    BY <1>1, <1>3, NoHeightType DEF FromThePool
  <2>2. PICK j \in 1..Len(queue) : Batch[k] = queue[j]
    BY <1>1, <2>1, BatchShape DEF FromQueue
  <2>3. QED  BY <1>3, <2>2 DEF LoopInv, QueueChecked
<1>4. ASSUME NEW k \in 1..Len(Batch) PROVE Funded(l, Batch[k].tx)
  <2>1. Batch[k].tx \in Txs
    BY <1>2, EntryAt
  <2>2. Held(Batch[k].tx)
    BY <1>1, BatchIsHeld
  <2>3. QED  BY <2>1, <2>2 DEF LoopInv, HeldFunded
<1>5. QED  BY <1>1, <1>2, <1>3, <1>4 DEF Checked

\* What a sealed block does to the ledger of the tip.
LEMMA AdvanceOutcome ==
    ASSUME LoopInv, NEW e \in Entries, Checked(l, e), Advance(e)
    PROVE  /\ Grown(l, l') /\ height' = height + 1 /\ height' \in 0..MaxHeight
           /\ agrees' \in BOOLEAN
           /\ ConservNeverRescues /\ Orderly(l) =>
                 Orderly(l') /\ RowsSpent(l, l') /\ \A j \in 1..Len(e) : Spent(l', e[j].tx)
<1>1. PICK s \in SealEntries(e) : l' = s /\ agrees' = (agrees /\ s \in Replayed(e))
  BY DEF Advance
<1>2. height < MaxHeight /\ height' = H /\ H \in Nat /\ height \in Nat /\ MaxHeight \in Nat
  BY NoHeightType DEF Advance, LoopInv
<1>3. height' = height + 1 /\ height' \in 0..MaxHeight
  BY <1>2 DEF H
<1>4. IsLedger(l) /\ Finite(l) /\ FinalOK(l)
  BY DEF LoopInv, LoopTypeOK
<1>5. QED  BY <1>1, <1>2, <1>3, <1>4, SealedGrown

LEMMA Wider ==
    ASSUME NEW m \in Nat, NEW n \in Nat, m <= n, NEW q \in Seq([tx : Txs, at : 0..m])
    PROVE  q \in Seq([tx : Txs, at : 0..n]) /\ \A k \in 1..Len(q) : q[k].at \in 0..m
<1> DEFINE S == [tx : Txs, at : 0..m]
           W == [tx : Txs, at : 0..n]
<1>1. S \subseteq W /\ \A x \in S : x.at \in 0..m
  OBVIOUS
<1>2. q \in Seq(S)
  OBVIOUS
<1> HIDE DEF S, W
<1>3. q \in [1..Len(q) -> S] /\ Len(q) \in Nat
  BY <1>2
<1>4. q \in [1..Len(q) -> W] /\ \A k \in 1..Len(q) : q[k] \in S
  BY <1>1, <1>3
<1>5. q \in Seq(W)
  BY <1>3, <1>4
<1>6. QED  BY <1>1, <1>4, <1>5 DEF W

HeldIn(q, p, tx) == \/ \E k \in 1..Len(q) : q[k].tx = tx
                    \/ \E k \in 1..Len(p) : p[k] = tx

\* HeldMeans for any queue and pool.
LEMMA QueuedOrPooled ==
    ASSUME NEW n \in Nat, NEW q \in Seq([tx : Txs, at : 0..n]), NEW p \in Seq(Txs), NEW tx
    PROVE  (tx \in ToSet(p) \/ tx \in ToSet(TxsOf(q))) <=> HeldIn(q, p, tx)
<1>1. tx \in ToSet(p) <=> \E k \in 1..Len(p) : p[k] = tx
  BY Elements
<1>2. q \in Entries
  <2> DEFINE S == [tx : Txs, at : 0..n]
             W == [tx : Txs, at : Nat]
  <2>1. S \subseteq W /\ q \in Seq(S)
    OBVIOUS
  <2> HIDE DEF S, W
  <2>2. q \in [1..Len(q) -> W] /\ Len(q) \in Nat
    BY <2>1
  <2>3. q \in Seq(W)
    BY <2>2
  <2>4. QED  BY <2>3 DEF W, Entries
<1>3. /\ TxsOf(q) \in Seq(Txs) /\ Len(TxsOf(q)) = Len(q)
      /\ \A k \in 1..Len(q) : TxsOf(q)[k] = q[k].tx
  BY <1>2, TxsOfShape
<1>4. tx \in ToSet(TxsOf(q)) <=> \E k \in 1..Len(q) : q[k].tx = tx
  BY <1>3, Elements
<1>5. QED  BY <1>1, <1>4 DEF HeldIn

-----------------------------------------------------------------------------
(* Arrivals.                                                               *)

\* What the two ways in have in common.
Arrives(tx) ==
    /\ l' = l /\ height' = height /\ evicted' = evicted /\ blamed' = blamed
    /\ agrees' = agrees
    /\ tx \in Txs /\ arrived < MaxArrivals /\ arrived' = arrived + 1
    /\ accepted' = [accepted EXCEPT ![tx] = height]
    /\ Funded(l, tx)
    /\ \/ /\ Len(queue) < QueueCap /\ PrecheckPasses(l, tx, H)
          /\ queue' = Append(queue, Entry(tx, height)) /\ pool' = pool
       \/ pool' = Append(pool, tx) /\ queue' = queue

LEMMA ArrivalOutcome ==
    ASSUME LoopInv, NEW tx \in Txs, ArriveHttp(tx) \/ ArriveGossip(tx)
    PROVE  Arrives(tx)
<1>1. IsLedger(l) /\ IsTransaction(tx)
  BY TxsAssumption DEF LoopInv, LoopTypeOK
<1>2. ApplyTx(l, tx, H, FALSE) # {}
  BY DEF ArriveHttp, ArriveGossip, PrecheckPasses
<1>3. Funded(l, tx)
  BY <1>1, <1>2, AppliesFunded
<1>4. Accept(tx)
  BY DEF ArriveHttp, ArriveGossip
<1>5. \/ /\ Len(queue) < QueueCap /\ PrecheckPasses(l, tx, H)
         /\ queue' = Append(queue, Entry(tx, height)) /\ pool' = pool
      \/ pool' = Append(pool, tx) /\ queue' = queue
  BY DEF ArriveHttp, ArriveGossip
<1>6. QED  BY <1>3, <1>4, <1>5 DEF Accept, Arrives

LEMMA ArrivalQueues ==
    ASSUME LoopInv, NEW tx, Arrives(tx)
    PROVE  /\ queue' \in Seq([tx : Txs, at : 0..height]) /\ Len(queue') <= QueueCap
           /\ pool' \in Seq(Txs) /\ Len(pool') + Len(queue') <= arrived'
           /\ \A t : Held(t)' <=> Held(t) \/ t = tx
           /\ QueueChecked'
<1> DEFINE S == [tx : Txs, at : 0..height]
<1>1. /\ LoopTypeOK /\ queue \in Seq(S) /\ pool \in Seq(Txs)
      /\ Len(queue) <= QueueCap /\ Len(pool) + Len(queue) <= arrived
      /\ arrived \in Nat /\ QueueCap \in Nat /\ height \in Nat
      /\ Len(queue) \in Nat /\ Len(pool) \in Nat
  BY NoHeightType DEF LoopInv, LoopTypeOK
<1>2. Entry(tx, height) \in S /\ tx \in Txs /\ Entry(tx, height).tx = tx /\ arrived' = arrived + 1
  BY <1>1 DEF Arrives, Entry
<1>3. l' = l /\ height' = height /\ H' = H
  BY DEF Arrives, H
<1> HIDE DEF S
<1>4. CASE /\ Len(queue) < QueueCap /\ PrecheckPasses(l, tx, H)
           /\ queue' = Append(queue, Entry(tx, height)) /\ pool' = pool
  <2>1. /\ queue' \in Seq(S) /\ Len(queue') = Len(queue) + 1
        /\ \A k \in 1..Len(queue) : queue'[k] = queue[k]
        /\ queue'[Len(queue) + 1] = Entry(tx, height)
    BY <1>1, <1>2, <1>4
  <2>2. Len(queue') <= QueueCap /\ Len(pool') + Len(queue') <= arrived'
    BY <1>1, <1>2, <1>4, <2>1
  <2>3. ASSUME NEW t
        PROVE  (\E k \in 1..Len(queue') : queue'[k].tx = t)
                 <=> (\E k \in 1..Len(queue) : queue[k].tx = t) \/ t = tx
    <3>1. \A k \in 1..Len(queue') : k \in 1..Len(queue) \/ k = Len(queue) + 1
      BY <1>1, <2>1
    <3>2. Len(queue) + 1 \in 1..Len(queue') /\ \A k \in 1..Len(queue) : k \in 1..Len(queue')
      BY <1>1, <2>1
    <3>3. QED  BY <1>2, <2>1, <3>1, <3>2
  <2>4. ASSUME NEW t PROVE Held(t)' <=> Held(t) \/ t = tx
    <3>1. Held(t) <=> \/ \E k \in 1..Len(queue) : queue[k].tx = t
                      \/ \E k \in 1..Len(pool) : pool[k] = t
      BY <1>1, HeldMeans
    <3>2. queue' \in Seq([tx : Txs, at : 0..height]) /\ pool' \in Seq(Txs)
      BY <1>1, <1>4, <2>1 DEF S
    <3>3. (t \in ToSet(pool') \/ t \in ToSet(TxsOf(queue'))) <=> HeldIn(queue', pool', t)
      BY <1>1, <3>2, QueuedOrPooled
    <3>4. Held(t)' <=> t \in ToSet(pool') \/ t \in ToSet(TxsOf(queue'))
      BY DEF Held, TxsOf, ToSet
    <3>5. QED  BY <1>4, <2>3, <3>1, <3>3, <3>4 DEF HeldIn
  <2>5. ASSUME NEW k \in 1..Len(queue'), queue'[k].at = height
        PROVE  PrecheckPasses(l, queue'[k].tx, H)
    <3>1. CASE k \in 1..Len(queue)
      BY <2>1, <2>5, <3>1 DEF LoopInv, QueueChecked
    <3>2. CASE k = Len(queue) + 1
      BY <1>2, <1>4, <2>1, <3>2
    <3>3. QED  BY <1>1, <2>1, <3>1, <3>2
  <2>6. QueueChecked'
    BY <1>3, <2>5 DEF QueueChecked
  <2>7. QED  BY <1>1, <1>4, <2>1, <2>2, <2>4, <2>6 DEF S
<1>5. CASE pool' = Append(pool, tx) /\ queue' = queue
  <2>1. /\ pool' \in Seq(Txs) /\ Len(pool') = Len(pool) + 1
        /\ \A k \in 1..Len(pool) : pool'[k] = pool[k]
        /\ pool'[Len(pool) + 1] = tx
    BY <1>1, <1>2, <1>5
  <2>2. Len(queue') <= QueueCap /\ Len(pool') + Len(queue') <= arrived'
    BY <1>1, <1>2, <1>5, <2>1
  <2>3. ASSUME NEW t
        PROVE  (\E k \in 1..Len(pool') : pool'[k] = t)
                 <=> (\E k \in 1..Len(pool) : pool[k] = t) \/ t = tx
    <3>1. \A k \in 1..Len(pool') : k \in 1..Len(pool) \/ k = Len(pool) + 1
      BY <1>1, <2>1
    <3>2. Len(pool) + 1 \in 1..Len(pool') /\ \A k \in 1..Len(pool) : k \in 1..Len(pool')
      BY <1>1, <2>1
    <3>3. QED  BY <2>1, <3>1, <3>2
  <2>4. ASSUME NEW t PROVE Held(t)' <=> Held(t) \/ t = tx
    <3>1. Held(t) <=> \/ \E k \in 1..Len(queue) : queue[k].tx = t
                      \/ \E k \in 1..Len(pool) : pool[k] = t
      BY <1>1, HeldMeans
    <3>2. queue' \in Seq([tx : Txs, at : 0..height]) /\ pool' \in Seq(Txs)
      BY <1>1, <1>5, <2>1 DEF S
    <3>3. (t \in ToSet(pool') \/ t \in ToSet(TxsOf(queue'))) <=> HeldIn(queue', pool', t)
      BY <1>1, <3>2, QueuedOrPooled
    <3>4. Held(t)' <=> t \in ToSet(pool') \/ t \in ToSet(TxsOf(queue'))
      BY DEF Held, TxsOf, ToSet
    <3>5. QED  BY <1>5, <2>3, <3>1, <3>3, <3>4 DEF HeldIn
  <2>5. QueueChecked'
    BY <1>3, <1>5 DEF LoopInv, QueueChecked
  <2>6. QED  BY <1>1, <1>5, <2>1, <2>2, <2>4, <2>5 DEF S
<1>6. QED  BY <1>4, <1>5 DEF Arrives

-----------------------------------------------------------------------------
(* What an attempt leaves in the queue and the pool.                       *)

LEMMA RequeueQueues ==
    ASSUME LoopInv, NEW txs \in Seq(Txs), Len(txs) <= Len(Batch),
           \A k \in 1..Len(txs) : Held(txs[k]),
           queue' = QueueRest, pool' = txs \o PoolRest
    PROVE  /\ queue' \in Seq([tx : Txs, at : 0..height]) /\ Len(queue') <= QueueCap
           /\ pool' \in Seq(Txs) /\ Len(pool') + Len(queue') <= arrived
           /\ \A t : Held(t)' => Held(t)
           /\ \A t : \/ \E k \in 1..Len(QueueRest) : QueueRest[k].tx = t
                     \/ \E k \in 1..Len(PoolRest) : PoolRest[k] = t
                     \/ \E k \in 1..Len(txs) : txs[k] = t
                     => Held(t)'
           /\ \A k \in 1..Len(queue') : FromQueue(queue'[k])
<1>1. /\ LoopTypeOK /\ Len(queue) <= QueueCap /\ Len(pool) + Len(queue) <= arrived
      /\ arrived \in Nat /\ QueueCap \in Nat /\ height \in Nat
      /\ Len(queue) \in Nat /\ Len(pool) \in Nat
  <2>1. LoopTypeOK
    BY DEF LoopInv
  <2>2. arrived \in Nat /\ QueueCap \in Nat /\ height \in Nat
    BY <2>1, NoHeightType DEF LoopTypeOK
  <2>3. Len(queue) \in Nat /\ Len(pool) \in Nat
    BY <2>1 DEF LoopTypeOK
  <2>4. Len(queue) <= QueueCap /\ Len(pool) + Len(queue) <= arrived
    BY <2>1 DEF LoopTypeOK
  <2>5. QED  BY <2>1, <2>2, <2>3, <2>4
<1>2. /\ Len(Batch) \in Nat
      /\ Len(Batch) + Len(QueueRest) + Len(PoolRest) <= Len(queue) + Len(pool)
  BY <1>1, BatchShape
<1>3. /\ QueueRest \in Seq([tx : Txs, at : 0..height]) /\ PoolRest \in Seq(Txs)
      /\ Len(QueueRest) \in Nat /\ Len(QueueRest) <= Len(queue) /\ Len(PoolRest) \in Nat
      /\ \A k \in 1..Len(QueueRest) : FromQueue(QueueRest[k])
      /\ \A k \in 1..Len(PoolRest) : \E j \in 1..Len(pool) : PoolRest[k] = pool[j]
  BY <1>1, TakenShape
<1>4. /\ pool' \in Seq(Txs) /\ Len(txs) \in Nat
      /\ Len(pool') = Len(txs) + Len(PoolRest)
      /\ \A k \in 1..Len(pool') :
            pool'[k] = IF k <= Len(txs) THEN txs[k] ELSE PoolRest[k - Len(txs)]
  BY <1>3, Joined
<1>5. Len(queue') <= QueueCap /\ Len(pool') + Len(queue') <= arrived
  <2>1. Len(queue') = Len(QueueRest)
    OBVIOUS
  <2>2. QED  BY <1>1, <1>2, <1>3, <1>4, <2>1
<1>6. ASSUME NEW t PROVE Held(t)' <=> HeldIn(QueueRest, pool', t)
  <2>1. (t \in ToSet(pool') \/ t \in ToSet(TxsOf(QueueRest))) <=> HeldIn(QueueRest, pool', t)
    BY <1>1, <1>3, <1>4, QueuedOrPooled
  <2>2. Held(t)' <=> t \in ToSet(pool') \/ t \in ToSet(TxsOf(QueueRest))
    BY DEF Held, TxsOf, ToSet
  <2>3. QED  BY <2>1, <2>2
<1>7. ASSUME NEW k \in 1..Len(pool') PROVE Held(pool'[k])
  <2>1. CASE k <= Len(txs)
    <3>1. k \in 1..Len(txs) /\ pool'[k] = txs[k]
      BY <1>4, <2>1
    <3>2. QED  BY <3>1
  <2>2. CASE ~(k <= Len(txs))
    <3>1. k - Len(txs) \in 1..Len(PoolRest) /\ pool'[k] = PoolRest[k - Len(txs)]
      BY <1>3, <1>4, <2>2
    <3>2. QED  BY <1>1, <1>3, <3>1, HeldMeans
  <2>3. QED  BY <2>1, <2>2
<1>8. ASSUME NEW k \in 1..Len(QueueRest) PROVE Held(QueueRest[k].tx)
  BY <1>1, <1>3, HeldMeans DEF FromQueue
<1>9. \A t : Held(t)' => Held(t)
  BY <1>6, <1>7, <1>8 DEF HeldIn
<1>10. ASSUME NEW k \in 1..Len(txs) PROVE \E n \in 1..Len(pool') : pool'[n] = txs[k]
  <2>1. k \in 1..Len(pool') /\ k <= Len(txs)
    BY <1>3, <1>4
  <2>2. QED  BY <1>4, <2>1
<1>11. ASSUME NEW k \in 1..Len(PoolRest) PROVE \E n \in 1..Len(pool') : pool'[n] = PoolRest[k]
  <2>1. /\ k + Len(txs) \in 1..Len(pool') /\ ~(k + Len(txs) <= Len(txs))
        /\ (k + Len(txs)) - Len(txs) = k
    BY <1>3, <1>4
  <2>2. pool'[k + Len(txs)] = PoolRest[k]
    BY <1>4, <2>1
  <2>3. QED  BY <2>1, <2>2
<1>12. ASSUME NEW t, \/ \E k \in 1..Len(QueueRest) : QueueRest[k].tx = t
                     \/ \E k \in 1..Len(PoolRest) : PoolRest[k] = t
                     \/ \E k \in 1..Len(txs) : txs[k] = t
       PROVE  Held(t)'
  <2>1. HeldIn(QueueRest, pool', t)
    <3>1. CASE \E k \in 1..Len(QueueRest) : QueueRest[k].tx = t
      BY <3>1 DEF HeldIn
    <3>2. CASE \E k \in 1..Len(PoolRest) : PoolRest[k] = t
      BY <1>11, <3>2 DEF HeldIn
    <3>3. CASE \E k \in 1..Len(txs) : txs[k] = t
      BY <1>10, <3>3 DEF HeldIn
    <3>4. QED  BY <1>12, <3>1, <3>2, <3>3
  <2>2. QED  BY <1>6, <2>1
<1>13. QED  BY <1>3, <1>4, <1>5, <1>9, <1>12

\* What goes back to the pool after an eviction.
LEMMA KeptShape ==
    ASSUME NEW txs \in Seq(Txs), NEW i, NEW stale
    PROVE  /\ Kept(txs, i, stale) \in Seq(Txs) /\ Len(Kept(txs, i, stale)) <= Len(txs)
           /\ \A n \in 1..Len(Kept(txs, i, stale)) :
                 \E k \in 1..Len(txs) : Kept(txs, i, stale)[n] = txs[k]
           /\ \A k \in 1..Len(txs) :
                 txs[k] # txs[i] /\ txs[k] \notin stale =>
                    \E n \in 1..Len(Kept(txs, i, stale)) : Kept(txs, i, stale)[n] = txs[k]
<1> DEFINE K == {k \in DOMAIN txs : txs[k] # txs[i] /\ txs[k] \notin stale}
           e == AtPositions(txs, K)
<1>1. K \in SUBSET (1..Len(txs)) /\ Kept(txs, i, stale) = e
  BY DEF Kept
<1>2. \A k \in 1..Len(txs) : txs[k] # txs[i] /\ txs[k] \notin stale => k \in K
  OBVIOUS
<1>3. /\ e \in Seq(Txs) /\ Len(e) = Cardinality(K) /\ Cardinality(K) <= Len(txs)
      /\ \A n \in 1..Cardinality(K) : \E k \in K : e[n] = txs[k]
      /\ \A k \in K : \E n \in 1..Cardinality(K) : e[n] = txs[k]
  <2> HIDE DEF K
  <2>1. QED  BY <1>1, Positions
<1> HIDE DEF K, e
<1>4. QED  BY <1>1, <1>2, <1>3

-----------------------------------------------------------------------------
(* The steps of the loop.                                                  *)

\* A block of the entries e is sealed, by the loop or by somebody else.
Seals(e) ==
    /\ e \in Entries /\ Checked(l, e) /\ Advance(e)
    /\ arrived' = arrived /\ accepted' = accepted /\ blamed' = blamed
    /\ \/ queue' = queue /\ pool' = pool /\ evicted' = evicted
          /\ \E txs \in Seq(Txs) : e = Raw(txs)
       \/ /\ e = Batch /\ queue' = QueueRest /\ pool' = PoolRest
          /\ evicted' = [tip |-> H, txs |-> {}]

\* The attempt failed: txs go back to the pool.
Requeues(txs) ==
    /\ txs \in Seq(Txs) /\ Len(txs) <= Len(Batch)
    /\ \A n \in 1..Len(txs) : \E k \in 1..Len(Batch) : txs[n] = Batch[k].tx
    /\ l' = l /\ height' = height /\ arrived' = arrived /\ accepted' = accepted
    /\ agrees' = agrees
    /\ queue' = QueueRest /\ pool' = txs \o PoolRest

\* The transaction in position i of the batch is evicted, others of its sender with it.
Evicts(i, txs) ==
    /\ i \in 1..Len(Batch)
    /\ \E stale \in SUBSET {Batch[k].tx : k \in 1..Len(Batch)} :
          /\ \A t \in stale : t.from = Batch[i].tx.from
          /\ evicted'.tip = height
          /\ evicted'.txs = {Batch[i].tx} \cup stale
                              \cup IF evicted.tip = height THEN evicted.txs ELSE {}
          /\ blamed' = blamed \cup {[tx |-> Batch[i].tx, at |-> height]}
          /\ \A k \in 1..Len(Batch) : \/ Batch[k].tx = Batch[i].tx \/ Batch[k].tx \in stale
                                      \/ \E n \in 1..Len(txs) : txs[n] = Batch[k].tx

AllBack(txs) ==
    /\ evicted' = evicted /\ blamed' = blamed
    /\ \A k \in 1..Len(Batch) : \E n \in 1..Len(txs) : txs[n] = Batch[k].tx

StepOfLoop ==
    \/ \E tx \in Txs : Arrives(tx)
    \/ \E e : Seals(e)
    \/ \E txs : Requeues(txs) /\ (AllBack(txs) \/ \E i : Evicts(i, txs))

LEMMA BatchTxs ==
    ASSUME LoopTypeOK
    PROVE  /\ TxsOf(Batch) \in Seq(Txs) /\ Len(TxsOf(Batch)) = Len(Batch) /\ Len(Batch) \in Nat
           /\ DOMAIN TxsOf(Batch) = 1..Len(Batch)
           /\ \A k \in 1..Len(Batch) : TxsOf(Batch)[k] = Batch[k].tx
<1>1. Batch \in Entries
  BY BatchShape
<1>2. /\ TxsOf(Batch) \in Seq(Txs) /\ Len(TxsOf(Batch)) = Len(Batch) /\ Len(Batch) \in Nat
      /\ \A k \in 1..Len(Batch) : TxsOf(Batch)[k] = Batch[k].tx
  BY <1>1, TxsOfShape
<1>3. QED  BY <1>2

LEMMA EvictCase ==
    ASSUME LoopInv, EvictBad(Batch)
    PROVE  \E txs : Requeues(txs) /\ \E i : Evicts(i, txs)
<1> DEFINE txs == TxsOf(Batch)
<1>1. LoopTypeOK
  BY DEF LoopInv
<1>2. /\ txs \in Seq(Txs) /\ Len(txs) = Len(Batch) /\ Len(Batch) \in Nat
      /\ DOMAIN txs = 1..Len(Batch) /\ \A k \in 1..Len(Batch) : txs[k] = Batch[k].tx
  BY <1>1, BatchTxs
<1>3. PICK i \in FirstBad(txs) :
         /\ evicted' = [tip |-> height,
                        txs |-> {txs[i]} \cup Stale(txs, i)
                                \cup IF evicted.tip = height THEN evicted.txs ELSE {}]
         /\ blamed' = blamed \cup
               {[tx |-> t, at |-> height] : t \in {txs[i]} \ ToSet(Upto(txs, i - 1))}
         /\ Requeue(Kept(txs, i, Stale(txs, i)))
  BY DEF EvictBad
<1>4. i \in 1..Len(Batch) /\ i \in Nat /\ i - 1 \in 0..Len(Batch)
  BY <1>2, <1>3 DEF FirstBad
<1> DEFINE back == Kept(txs, i, Stale(txs, i))
           stale == Stale(txs, i)
<1>5. stale \in SUBSET {Batch[k].tx : k \in 1..Len(Batch)} /\ \A t \in stale : t.from = Batch[i].tx.from
  <2>1. \A t \in stale : t.from = txs[i].from
    BY DEF Stale
  <2>2. ASSUME NEW t \in stale PROVE \E k \in 1..Len(Batch) : t = Batch[k].tx
    <3>1. PICK k \in (i + 1)..Len(txs) : t = txs[k]
      BY DEF Stale
    <3>2. k \in 1..Len(Batch)
      BY <1>2, <1>4
    <3>3. QED  BY <1>2, <3>1, <3>2
  <2>3. QED  BY <1>2, <1>4, <2>1, <2>2
<1> HIDE DEF txs, stale
<1>6. /\ back \in Seq(Txs) /\ Len(back) <= Len(txs)
      /\ \A n \in 1..Len(back) : \E k \in 1..Len(txs) : back[n] = txs[k]
      /\ \A k \in 1..Len(txs) :
            txs[k] # txs[i] /\ txs[k] \notin stale => \E n \in 1..Len(back) : back[n] = txs[k]
  <2>1. back = Kept(txs, i, stale)
    BY DEF stale
  <2> HIDE DEF back
  <2>2. txs \in Seq(Txs)
    BY <1>2
  <2>3. /\ Kept(txs, i, stale) \in Seq(Txs) /\ Len(Kept(txs, i, stale)) <= Len(txs)
        /\ \A n \in 1..Len(Kept(txs, i, stale)) :
              \E k \in 1..Len(txs) : Kept(txs, i, stale)[n] = txs[k]
        /\ \A k \in 1..Len(txs) :
              txs[k] # txs[i] /\ txs[k] \notin stale =>
                 \E n \in 1..Len(Kept(txs, i, stale)) : Kept(txs, i, stale)[n] = txs[k]
    BY <2>2, KeptShape
  <2>4. QED  BY <2>1, <2>3
<1>7. {txs[i]} \ ToSet(Upto(txs, i - 1)) = {txs[i]}
  <2>1. ASSUME txs[i] \in ToSet(Upto(txs, i - 1)) PROVE FALSE
    <3>1. /\ Upto(txs, i - 1) \in Seq(Txs) /\ Len(Upto(txs, i - 1)) = i - 1
          /\ \A j \in 1..(i - 1) : Upto(txs, i - 1)[j] = txs[j]
      BY <1>2, <1>4, UptoShape
    <3>2. PICK j \in 1..(i - 1) : txs[i] = txs[j]
      BY <2>1, <3>1, Elements
    <3>3. j \in 1..Len(Batch) /\ j # i
      BY <1>4
    <3>4. QED  BY <1>1, <1>2, <1>4, <3>2, <3>3, BatchShape
  <2>2. QED  BY <2>1
<1>8. /\ l' = l /\ height' = height /\ arrived' = arrived /\ accepted' = accepted
      /\ agrees' = agrees /\ queue' = QueueRest /\ pool' = back \o PoolRest
  BY <1>3 DEF Requeue
<1> HIDE DEF back
<1>9. Requeues(back)
  <2>1. ASSUME NEW n \in 1..Len(back)
        PROVE  \E k \in 1..Len(Batch) : back[n] = Batch[k].tx
    <3>1. PICK k \in 1..Len(txs) : back[n] = txs[k]
      BY <1>6
    <3>2. k \in 1..Len(Batch) /\ txs[k] = Batch[k].tx
      BY <1>2
    <3>3. QED  BY <3>1, <3>2
  <2>2. Len(back) <= Len(Batch)
    BY <1>2, <1>6
  <2>3. QED  BY <1>6, <1>8, <2>1, <2>2 DEF Requeues
<1>10. Evicts(i, back)
  <2>1. /\ evicted'.tip = height
        /\ evicted'.txs = {Batch[i].tx} \cup stale
                            \cup IF evicted.tip = height THEN evicted.txs ELSE {}
    BY <1>2, <1>3, <1>4 DEF stale
  <2>2. blamed' = blamed \cup {[tx |-> Batch[i].tx, at |-> height]}
    BY <1>2, <1>3, <1>4, <1>7
  <2>3. \A k \in 1..Len(Batch) : \/ Batch[k].tx = Batch[i].tx \/ Batch[k].tx \in stale
                                 \/ \E n \in 1..Len(back) : back[n] = Batch[k].tx
    BY <1>2, <1>4, <1>6
  <2>4. QED  BY <1>4, <1>5, <2>1, <2>2, <2>3 DEF Evicts
<1>11. QED  BY <1>9, <1>10

LEMMA LoopSteps ==
    ASSUME LoopInv, LoopNext
    PROVE  StepOfLoop
<1>1. LoopTypeOK /\ Batch \in Entries /\ Checked(l, Batch)
  BY BatchChecked
<1>2. ASSUME NEW tx \in Txs, ArriveHttp(tx) \/ ArriveGossip(tx) PROVE StepOfLoop
  BY <1>2, ArrivalOutcome DEF StepOfLoop
<1>3. ASSUME NEW txs \in Seq(Txs), Advance(Raw(txs)),
             UNCHANGED <<queue, pool, evicted, arrived, accepted, blamed>>
      PROVE  StepOfLoop
  <2>1. Raw(txs) \in Entries /\ Checked(l, Raw(txs))
    BY <1>1, RawShape
  <2>2. Seals(Raw(txs))
    BY <1>3, <2>1 DEF Seals
  <2>3. QED  BY <2>2 DEF StepOfLoop
<1>4. ASSUME NEW tx \in Txs, HttpSeal(tx) \/ SyncBlock(<<tx>>) PROVE StepOfLoop
  <2>1. <<tx>> \in Seq(Txs)
    OBVIOUS
  <2>2. QED  BY <1>3, <1>4, <2>1 DEF HttpSeal, SyncBlock
<1>5. CASE SyncBlock(<<>>)
  <2>1. <<>> \in Seq(Txs)
    OBVIOUS
  <2>2. QED  BY <1>3, <1>5, <2>1 DEF SyncBlock
<1>6. CASE SealBatch(Batch)
  <2>1. Seals(Batch)
    BY <1>1, <1>6 DEF SealBatch, Seals
  <2>2. QED  BY <2>1 DEF StepOfLoop
<1>7. CASE EvictBad(Batch)
  BY <1>7, EvictCase DEF StepOfLoop
<1>8. CASE RequeueAll(Batch)
  <2> DEFINE txs == TxsOf(Batch)
  <2>1. /\ txs \in Seq(Txs) /\ Len(txs) = Len(Batch) /\ Len(Batch) \in Nat
        /\ \A k \in 1..Len(Batch) : txs[k] = Batch[k].tx
    BY <1>1, BatchTxs
  <2>2. Requeue(txs) /\ evicted' = evicted /\ blamed' = blamed
    BY <1>8 DEF RequeueAll
  <2> HIDE DEF txs
  <2>3. Requeues(txs)
    BY <2>1, <2>2 DEF Requeue, Requeues
  <2>4. AllBack(txs)
    BY <2>1, <2>2 DEF AllBack
  <2>5. QED  BY <2>3, <2>4 DEF StepOfLoop
<1>9. QED  BY <1>2, <1>4, <1>5, <1>6, <1>7, <1>8 DEF LoopNext, Attempt

LEMMA SealsOutcome ==
    ASSUME LoopInv, NEW e, Seals(e)
    PROVE  /\ Grown(l, l') /\ height' = height + 1 /\ height' \in 0..MaxHeight
           /\ agrees' \in BOOLEAN
           /\ ConservNeverRescues /\ Orderly(l) =>
                 Orderly(l') /\ RowsSpent(l, l') /\ \A j \in 1..Len(e) : Spent(l', e[j].tx)
BY AdvanceOutcome DEF Seals

\* Nothing is taken up by the queue or the pool when a block is sealed.
LEMMA SealsQueues ==
    ASSUME LoopInv, NEW e, Seals(e)
    PROVE  /\ queue' \in Seq([tx : Txs, at : 0..height]) /\ Len(queue') <= QueueCap
           /\ pool' \in Seq(Txs) /\ Len(pool') + Len(queue') <= arrived
           /\ \A t : Held(t)' => Held(t)
           /\ \A t : Held(t) =>
                 Held(t)' \/ (e = Batch /\ (Shunned(t) \/ \E k \in 1..Len(e) : e[k].tx = t))
<1>1. LoopTypeOK
  BY DEF LoopInv
<1>2. CASE queue' = queue /\ pool' = pool
  BY <1>1, <1>2 DEF LoopTypeOK, Held, TxsOf, ToSet
<1>3. CASE e = Batch /\ queue' = QueueRest /\ pool' = PoolRest
  <2> DEFINE none == <<>>
  <2>1. none \in Seq(Txs) /\ Len(none) = 0
    OBVIOUS
  <2>2. none \o PoolRest = PoolRest
    BY <1>1, TakenShape
  <2>3. Len(Batch) \in Nat
    BY <1>1, BatchShape
  <2> HIDE DEF none
  <2>4. /\ Len(none) <= Len(Batch) /\ \A k \in 1..Len(none) : Held(none[k])
        /\ queue' = QueueRest /\ pool' = none \o PoolRest
    BY <1>3, <2>1, <2>2, <2>3
  <2>5. /\ queue' \in Seq([tx : Txs, at : 0..height]) /\ Len(queue') <= QueueCap
        /\ pool' \in Seq(Txs) /\ Len(pool') + Len(queue') <= arrived
        /\ \A t : Held(t)' => Held(t)
        /\ \A t : \/ \E k \in 1..Len(QueueRest) : QueueRest[k].tx = t
                  \/ \E k \in 1..Len(PoolRest) : PoolRest[k] = t
                  \/ \E k \in 1..Len(none) : none[k] = t
                  => Held(t)'
    BY <2>1, <2>4, RequeueQueues
  <2>6. ASSUME NEW t, Held(t)
        PROVE  Held(t)' \/ Shunned(t) \/ \E k \in 1..Len(e) : e[k].tx = t
    BY <1>1, <1>3, <2>5, <2>6, HeldSplits
  <2>7. QED  BY <1>3, <2>5, <2>6
<1>4. QED  BY <1>2, <1>3 DEF Seals

LEMMA RequeuesQueues ==
    ASSUME LoopInv, NEW txs, Requeues(txs)
    PROVE  /\ queue' \in Seq([tx : Txs, at : 0..height]) /\ Len(queue') <= QueueCap
           /\ pool' \in Seq(Txs) /\ Len(pool') + Len(queue') <= arrived
           /\ \A t : Held(t)' => Held(t)
           /\ \A t : Held(t) =>
                 Held(t)' \/ Shunned(t) \/ \E k \in 1..Len(Batch) : Batch[k].tx = t
           /\ \A k \in 1..Len(txs) : Held(txs[k])'
           /\ \A k \in 1..Len(queue') : FromQueue(queue'[k])
<1>1. LoopTypeOK
  BY DEF LoopInv
<1>2. /\ txs \in Seq(Txs) /\ Len(txs) <= Len(Batch)
      /\ queue' = QueueRest /\ pool' = txs \o PoolRest
  BY DEF Requeues
<1>3. ASSUME NEW n \in 1..Len(txs) PROVE Held(txs[n])
  <2>1. PICK k \in 1..Len(Batch) : txs[n] = Batch[k].tx
    BY DEF Requeues
  <2>2. QED  BY <1>1, <2>1, BatchIsHeld
<1>4. /\ queue' \in Seq([tx : Txs, at : 0..height]) /\ Len(queue') <= QueueCap
      /\ pool' \in Seq(Txs) /\ Len(pool') + Len(queue') <= arrived
      /\ \A t : Held(t)' => Held(t)
      /\ \A t : \/ \E k \in 1..Len(QueueRest) : QueueRest[k].tx = t
                \/ \E k \in 1..Len(PoolRest) : PoolRest[k] = t
                \/ \E k \in 1..Len(txs) : txs[k] = t
                => Held(t)'
      /\ \A k \in 1..Len(queue') : FromQueue(queue'[k])
  BY <1>2, <1>3, RequeueQueues
<1>5. ASSUME NEW t, Held(t)
      PROVE  Held(t)' \/ Shunned(t) \/ \E k \in 1..Len(Batch) : Batch[k].tx = t
  BY <1>1, <1>4, <1>5, HeldSplits
<1>6. QED  BY <1>4, <1>5

LEMMA ArrivesInv ==
    ASSUME LoopInv, NEW tx, Arrives(tx)
    PROVE  LoopInv'
<1>1. /\ l' = l /\ height' = height /\ evicted' = evicted /\ blamed' = blamed
      /\ agrees' = agrees /\ tx \in Txs /\ arrived < MaxArrivals /\ arrived' = arrived + 1
      /\ accepted' = [accepted EXCEPT ![tx] = height] /\ Funded(l, tx)
  BY DEF Arrives
<1>2. /\ queue' \in Seq([tx : Txs, at : 0..height]) /\ Len(queue') <= QueueCap
      /\ pool' \in Seq(Txs) /\ Len(pool') + Len(queue') <= arrived'
      /\ \A t : Held(t)' <=> Held(t) \/ t = tx
      /\ QueueChecked'
  BY ArrivalQueues
<1>3. LoopTypeOK
  BY DEF LoopInv
<1>4. arrived' \in 0..MaxArrivals /\ accepted' \in [Txs -> 0..NoHeight]
  <2>1. height \in 0..NoHeight
    BY <1>3, NoHeightType DEF LoopTypeOK, NoHeight
  <2>2. arrived' \in 0..MaxArrivals
    <3>1. arrived \in 0..MaxArrivals /\ MaxArrivals \in Nat
      BY <1>3, NoHeightType DEF LoopTypeOK
    <3>2. QED  BY <1>1, <3>1
  <2>3. QED  BY <1>1, <1>3, <2>1, <2>2 DEF LoopTypeOK
<1>5. LoopTypeOK'
  BY <1>1, <1>2, <1>3, <1>4 DEF LoopTypeOK, NoHeight
<1>6. Finite(l') /\ FinalOK(l')
  BY <1>1 DEF LoopInv
<1>7. HeldFunded'
  BY <1>1, <1>2 DEF LoopInv, HeldFunded
<1>8. QED  BY <1>2, <1>5, <1>6, <1>7 DEF LoopInv

LEMMA SealsInv ==
    ASSUME LoopInv, NEW e, Seals(e)
    PROVE  LoopInv'
<1>1. /\ Grown(l, l') /\ height' = height + 1 /\ height' \in 0..MaxHeight
      /\ agrees' \in BOOLEAN
  BY SealsOutcome
<1>2. /\ queue' \in Seq([tx : Txs, at : 0..height]) /\ Len(queue') <= QueueCap
      /\ pool' \in Seq(Txs) /\ Len(pool') + Len(queue') <= arrived
      /\ \A t : Held(t)' => Held(t)
  BY SealsQueues
<1>3. LoopTypeOK /\ IsLedger(l) /\ height \in Nat /\ H = height + 1
  BY NoHeightType DEF LoopInv, LoopTypeOK, H
<1>4. IsLedger(l') /\ Finite(l') /\ FinalOK(l') /\ Later(l, l')
  BY <1>1 DEF Grown
<1>5. height' \in Nat /\ height <= height'
  BY <1>1, <1>3
<1>6. /\ queue' \in Seq([tx : Txs, at : 0..height'])
      /\ \A k \in 1..Len(queue') : queue'[k].at \in 0..height
  BY <1>2, <1>3, <1>5, Wider
<1>7. evicted'.tip \in 0..height' /\ evicted'.txs \subseteq Txs
  <2>1. CASE evicted' = evicted
    BY <1>3, <1>5, <2>1 DEF LoopTypeOK
  <2>2. CASE evicted' = [tip |-> H, txs |-> {}]
    BY <1>1, <1>3, <1>5, <2>2
  <2>3. QED  BY <2>1, <2>2 DEF Seals
<1>8. blamed' \subseteq [tx : Txs, at : 0..height']
  <2>1. blamed' = blamed /\ blamed \subseteq [tx : Txs, at : 0..height]
    BY <1>3 DEF Seals, LoopTypeOK
  <2>2. [tx : Txs, at : 0..height] \subseteq [tx : Txs, at : 0..height']
    BY <1>1, <1>3
  <2>3. QED  BY <2>1, <2>2
<1>9. arrived' = arrived /\ accepted' = accepted
  BY DEF Seals
<1>10. LoopTypeOK'
  BY <1>1, <1>2, <1>3, <1>4, <1>6, <1>7, <1>8, <1>9 DEF LoopTypeOK, NoHeight
<1>11. HeldFunded'
  <2>1. ASSUME NEW t \in Txs, Held(t)' PROVE Funded(l', t)
    <3>1. Funded(l, t)
      BY <1>2, <2>1 DEF LoopInv, HeldFunded
    <3>2. IsTransaction(t)
      BY TxsAssumption
    <3>3. QED  BY <1>3, <1>4, <3>1, <3>2, FundedStays
  <2>2. QED  BY <2>1 DEF HeldFunded
<1>12. QueueChecked'
  <2>1. \A k \in 1..Len(queue') : queue'[k].at # height'
    BY <1>1, <1>3, <1>6
  <2>2. QED  BY <2>1 DEF QueueChecked
<1>13. QED  BY <1>4, <1>10, <1>11, <1>12 DEF LoopInv

LEMMA RequeuesInv ==
    ASSUME LoopInv, NEW txs, Requeues(txs), AllBack(txs) \/ \E i : Evicts(i, txs)
    PROVE  LoopInv'
<1>1. /\ l' = l /\ height' = height /\ arrived' = arrived /\ accepted' = accepted
      /\ agrees' = agrees
  BY DEF Requeues
<1>2. /\ queue' \in Seq([tx : Txs, at : 0..height]) /\ Len(queue') <= QueueCap
      /\ pool' \in Seq(Txs) /\ Len(pool') + Len(queue') <= arrived
      /\ \A t : Held(t)' => Held(t)
      /\ \A k \in 1..Len(queue') : FromQueue(queue'[k])
  BY RequeuesQueues
<1>3. LoopTypeOK /\ height \in 0..MaxHeight /\ height \in 0..height
  <2>1. LoopTypeOK /\ height \in 0..MaxHeight
    BY DEF LoopInv, LoopTypeOK
  <2>2. QED  BY <2>1, NoHeightType
<1>4. /\ evicted'.tip \in 0..height /\ evicted'.txs \subseteq Txs
      /\ blamed' \subseteq [tx : Txs, at : 0..height]
  <2>1. CASE AllBack(txs)
    BY <1>3, <2>1 DEF AllBack, LoopTypeOK
  <2>2. ASSUME NEW i, Evicts(i, txs)
        PROVE  /\ evicted'.tip \in 0..height /\ evicted'.txs \subseteq Txs
               /\ blamed' \subseteq [tx : Txs, at : 0..height]
    <3>1. Batch \in Entries
      BY <1>3, BatchShape
    <3>2. \A k \in 1..Len(Batch) : Batch[k].tx \in Txs
      BY <3>1, EntryAt
    <3>3. Batch[i].tx \in Txs /\ [tx |-> Batch[i].tx, at |-> height] \in [tx : Txs, at : 0..height]
      BY <1>3, <2>2, <3>2 DEF Evicts
    <3>4. PICK stale \in SUBSET {Batch[k].tx : k \in 1..Len(Batch)} :
             /\ evicted'.tip = height
             /\ evicted'.txs = {Batch[i].tx} \cup stale
                                 \cup IF evicted.tip = height THEN evicted.txs ELSE {}
             /\ blamed' = blamed \cup {[tx |-> Batch[i].tx, at |-> height]}
      BY <2>2 DEF Evicts
    <3>5. stale \subseteq Txs
      BY <3>2
    <3>6. QED  BY <1>3, <3>3, <3>4, <3>5 DEF LoopTypeOK
  <2>3. QED  BY <2>1, <2>2
<1>5. LoopTypeOK'
  BY <1>1, <1>2, <1>3, <1>4 DEF LoopTypeOK, NoHeight
<1>6. HeldFunded'
  BY <1>1, <1>2 DEF LoopInv, HeldFunded
<1>7. QueueChecked'
  BY <1>1, <1>2 DEF LoopInv, QueueChecked, FromQueue, H
<1>8. Finite(l') /\ FinalOK(l')
  BY <1>1 DEF LoopInv
<1>9. QED  BY <1>5, <1>6, <1>7, <1>8 DEF LoopInv

LEMMA NextLoopInv == LoopInv /\ [LoopNext]_loopVars => LoopInv'
<1>1. ASSUME LoopInv, LoopNext PROVE LoopInv'
  BY <1>1, LoopSteps, ArrivesInv, SealsInv, RequeuesInv DEF StepOfLoop
<1>2. ASSUME LoopInv, UNCHANGED loopVars PROVE LoopInv'
  <2>1. /\ l' = l /\ height' = height /\ queue' = queue /\ pool' = pool /\ evicted' = evicted
        /\ arrived' = arrived /\ accepted' = accepted /\ blamed' = blamed /\ agrees' = agrees
    BY <1>2 DEF loopVars
  <2>2. LoopTypeOK'
    BY <1>2, <2>1 DEF LoopInv, LoopTypeOK, NoHeight
  <2>3. HeldFunded' /\ QueueChecked'
    BY <1>2, <2>1 DEF LoopInv, HeldFunded, QueueChecked, Held, TxsOf, ToSet, H
  <2>4. QED  BY <1>2, <2>1, <2>2, <2>3 DEF LoopInv
<1>3. QED  BY <1>1, <1>2

\* The ledger, the queue and the pool of the seal loop stay well formed.
THEOREM LoopTypeCorrect == LoopSpec => []LoopTypeOK
<1>1. LoopSpec => []LoopInv
  BY InitLoopInv, NextLoopInv, PTL DEF LoopSpec
<1>2. LoopInv => LoopTypeOK
  BY DEF LoopInv
<1>3. QED  BY <1>1, <1>2, PTL

-----------------------------------------------------------------------------
(* Whose fault it is that a transaction is gone.                           *)

\* An eviction of the sender's since the transaction was accepted.
BlamedIn(b, tx, h) == \E x \in b : x.tx.from = tx.from /\ x.at >= h

Settled(tx) ==
    accepted[tx] # NoHeight =>
        /\ accepted[tx] <= height
        /\ Held(tx) \/ Spent(l, tx) \/ BlamedIn(blamed, tx, accepted[tx])

EvictedBlamed ==
    \A t \in evicted.txs : \E x \in blamed : x.tx.from = t.from /\ x.at = evicted.tip

BlameInv == LoopInv /\ Orderly(l) /\ (\A tx \in Txs : Settled(tx)) /\ EvictedBlamed

LEMMA InitBlameInv == ConservNeverRescues /\ LoopInit => BlameInv
<1> SUFFICES ASSUME ConservNeverRescues, LoopInit PROVE BlameInv
  OBVIOUS
<1>1. /\ l = Start /\ accepted = [tx \in Txs |-> NoHeight] /\ evicted.txs = {}
      /\ l.pend = {}
  BY StartAssumption DEF LoopInit
<1>2. Orderly(l)
  BY <1>1 DEF Orderly, NoWayBack, RescuesApart, ConservNeverRescues
<1>3. (\A tx \in Txs : Settled(tx)) /\ EvictedBlamed
  BY <1>1 DEF Settled, EvictedBlamed
<1>4. QED  BY <1>2, <1>3, InitLoopInv DEF BlameInv

LEMMA ShunnedBlamed ==
    ASSUME BlameInv, NEW tx \in Txs, Shunned(tx), accepted[tx] # NoHeight
    PROVE  BlamedIn(blamed, tx, accepted[tx])
<1>1. PICK x \in blamed : x.tx.from = tx.from /\ x.at = height
  BY DEF BlameInv, EvictedBlamed, Shunned
<1>2. accepted[tx] <= height
  BY DEF BlameInv, Settled
<1>3. accepted[tx] \in Nat /\ height \in Nat
  BY NoHeightType DEF BlameInv, LoopInv, LoopTypeOK
<1>4. x.at >= accepted[tx]
  BY <1>1, <1>2, <1>3
<1>5. QED  BY <1>1, <1>4 DEF BlamedIn

LEMMA BlameGrows ==
    ASSUME NEW b, NEW c, b \subseteq c, NEW tx, NEW h, BlamedIn(b, tx, h)
    PROVE  BlamedIn(c, tx, h)
BY DEF BlamedIn

LEMMA ArrivesBlame ==
    ASSUME BlameInv, NEW t, Arrives(t)
    PROVE  (\A tx \in Txs : Settled(tx)') /\ EvictedBlamed' /\ Orderly(l')
<1>1. /\ l' = l /\ height' = height /\ evicted' = evicted /\ blamed' = blamed
      /\ t \in Txs /\ accepted' = [accepted EXCEPT ![t] = height]
  BY DEF Arrives
<1>2. LoopInv /\ accepted \in [Txs -> 0..NoHeight] /\ height \in Nat
  BY NoHeightType DEF BlameInv, LoopInv, LoopTypeOK
<1>3. \A tx : Held(tx)' <=> Held(tx) \/ tx = t
  BY <1>2, ArrivalQueues
<1>4. NoHeight' = NoHeight
  BY DEF NoHeight
<1>5. ASSUME NEW tx \in Txs PROVE Settled(tx)'
  <2>1. CASE tx = t
    <3>1. accepted'[tx] = height /\ Held(tx)' /\ height <= height'
      BY <1>1, <1>2, <1>3, <2>1
    <3>2. QED  BY <1>1, <3>1 DEF Settled
  <2>2. CASE tx # t
    <3>1. accepted'[tx] = accepted[tx] /\ Settled(tx)
      BY <1>1, <1>2, <2>2 DEF BlameInv
    <3>2. QED  BY <1>1, <1>3, <1>4, <3>1 DEF Settled
  <2>3. QED  BY <2>1, <2>2
<1>6. EvictedBlamed'
  BY <1>1 DEF BlameInv, EvictedBlamed
<1>7. QED  BY <1>1, <1>5, <1>6 DEF BlameInv

LEMMA SealsBlame ==
    ASSUME ConservNeverRescues, BlameInv, NEW e, Seals(e)
    PROVE  (\A tx \in Txs : Settled(tx)') /\ EvictedBlamed' /\ Orderly(l')
<1>1. LoopInv /\ LoopTypeOK /\ IsLedger(l) /\ Orderly(l) /\ height \in Nat
  BY NoHeightType DEF BlameInv, LoopInv, LoopTypeOK
<1>2. /\ Grown(l, l') /\ height' = height + 1
      /\ Orderly(l') /\ RowsSpent(l, l') /\ \A j \in 1..Len(e) : Spent(l', e[j].tx)
  BY <1>1, SealsOutcome
<1>3. \A t : Held(t) =>
         Held(t)' \/ (e = Batch /\ (Shunned(t) \/ \E k \in 1..Len(e) : e[k].tx = t))
  BY <1>1, SealsQueues
<1>4. accepted' = accepted /\ blamed' = blamed /\ NoHeight' = NoHeight
  BY DEF Seals, NoHeight
<1>5. IsLedger(l') /\ Later(l, l')
  BY <1>2 DEF Grown
<1>6. ASSUME NEW tx \in Txs, accepted[tx] # NoHeight
      PROVE  /\ accepted[tx] <= height'
             /\ Held(tx)' \/ Spent(l', tx) \/ BlamedIn(blamed, tx, accepted[tx])
  <2>1. /\ accepted[tx] <= height /\ accepted[tx] \in Nat
        /\ Held(tx) \/ Spent(l, tx) \/ BlamedIn(blamed, tx, accepted[tx])
    BY <1>1, <1>6 DEF BlameInv, Settled, LoopTypeOK
  <2>2. accepted[tx] <= height'
    BY <1>1, <1>2, <2>1
  <2>3. ASSUME Held(tx)
        PROVE  Held(tx)' \/ Spent(l', tx) \/ BlamedIn(blamed, tx, accepted[tx])
    <3>1. CASE Shunned(tx)
      BY <1>6, <3>1, ShunnedBlamed
    <3>2. CASE \E k \in 1..Len(e) : e[k].tx = tx
      BY <1>2, <3>2
    <3>3. QED  BY <1>3, <2>3, <3>1, <3>2
  <2>4. ASSUME Spent(l, tx) PROVE Spent(l', tx)
    BY <1>1, <1>2, <1>5, <2>4, TxsAssumption, SpentStays
  <2>5. QED  BY <2>1, <2>2, <2>3, <2>4
<1>7. ASSUME NEW tx \in Txs PROVE Settled(tx)'
  BY <1>4, <1>6 DEF Settled
<1>8. EvictedBlamed'
  <2>1. CASE evicted' = evicted
    BY <1>4, <2>1 DEF BlameInv, EvictedBlamed
  <2>2. CASE evicted' = [tip |-> H, txs |-> {}]
    BY <2>2 DEF EvictedBlamed
  <2>3. QED  BY <2>1, <2>2 DEF Seals
<1>9. QED  BY <1>2, <1>7, <1>8

LEMMA EvictsBlame ==
    ASSUME BlameInv, NEW txs, Requeues(txs), NEW i, Evicts(i, txs)
    PROVE  (\A tx \in Txs : Settled(tx)') /\ EvictedBlamed' /\ Orderly(l')
<1>1. LoopInv /\ LoopTypeOK /\ height \in Nat
  BY NoHeightType DEF BlameInv, LoopInv
<1>2. /\ l' = l /\ height' = height /\ accepted' = accepted /\ NoHeight' = NoHeight
  BY DEF Requeues, NoHeight
<1> DEFINE bad == Batch[i].tx
           mark == [tx |-> bad, at |-> height]
<1>3. PICK stale \in SUBSET {Batch[k].tx : k \in 1..Len(Batch)} :
         /\ \A t \in stale : t.from = bad.from
         /\ evicted'.tip = height
         /\ evicted'.txs = {bad} \cup stale \cup IF evicted.tip = height THEN evicted.txs ELSE {}
         /\ blamed' = blamed \cup {mark}
         /\ \A k \in 1..Len(Batch) : \/ Batch[k].tx = bad \/ Batch[k].tx \in stale
                                     \/ \E n \in 1..Len(txs) : txs[n] = Batch[k].tx
  BY DEF Evicts
<1>4. mark.tx = bad /\ mark.at = height
  OBVIOUS
<1> HIDE DEF mark, bad
<1>5. /\ \A t : Held(t) =>
               Held(t)' \/ Shunned(t) \/ \E k \in 1..Len(Batch) : Batch[k].tx = t
      /\ \A k \in 1..Len(txs) : Held(txs[k])'
  BY <1>1, RequeuesQueues
<1>6. ASSUME NEW tx \in Txs, accepted[tx] # NoHeight
      PROVE  /\ accepted[tx] <= height
             /\ Held(tx)' \/ Spent(l, tx) \/ BlamedIn(blamed', tx, accepted[tx])
  <2>1. /\ accepted[tx] <= height /\ accepted[tx] \in Nat
        /\ Held(tx) \/ Spent(l, tx) \/ BlamedIn(blamed, tx, accepted[tx])
    BY <1>1, <1>6 DEF BlameInv, Settled, LoopTypeOK
  <2>2. blamed \subseteq blamed' /\ mark \in blamed'
    BY <1>3
  <2>3. ASSUME BlamedIn(blamed, tx, accepted[tx]) PROVE BlamedIn(blamed', tx, accepted[tx])
    BY <2>2, <2>3, BlameGrows
  <2>4. ASSUME tx.from = bad.from PROVE BlamedIn(blamed', tx, accepted[tx])
    <3>1. mark.tx.from = tx.from /\ mark.at >= accepted[tx]
      BY <1>1, <1>4, <2>1, <2>4
    <3>2. QED  BY <2>2, <3>1 DEF BlamedIn
  <2>5. ASSUME Held(tx)
        PROVE  Held(tx)' \/ BlamedIn(blamed', tx, accepted[tx])
    <3>1. CASE Shunned(tx)
      BY <1>6, <2>3, <3>1, ShunnedBlamed
    <3>2. ASSUME NEW k \in 1..Len(Batch), Batch[k].tx = tx
          PROVE  Held(tx)' \/ BlamedIn(blamed', tx, accepted[tx])
      BY <1>3, <1>5, <2>4, <3>2
    <3>3. QED  BY <1>5, <2>5, <3>1, <3>2
  <2>6. QED  BY <2>1, <2>3, <2>5
<1>7. ASSUME NEW tx \in Txs PROVE Settled(tx)'
  BY <1>2, <1>6 DEF Settled
<1>8. EvictedBlamed'
  <2>1. ASSUME NEW t \in evicted'.txs
        PROVE  \E x \in blamed' : x.tx.from = t.from /\ x.at = height
    <3>1. CASE t = bad \/ t \in stale
      BY <1>3, <1>4, <3>1
    <3>2. CASE evicted.tip = height /\ t \in evicted.txs
      BY <1>3, <3>2 DEF BlameInv, EvictedBlamed
    <3>3. QED  BY <1>3, <2>1, <3>1, <3>2
  <2>2. QED  BY <1>3, <2>1 DEF EvictedBlamed
<1>9. QED  BY <1>2, <1>7, <1>8 DEF BlameInv

LEMMA AllBackBlame ==
    ASSUME BlameInv, NEW txs, Requeues(txs), AllBack(txs)
    PROVE  (\A tx \in Txs : Settled(tx)') /\ EvictedBlamed' /\ Orderly(l')
<1>1. LoopInv
  BY DEF BlameInv
<1>2. /\ l' = l /\ height' = height /\ accepted' = accepted /\ NoHeight' = NoHeight
      /\ evicted' = evicted /\ blamed' = blamed
  BY DEF Requeues, AllBack, NoHeight
<1>3. /\ \A t : Held(t) =>
               Held(t)' \/ Shunned(t) \/ \E k \in 1..Len(Batch) : Batch[k].tx = t
      /\ \A k \in 1..Len(txs) : Held(txs[k])'
  BY <1>1, RequeuesQueues
<1>4. ASSUME NEW tx \in Txs, Held(tx), accepted[tx] # NoHeight
      PROVE  Held(tx)' \/ BlamedIn(blamed, tx, accepted[tx])
  BY <1>3, <1>4, ShunnedBlamed DEF AllBack
<1>5. ASSUME NEW tx \in Txs PROVE Settled(tx)'
  BY <1>2, <1>4 DEF BlameInv, Settled
<1>6. QED  BY <1>2, <1>5 DEF BlameInv, EvictedBlamed

LEMMA NextBlameInv ==
    ASSUME ConservNeverRescues
    PROVE  BlameInv /\ [LoopNext]_loopVars => BlameInv'
<1>1. ASSUME BlameInv, LoopNext PROVE BlameInv'
  <2>1. LoopInv /\ LoopInv' /\ StepOfLoop
    BY <1>1, NextLoopInv, LoopSteps DEF BlameInv
  <2>2. (\A tx \in Txs : Settled(tx)') /\ EvictedBlamed' /\ Orderly(l')
    BY <1>1, <2>1, ArrivesBlame, SealsBlame, EvictsBlame, AllBackBlame DEF StepOfLoop
  <2>3. QED  BY <2>1, <2>2 DEF BlameInv
<1>2. ASSUME BlameInv, UNCHANGED loopVars PROVE BlameInv'
  <2>1. /\ l' = l /\ height' = height /\ queue' = queue /\ pool' = pool /\ evicted' = evicted
        /\ accepted' = accepted /\ blamed' = blamed /\ NoHeight' = NoHeight
    BY <1>2 DEF loopVars, NoHeight
  <2>2. LoopInv'
    BY <1>2, NextLoopInv DEF BlameInv
  <2>3. \A tx : Held(tx)' <=> Held(tx)
    BY <2>1 DEF Held, TxsOf, ToSet
  <2>4. QED  BY <1>2, <2>1, <2>2, <2>3 DEF BlameInv, Settled, EvictedBlamed
<1>3. QED  BY <1>1, <1>2

(* An accepted transaction that still applies is held, or its sender was   *)
(* evicted for failing since, as long as no conservation account is a      *)
(* rescue address.                                                         *)
THEOREM OnlySendersLose == ConservNeverRescues => (LoopSpec => []OnlySenderToBlame)
<1> SUFFICES ASSUME ConservNeverRescues PROVE LoopSpec => []OnlySenderToBlame
  OBVIOUS
<1>1. ASSUME BlameInv PROVE OnlySenderToBlame
  <2> SUFFICES ASSUME NEW tx \in Txs, accepted[tx] # NoHeight, ApplyTx(l, tx, H, FALSE) # {}
               PROVE  Held(tx) \/ \E b \in blamed : b.tx.from = tx.from /\ b.at >= accepted[tx]
    BY DEF OnlySenderToBlame
  <2>1. ~Spent(l, tx)
    BY <1>1, TxsAssumption, SpentStops DEF BlameInv, LoopInv, LoopTypeOK
  <2>2. QED  BY <1>1, <2>1 DEF BlameInv, Settled, BlamedIn
<1>2. LoopInit => BlameInv
  BY InitBlameInv
<1>3. BlameInv /\ [LoopNext]_loopVars => BlameInv'
  BY NextBlameInv
<1>4. BlameInv => OnlySenderToBlame
  BY <1>1
<1>5. QED  BY <1>2, <1>3, <1>4, PTL DEF LoopSpec

-----------------------------------------------------------------------------
(* The search for the culprit follows the block.                           *)

\* What decides whether a transaction applies, its sender's balance aside.
Alike(s, r) ==
    /\ s.open = r.open /\ s.fin = r.fin /\ s.stake = r.stake /\ s.nonce = r.nonce
    /\ s.pol = r.pol /\ s.rescue = r.rescue
    /\ \A a : HasPending(s, a) <=> HasPending(r, a)

LEMMA AlikeRoutes ==
    ASSUME NEW s, NEW r, Alike(s, r), NEW a, NEW b, NEW h
    PROVE  RouteTo(s, a, b, h) = RouteTo(r, a, b, h)
<1>1. s.open = r.open /\ s.fin = r.fin /\ s.pol = r.pol /\ s.rescue = r.rescue
  BY DEF Alike
<1>2. RescueOf(s, a, b) = RescueOf(r, a, b)
  BY <1>1 DEF RescueOf
<1>3. QED  BY <1>1, <1>2 DEF RouteTo

LEMMA AlikeAdmits ==
    ASSUME NEW s, NEW r, Alike(s, r), NEW tx, NEW h, NEW skip, Admitted(s, tx, h, FALSE)
    PROVE  Admitted(r, tx, h, skip)
<1>1. /\ s.open = r.open /\ s.fin = r.fin /\ s.nonce = r.nonce /\ s.pol = r.pol
      /\ HasPending(s, tx.from) <=> HasPending(r, tx.from)
  BY DEF Alike
<1>2. SenderAllowed(r, tx, h)
  <2>1. SenderAllowed(s, tx, h)
    BY DEF Admitted
  <2>2. FinalizedBlocks(s, tx) <=> FinalizedBlocks(r, tx)
    BY <1>1 DEF FinalizedBlocks
  <2>3. CosignMissing(s, tx, h) <=> CosignMissing(r, tx, h)
    BY <1>1 DEF CosignMissing
  <2>4. QED  BY <1>1, <2>1, <2>2, <2>3 DEF SenderAllowed
<1>3. QED  BY <1>1, <1>2 DEF Admitted

\* The two ledgers after the same transaction, of which only one is known to apply.
AlikeAfter(s, r, tx, h, skip) ==
    \A m \in Body(s, tx, h, FALSE) : \E n \in Body(r, tx, h, skip) : Alike(m, n)

LEMMA AlikeInit ==
    ASSUME NEW s, s = AsLedger(s), NEW r, r = AsLedger(r), Alike(s, r),
           NEW tx, tx.type = "init", NEW h, NEW skip
    PROVE  AlikeAfter(s, r, tx, h, skip)
<1> SUFFICES ASSUME NEW m \in InitAccount(s, tx, h)
             PROVE  \E n \in InitAccount(r, tx, h) : Alike(m, n)
  BY DEF AlikeAfter, Body
<1>1. /\ s.open = r.open /\ s.fin = r.fin /\ s.stake = r.stake /\ s.nonce = r.nonce
      /\ s.pol = r.pol /\ s.rescue = r.rescue
      /\ \A a : HasPending(s, a) <=> HasPending(r, a)
  BY DEF Alike
<1> DEFINE Names(q) == {res \in IF tx.rescue = {} THEN {q.rescue}
                                ELSE {Put(q.rescue, tx.from, a) : a \in tx.rescue} :
                          tx.from \notin q.open}
           Fresher(q, res) == [q EXCEPT !.open = @ \cup {tx.from},
                                        !.nonce = Plus(@, tx.from, 1),
                                        !.pol = Put(@, tx.from, SetPolModes(@[tx.from], tx.modes, h)),
                                        !.rescue = res]
<1>2. PICK res \in Names(s) : m = Fresher(s, res)
  BY DEF InitAccount
<1>3. res \in Names(r)
  BY <1>1
<1>4. Fresher(r, res) \in InitAccount(r, tx, h)
  BY <1>3 DEF InitAccount
<1>5. \A q : q = AsLedger(q) =>
         /\ Fresher(q, res).open = q.open \cup {tx.from}
         /\ Fresher(q, res).nonce = Plus(q.nonce, tx.from, 1)
         /\ Fresher(q, res).pol = Put(q.pol, tx.from, SetPolModes(q.pol[tx.from], tx.modes, h))
         /\ Fresher(q, res).rescue = res
         /\ Fresher(q, res).fin = q.fin /\ Fresher(q, res).stake = q.stake
         /\ Fresher(q, res).pend = q.pend
  BY DEF AsLedger
<1> HIDE DEF Fresher, Names
<1>6. \A a : HasPending(Fresher(s, res), a) <=> HasPending(Fresher(r, res), a)
  BY <1>1, <1>5 DEF HasPending
<1>7. Alike(m, Fresher(r, res))
  <2>1. m = Fresher(s, res)
    BY <1>2
  <2>2. /\ m.open = s.open \cup {tx.from}
        /\ m.nonce = Plus(s.nonce, tx.from, 1)
        /\ m.pol = Put(s.pol, tx.from, SetPolModes(s.pol[tx.from], tx.modes, h))
        /\ m.rescue = res /\ m.fin = s.fin /\ m.stake = s.stake
    BY <1>5, <2>1
  <2>3. \A a : HasPending(m, a) <=> HasPending(Fresher(r, res), a)
    BY <1>6, <2>1
  <2>4. PICK n : n = Fresher(r, res)
    OBVIOUS
  <2>5. /\ n.open = r.open \cup {tx.from}
        /\ n.nonce = Plus(r.nonce, tx.from, 1)
        /\ n.pol = Put(r.pol, tx.from, SetPolModes(r.pol[tx.from], tx.modes, h))
        /\ n.rescue = res /\ n.fin = r.fin /\ n.stake = r.stake
    BY <1>5, <2>4
  <2>6. Alike(m, n)
    BY <1>1, <2>2, <2>3, <2>4, <2>5 DEF Alike
  <2>7. QED  BY <2>4, <2>6
<1>8. QED  BY <1>4, <1>7

LEMMA AlikeTransfer ==
    ASSUME NEW s, s = AsLedger(s), NEW r, r = AsLedger(r), Alike(s, r),
           NEW tx, tx.type = "transfer", r.bal[tx.from] >= tx.amount + tx.fee,
           NEW h, NEW skip \in BOOLEAN
    PROVE  AlikeAfter(s, r, tx, h, skip)
<1> SUFFICES ASSUME NEW m \in Transfer(s, tx, h, FALSE)
             PROVE  \E n \in Transfer(r, tx, h, skip) : Alike(m, n)
  BY DEF AlikeAfter, Body
<1>1. /\ s.open = r.open /\ s.fin = r.fin /\ s.stake = r.stake /\ s.nonce = r.nonce
      /\ s.pol = r.pol /\ s.rescue = r.rescue
      /\ \A a : HasPending(s, a) <=> HasPending(r, a)
  BY DEF Alike
<1> DEFINE Sent(q, d) == IF tx.from \in ConservFlag THEN Enqueue(q, tx, d, h) ELSE Pay(q, tx, d)
<1>2. PICK d \in s.open :
         /\ d \in IF tx.to \notin s.open THEN {tx.to} ELSE RouteTo(s, tx.from, tx.to, h)
         /\ tx.from # tx.to
         /\ ~(tx.from \in ConservFlag /\ HasPending(s, tx.from))
         /\ m = Sent(s, d)
  BY DEF Transfer
<1>3. tx.to \in r.open
  BY <1>1, <1>2
<1>4. RouteTo(s, tx.from, tx.to, h) = RouteTo(r, tx.from, tx.to, h)
  BY AlikeRoutes
<1>5. PICK c \in r.open :
         c \in IF skip \/ tx.to \notin r.open THEN {tx.to} ELSE RouteTo(r, tx.from, tx.to, h)
  <2>1. CASE skip
    BY <1>3, <2>1
  <2>2. CASE ~skip
    BY <1>1, <1>2, <1>3, <1>4, <2>2
  <2>3. QED  BY <2>1, <2>2
<1>6. Sent(r, c) \in Transfer(r, tx, h, skip)
  BY <1>1, <1>2, <1>5 DEF Transfer
<1>7. CASE tx.from \in ConservFlag
  <2>1. EnqueueOutcome(s, tx, d, h, m) /\ EnqueueOutcome(r, tx, c, h, Sent(r, c))
    BY <1>2, <1>7, EnqueueEffect
  <2> HIDE DEF Sent
  <2>2. PICK x : m.pend = s.pend \cup {x} /\ x.sender = tx.from
    <3> DEFINE x == [sender |-> tx.from, to |-> d, amount |-> tx.amount, fee |-> tx.fee,
                     nonce |-> tx.nonce, at |-> h + ConservDelay]
    <3>1. m.pend = s.pend \cup {x} /\ x.sender = tx.from
      BY <2>1 DEF EnqueueOutcome
    <3> HIDE DEF x
    <3>2. QED  BY <3>1
  <2>3. PICK y : Sent(r, c).pend = r.pend \cup {y} /\ y.sender = tx.from
    <3> DEFINE y == [sender |-> tx.from, to |-> c, amount |-> tx.amount, fee |-> tx.fee,
                     nonce |-> tx.nonce, at |-> h + ConservDelay]
    <3>1. Sent(r, c).pend = r.pend \cup {y} /\ y.sender = tx.from
      BY <2>1 DEF EnqueueOutcome
    <3> HIDE DEF y
    <3>2. QED  BY <3>1
  <2>4. \A a : HasPending(m, a) <=> HasPending(Sent(r, c), a)
    BY <1>1, <2>2, <2>3 DEF HasPending
  <2>5. Alike(m, Sent(r, c))
    BY <1>1, <2>1, <2>4 DEF Alike, EnqueueOutcome, Changes, Fields
  <2>6. QED  BY <1>6, <2>5
<1>8. CASE tx.from \notin ConservFlag
  <2>1. PayOutcome(s, tx, d, m) /\ PayOutcome(r, tx, c, Sent(r, c))
    BY <1>2, <1>8, PayEffect
  <2> HIDE DEF Sent
  <2>2. m.pend = s.pend /\ Sent(r, c).pend = r.pend
    BY <2>1 DEF PayOutcome, Changes, Fields
  <2>3. \A a : HasPending(m, a) <=> HasPending(Sent(r, c), a)
    BY <1>1, <2>2 DEF HasPending
  <2>4. Alike(m, Sent(r, c))
    BY <1>1, <2>1, <2>3 DEF Alike, PayOutcome, Changes, Fields
  <2>5. QED  BY <1>6, <2>4
<1>9. QED  BY <1>7, <1>8

LEMMA AlikeAmount ==
    ASSUME NEW s, s = AsLedger(s), NEW r, r = AsLedger(r), Alike(s, r),
           NEW tx, tx.type \in {"stake", "unstake", "burn"},
           tx.type = "stake" => ~(r.bal[tx.from] < tx.amount), NEW h, NEW skip
    PROVE  AlikeAfter(s, r, tx, h, skip)
<1> SUFFICES ASSUME NEW m \in Body(s, tx, h, FALSE)
             PROVE  \E n \in Body(r, tx, h, skip) : Alike(m, n)
  BY DEF AlikeAfter
<1>1. /\ s.open = r.open /\ s.fin = r.fin /\ s.stake = r.stake /\ s.nonce = r.nonce
      /\ s.pol = r.pol /\ s.rescue = r.rescue
      /\ \A a : HasPending(s, a) <=> HasPending(r, a)
  BY DEF Alike
<1>2. CASE tx.type = "stake"
  <2>1. StakeOutcome(s, tx, m)
    BY <1>2, StakeEffect DEF Body
  <2>2. PICK n : n \in Stake(r, tx)
    BY <1>2 DEF Stake
  <2>3. StakeOutcome(r, tx, n) /\ n \in Body(r, tx, h, skip)
    BY <1>2, <2>2, StakeEffect DEF Body
  <2>4. m.pend = s.pend /\ n.pend = r.pend
    BY <2>1, <2>3 DEF StakeOutcome, Changes, Fields
  <2>5. \A a : HasPending(m, a) <=> HasPending(n, a)
    BY <1>1, <2>4 DEF HasPending
  <2>6. Alike(m, n)
    BY <1>1, <2>1, <2>3, <2>5 DEF Alike, StakeOutcome, Changes, Fields
  <2>7. QED  BY <2>3, <2>6
<1>3. CASE tx.type = "unstake"
  <2>1. UnstakeOutcome(s, tx, m)
    BY <1>3, UnstakeEffect DEF Body
  <2>2. PICK n : n \in Unstake(r, tx)
    BY <1>1, <2>1 DEF Unstake, UnstakeOutcome
  <2>3. UnstakeOutcome(r, tx, n) /\ n \in Body(r, tx, h, skip)
    BY <1>3, <2>2, UnstakeEffect DEF Body
  <2>4. m.pend = s.pend /\ n.pend = r.pend
    BY <2>1, <2>3 DEF UnstakeOutcome, Changes, Fields
  <2>5. \A a : HasPending(m, a) <=> HasPending(n, a)
    BY <1>1, <2>4 DEF HasPending
  <2>6. Alike(m, n)
    BY <1>1, <2>1, <2>3, <2>5 DEF Alike, UnstakeOutcome, Changes, Fields
  <2>7. QED  BY <2>3, <2>6
<1>4. CASE tx.type = "burn"
  <2>1. BurnOutcome(s, tx, m)
    BY <1>4, BurnEffect DEF Body
  <2>2. PICK n : n \in BurnMark(r, tx)
    BY DEF BurnMark
  <2>3. BurnOutcome(r, tx, n) /\ n \in Body(r, tx, h, skip)
    BY <1>4, <2>2, BurnEffect DEF Body
  <2>4. m.pend = s.pend /\ n.pend = r.pend
    BY <2>1, <2>3 DEF BurnOutcome, Changes, Fields
  <2>5. \A a : HasPending(m, a) <=> HasPending(n, a)
    BY <1>1, <2>4 DEF HasPending
  <2>6. Alike(m, n)
    BY <1>1, <2>1, <2>3, <2>5 DEF Alike, BurnOutcome, Changes, Fields
  <2>7. QED  BY <2>3, <2>6
<1>5. QED  BY <1>2, <1>3, <1>4

LEMMA AlikePolicy ==
    ASSUME NEW s, s = AsLedger(s), NEW r, r = AsLedger(r), Alike(s, r),
           s.stake \in [Accounts -> Nat],
           NEW tx, tx.type = "policy", ~(r.bal[tx.from] < tx.fee), NEW h, NEW skip
    PROVE  AlikeAfter(s, r, tx, h, skip)
<1> SUFFICES ASSUME NEW m \in PolicyBody(s, tx, h)
             PROVE  \E n \in PolicyBody(r, tx, h) : Alike(m, n)
  BY DEF AlikeAfter, Body
<1>1. /\ s.open = r.open /\ s.fin = r.fin /\ s.stake = r.stake /\ s.nonce = r.nonce
      /\ s.pol = r.pol /\ s.rescue = r.rescue
      /\ \A a : HasPending(s, a) <=> HasPending(r, a)
  BY DEF Alike
<1>2. PolicyTxValid(r, tx) /\ CanApply(r.pol[tx.from], tx.action, h)
  <2>1. PolicyTxValid(s, tx) /\ CanApply(s.pol[tx.from], tx.action, h)
    BY DEF PolicyBody
  <2>2. PolicyTxValid(s, tx) <=> PolicyTxValid(r, tx)
    BY <1>1 DEF PolicyTxValid
  <2>3. QED  BY <1>1, <2>1, <2>2
<1> DEFINE Paid(q) == [q EXCEPT !.bal = Minus(@, tx.from, tx.fee),
                               !.fees = @ + tx.fee,
                               !.nonce = Plus(@, tx.from, 1),
                               !.pol = Put(@, tx.from, Apply(@[tx.from], tx.action, h)),
                               !.fin = IF Finalizes(q.pol[tx.from], tx.action)
                                       THEN @ \cup {tx.from} ELSE @]
           Done(q) == IF IsEmergency(tx.action) THEN Evacuate(Paid(q), tx.from, tx.target)
                      ELSE Paid(q)
<1>3. m = Done(s)
  BY DEF PolicyBody
<1>4. Done(r) \in PolicyBody(r, tx, h)
  BY <1>2 DEF PolicyBody
<1>5. ASSUME NEW q, q = AsLedger(q)
      PROVE  /\ Paid(q) = AsLedger(Paid(q))
             /\ Paid(q).open = q.open /\ Paid(q).stake = q.stake /\ Paid(q).rescue = q.rescue
             /\ Paid(q).pend = q.pend
             /\ Paid(q).nonce = Plus(q.nonce, tx.from, 1)
             /\ Paid(q).pol = Put(q.pol, tx.from, Apply(q.pol[tx.from], tx.action, h))
             /\ Paid(q).fin = IF Finalizes(q.pol[tx.from], tx.action)
                              THEN q.fin \cup {tx.from} ELSE q.fin
  <2> DEFINE pols == Put(q.pol, tx.from, Apply(q.pol[tx.from], tx.action, h))
             fins == IF Finalizes(q.pol[tx.from], tx.action) THEN q.fin \cup {tx.from} ELSE q.fin
  <2>1. PICK p : p = [q EXCEPT !.bal = Minus(@, tx.from, tx.fee),
                               !.fees = @ + tx.fee,
                               !.nonce = Plus(@, tx.from, 1),
                               !.pol = pols,
                               !.fin = fins]
    OBVIOUS
  <2>2. p = Paid(q)
    BY <2>1
  <2> HIDE DEF pols, fins, Paid
  <2>3. /\ p = AsLedger(p)
        /\ p.open = q.open /\ p.stake = q.stake /\ p.rescue = q.rescue /\ p.pend = q.pend
        /\ p.nonce = Plus(q.nonce, tx.from, 1) /\ p.pol = pols /\ p.fin = fins
    BY <1>5, <2>1 DEF AsLedger
  <2>4. QED  BY <2>2, <2>3 DEF pols, fins
<1> HIDE DEF Paid
<1>6. ASSUME NEW q, q = AsLedger(q), IsEmergency(tx.action)
      PROVE  /\ Done(q).open = Paid(q).open /\ Done(q).rescue = Paid(q).rescue
             /\ Done(q).nonce = Paid(q).nonce /\ Done(q).pol = Paid(q).pol
             /\ Done(q).fin = Paid(q).fin
             /\ Done(q).stake = IF tx.from = tx.target THEN Paid(q).stake
                                ELSE Put(Paid(q).stake, tx.from, 0)
             /\ Done(q).pend = {row \in Paid(q).pend : row.sender # tx.from}
  <2>1. PICK p : p = Paid(q)
    OBVIOUS
  <2>2. p = AsLedger(p)
    BY <1>5, <1>6, <2>1
  <2>3. Done(q) = Evacuate(p, tx.from, tx.target)
    BY <1>6, <2>1
  <2> HIDE DEF Done
  <2>4. QED  BY <2>1, <2>2, <2>3 DEF Evacuate, AsLedger
<1>7. Alike(Paid(s), Paid(r))
  <2>1. PICK p : p = Paid(s)
    OBVIOUS
  <2>2. PICK q : q = Paid(r)
    OBVIOUS
  <2>3. /\ p.open = s.open /\ p.stake = s.stake /\ p.rescue = s.rescue /\ p.pend = s.pend
        /\ p.nonce = Plus(s.nonce, tx.from, 1)
        /\ p.pol = Put(s.pol, tx.from, Apply(s.pol[tx.from], tx.action, h))
        /\ p.fin = IF Finalizes(s.pol[tx.from], tx.action) THEN s.fin \cup {tx.from} ELSE s.fin
    BY <1>5, <2>1
  <2>4. /\ q.open = r.open /\ q.stake = r.stake /\ q.rescue = r.rescue /\ q.pend = r.pend
        /\ q.nonce = Plus(r.nonce, tx.from, 1)
        /\ q.pol = Put(r.pol, tx.from, Apply(r.pol[tx.from], tx.action, h))
        /\ q.fin = IF Finalizes(r.pol[tx.from], tx.action) THEN r.fin \cup {tx.from} ELSE r.fin
    BY <1>5, <2>2
  <2>5. \A a : HasPending(p, a) <=> HasPending(q, a)
    <3>1. \A a : (HasPending(p, a) <=> HasPending(s, a)) /\ (HasPending(q, a) <=> HasPending(r, a))
      BY <2>3, <2>4 DEF HasPending
    <3>2. QED  BY <1>1, <3>1
  <2>6. Alike(p, q)
    <3>1. p.nonce = q.nonce /\ p.pol = q.pol
      BY <1>1, <2>3, <2>4
    <3>2. p.fin = q.fin
      BY <1>1, <2>3, <2>4
    <3>3. p.open = q.open /\ p.stake = q.stake /\ p.rescue = q.rescue
      BY <1>1, <2>3, <2>4
    <3>4. QED  BY <2>5, <3>1, <3>2, <3>3 DEF Alike
  <2>7. QED  BY <2>1, <2>2, <2>6
<1>8. Alike(Done(s), Done(r))
  <2>1. CASE ~IsEmergency(tx.action)
    BY <1>7, <2>1
  <2>2. CASE IsEmergency(tx.action)
    <3>1. /\ Done(s).pend = {row \in Paid(s).pend : row.sender # tx.from}
          /\ Done(r).pend = {row \in Paid(r).pend : row.sender # tx.from}
      BY <1>6, <2>2
    <3>2. /\ Done(s).open = Paid(s).open /\ Done(s).rescue = Paid(s).rescue
          /\ Done(s).nonce = Paid(s).nonce /\ Done(s).pol = Paid(s).pol
          /\ Done(s).fin = Paid(s).fin
          /\ Done(s).stake = IF tx.from = tx.target THEN Paid(s).stake
                             ELSE Put(Paid(s).stake, tx.from, 0)
      BY <1>6, <2>2
    <3>3. /\ Done(r).open = Paid(r).open /\ Done(r).rescue = Paid(r).rescue
          /\ Done(r).nonce = Paid(r).nonce /\ Done(r).pol = Paid(r).pol
          /\ Done(r).fin = Paid(r).fin
          /\ Done(r).stake = IF tx.from = tx.target THEN Paid(r).stake
                             ELSE Put(Paid(r).stake, tx.from, 0)
      BY <1>6, <2>2
    <3> HIDE DEF Done
    <3>4. \A a : HasPending(Paid(s), a) <=> HasPending(Paid(r), a)
      BY <1>7 DEF Alike
    <3>5. \A a : HasPending(Done(s), a) <=> a # tx.from /\ HasPending(Paid(s), a)
      BY <3>1 DEF HasPending
    <3>6. \A a : HasPending(Done(r), a) <=> a # tx.from /\ HasPending(Paid(r), a)
      BY <3>1 DEF HasPending
    <3>7. QED  BY <1>7, <3>2, <3>3, <3>4, <3>5, <3>6 DEF Alike
  <2>3. QED  BY <2>1, <2>2
<1>9. QED  BY <1>3, <1>4, <1>8

LEMMA AlikeClaim ==
    ASSUME NEW s, s = AsLedger(s), NEW r, r = AsLedger(r), Alike(s, r),
           r.claimed = s.claimed, NEW tx, tx.type = "claim", NEW h, NEW skip
    PROVE  AlikeAfter(s, r, tx, h, skip)
<1> SUFFICES ASSUME NEW m \in Claim(s, tx)
             PROVE  \E n \in Claim(r, tx) : Alike(m, n)
  BY DEF AlikeAfter, Body
<1>1. \A a : HasPending(s, a) <=> HasPending(r, a)
  BY DEF Alike
<1>2. ClaimOutcome(s, tx, m)
  BY ClaimEffect
<1>3. PICK n : n \in Claim(r, tx)
  BY DEF Claim
<1>4. ClaimOutcome(r, tx, n)
  BY <1>3, ClaimEffect
<1>5. m.pend = s.pend /\ n.pend = r.pend
  BY <1>2, <1>4 DEF ClaimOutcome, Changes, Fields
<1>6. \A a : HasPending(m, a) <=> HasPending(n, a)
  BY <1>1, <1>5 DEF HasPending
<1>7. Alike(m, n)
  BY <1>2, <1>4, <1>6 DEF Alike, ClaimOutcome, Changes, Fields
<1>8. QED  BY <1>3, <1>7

LEMMA AlikeExport ==
    ASSUME NEW s, s = AsLedger(s), NEW r, r = AsLedger(r), Alike(s, r),
           NEW tx, tx.type = "export", ~(r.bal[tx.from] < tx.amount + tx.fee), NEW h, NEW skip
    PROVE  AlikeAfter(s, r, tx, h, skip)
<1> SUFFICES ASSUME NEW m \in Export(s, tx, h)
             PROVE  \E n \in Export(r, tx, h) : Alike(m, n)
  BY DEF AlikeAfter, Body
<1>1. \A a : HasPending(s, a) <=> HasPending(r, a)
  BY DEF Alike
<1>2. ExportOutcome(s, tx, h, m) /\ ExportContextValid(tx)
  <2>1. ExportContextValid(tx)
    BY DEF Export
  <2>2. QED  BY <2>1, ExportEffect
<1>3. PICK n : n \in Export(r, tx, h)
  BY <1>2 DEF Export
<1>4. ExportOutcome(r, tx, h, n)
  BY <1>3, ExportEffect
<1>5. m.pend = s.pend /\ n.pend = r.pend
  BY <1>2, <1>4 DEF ExportOutcome, Changes, Fields
<1>6. \A a : HasPending(m, a) <=> HasPending(n, a)
  BY <1>1, <1>5 DEF HasPending
<1>7. Alike(m, n)
  BY <1>2, <1>4, <1>6 DEF Alike, ExportOutcome, Changes, Fields
<1>8. QED  BY <1>3, <1>7

(* What decides whether an import or a claim applies: r is like s but for  *)
(* the locks D of s, which r has refunded.                                 *)
EscrowAlike(D, s, r) ==
    /\ r.claimed = s.claimed /\ r.exported = s.exported
    /\ r.imported = s.imported \cup D
    /\ DOMAIN r.locks = DOMAIN s.locks
    /\ \A id \in DOMAIN s.locks \ D : r.locks[id] = s.locks[id]

LEMMA AlikeImports ==
    ASSUME NEW s, NEW r, Alike(s, r), NEW D, EscrowAlike(D, s, r),
           NEW tx, tx.id \notin D, r.bal[tx.from] >= tx.fee
    PROVE  /\ Expected(r, tx) = Expected(s, tx)
           /\ \A p : ImportAllowed(s, tx, p) => ImportAllowed(r, tx, p)
<1>1. /\ s.open = r.open /\ r.exported = s.exported /\ r.imported = s.imported \cup D
      /\ DOMAIN r.locks = DOMAIN s.locks
      /\ tx.id \in DOMAIN s.locks => r.locks[tx.id] = s.locks[tx.id]
  BY DEF Alike, EscrowAlike
<1>2. Expected(r, tx) = Expected(s, tx)
  BY <1>1 DEF Expected
<1>3. ASSUME NEW p, ImportAllowed(s, tx, p) PROVE ImportAllowed(r, tx, p)
  <2>1. tx.id \notin r.imported
    BY <1>1, <1>3 DEF ImportAllowed
  <2>2. tx.id \in DOMAIN r.locks => r.locks[tx.id].state # "Refunded"
    BY <1>1, <1>3 DEF ImportAllowed
  <2>3. QED  BY <1>1, <1>3, <2>1, <2>2 DEF ImportAllowed
<1>4. QED  BY <1>2, <1>3

LEMMA AlikeImport ==
    ASSUME NEW s, s = AsLedger(s), NEW r, r = AsLedger(r), Alike(s, r),
           NEW D, EscrowAlike(D, s, r),
           NEW tx, tx.type = "import", tx.id \notin D, r.bal[tx.from] >= tx.fee, NEW h, NEW skip
    PROVE  AlikeAfter(s, r, tx, h, skip)
<1> SUFFICES ASSUME NEW m \in Import(s, tx)
             PROVE  \E n \in Import(r, tx) : Alike(m, n)
  BY DEF AlikeAfter, Body
<1>1. \A a : HasPending(s, a) <=> HasPending(r, a)
  BY DEF Alike
<1>2. ImportOutcome(s, tx, m)
  BY ImportEffect
<1>3. PICK p \in Expected(r, tx) : ImportAllowed(r, tx, p)
  BY <1>2, AlikeImports DEF ImportOutcome
<1>4. PICK n : n \in Import(r, tx)
  <2> DEFINE n == [r EXCEPT
                !.bal = Plus(Minus(@, tx.from, tx.fee), tx.to, tx.amount),
                !.nonce = Plus(@, tx.from, 1),
                !.fees = @ + tx.fee,
                !.exported = Put(@, tx.id, p),
                !.locks = [id \in DOMAIN @ |->
                             IF id = tx.id /\ @[id].state = "Locked"
                             THEN [@[id] EXCEPT !.state = "Released"] ELSE @[id]],
                !.imported = @ \cup {tx.id}]
  <2>1. n \in Import(r, tx)
    BY <1>3, Zenon DEF Import
  <2> HIDE DEF n
  <2>2. QED  BY <2>1
<1>5. ImportOutcome(r, tx, n)
  BY <1>4, ImportEffect
<1>6. m.pend = s.pend /\ n.pend = r.pend
  BY <1>2, <1>5 DEF ImportOutcome, Changes, Fields
<1>7. \A a : HasPending(m, a) <=> HasPending(n, a)
  BY <1>1, <1>6 DEF HasPending
<1>8. Alike(m, n)
  BY <1>2, <1>5, <1>7 DEF Alike, ImportOutcome, Changes, Fields
<1>9. QED  BY <1>4, <1>8

\* Most bodies leave the escrow alone.
LEMMA EscrowStays ==
    ASSUME NEW D, NEW s, NEW r, EscrowAlike(D, s, r), NEW fs, NEW m, NEW n,
           Changes(s, m, fs), Changes(r, n, fs),
           fs \cap {"claimed", "locks", "exported", "imported"} = {}
    PROVE  EscrowAlike(D, m, n)
<1>1. /\ m.claimed = s.claimed /\ m.locks = s.locks
      /\ m.exported = s.exported /\ m.imported = s.imported
  BY DEF Changes, Fields
<1>2. /\ n.claimed = r.claimed /\ n.locks = r.locks
      /\ n.exported = r.exported /\ n.imported = r.imported
  BY DEF Changes, Fields
<1>3. QED  BY <1>1, <1>2 DEF EscrowAlike

LEMMA EscrowExport ==
    ASSUME NEW D, NEW s, NEW r, EscrowAlike(D, s, r), NEW tx, NEW h, NEW m, NEW n,
           ExportOutcome(s, tx, h, m), ExportOutcome(r, tx, h, n)
    PROVE  EscrowAlike(D, m, n)
<1> PICK id, row, rec :
       /\ id = ExportId(tx)
       /\ row = [sender |-> tx.from, amount |-> tx.amount,
                 unlock |-> h + LockTimeout, state |-> "Locked"]
       /\ rec = [to |-> tx.to, hi |-> tx.hi, amount |-> tx.amount]
  OBVIOUS
<1>1. /\ r.claimed = s.claimed /\ r.exported = s.exported
      /\ r.imported = s.imported \cup D /\ DOMAIN r.locks = DOMAIN s.locks
      /\ \A x \in DOMAIN s.locks \ D : r.locks[x] = s.locks[x]
  BY DEF EscrowAlike
<1>2. /\ m.claimed = s.claimed /\ m.imported = s.imported
      /\ n.claimed = r.claimed /\ n.imported = r.imported
  BY DEF ExportOutcome, Changes, Fields
<1>3. /\ m.exported = IF id \in DOMAIN s.exported THEN s.exported ELSE Put(s.exported, id, rec)
      /\ n.exported = IF id \in DOMAIN r.exported THEN r.exported ELSE Put(r.exported, id, rec)
      /\ m.locks = IF id \in DOMAIN s.locks THEN s.locks ELSE Put(s.locks, id, row)
      /\ n.locks = IF id \in DOMAIN r.locks THEN r.locks ELSE Put(r.locks, id, row)
  BY DEF ExportOutcome
<1>4. m.exported = n.exported
  BY <1>1, <1>3
<1>5. DOMAIN m.locks = DOMAIN n.locks /\ \A x \in DOMAIN m.locks \ D : n.locks[x] = m.locks[x]
  <2>1. CASE id \in DOMAIN s.locks
    BY <1>1, <1>3, <2>1
  <2>2. CASE id \notin DOMAIN s.locks
    <3>1. m.locks = Put(s.locks, id, row) /\ n.locks = Put(r.locks, id, row)
      BY <1>1, <1>3, <2>2
    <3>2. QED  BY <1>1, <3>1 DEF Put
  <2>3. QED  BY <2>1, <2>2
<1>6. QED  BY <1>1, <1>2, <1>4, <1>5 DEF EscrowAlike

LEMMA EscrowImport ==
    ASSUME NEW D, NEW s, IsLedger(s), NEW r, IsLedger(r), EscrowAlike(D, s, r),
           NEW tx, IsTransaction(tx), tx.type = "import", tx.id \notin D, NEW m, NEW n,
           ImportOutcome(s, tx, m), ImportOutcome(r, tx, n)
    PROVE  EscrowAlike(D, m, n)
<1> PICK id : id = tx.id
  OBVIOUS
<1>1. /\ r.claimed = s.claimed /\ r.exported = s.exported
      /\ r.imported = s.imported \cup D /\ DOMAIN r.locks = DOMAIN s.locks
      /\ \A x \in DOMAIN s.locks \ D : r.locks[x] = s.locks[x]
  BY DEF EscrowAlike
<1>2. /\ m.claimed = s.claimed /\ n.claimed = r.claimed
      /\ m.imported = s.imported \cup {id} /\ n.imported = r.imported \cup {id}
  BY DEF ImportOutcome, Changes, Fields
<1>3. m.exported = n.exported
  <2>1. PICK p \in Expected(s, tx) :
           ImportAllowed(s, tx, p) /\ m.exported = Put(s.exported, id, p)
    BY DEF ImportOutcome
  <2>2. PICK q \in Expected(r, tx) :
           ImportAllowed(r, tx, q) /\ n.exported = Put(r.exported, id, q)
    BY DEF ImportOutcome
  <2>3. p \in Provenances /\ q \in Provenances
    <3>1. /\ tx.provenance \subseteq Provenances
          /\ \A x \in DOMAIN s.exported : s.exported[x] \in Provenances
          /\ \A x \in DOMAIN r.exported : r.exported[x] \in Provenances
      BY DEF IsTransaction, IsLedger
    <3>2. QED  BY <2>1, <2>2, <3>1 DEF Expected
  <2>4. p.to = q.to /\ p.hi = q.hi /\ p.amount = q.amount
    BY <2>1, <2>2 DEF ImportAllowed
  <2>5. p = q
    BY <2>3, <2>4 DEF Provenances
  <2>6. QED  BY <1>1, <2>1, <2>2, <2>5
<1>4. DOMAIN m.locks = DOMAIN n.locks /\ \A x \in DOMAIN m.locks \ D : n.locks[x] = m.locks[x]
  <2> DEFINE Released(f) == [x \in DOMAIN f |->
                               IF x = id /\ f[x].state = "Locked"
                               THEN [f[x] EXCEPT !.state = "Released"] ELSE f[x]]
  <2>1. m.locks = Released(s.locks) /\ n.locks = Released(r.locks)
    BY DEF ImportOutcome
  <2>2. \A x \in DOMAIN s.locks \ D : Released(r.locks)[x] = Released(s.locks)[x]
    BY <1>1
  <2>3. DOMAIN Released(s.locks) = DOMAIN s.locks /\ DOMAIN Released(r.locks) = DOMAIN r.locks
    OBVIOUS
  <2> HIDE DEF Released
  <2>4. QED  BY <1>1, <2>1, <2>2, <2>3
<1>5. QED  BY <1>1, <1>2, <1>3, <1>4 DEF EscrowAlike

LEMMA EscrowAfter ==
    ASSUME NEW D, NEW s, IsLedger(s), NEW r, IsLedger(r), EscrowAlike(D, s, r),
           NEW tx, IsTransaction(tx), tx.type = "import" => tx.id \notin D,
           NEW h, NEW skip, NEW m \in Body(s, tx, h, FALSE), NEW n \in Body(r, tx, h, skip)
    PROVE  EscrowAlike(D, m, n)
<1>1. s = AsLedger(s) /\ r = AsLedger(r) /\ tx.type \in TxTypes
  BY DEF IsLedger, IsTransaction
<1> DEFINE fs == {"open", "bal", "stake", "fees", "nonce", "pol", "fin", "pend", "rescue"}
<1>2. CASE tx.type = "init"
  <2>1. InitOutcome(s, tx, h, m) /\ InitOutcome(r, tx, h, n)
    BY <1>1, <1>2, InitEffect DEF Body
  <2>2. Changes(s, m, fs) /\ Changes(r, n, fs)
    BY <2>1, ChangesMore DEF InitOutcome
  <2>3. QED  BY <2>2, EscrowStays
<1>3. CASE tx.type = "transfer"
  <2>1. ASSUME NEW q, q = AsLedger(q), NEW x, NEW b, x \in Transfer(q, tx, h, b)
        PROVE  Changes(q, x, fs)
    <3>1. PICK d : x = IF tx.from \in ConservFlag THEN Enqueue(q, tx, d, h) ELSE Pay(q, tx, d)
      BY <2>1 DEF Transfer
    <3>2. EnqueueOutcome(q, tx, d, h, x) \/ PayOutcome(q, tx, d, x)
      BY <2>1, <3>1, EnqueueEffect, PayEffect
    <3>3. QED  BY <3>2, ChangesMore DEF EnqueueOutcome, PayOutcome
  <2>2. m \in Transfer(s, tx, h, FALSE) /\ n \in Transfer(r, tx, h, skip)
    BY <1>3 DEF Body
  <2>3. QED  BY <1>1, <2>1, <2>2, EscrowStays
<1>4. CASE tx.type \in {"stake", "unstake"}
  <2>1. /\ StakeOutcome(s, tx, m) \/ UnstakeOutcome(s, tx, m)
        /\ StakeOutcome(r, tx, n) \/ UnstakeOutcome(r, tx, n)
    BY <1>1, <1>4, StakeEffect, UnstakeEffect DEF Body
  <2>2. Changes(s, m, fs) /\ Changes(r, n, fs)
    BY <2>1, ChangesMore DEF StakeOutcome, UnstakeOutcome
  <2>3. QED  BY <2>2, EscrowStays
<1>5. CASE tx.type = "burn"
  <2>1. BurnOutcome(s, tx, m) /\ BurnOutcome(r, tx, n)
    BY <1>1, <1>5, BurnEffect DEF Body
  <2>2. QED  BY <2>1, EscrowStays DEF BurnOutcome
<1>6. CASE tx.type = "policy"
  <2>1. PolicyOutcome(s, tx, h, m) /\ PolicyOutcome(r, tx, h, n)
    BY <1>1, <1>6, PolicyEffect DEF Body
  <2>2. Changes(s, m, fs) /\ Changes(r, n, fs)
    BY <2>1, ChangesMore DEF PolicyOutcome
  <2>3. QED  BY <2>2, EscrowStays
<1>7. CASE tx.type = "claim"
  <2>1. ClaimOutcome(s, tx, m) /\ ClaimOutcome(r, tx, n)
    BY <1>1, <1>7, ClaimEffect DEF Body
  <2>2. QED  BY <2>1 DEF ClaimOutcome, Changes, Fields, EscrowAlike
<1>8. CASE tx.type = "export"
  <2>1. ExportOutcome(s, tx, h, m) /\ ExportOutcome(r, tx, h, n)
    BY <1>1, <1>8, ExportEffect DEF Body
  <2>2. QED  BY <2>1, EscrowExport
<1>9. CASE tx.type = "import"
  <2>1. ImportOutcome(s, tx, m) /\ ImportOutcome(r, tx, n)
    BY <1>1, <1>9, ImportEffect DEF Body
  <2>2. QED  BY <1>9, <2>1, EscrowImport
<1>10. QED  BY <1>1, <1>2, <1>3, <1>4, <1>5, <1>6, <1>7, <1>8, <1>9 DEF TxTypes

LEMMA AlikeTx ==
    ASSUME NEW s, IsLedger(s), NEW r, IsLedger(r), Alike(s, r), NEW D, EscrowAlike(D, s, r),
           NEW tx, IsTransaction(tx), tx.type = "import" => tx.id \notin D, Funded(r, tx),
           NEW h, NEW skip \in BOOLEAN, NEW m \in ApplyTx(s, tx, h, FALSE)
    PROVE  \E n \in ApplyTx(r, tx, h, skip) : Alike(m, n) /\ EscrowAlike(D, m, n)
<1>1. Admitted(s, tx, h, FALSE) /\ m \in Body(s, tx, h, FALSE)
  BY DEF ApplyTx
<1>2. Admitted(r, tx, h, skip)
  BY <1>1, AlikeAdmits
<1>3. /\ s = AsLedger(s) /\ r = AsLedger(r) /\ s.stake \in [Accounts -> Nat]
      /\ tx.type \in TxTypes /\ r.bal[tx.from] \in Nat
  BY DEF IsLedger, IsTransaction
<1>4. Covered(r, tx)
  BY <1>2 DEF Admitted, Funded
<1>5. AlikeAfter(s, r, tx, h, skip)
  <2>1. CASE tx.type = "init"
    BY <1>3, <2>1, AlikeInit
  <2>2. CASE tx.type = "transfer"
    <3>1. r.bal[tx.from] >= tx.amount + tx.fee
      BY <1>4, <2>2 DEF Covered
    <3>2. QED  BY <1>3, <2>2, <3>1, AlikeTransfer
  <2>3. CASE tx.type \in {"stake", "unstake", "burn"}
    <3>1. ASSUME tx.type = "stake" PROVE ~(r.bal[tx.from] < tx.amount)
      <4>1. r.bal[tx.from] >= tx.amount /\ tx.amount \in Nat
        BY <1>4, <3>1 DEF Covered, IsTransaction
      <4>2. QED  BY <1>3, <4>1
    <3>2. QED  BY <1>3, <2>3, <3>1, AlikeAmount
  <2>4. CASE tx.type = "policy"
    <3>1. r.bal[tx.from] >= tx.fee /\ tx.fee \in Nat
      BY <1>4, <2>4 DEF Covered, IsTransaction
    <3>2. ~(r.bal[tx.from] < tx.fee)
      BY <1>3, <3>1
    <3>3. QED  BY <1>3, <2>4, <3>2, AlikePolicy
  <2>5. CASE tx.type = "claim"
    BY <1>3, <2>5, AlikeClaim DEF EscrowAlike
  <2>6. CASE tx.type = "export"
    <3>1. r.bal[tx.from] >= tx.amount + tx.fee /\ tx.amount + tx.fee \in Nat
      BY <1>4, <2>6 DEF Covered, IsTransaction
    <3>2. ~(r.bal[tx.from] < tx.amount + tx.fee)
      BY <1>3, <3>1
    <3>3. QED  BY <1>3, <2>6, <3>2, AlikeExport
  <2>7. CASE tx.type = "import"
    <3>1. r.bal[tx.from] >= tx.fee
      BY <1>4, <2>7 DEF Covered
    <3>2. QED  BY <1>3, <2>7, <3>1, AlikeImport
  <2>8. QED  BY <1>3, <2>1, <2>2, <2>3, <2>4, <2>5, <2>6, <2>7 DEF TxTypes
<1>6. PICK n \in Body(r, tx, h, skip) : Alike(m, n)
  BY <1>1, <1>5 DEF AlikeAfter
<1>7. EscrowAlike(D, m, n)
  BY <1>1, EscrowAfter
<1>8. QED  BY <1>2, <1>6, <1>7 DEF ApplyTx

\* The same block without its workers' checks.
Unchecked(e) == Raw(TxsOf(e))

LEMMA UncheckedShape ==
    ASSUME LoopTypeOK, NEW e \in Entries
    PROVE  /\ Unchecked(e) \in Entries /\ Len(Unchecked(e)) = Len(e) /\ Len(e) \in Nat
           /\ \A s : Checked(s, Unchecked(e))
           /\ \A k \in 1..Len(e) : Unchecked(e)[k].tx = e[k].tx /\ Unchecked(e)[k].at # height
<1>1. /\ TxsOf(e) \in Seq(Txs) /\ Len(TxsOf(e)) = Len(e) /\ Len(e) \in Nat
      /\ \A k \in 1..Len(e) : TxsOf(e)[k] = e[k].tx
  BY TxsOfShape
<1>2. /\ Raw(TxsOf(e)) \in Entries /\ Len(Raw(TxsOf(e))) = Len(TxsOf(e))
      /\ \A k \in 1..Len(TxsOf(e)) : Raw(TxsOf(e))[k].tx = TxsOf(e)[k]
                                     /\ Raw(TxsOf(e))[k].at = NoHeight
      /\ \A s : Checked(s, Raw(TxsOf(e)))
  BY <1>1, RawShape
<1>3. QED  BY <1>1, <1>2, NoHeightType DEF Unchecked

\* One more entry, with and without its check.
LEMMA AppliedNext ==
    ASSUME NEW r, NEW e \in Entries, NEW k \in 1..Len(e), NEW m
    PROVE  m \in Applied(r, Upto(e, k)) <=>
              \E q \in Applied(r, Upto(e, k - 1)) : m \in ApplyTx(q, e[k].tx, H, e[k].at = height)
<1>1. Applied(r, Upto(e, k)) = After(Applied(r, Upto(e, k - 1)), e[k])
  BY AppliedMore
<1>2. QED  BY <1>1 DEF After

\* What was imported, or refunded, stays so.
LEMMA ImportedStays ==
    ASSUME NEW s, IsLedger(s), NEW tx, IsTransaction(tx), NEW h, NEW skip,
           NEW m \in ApplyTx(s, tx, h, skip)
    PROVE  s.imported \subseteq m.imported
<1>1. s = AsLedger(s) /\ tx.type \in TxTypes /\ m \in Body(s, tx, h, skip)
  BY DEF IsLedger, IsTransaction, ApplyTx
<1>2. CASE tx.type = "init"
  BY <1>1, <1>2, InitEffect DEF Body, InitOutcome, Changes, Fields
<1>3. CASE tx.type = "transfer"
  <2>1. PICK dst : m = IF tx.from \in ConservFlag THEN Enqueue(s, tx, dst, h)
                       ELSE Pay(s, tx, dst)
    BY <1>1, <1>3 DEF Body, Transfer
  <2>2. EnqueueOutcome(s, tx, dst, h, m) \/ PayOutcome(s, tx, dst, m)
    BY <1>1, <2>1, EnqueueEffect, PayEffect
  <2>3. QED  BY <2>2 DEF EnqueueOutcome, PayOutcome, Changes, Fields
<1>4. CASE tx.type \in {"stake", "unstake"}
  <2>1. StakeOutcome(s, tx, m) \/ UnstakeOutcome(s, tx, m)
    BY <1>1, <1>4, StakeEffect, UnstakeEffect DEF Body
  <2>2. QED  BY <2>1 DEF StakeOutcome, UnstakeOutcome, Changes, Fields
<1>5. CASE tx.type \in {"burn", "claim"}
  <2>1. BurnOutcome(s, tx, m) \/ ClaimOutcome(s, tx, m)
    BY <1>1, <1>5, BurnEffect, ClaimEffect DEF Body
  <2>2. QED  BY <2>1 DEF BurnOutcome, ClaimOutcome, Changes, Fields
<1>6. CASE tx.type \in {"export", "import"}
  <2>1. ExportOutcome(s, tx, h, m) \/ ImportOutcome(s, tx, m)
    BY <1>1, <1>6, ExportEffect, ImportEffect DEF Body
  <2>2. QED  BY <2>1 DEF ExportOutcome, ImportOutcome, Changes, Fields
<1>7. CASE tx.type = "policy"
  <2>1. PolicyOutcome(s, tx, h, m)
    BY <1>1, <1>7, PolicyEffect DEF Body
  <2>2. QED  BY <2>1 DEF PolicyOutcome, Changes, Fields
<1>8. QED  BY <1>1, <1>2, <1>3, <1>4, <1>5, <1>6, <1>7 DEF TxTypes

\* No import of an id that is taken applies.
LEMMA TakenRefused ==
    ASSUME NEW s, IsLedger(s), NEW tx, tx.type = "import", tx.id \in s.imported,
           NEW h, NEW skip
    PROVE  ApplyTx(s, tx, h, skip) = {}
<1> SUFFICES ASSUME NEW m \in ApplyTx(s, tx, h, skip) PROVE FALSE
  OBVIOUS
<1>1. s = AsLedger(s) /\ m \in Import(s, tx)
  BY DEF IsLedger, ApplyTx, Body
<1>2. QED  BY <1>1, ImportEffect DEF ImportOutcome, ImportAllowed

\* The block e reaches its entry j, an import of a lock that is due, and fails there.
StopsAt(r, e, j) ==
    /\ ImportsDueLock(e[j].tx)
    /\ Applied(r, Upto(e, j - 1)) # {}
    /\ Applied(r, Upto(e, j)) = {}

(* Where the search reaches a ledger, the block reaches one like it, or has *)
(* failed on an import of a lock it refunded.                              *)
LEMMA AlikeRuns ==
    ASSUME LoopTypeOK, FinalOK(l), Finite(l), NEW r, Grown(l, r), Alike(l, r),
           EscrowAlike(ExpiredLocks(l, H), l, r),
           NEW e \in Entries, Checked(l, e), \A k \in 1..Len(e) : Funded(l, e[k].tx)
    PROVE  \A k \in 0..Len(e) :
              \/ \E j \in 1..Len(e) : StopsAt(r, e, j)
              \/ Applied(l, Upto(Unchecked(e), k)) # {} => Applied(r, Upto(e, k)) # {}
<1> DEFINE u == Unchecked(e)
           D == ExpiredLocks(l, H)
           Good(k) == /\ \A n \in Applied(r, Upto(e, k)) : D \subseteq n.imported
                      /\ \/ \E j \in 1..Len(e) : StopsAt(r, e, j)
                         \/ \A m \in Applied(l, Upto(u, k)) :
                              \E n \in Applied(r, Upto(e, k)) :
                                 Alike(m, n) /\ EscrowAlike(D, m, n)
           T == {k \in Nat : k <= Len(e) => Good(k)}
<1>0. /\ Len(e) \in Nat /\ u \in Entries /\ Len(u) = Len(e) /\ Checked(l, u)
      /\ \A k \in 1..Len(e) : u[k].tx = e[k].tx /\ (u[k].at = height) = FALSE
      /\ IsLedger(l) /\ H \in Nat
  BY UncheckedShape, NoHeightType DEF LoopTypeOK
<1>1. Grown(l, l)
  BY <1>0, SelfGrown
<1>2. /\ \A k \in 0..Len(e) : \A m \in Applied(l, Upto(u, k)) : Grown(l, m)
      /\ \A k \in 0..Len(e) : \A m \in Applied(r, Upto(e, k)) : Grown(l, m)
  <2> HIDE DEF u
  <2>1. QED  BY <1>0, <1>1, AppliedGrown
<1> HIDE DEF u
<1>3. 0 \in T
  <2>1. Applied(l, Upto(u, 0)) = {l} /\ Applied(r, Upto(e, 0)) = {r}
    BY <1>0, AppliedNone
  <2>2. EscrowAlike(D, l, r) /\ D \subseteq r.imported
    BY DEF EscrowAlike
  <2> HIDE DEF D
  <2>3. QED  BY <2>1, <2>2
<1>4. ASSUME NEW k \in 1..Len(e), k - 1 \in T PROVE k \in T
  <2>1. k - 1 \in 0..Len(e) /\ Good(k - 1) /\ k \in Nat
    BY <1>0, <1>4
  <2> HIDE DEF T
  <2>2. IsTransaction(e[k].tx)
    BY EntryAt
  <2>3. /\ \A n \in Applied(r, Upto(e, k - 1)) : D \subseteq n.imported /\ Grown(l, n)
        /\ \A q \in Applied(l, Upto(u, k - 1)) : Grown(l, q)
    BY <1>2, <2>1
  <2>4. ASSUME NEW n \in Applied(r, Upto(e, k)) PROVE D \subseteq n.imported
    <3>1. PICK p \in Applied(r, Upto(e, k - 1)) : n \in ApplyTx(p, e[k].tx, H, e[k].at = height)
      BY AppliedNext
    <3>2. IsLedger(p) /\ D \subseteq p.imported
      BY <2>3 DEF Grown
    <3> HIDE DEF D
    <3>3. QED  BY <2>2, <3>1, <3>2, ImportedStays
  <2>5. ASSUME ~ \E j \in 1..Len(e) : StopsAt(r, e, j), NEW m \in Applied(l, Upto(u, k))
        PROVE  \E n \in Applied(r, Upto(e, k)) : Alike(m, n) /\ EscrowAlike(D, m, n)
    <3>0. PICK q \in Applied(l, Upto(u, k - 1)) : m \in ApplyTx(q, u[k].tx, H, u[k].at = height)
      BY <1>0, <2>5, AppliedNext
    <3>1. m \in ApplyTx(q, e[k].tx, H, FALSE)
      BY <1>0, <3>0
    <3>2. PICK p \in Applied(r, Upto(e, k - 1)) : Alike(q, p) /\ EscrowAlike(D, q, p)
      BY <2>1, <2>5, <3>1
    <3>3. IsLedger(q) /\ IsLedger(p) /\ Later(l, p)
      BY <2>3, <3>1, <3>2 DEF Grown
    <3>4. Funded(p, e[k].tx)
      BY <1>0, <2>2, <3>3, FundedStays
    <3> HIDE DEF Good
    <3>5. e[k].tx.type = "import" => e[k].tx.id \notin D
      <4> SUFFICES ASSUME e[k].tx.type = "import", e[k].tx.id \in D PROVE FALSE
        OBVIOUS
      <4>1. Applied(r, Upto(e, k)) = {}
        <5> SUFFICES ASSUME NEW n \in Applied(r, Upto(e, k)) PROVE FALSE
          OBVIOUS
        <5>1. PICK x \in Applied(r, Upto(e, k - 1)) :
                 n \in ApplyTx(x, e[k].tx, H, e[k].at = height)
          BY AppliedNext
        <5>2. IsLedger(x) /\ e[k].tx.id \in x.imported
          BY <2>3, <5>1 DEF Grown
        <5>3. QED  BY <5>1, <5>2, TakenRefused
      <4>2. ImportsDueLock(e[k].tx)
        BY DEF ImportsDueLock
      <4>3. StopsAt(r, e, k)
        BY <3>2, <4>1, <4>2 DEF StopsAt
      <4>4. QED  BY <2>5, <4>3
    <3>6. (e[k].at = height) \in BOOLEAN
      OBVIOUS
    <3> HIDE DEF D
    <3>7. PICK n \in ApplyTx(p, e[k].tx, H, e[k].at = height) : Alike(m, n) /\ EscrowAlike(D, m, n)
      BY <2>2, <3>1, <3>2, <3>3, <3>4, <3>5, <3>6, AlikeTx
    <3>8. n \in Applied(r, Upto(e, k))
      BY <3>2, <3>7, AppliedNext
    <3>9. QED  BY <3>7, <3>8
  <2> HIDE DEF D
  <2>6. Good(k)
    BY <2>4, <2>5
  <2> HIDE DEF Good
  <2>7. QED  BY <2>1, <2>6 DEF T
<1>5. T \in SUBSET Nat
  OBVIOUS
<1> HIDE DEF T
<1>6. \A k \in 0..Len(e) : k \in T
  BY <1>0, <1>3, <1>4, <1>5, Counting
<1>7. ASSUME NEW k \in 0..Len(e) PROVE Good(k)
  <2> HIDE DEF Good
  <2>1. k \in T /\ k \in Nat /\ k <= Len(e)
    BY <1>0, <1>6
  <2>2. QED  BY <2>1 DEF T
<1> HIDE DEF D
<1>8. QED  BY <1>7 DEF u

LEMMA EscrowRefund ==
    ASSUME NEW s, NEW D, NEW m, m = AsLedger(m), EscrowAlike(D, s, m), NEW id \in DOMAIN s.locks
    PROVE  /\ RefundLock(m, id) = AsLedger(RefundLock(m, id))
           /\ EscrowAlike(D \cup {id}, s, RefundLock(m, id))
<1> PICK n : n = RefundLock(m, id)
  OBVIOUS
<1>1. RefundOutcome(m, id, n)
  BY RefundEffect
<1>2. PICK row : n.locks = Put(m.locks, id, row)
  BY <1>1 DEF RefundOutcome
<1>3. /\ n.claimed = m.claimed /\ n.exported = m.exported
      /\ n.imported = m.imported \cup {id} /\ n = AsLedger(n)
  BY <1>1 DEF RefundOutcome, Changes, Fields
<1>4. DOMAIN n.locks = DOMAIN s.locks
      /\ \A x \in DOMAIN s.locks \ (D \cup {id}) : n.locks[x] = s.locks[x]
  BY <1>2 DEF EscrowAlike, Put
<1>5. EscrowAlike(D \cup {id}, s, n)
  BY <1>3, <1>4 DEF EscrowAlike
<1>6. QED  BY <1>3, <1>5

\* The refunds touch the locks that are due and no others.
LEMMA EscrowRefunded ==
    ASSUME NEW s, IsLedger(s), Finite(s)
    PROVE  EscrowAlike(ExpiredLocks(s, H), s, Refunded(s))
<1> PICK D : D = ExpiredLocks(s, H)
  OBVIOUS
<1>1. D \subseteq DOMAIN s.locks /\ IsFiniteSet(D)
  BY FS_Subset DEF ExpiredLocks, Finite
<1>2. PICK g : /\ g[{}] = s
               /\ \A t \in SUBSET D : t # {} =>
                     \E x \in t : g[t] = RefundLock(g[t \ {x}], x)
               /\ Refunded(s) = g[D]
  BY <1>1, RefundedFold
<1> DEFINE T == {t \in SUBSET D : g[t] = AsLedger(g[t]) /\ EscrowAlike(t, s, g[t])}
<1>3. ASSUME NEW t \in SUBSET D,
             \A r \in SUBSET t : Cardinality(r) < Cardinality(t) => r \in T
      PROVE  t \in T
  <2>1. CASE t = {}
    <3>1. s = AsLedger(s) /\ EscrowAlike({}, s, s)
      BY DEF IsLedger, EscrowAlike
    <3>2. QED  BY <1>2, <2>1, <3>1
  <2>2. CASE t # {}
    <3>1. PICK x \in t : g[t] = RefundLock(g[t \ {x}], x)
      BY <1>2, <2>2
    <3>2. t \ {x} \in T
      <4>1. t \ {x} \in SUBSET t /\ Cardinality(t \ {x}) < Cardinality(t)
        BY <1>1, Smaller
      <4> HIDE DEF T
      <4>2. QED  BY <1>3, <4>1
    <3>3. x \in DOMAIN s.locks /\ (t \ {x}) \cup {x} = t
      BY <1>1
    <3>4. PICK m : m = g[t \ {x}]
      OBVIOUS
    <3>5. m = AsLedger(m) /\ EscrowAlike(t \ {x}, s, m)
      BY <3>2, <3>4
    <3>6. g[t] = AsLedger(g[t]) /\ EscrowAlike((t \ {x}) \cup {x}, s, g[t])
      BY <3>1, <3>3, <3>4, <3>5, EscrowRefund
    <3>7. QED  BY <3>3, <3>6
  <2>3. QED  BY <2>1, <2>2
<1>4. T \in SUBSET SUBSET D
  OBVIOUS
<1> HIDE DEF T
<1>5. T = SUBSET D
  BY <1>1, <1>3, <1>4, SizeInduction
<1>6. QED  BY <1>2, <1>5 DEF T

LEMMA OpenedAlike ==
    ASSUME NEW s, IsLedger(s), Finite(s)
    PROVE  Alike(s, Opened(s)) /\ EscrowAlike(ExpiredLocks(s, H), s, Opened(s))
<1>1. PICK r : r = Opened(s)
  OBVIOUS
<1>2. Changes(s, r, {"bal", "locks", "imported", "active"})
  BY <1>1, OpenedPath
<1>3. Alike(s, r)
  BY <1>2 DEF Changes, Fields, Alike, HasPending
<1>4. PICK q : q = RollEpoch(s, H)
  OBVIOUS
<1>5. IsLedger(q) /\ Changes(s, q, {"active"})
  BY <1>4, RollType, RollEffect DEF IsLedger, RollOutcome
<1>6. /\ q.claimed = s.claimed /\ q.exported = s.exported /\ q.pend = s.pend
      /\ q.imported = s.imported /\ q.locks = s.locks
  BY <1>5 DEF Changes, Fields
<1>7. Finite(q) /\ ExpiredLocks(q, H) = ExpiredLocks(s, H)
  BY <1>6 DEF Finite, ExpiredLocks
<1>8. EscrowAlike(ExpiredLocks(s, H), q, r)
  BY <1>1, <1>4, <1>5, <1>7, EscrowRefunded DEF Opened
<1>9. EscrowAlike(ExpiredLocks(s, H), s, r)
  BY <1>6, <1>8 DEF EscrowAlike
<1>10. QED  BY <1>1, <1>3, <1>9

\* The search applies the prefixes of the block without its checks.
LEMMA RawUpto ==
    ASSUME LoopTypeOK, NEW e \in Entries, NEW k \in 0..Len(e)
    PROVE  Raw(Upto(TxsOf(e), k)) = Upto(Unchecked(e), k)
<1>1. /\ TxsOf(e) \in Seq(Txs) /\ Len(TxsOf(e)) = Len(e) /\ Len(e) \in Nat
      /\ \A j \in 1..Len(e) : TxsOf(e)[j] = e[j].tx
  BY TxsOfShape
<1>2. PICK p : p = Upto(TxsOf(e), k)
  OBVIOUS
<1>3. /\ p \in Seq(Txs) /\ DOMAIN p = 1..k /\ \A j \in 1..k : p[j] = TxsOf(e)[j]
  BY <1>1, <1>2, UptoShape
<1>4. Raw(p) = [j \in 1..k |-> Entry(TxsOf(e)[j], NoHeight)]
  BY <1>3 DEF Raw
<1>5. Unchecked(e) = [j \in 1..Len(e) |-> Entry(TxsOf(e)[j], NoHeight)]
  BY <1>1 DEF Unchecked, Raw
<1>6. /\ Unchecked(e) \in Entries /\ Len(Unchecked(e)) = Len(e)
  BY UncheckedShape
<1>7. PICK u : u = Upto(Unchecked(e), k)
  OBVIOUS
<1>8. /\ u \in Entries /\ DOMAIN u = 1..k
      /\ \A j \in 1..k : u[j] = Unchecked(e)[j]
  BY <1>6, <1>7, UptoShape DEF Entries
<1>9. \A j \in 1..k : u[j] = Entry(TxsOf(e)[j], NoHeight)
  <2>1. \A j \in 1..k : j \in 1..Len(e)
    BY <1>1
  <2>2. \A j \in 1..Len(e) : Unchecked(e)[j] = Entry(TxsOf(e)[j], NoHeight)
    BY <1>5
  <2>3. QED  BY <1>8, <2>1, <2>2
<1>10. u = [j \in 1..k |-> u[j]]
  <2> DEFINE S == [tx : Txs, at : Nat]
  <2>1. u \in Seq(S)
    BY <1>8 DEF Entries
  <2> HIDE DEF S
  <2>2. QED  BY <1>8, <2>1
<1>11. u = Raw(p)
  BY <1>4, <1>9, <1>10
<1>12. QED  BY <1>2, <1>7, <1>11

(* When the search finds no culprit every prefix applies to the tip, and   *)
(* so the block would have, up to an import of a lock it refunded.         *)
LEMMA SearchComplete ==
    ASSUME LoopInv, NoCulprit(Batch)
    PROVE  FailsOnRefund(Batch)
<1> PICK e : e = Batch
  OBVIOUS
<1>1. /\ LoopTypeOK /\ IsLedger(l) /\ Finite(l) /\ FinalOK(l) /\ e \in Entries /\ Checked(l, e)
      /\ \A k \in 1..Len(e) : Funded(l, e[k].tx)
  BY BatchChecked
<1>2. /\ Unchecked(e) \in Entries /\ Len(Unchecked(e)) = Len(e) /\ Len(e) \in Nat
      /\ TxsOf(e) \in Seq(Txs) /\ Len(TxsOf(e)) = Len(e) /\ DOMAIN TxsOf(e) = 1..Len(e)
  BY <1>1, UncheckedShape, TxsOfShape
<1> DEFINE Reached(k) == Applied(l, Raw(Upto(TxsOf(e), k)))
           T == {k \in Nat : k <= Len(e) => Reached(k) # {}}
<1>p. HasProducer(RollEpoch(l, H)) /\ SealEntries(e) = {} /\ FirstBad(TxsOf(e)) = {}
  BY DEF NoCulprit
<1>3. \A k \in 1..Len(e) : Reached(k - 1) # {} => Reached(k) # {}
  BY <1>2, <1>p DEF FirstBad
<1>4. \A k \in 0..Len(e) : Reached(k) = Applied(l, Upto(Unchecked(e), k))
  BY <1>1, RawUpto
<1>5. 0 \in T
  <2>1. Applied(l, Upto(Unchecked(e), 0)) = {l}
    BY <1>2, AppliedNone
  <2>2. 0 \in 0..Len(e)
    BY <1>2
  <2> HIDE DEF Reached
  <2>3. QED  BY <1>4, <2>1, <2>2
<1> HIDE DEF Reached
<1>6. \A k \in 1..Len(e) : k - 1 \in T => k \in T
  BY <1>2, <1>3
<1>7. T \in SUBSET Nat
  OBVIOUS
<1> HIDE DEF T
<1>8. Len(e) \in 0..Len(e)
  BY <1>2
<1>9. Len(e) \in T
  BY <1>2, <1>5, <1>6, <1>7, <1>8, Counting
<1>10. Reached(Len(e)) # {}
  BY <1>2, <1>9 DEF T
<1>11. /\ Grown(l, Opened(l)) /\ Alike(l, Opened(l))
       /\ EscrowAlike(ExpiredLocks(l, H), l, Opened(l))
  BY <1>1, OpenedAlike, SelfGrown, OpenedAround, AroundGrown
<1>12. \/ \E j \in 1..Len(e) : StopsAt(Opened(l), e, j)
       \/ Applied(Opened(l), Upto(e, Len(e))) # {}
  BY <1>1, <1>4, <1>8, <1>10, <1>11, AlikeRuns
<1>13. Upto(e, Len(e)) = e
  BY <1>1, <1>8, UptoShape DEF Entries
<1>14. PICK j \in 1..Len(e) : StopsAt(Opened(l), e, j)
  BY <1>p, <1>12, <1>13 DEF SealEntries
<1>15. j \in DOMAIN e
  BY <1>1, <1>2 DEF Entries
<1>16. QED  BY <1>14, <1>15 DEF StopsAt, FailsOnRefund

(* A batch that fails where there is a producer has its culprit found, so  *)
(* that it is not requeued whole, or it fails on an import of a lock that  *)
(* the block refunded: nothing else that a block does before or between    *)
(* its transactions hides a culprit from the search.                       *)
THEOREM CulpritIsFound == LoopSpec => []CulpritFound
<1>1. LoopSpec => []LoopInv
  BY InitLoopInv, NextLoopInv, PTL DEF LoopSpec
<1>2. LoopInv => CulpritFound
  BY SearchComplete DEF CulpritFound
<1>3. QED  BY <1>1, <1>2, PTL

-----------------------------------------------------------------------------
(* Why a follower is lost.                                                 *)

\* Only the activation of a redirect that was not active makes an account final.
LEMMA FinalizesOnly ==
    ASSUME NEW s, IsLedger(s), NEW tx, IsTransaction(tx), NEW h, NEW skip,
           NEW m \in ApplyTx(s, tx, h, skip)
    PROVE  m.fin = s.fin \/ Redirect \notin s.pol[tx.from].active
<1>1. s = AsLedger(s) /\ tx.type \in TxTypes /\ m \in Body(s, tx, h, skip)
  BY DEF IsLedger, IsTransaction, ApplyTx
<1>2. CASE tx.type = "init"
  <2>1. InitOutcome(s, tx, h, m)
    BY <1>1, <1>2, InitEffect DEF Body
  <2>2. QED  BY <2>1 DEF InitOutcome, Changes, Fields
<1>3. CASE tx.type = "transfer"
  <2>1. PICK dst : m = IF tx.from \in ConservFlag THEN Enqueue(s, tx, dst, h)
                       ELSE Pay(s, tx, dst)
    BY <1>1, <1>3 DEF Body, Transfer
  <2>2. EnqueueOutcome(s, tx, dst, h, m) \/ PayOutcome(s, tx, dst, m)
    BY <1>1, <2>1, EnqueueEffect, PayEffect
  <2>3. QED  BY <2>2 DEF EnqueueOutcome, PayOutcome, Changes, Fields
<1>4. CASE tx.type \in {"stake", "unstake"}
  <2>1. StakeOutcome(s, tx, m) \/ UnstakeOutcome(s, tx, m)
    BY <1>1, <1>4, StakeEffect, UnstakeEffect DEF Body
  <2>2. QED  BY <2>1 DEF StakeOutcome, UnstakeOutcome, Changes, Fields
<1>5. CASE tx.type \in {"burn", "claim"}
  <2>1. BurnOutcome(s, tx, m) \/ ClaimOutcome(s, tx, m)
    BY <1>1, <1>5, BurnEffect, ClaimEffect DEF Body
  <2>2. QED  BY <2>1 DEF BurnOutcome, ClaimOutcome, Changes, Fields
<1>6. CASE tx.type \in {"export", "import"}
  <2>1. ExportOutcome(s, tx, h, m) \/ ImportOutcome(s, tx, m)
    BY <1>1, <1>6, ExportEffect, ImportEffect DEF Body
  <2>2. QED  BY <2>1 DEF ExportOutcome, ImportOutcome, Changes, Fields
<1>7. CASE tx.type = "policy"
  <2>1. PolicyOutcome(s, tx, h, m)
    BY <1>1, <1>7, PolicyEffect DEF Body
  <2>2. QED  BY <2>1 DEF PolicyOutcome, Finalizes
<1>8. QED  BY <1>1, <1>2, <1>3, <1>4, <1>5, <1>6, <1>7 DEF TxTypes

\* Nobody's policies have changed since s: routes and gates are those of s.
SamePolicies(s, q) == q.pol = s.pol /\ q.fin = s.fin /\ Grows(s, q)

\* Somebody changed its policies since s, and spent a nonce on it.
PoliciesMoved(s, q) ==
    \E a \in Accounts : q.pol[a] # s.pol[a] /\ q.nonce[a] > s.nonce[a]

LEMMA SameRoute ==
    ASSUME NEW s, FinalOK(s), NEW q, SamePolicies(s, q), NEW a, NEW b \in s.open,
           NEW g, NEW h, RouteTo(s, a, b, g) = {b}, RouteTo(s, a, b, h) # {}
    PROVE  b \in RouteTo(q, a, b, h)
<1>1. q.pol = s.pol /\ q.fin = s.fin /\ s.open \subseteq q.open
      /\ \A c \in s.open \cap DOMAIN s.rescue :
            c \in DOMAIN q.rescue /\ q.rescue[c] = s.rescue[c]
  BY DEF SamePolicies, Grows
<1>2. CASE b \in s.fin
  <2>1. \A x : ActiveAt(s.pol[b], Redirect, x)
    BY <1>2 DEF FinalOK, ActiveAt
  <2>2. RescueOf(s, a, b) = {b}
    BY <1>2, <2>1 DEF RouteTo
  <2>3. b \in DOMAIN s.rescue /\ s.rescue[b] = b /\ SameHi(a, s.rescue[b])
    BY <2>2 DEF RescueOf
  <2>4. RescueOf(q, a, b) = {b}
    BY <1>1, <2>3 DEF RescueOf
  <2>5. QED  BY <1>1, <1>2, <2>1, <2>4 DEF RouteTo
<1>3. CASE b \notin s.fin
  BY <1>1, <1>3 DEF RouteTo
<1>4. QED  BY <1>2, <1>3

(* What a worker checked holds in the block as long as the policies are    *)
(* those of the tip.                                                       *)
LEMMA CheckHolds ==
    ASSUME NEW s, IsLedger(s), FinalOK(s), NEW q, SamePolicies(s, q),
           NEW tx, IsTransaction(tx), NEW h, NEW skip \in BOOLEAN,
           skip => PrecheckPasses(s, tx, h), NEW m \in ApplyTx(q, tx, h, skip)
    PROVE  m \in ApplyTx(q, tx, h, FALSE)
<1>1. CASE skip = FALSE
  BY <1>1
<1>2. CASE skip = TRUE
  <2>1. PICK x : x \in ApplyTx(s, tx, h, FALSE)
    BY <1>2 DEF PrecheckPasses
  <2>2. SenderAllowed(s, tx, h) /\ x \in Body(s, tx, h, FALSE)
    BY <2>1 DEF ApplyTx, Admitted
  <2>3. SenderAllowed(q, tx, h)
    BY <2>2 DEF SenderAllowed, FinalizedBlocks, CosignMissing, SamePolicies
  <2>4. Admitted(q, tx, h, TRUE) /\ m \in Body(q, tx, h, TRUE)
    BY <1>2 DEF ApplyTx
  <2>5. Admitted(q, tx, h, FALSE)
    BY <2>3, <2>4 DEF Admitted
  <2>6. m \in Body(q, tx, h, FALSE)
    <3>1. CASE tx.type # "transfer"
      <4>1. tx.type \in TxTypes \ {"transfer"}
        BY <3>1 DEF IsTransaction
      <4>2. Body(q, tx, h, TRUE) = Body(q, tx, h, FALSE)
        BY <4>1 DEF Body, TxTypes
      <4>3. QED  BY <2>4, <4>2
    <3>2. CASE tx.type = "transfer"
      <4>1. m \in Transfer(q, tx, h, TRUE) /\ x \in Transfer(s, tx, h, FALSE)
        BY <2>2, <2>4, <3>2 DEF Body
      <4>2. PICK d \in s.open : d \in IF tx.to \notin s.open THEN {tx.to}
                                      ELSE RouteTo(s, tx.from, tx.to, h)
        BY <4>1 DEF Transfer
      <4>3. tx.to \in s.open /\ RouteTo(s, tx.from, tx.to, h) # {}
        BY <4>2
      <4>4. RouteTo(s, tx.from, tx.to, h - 1) = {tx.to}
        BY <1>2, <3>2, <4>3 DEF PrecheckPasses
      <4>5. tx.to \in RouteTo(q, tx.from, tx.to, h)
        BY <4>3, <4>4, SameRoute
      <4>6. m \in Transfer(q, tx, h, FALSE)
        BY <4>1, <4>5 DEF Transfer
      <4>7. QED  BY <3>2, <4>6 DEF Body
    <3>3. QED  BY <3>1, <3>2
  <2>7. QED  BY <2>5, <2>6 DEF ApplyTx
<1>3. QED  BY <1>1, <1>2

LEMMA PoliciesStayMoved ==
    ASSUME NEW s, IsLedger(s), NEW q, IsLedger(q), PoliciesMoved(s, q),
           NEW tx, IsTransaction(tx), Funded(s, tx), NEW h \in Nat, NEW skip,
           NEW m \in ApplyTx(q, tx, h, skip)
    PROVE  PoliciesMoved(s, m)
<1>1. PICK a \in Accounts : q.pol[a] # s.pol[a] /\ q.nonce[a] > s.nonce[a]
  BY DEF PoliciesMoved
<1>2. tx.nonce = q.nonce[tx.from] /\ tx.nonce <= s.nonce[tx.from]
  BY DEF ApplyTx, Admitted, Funded
<1>3. a # tx.from
  <2>1. q.nonce[a] \in Nat /\ s.nonce[a] \in Nat
    BY DEF IsLedger
  <2>2. QED  BY <1>1, <1>2, <2>1
<1>4. m.pol[a] = q.pol[a] /\ m.nonce[a] = q.nonce[a]
  <2>1. TxOutcome(q, tx, m)
    BY ApplyTxOutcome
  <2>2. QED  BY <1>3, <2>1 DEF TxOutcome, Untouched
<1>5. QED  BY <1>1, <1>4 DEF PoliciesMoved

LEMMA PoliciesStep ==
    ASSUME NEW s, IsLedger(s), NEW q, IsLedger(q), Later(s, q), SamePolicies(s, q),
           NEW tx, IsTransaction(tx), NEW h \in Nat, NEW skip,
           NEW m \in ApplyTx(q, tx, h, skip)
    PROVE  SamePolicies(s, m) \/ PoliciesMoved(s, m)
<1>1. IsLedger(m) /\ TxOutcome(q, tx, m)
  BY ApplyTxType, ApplyTxOutcome
<1>2. q.pol = s.pol /\ q.fin = s.fin /\ Grows(s, q) /\ tx.from \in Accounts
  BY DEF SamePolicies, IsTransaction
<1>3. Grows(s, m)
  <2>1. Grows(q, m)
    BY <1>1 DEF TxOutcome
  <2>2. QED  BY <1>2, <2>1 DEF Grows
<1>4. CASE m.pol = q.pol
  <2>1. m.fin = q.fin
    <3>1. ASSUME NowFinal(q, tx, m) PROVE Redirect \in q.pol[tx.from].active
      BY <1>4, <3>1 DEF NowFinal
    <3>2. QED  BY <1>1, <3>1, FinalizesOnly DEF TxOutcome
  <2>2. QED  BY <1>2, <1>3, <1>4, <2>1 DEF SamePolicies
<1>5. CASE m.pol # q.pol
  <2>1. m.nonce = Plus(q.nonce, tx.from, 1)
    <3>1. ASSUME NEW dst, EnqueueOutcome(q, tx, dst, h, m) PROVE m.pol = q.pol
      BY <3>1 DEF EnqueueOutcome, Changes, Fields
    <3>2. QED  BY <1>5, <3>1, SignerMoves
  <2>2. m.nonce[tx.from] > s.nonce[tx.from]
    <3>1. q.nonce \in [Accounts -> Nat] /\ s.nonce[tx.from] \in Nat
      BY <1>2 DEF IsLedger
    <3>2. m.nonce[tx.from] = q.nonce[tx.from] + 1
      BY <1>2, <2>1, <3>1 DEF Plus
    <3>3. q.nonce[tx.from] >= s.nonce[tx.from] /\ q.nonce[tx.from] \in Nat
      BY <1>2, <3>1 DEF Later
    <3>4. QED  BY <3>1, <3>2, <3>3
  <2>3. m.pol[tx.from] # q.pol[tx.from]
    <3>1. \A a \in Accounts \ {tx.from} : m.pol[a] = q.pol[a]
      BY <1>1 DEF TxOutcome, Untouched
    <3>2. m.pol \in [Accounts -> PolicySets] /\ q.pol \in [Accounts -> PolicySets]
      BY <1>1 DEF IsLedger
    <3>3. QED  BY <1>5, <3>1, <3>2
  <2>4. QED  BY <1>2, <2>2, <2>3 DEF PoliciesMoved
<1>6. QED  BY <1>4, <1>5

(* A block of the loop can be replayed unless it changes somebody's        *)
(* policies.                                                               *)
LEMMA FollowerRuns ==
    ASSUME LoopTypeOK, FinalOK(l), NEW r, Grown(l, r), SamePolicies(l, r),
           NEW e \in Entries, Checked(l, e), \A k \in 1..Len(e) : Funded(l, e[k].tx)
    PROVE  \A k \in 0..Len(e) : \A m \in Applied(r, Upto(e, k)) :
              \/ PoliciesMoved(l, m)
              \/ m \in Applied(r, Upto(Unchecked(e), k)) /\ SamePolicies(l, m)
<1> DEFINE u == Unchecked(e)
           Good(k) == \A m \in Applied(r, Upto(e, k)) :
                         \/ PoliciesMoved(l, m)
                         \/ m \in Applied(r, Upto(u, k)) /\ SamePolicies(l, m)
           T == {k \in Nat : k <= Len(e) => Good(k)}
<1>0. /\ Len(e) \in Nat /\ u \in Entries /\ Len(u) = Len(e)
      /\ \A k \in 1..Len(e) : u[k].tx = e[k].tx /\ (u[k].at = height) = FALSE
      /\ IsLedger(l) /\ H \in Nat
  BY UncheckedShape, NoHeightType DEF LoopTypeOK
<1>2. \A k \in 0..Len(e) : \A m \in Applied(r, Upto(e, k)) : Grown(l, m)
  BY <1>0, AppliedGrown
<1> HIDE DEF u
<1>3. 0 \in T
  <2>1. Applied(r, Upto(u, 0)) = {r} /\ Applied(r, Upto(e, 0)) = {r}
    BY <1>0, AppliedNone
  <2>2. QED  BY <2>1
<1>4. ASSUME NEW k \in 1..Len(e), k - 1 \in T PROVE k \in T
  <2> SUFFICES ASSUME NEW m \in Applied(r, Upto(e, k))
               PROVE  \/ PoliciesMoved(l, m)
                      \/ m \in Applied(r, Upto(u, k)) /\ SamePolicies(l, m)
    BY <1>0
  <2>1. k - 1 \in 0..Len(e) /\ Good(k - 1)
    BY <1>0, <1>4
  <2> HIDE DEF T
  <2>2. PICK q \in Applied(r, Upto(e, k - 1)) : m \in ApplyTx(q, e[k].tx, H, e[k].at = height)
    BY <1>0, AppliedNext
  <2>3. IsLedger(q) /\ Later(l, q)
    BY <1>2, <2>1, <2>2 DEF Grown
  <2>4. /\ IsTransaction(e[k].tx) /\ Funded(l, e[k].tx)
        /\ e[k].at = height => PrecheckPasses(l, e[k].tx, H)
        /\ (e[k].at = height) \in BOOLEAN
    BY EntryAt DEF Checked
  <2>5. CASE PoliciesMoved(l, q)
    BY <1>0, <2>2, <2>3, <2>4, <2>5, PoliciesStayMoved
  <2>6. CASE q \in Applied(r, Upto(u, k - 1)) /\ SamePolicies(l, q)
    <3>1. m \in ApplyTx(q, e[k].tx, H, FALSE)
      BY <1>0, <2>2, <2>4, <2>6, CheckHolds
    <3>2. m \in ApplyTx(q, u[k].tx, H, u[k].at = height)
      BY <1>0, <3>1
    <3>3. m \in Applied(r, Upto(u, k))
      BY <1>0, <2>6, <3>2, AppliedNext
    <3>4. SamePolicies(l, m) \/ PoliciesMoved(l, m)
      BY <1>0, <2>3, <2>4, <2>6, <3>1, PoliciesStep
    <3>5. QED  BY <3>3, <3>4
  <2>7. QED  BY <2>1, <2>2, <2>5, <2>6
<1>5. T \in SUBSET Nat
  OBVIOUS
<1> HIDE DEF T
<1>6. \A k \in 0..Len(e) : k \in T
  BY <1>0, <1>3, <1>4, <1>5, Counting
<1>7. QED  BY <1>6 DEF T, u

LEMMA OpenedSame ==
    ASSUME NEW s, IsLedger(s), Finite(s)
    PROVE  SamePolicies(s, Opened(s))
<1>1. PICK r : r = Opened(s)
  OBVIOUS
<1>2. Changes(s, r, {"bal", "locks", "imported", "active"})
  BY <1>1, OpenedPath
<1>3. QED  BY <1>1, <1>2 DEF Changes, Fields, SamePolicies, Grows

LEMMA BatchReplays ==
    ASSUME LoopInv, NEW s \in SealEntries(Batch), s \notin Replayed(Batch)
    PROVE  \E a \in Accounts : s.pol[a] # l.pol[a]
<1> PICK e : e = Batch
  OBVIOUS
<1>1. /\ LoopTypeOK /\ IsLedger(l) /\ Finite(l) /\ FinalOK(l) /\ e \in Entries /\ Checked(l, e)
      /\ \A k \in 1..Len(e) : Funded(l, e[k].tx)
  BY BatchChecked
<1>2. /\ Unchecked(e) \in Entries /\ Len(Unchecked(e)) = Len(e) /\ Len(e) \in Nat
      /\ Len(e) \in 0..Len(e) /\ H \in Nat
  BY <1>1, UncheckedShape, NoHeightType
<1>3. Upto(e, Len(e)) = e /\ Upto(Unchecked(e), Len(e)) = Unchecked(e)
  BY <1>1, <1>2, UptoShape DEF Entries
<1>4. HasProducer(RollEpoch(l, H))
  BY DEF SealEntries
<1>5. PICK r \in Applied(Opened(l), e) : s = Closed(r)
  BY DEF SealEntries
<1>6. r \notin Applied(Opened(l), Unchecked(e))
  BY <1>4, <1>5 DEF Replayed, SealEntries, Unchecked
<1>7. Grown(l, Opened(l)) /\ SamePolicies(l, Opened(l))
  BY <1>1, OpenedSame, SelfGrown, OpenedAround, AroundGrown
<1>8. PoliciesMoved(l, r)
  BY <1>1, <1>2, <1>3, <1>5, <1>6, <1>7, FollowerRuns
<1>9. Grown(l, r)
  BY <1>1, <1>2, <1>3, <1>5, <1>7, AppliedGrown
<1>10. s.pol = r.pol
  <2>1. AroundTxs(r, s)
    BY <1>5, <1>9, ClosedAround DEF Grown
  <2>2. QED  BY <2>1 DEF AroundTxs, BlockOutcome, Changes, Fields
<1>11. QED  BY <1>8, <1>10 DEF PoliciesMoved

\* A follower always replays what has no worker's check.
LEMMA RawReplays ==
    ASSUME LoopTypeOK, NEW txs \in Seq(Txs)
    PROVE  Replayed(Raw(txs)) = SealEntries(Raw(txs))
<1>1. /\ DOMAIN txs = 1..Len(txs) /\ txs = [k \in 1..Len(txs) |-> txs[k]]
      /\ DOMAIN Raw(txs) = 1..Len(txs)
  BY DEF Raw
<1>2. \A k \in 1..Len(txs) : Raw(txs)[k].tx = txs[k]
  BY RawShape
<1>3. TxsOf(Raw(txs)) = txs
  BY <1>1, <1>2 DEF TxsOf
<1>4. QED  BY <1>3 DEF Replayed

LEMMA LostByPolicies ==
    ASSUME LoopInv, [LoopNext]_loopVars, agrees, ~agrees'
    PROVE  \E a \in Accounts : l'.pol[a] # l.pol[a]
<1>1. agrees' # agrees
  OBVIOUS
<1>2. PICK e : Seals(e)
  <2>1. LoopNext
    BY <1>1 DEF loopVars
  <2>2. StepOfLoop
    BY <2>1, LoopSteps
  <2>3. QED  BY <1>1, <2>2 DEF StepOfLoop, Arrives, Requeues
<1>3. PICK s \in SealEntries(e) : l' = s /\ agrees' = (agrees /\ s \in Replayed(e))
  BY <1>2 DEF Seals, Advance
<1>4. s \notin Replayed(e)
  BY <1>3
<1>5. LoopTypeOK
  BY DEF LoopInv
<1>6. CASE e = Batch
  BY <1>3, <1>4, <1>6, BatchReplays
<1>7. ASSUME NEW txs \in Seq(Txs), e = Raw(txs) PROVE FALSE
  BY <1>3, <1>4, <1>5, <1>7, RawReplays
<1>8. QED  BY <1>2, <1>6, <1>7 DEF Seals

(* A follower is lost only in a block that changes somebody's policies.    *)
THEOREM FollowersLostByPolicies == LoopSpec => DivergenceNeedsPolicyChange
<1>1. LoopSpec => []LoopInv
  BY InitLoopInv, NextLoopInv, PTL DEF LoopSpec
<1>2. LoopInv /\ [LoopNext]_loopVars
        => [agrees /\ ~agrees' => \E a \in Accounts : l'.pol[a] # l.pol[a]]_loopVars
  BY LostByPolicies
<1>3. QED  BY <1>1, <1>2, PTL DEF LoopSpec, DivergenceNeedsPolicyChange
=============================================================================
