------------------------------- MODULE Ledger -------------------------------
(***************************************************************************)
(* One shard's chain as its proposer runs it: Chain::seal_entries, block   *)
(* after block (pwm-core/src/chain.rs).  A block rolls the epoch, refunds  *)
(* expired export locks, applies its transactions in order, refunds again, *)
(* drains the conservation transfers that fell due and pays the producer.  *)
(*                                                                         *)
(* The code does all this on a clone of the state and keeps the clone only *)
(* when every transaction applied, so a block that fails leaves no trace:  *)
(* the model follows the blocks that succeed, one step of the clone at a   *)
(* time.  A transaction comes either raw or prevalidated by a worker that  *)
(* checked it against the tip; a prevalidated one is applied without       *)
(* evaluating the policies again.                                          *)
(***************************************************************************)
EXTENDS Chain, Functions

CONSTANT Facts      \* exports of other chains that handoffs registered

VARIABLES phase,    \* where the block under construction stands
          tip,      \* Chain::st at the sealed tip, the workers' snapshot
          visit,    \* the due rows the drain has not reached yet
          issued    \* history: value created by rewards, claims, imports

\* Between two blocks the clone l is the tip itself.
vars == <<height, phase, tip, l, visit, issued>>

Phases == {"idle", "refund", "txs", "settle", "drain"}

\* What a handoff registers was exported by an account of another chain.
ASSUME FactsAssumption ==
    \A id \in DOMAIN Facts : id \in Foreign \X Nat /\ Facts[id] \in Provenances

Init == /\ height = 0
        /\ phase = "idle"
        /\ tip = Start
        /\ l = Start
        /\ visit = {}
        /\ issued = 0

-----------------------------------------------------------------------------
(* seal_entries starts: without an active validator there is no producer   *)
(* and the block is abandoned.                                             *)
BeginBlock ==
    /\ phase = "idle"
    /\ height < MaxHeight
    /\ HasProducer(RollEpoch(l, H))
    /\ l' = RollEpoch(l, H)
    /\ phase' = "refund"
    /\ UNCHANGED <<height, tip, visit, issued>>

(* One iteration of refund_exp_locks, which runs before and after the      *)
(* transactions; the iterations touch different locks and commute.         *)
Refund ==
    /\ phase \in {"refund", "settle"}
    /\ \E id \in ExpiredLocks(l, H) : l' = RefundLock(l, id)
    /\ UNCHANGED <<height, phase, tip, visit, issued>>

RefundsDone ==
    /\ phase = "refund"
    /\ ExpiredLocks(l, H) = {}
    /\ phase' = "txs"
    /\ UNCHANGED <<height, tip, l, visit, issued>>

\* What a transaction adds to the shard's supply: claims, and imports whose
\* export was made on another chain.
Issued(tx) ==
    CASE tx.type = "claim"  -> Allocation
      [] tx.type = "import" -> IF tx.id \in DOMAIN l.locks THEN 0 ELSE tx.amount
      [] OTHER              -> 0

(* One entry of the block, raw or prevalidated against the tip.            *)
Include(tx, skip) ==
    /\ phase = "txs"
    /\ tx.type = "import" => ImportKnown(tip, tx, Facts)
    /\ skip => PrecheckPasses(tip, tx, H)
    /\ l' \in ApplyTx(l, tx, H, skip)
    /\ issued' = issued + Issued(tx)
    /\ UNCHANGED <<height, phase, tip, visit>>

IncludeType(type) ==
    \E tx \in {t \in Txs : t.type = type}, skip \in BOOLEAN : Include(tx, skip)

CloseTxs ==
    /\ phase = "txs"
    /\ phase' = "settle"
    /\ UNCHANGED <<height, tip, l, visit, issued>>

BeginDrain ==
    /\ phase = "settle"
    /\ ExpiredLocks(l, H) = {}
    /\ phase' = "drain"
    /\ visit' = {row \in l.pend : H >= row.at}
    /\ UNCHANGED <<height, tip, l, issued>>

\* Fault: a row that was applied is visited again.
DrainAgain ==
    /\ phase = "drain"
    /\ \E row \in {r \in visit : \A s \in visit : r.at <= s.at} :
          /\ l' \in IF DrainRoutes(l, row, H) = {} THEN {l}
                    ELSE {DrainRow(l, row, dst) : dst \in DrainRoutes(l, row, H)}
          /\ visit' = visit
    /\ UNCHANGED <<height, phase, tip, issued>>

(* One iteration of drain_conservation_at_height, oldest row first.  A row *)
(* that cannot be applied stays queued and is tried again at the next one. *)
Drain ==
    /\ phase = "drain"
    /\ \E row \in {r \in visit : \A s \in visit : r.at <= s.at} :
          /\ l' \in IF DrainRoutes(l, row, H) = {} THEN {l}
                    ELSE {DrainRow(l, row, dst) : dst \in DrainRoutes(l, row, H)}
          /\ visit' = visit \ {row}
    /\ UNCHANGED <<height, phase, tip, issued>>

(* The producer is paid and the clone becomes the chain's state.           *)
Seal ==
    /\ phase = "drain"
    /\ visit = {}
    /\ l' = PayReward(l, Producer(l, H))
    /\ tip' = l'
    /\ issued' = issued + PaidReward(l, Producer(l, H))
    /\ height' = H
    /\ phase' = "idle"
    /\ UNCHANGED visit

Next == \/ BeginBlock \/ Refund \/ RefundsDone
        \/ IncludeType("init") \/ IncludeType("transfer")
        \/ IncludeType("stake") \/ IncludeType("unstake")
        \/ IncludeType("burn") \/ IncludeType("claim")
        \/ IncludeType("export") \/ IncludeType("import")
        \/ IncludeType("policy")
        \/ CloseTxs \/ BeginDrain \/ Drain \/ Seal

Spec == Init /\ [][Next]_vars

-----------------------------------------------------------------------------
(* Properties                                                              *)

TypeOK == /\ height \in Nat
          /\ phase \in Phases
          /\ IsLedger(tip)
          /\ IsLedger(l)
          /\ visit \subseteq l.pend
          /\ issued \in Nat

(* A queued conservation transfer can always be executed as far as its     *)
(* sender is concerned: the sender is a registered, unfinalized            *)
(* conservation account, its nonce is the row's and its balance covers the *)
(* row.  So in apply_due_conservation only the recipient's gate can fail,  *)
(* and a sender never has two rows competing for one nonce.                *)
PendingExecutable ==
    \A row \in l.pend :
        /\ row.sender \in (l.open \cap ConservFlag) \ l.fin
        /\ l.nonce[row.sender] = row.nonce
        /\ l.bal[row.sender] >= row.amount + row.fee
        /\ \A other \in l.pend : other.sender = row.sender => other = row

(* A row leaves the queue only when its sender's nonce has moved past it,  *)
(* by its execution or by the emergency activation that cancels it: the    *)
(* signed transfer it came from can never be applied a second time.        *)
RowConsumesNonce ==
    [][\A row \in l.pend \ l'.pend : l'.nonce[row.sender] > row.nonce]_vars

(* The value of an export is either locked or has been handed out, once:   *)
(* a lock is open exactly while its id is not consumed.  Import refuses    *)
(* consumed ids and the refund passes over closed locks.                   *)
EscrowExclusive ==
    \A id \in DOMAIN l.locks :
        l.locks[id].state = "Locked" <=> id \notin l.imported

\* The states of the locks, as Mode B names them.
SignedExports == {ExportId(tx) : tx \in {t \in Txs : t.type = "export"}}

InState(state) == {id \in DOMAIN l.locks : l.locks[id].state = state}

Escrow == INSTANCE ModeB WITH Ids <- SignedExports,
                              locked <- InState("Locked"),
                              released <- InState("Released"),
                              refunded <- InState("Refunded")

(* The locks of the chain go through the states that Mode B promises, one  *)
(* lock at a time: a transaction or a refund moves one lock, an import that*)
(* finds no open lock moves none, and a repeated export opens none.        *)
ImplementsModeB == Escrow!Spec

LockedValue(s) ==
    SumFunction([id \in {i \in DOMAIN s.locks : s.locks[i].state = "Locked"}
              |-> s.locks[id].amount])

Supply(s) == SumFunction(s.bal) + SumFunction(s.stake) + s.fees + LockedValue(s)

(* Balances, stakes, fees and open locks add up to what there was at the   *)
(* start plus what rewards, claims and imports issued, at every step of    *)
(* every block: no transfer, drain, sweep, export or refund creates or     *)
(* destroys value.                                                         *)
SupplyConserved == Supply(l) = Supply(Start) + issued

(* A finalized account redirects to a rescue account that can receive: the *)
(* redirect is active at every height and the rescue address is registered *)
(* in the same domain.                                                     *)
FinalizedRedirects ==
    \A a \in l.fin :
        /\ Redirect \in l.pol[a].active
        /\ a \in DOMAIN l.rescue
        /\ l.rescue[a] \in l.open
        /\ SameHi(a, l.rescue[a])

(* Nothing an owner or a block does moves a finalized account again: it    *)
(* stays finalized, its nonce, stake and policies stand still and its      *)
(* balance never falls.  Not even a prevalidated entry, which skips the    *)
(* finalized check, gets through.                                          *)
FinalizedFrozen ==
    [][\A a \in l.fin : /\ a \in l'.fin
                        /\ l'.nonce[a] = l.nonce[a]
                        /\ l'.stake[a] = l.stake[a]
                        /\ l'.pol[a] = l.pol[a]
                        /\ l'.bal[a] >= l.bal[a]]_vars
=============================================================================
