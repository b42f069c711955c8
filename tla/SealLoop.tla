------------------------------ MODULE SealLoop ------------------------------
(***************************************************************************)
(* The assembly of a block in the seal loop of pwmd (spawn_seal_loop):     *)
(* what the loop takes from the validated queue and from the pool, what it *)
(* does when the block cannot be sealed, and whether a follower can replay *)
(* what it seals.  The ledger is the one of LedgerOps; the steps inside a  *)
(* block, which Ledger follows one by one, are folds here, because the     *)
(* write lock is held from the drain of the queue to the new tip.          *)
(*                                                                         *)
(* An entry is a transaction and the height a worker checked it at, or     *)
(* NoHeight for a raw one.  The workers' races are in Pipeline: here a     *)
(* check is of the tip of its height, and the entry may wait.  The gates   *)
(* before the lock are in Lease and Cluster, the autosnapshot after it and *)
(* its rollback in Pipeline.                                               *)
(***************************************************************************)
EXTENDS Chain, SequencesExt

CONSTANTS BlockCap,   \* block_cap
          QueueCap,   \* capacity of the validated queue
          PoolCap,    \* Mpool::cap
          MaxArrivals \* bound: transactions that arrive

ASSUME CapsAssumption ==
    {BlockCap, QueueCap, PoolCap, MaxHeight, MaxArrivals} \subseteq Nat \ {0}

\* Here l and height are those of the sealed tip.
VARIABLES queue,    \* the validated channel
          pool,     \* Mpool
          evicted,  \* evicted_hashes and evicted_tip
          arrived,  \* transactions accepted so far
          accepted, \* history: the height each was last accepted at
          blamed,   \* history: evictions of a transaction as the first bad one
          agrees    \* history: a follower has replayed every block so far

loopVars == <<l, height, queue, pool, evicted, arrived, accepted, blamed, agrees>>

NoHeight == MaxHeight + 1

Entry(tx, at) == [tx |-> tx, at |-> at]
Raw(txs)      == [k \in DOMAIN txs |-> Entry(txs[k], NoHeight)]
TxsOf(entries) == [k \in DOMAIN entries |-> entries[k].tx]
Upto(s, n)    == SubSeq(s, 1, IF n < Len(s) THEN n ELSE Len(s))
From(s, n)    == SubSeq(s, n, Len(s))

LoopInit == /\ l = Start
            /\ height = 0
            /\ queue = <<>> /\ pool = <<>>
            /\ evicted = [tip |-> 0, txs |-> {}]
            /\ arrived = 0
            /\ accepted = [tx \in Txs |-> NoHeight]
            /\ blamed = {}
            /\ agrees = TRUE

-----------------------------------------------------------------------------
(* Arrival.  Either way the transaction applies to the tip on its own.     *)

Accept(tx) ==
    /\ arrived < MaxArrivals
    /\ arrived' = arrived + 1
    /\ accepted' = [accepted EXCEPT ![tx] = height]
    /\ UNCHANGED <<l, height, evicted, blamed, agrees>>

\* v1_tx with run_worker_precheck: bodies that are not sealed at once.
ArriveHttp(tx) ==
    /\ tx.type \notin {"export", "import", "claim"}
    /\ Len(queue) < QueueCap
    /\ PrecheckPasses(l, tx, H)
    /\ queue' = Append(queue, Entry(tx, height))
    /\ Accept(tx)
    /\ UNCHANGED pool

\* ingest_sync_tx_batch: a peer's transaction, whatever its body.
ArriveGossip(tx) ==
    /\ ApplyTx(l, tx, H, FALSE) # {}
    /\ Len(pool) < PoolCap
    /\ pool' = Append(pool, tx)
    /\ Accept(tx)
    /\ UNCHANGED queue

-----------------------------------------------------------------------------
(* Chain::seal_entries and apply_blk.                                      *)

Refunded(s) == FoldSet(LAMBDA id, r : RefundLock(r, id), s, ExpiredLocks(s, H))

Opened(s) == Refunded(RollEpoch(s, H))

\* The ledgers after one more entry, none if it fails.
After(S, e) == UNION {ApplyTx(r, e.tx, H, e.at = height) : r \in S}

Applied(s, entries) == FoldLeft(After, {s}, entries)

\* The row that drain_conservation_at_height comes to last.
Youngest(rows) == CHOOSE row \in rows : \A other \in rows : other.at <= row.at

\* One iteration of drain_conservation_at_height.
DrainOne(row, s) ==
    IF DrainRoutes(s, row, H) = {} THEN s
    ELSE DrainRow(s, row, CHOOSE d \in DrainRoutes(s, row, H) : TRUE)

(* drain_conservation_at_height: oldest row first, the youngest is applied *)
(* to what the others leave.  The rows of one block are in the order they  *)
(* were queued in the code, and in some fixed order here.                  *)
Drained(s) ==
    MapThenFoldSet(DrainOne, s, LAMBDA row : row, Youngest,
                   {row \in s.pend : H >= row.at})

Closed(s) == LET d == Drained(Refunded(s)) IN PayReward(d, Producer(d, H))

SealEntries(entries) ==
    IF HasProducer(RollEpoch(l, H))
    THEN {Closed(s) : s \in Applied(Opened(l), entries)} ELSE {}

\* What apply_blk makes of the same block: it has no worker's check.
Replayed(entries) == SealEntries(Raw(TxsOf(entries)))

Advance(entries) ==
    /\ height < MaxHeight
    /\ \E s \in SealEntries(entries) :
          /\ l' = s
          /\ agrees' = (agrees /\ s \in Replayed(entries))
    /\ height' = H

-----------------------------------------------------------------------------
(* The batch.                                                              *)

\* The elements of s at the positions in K, in their order (Vec::retain).
AtPositions(s, K) ==
    [n \in 1..Cardinality(K) |->
        s[CHOOSE k \in K : Cardinality({j \in K : j < k}) = n - 1]]

\* skip_evicted_entries, with the set that another tip has cleared.
Skipped(e) == evicted.tip = height /\ e.tx \in evicted.txs

\* dedup_seal_entries: the first of two entries of a transaction stays.
Fresh(entries, k) == \A j \in 1..(k - 1) : entries[j].tx # entries[k].tx

\* The queue comes first, the pool fills the block up.
FromPool == BlockCap - Len(Upto(queue, BlockCap))

Taken == Upto(queue, BlockCap) \o Raw(Upto(pool, FromPool))

\* All copies of a transaction are skipped or none is, so one filter does both.
Batch ==
    AtPositions(Taken, {k \in DOMAIN Taken : ~Skipped(Taken[k]) /\ Fresh(Taken, k)})

\* Fault: what the block took stays in the queue.
QueueRestAll == queue

QueueRest == From(queue, BlockCap + 1)

PoolRest  == From(pool, FromPool + 1)

\* The loop's attempt succeeds.
SealBatch(batch) ==
    /\ Advance(batch)
    /\ queue' = QueueRest
    /\ pool' = PoolRest
    /\ evicted' = [tip |-> H, txs |-> {}]
    /\ UNCHANGED <<arrived, accepted, blamed>>

\* Fault: the policies are left out of the search.
FirstBadUngated(txs) ==
    {k \in DOMAIN txs :
        LET S == FoldLeft(LAMBDA T, tx : UNION {ApplyTx(r, tx, H, TRUE) : r \in T},
                          {l}, Upto(txs, k))
            B == FoldLeft(LAMBDA T, tx : UNION {ApplyTx(r, tx, H, TRUE) : r \in T},
                          {l}, Upto(txs, k - 1))
        IN B # {} /\ S = {}}

(* first_bad_tx_ctx: the transactions are applied to the tip with their    *)
(* policies, without the epoch roll and the refunds of the block.          *)
FirstBad(txs) ==
    LET Reached(k) == Applied(l, Raw(Upto(txs, k)))
    IN {k \in DOMAIN txs : Reached(k - 1) # {} /\ Reached(k) = {}}

\* Fault: everybody's later transactions go with the first bad one.
StaleAll(txs, i) == {txs[k] : k \in (i + 1)..Len(txs)}

(* The transactions evicted with the first bad one: later ones of its      *)
(* sender up to the nonce of the chain, which the next one to apply has.   *)
Stale(txs, i) ==
    {tx \in {txs[k] : k \in (i + 1)..Len(txs)} :
        tx.from = txs[i].from /\ tx.nonce <= l.nonce[tx.from]}

Requeue(txs) ==
    /\ pool' = txs \o PoolRest
    /\ queue' = QueueRest
    /\ UNCHANGED <<l, height, arrived, accepted, agrees>>

\* What goes back to the front of the pool (prepend_block).
Kept(txs, i, stale) ==
    AtPositions(txs, {k \in DOMAIN txs : txs[k] # txs[i] /\ txs[k] \notin stale})

(* The attempt fails on a transaction.  A transaction is to blame for its  *)
(* own eviction when no copy of it stood before it.                        *)
EvictBad(batch) ==
    LET txs == TxsOf(batch) IN
    /\ height < MaxHeight /\ HasProducer(RollEpoch(l, H))
    /\ SealEntries(batch) = {}
    /\ \E i \in FirstBad(txs) :
          LET stale == Stale(txs, i) IN
          /\ evicted' = [tip |-> height,
                         txs |-> {txs[i]} \cup stale
                                 \cup IF evicted.tip = height THEN evicted.txs ELSE {}]
          /\ blamed' = blamed \cup
                {[tx |-> t, at |-> height] : t \in {txs[i]} \ ToSet(Upto(txs, i - 1))}
          /\ Requeue(Kept(txs, i, stale))

\* None is found, or there is no producer: everything is requeued.
RequeueAll(batch) ==
    LET txs == TxsOf(batch) IN
    /\ height < MaxHeight
    /\ SealEntries(batch) = {}
    /\ HasProducer(RollEpoch(l, H)) => FirstBad(txs) = {}
    /\ Requeue(txs)
    /\ UNCHANGED <<evicted, blamed>>

\* One turn of the loop, under the write lock.
Attempt ==
    \E batch \in {Batch} :
        SealBatch(batch) \/ EvictBad(batch) \/ RequeueAll(batch)

-----------------------------------------------------------------------------
(* Blocks of others.                                                       *)

\* v1_tx seals a block of its own around these bodies.
HttpSeal(tx) ==
    /\ tx.type \in {"export", "import", "claim"}
    /\ tx.type = "import" => ImportKnown(l, tx, <<>>)
    /\ Advance(Raw(<<tx>>))
    /\ UNCHANGED <<queue, pool, evicted, arrived, accepted, blamed>>

\* A block of another proposer; the pool and the queue do not notice.
SyncBlock(txs) ==
    /\ Advance(Raw(txs))
    /\ UNCHANGED <<queue, pool, evicted, arrived, accepted, blamed>>

LoopNext == \/ \E tx \in Txs : \/ ArriveHttp(tx) \/ ArriveGossip(tx)
                               \/ HttpSeal(tx) \/ SyncBlock(<<tx>>)
            \/ SyncBlock(<<>>)
            \/ Attempt

\* The loop tries again after every poll interval.
LoopSpec == LoopInit /\ [][LoopNext]_loopVars /\ WF_loopVars(Attempt)

-----------------------------------------------------------------------------
(* Properties                                                              *)

\* The ledger stays one, and nothing but arrivals and requeues fills the pool.
LoopTypeOK ==
    /\ IsLedger(l)
    /\ height \in 0..MaxHeight
    /\ queue \in Seq([tx : Txs, at : 0..height]) /\ Len(queue) <= QueueCap
    /\ pool \in Seq(Txs) /\ Len(pool) + Len(queue) <= arrived
    /\ evicted.tip \in 0..height /\ evicted.txs \subseteq Txs
    /\ arrived \in 0..MaxArrivals
    /\ accepted \in [Txs -> 0..NoHeight]
    /\ blamed \subseteq [tx : Txs, at : 0..height]
    /\ agrees \in BOOLEAN

Held(tx) == tx \in ToSet(pool) \/ tx \in ToSet(TxsOf(queue))

\* The whole batch is requeued, although there is a producer to seal it.
NoCulprit(batch) ==
    /\ HasProducer(RollEpoch(l, H))
    /\ SealEntries(batch) = {}
    /\ FirstBad(TxsOf(batch)) = {}

\* An import of a lock that falls due at H: the block refunds it first.
ImportsDueLock(tx) == tx.type = "import" /\ tx.id \in ExpiredLocks(l, H)

\* The entry at which the block fails is such an import.
FailsOnRefund(batch) ==
    \E k \in DOMAIN batch :
        /\ ImportsDueLock(batch[k].tx)
        /\ Applied(Opened(l), Upto(batch, k - 1)) # {}
        /\ Applied(Opened(l), Upto(batch, k)) = {}

(* first_bad_tx_ctx looks for the culprit on another path than the one     *)
(* that failed: no epoch roll, no refunds, policies where the block        *)
(* skipped them.  It finds one all the same, so that no batch is requeued  *)
(* whole and fails for ever.  The one exception is a block that fails on   *)
(* an import whose lock it has refunded itself a moment before.            *)
CulpritFound == NoCulprit(Batch) => FailsOnRefund(Batch)

(* An accepted transaction that still applies to the tip is still queued   *)
(* or pooled, unless its own sender is to blame: since it was accepted, it *)
(* or another transaction of the sender was evicted for failing.           *)
OnlySenderToBlame ==
    \A tx \in Txs :
        accepted[tx] # NoHeight /\ ApplyTx(l, tx, H, FALSE) # {} =>
            \/ Held(tx)
            \/ \E b \in blamed : b.tx.from = tx.from /\ b.at >= accepted[tx]

(* Whatever arrives and whatever other nodes seal, the chain goes on to    *)
(* the next height: each failing attempt removes its culprit, until the    *)
(* batch is sealed.  It stops for good at an epoch without a validator     *)
(* above the stake minimum, and until another node's block at an import    *)
(* whose lock falls due.                                                   *)
GoesOn ==
    []<>(\/ height = MaxHeight
         \/ ~HasProducer(RollEpoch(l, H))
         \/ FailsOnRefund(Batch) /\ NoCulprit(Batch))

(* A follower is lost only in a block that changes somebody's policies:    *)
(* what a worker checked against the tip holds inside the block for every  *)
(* other reason, such as a deferred policy maturing between the tip and    *)
(* the block, a refund, or the balances earlier transactions moved.        *)
DivergenceNeedsPolicyChange ==
    [][agrees /\ ~agrees' => \E a \in Accounts : l'.pol[a] # l.pol[a]]_loopVars
=============================================================================
