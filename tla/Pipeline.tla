------------------------------ MODULE Pipeline ------------------------------
(***************************************************************************)
(* How the checks made by the precheck workers (pwmd/src/pipeline) meet    *)
(* the chain.  Workers hold no lock: they read the published tip height    *)
(* and then the hot account index or the published snapshot, and queue the *)
(* transaction with the height they read.  The seal loop of                *)
(* pwmd/src/lifecycle.rs trusts a queued check made at the height of its   *)
(* tip: the transaction is applied without its policies.                   *)
(*                                                                         *)
(* Three writers commit blocks under the chain's write lock: the seal      *)
(* loop, which publishes the block before it lets the lock go, the HTTP    *)
(* handlers of exports, imports and claims, and the peers' live sync.  An  *)
(* autosnapshot that fails after the lock was released restores the chain  *)
(* the writer had found.                                                   *)
(* Heights are not skipped, and no backfill replaces the chain.            *)
(*                                                                         *)
(* Every block leaves a state of its own, here a version number.  The      *)
(* workers' loads and the seal loop's stores take effect in program order, *)
(* as they do on x86-64, although the tip height is a relaxed atomic.      *)
(***************************************************************************)
EXTENDS Naturals, Sequences

CONSTANTS Workers,
          SaveEvery,   \* AUTOSNAPSHOT_BLOCK_INTERVAL
          FlushEvery,  \* STANDBY_SYNC_FLUSH_IV
          Standby,     \* the node's role: it seals once it has taken the lease over
          QueueCap,    \* VALIDATED_Q_CAP
          BlockCap,    \* block_cap, entries of a block
          BatchCap,    \* bound: blocks of a sync batch
          MaxVersions  \* bound: blocks ever sealed or received

ASSUME ParametersAssumption ==
    /\ {SaveEvery, FlushEvery} \subseteq Nat \ {0}
    /\ Standby \in BOOLEAN
    /\ {QueueCap, BlockCap, BatchCap, MaxVersions} \subseteq Nat

VARIABLES chain,    \* version of the state at each height, genesis first
          born,     \* versions made so far
          snap,     \* version in state_snapshot
          hot,      \* version in hot_index
          tipH,     \* worker_tip_height
          worker,   \* what each worker has read for its transaction
          queue,    \* the validated queue: height and version of each check
          loop,     \* where the seal loop stands
          sealBak,  \* chain the seal loop may restore, <<>> if none
          syncBak,  \* chain a sync batch has to restore, <<>> if none
          rolled    \* history: a restore has discarded blocks

vars == <<chain, born, snap, hot, tipH, worker, queue, loop, sealBak, syncBak, rolled>>

published == <<snap, hot, tipH>>
commits   == <<chain, born>>

TipHeight  == Len(chain) - 1
TipVersion == chain[Len(chain)]

\* autosnap_hit
SaveDue(h) == h > 0 /\ h % SaveEvery = 0

\* A standby also saves what it syncs at heights of its own.
SyncSaveDue(h) ==
    \/ SaveDue(h)
    \/ Standby /\ (h = 1 \/ h % FlushEvery = 0)

Idle == [pc |-> "idle", at |-> 0, seen |-> 0]

Init == /\ chain = <<0>>
        /\ born = 1
        /\ snap = 0 /\ hot = 0 /\ tipH = 0
        /\ worker = [w \in Workers |-> Idle]
        /\ queue = <<>>
        /\ loop = "idle"
        /\ sealBak = <<>> /\ syncBak = <<>>
        /\ rolled = FALSE

-----------------------------------------------------------------------------
(* A worker checks one transaction (precheck_client): first the height,    *)
(* then the accounts, in the hot index or in the snapshot.                 *)

ReadHeight(w) ==
    /\ worker[w].pc = "idle"
    /\ worker' = [worker EXCEPT ![w].pc = "read", ![w].at = tipH]
    /\ UNCHANGED <<commits, published, queue, loop, sealBak, syncBak, rolled>>

Check(w) ==
    /\ worker[w].pc = "read"
    /\ \E v \in {hot, snap} :
          worker' = [worker EXCEPT ![w].pc = "checked", ![w].seen = v]
    /\ UNCHANGED <<commits, published, queue, loop, sealBak, syncBak, rolled>>

\* Fault: the queue is not bounded.
EnqueueAlways(w) ==
    queue' = Append(queue, [at |-> worker[w].at, seen |-> worker[w].seen])

\* try_send, which drops the check when the queue is full.
Enqueue(w) ==
    queue' = IF Len(queue) < QueueCap
             THEN Append(queue, [at |-> worker[w].at, seen |-> worker[w].seen])
             ELSE queue

Push(w) ==
    /\ worker[w].pc = "checked"
    /\ Enqueue(w)
    /\ worker' = [worker EXCEPT ![w] = Idle]
    /\ UNCHANGED <<commits, published, loop, sealBak, syncBak, rolled>>

\* The check fails: the transaction is rejected.
Reject(w) ==
    /\ worker[w].pc # "idle"
    /\ worker' = [worker EXCEPT ![w] = Idle]
    /\ UNCHANGED <<commits, published, queue, loop, sealBak, syncBak, rolled>>

-----------------------------------------------------------------------------
(* Commits.                                                                *)

\* The seal loop holds the write lock until it has published its block.
LockFree == loop \in {"idle", "saving"}

\* n blocks are committed at the tip.
Commit(n) ==
    /\ born + n <= MaxVersions
    /\ chain' = chain \o [k \in 1..n |-> born + k - 1]
    /\ born' = born + n

\* The entries left in the queue when a block has taken its share.
Undrained == SubSeq(queue, BlockCap + 1, Len(queue))

(* The seal loop drains the queue into a block and seals it; when the new  *)
(* height is due for an autosnapshot it keeps the chain it found.          *)
SealBlock ==
    /\ loop = "idle"
    /\ Commit(1)
    /\ queue' = Undrained
    /\ sealBak' = IF SaveDue(Len(chain)) THEN chain ELSE <<>>
    /\ loop' = "sealed"
    /\ UNCHANGED <<published, worker, syncBak, rolled>>

(* An entry fails, so there is no block: what was drained goes back to the *)
(* pool, where nothing is trusted, or is evicted.                          *)
SealFailed ==
    /\ loop = "idle"
    /\ queue # <<>>
    /\ queue' = Undrained
    /\ UNCHANGED <<commits, published, worker, loop, sealBak, syncBak, rolled>>

\* Fault: the new height is published together with the snapshot.
StoreSnapshotAndTip ==
    /\ loop = "sealed"
    /\ snap' = TipVersion
    /\ tipH' = TipHeight
    /\ loop' = "stored"
    /\ UNCHANGED <<commits, hot, worker, queue, sealBak, syncBak, rolled>>

StoreSnapshot ==
    /\ loop = "sealed"
    /\ snap' = TipVersion
    /\ loop' = "stored"
    /\ UNCHANGED <<commits, hot, tipH, worker, queue, sealBak, syncBak, rolled>>

RefreshHot ==
    /\ loop = "stored"
    /\ hot' = TipVersion
    /\ loop' = "refreshed"
    /\ UNCHANGED <<commits, snap, tipH, worker, queue, sealBak, syncBak, rolled>>

\* The height comes last; then the lock is released.
StoreTip ==
    /\ loop = "refreshed"
    /\ tipH' = TipHeight
    /\ loop' = IF sealBak = <<>> THEN "idle" ELSE "saving"
    /\ UNCHANGED <<commits, snap, hot, worker, queue, sealBak, syncBak, rolled>>

SaveDone ==
    /\ loop = "saving"
    /\ loop' = "idle"
    /\ sealBak' = <<>>
    /\ UNCHANGED <<commits, published, worker, queue, syncBak, rolled>>

(* periodic_snap_finish on an error, the write lock taken again: whatever  *)
(* was committed since the backup goes, and nothing is published.          *)
SaveFailed ==
    /\ loop = "saving"
    /\ chain' = sealBak
    /\ rolled' = TRUE
    /\ loop' = "idle"
    /\ sealBak' = <<>>
    /\ UNCHANGED <<born, published, worker, queue, syncBak>>

(* v1_tx on an export, an import or a claim: sealed and saved under one    *)
(* lock, without a trace when either fails.  Nothing is published.         *)
HttpSeal ==
    /\ LockFree
    /\ Commit(1)
    /\ UNCHANGED <<published, worker, queue, loop, sealBak, syncBak, rolled>>

(* apply_blk_batch: the blocks are applied and, when one is due, saved     *)
(* under the lock; the restore after a failed save comes later.            *)
SyncBatch(n) ==
    /\ LockFree
    /\ syncBak = <<>>
    /\ Commit(n)
    /\ \/ UNCHANGED syncBak
       \/ /\ \E h \in Len(chain)..(TipHeight + n) : SyncSaveDue(h)
          /\ syncBak' = chain
    /\ UNCHANGED <<published, worker, queue, loop, sealBak, rolled>>

SyncRollback ==
    /\ LockFree
    /\ syncBak # <<>>
    /\ chain' = syncBak
    /\ syncBak' = <<>>
    /\ rolled' = TRUE
    /\ UNCHANGED <<born, published, worker, queue, loop, sealBak>>

Next == \/ \E w \in Workers : ReadHeight(w) \/ Check(w) \/ Push(w) \/ Reject(w)
        \/ SealBlock \/ SealFailed
        \/ StoreSnapshot \/ RefreshHot \/ StoreTip
        \/ SaveDone \/ SaveFailed
        \/ HttpSeal
        \/ \E n \in 1..BatchCap : SyncBatch(n)
        \/ SyncRollback

Spec == Init /\ [][Next]_vars

-----------------------------------------------------------------------------
(* Properties                                                              *)

Checks == [at : Nat, seen : Nat]

TypeOK == /\ chain \in Seq(Nat) /\ chain # <<>>
          /\ born \in Nat
          /\ snap \in Nat /\ hot \in Nat /\ tipH \in Nat
          /\ worker \in [Workers -> [pc : {"idle", "read", "checked"}, at : Nat, seen : Nat]]
          /\ queue \in Seq(Checks) /\ Len(queue) <= QueueCap
          /\ loop \in {"idle", "sealed", "stored", "refreshed", "saving"}
          /\ sealBak \in Seq(Nat) /\ syncBak \in Seq(Nat)
          /\ loop = "saving" => sealBak # <<>>
          /\ rolled \in BOOLEAN

(* apply_prechecked_tx applies "a tx already checked against this          *)
(* chain-tip context": the check of a queued entry that carries the tip's  *)
(* height was made on the state of the tip.                                *)
TrustedChecksAreOfTip ==
    \A k \in 1..Len(queue) : queue[k].at = TipHeight => queue[k].seen = TipVersion

(* That is so until a failed autosnapshot discards blocks, although the    *)
(* workers take no lock and neither HTTP blocks nor synced blocks are      *)
(* published: reading the height before the accounts, and publishing it    *)
(* after them, makes every check at least as new as its height.            *)
TrustedUntilRollback == ~rolled => TrustedChecksAreOfTip
=============================================================================
