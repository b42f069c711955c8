# A TLA+ development for PWM

PWM is an account-based chain written in Rust: one *shard* is a chain with a
small set of validators, and value moves between shards by exports and imports.
This directory models the parts of it whose correctness depends on order,
concurrency or failure, checks them with TLC on small instances and proves the
central invariants with TLAPS for every value of the constants.

## 1. The system

| Part | Code | State | Operations |
|---|---|---|---|
| Ledger | `pwm-core/src/state.rs`, `tx.rs` | accounts (balance, stake, nonce, policies, rescue address), fee pool, queued conservation transfers, export locks, export registry, import set | nine transaction bodies, refund of expired locks, drain of due transfers, producer reward |
| Policies | `state.rs`, `tx.rs` | active and dormant bits, deferred rows, finalized flag of each account | SET, ACTIVATE, DEACTIVATE; rows mature with the height |
| Chain | `pwm-core/src/chain.rs` | ledger at the tip, tail of blocks, height, active validators | seal, epoch roll, producer pick |
| Pipeline | `pwmd/src/pipeline/` | published snapshot, hot account index, published height, queues | workers check transactions outside the chain's lock |
| Seal loop | `pwmd/src/lifecycle.rs` | validated queue, pool, evicted hashes, pacing | gates, drain of the queues, seal, publish, autosnapshot, eviction, requeue |
| Lease | `pwmd/src/lease.rs`, `lease_backend.rs` | one record per validator identity (owner, term, fence, expiry) | acquire, renew, takeover |
| Cluster | `lifecycle.rs`, `pwmd/src/transport/peer_session/mod.rs`, `handshake_state.rs` | round of each height (binding, attests, retries), what was sent to whom | propose, attest, count, gate, retry, skip a missed height, manual mode |
| Live sync | `pwmd/src/transport/peer_session/sync_live.rs`, `mod.rs` | the follower's chain, a record of requests in flight per peer | announce, headers, blocks, epoch catch-up, refusal, divergence |
| Cross-shard | `state.rs`, `pwmd/src/ledger.rs`, `roaming.rs`, `relay.rs`, `api/handlers_tx.rs`, `api/handlers_roaming.rs` | locks on the source, import set on the target, fact ledger, roaming intents with account locks | export, handoff, relay, import, exchange of facts, refund, expiry |
| Persistence | `pwmd/src/block_writer.rs`, `snapshot/`, `api/handlers_shutdown.rs` | epoch files, manifest, summary; a bounded channel and its thread | append, flush, save, roll back, shut down, load |
| Around them | transport, federation, wallets (`pwm-cli`, `pwm-tui`) | bookkeeping and clients | |

How they meet. A client's transaction goes to a worker, which checks it against
the published snapshot and puts it, with the height it was checked at, into the
validated queue. The seal loop passes the lease gate and, in a cluster, the
quorum gate, takes the chain's write lock, drains the queues into a block and
applies it. A transaction validated at the tip's height is applied *without its
policies*; any other is applied in full. The sealed block is published to the
workers, handed to the writer thread and announced to peers, which fetch it,
replay every transaction in full and compare state roots. Exports, imports and
claims come in through the HTTP handlers, which seal them in a block of their
own, outside the turns and gates; a batch of a peer's transactions may carry them
too, and then they wait in the pool like any other. An export is relayed to the
target shard, and what became of it comes back as a fact.

What is hard about it: a check made on one state and used on another (workers
against the seal, the gates against the seal, a queued transfer against the block
that executes it); two paths that must compute the same state (seal and replay,
the block and the search for its culprit); value that leaves one place before it
arrives in another; records of requests that outlive the session they were made
in; copies put back after the lock was given up; and crashes between two file
operations. `PROJECT.json` lists each of these hazards at its line.

What makes each part correct:

- *policies*: bits, rows and flag never contradict each other; finalization is
  final; a non-disableable co-signature policy cannot be lost;
- *ledger*: value is conserved; a signed transfer is applied at most once; a
  queued transfer can be executed when it falls due; an export is paid out once;
  nothing moves a finalized account;
- *seal loop*: a failing batch has a culprit, a sender loses a transaction only
  through its own, the chain goes on, and followers accept what is sealed;
- *lease*: one holder at a time; a fence belongs to one owner;
- *cluster*: what is sealed was signed by a quorum for its place; one chain; every
  height is reached, with lost messages and without a proposer that is down;
- *pipeline*: a check trusted by the seal was made on the tip;
- *sync*: branches never mix; only a forked peer is sent away; the follower arrives;
- *cross-shard*: what the target holds is locked on the source; an account's lock
  has a live intent and is always released;
- *persistence*: what was acknowledged survives, and what is on disk is a prefix
  of the chain; the seal loop is never stuck in its writer.

## 2. Modules

```
Policy ── PolicyAccount ── PolicyAccountProofs
   └───── LedgerOps ── Chain ─┬─ Ledger ─┬─ MCLedger
                              │     │    └─ LedgerProofs   (extends SealLoop too)
                              │     └ INSTANCE ModeB
                              └─ SealLoop ── MCSealLoop    (MCTxs: transactions of both)
Lease ── LeaseProofs        Pipeline ── PipelineProofs        Storage ── StorageProofs
Cluster ── MCCluster        LiveSync ── MCLiveSync            CrossShard ── MCCrossShard
        └─ ClusterProofs             └─ LiveSyncProofs                   └─ CrossShardProofs
```

`Policy` holds the policy fields of an account as a record of three sets and the
functions of `apply_policy_action` and `set_pol_mode` on it. A policy deferred to
height `at` is a row; `ActiveAt` is `policy_is_active_at`.

`PolicyAccount` is the life of one account under arbitrary policy transactions,
alone, so that every kind and every mode can be tried. Each action is one
transaction, or the next block.

`LedgerOps` is `state.rs` as operators on a ledger record. A handler that returns
`Result` is the set of ledgers it can leave, empty when it fails, so early returns
are empty sets and a success is one ledger. `ApplyTx(l, tx, h, skip)` is
`apply_tx_impl`; `skip` is the pre-validated path. Cosignatures are a role and
the account behind the key; signatures are taken as verified.

`Chain` declares what the two models of a shard's chain have in common: the
transactions, the start, the tip's height and the ledger.

`Ledger` is `Chain::seal_entries`: the steps of a block in the order of the code,
on a clone `l` of the state `tip`. The code throws the clone away when a step
fails, so the model only follows blocks that succeed. `issued` is history: what
rewards, claims and imports from elsewhere created.

`ModeB` is the promise of the escrow and nothing else: an export id is locked
once, then released or refunded, never both. `Ledger` implements it, by the map
from the lock table and the import set to `locked`, `released` and `refunded`
(`Ledger.Escrow`). The refinement is a property of a run and a theorem.

`SealLoop` is what the loop puts into a block and what it does when the block
fails: the validated queue before the pool, de-duplication by hash, the skip of
evicted transactions, `first_bad_tx_ctx` with its own way of applying, eviction
by nonce, requeue of the rest. A peer's transactions enter the pool whatever
their body is (`ArriveGossip`): the code looks at their shape and applies them to
the tip, no more. A block is one step (the write lock is held), so
the steps of `Ledger` are folds here, over the same `LedgerOps`: `After` is one
entry, `DrainOne` one due row. `agrees` stands
for a follower: it stays true while `apply_blk` of each block gives the
proposer's ledger. `accepted` and `blamed` are history.

`Lease` is the gate of `step_lease` and `step_standby`, cut into its backend
calls. Each call runs under the key's lock and is one step; the gate's clock
reading `at` and the record it decided on, `seen`, live in between. `granted` is
history.

`Cluster` is the quorum gate. A proposal with tail blocks, an attest, the gate,
the seal and the end of the autosnapshot are steps of their own, since the code
holds no lock from one to the next; sessions may lose what is in flight.
Signatures carry the height and the parent they were given for, which the gate
does not compare: that is what `SignedByQuorum` is about. `hist` names the
disturbances a property sets apart (a skip, a rollback, an HTTP seal, manual
mode, a retry before the answer).

`LiveSync` is the follower's side of `sync_live.rs` with one record per peer, and
the peer's answers. A handler is one step; a session is an ordered stream each
way. A hash is a height and a branch, so that a forked peer's blocks look right
by height and wrong by parent. When a session breaks the streams are emptied and
the record stays, as in the code.

`CrossShard` is two nodes: lock, fact ledger and intents of the source, import
set and facts of the target, and the handlers between them, split where they give
up the write lock. `held` is the copy a handler will put back; `waiting`, `posts`,
`acks` and `sealed` are relays at their various stages, kept as sets since any of
them may be answered late or sent again.

`Pipeline` is the traffic between the workers and the chain. A state of the chain
is a version number; `chain` maps a height to the version committed there, and
`snap`, `hot` and `tipH` are what `seal_loop` publishes (`state_snapshot`,
`hot_index`, `worker_tip_height`), one store per step. A worker's check is three
steps: read the height, read the accounts, queue. The seal loop keeps the write
lock until it has published, so no other commit falls between its stores; an
HTTP block or a sync batch commits and publishes nothing. `sealBak` and `syncBak`
are the backups (`take_bak`) whose restore comes after the lock was released.
The run checks what each entry of the queue claims, so the drain need not say
which entries are trusted. Assumed: the relaxed `worker_tip_height` takes effect
in program order, as on x86-64; one sync batch waits for its save at a time;
heights are not skipped and no backfill replaces the chain.

`Storage` is one node and its files. The writer thread takes commands from a
bounded channel and latches its first error; the seal loop enqueues, flushes and
writes a summary; HTTP commits, sync batches, relays and the shutdown write the
same files under the chain's lock. An append is three steps (checks and manifest
read, line synced, manifest renamed), any of which may fail or be the last one
before a crash. `Restart` is the load: summary, manifest, lines, trusted or
verified from the genesis. `harm` is history: the five disturbances `Recovers`
names.

In `Pipeline` and `Cluster` a node whose autosnapshot failed goes on at once. In
the code it is `ReadyDegraded`: the loop waits until a later save succeeds.
`Storage` has this (`ready`); leaving it out of the others only adds behaviours.

## 3. Runs

| Run | Shows | Bounds |
|---|---|---|
| `PolicyAccountOk` | the policies of an account stay consistent, finalization is irreversible, a non-disableable co-signature stays | three policies, heights 1..3, every mode: a row can be set in the past, the present and the future and mature under any transaction |
| `LeaseOk` | one holder, with restarts and failures at any point; unique fences while the record is not lost | two clones, lease of 2, wait of 1, clock to 6: two leases, a takeover and a return of the first owner fit |
| `MCLedger` | conservation, finalization, drain, exports, refunds and imports, interleaved; the supply adds up; `ModeB` is implemented | five accounts and a foreign one, three blocks, a lock of two blocks, an epoch of two: expiry and import meet in one block, a row falls due, both rescues are possible |
| `MCLedgerSelfRescue` | violated: supply is conserved when a row is routed back to its own sender | two accounts |
| `PipelineOk` | until a rollback, a check trusted at the tip was made on the tip's state; the validated queue is bounded | two workers, queue of two, five versions, batches of two, saves at every second height: a rollback of a block and another block at its height fit |
| `MCSealLoop` | the culprit of a failing batch is found; a sender loses a transaction only through its own; the loop reaches every height; only a policy change can lose a follower | block, queue and pool of two, three arrivals, two heights: a batch can fail twice, be requeued, and a duplicate or stale transaction come in between; a conservation row queued by the first block is due in the second; so is a lock, whose import waits in the pool, beside one of a foreign export that is sealed |
| `MCCluster` | a quorum signed every gated block for its place; one chain; progress with lost messages; progress without a proposer that is down | two proposers, one attester, two heights, three blocks, one lost message, one retry, one kind of disturbance at a time: each proposer has a turn, and a third block can compete |
| `MCLiveSync` | one branch; only forked peers are sent away; the follower never waits for nothing and arrives | an honest peer of three blocks, a forked one of two; header cap 2, block cap 1, catch-up windows of 2 in chunks of 1, one fault |
| `MCLiveSyncReconnect` | violated: the follower goes on after a reconnect | as above |
| `MCCrossShard` | what the target holds is backed; imports are true; locks are live and freed | two exports of one account, deadlines of one block, a fact ledger of one fact, one failing snapshot |
| `MCCrossShardPaid` | violated: an export is imported or refunded, not both | as above |
| `StorageOk` | a node gets its chain and every acknowledged block back from its files; the seal loop returns from its writer | epochs and saves of two blocks, a channel of one, three blocks and heights, one relay, one crash or failed write: an epoch boundary, a full channel and two concurrent appenders fit |

`StorageOk` has 0.95 million states, `MCCrossShard` 1.05 million, `MCLedger` 0.84
million, `MCLiveSync` 0.32 million, the others fewer. The safety part of `StorageOk`
also holds with four blocks, where a block is made again at a restored height.

Deadlock is checked where a run can always go on (the lease, the pipeline). The
others stop at their bounds, and a block without an active validator is abandoned:
their configurations switch the deadlock check off.

### Fairness

Only what the code's own loops do is fair, and never a fault, a client or an
operator.

- `SealLoop`: the loop's attempt. The loop polls for ever. Another node's block is
  not fair: `GoesOn` does not count on it.
- `Cluster`: the tasks of the sessions (propose, attest, count), the gate, the
  seal, the retry of the loop, sync. `SkipMissed` is fair only against a proposer
  that is down, since the window it waits for is measured on the clock.
- `LiveSync`: each peer's session reads and answers, announces its tip, and the
  back-off of a catch-up ends.
- `CrossShard`: blocks of the source and nothing else; not a relay, an answer or
  the target. `AccountFreed` says that is enough.
- `Storage`: what has begun goes on: the writer thread, a seal in progress, a
  commit, a shutdown, a line being written. That a write *succeeds* is not
  assumed; it may fail as long as faults are left. A new turn of the loop and a
  restart are not fair.

Constants that bound a run, and nothing else: those called "bound" where they are
declared (`MaxHeight`, `MaxBlocks`, `MaxVersions`, `BatchCap`, `MaxArrivals`,
`MaxFaults`, `MaxLosses`, `MaxKinds`, `MaxMarks`, `MaxH`, `MaxQueue`, `MaxExports`,
the lease's `MaxNow`). The transactions of a scenario are those of `MCLedger` and
`MCSealLoop`; each nonce set is large enough for a transaction to be too late and
too early once.

### What the conditional properties leave out

Several properties hold *but for* named disturbances, kept as history variables.
The exceptions are part of the result: each one is needed, and says which event
breaks the guarantee in the code.

- `TrustedUntilRollback`: after a failed autosnapshot the workers go on checking
  against the discarded block, whose height another block soon has.
- `CulpritFound`, `GoesOn`: the block fails on an import whose lock it refunded
  itself a moment before (`FailsOnRefund`). The exemption asks for that very entry:
  the block gets to it and not past it. `GoesOn` also ends at an epoch without an
  active validator, the halt that RFC 4's addendum prescribes
  (`docs/rfc/addenda/v6-rfc4-validators-stake-admission.md:44`); it does not say
  that one comes, nor that none does.
- `SignedByQuorum`, `OneChain`: a restored chain, an HTTP seal (outside turns,
  gate and lease), manual mode, a skipped height.
- `Progress`: a retry sent while the answer is on its way uses up the cap.
- `Backed`, `ImportIsTrue`: a copy put back after the lock was given up erases what
  others have committed meanwhile.
- `CatchesUp`: an answer lost with its session, or dropped because a catch-up
  started, leaves a record that nothing clears.
- `Recovers`: two appends at once (the writer thread and a save under the chain's
  lock share no lock), an append that stops between its line and its manifest, a
  summary that takes the place of blocks the files do not have, a batch whose
  failed save is undone later, a rollback of what was already written.

## 4. What the violated runs show

Each quotes the line it disagrees with in `PROJECT.json`.

1. *Supply.* `apply_due_conservation` works on two copies. A row redirected to
   its own sender writes the credited copy over the debited one.
2. *A follower that stops.* After a session broke with blocks outstanding, the
   record of the peer still waits for them, and `ask_blk` never asks again.
3. *Paid twice.* The exchange of facts after an import touches no lock, and the
   timeout refunds it.

Observations made while modelling, without a run:

- *policies*: SET with IMMEDIATELY or DEFERRED activates the emergency redirect
  without setting `finalized`; DEACTIVATE of a policy whose row has matured leaves
  it active (`state.rs:899`);
- *blocks*: a transfer pre-validated at the tip skips the policies also when an
  earlier entry of its block changed them, and every follower rejects the block
  (`chain.rs:190`); eviction by `<=` on the nonce drops the sender's next
  transaction too, and a resubmitted one is silently skipped until the tip
  changes; transactions of a rolled-back block do not return; an empty active set
  stops the shard for good;
- *a batch requeued for ever*: an import whose lock falls due at the next height
  applies to the tip, where nobody compares heights (`state.rs:616`). In the block
  the refund comes first (`chain.rs:186`), and the import fails. The search for the
  culprit applies the batch to the bare tip again (`lifecycle.rs:852`), finds nothing
  wrong and requeues it whole (`lifecycle.rs:2087`); the tip does not move, so every
  later poll does the same, until another node's block or an HTTP seal moves it.
  `CHANGELOG.md:802` says the loop drops the first failing transaction "instead of
  infinitely requeuing the same batch". A node seals what its own clients submit
  without the pool, so the import has to come in a peer's batch
  (`peer_session/mod.rs:325`). `MCSealLoop` reaches it in two steps, an export
  sealed over HTTP and the import from a peer; without their exemption
  `CulpritFound` and `GoesOn` are violated there;
- *lease*: the file is removed before the new one is renamed into place, and a
  crash in between forgets the fence; nothing looks at the lease between the gate
  and the seal (`lifecycle.rs:1777`);
- *cluster*: `record_cluster_prop` compares the binding after it stored it, so it
  never counts as changed; an attester signs also when the tail blocks did not
  apply; a proposal lost after the retries, or with some attests counted, is not
  sent again; after a skip followers cannot link the block behind the gap;
- *sync*: `try_demote` is followed by a catch-up started from what was read before
  it; a catch-up that ends clears the streak that marks a fork;
- *cross-shard*: `set_status` removes the account's lock whichever intent holds it
  (`roaming.rs:390`), and the exchange of facts calls it again for an intent that
  has ended, so a successor may be left unlocked; a late relay answer turns an
  imported intent back into a relayed one; the finalize call hands out a handoff
  in any status; the intent's life (12 blocks) and the lock's timeout (604800) are
  not related;
- *persistence*: a crash between a block's line and its manifest makes the next
  load fail on the count; a block enqueued after an HTTP commit wrote it, or never
  enqueued because it came by sync, latches the writer, and every later flush
  fails: the autosnapshot then rolls its block back and the node degrades; a first
  block over HTTP makes a monolith that the writer cannot append to; a shutdown at
  height 0 leaves a summary without a manifest, which does not load; a rollback
  leaves the discarded block in the files.

## 5. What is proved

The proofs hold for every value of the constants that satisfies the assumptions
named in the modules: any accounts, any set of signed transactions of a legal
shape, any height bound, any number of clones. The accounts of a shard are finitely
many (`FiniteAssumption`: a state holds them in memory), since their balances are
added up.

- `PolicyAccountProofs`: type correctness, consistency of bits and rows, the
  redirect of a finalized account, irreversibility, the co-signature. The
  invariant joins the first three; a finalized account needs consistency, since
  an inconsistent row could take its redirect away. The lemmas on `SetPolModes`
  come first; `LedgerProofs` states the two of them it needs again.
- `LeaseProofs`: `TypeCorrect`, `AtMostOneHolder`, `FencesAreUnique`. For the
  holder, the inductive invariant says that a runtime that shows an unexpired
  lease shows the expiry of the current record, unless the record is gone or was
  already past that expiry when it was taken over; the compare-and-swap on the
  expiry is what keeps a takeover from overtaking a renewal. Fences are
  proved up to the first loss of the record (`lost`): until then the record's
  fence bounds all others.
- `PipelineProofs`: `TypeCorrect`, `ChecksAreOfTip`. Until a rollback a version is
  the height it belongs to. The height is stored last and read first, so what is
  published is never older than the published height, and a check never older
  than the height it carries; nothing is newer than the tip. A check at the tip's
  height is caught between the two.
- `LedgerProofs`: first what each handler does to the parts of the ledger (type,
  finalized accounts, queued rows, locks), as lemmas; then `TypeCorrect` (so no
  balance or stake goes below zero), `FinalizedRedirectsAlways`,
  `FinalizedStaysFrozen`, `PendingStaysExecutable`, `EscrowIsExclusive`. Pending
  rows need more than their own statement: that a sender with a row can only
  transfer, and a conservation account's transfer only queues, is what keeps its
  nonce and funds in place, and the emergency sweep removes the row with the funds.
  Last `LedgerImplementsModeB`. With the invariant that an id is consumed exactly
  when its lock is not open, the initial state maps to `ModeB`'s, an export to
  `Lock`, an import to `Release`, the refund of each expired lock to `Refund`, and
  every other step to a stutter. The expired locks of a block are refunded one by
  one in the model, as the code's loop does, so that each is one abstract step.
- The supply, in `LedgerProofs` too: `SupplyIsConserved` and `RowsConsumeNonces`,
  both as long as no due row comes back to its sender (`NoneRoutedBack`, which
  `MCLedgerSelfRescue` shows to be needed), and `ConservedWithoutSelfRescue`: that
  cannot happen, and both hold outright, where no conservation account is named as
  a rescue account, as in `MCLedger`. Sums come first: the recursion behind
  `SumFunction` has a solution over a finite domain, and no order of the elements
  changes it. Then each handler moves what it takes. Two parts need an invariant
  about the past: an export finds its id unused because every lock's id holds a
  nonce its sender has spent, and an import pays out what its lock holds because
  the lock and the registered export carry one amount. A reward goes to an account
  because a block is only built while some validator is active, and one of them has
  the turn.
- `ClusterProofs`: `TypeCorrect`, `ChainsAreOne`, `BlocksAreSigned`, for any
  proposers and attesters, any order of turns and any quorum. `hist` only grows, so
  each part of the invariant may assume that what breaks it has not happened.
  Signatures follow the binding of their round, and only the member of the turn
  opens a round: so a gate's signatures carry the height and parent of what it
  seals, although nothing in the gate compares them. Without skips, rollbacks and
  HTTP seals a height has one maker, who leaves it behind with the block; every
  chain, backup and batch of tail blocks is then part of one branch, that of the
  longest chain.
- `LiveSyncProofs`: `TypeCorrect`, `FollowsOneBranch`, `DisconnectsOnlyForked`,
  `NeverWaitsInVain`, for any peers, caps, windows and place of the fork. All that
  is kept from a peer or on its way is part of that peer's chain as it stands, an
  answer to a range is a run of it, and a request stays within its height. Rows that
  link to the tip are then, by induction along the batch, the peer's blocks above
  it, and since a block fixes all blocks below it the whole chain is that peer's;
  rows that do not link differ from it at the tip. What the record waits for is
  carried through the helpers (`ask_hdr`, `ask_blk`, the tail pull, the catch-up
  request): a turn either leaves a wait that was there or adds its request.
- `CrossShardProofs`: `TypeCorrect`, `LockAlwaysLive`, `ImportsAreTrue`,
  `ExportsAreBacked`, for any number of exports, deadlines, fact cap and failing
  snapshots. The invariant speaks of the copies that wait to be put back as well as
  of the nodes: a copy of the source claims no import that the target lacks, and a
  copy of the target knows no export that the source lacks. Every handler of the
  source leaves it "later" (`Later`): sealed exports stay sealed, and no import is
  claimed that was not claimed before; only the exchange of facts adds one, from a
  fact of the target, which is true. A node that put back a copy answers for nothing
  any more (`undone`), which is why the two theorems about imports and exports are
  conditional on it; the lock's is not.
- `StorageProofs`: `TypeCorrect`, `FilesRecover`, for any epoch span, snapshot
  interval, channel capacity and bounds. `Recovers` says only what a start would
  find, so its invariant has to say why. One half (`DiskInv`) is about the files:
  they hold the first `Written` blocks of the chain, each epoch's file its own; the
  manifest's rows are the epochs below its height; a summary is a chain of its own
  that ends inside an epoch, or stands for a block of the chain; at most one append
  is under way, of the next block, from the manifest as it is. The other half
  (`ThreadInv`) is about what is on its way: blocks in the channel are blocks of the
  chain, the seal loop's block stands on top of its copy, a commit's copy is the
  chain without its block. `Appendable` accepts the first block of an epoch without
  a look at the manifest, so that a block may not be taken for the next one as long
  as the last epoch is incomplete. What excludes it is the autosnapshot: it falls on
  every end of an epoch, and the seal loop goes on only after its flush was answered
  or its block was taken back (`Settled`, `WriterInv`); a shutdown may leave the block
  behind, but then nothing is sealed any more (`Over`). A rollback keeps the
  invariant because block numbers grow along the chain: a block that is on disk and
  in the chain put back stands at the same height, with all blocks below it. What a
  start reads is computed from the files by induction over the epochs
  (`FlattenChain`), since the code joins their lines one after the other.

- `SealLoop`, in `LedgerProofs` as well: `LoopTypeCorrect`, `OnlySendersLose`,
  `CulpritIsFound`, `FollowersLostByPolicies`, for any queue, pool and block size.
  Its blocks are folds over sequences and sets. The community modules define these
  as recursive functions on the subsets of what is folded over, so each fold is
  first shown to be such a function and then walked in order (`Walks`,
  `AppliedMore`). Over one entry, or a refund, a due row, a reward, the lemmas on
  `LedgerOps` apply. The invariant (`LoopInv`) says more than the types: the ledger
  is finite, finalized accounts are as they should be, whatever waits can be paid as
  long as its nonce stands (`HeldFunded`), and an entry checked at the tip's height
  passed its check on the tip (`QueueChecked`). `HeldFunded` holds across blocks
  because whoever lost value has spent a nonce.
  - *Nobody else's transaction is lost.* An accepted transaction is held, or its
    nonce is spent, or its sender has been blamed since (`Settled`, `BlameInv`).
    Eviction takes the culprit and older nonces of its sender; a transaction that is
    skipped was evicted at this tip; de-duplication leaves a copy. Where a row may
    come back to its own sender, the bug of `MCLedgerSelfRescue` shows here too: the
    written-back copy can undo what the row spent. The theorem therefore assumes that
    no conservation account is a rescue account (`ConservNeverRescues`; so
    it is in `MCSealLoop` and `MCLedger`).
  - *The culprit is found, refunds apart.* The search applies the transactions to the
    bare tip with their policies; the block starts from refunds and skips the policies
    of checked entries. Two ledgers are alike when all that decides about a transaction
    but the balances agrees (`Alike`) and when the escrow does, up to the locks the
    block has refunded, whose ids it has consumed (`EscrowAlike`). If the search gets
    through a transaction, so does the block from a ledger alike, where the balance is
    enough since the transaction waited (`Funded`); the one body that asks for more is
    an import of a refunded lock, and the block cannot get past it, since a consumed id
    stays so. So a search that reaches the end means a block that seals or one that
    stopped at such an import (`AlikeRuns`, `SearchComplete`). The theorem is what
    makes that list complete: epoch roll, checked entries, claims, exports, other
    imports and every kind of policy leave the search as good as the block.
  - *What loses a follower.* As long as nobody's policies moved inside the block
    (`SamePolicies`), what a worker saw at the tip decides as the follower does. A
    policy transaction spends its sender's nonce, and what waits has the nonce of the
    tip at most (`Funded`): that sender has no other transaction in the block, nothing
    puts its policies back, and they differ at the end too (`PoliciesMoved`).

Only model-checked: what must happen eventually (`GoesOn`, `Progress`,
`Failover`, `CatchesUp`, `AccountFreed`, `SealReturns`), and the violated
properties. Out of the prover's reach: liveness under fairness and `ENABLED`.
The library's induction theorems are out of reach too, since they take an
operator as a parameter; where a proof needs induction along a sequence
(`LiveSyncProofs`, `StorageProofs`), it is over sets of numbers, from the least
element that a well-founded order gives (`LeastNumber`, `Induction`);
`LedgerProofs` does the same for sums over finite sets. No module here declares
a recursive operator.

## 6. Not modelled

Abstracted away: signatures and hashes, wire and file formats, amounts near
2^128, chain tips in the lease's takeover check (the check may refuse at any
time), the trust rules of federation and bridges (assumed to pass), the pacing of
the loops by the clock (a timeout may end at any time).

- *Marks* (`marks.rs`): accrual by whole hours, a closed formula that touches no
  balance. A burn may be tried at any time.
- *Domain index*, *off-chain objects*, *block timing*: local registries and
  measurements without a protocol.
- *Repair and ClickHouse* (`snapshot/repair.rs`, `ch_http.rs`): an offline command
  and another backend. Repair pays with other reward parameters than sealing, which
  a formula shows and no interleaving.
- *Transport, handshake, scoring, peer list*: connections and wire formats. What
  sessions do to the protocols above is in `Cluster` and `LiveSync` as loss.
- *Wallets* (`pwm-cli`, `pwm-tui`), configuration, logging, crypto, key formats:
  clients and pure encodings; a large part of the repository's lines.

Open work, in order: the composition of `Storage` with `Pipeline` (what a degraded
node's workers still accept); that one block of `SealLoop` is a run of `Ledger`;
`Cluster` with three proposers.
