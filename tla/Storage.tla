------------------------------ MODULE Storage ------------------------------
(***************************************************************************)
(* What pwmd keeps on disk (JsonFile): epoch files with one block a line,  *)
(* their manifest and a summary with the state.  A writer thread appends   *)
(* the blocks of the seal loop; HTTP commits, sync batches and the         *)
(* graceful shutdown bring the same files up to the tip themselves.  An    *)
(* append is a check, a line and a manifest, each a step of its own, and   *)
(* the process may die between any two steps.                              *)
(*                                                                         *)
(* A block is its height, a number of its own (its hash, and the root of   *)
(* the state after it) and its parent's number.  Every block is still in   *)
(* memory (TAIL_BLOCK_CAP is not reached) and the node is an active one.   *)
(* A write fails before it changes anything; files and manifest survive as *)
(* written.  Roaming, facts and the genesis anchor are left out.           *)
(***************************************************************************)
EXTENDS Integers, FiniteSets, SequencesExt

CONSTANTS EpochSpan,  \* EPOCH_SPAN: blocks of an epoch file
          SnapEvery,  \* AUTOSNAPSHOT_BLOCK_INTERVAL
          WriterCap,  \* WRITER_CAPACITY
          MaxHeight,  \* bound: height of the chain
          MaxBlocks,  \* bound: blocks ever made
          MaxMarks,   \* bound: summaries written for a relay
          MaxFaults   \* bound: crashes and failed writes

ASSUME StorageAssumption ==
    /\ {EpochSpan, SnapEvery, WriterCap, MaxHeight, MaxBlocks} \subseteq Nat \ {0}
    /\ {MaxMarks, MaxFaults} \subseteq Nat
    /\ EpochSpan % SnapEvery = 0

VARIABLES chain,   \* blocks in memory
          seal,    \* the seal loop, between two blocks or persisting one
          commit,  \* who persists under the chain's lock
          late,    \* a copy to be put back after the lock was released
          stop,    \* the graceful shutdown
          mutex,   \* who holds the mutex of the writer's handle
          queue,   \* commands sent to the writer
          writer,  \* the writer thread: up, failed (pending_error) or gone
          reply,   \* answer to the flush or shutdown under way
          app,     \* appends under way, by who makes them
          disk,    \* epoch files, manifest and summary
          ready,   \* InitPhase::Ready, as opposed to ReadyDegraded
          up,      \* the process runs
          born, marks, faults,  \* counters of the bounds
          acked,   \* history: blocks whose HTTP request was answered
          harm     \* history: what has happened to the files

handle   == <<mutex, queue, writer, reply>>
life     == <<ready, up>>
counters == <<born, marks, faults>>
history  == <<acked, harm>>
vars     == <<chain, seal, commit, late, stop, handle, app, disk, life, counters, history>>

Appenders == {"writer", "commit", "seal"}
EpochOf(h) == (h - 1) \div EpochSpan
Epochs     == 0..EpochOf(MaxHeight)
SnapHit(h) == h > 0 /\ h % SnapEvery = 0

NoBlock    == [h |-> 0, id |-> 0, prev |-> 0]
NoManifest == [h |-> 0, tip |-> 0, rows |-> {}]
NoSummary  == [kind |-> "none", h |-> 0, st |-> 0, blocks |-> <<>>]
NoAppend   == [pc |-> "none", blk |-> NoBlock, man |-> NoManifest]
NoSeal     == [pc |-> "idle", blk |-> NoBlock, bak |-> <<>>]
NoCommit   == [pc |-> "idle", who |-> "none", bak |-> <<>>]
NoLate     == [on |-> FALSE, bak |-> <<>>]

TipOf(c) == IF c = <<>> THEN NoBlock ELSE Last(c)
NewBlock == [h |-> Len(chain) + 1, id |-> born + 1, prev |-> TipOf(chain).id]

Init == /\ chain = <<>>
        /\ seal = NoSeal /\ commit = NoCommit /\ late = NoLate
        /\ stop = "no" /\ mutex = "free" /\ reply = "none"
        /\ queue = <<>> /\ writer = "up"
        /\ app = [a \in Appenders |-> NoAppend]
        /\ disk = [files |-> [e \in Epochs |-> <<>>], man |-> NoManifest, sum |-> NoSummary]
        /\ ready = TRUE /\ up = TRUE
        /\ born = 0 /\ marks = 0 /\ faults = 0
        /\ acked = {} /\ harm = {}

----------------------------------------------------------------------------
\* Appending a block.

\* The checks of append_block_for_epoch.
Appendable(b) ==
    LET e == EpochOf(b.h)
        last == TipOf(disk.files[e]).h
    IN  IF last = 0 THEN b.h = e * EpochSpan + 1
                    ELSE last = b.h - 1 /\ e \in disk.man.rows

\* a has read the end of the file and the manifest and will append b.
BeginAppend(a, b) ==
    /\ app' = [app EXCEPT ![a] = [pc |-> "line", blk |-> b, man |-> disk.man]]
    /\ harm' = harm \cup (IF \E o \in Appenders : app[o].pc # "none" THEN {"raced"} ELSE {})

\* The line reaches the disk.
WriteLine(a) ==
    /\ up /\ app[a].pc = "line"
    /\ disk' = [disk EXCEPT !.files[EpochOf(app[a].blk.h)] = Append(@, app[a].blk)]
    /\ app' = [app EXCEPT ![a].pc = "manifest"]
    /\ UNCHANGED <<chain, seal, commit, late, stop, handle, life, counters, history>>

\* The manifest, as it was read before, is replaced; ok tells the caller.
Manifest(a) == [h |-> app[a].blk.h, tip |-> app[a].blk.id,
                rows |-> app[a].man.rows \cup {EpochOf(app[a].blk.h)}]

EndAppend(a, ok) ==
    /\ up
    /\ \/ ok /\ app[a].pc = "manifest"
          /\ disk' = [disk EXCEPT !.man = Manifest(a)]
          /\ UNCHANGED <<faults, harm>>
       \/ ~ok /\ app[a].pc \in {"line", "manifest"} /\ faults < MaxFaults
          /\ faults' = faults + 1
          /\ harm' = harm \cup (IF app[a].pc = "manifest" THEN {"torn"} ELSE {})
          /\ UNCHANGED disk
    /\ app' = [app EXCEPT ![a] = NoAppend]

\* save_checkpoint_summary and the monolithic save_snapshot.
Checkpoint == [kind |-> "epochs", h |-> Len(chain), st |-> TipOf(chain).id, blocks |-> <<>>]
Monolith   == [kind |-> "inline", h |-> 0, st |-> TipOf(chain).id, blocks |-> chain]

\* A checkpoint that takes the place of blocks the files do not have, and a
\* monolith after which a new file opens.
Hollow(sum) ==
    \/ sum.kind = "epochs" /\ disk.man = NoManifest
    \/ sum.kind = "epochs" /\ disk.sum.kind = "inline" /\ disk.man.h < Len(chain)
    \/ sum.kind = "inline" /\ Len(chain) % EpochSpan = 0

WriteSummary(sum, ok) ==
    \/ /\ ok /\ disk' = [disk EXCEPT !.sum = sum]
       /\ harm' = harm \cup (IF Hollow(sum) THEN {"hollow"} ELSE {})
       /\ UNCHANGED faults
    \/ ~ok /\ faults < MaxFaults /\ faults' = faults + 1 /\ UNCHANGED <<disk, harm>>

\* Blocks on disk or on their way there, and a chain put in place without
\* some of them (rollback_commit).
OnDisk  == (UNION {ToSet(disk.files[e]) : e \in Epochs}) \cup ToSet(disk.sum.blocks)
OnWay   == {app[a].blk : a \in Appenders} \cup {queue[i].blk : i \in DOMAIN queue}
           \cup (IF seal.pc = "enqueue" THEN {seal.blk} ELSE {})
Ids(bs) == {b.id : b \in bs}
Restore(c) ==
    /\ chain' = c
    /\ harm' = harm \cup (IF Ids(OnDisk \cup OnWay) \cup {disk.sum.st} \subseteq Ids(ToSet(c)) \cup {0}
                            THEN {} ELSE {"undone"})

----------------------------------------------------------------------------
\* The writer thread and its handle.

\* Fault: after a failure the writer answers nobody.
AnsweredUntilFailure(c) == c.op \in {"flush", "shutdown"} /\ writer # "failed"

\* Commands that are answered and not dropped after a failure.
Answered(c) == c.op \in {"flush", "shutdown"}

\* A command taken from the channel; after a failure blocks are dropped.
WriterTake ==
    /\ up /\ writer # "gone" /\ queue # <<>> /\ app["writer"].pc = "none"
    /\ queue' = Tail(queue)
    /\ LET c == Head(queue) IN
         \/ /\ Answered(c)
            /\ reply' = IF writer = "up" THEN "ok" ELSE "error"
            /\ writer' = IF c.op = "shutdown" THEN "gone" ELSE writer
            /\ UNCHANGED <<app, harm>>
         \/ /\ c.op = "append" /\ writer = "failed"
            /\ UNCHANGED <<reply, writer, app, harm>>
         \/ /\ c.op = "append" /\ writer = "up" /\ Appendable(c.blk)
            /\ BeginAppend("writer", c.blk)
            /\ UNCHANGED <<reply, writer>>
         \/ /\ c.op = "append" /\ writer = "up" /\ ~Appendable(c.blk)
            /\ writer' = "failed"
            /\ UNCHANGED <<reply, app, harm>>
    /\ UNCHANGED <<chain, seal, commit, late, stop, mutex, disk, life, counters, acked>>

WriterDone(ok) ==
    /\ EndAppend("writer", ok)
    /\ writer' = IF ok THEN writer ELSE "failed"
    /\ UNCHANGED <<chain, seal, commit, late, stop, mutex, queue, reply, life, born, marks, acked>>

\* Fault: the channel has no bound.
SendAlways(who, op, b) ==
    /\ mutex \in {"free", who}
    /\ queue' = Append(queue, [op |-> op, blk |-> b])

\* send_fifo by a caller that has or gets the mutex.
Send(who, op, b) ==
    /\ mutex \in {"free", who}
    /\ Len(queue) < WriterCap
    /\ queue' = Append(queue, [op |-> op, blk |-> b])

\* The channel is full: the caller waits with the mutex.
WaitForRoom(who) ==
    /\ mutex = "free" /\ writer # "gone" /\ Len(queue) >= WriterCap
    /\ mutex' = who
    /\ UNCHANGED <<chain, seal, commit, late, stop, queue, writer, reply, app, disk, life, counters, history>>

----------------------------------------------------------------------------
\* The seal loop.

SealReads == seal.pc \in {"flush", "flushing", "summary"}
Writable  == commit.pc = "idle" /\ ~SealReads
Readable  == commit.pc = "idle" \/ commit.who = "stop"

\* The checks at the top of a turn; then awaits, then the block.
StartTurn ==
    /\ up /\ seal.pc = "idle" /\ ready /\ stop = "no"
    /\ seal' = [NoSeal EXCEPT !.pc = "turn"]
    /\ UNCHANGED <<chain, commit, late, stop, handle, app, disk, life, counters, history>>

Seal ==
    /\ up /\ seal.pc = "turn" /\ Writable
    /\ Len(chain) < MaxHeight /\ born < MaxBlocks
    /\ chain' = Append(chain, NewBlock)
    /\ born' = born + 1
    /\ seal' = [pc |-> "enqueue", blk |-> NewBlock, bak |-> chain]
    /\ UNCHANGED <<commit, late, stop, handle, app, disk, life, marks, faults, history>>

\* enqueue_sealed_block, after the lock was released.
Enqueue ==
    /\ up /\ seal.pc = "enqueue" /\ writer # "gone"
    /\ Send("seal", "append", seal.blk)
    /\ mutex' = "free"
    /\ seal' = [seal EXCEPT !.pc = "save"]
    /\ UNCHANGED <<chain, commit, late, stop, writer, reply, app, disk, life, counters, history>>

\* recover_append, once the handle is shut down.
Recover ==
    /\ up /\ seal.pc = "enqueue" /\ writer = "gone" /\ mutex = "free"
    /\ IF Appendable(seal.blk)
         THEN BeginAppend("seal", seal.blk) /\ seal' = [seal EXCEPT !.pc = "recover"]
         ELSE seal' = [seal EXCEPT !.pc = "failed"] /\ UNCHANGED <<app, harm>>
    /\ UNCHANGED <<chain, commit, late, stop, handle, disk, life, counters, acked>>

RecoverDone(ok) ==
    /\ EndAppend("seal", ok)
    /\ seal' = [seal EXCEPT !.pc = IF ok THEN "save" ELSE "failed"]
    /\ UNCHANGED <<chain, commit, late, stop, handle, life, born, marks, acked>>

\* periodic_snap_save, under the read lock.
SkipSave ==
    /\ up /\ seal.pc = "save" /\ Readable /\ ~SnapHit(seal.blk.h)
    /\ seal' = NoSeal
    /\ UNCHANGED <<chain, commit, late, stop, handle, app, disk, life, counters, history>>

StartSave ==
    /\ up /\ seal.pc = "save" /\ Readable /\ SnapHit(seal.blk.h)
    /\ seal' = [seal EXCEPT !.pc = "flush"]
    /\ UNCHANGED <<chain, commit, late, stop, handle, app, disk, life, counters, history>>

SendFlush ==
    /\ up /\ seal.pc = "flush"
    /\ \/ /\ writer # "gone"
          /\ Send("seal", "flush", NoBlock)
          /\ mutex' = "seal"
          /\ seal' = [seal EXCEPT !.pc = "flushing"]
       \/ /\ writer = "gone" /\ mutex = "free"
          /\ seal' = [seal EXCEPT !.pc = "summary"]
          /\ UNCHANGED <<mutex, queue>>
    /\ UNCHANGED <<chain, commit, late, stop, writer, reply, app, disk, life, counters, history>>

Flushed ==
    /\ up /\ seal.pc = "flushing" /\ reply # "none"
    /\ seal' = [seal EXCEPT !.pc = IF reply = "ok" THEN "summary" ELSE "failed"]
    /\ reply' = "none" /\ mutex' = "free"
    /\ UNCHANGED <<chain, commit, late, stop, queue, writer, app, disk, life, counters, history>>

SaveSummary(ok) ==
    /\ up /\ seal.pc = "summary"
    /\ WriteSummary(Checkpoint, ok)
    /\ seal' = [seal EXCEPT !.pc = IF ok THEN "saved" ELSE "failed"]
    /\ UNCHANGED <<chain, commit, late, stop, handle, app, life, born, marks, acked>>

\* periodic_snap_finish: only a block with an autosnapshot has a copy.
Finish ==
    /\ up /\ seal.pc \in {"saved", "failed"}
    /\ IF seal.pc = "failed" /\ SnapHit(seal.blk.h)
         THEN Writable /\ Restore(seal.bak) ELSE UNCHANGED <<chain, harm>>
    /\ ready' = (seal.pc = "saved")
    /\ seal' = NoSeal
    /\ UNCHANGED <<commit, late, stop, handle, app, disk, up, counters, acked>>

----------------------------------------------------------------------------
\* Commits that persist under the chain's write lock.

\* An export, import or claim at v1_tx: sealed and saved, or undone.  That
\* the node is ready is checked long before the lock is taken.
HttpCommit ==
    /\ up /\ Writable
    /\ Len(chain) < MaxHeight /\ born < MaxBlocks
    /\ chain' = Append(chain, NewBlock)
    /\ born' = born + 1
    /\ commit' = [pc |-> IF disk.man = NoManifest THEN "monolith" ELSE "sync",
                  who |-> "http", bak |-> chain]
    /\ UNCHANGED <<seal, late, stop, handle, app, disk, life, marks, faults, history>>

\* Fault: only a standby saves its batches.
SavesBatchStandby(h) == FALSE

\* apply_blk_batch with one block of a peer: saved at an autosnapshot only.
SavesBatch(h) == SnapHit(h)

SyncBatch ==
    /\ up /\ Writable /\ ~late.on
    /\ Len(chain) < MaxHeight /\ born < MaxBlocks
    /\ chain' = Append(chain, NewBlock)
    /\ born' = born + 1
    /\ commit' = IF SavesBatch(Len(chain) + 1) THEN [pc |-> "sync", who |-> "batch", bak |-> chain]
                                               ELSE commit
    /\ UNCHANGED <<seal, late, stop, handle, app, disk, life, marks, faults, history>>

\* A delivered export is marked as relayed, with a summary of the tip.
MarkRelayed ==
    /\ up /\ Writable /\ ~late.on /\ chain # <<>> /\ marks < MaxMarks
    /\ marks' = marks + 1
    /\ commit' = [pc |-> "summary", who |-> "relay", bak |-> chain]
    /\ UNCHANGED <<chain, seal, late, stop, handle, app, disk, life, born, faults, history>>

\* One turn of sync_epoch_to_tip.
SyncStep ==
    /\ up /\ commit.pc = "sync"
    /\ LET h == disk.man.h + 1 IN
         \/ /\ h > Len(chain)
            /\ commit' = [commit EXCEPT !.pc = "summary"]
            /\ UNCHANGED <<app, harm>>
         \/ /\ h <= Len(chain) /\ Appendable(chain[h])
            /\ BeginAppend("commit", chain[h])
            /\ commit' = [commit EXCEPT !.pc = "append"]
         \/ /\ h <= Len(chain) /\ ~Appendable(chain[h])
            /\ commit' = [commit EXCEPT !.pc = "failed"]
            /\ UNCHANGED <<app, harm>>
    /\ UNCHANGED <<chain, seal, late, stop, handle, disk, life, counters, acked>>

SyncAppended(ok) ==
    /\ EndAppend("commit", ok)
    /\ commit' = [commit EXCEPT !.pc = IF ok THEN "sync" ELSE "failed"]
    /\ UNCHANGED <<chain, seal, late, stop, handle, life, born, marks, acked>>

CommitSummary(ok) ==
    /\ up /\ commit.pc \in {"summary", "monolith"}
    /\ WriteSummary(IF commit.pc = "summary" THEN Checkpoint ELSE Monolith, ok)
    /\ commit' = [commit EXCEPT !.pc = IF ok THEN "saved" ELSE "failed"]
    /\ UNCHANGED <<chain, seal, late, stop, handle, app, life, born, marks, acked>>

\* HTTP answers, or undoes its block before it releases the lock; the others
\* put their copy back afterwards.
CommitDone ==
    /\ up /\ commit.pc \in {"saved", "failed"}
    /\ LET ok == commit.pc = "saved" IN
         /\ acked' = IF ok /\ commit.who = "http" THEN acked \cup {TipOf(chain)} ELSE acked
         /\ ready' = (ready \/ (ok /\ commit.who # "stop"))
         /\ \/ /\ ~ok /\ commit.who = "http"
               /\ Restore(commit.bak)
               /\ UNCHANGED late
            \/ /\ ~ok /\ commit.who \in {"batch", "relay"}
               /\ late' = [on |-> TRUE, bak |-> commit.bak]
               /\ harm' = harm \cup {"late"}
               /\ UNCHANGED chain
            \/ /\ ok \/ commit.who = "stop"
               /\ UNCHANGED <<chain, late, harm>>
    /\ stop' = IF commit.who = "stop" THEN "off" ELSE stop
    /\ commit' = NoCommit
    /\ UNCHANGED <<seal, handle, app, disk, up, counters>>

LateRollback ==
    /\ up /\ late.on /\ Writable
    /\ Restore(late.bak)
    /\ late' = NoLate
    /\ ready' = FALSE
    /\ UNCHANGED <<seal, commit, stop, handle, app, disk, up, counters, acked>>

----------------------------------------------------------------------------
\* The graceful shutdown: flush, end the writer, save, end the process.

RequestStop ==
    /\ up /\ stop = "no"
    /\ stop' = "flush"
    /\ UNCHANGED <<chain, seal, commit, late, handle, app, disk, life, counters, history>>

StopSend ==
    /\ up /\ stop \in {"flush", "shutdown"}
    /\ Send("stop", stop, NoBlock)
    /\ mutex' = "stop"
    /\ stop' = IF stop = "flush" THEN "flushing" ELSE "joining"
    /\ UNCHANGED <<chain, seal, commit, late, writer, reply, app, disk, life, counters, history>>

StopAnswered ==
    /\ up /\ stop \in {"flushing", "joining"} /\ reply # "none"
    /\ stop' = IF stop = "flushing" THEN "shutdown" ELSE "save"
    /\ reply' = "none" /\ mutex' = "free"
    /\ UNCHANGED <<chain, seal, commit, late, queue, writer, app, disk, life, counters, history>>

\* Nothing is saved when the manifest is ahead of the chain.
StopSave ==
    /\ up /\ stop = "save" /\ Readable /\ commit.pc = "idle"
    /\ IF Len(chain) < disk.man.h
         THEN stop' = "off" /\ UNCHANGED commit
         ELSE /\ commit' = [pc |-> "sync", who |-> "stop", bak |-> <<>>]
              /\ stop' = "saving"
    /\ UNCHANGED <<chain, seal, late, handle, app, disk, life, counters, history>>

----------------------------------------------------------------------------
\* The end of the process, and the next start.

End ==
    /\ up /\ stop = "off" /\ commit.pc = "idle"
    /\ \A a \in Appenders : app[a].pc = "none"
    /\ up' = FALSE
    /\ UNCHANGED <<chain, seal, commit, late, stop, handle, app, disk, ready, counters, history>>

Crash ==
    /\ up /\ faults < MaxFaults
    /\ faults' = faults + 1
    /\ up' = FALSE
    /\ harm' = harm \cup (IF \E a \in Appenders : app[a].pc = "manifest" THEN {"torn"} ELSE {})
    /\ UNCHANGED <<chain, seal, commit, late, stop, handle, app, disk, ready, born, marks, acked>>

\* load_snapshot_timed: the lines of the files the manifest lists, in order,
\* are verified from the genesis, or trusted when the summary is at the
\* manifest's height.
Lines == FlattenSeq([i \in 1..Cardinality(Epochs) |->
                        IF i - 1 \in disk.man.rows THEN disk.files[i - 1] ELSE <<>>])

Linked(ls) == \A i \in DOMAIN ls : /\ ls[i].h = i
                                   /\ ls[i].prev = (IF i = 1 THEN 0 ELSE ls[i - 1].id)

FullVerify == disk.man # NoManifest /\ disk.sum.kind # "inline" /\ disk.man.h # disk.sum.h

Verified == Len(Lines) = disk.man.h /\ Linked(Lines)

Trusted == /\ disk.man # NoManifest
           /\ Verified
           /\ TipOf(Lines).id = disk.man.tip /\ disk.man.tip = disk.sum.st

Loads == \/ disk.sum.kind = "none" /\ disk.man = NoManifest
         \/ disk.sum.kind = "inline"
         \/ FullVerify /\ Verified
         \/ disk.sum.kind = "epochs" /\ ~FullVerify /\ Trusted

Loaded == IF disk.sum.kind = "inline" THEN disk.sum.blocks ELSE Lines

\* A node that cannot load its files exits.  The summary is aligned with a
\* chain that was verified.
Restart ==
    /\ ~up /\ Loads
    /\ up' = TRUE /\ ready' = TRUE
    /\ seal' = NoSeal /\ commit' = NoCommit /\ late' = NoLate
    /\ stop' = "no" /\ mutex' = "free" /\ reply' = "none"
    /\ queue' = <<>> /\ writer' = "up"
    /\ app' = [a \in Appenders |-> NoAppend]
    /\ chain' = Loaded
    /\ harm' = harm \cup (IF OnDisk \subseteq ToSet(Loaded) THEN {} ELSE {"undone"})
    /\ disk' = IF FullVerify
                 THEN [disk EXCEPT !.sum = [kind |-> "epochs", h |-> Len(Loaded),
                                            st |-> TipOf(Loaded).id, blocks |-> <<>>]]
                 ELSE disk
    /\ UNCHANGED <<counters, acked>>

WriterStep == WriterTake \/ \E ok \in BOOLEAN : WriterDone(ok)

SealStep ==
    \/ Enqueue \/ Recover \/ SkipSave \/ StartSave \/ SendFlush \/ Flushed \/ Finish
    \/ up /\ seal.pc \in {"enqueue", "flush"} /\ WaitForRoom("seal")
    \/ \E ok \in BOOLEAN : RecoverDone(ok) \/ SaveSummary(ok)

CommitStep == \/ SyncStep \/ CommitDone
              \/ \E ok \in BOOLEAN : SyncAppended(ok) \/ CommitSummary(ok)

StopStep == \/ StopSend \/ StopAnswered \/ StopSave \/ End
            \/ up /\ stop \in {"flush", "shutdown"} /\ WaitForRoom("stop")

Next == \/ WriterStep \/ SealStep \/ CommitStep \/ StopStep
        \/ \E a \in Appenders : WriteLine(a)
        \/ StartTurn \/ Seal \/ HttpCommit \/ SyncBatch \/ MarkRelayed \/ LateRollback
        \/ RequestStop \/ Crash \/ Restart

\* What has begun goes on.
Fairness == /\ WF_vars(WriterStep) /\ WF_vars(SealStep)
            /\ WF_vars(CommitStep) /\ WF_vars(StopStep)
            /\ \A a \in Appenders : WF_vars(WriteLine(a))

Spec == Init /\ [][Next]_vars /\ Fairness

----------------------------------------------------------------------------
\* Properties.

Blocks == [h : 0..MaxHeight, id : 0..MaxBlocks, prev : 0..MaxBlocks]

\* Every variable has its shape; the writer's channel keeps its bound, and a
\* chain in memory is always one of linked blocks.
TypeOK ==
    /\ chain \in Seq(Blocks) /\ Linked(chain)
    /\ seal.pc \in {"idle", "turn", "enqueue", "recover", "save", "flush", "flushing",
                    "summary", "saved", "failed"}
    /\ seal.blk \in Blocks /\ seal.bak \in Seq(Blocks)
    /\ commit.pc \in {"idle", "sync", "append", "summary", "monolith", "saved", "failed"}
    /\ commit.who \in {"none", "http", "batch", "relay", "stop"} /\ commit.bak \in Seq(Blocks)
    /\ late.on \in BOOLEAN /\ late.bak \in Seq(Blocks)
    /\ stop \in {"no", "flush", "flushing", "shutdown", "joining", "save", "saving", "off"}
    /\ mutex \in {"free", "seal", "stop"} /\ reply \in {"none", "ok", "error"}
    /\ queue \in Seq([op : {"append", "flush", "shutdown"}, blk : Blocks])
    /\ Len(queue) <= WriterCap
    /\ writer \in {"up", "failed", "gone"}
    /\ \A a \in Appenders : /\ app[a].pc \in {"none", "line", "manifest"}
                            /\ app[a].blk \in Blocks
    /\ \A e \in Epochs : disk.files[e] \in Seq(Blocks)
    /\ disk.man.h \in 0..MaxHeight /\ disk.man.tip \in 0..MaxBlocks /\ disk.man.rows \subseteq Epochs
    /\ disk.sum.kind \in {"none", "inline", "epochs"} /\ disk.sum.blocks \in Seq(Blocks)
    /\ ready \in BOOLEAN /\ up \in BOOLEAN
    /\ born \in 0..MaxBlocks /\ marks \in 0..MaxMarks /\ faults \in 0..MaxFaults
    /\ acked \subseteq Blocks
    /\ harm \subseteq {"raced", "torn", "hollow", "late", "undone"}

\* At every moment but inside an append, a node that starts from its files
\* gets its chain back, up to some height, with every block whose request
\* was answered.  The five things that can take this away: two appends at
\* once, one that stops between its line and its manifest, a summary that
\* takes the place of blocks the files do not have (or stands for all the
\* blocks of an epoch), a batch kept while its save has failed, and a
\* rollback of what was already written.
Recovers ==
    /\ harm = {}
    /\ \A a \in Appenders : app[a].pc # "manifest"
    => /\ Loads
       /\ IsPrefix(Loaded, chain)
       /\ acked \subseteq ToSet(Loaded)

\* The seal loop is never lost in its writer: from the enqueue of a block to
\* the end of its autosnapshot it waits for the channel, the mutex, the
\* flush and the lock, and returns, also after a failed append.
SealReturns == seal.pc \notin {"idle", "turn"} ~> (seal.pc \in {"idle", "turn"} \/ ~up)
=============================================================================
