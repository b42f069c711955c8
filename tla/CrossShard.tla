---------------------------- MODULE CrossShard -----------------------------
(***************************************************************************)
(* An export from one shard to another: the source node's chain, roaming   *)
(* pool and fact ledger (pwmd/src/roaming.rs, ledger.rs, state.rs), the    *)
(* target node's, and the HTTP handlers and relays between them            *)
(* (pwmd/src/api/handlers_roaming.rs, handlers_tx.rs, relay.rs).           *)
(*                                                                         *)
(* A handler that holds the node's write lock is one step.  A handler that *)
(* releases the lock to await a relay, or to write the snapshot, is split  *)
(* there: the rest of it runs later, against whatever the node has become. *)
(* Handlers that find the disk failing after they released the lock put    *)
(* back the copy they took before, with all the node did since undone.     *)
(*                                                                         *)
(* One account exports, with consecutive nonces; export e is its           *)
(* transaction with nonce e - 1.  Heights are kept as the blocks that are  *)
(* left to a deadline.                                                     *)
(***************************************************************************)
EXTENDS Naturals, FiniteSets

CONSTANTS MaxExports,   \* bound: the account exports so many times
          Ttl,          \* blocks an intent lives, ttl_blocks
          LockBlocks,   \* xshard_lock_to_blocks
          FactCap,      \* FACT_CAP
          MaxFaults     \* bound: snapshot writes that fail

ASSUME CrossShardAssumption ==
    /\ MaxExports \in Nat /\ MaxFaults \in Nat
    /\ Ttl \in Nat \ {0} /\ LockBlocks \in Nat \ {0} /\ FactCap \in Nat \ {0}

VARIABLES src,       \* the source node, what a rollback restores
          tgt,       \* the target node, likewise
          waiting,   \* exports whose handoff relay a source handler awaits
          posts,     \* handoffs that left the source
          acks,      \* handoffs the target has answered with success
          sealed,    \* relayed imports the target has answered with success
          held,      \* copy a handler will put back, per node
          degraded,  \* nodes that refuse user transactions
          faults,    \* snapshot writes that failed
          undone     \* history: nodes where a copy was put back

vars == <<src, tgt, waiting, posts, acks, sealed, held, degraded,
          faults, undone>>

Exports == 1..MaxExports
Nodes == {"src", "tgt"}
NoExport == 0

\* CrossShardStatus::rank; Unknown is a fact the ledger does not hold.
Unknown == 0
Exported == 1
Registered == 2
Imported == 3

Locking == {"exported", "relayed"}
Terminal == {"imported", "expired"}

Init == /\ src = [nonce  |-> 0,
                  lock   |-> [e \in Exports |-> "none"],
                  due    |-> [e \in Exports |-> 0],
                  facts  |-> [e \in Exports |-> Unknown],
                  intent |-> [e \in Exports |-> "none"],
                  ttl    |-> [e \in Exports |-> 0],
                  active |-> NoExport]
        /\ tgt = [imported |-> {}, facts |-> [e \in Exports |-> Unknown]]
        /\ waiting = {} /\ posts = {} /\ acks = {} /\ sealed = {}
        /\ held = [n \in Nodes |-> <<>>]
        /\ degraded = {} /\ undone = {} /\ faults = 0

-----------------------------------------------------------------------------
(* The fact ledger and the roaming pool                                    *)

Known(facts) == {e \in Exports : facts[e] # Unknown}

\* Fault: nothing is dropped at the cap.
UpsertUncapped(facts, e, status) ==
    {[facts EXCEPT ![e] = IF status < @ THEN @ ELSE status]}

(* upsert: a fact never loses rank.  Beyond the cap the one with the least *)
(* last_height goes; the heights come from two chains, so it may be any.   *)
Upsert(facts, e, status) ==
    LET new == [facts EXCEPT ![e] = IF status < @ THEN @ ELSE status]
    IN  IF Cardinality(Known(new)) <= FactCap THEN {new}
        ELSE {[new EXCEPT ![x] = Unknown] : x \in Known(new)}

\* Fault: an intent that ends leaves its lock behind.
SetIntentKeepsLock(s, e, status) ==
    [s EXCEPT !.intent[e] = status,
              !.active = IF status \in Locking THEN e ELSE @]

\* set_status: it acts on the account's lock whichever intent holds it.
SetIntent(s, e, status) ==
    [s EXCEPT !.intent[e] = status,
              !.active = IF status \in Locking THEN e ELSE NoExport]

\* mark_relayed, mark_relayed_by_export, mark_import_by_export
Mark(s, e, status) == IF s.intent[e] = "none" THEN s ELSE SetIntent(s, e, status)

\* Fault: only an intent that was never relayed expires.
ExpireUnrelayed(s) ==
    LET gone == {e \in Exports : s.intent[e] = "exported" /\ s.ttl[e] = 0}
    IN  [s EXCEPT !.intent = [e \in Exports |-> IF e \in gone THEN "expired" ELSE @[e]],
                  !.active = IF gone = {} THEN @ ELSE NoExport]

(* expire_by_height: every intent in a locking status past its height.     *)
Expire(s) ==
    LET gone == {e \in Exports : s.intent[e] \in Locking /\ s.ttl[e] = 0}
    IN  [s EXCEPT !.intent = [e \in Exports |-> IF e \in gone THEN "expired" ELSE @[e]],
                  !.active = IF gone = {} THEN @ ELSE NoExport]

\* rebuild_locks_from_status: the last locking intent in the order of ids.
Rebuilt(s) ==
    LET locking == {e \in Exports : s.intent[e] \in Locking}
    IN  {[s EXCEPT !.active = a] : a \in IF locking = {} THEN {NoExport} ELSE locking}

Down(n) == IF n = 0 THEN 0 ELSE n - 1

(* A block of the source chain: refund_exp_locks at the new height, and    *)
(* every deadline is a block nearer.                                       *)
Block(s) ==
    [s EXCEPT !.due = [e \in Exports |-> Down(@[e])],
              !.ttl = [e \in Exports |-> Down(@[e])],
              !.lock = [e \in Exports |->
                  IF @[e] = "Locked" /\ s.due[e] <= 1 THEN "Refunded" ELSE @[e]]]

(* The block that seals export e and the fact that is recorded for it.     *)
ExportBlocks(s, e) ==
    {[Block(s) EXCEPT !.nonce = e, !.lock[e] = "Locked", !.due[e] = LockBlocks,
                      !.facts = f] : f \in Upsert(s.facts, e, Exported)}

-----------------------------------------------------------------------------
(* Saves and rollbacks                                                     *)

Quiet(n) == held[n] = <<>>

\* A snapshot write that failed after the lock was released: the handler
\* still has to put its copy back.
Fail(n, bak) == /\ Quiet(n)
                /\ faults < MaxFaults
                /\ faults' = faults + 1
                /\ held' = [held EXCEPT ![n] = <<bak>>]

Save(n, bak) == \/ UNCHANGED <<held, faults>>
                \/ Fail(n, bak)

\* The write lock is taken a second time, for rollback_commit.
Rollback(n) ==
    /\ ~Quiet(n)
    /\ IF n = "src" THEN src' = held[n][1] /\ UNCHANGED tgt
                    ELSE tgt' = held[n][1] /\ UNCHANGED src
    /\ held' = [held EXCEPT ![n] = <<>>]
    /\ degraded' = degraded \cup {n}
    /\ undone' = undone \cup {n}
    /\ UNCHANGED <<waiting, posts, acks, sealed, faults>>

-----------------------------------------------------------------------------
(* The source node                                                         *)

\* ensure_user_tx_allowed
Admits(n) == n \notin degraded

\* register_export, then the chain's seal, record_cross_shard_tx and
\* mark_exported.
Created(s, e) ==
    {SetIntent([t EXCEPT !.ttl[e] = Ttl], e, "exported") : t \in ExportBlocks(s, e)}

\* Fault: the handoff is relayed before the snapshot is known to be written.
CreateEarly(e) ==
    LET s == Expire(src)
    IN  /\ Admits("src")
        /\ e = src.nonce + 1
        /\ \/ /\ s.active = NoExport
              /\ src' \in Created(s, e) \cup (IF faults < MaxFaults THEN {s} ELSE {})
              /\ faults' = IF src' = s THEN faults + 1 ELSE faults
              /\ posts' = posts \cup {e}
              /\ waiting' = waiting \cup {e}
           \/ /\ s.active # NoExport
              /\ src' = s
              /\ UNCHANGED <<faults, posts, waiting>>
        /\ UNCHANGED <<tgt, acks, sealed, held, degraded, undone>>

(* v1_roaming_intent_create, of the account's next transaction: any other  *)
(* fails the nonce checks of consume_readiness and of the chain.  The      *)
(* handoff leaves only when the export is in the snapshot.                 *)
Create(e) ==
    LET s == Expire(src)
    IN  /\ Admits("src")
        /\ e = src.nonce + 1
        /\ \/ /\ s.active = NoExport
              /\ \/ /\ src' \in Created(s, e)
                    /\ posts' = posts \cup {e}
                    /\ waiting' = waiting \cup {e}
                    /\ UNCHANGED faults
                 \/ /\ faults < MaxFaults
                    /\ faults' = faults + 1
                    /\ src' = s
                    /\ UNCHANGED <<posts, waiting>>
           \/ /\ s.active # NoExport
              /\ src' = s
              /\ UNCHANGED <<faults, posts, waiting>>
        /\ UNCHANGED <<tgt, acks, sealed, held, degraded, undone>>

(* v1_tx for an export.  The account's lock was looked up before, under a  *)
(* read lock that was given up: it says nothing of the moment the export   *)
(* is sealed.                                                              *)
SealDirect(e) ==
    /\ e = src.nonce + 1
    /\ src' \in {Expire(t) : t \in ExportBlocks(src, e)}
    /\ UNCHANGED <<tgt, waiting, posts, acks, sealed, held, degraded, faults, undone>>

(* v1_roaming_intent_finalize: the handoff is handed to the caller in any  *)
(* status and relayed again while it is not known to have arrived.         *)
Finalize(e) ==
    LET s == Expire(src)
    IN  /\ Admits("src")
        /\ s.intent[e] # "none"
        /\ src' = s
        /\ \/ /\ UNCHANGED <<held, faults>>
              /\ posts' = posts \cup {e}
              /\ waiting' = IF s.intent[e] = "exported"
                            THEN waiting \cup {e} ELSE waiting
           \/ /\ Fail("src", s)
              /\ UNCHANGED <<posts, waiting>>
        /\ UNCHANGED <<tgt, acks, sealed, degraded, undone>>

\* Whatever the intent has become while the handler was waiting.
MarkRelayed(e) == src' = Mark(src, e, "relayed")

(* relay_handoff returns: mark_relay_ok or, the reply lost, mark_relay_err.*)
RelayReturns(e) ==
    /\ e \in waiting
    /\ waiting' = waiting \ {e}
    /\ \/ e \in acks /\ MarkRelayed(e)
       \/ UNCHANGED src
    /\ UNCHANGED <<tgt, posts, acks, sealed, held, degraded, faults, undone>>

(* relay_import returns with success: mark_relayed_by_export, the snapshot *)
(* written under the lock and the copy put back without it.                *)
ImportReturns(e) ==
    /\ e \in sealed
    /\ sealed' = sealed \ {e}
    /\ MarkRelayed(e)
    /\ Save("src", src)
    /\ UNCHANGED <<tgt, waiting, posts, acks, degraded, undone>>

(* v1_roaming_intent_status                                                *)
Status == /\ src' = Expire(src)
          /\ UNCHANGED <<tgt, waiting, posts, acks, sealed, held,
                         degraded, faults, undone>>

(* The seal loop: intents expire at the tip, a block is sealed, and the    *)
(* periodic snapshot is written without the lock.                          *)
SourceBlock ==
    LET s == Expire(src)
    IN  /\ src' = Block(s)
        /\ \/ Fail("src", s) /\ UNCHANGED degraded
           \/ UNCHANGED <<held, faults>> /\ degraded' = degraded \ {"src"}
        /\ UNCHANGED <<tgt, waiting, posts, acks, sealed, undone>>

\* Fault: any fact of the target counts as its import.
HearAny(e) ==
    /\ tgt.facts[e] # Unknown
    /\ \E f \in Upsert(src.facts, e, Imported) :
          src' = Mark([src EXCEPT !.facts = f], e, "imported")
    /\ UNCHANGED <<tgt, waiting, posts, acks, sealed, held, degraded,
                   faults, undone>>

(* merge_cross_shard_facts at the source: the target's facts arrive over   *)
(* the peer session that the source opened.                                *)
Hear(e) ==
    /\ tgt.facts[e] # Unknown
    /\ \E f \in Upsert(src.facts, e, tgt.facts[e]) :
          src' = IF tgt.facts[e] = Imported
                 THEN Mark([src EXCEPT !.facts = f], e, "imported")
                 ELSE [src EXCEPT !.facts = f]
    /\ UNCHANGED <<tgt, waiting, posts, acks, sealed, held, degraded,
                   faults, undone>>

(* A clean stop and start of the source: the handlers under way are gone,  *)
(* the pool comes back from the snapshot with its locks rebuilt.           *)
Restart ==
    /\ Quiet("src")
    /\ src' \in Rebuilt(src)
    /\ waiting' = {} /\ sealed' = {}
    /\ degraded' = degraded \ {"src"}
    /\ UNCHANGED <<tgt, posts, acks, held, faults, undone>>

-----------------------------------------------------------------------------
(* The target node                                                         *)

(* v1_export_handoff_register: relayed, or posted by the operator from the *)
(* answer of finalize, once or again.                                      *)
Register(e) ==
    /\ e \in posts
    /\ Admits("tgt")
    /\ e \notin tgt.imported
    /\ \E f \in Upsert(tgt.facts, e, Registered) : tgt' = [tgt EXCEPT !.facts = f]
    /\ \/ acks' = acks \cup {e} /\ UNCHANGED <<held, faults>>
       \/ Fail("tgt", tgt) /\ UNCHANGED acks
    /\ UNCHANGED <<src, waiting, posts, sealed, degraded, undone>>

(* record_backfill_fact: what the source's ledger lists is registered.     *)
Backfill(e) ==
    /\ Admits("tgt")
    /\ src.facts[e] # Unknown
    /\ \E f \in Upsert(tgt.facts, e, Registered) : tgt' = [tgt EXCEPT !.facts = f]
    /\ UNCHANGED <<src, waiting, posts, acks, sealed, held, degraded,
                   faults, undone>>

\* enforce_import_provenance_prefilter and the Import arm of apply_tx: the
\* target has no lock of this export to consult.
Importable(e) == e \notin tgt.imported /\ tgt.facts[e] \in {Registered, Imported}

(* v1_tx for an import, from a client of the target or relayed by the      *)
(* source; a snapshot that cannot be written is rolled back under the lock.*)
Import(e) ==
    /\ Admits("tgt")
    /\ Importable(e)
    /\ \E f \in Upsert(tgt.facts, e, Imported) :
          tgt' = [tgt EXCEPT !.imported = @ \cup {e}, !.facts = f]
    /\ sealed' \in {sealed, sealed \cup {e}}
    /\ UNCHANGED <<src, waiting, posts, acks, held, degraded, faults,
                   undone>>

(* The target's seal loop: nothing of the exports changes with a block,    *)
(* but a failing snapshot puts back the copy from before it.               *)
TargetBlock ==
    /\ \/ Fail("tgt", tgt) /\ UNCHANGED degraded
       \/ UNCHANGED <<held, faults>> /\ degraded' = degraded \ {"tgt"}
    /\ UNCHANGED <<src, tgt, waiting, posts, acks, sealed, undone>>

(* merge_cross_shard_facts at the target.                                  *)
HearSource(e) ==
    /\ src.facts[e] # Unknown
    /\ \E f \in Upsert(tgt.facts, e, src.facts[e]) : tgt' = [tgt EXCEPT !.facts = f]
    /\ UNCHANGED <<src, waiting, posts, acks, sealed, held, degraded,
                   faults, undone>>

-----------------------------------------------------------------------------
Next == \/ \E e \in Exports :
              \/ Create(e) \/ SealDirect(e) \/ Finalize(e)
              \/ RelayReturns(e) \/ ImportReturns(e) \/ Hear(e)
              \/ Register(e) \/ Backfill(e) \/ Import(e) \/ HearSource(e)
        \/ \E n \in Nodes : Rollback(n)
        \/ Status \/ SourceBlock \/ TargetBlock \/ Restart

(* The seal loop goes on.                                                  *)
Spec == Init /\ [][Next]_vars /\ WF_vars(SourceBlock)

-----------------------------------------------------------------------------
(* Properties                                                              *)

IsSource(s) ==
    /\ s.nonce \in 0..MaxExports
    /\ s.lock \in [Exports -> {"none", "Locked", "Refunded"}]
    /\ s.due \in [Exports -> 0..LockBlocks]
    /\ s.facts \in [Exports -> Unknown..Imported]
    /\ s.intent \in [Exports -> {"none"} \cup Locking \cup Terminal]
    /\ s.ttl \in [Exports -> 0..Ttl]
    /\ s.active \in Exports \cup {NoExport}

IsTarget(t) == /\ t.imported \subseteq Exports
               /\ t.facts \in [Exports -> Unknown..Imported]

TypeOK == /\ IsSource(src) /\ IsTarget(tgt)
          /\ waiting \subseteq Exports
          /\ posts \subseteq Exports
          /\ acks \subseteq posts /\ sealed \subseteq Exports
          /\ degraded \subseteq Nodes /\ undone \subseteq Nodes
          /\ faults \in 0..MaxFaults
          /\ \A n \in Nodes : held[n] # <<>> =>
                IF n = "src" THEN IsSource(held[n][1]) ELSE IsTarget(held[n][1])
          /\ Cardinality(Known(src.facts)) <= FactCap
          /\ Cardinality(Known(tgt.facts)) <= FactCap

(* What the target holds as exported was exported: the source has taken the*)
(* value from the account, and keeps it or has refunded it.  The snapshot  *)
(* is written before the handoff leaves, so only a copy put back after the *)
(* lock was given up can erase an export that the target knows.            *)
Backed ==
    "src" \notin undone =>
        \A e \in Exports : e \in tgt.imported \/ tgt.facts[e] # Unknown
                             => src.lock[e] # "none"

(* The source takes an export for imported only when the target sealed the *)
(* import: the answer of a relay alone never moves the fact or the intent. *)
ImportIsTrue ==
    "tgt" \notin undone =>
        \A e \in Exports : src.facts[e] = Imported \/ src.intent[e] = "imported"
                             => e \in tgt.imported

(* A lock never outlives its intent, whatever order the relays, the facts  *)
(* and the restarts come in, and the account's first intent has it for as  *)
(* long as it is under way.                                                *)
LockIsLive ==
    /\ src.active # NoExport => src.intent[src.active] \in Locking
    /\ \A e \in Exports :
          /\ src.intent[e] \in Locking
          /\ \A x \in Exports \ {e} : src.intent[x] = "none"
          => src.active = e

(* The account does not stay locked: whatever becomes of the relays, of the*)
(* target and of the operator's retries, blocks alone end every intent,    *)
(* one that a late answer has revived included.                            *)
AccountFreed == src.active # NoExport ~> src.active = NoExport

(* RFC 9, Mode B: the value of an export goes to the importer or back to   *)
(* the sender.                                                             *)
PaidOnce == \A e \in tgt.imported : src.lock[e] # "Refunded"
=============================================================================
