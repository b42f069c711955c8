------------------------------ MODULE Cluster ------------------------------
(***************************************************************************)
(* The seal cluster of pwmd: proposers take turns by height, propose the   *)
(* next height to the attesters and seal it once enough of them have       *)
(* signed (run_cluster_gate).  A proposer that waits in vain for the turn  *)
(* of another skips that height.                                           *)
(*                                                                         *)
(* A block is its height, its parent, who sealed it and the signatures the *)
(* gate counted; a hash is the block's number, 0 for the genesis.  Only    *)
(* round 0 of a height exists.  A session is a set of messages in flight;  *)
(* when it breaks, some of them are lost.  The attesters' own records of a *)
(* round are read by nobody and left out, as are the lease (Lease), the    *)
(* liveness of peers before the gate and the wall clock: a timeout and a   *)
(* window may end at any time.                                             *)
(***************************************************************************)
EXTENDS Naturals, Sequences, FiniteSets

CONSTANTS Proposers, Attesters,
          Turns,      \* members at the active validator indices, in order
          Quorum,     \* quorum_k
          RetryCap,   \* CLUSTER_PROP_RETRY_CAP
          TailCap,    \* CLUSTER_PROP_TAIL_CAP
          MaxHeight,  \* bound: heights reached
          MaxBlocks,  \* bound: blocks ever sealed
          MaxLosses,  \* bound: messages lost
          MaxKinds    \* bound: kinds of disturbance in one behaviour

Nodes == Proposers \cup Attesters

ASSUME ClusterAssumption ==
    /\ Proposers \cap Attesters = {}
    /\ Turns \in Seq(Nodes) /\ Turns # <<>>
    /\ {Quorum, RetryCap, TailCap, MaxHeight, MaxBlocks, MaxLosses,
        MaxKinds} \subseteq Nat
    /\ Quorum > 0 /\ TailCap > 0

VARIABLES chain,  \* blocks of each node
          canon,  \* canonical_h of each node
          born,   \* blocks sealed so far, by all
          round,  \* ClusterRoundState of each proposer and height
          sent,   \* sent_key_by_node: height last proposed to each attester
          msgs,   \* proposals and attests in flight
          gate,   \* what a proposer's passed gate has counted
          bak,    \* chain a proposer may restore after its last seal
          target, \* seal_manual: target_h in manual mode, 0 otherwise
          dead,   \* proposers that are down
          losses, \* messages lost so far
          hist    \* history: what has disturbed the cluster

vars == <<chain, canon, born, round, sent, msgs, gate, bak, target, dead, losses, hist>>

Heights == 1..MaxHeight
NoRound == [open |-> FALSE, parent |-> 0, acks |-> {}, opened |-> FALSE, retry |-> 0]
NoGate  == [h |-> 0, acks |-> {}]
NoBak   == [chain |-> <<>>, canon |-> 0, set |-> FALSE]

TipHash(n) == IF chain[n] = <<>> THEN 0 ELSE chain[n][Len(chain[n])].id
NextH(n)   == canon[n] + 1

\* pick_prod_idx and the member at that index.
Turn(h) == Turns[(h % Len(Turns)) + 1]

Init == /\ chain = [n \in Nodes |-> <<>>]
        /\ canon = [n \in Nodes |-> 0]
        /\ born = 0
        /\ round = [p \in Proposers |-> [h \in Heights |-> NoRound]]
        /\ sent = [p \in Proposers |-> [a \in Attesters |-> 0]]
        /\ msgs = {}
        /\ gate = [p \in Proposers |-> NoGate]
        /\ bak = [p \in Proposers |-> NoBak]
        /\ target = [p \in Proposers |-> 0]
        /\ dead \in {{}} \cup {{p} : p \in Proposers}
        /\ losses = 0
        /\ hist = {}

\* One more thing the properties set apart has happened.
Disturb(event) ==
    /\ hist' = hist \cup {event}
    /\ Cardinality(hist') <= MaxKinds

-----------------------------------------------------------------------------
(* Proposing.                                                              *)

Larger(a, b) == IF a > b THEN a ELSE b

\* Fault: the turn is taken by every active member.
LocalProdAny(p, h) == \E q \in Proposers : Turn(h) = q

\* local_prod_for_h: the height is this member's to seal.
LocalProd(p, h) == Turn(h) = p

\* Fault: a proposer also proposes the height after the next one.
PropHeightAhead(p) == {h \in {NextH(p), NextH(p) + 1} \cap Heights : LocalProd(p, h)}

\* mk_cluster_prop: the height it proposes, if it is this member's turn.
PropHeight(p) == {h \in {Larger(target[p], NextH(p))} \cap Heights : LocalProd(p, h)}

(* record_cluster_prop.  The new binding is stored before it is compared   *)
(* with the stored one, so it never counts as changed: the attests and the *)
(* retries of an earlier binding stay.                                     *)
Recorded(p, h, opened) ==
    [round EXCEPT ![p][h].open = TRUE,
                  ![p][h].parent = TipHash(p),
                  ![p][h].opened = @ \/ opened]

\* The tick of the seal loop opens the round without sending anything.
PropTick(p) ==
    /\ p \notin dead /\ ~bak[p].set
    /\ \E h \in PropHeight(p) : round' = Recorded(p, h, FALSE)
    /\ round' # round
    /\ UNCHANGED <<chain, canon, born, sent, msgs, gate, bak, target, dead, losses, hist>>

(* The newest blocks of a proposal, as many as the tip the attester is     *)
(* known to have calls for, at most TailCap.                               *)
TailBlocks(p, depth) ==
    SubSeq(chain[p], Larger(1, Len(chain[p]) - depth + 1), Len(chain[p]))

(* send_cluster_prop on a session of p with a, once for each height.       *)
SendProp(p, a) ==
    /\ p \notin dead
    /\ \E h \in PropHeight(p) :
          /\ sent[p][a] # h
          /\ \E depth \in 1..TailCap :
                msgs' = msgs \cup {[kind |-> "propose", from |-> p, to |-> a, h |-> h,
                                    parent |-> TipHash(p), tail |-> TailBlocks(p, depth)]}
          /\ round' = Recorded(p, h, TRUE)
          /\ sent' = [sent EXCEPT ![p][a] = h]
    /\ UNCHANGED <<chain, canon, born, gate, bak, target, dead, losses, hist>>

-----------------------------------------------------------------------------
(* Applying blocks of another node.                                        *)

\* apply_blk, for every block of a batch: the next height, on the tip.
Follows(n, blks) ==
    /\ blks # <<>>
    /\ blks[1].parent = TipHash(n)
    /\ \A k \in 1..Len(blks) : blks[k].h = canon[n] + k
    /\ \A k \in 2..Len(blks) : blks[k].parent = blks[k-1].id

\* The blocks above a height: heights only rise along a chain.
Above(blks, h) ==
    SubSeq(blks, Cardinality({k \in DOMAIN blks : blks[k].h <= h}) + 1, Len(blks))

Apply(n, blks) ==
    /\ chain' = [chain EXCEPT ![n] = @ \o blks]
    /\ canon' = [canon EXCEPT ![n] = blks[Len(blks)].h]

(* An attester takes a proposal (route_cluster_stub).  When it is more     *)
(* than one block behind it tries the tail blocks, all or none of them;    *)
(* it signs the proposal whatever comes of that.                           *)
Attest(a, m) ==
    LET blks == Above(m.tail, canon[a]) IN
    /\ m \in msgs /\ m.kind = "propose" /\ m.to = a
    /\ IF NextH(a) < m.h /\ Follows(a, blks) THEN Apply(a, blks) ELSE UNCHANGED <<chain, canon>>
    /\ msgs' = (msgs \ {m}) \cup {[kind |-> "attest", from |-> a, to |-> m.from,
                                  h |-> m.h, parent |-> m.parent]}
    /\ UNCHANGED <<born, round, sent, gate, bak, target, dead, losses, hist>>

\* The attest is for the binding the round has now.
Binds(p, m) == round[p][m.h].open /\ round[p][m.h].parent = m.parent

CountAttest(p, m) ==
    /\ p \notin dead
    /\ m \in msgs /\ m.kind = "attest" /\ m.to = p
    /\ msgs' = msgs \ {m}
    /\ round' = IF Binds(p, m)
                THEN [round EXCEPT ![p][m.h].acks =
                        {k \in @ : k.by # m.from} \cup {[by |-> m.from, h |-> m.h, parent |-> m.parent]}]
                ELSE round
    /\ UNCHANGED <<chain, canon, born, sent, gate, bak, target, dead, losses, hist>>

\* Live sync between any two nodes of the shard (LiveSync has the protocol).
Sync(n, m) ==
    LET blks == Above(chain[m], canon[n]) IN
    /\ n \notin dead /\ m \notin dead
    /\ Follows(n, blks)
    /\ Apply(n, blks)
    /\ UNCHANGED <<born, round, sent, msgs, gate, bak, target, dead, losses, hist>>

-----------------------------------------------------------------------------
(* The gate and the seal.  Between the two the proposer holds no lock.     *)

\* run_cluster_gate: it counts signatures and never looks at their binding.
QuorumMet(r) == r.open /\ Cardinality({k.by : k \in r.acks}) >= Quorum

PassGate(p) ==
    /\ p \notin dead
    /\ NextH(p) \in Heights
    /\ target[p] = 0 => LocalProd(p, NextH(p))
    /\ QuorumMet(round[p][NextH(p)])
    /\ gate[p] = NoGate /\ ~bak[p].set
    /\ gate' = [gate EXCEPT ![p] = [h |-> NextH(p), acks |-> round[p][NextH(p)].acks]]
    /\ UNCHANGED <<chain, canon, born, round, sent, msgs, bak, target, dead, losses, hist>>

(* The new block, on the tip as it is now, and the chain as it was, which  *)
(* a failed autosnapshot restores.                                         *)
SealOn(p, acks, kind) ==
    /\ born < MaxBlocks /\ NextH(p) \in Heights
    /\ born' = born + 1
    /\ chain' = [chain EXCEPT ![p] = Append(@, [id |-> born + 1, h |-> NextH(p),
                    parent |-> TipHash(p), by |-> p, kind |-> kind, acks |-> acks])]
    /\ canon' = [canon EXCEPT ![p] = NextH(p)]

Seal(p) ==
    /\ p \notin dead
    /\ gate[p] # NoGate
    /\ SealOn(p, gate[p].acks, "gated")
    /\ gate' = [gate EXCEPT ![p] = NoGate]
    /\ bak' = [bak EXCEPT ![p] = [chain |-> chain[p], canon |-> canon[p],
                               set |-> target[p] = 0]]
    /\ UNCHANGED <<round, sent, msgs, target, dead, losses, hist>>

\* Fault: the height is restored and the chain is not.
RollbackHeight(p) ==
    /\ bak[p].set
    /\ canon' = [canon EXCEPT ![p] = bak[p].canon]
    /\ bak' = [bak EXCEPT ![p] = NoBak]
    /\ Disturb("rollback")
    /\ UNCHANGED <<chain, born, round, sent, msgs, gate, target, dead, losses>>

\* A failed autosnapshot after the seal: periodic_snap_finish restores.
Rollback(p) ==
    /\ bak[p].set
    /\ chain' = [chain EXCEPT ![p] = bak[p].chain]
    /\ canon' = [canon EXCEPT ![p] = bak[p].canon]
    /\ bak' = [bak EXCEPT ![p] = NoBak]
    /\ Disturb("rollback")
    /\ UNCHANGED <<born, round, sent, msgs, gate, target, dead, losses>>

\* The autosnapshot is written, or none was due.
Saved(p) ==
    /\ bak[p].set
    /\ bak' = [bak EXCEPT ![p] = NoBak]
    /\ UNCHANGED <<chain, canon, born, round, sent, msgs, gate, target, dead, losses, hist>>

\* v1_tx on an export, an import or a claim seals at once: no turn, no gate.
HttpSeal(n) ==
    /\ n \notin dead
    /\ SealOn(n, {}, "http")
    /\ Disturb("http")
    /\ UNCHANGED <<round, sent, msgs, gate, bak, target, dead, losses>>

\* Fault: the retry does not forget what was sent.
RetryUnsent(p) ==
    LET h == NextH(p) IN
    /\ p \notin dead /\ gate[p] = NoGate /\ ~bak[p].set
    /\ h \in Heights /\ (target[p] = 0 => LocalProd(p, h))
    /\ round[p][h].opened /\ round[p][h].acks = {} /\ round[p][h].retry < RetryCap
    /\ round' = [round EXCEPT ![p][h].opened = FALSE, ![p][h].retry = @ + 1]
    /\ IF \E m \in msgs : m.h = h /\ p \in {m.from, m.to} THEN Disturb("early") ELSE UNCHANGED hist
    /\ UNCHANGED <<chain, canon, born, sent, msgs, gate, bak, target, dead, losses>>

(* run_cluster_gate past the attest timeout without a signature: the round *)
(* is sent again, a bounded number of times.  The retry is early when an    *)
(* answer was still on its way.                                            *)
Retry(p) ==
    LET h == NextH(p) IN
    /\ p \notin dead /\ gate[p] = NoGate /\ ~bak[p].set
    /\ h \in Heights /\ (target[p] = 0 => LocalProd(p, h))
    /\ round[p][h].opened /\ round[p][h].acks = {} /\ round[p][h].retry < RetryCap
    /\ round' = [round EXCEPT ![p][h].opened = FALSE, ![p][h].retry = @ + 1]
    /\ sent' = [sent EXCEPT ![p] = [a \in Attesters |-> IF @[a] = h THEN 0 ELSE @[a]]]
    /\ IF \E m \in msgs : m.h = h /\ p \in {m.from, m.to} THEN Disturb("early") ELSE UNCHANGED hist
    /\ UNCHANGED <<chain, canon, born, msgs, gate, bak, target, dead, losses>>

\* Fault: a height is skipped only when its round was opened here.
SkipOpened(p) ==
    /\ p \notin dead
    /\ target[p] = 0 /\ gate[p] = NoGate /\ ~bak[p].set
    /\ NextH(p) \in Heights /\ ~LocalProd(p, NextH(p)) /\ round[p][NextH(p)].opened
    /\ canon' = [canon EXCEPT ![p] = NextH(p)]
    /\ Disturb("skip")
    /\ UNCHANGED <<chain, born, round, sent, msgs, gate, bak, target, dead, losses>>

\* skip_missed_h: the height moves on, the chain does not.
SkipMissed(p) ==
    /\ p \notin dead
    /\ target[p] = 0 /\ gate[p] = NoGate /\ ~bak[p].set
    /\ NextH(p) \in Heights /\ ~LocalProd(p, NextH(p))
    /\ canon' = [canon EXCEPT ![p] = NextH(p)]
    /\ Disturb("skip")
    /\ UNCHANGED <<chain, born, round, sent, msgs, gate, bak, target, dead, losses>>

-----------------------------------------------------------------------------
(* Manual sealing and the network.                                         *)

\* The lab RPC pauses the loop; its steps propose, pass the gate and seal.
SetTarget(p, h) ==
    /\ p \notin dead
    /\ gate[p] = NoGate
    /\ target[p] # h
    /\ target' = [target EXCEPT ![p] = h]
    /\ Disturb("manual")
    /\ UNCHANGED <<chain, canon, born, round, sent, msgs, gate, bak, dead, losses>>

\* A session breaks before a message is read.
Lose(m) ==
    /\ m \in msgs
    /\ losses < MaxLosses
    /\ msgs' = msgs \ {m}
    /\ losses' = losses + 1
    /\ UNCHANGED <<chain, canon, born, round, sent, gate, bak, target, dead, hist>>

Next == \/ \E p \in Proposers :
              \/ PropTick(p)
              \/ \E a \in Attesters : SendProp(p, a)
              \/ \E m \in msgs : CountAttest(p, m)
              \/ PassGate(p) \/ Seal(p) \/ Rollback(p) \/ Saved(p)
              \/ Retry(p) \/ SkipMissed(p)
              \/ \E h \in {0} \cup Heights : SetTarget(p, h)
        \/ \E a \in Attesters, m \in msgs : Attest(a, m)
        \/ \E n, m \in Nodes : Sync(n, m)
        \/ \E n \in Nodes : HttpSeal(n)
        \/ \E m \in msgs : Lose(m)

(* The sessions' periodic tasks, the seal loop and the sync run for ever.  *)
(* A missed turn is noticed by the clock, so skipping is fair only against *)
(* a proposer that is down.                                                *)
Fairness ==
    /\ \A p \in Proposers :
          /\ \A a \in Attesters : WF_vars(SendProp(p, a))
          /\ WF_vars(\E m \in msgs : CountAttest(p, m))
          /\ WF_vars(PassGate(p)) /\ WF_vars(Seal(p)) /\ WF_vars(Saved(p))
          /\ WF_vars(Retry(p))
          /\ WF_vars(dead # {} /\ Turn(NextH(p)) \in dead /\ SkipMissed(p))
    /\ \A a \in Attesters : WF_vars(\E m \in msgs : Attest(a, m))
    /\ \A n, m \in Nodes : WF_vars(Sync(n, m))

Spec == Init /\ [][Next]_vars /\ Fairness

-----------------------------------------------------------------------------
(* Properties                                                              *)

Acks == [by : Attesters, h : Heights, parent : Nat]

Blocks == [id : Nat, h : Heights, parent : Nat, by : Nodes,
           kind : {"gated", "http"}, acks : SUBSET Acks]

Messages ==
    [kind : {"propose"}, from : Proposers, to : Attesters, h : Heights, parent : Nat,
     tail : Seq(Blocks)]
    \cup [kind : {"attest"}, from : Attesters, to : Proposers, h : Heights, parent : Nat]

\* The state is well formed, and nobody's height is below its last block's.
TypeOK ==
    /\ chain \in [Nodes -> Seq(Blocks)]
    /\ canon \in [Nodes -> {0} \cup Heights]
    /\ born \in 0..MaxBlocks
    /\ round \in [Proposers -> [Heights -> [open : BOOLEAN, parent : Nat, acks : SUBSET Acks,
                                           opened : BOOLEAN, retry : 0..RetryCap]]]
    /\ sent \in [Proposers -> [Attesters -> {0} \cup Heights]]
    /\ msgs \subseteq Messages
    /\ gate \in [Proposers -> [h : {0} \cup Heights, acks : SUBSET Acks]]
    /\ \A p \in Proposers : bak[p].chain \in Seq(Blocks) /\ bak[p].canon \in {0} \cup Heights
    /\ target \in [Proposers -> {0} \cup Heights]
    /\ dead \subseteq Proposers
    /\ losses \in 0..MaxLosses
    /\ hist \subseteq {"rollback", "http", "skip", "manual", "early"}
    /\ \A n \in Nodes : chain[n] # <<>> => chain[n][Len(chain[n])].h <= canon[n]

Quiet(events) == hist \cap events = {}

(* run_cluster_gate passes before the block is made, and the gate compares *)
(* no hash: still a quorum has signed every block sealed behind the gate,  *)
(* at its height and on its parent, unless the chain was restored or       *)
(* somebody sealed outside the loop.                                       *)
SignedByQuorum ==
    Quiet({"rollback", "manual", "http"}) =>
        \A n \in Nodes : \A k \in 1..Len(chain[n]) :
            LET b == chain[n][k] IN
            b.kind = "gated" => Cardinality({a.by : a \in {x \in b.acks : x.h = b.h /\ x.parent = b.parent}}) >= Quorum

Prefix(s, t) == Len(s) <= Len(t) /\ SubSeq(t, 1, Len(s)) = s

(* The turns alone keep the chains of all nodes prefixes of one another: a *)
(* fork takes a skipped height, a restored chain or an HTTP seal.          *)
OneChain ==
    Quiet({"skip", "rollback", "http"}) =>
        \A n, m \in Nodes : Prefix(chain[n], chain[m]) \/ Prefix(chain[m], chain[n])

(* Proposals or attests may be lost, no more often than a round is sent    *)
(* again (CLUSTER_PROP_RETRY_CAP): left alone, the proposers in turn reach *)
(* every height.                                                           *)
Progress ==
    [](hist = {} /\ dead = {} /\ losses <= RetryCap) =>
        <>(\E p \in Proposers : canon[p] = MaxHeight)

(* With a proposer down the others take its turns over by skipping them    *)
(* (skip_missed_h) and reach every height without it.                      *)
Failover ==
    [](hist \subseteq {"skip"} /\ dead # {} /\ losses <= RetryCap) =>
        <>(\E p \in Proposers \ dead : canon[p] = MaxHeight)
=============================================================================
