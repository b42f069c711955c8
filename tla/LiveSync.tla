----------------------------- MODULE LiveSync -----------------------------
(***************************************************************************)
(* A follower catching up with its peers (sync_live.rs).  A peer announces *)
(* its tip; the follower asks for headers above its own, then for the      *)
(* blocks of the headers it accepted, and applies them in batches.  Far    *)
(* behind, it asks for a window of the chain instead (epoch catch-up) and  *)
(* ignores the live answers meanwhile.                                     *)
(*                                                                         *)
(* A block's hash is its height and its branch: the peers of Forked left   *)
(* the common chain at ForkAt.  A session is one ordered stream each way;  *)
(* when it breaks, everything in flight is lost and the follower's record  *)
(* of the peer stays as it was.  Each handler is one step: what it reads   *)
(* of the chain it reads under one lock, and its record of a peer is used  *)
(* by that peer's session alone.  Left out: the caps on queues the         *)
(* protocol never fills, the epoch limit of a catch-up window (CupWin      *)
(* stands for both) and the back-off's length (it may end at any time).    *)
(***************************************************************************)
EXTENDS Naturals, Sequences, SequencesExt

CONSTANTS Peers,
          Forked,     \* peers on the other branch
          ForkAt,     \* its first height
          HdrCap,     \* SYNC_HDR_REQ_CAP
          BlkCap,     \* SYNC_BLK_REQ_CAP
          InfCap,     \* SYNC_INF_CAP
          CupLagMin,  \* SYNC_CUP_LAG_MIN
          CupTailMax, \* SYNC_CUP_TAIL_MAX
          CupWin,     \* SYNC_CUP_WIN_CAP
          CupChunk,   \* SYNC_CUP_CHUNK_CAP
          BrkCap,     \* SYNC_FORK_BRK_CAP
          MaxH,       \* bound: height of each peer's chain
          MaxQueue,   \* bound: messages each way when a tip is announced
          MaxFaults   \* bound: requests refused and sessions broken

ASSUME LiveSyncAssumption ==
    /\ Forked \subseteq Peers
    /\ {ForkAt, HdrCap, BlkCap, InfCap, CupLagMin, CupTailMax, CupWin, CupChunk,
        BrkCap} \subseteq Nat \ {0}
    /\ MaxH \in [Peers -> Nat] /\ MaxQueue \in [Peers -> Nat]
    /\ MaxFaults \in Nat

VARIABLES chain,  \* hashes of the follower's blocks
          head,   \* height of each peer's chain
          st,     \* SyncPeerState of each peer
          late,   \* peers whose cup_next_ms is still ahead
          up,     \* requests on their way to each peer
          down,   \* announcements and answers on their way from it
          apart,  \* peers disconnected for divergence
          faults, \* requests refused and sessions broken so far
          hist    \* history: answers lost with a session or dropped by a catch-up

vars == <<chain, head, st, late, up, down, apart, faults, hist>>

(*--------------------------- hashes and headers --------------------------*)

Genesis == <<0, 0>>

\* hdr_hash of the peer's block at that height.
Hash(p, h) == <<h, IF p \in Forked /\ h >= ForkAt THEN 1 ELSE 0>>

\* prev_hash of a block.
Parent(b) == <<b[1] - 1, IF b[1] > ForkAt THEN b[2] ELSE 0>>

Tip == IF chain = <<>> THEN Genesis ELSE Last(chain)

\* The peer's blocks from one height to another.
Blocks(p, from, to) == [i \in 1..(to + 1 - from) |-> Hash(p, from + i - 1)]

\* Fault: headers and blocks are compared by height alone.
LinksHeights(rows, prev) ==
    \A i \in DOMAIN rows : rows[i][1] = prev[1] + i

\* The rows continue the block with that hash.
Links(rows, prev) ==
    \A i \in DOMAIN rows : Parent(rows[i]) = IF i = 1 THEN prev ELSE rows[i - 1]

AtMost(a, b) == IF a < b THEN a ELSE b
AtLeast(a, b) == IF a > b THEN a ELSE b
Less1(n) == IF n = 0 THEN 0 ELSE n - 1

(*------------------------ the record of one peer -------------------------*)

NoFork == [h |-> 0, tip |-> 0, n |-> 0]
NoCup  == [on |-> FALSE, from |-> 0, to |-> 0, next |-> 0, ix |-> 0, prev |-> Genesis]
Fresh  == [tip |-> 0, from |-> 0, inHdr |-> 0, inBlk |-> 0,
           wait |-> <<>>, pend |-> <<>>, cup |-> NoCup, fork |-> NoFork]

\* cup_clear.
CupClear(s) == [s EXCEPT !.cup = NoCup, !.fork = NoFork]

\* Fault: the streak starts again at every break.
ForkMarkAgain(s, h, tip) == [s EXCEPT !.fork = [h |-> h, tip |-> tip, n |-> 1]]

\* fork_mark: the streak of breaks at the same height above the same tip.
ForkMark(s, h, tip) ==
    [s EXCEPT !.fork = [h |-> h, tip |-> tip,
                        n |-> IF s.fork.h = h /\ s.fork.tip = tip
                              THEN AtMost(s.fork.n + 1, BrkCap) ELSE 1]]

\* fork_locked.
ForkLocked(s, local) ==
    s.fork.h = local + 1 /\ s.fork.tip = local /\ s.fork.n >= BrkCap

\* The rows that are not among the known ones, in their order.
Without(rows, known) ==
    LET keep[n \in 0..Len(rows)] ==
            IF n = 0 THEN <<>>
            ELSE IF rows[n] \in known THEN keep[n - 1] ELSE Append(keep[n - 1], rows[n])
    IN  keep[Len(rows)]

\* reinqueue: rows go back to the front of the queue, once.
Reinqueue(s, rows) == [s EXCEPT !.pend = Without(rows, ToSet(s.pend)) \o s.pend]

(*-------------------------- requests of a handler ------------------------*)

\* A handler at work: the peer's record and the requests it has written.
Turn(s) == [s |-> s, out |-> <<>>]

\* Fault: no cap on the requests in flight.
AskHdrUncapped(t, from) ==
    [s |-> [t.s EXCEPT !.from = from, !.inHdr = @ + 1],
     out |-> Append(t.out, [t |-> "hdr_req", from |-> from])]

\* ask_hdr.
AskHdr(t, from) ==
    IF (t.s.from = from /\ t.s.inHdr > 0) \/ t.s.inHdr >= InfCap
    THEN t
    ELSE [s |-> [t.s EXCEPT !.from = from, !.inHdr = @ + 1],
          out |-> Append(t.out, [t |-> "hdr_req", from |-> from])]

\* ask_blk.
AskBlk(t) ==
    LET want == SubSeq(t.s.pend, 1, AtMost(BlkCap, Len(t.s.pend)))
    IN  IF t.s.inBlk >= InfCap \/ t.s.wait # <<>> \/ want = <<>>
        THEN t
        ELSE [s |-> [t.s EXCEPT !.wait = want, !.inBlk = @ + 1,
                                !.pend = SubSeq(@, Len(want) + 1, Len(@))],
              out |-> Append(t.out, [t |-> "blk_req", want |-> want])]

\* live_tail_pull_hdr, with the height reached.
TailPull(t, local) ==
    IF /\ local < t.s.tip /\ t.s.tip - local < CupTailMax
       /\ ~t.s.cup.on /\ t.s.pend = <<>> /\ t.s.wait = <<>> /\ t.s.inHdr = 0
    THEN AskHdr(t, local + 1)
    ELSE t

\* cup_req_range and send_cup_req.
SendCup(t, top) ==
    LET from == Len(chain) + 1
        to   == AtMost(top, Len(chain) + CupWin)
    IN  [s |-> [t.s EXCEPT !.cup = [on |-> TRUE, from |-> from, to |-> to,
                                    next |-> from, ix |-> 0, prev |-> Tip]],
         out |-> Append(t.out, [t |-> "cup_req", from |-> from, to |-> to])]

(*----------------------------- the follower ------------------------------*)

\* The message is handled: its turn's record and requests take effect.
Finish(p, t) ==
    /\ st' = [st EXCEPT ![p] = t.s]
    /\ up' = [up EXCEPT ![p] = @ \o t.out]
    /\ down' = [down EXCEPT ![p] = Tail(@)]
    /\ UNCHANGED <<head, apart, faults>>

\* Divergence ends the session.
Disconnect(p, s) ==
    /\ st' = [st EXCEPT ![p] = s]
    /\ up' = [up EXCEPT ![p] = <<>>]
    /\ down' = [down EXCEPT ![p] = <<>>]
    /\ apart' = apart \cup {p}
    /\ UNCHANGED <<chain, head, late, faults, hist>>

Got(p, type) == down[p] # <<>> /\ Head(down[p]).t = type

\* Fault: the block below the peer's tip is compared with the follower's tip.
TipForksAtTip(m) == IF m.h > 1 THEN Parent(m.hash) # Tip ELSE m.hash # Tip

\* A tip at the follower's height: does it belong to another chain?  The
\* block below the tip decides where there is one.
TipForks(m) == IF m.h > 1 THEN Parent(m.hash) # chain[m.h - 1] ELSE m.hash # Tip

\* on_tip.  Whether a catch-up is on is read before a short tail ends it.
OnTip(p) ==
    /\ Got(p, "tip")
    /\ LET m       == Head(down[p])
           local   == Len(chain)
           seen    == [st[p] EXCEPT !.tip = AtLeast(@, m.h)]
           demoted == m.h >= local /\ m.h < local + CupTailMax /\ seen.cup.on
           s       == IF demoted THEN CupClear(seen) ELSE seen
           cupReq  == seen.cup.on \/ m.h >= local + CupLagMin
           start   == /\ cupReq /\ m.h > local
                      /\ ~s.cup.on /\ ~ForkLocked(s, local)
                      /\ demoted \/ p \notin late
       IN  IF m.h = local /\ TipForks(m)
           THEN Disconnect(p, s)
           ELSE /\ Finish(p, IF m.h <= local \/ s.cup.on THEN Turn(s)
                             ELSE IF start THEN SendCup(Turn(s), m.h)
                             ELSE AskHdr(Turn(s), local + 1))
                /\ late' = IF demoted \/ start THEN late \ {p} ELSE late
                /\ UNCHANGED <<chain, hist>>

\* What on_hdr_batch makes of rows that continue the follower's chain.
Enqueue(s, rows) ==
    LET new  == Without(rows, ToSet(s.pend) \cup ToSet(s.wait))
        next == Last(rows)[1] + 1
        t    == Turn([s EXCEPT !.fork = NoFork, !.pend = @ \o new])
    IN  AskBlk(IF next <= s.tip THEN AskHdr(t, next) ELSE t)

\* A live answer that arrives during a catch-up is dropped.
DropLive(p) ==
    /\ Got(p, "hdrs") \/ Got(p, "blks")
    /\ st[p].cup.on
    /\ Finish(p, Turn(st[p]))
    /\ hist' = hist \cup {"dropped"}
    /\ UNCHANGED <<chain, late>>

\* The headers answer the last request, and start above the tip.
Expected(s, rows) == s.from = rows[1][1] /\ s.from = Len(chain) + 1

\* on_hdr_batch.
OnHdrBatch(p) ==
    /\ Got(p, "hdrs") /\ ~st[p].cup.on
    /\ LET rows  == Head(down[p]).rows
           s     == [st[p] EXCEPT !.inHdr = Less1(@), !.from = 0]
           marked == ForkMark(s, rows[1][1], Len(chain))
       IN  IF ~Expected(st[p], rows)
           THEN Finish(p, Turn(s)) /\ UNCHANGED <<chain, late, hist>>
           ELSE IF Links(rows, Tip)
           THEN Finish(p, Enqueue(s, rows)) /\ UNCHANGED <<chain, late, hist>>
           ELSE IF marked.fork.n >= BrkCap
           THEN Disconnect(p, marked)
           ELSE Finish(p, Turn(marked)) /\ UNCHANGED <<chain, late, hist>>

\* apply_blk_batch: every block in turn, or none.
Appliable(rows) == Links(rows, Tip)

\* on_blk_batch.
OnBlkBatch(p) ==
    /\ Got(p, "blks") /\ ~st[p].cup.on
    /\ LET rows == Head(down[p]).rows
           want == st[p].wait
           s    == [st[p] EXCEPT !.inBlk = Less1(@), !.wait = <<>>]
           n    == AtMost(Len(rows), Len(want))
           bad  == {i \in 1..n : rows[i] # want[i]}
           rest == SubSeq(want, n + 1, Len(want))
           done == SubSeq(rows, 1, n)
       IN  /\ IF want = <<>>
              THEN Finish(p, Turn(s)) /\ UNCHANGED chain
              ELSE IF bad # {}
              THEN LET i == CHOOSE i \in bad : \A j \in bad : i <= j
                   IN  /\ Finish(p, Turn(Reinqueue(s, SubSeq(want, i, Len(want)))))
                       /\ UNCHANGED chain
              ELSE IF Appliable(done)
              THEN /\ Finish(p, AskBlk(TailPull(Turn(Reinqueue(s, rest)), Len(chain) + n)))
                   /\ chain' = chain \o done
              ELSE Finish(p, AskBlk(Turn(Reinqueue(s, rest)))) /\ UNCHANGED chain
           /\ UNCHANGED <<late, hist>>

\* A catch-up that fails is given up and may be retried after the back-off.
CupFail(p, s) == Finish(p, Turn(CupClear(s))) /\ late' = late \cup {p}

\* on_cup_chunk.
OnCupChunk(p) ==
    /\ Got(p, "chunk")
    /\ LET m    == Head(down[p])
           s    == st[p]
           fits == /\ m.ix = s.cup.ix /\ Parent(m.rows[1]) = s.cup.prev
                   /\ m.rows[1][1] = s.cup.next /\ Last(m.rows)[1] <= s.cup.to
       IN  /\ IF ~s.cup.on
              THEN Finish(p, Turn(s)) /\ UNCHANGED <<chain, late>>
              ELSE IF fits /\ Appliable(m.rows)
              THEN /\ Finish(p, Turn([s EXCEPT !.cup.next = @ + Len(m.rows),
                                               !.cup.ix = @ + 1,
                                               !.cup.prev = Last(m.rows)]))
                   /\ chain' = chain \o m.rows
                   /\ UNCHANGED late
              ELSE CupFail(p, s) /\ UNCHANGED chain
           /\ UNCHANGED hist

\* on_cup_done.
OnCupDone(p) ==
    /\ Got(p, "done")
    /\ LET m == Head(down[p])
           s == st[p]
           t == Turn(CupClear(s))
       IN  IF ~s.cup.on
           THEN Finish(p, Turn(s)) /\ UNCHANGED late
           ELSE IF s.cup.prev = m.last
           THEN /\ Finish(p, IF s.tip > Len(chain) THEN AskHdr(t, Len(chain) + 1) ELSE t)
                /\ UNCHANGED late
           ELSE CupFail(p, s)
    /\ UNCHANGED <<chain, hist>>

\* Fault: a refusal leaves what is waited for.
ForgetKeeps(s) == [s EXCEPT !.inHdr = Less1(@), !.inBlk = Less1(@)]

\* What a refusal leaves of a record: nothing is waited for any more.
Forget(s) == Reinqueue([s EXCEPT !.inHdr = Less1(@), !.inBlk = Less1(@),
                                 !.from = 0, !.wait = <<>>], s.wait)

\* on_nack.
OnNack(p) ==
    /\ Got(p, "nack")
    /\ LET s == Forget(st[p])
       IN  IF s.cup.on
           THEN CupFail(p, s)
           ELSE Finish(p, Turn(s)) /\ UNCHANGED late
    /\ UNCHANGED <<chain, hist>>

\* The back-off after a failed catch-up ends.
Elapse(p) ==
    /\ p \in late
    /\ late' = late \ {p}
    /\ UNCHANGED <<chain, head, st, up, down, apart, faults, hist>>

(*------------------------- the peers and sessions ------------------------*)

\* What a peer makes of a request: on_hdr_req, on_blk_req, on_cup_req.
Chunks(p, from, to) ==
    LET n == (to + CupChunk - from) \div CupChunk
    IN  [i \in 1..n |-> [t |-> "chunk", ix |-> i - 1,
                         rows |-> Blocks(p, from + (i - 1) * CupChunk,
                                         AtMost(to, from + i * CupChunk - 1))]]

Answer(p, m) ==
    CASE m.t = "hdr_req" ->
           <<[t |-> "hdrs", rows |-> Blocks(p, m.from, AtMost(head[p], m.from + HdrCap - 1))]>>
      [] m.t = "blk_req" -> <<[t |-> "blks", rows |-> m.want]>>
      [] m.t = "cup_req" ->
           Append(Chunks(p, m.from, m.to), [t |-> "done", last |-> Hash(p, m.to)])

Reply(p, answer) ==
    /\ up' = [up EXCEPT ![p] = Tail(@)]
    /\ down' = [down EXCEPT ![p] = @ \o answer]
    /\ UNCHANGED <<chain, head, st, late, apart, hist>>

Serve(p) ==
    /\ up[p] # <<>>
    /\ Reply(p, Answer(p, Head(up[p])))
    /\ UNCHANGED faults

\* A peer that no longer has what is asked refuses (send_nack).
Refuse(p) ==
    /\ up[p] # <<>> /\ faults < MaxFaults
    /\ Reply(p, <<[t |-> "nack"]>>)
    /\ faults' = faults + 1

\* The heartbeat of a session carries the peer's tip.
Announce(p) ==
    /\ p \notin apart
    /\ Len(up[p]) < MaxQueue[p] /\ Len(down[p]) < MaxQueue[p]
    /\ \A i \in DOMAIN down[p] : down[p][i].t # "tip"
    /\ down' = [down EXCEPT ![p] = Append(@, [t |-> "tip", h |-> head[p],
                                              hash |-> IF head[p] = 0 THEN Genesis
                                                       ELSE Hash(p, head[p])])]
    /\ UNCHANGED <<chain, head, st, late, up, apart, faults, hist>>

\* The peer's chain grows.
Grow(p) ==
    /\ head[p] < MaxH[p]
    /\ head' = [head EXCEPT ![p] = @ + 1]
    /\ UNCHANGED <<chain, st, late, up, down, apart, faults, hist>>

\* The session breaks and is made again: what was in flight is lost.
Break(p) ==
    /\ faults < MaxFaults /\ p \notin apart
    /\ up[p] # <<>> \/ down[p] # <<>>
    /\ up' = [up EXCEPT ![p] = <<>>]
    /\ down' = [down EXCEPT ![p] = <<>>]
    /\ faults' = faults + 1
    /\ hist' = IF up[p] # <<>> \/ \E i \in DOMAIN down[p] : down[p][i].t # "tip"
               THEN hist \cup {"lost"} ELSE hist
    /\ UNCHANGED <<chain, head, st, late, apart>>

Init == /\ chain = <<>>
        /\ head = [p \in Peers |-> 0]
        /\ st = [p \in Peers |-> Fresh]
        /\ late = {}
        /\ up = [p \in Peers |-> <<>>]
        /\ down = [p \in Peers |-> <<>>]
        /\ apart = {}
        /\ faults = 0
        /\ hist = {}

Receive(p) == \/ OnTip(p) \/ DropLive(p) \/ OnHdrBatch(p) \/ OnBlkBatch(p)
              \/ OnCupChunk(p) \/ OnCupDone(p) \/ OnNack(p)

Next == \E p \in Peers : \/ Receive(p) \/ Elapse(p) \/ Serve(p) \/ Refuse(p)
                         \/ Announce(p) \/ Grow(p) \/ Break(p)

\* A session reads its stream, a peer answers and announces, time passes.
Fairness == \A p \in Peers : /\ WF_vars(Receive(p)) /\ WF_vars(Serve(p))
                             /\ WF_vars(Announce(p)) /\ WF_vars(Elapse(p))

Spec == Init /\ [][Next]_vars /\ Fairness

(*------------------------------- properties ------------------------------*)

\* Everything keeps its type; a record that a catch-up fills stays within its
\* window, and a catch-up is never on while its back-off runs.
TypeOK ==
    /\ \A i \in DOMAIN chain : chain[i] \in {<<i, 0>>, <<i, 1>>}
    /\ \A p \in Peers : head[p] \in 0..MaxH[p]
    /\ late \subseteq Peers /\ apart \subseteq Peers
    /\ \A p \in Peers :
          /\ st[p].tip \in 0..MaxH[p] /\ st[p].from \in 0..MaxH[p]
          /\ st[p].inHdr \in 0..InfCap /\ st[p].inBlk \in 0..InfCap
          /\ Len(st[p].wait) <= BlkCap
          /\ st[p].cup.on => /\ p \notin late
                             /\ st[p].cup.next \in st[p].cup.from..(st[p].cup.to + 1)
    /\ hist \subseteq {"lost", "dropped"}

\* The follower's chain is always the beginning of some peer's chain: batches
\* of peers on different branches never mix (apply_blk).
OneBranch ==
    chain # <<>> => \E p \in Peers :
        Len(chain) <= head[p] /\ chain = Blocks(p, 1, Len(chain))

\* A peer is only sent away when its chain and the follower's really differ
\* below both tips (on_tip, on_hdr_batch).
ApartOnlyForked ==
    \A p \in apart : \E i \in DOMAIN chain : i <= head[p] /\ chain[i] # Hash(p, i)

\* As long as no answer has been lost or dropped, the follower waits for
\* blocks, or for headers from some height, only while a request or its answer
\* is under way: the records that keep ask_hdr and ask_blk from asking again
\* are never left behind.
WaitsForSomething ==
    hist = {} =>
        \A p \in Peers \ apart :
            /\ st[p].wait # <<>> =>
                  \/ \E i \in DOMAIN up[p] : up[p][i].t = "blk_req"
                  \/ \E i \in DOMAIN down[p] : down[p][i].t \in {"blks", "nack"}
            /\ st[p].from # 0 =>
                  \/ \E i \in DOMAIN up[p] : up[p][i].t = "hdr_req"
                  \/ \E i \in DOMAIN down[p] : down[p][i].t \in {"hdrs", "nack"}

\* A follower that loses no answer reaches every peer's height, or parts from
\* it for divergence.
Arrives == \A p \in Peers : <>[](p \in apart \/ Len(chain) >= head[p])
CatchesUp == [](hist = {}) => Arrives

\* Test live_reconnect_sync_no_deadlock: a session that breaks with an answer
\* outstanding is taken up again after the reconnect.
NoDeadlockAfterReconnect == []("dropped" \notin hist) => Arrives
=============================================================================
