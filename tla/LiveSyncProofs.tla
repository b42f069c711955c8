--------------------------- MODULE LiveSyncProofs ---------------------------
(***************************************************************************)
(* Theorems about LiveSync, for any number of peers on either branch, any  *)
(* place of the fork, any caps on requests and windows, and any bounds on  *)
(* heights, queues and faults.                                             *)
(*                                                                         *)
(* The invariant says of each peer that everything the follower keeps from *)
(* it, or has on its way to or from it, is part of that peer's chain as it *)
(* stands: rows are its hashes, answers to a range are runs of them, and a *)
(* request never asks for a height it has not got.  With that, rows that   *)
(* link to the follower's tip can only continue the chain that the peer    *)
(* has below them, and rows that do not link show where the two differ.    *)
(***************************************************************************)
EXTENDS LiveSync, SequenceTheorems, WellFoundedInduction, TLAPS

\* The hashes a peer of that height has, and the runs of them.
Owned(p, n) == {Hash(p, h) : h \in 1..n}

Runs(p, n) == {r \in Seq(Owned(p, n)) :
                 r # <<>> /\ \A i \in 1..Len(r) : r[i] = Hash(p, r[1][1] + i - 1)}

Hashes == Nat \X {0, 1}

Cups == {c \in [on : BOOLEAN, from : Nat, to : Nat, next : Nat, ix : Nat, prev : Hashes] :
           c.on => c.next \in c.from..(c.to + 1)}

Forks == [h : Nat, tip : Nat, n : Nat]

\* What the follower keeps of a peer of that height.
Records(p, n) ==
    {s \in [tip : 0..n, from : 0..n, inHdr : 0..InfCap, inBlk : 0..InfCap,
            wait : Seq(Owned(p, n)), pend : Seq(Owned(p, n)), cup : Cups, fork : Forks] :
        Len(s.wait) <= BlkCap}

Windows(n) == {m \in [t : {"cup_req"}, from : 1..n, to : 1..n] : m.from <= m.to}

Requests(p, n) == [t : {"hdr_req"}, from : 1..n]
                  \cup [t : {"blk_req"}, want : Seq(Owned(p, n))]
                  \cup Windows(n)

Tips(p, n) == {m \in [t : {"tip"}, h : 0..n, hash : Hashes] :
                 m.hash = IF m.h = 0 THEN Genesis ELSE Hash(p, m.h)}

Answers(p, n) == Tips(p, n)
                 \cup [t : {"hdrs"}, rows : Runs(p, n)]
                 \cup [t : {"blks"}, rows : Seq(Owned(p, n))]
                 \cup [t : {"chunk"}, ix : Nat, rows : Runs(p, n)]
                 \cup [t : {"done"}, last : Hashes]
                 \cup [t : {"nack"}]

\* A peer's height, the record of it and the streams to and from it.
Sound(p, n, s, u, d) ==
    n \in 0..MaxH[p] /\ s \in Records(p, n) /\ u \in Seq(Requests(p, n)) /\ d \in Seq(Answers(p, n))

\* What a stream holds: requests, and answers that end a wait.
AsksHdr(q) == \E i \in DOMAIN q : q[i].t = "hdr_req"
AsksBlk(q) == \E i \in DOMAIN q : q[i].t = "blk_req"
AsksStill(q, r) == (AsksHdr(q) => AsksHdr(r)) /\ (AsksBlk(q) => AsksBlk(r))
EndsHdr(q) == \E i \in DOMAIN q : q[i].t \in {"hdrs", "nack"}
EndsBlk(q) == \E i \in DOMAIN q : q[i].t \in {"blks", "nack"}

\* The streams of a session hold what the record waits for.
Waits(s, u, d) ==
    /\ s.wait # <<>> => AsksBlk(u) \/ EndsBlk(d)
    /\ s.from # 0    => AsksHdr(u) \/ EndsHdr(d)

\* A chain that is the beginning of that peer's.
Begins(c, p, n) == Len(c) <= n /\ \A i \in 1..Len(c) : c[i] = Hash(p, i)

\* A height at which a chain and the peer's differ.
Differs(c, p, n) == \E i \in 1..Len(c) : i <= n /\ c[i] # Hash(p, i)

PeerInv(p) ==
    /\ Sound(p, head[p], st[p], up[p], down[p])
    /\ st[p].cup.on => p \notin late
    /\ hist = {} /\ p \notin apart => Waits(st[p], up[p], down[p])
    /\ p \in apart => Differs(chain, p, head[p])

Shape ==
    /\ head = [p \in Peers |-> head[p]] /\ st = [p \in Peers |-> st[p]]
    /\ up = [p \in Peers |-> up[p]] /\ down = [p \in Peers |-> down[p]]
    /\ late \subseteq Peers /\ apart \subseteq Peers
    /\ hist \subseteq {"lost", "dropped"}

ChainInv ==
    /\ chain \in Seq(Hashes)
    /\ chain # <<>> => \E q \in Peers : Begins(chain, q, head[q])

IInv == Shape /\ ChainInv /\ \A p \in Peers : PeerInv(p)

-----------------------------------------------------------------------------
(* Induction on numbers, with sets of numbers for predicates.              *)

\* Every set of numbers that is not empty has a least element.
LEMMA LeastNumber ==
    ASSUME NEW T \in SUBSET Nat, T # {}
    PROVE  \E n \in T : \A m \in T : n <= m
<1> DEFINE R == OpToRel(<, Nat)
<1>1. IsWellFoundedOn(R, Nat)
  BY NatLessThanWellFounded
<1>2. \A i, j \in Nat : <<i, j>> \in R <=> i < j
  BY DEF OpToRel
<1> HIDE DEF R
<1>3. PICK x \in T : \A y \in T : ~ (<<y, x>> \in R)
  BY <1>1, WFMin
<1>4. ASSUME NEW y \in T PROVE x <= y
  <2>1. ~(y < x) /\ x \in Nat /\ y \in Nat
    BY <1>2, <1>3
  <2>2. QED  BY <2>1
<1>5. QED  BY <1>4

\* A set with 0 and the successor of each of its elements is all of Nat.
LEMMA Induction ==
    ASSUME NEW S \in SUBSET Nat, 0 \in S, \A n \in S : n + 1 \in S
    PROVE  S = Nat
<1> SUFFICES ASSUME S # Nat PROVE FALSE
  OBVIOUS
<1>1. Nat \ S # {}
  OBVIOUS
<1>2. PICK n \in Nat \ S : \A m \in Nat \ S : n <= m
  BY <1>1, LeastNumber
<1>3. n # 0
  OBVIOUS
<1>4. n - 1 \in Nat /\ n - 1 \notin Nat \ S
  BY <1>2, <1>3
<1>5. n \in S
  BY <1>4
<1>6. QED  BY <1>5

-----------------------------------------------------------------------------
(* What Without computes: a sequence over the same elements.               *)

KeepStep(rows, known, f, n) ==
    IF n = 0 THEN <<>>
    ELSE IF rows[n] \in known THEN f[n - 1] ELSE Append(f[n - 1], rows[n])

\* The function that Without defines by recursion exists.
LEMMA KeepExists ==
    ASSUME NEW rows, NEW known
    PROVE  \A k \in Nat : \E f : f = [n \in 0..k |-> KeepStep(rows, known, f, n)]
<1> DEFINE S == {k \in Nat : \E f : f = [n \in 0..k |-> KeepStep(rows, known, f, n)]}
<1>1. 0 \in S
  <2> PICK f : f = [n \in 0..0 |-> <<>>]  OBVIOUS
  <2>1. f = [n \in 0..0 |-> KeepStep(rows, known, f, n)]
    BY DEF KeepStep
  <2>2. QED  BY <2>1
<1>2. ASSUME NEW k \in S PROVE k + 1 \in S
  <2>1. PICK f : f = [n \in 0..k |-> KeepStep(rows, known, f, n)]
    OBVIOUS
  <2> PICK g : g = [n \in 0..(k + 1) |-> KeepStep(rows, known, f, n)]
    OBVIOUS
  <2>2. k \in Nat
    OBVIOUS
  <2>3. \A n \in 0..k : g[n] = f[n]
    BY <2>1, <2>2
  <2>4. ASSUME NEW n \in 0..(k + 1)
        PROVE  KeepStep(rows, known, f, n) = KeepStep(rows, known, g, n)
    <3>1. n # 0 => n - 1 \in 0..k
      BY <2>2
    <3>2. QED  BY <2>3, <3>1 DEF KeepStep
  <2>5. g = [n \in 0..(k + 1) |-> KeepStep(rows, known, g, n)]
    BY <2>4
  <2>6. QED  BY <2>2, <2>5
<1> HIDE DEF S
<1>3. S = Nat
  <2>1. S \in SUBSET Nat
    BY DEF S
  <2>2. QED  BY <1>1, <1>2, <2>1, Induction
<1>4. QED  BY <1>3 DEF S

LEMMA WithoutKeeps ==
    ASSUME NEW B, NEW rows \in Seq(B), NEW known
    PROVE  Without(rows, known) \in Seq(B)
<1> PICK l : l = Len(rows)  OBVIOUS
<1>1. l \in Nat /\ \A i \in 1..l : rows[i] \in B
  BY LenProperties, ElementOfSeq
<1> DEFINE keep == CHOOSE f : f = [n \in 0..l |-> KeepStep(rows, known, f, n)]
<1>2. keep = [n \in 0..l |-> KeepStep(rows, known, keep, n)]
  BY <1>1, KeepExists
<1>3. Without(rows, known) = keep[l]
  BY DEF Without, KeepStep
<1> HIDE DEF keep
<1> DEFINE S == {n \in Nat : n <= l => keep[n] \in Seq(B)}
<1>4. 0 \in S
  <2>1. 0 \in 0..l
    BY <1>1
  <2>2. keep[0] = <<>>
    BY <1>2, <2>1 DEF KeepStep
  <2>3. QED  BY <2>2, EmptySeq
<1>5. ASSUME NEW n \in S PROVE n + 1 \in S
  <2> SUFFICES ASSUME n + 1 <= l PROVE keep[n + 1] \in Seq(B)
    OBVIOUS
  <2>1. n \in Nat /\ n <= l /\ n + 1 \in 0..l /\ n + 1 \in 1..l /\ n + 1 # 0 /\ (n + 1) - 1 = n
    BY <1>1
  <2>2. keep[n + 1] = KeepStep(rows, known, keep, n + 1)
    BY <1>2, <2>1
  <2>3. keep[n + 1] = IF rows[n + 1] \in known THEN keep[n]
                      ELSE Append(keep[n], rows[n + 1])
    BY <2>1, <2>2 DEF KeepStep
  <2>4. keep[n] \in Seq(B) /\ rows[n + 1] \in B
    BY <1>1, <2>1
  <2>5. QED  BY <2>3, <2>4, AppendProperties
<1> HIDE DEF S
<1>6. S = Nat
  <2>1. S \in SUBSET Nat
    BY DEF S
  <2>2. QED  BY <1>4, <1>5, <2>1, Induction
<1>7. QED  BY <1>1, <1>3, <1>6 DEF S

-----------------------------------------------------------------------------
(* Hashes and the chains they make.                                        *)

LEMMA CapsAreNat ==
    /\ ForkAt \in Nat \ {0} /\ HdrCap \in Nat \ {0} /\ BlkCap \in Nat \ {0}
    /\ InfCap \in Nat \ {0} /\ CupWin \in Nat \ {0} /\ CupChunk \in Nat \ {0}
    /\ BrkCap \in Nat \ {0} /\ CupTailMax \in Nat /\ CupLagMin \in Nat
    /\ \A p \in Peers : MaxH[p] \in Nat
BY LiveSyncAssumption

LEMMA HashType ==
    ASSUME NEW p, NEW h \in Nat
    PROVE  Hash(p, h) \in Hashes /\ Hash(p, h)[1] = h /\ Genesis \in Hashes
BY DEF Hash, Hashes, Genesis

\* A block's parent is the block below it in the same chain.
LEMMA ParentOfHash ==
    ASSUME NEW p, NEW h \in Nat, h >= 1
    PROVE  Parent(Hash(p, h)) = IF h = 1 THEN Genesis ELSE Hash(p, h - 1)
BY CapsAreNat DEF Hash, Parent, Genesis

\* Chains with a block in common have the same blocks below it.
LEMMA SameBelow ==
    ASSUME NEW p, NEW q, NEW h \in Nat, Hash(p, h) = Hash(q, h), NEW i \in Nat, i <= h
    PROVE  Hash(p, i) = Hash(q, i)
BY CapsAreNat DEF Hash

LEMMA OwnedRows ==
    ASSUME NEW p, NEW n \in Nat, NEW rows \in Seq(Owned(p, n)), NEW i \in 1..Len(rows)
    PROVE  /\ rows[i] \in Hashes
           /\ rows[i][1] \in 1..n
           /\ rows[i] = Hash(p, rows[i][1])
<1>1. rows[i] \in Owned(p, n)
  BY ElementOfSeq
<1>2. PICK h \in 1..n : rows[i] = Hash(p, h)
  BY <1>1 DEF Owned
<1>3. h \in Nat
  OBVIOUS
<1>4. QED  BY <1>2, <1>3, HashType

\* The chain's tip, and that it is the block of a peer.
LEMMA TipOfChain ==
    ASSUME NEW p, Begins(chain, p, head[p]), chain \in Seq(Hashes)
    PROVE  Len(chain) \in Nat /\ Tip = IF Len(chain) = 0 THEN Genesis ELSE Hash(p, Len(chain))
<1>1. Len(chain) \in Nat /\ (chain = <<>> <=> Len(chain) = 0)
  BY EmptySeq, LenProperties
<1>2. Len(chain) # 0 => chain[Len(chain)] = Hash(p, Len(chain))
  BY <1>1 DEF Begins
<1>3. QED  BY <1>1, <1>2 DEF Tip, Last

\* A peer's row that continues the chain is the block above the tip, and all
\* that is below is the peer's chain too.
LEMMA NextRow ==
    ASSUME ChainInv, NEW p \in Peers, NEW h \in Nat, h >= 1, Parent(Hash(p, h)) = Tip
    PROVE  /\ h = Len(chain) + 1
           /\ \A i \in 1..Len(chain) : chain[i] = Hash(p, i)
<1>1. Len(chain) \in Nat /\ (chain = <<>> <=> Len(chain) = 0) /\ chain \in Seq(Hashes)
  BY EmptySeq, LenProperties DEF ChainInv
<1>2. CASE chain = <<>>
  <2>1. Parent(Hash(p, h)) = Genesis
    BY <1>2 DEF Tip
  <2>2. h - 1 = 0
    BY <2>1 DEF Parent, Hash, Genesis
  <2>3. QED  BY <1>1, <1>2, <2>2
<1>3. CASE chain # <<>>
  <2>1. PICK q \in Peers : Begins(chain, q, head[q])
    BY <1>3 DEF ChainInv
  <2>2. Tip = Hash(q, Len(chain)) /\ Len(chain) >= 1
    BY <1>1, <1>3, <2>1, TipOfChain
  <2>3. h - 1 = Len(chain)
    BY <2>2 DEF Parent, Hash
  <2>4. h # 1 /\ Hash(p, Len(chain)) = Hash(q, Len(chain))
    BY <1>1, <2>2, <2>3, ParentOfHash
  <2>5. ASSUME NEW i \in 1..Len(chain) PROVE chain[i] = Hash(p, i)
    <3>1. i \in Nat /\ i <= Len(chain)
      BY <1>1
    <3>2. Hash(p, i) = Hash(q, i)
      BY <1>1, <2>4, <3>1, SameBelow
    <3>3. QED  BY <2>1, <3>2 DEF Begins
  <2>6. QED  BY <1>1, <2>3, <2>5
<1>4. QED  BY <1>2, <1>3

\* Rows of a peer that link to the tip are the blocks above it, in order.
LEMMA RowsFollow ==
    ASSUME ChainInv, NEW p \in Peers, head[p] \in Nat,
           NEW rows \in Seq(Owned(p, head[p])), Links(rows, Tip)
    PROVE  \A i \in 1..Len(rows) : rows[i] = Hash(p, Len(chain) + i)
<1>1. Len(chain) \in Nat /\ Len(rows) \in Nat /\ DOMAIN rows = 1..Len(rows)
  BY LenProperties DEF ChainInv
<1> DEFINE S == {i \in Nat : i + 1 <= Len(rows) => rows[i + 1] = Hash(p, Len(chain) + (i + 1))}
<1>2. ASSUME NEW i \in 1..Len(rows)
      PROVE  /\ rows[i][1] \in Nat /\ rows[i][1] >= 1 /\ rows[i] = Hash(p, rows[i][1])
             /\ Parent(Hash(p, rows[i][1])) = IF i = 1 THEN Tip ELSE rows[i - 1]
  <2>1. rows[i][1] \in 1..head[p] /\ rows[i] = Hash(p, rows[i][1])
    BY OwnedRows
  <2>2. rows[i][1] \in Nat /\ rows[i][1] >= 1
    BY <2>1
  <2>3. Parent(rows[i]) = IF i = 1 THEN Tip ELSE rows[i - 1]
    BY <1>1 DEF Links
  <2>4. QED  BY <2>1, <2>2, <2>3
<1>3. 0 \in S
  <2> SUFFICES ASSUME 1 <= Len(rows) PROVE rows[1] = Hash(p, Len(chain) + 1)
    OBVIOUS
  <2>1. 1 \in 1..Len(rows)
    BY <1>1
  <2>2. rows[1][1] = Len(chain) + 1
    BY <1>2, <2>1, NextRow
  <2>3. QED  BY <1>2, <2>1, <2>2
<1>4. ASSUME NEW i \in S PROVE i + 1 \in S
  <2> SUFFICES ASSUME i + 2 <= Len(rows)
               PROVE  rows[i + 2] = Hash(p, Len(chain) + (i + 2))
    OBVIOUS
  <2> DEFINE h == rows[i + 2][1]
  <2>1. i \in Nat /\ i + 2 \in 1..Len(rows) /\ i + 2 # 1 /\ (i + 2) - 1 = i + 1
        /\ i + 1 <= Len(rows)
    BY <1>1
  <2>2. h \in Nat /\ h >= 1 /\ rows[i + 2] = Hash(p, h) /\ Parent(Hash(p, h)) = rows[i + 1]
    BY <1>2, <2>1
  <2>3. rows[i + 1] = Hash(p, Len(chain) + (i + 1))
    BY <2>1
  <2>4. Parent(Hash(p, h)) = Hash(p, Len(chain) + (i + 1))
    BY <2>2, <2>3
  <2> HIDE DEF h
  <2>5. h - 1 = Len(chain) + (i + 1)
    BY <2>4 DEF Parent, Hash
  <2>6. h = Len(chain) + (i + 2)
    BY <1>1, <2>1, <2>2, <2>5
  <2>7. QED  BY <2>2, <2>6
<1> HIDE DEF S
<1>5. S = Nat
  <2>1. S \in SUBSET Nat
    BY DEF S
  <2>2. QED  BY <1>3, <1>4, <2>1, Induction
<1>6. ASSUME NEW i \in 1..Len(rows) PROVE rows[i] = Hash(p, Len(chain) + i)
  <2>1. i - 1 \in Nat /\ (i - 1) + 1 = i /\ i <= Len(rows)
    BY <1>1
  <2>2. i - 1 \in S
    BY <1>5, <2>1
  <2>3. QED  BY <2>1, <2>2 DEF S
<1>7. QED  BY <1>6

\* The chain with such rows applied is the beginning of the peer's.
LEMMA Joins ==
    ASSUME ChainInv, NEW p \in Peers, head[p] \in Nat,
           NEW rows \in Seq(Owned(p, head[p])), Links(rows, Tip), rows # <<>>
    PROVE  Begins(chain \o rows, p, head[p])
<1>1. Len(chain) \in Nat /\ Len(rows) \in Nat /\ Len(rows) >= 1 /\ DOMAIN rows = 1..Len(rows)
  BY LenProperties, EmptySeq DEF ChainInv
<1>2. chain \in Seq(Hashes) /\ rows \in Seq(Hashes)
  <2>1. \A i \in 1..Len(rows) : rows[i] \in Hashes
    BY OwnedRows
  <2>2. rows \in Seq(Hashes)
    BY <1>1, <2>1, LenProperties, SeqDef
  <2>3. QED  BY <2>2 DEF ChainInv
<1>3. /\ Len(chain \o rows) = Len(chain) + Len(rows)
      /\ \A i \in 1..Len(chain) + Len(rows) :
           (chain \o rows)[i] = IF i <= Len(chain) THEN chain[i] ELSE rows[i - Len(chain)]
  BY <1>2, ConcatProperties
<1>4. \A i \in 1..Len(rows) : rows[i] = Hash(p, Len(chain) + i)
  BY RowsFollow
<1>5. Parent(rows[1]) = Tip /\ rows[1] = Hash(p, Len(chain) + 1)
  BY <1>1, <1>4 DEF Links
<1>6. \A i \in 1..Len(chain) : chain[i] = Hash(p, i)
  <2>1. Len(chain) + 1 \in Nat /\ Len(chain) + 1 >= 1
    BY <1>1
  <2>2. QED  BY <1>5, <2>1, NextRow
<1>7. Len(chain) + Len(rows) <= head[p]
  <2>1. Len(rows) \in 1..Len(rows)
    BY <1>1
  <2>2. rows[Len(rows)][1] \in 1..head[p] /\ rows[Len(rows)] = Hash(p, Len(chain) + Len(rows))
    BY <1>4, <2>1, OwnedRows
  <2>3. rows[Len(rows)][1] = Len(chain) + Len(rows)
    BY <1>1, <2>2, HashType
  <2>4. QED  BY <2>2, <2>3
<1>8. ASSUME NEW i \in 1..Len(chain) + Len(rows) PROVE (chain \o rows)[i] = Hash(p, i)
  <2>1. CASE i <= Len(chain)
    BY <1>1, <1>3, <1>6, <2>1
  <2>2. CASE ~(i <= Len(chain))
    <3>1. i - Len(chain) \in 1..Len(rows) /\ Len(chain) + (i - Len(chain)) = i
      BY <1>1, <2>2
    <3>2. rows[i - Len(chain)] = Hash(p, i)
      BY <1>4, <3>1
    <3>3. QED  BY <1>3, <2>2, <3>2
  <2>3. QED  BY <2>1, <2>2
<1>9. QED  BY <1>3, <1>7, <1>8 DEF Begins

-----------------------------------------------------------------------------
(* What a peer of some height has is had by a higher one.                  *)

LEMMA OwnedGrows ==
    ASSUME NEW p, NEW n \in Nat
    PROVE  /\ Owned(p, n) \subseteq Owned(p, n + 1)
           /\ Seq(Owned(p, n)) \subseteq Seq(Owned(p, n + 1))
<1>1. Owned(p, n) \subseteq Owned(p, n + 1)
  BY DEF Owned
<1>2. QED  BY <1>1, SeqMonotonic

LEMMA RunsGrow ==
    ASSUME NEW p, NEW n \in Nat
    PROVE  Runs(p, n) \subseteq Runs(p, n + 1)
BY OwnedGrows DEF Runs

LEMMA StreamsGrow ==
    ASSUME NEW p, NEW n \in Nat
    PROVE  /\ Requests(p, n) \subseteq Requests(p, n + 1)
           /\ Answers(p, n) \subseteq Answers(p, n + 1)
<1>1. 1..n \subseteq 1..(n + 1) /\ 0..n \subseteq 0..(n + 1)
  OBVIOUS
<1>2. Windows(n) \subseteq Windows(n + 1)
  BY <1>1 DEF Windows
<1>3. Tips(p, n) \subseteq Tips(p, n + 1)
  BY <1>1 DEF Tips
<1>4. [t : {"hdr_req"}, from : 1..n] \subseteq [t : {"hdr_req"}, from : 1..(n + 1)]
  BY <1>1
<1>5. [t : {"blk_req"}, want : Seq(Owned(p, n))]
        \subseteq [t : {"blk_req"}, want : Seq(Owned(p, n + 1))]
  BY OwnedGrows
<1>6. [t : {"blks"}, rows : Seq(Owned(p, n))] \subseteq [t : {"blks"}, rows : Seq(Owned(p, n + 1))]
  BY OwnedGrows
<1>7. [t : {"hdrs"}, rows : Runs(p, n)] \subseteq [t : {"hdrs"}, rows : Runs(p, n + 1)]
  BY RunsGrow
<1>8. [t : {"chunk"}, ix : Nat, rows : Runs(p, n)]
        \subseteq [t : {"chunk"}, ix : Nat, rows : Runs(p, n + 1)]
  BY RunsGrow
<1>9. Requests(p, n) \subseteq Requests(p, n + 1)
  BY <1>2, <1>4, <1>5 DEF Requests
<1>10. Answers(p, n) \subseteq Answers(p, n + 1)
  BY <1>3, <1>6, <1>7, <1>8 DEF Answers
<1>11. QED  BY <1>9, <1>10

LEMMA RecordsGrow ==
    ASSUME NEW p, NEW n \in Nat, NEW s \in Records(p, n)
    PROVE  s \in Records(p, n + 1)
<1>1. 0..n \subseteq 0..(n + 1)
  OBVIOUS
<1>2. QED  BY <1>1, OwnedGrows DEF Records

LEMMA SoundGrows ==
    ASSUME NEW p \in Peers, NEW n, NEW s, NEW u, NEW d, Sound(p, n, s, u, d), n < MaxH[p]
    PROVE  Sound(p, n + 1, s, u, d)
<1>1. n \in Nat /\ n + 1 \in 0..MaxH[p]
  BY CapsAreNat DEF Sound
<1>2. s \in Records(p, n + 1)
  BY <1>1, RecordsGrow DEF Sound
<1>3. u \in Seq(Requests(p, n + 1)) /\ d \in Seq(Answers(p, n + 1))
  BY <1>1, StreamsGrow, SeqMonotonic DEF Sound
<1>4. QED  BY <1>1, <1>2, <1>3 DEF Sound

-----------------------------------------------------------------------------
(* The turns of a handler.                                                 *)

\* A turn's record and requests are sound; it waits for nothing the record s
\* did not wait for, unless it asks for it.
TurnOK(p, n, t, s) ==
    /\ t.s \in Records(p, n)
    /\ t.out \in Seq(Requests(p, n))
    /\ t.s.wait # <<>> => s.wait # <<>> \/ AsksBlk(t.out)
    /\ t.s.from # 0 => s.from # 0 \/ AsksHdr(t.out)

LEMMA TurnTurns ==
    ASSUME NEW p, NEW n, NEW s \in Records(p, n)
    PROVE  TurnOK(p, n, Turn(s), s)
BY EmptySeq DEF TurnOK, Turn

\* Asking for something more keeps what was asked for.
LEMMA OutGrows ==
    ASSUME NEW p, NEW n, NEW out \in Seq(Requests(p, n)), NEW m \in Requests(p, n), NEW more,
           more = Append(out, m)
    PROVE  /\ more \in Seq(Requests(p, n))
           /\ AsksStill(out, more)
<1>1. /\ more \in Seq(Requests(p, n)) /\ Len(more) = Len(out) + 1
      /\ \A i \in 1..Len(out) : more[i] = out[i]
  BY AppendProperties
<1>2. Len(out) \in Nat /\ DOMAIN out = 1..Len(out) /\ DOMAIN more = 1..Len(more)
  BY <1>1, LenProperties
<1>3. \A i \in DOMAIN out : i \in DOMAIN more /\ more[i] = out[i]
  BY <1>1, <1>2
<1>4. QED  BY <1>1, <1>3 DEF AsksStill, AsksHdr, AsksBlk

LEMMA LastAsked ==
    ASSUME NEW p, NEW n, NEW out \in Seq(Requests(p, n)), NEW m \in Requests(p, n), NEW more,
           more = Append(out, m)
    PROVE  /\ m.t = "hdr_req" => AsksHdr(more)
           /\ m.t = "blk_req" => AsksBlk(more)
<1>1. more[Len(out) + 1] = m /\ Len(out) + 1 \in DOMAIN more
  BY AppendProperties, LenProperties
<1>2. QED  BY <1>1 DEF AsksHdr, AsksBlk

LEMMA AskHdrTurns ==
    ASSUME NEW p, NEW n \in Nat, NEW t, NEW s, TurnOK(p, n, t, s), NEW from \in 1..n
    PROVE  TurnOK(p, n, AskHdr(t, from), s)
<1>1. CASE (t.s.from = from /\ t.s.inHdr > 0) \/ t.s.inHdr >= InfCap
  <2>1. AskHdr(t, from) = t
    BY <1>1 DEF AskHdr
  <2>2. QED  BY <2>1
<1>2. CASE ~((t.s.from = from /\ t.s.inHdr > 0) \/ t.s.inHdr >= InfCap)
  <2> DEFINE m == [t |-> "hdr_req", from |-> from]
             r == [t.s EXCEPT !.from = from, !.inHdr = @ + 1]
  <2>1. AskHdr(t, from) = [s |-> r, out |-> Append(t.out, m)]
    BY <1>2 DEF AskHdr
  <2>2. m \in Requests(p, n) /\ m.t = "hdr_req"
    BY DEF Requests
  <2>3. r \in Records(p, n) /\ r.wait = t.s.wait
    <3>1. t.s \in Records(p, n) /\ from \in 0..n /\ t.s.inHdr + 1 \in 0..InfCap
      <4>1. t.s \in Records(p, n) /\ t.s.inHdr \in 0..InfCap /\ InfCap \in Nat
        BY CapsAreNat DEF TurnOK, Records
      <4>2. QED  BY <1>2, <4>1
    <3>2. QED  BY <3>1 DEF Records
  <2> HIDE DEF m, r
  <2> PICK more : more = Append(t.out, m)  OBVIOUS
  <2>4. /\ more \in Seq(Requests(p, n))
        /\ AsksStill(t.out, more)
        /\ AsksHdr(more)
    <3>1. t.out \in Seq(Requests(p, n))
      BY DEF TurnOK
    <3>2. QED  BY <2>2, <3>1, OutGrows, LastAsked
  <2>5. QED  BY <2>1, <2>3, <2>4 DEF TurnOK, AsksStill
<1>3. QED  BY <1>1, <1>2

\* A part of a sequence over B.
LEMMA PartOf ==
    ASSUME NEW B, NEW rows \in Seq(B), NEW i \in Nat, i >= 1, NEW j \in Nat, j <= Len(rows)
    PROVE  /\ SubSeq(rows, i, j) \in Seq(B)
           /\ Len(SubSeq(rows, i, j)) = IF i <= j THEN j - i + 1 ELSE 0
<1>1. Len(rows) \in Nat
  BY LenProperties
<1>2. \A k \in i..j : rows[k] \in B
  BY <1>1, ElementOfSeq
<1>3. QED  BY <1>2, SubSeqProperties

LEMMA AskBlkTurns ==
    ASSUME NEW p, NEW n \in Nat, NEW t, NEW s, TurnOK(p, n, t, s)
    PROVE  TurnOK(p, n, AskBlk(t), s)
<1> DEFINE want == SubSeq(t.s.pend, 1, AtMost(BlkCap, Len(t.s.pend)))
           rest == SubSeq(t.s.pend, Len(want) + 1, Len(t.s.pend))
<1>1. t.s \in Records(p, n) /\ t.s.pend \in Seq(Owned(p, n)) /\ Len(t.s.pend) \in Nat
  BY LenProperties DEF TurnOK, Records
<1>2. want \in Seq(Owned(p, n)) /\ Len(want) \in Nat /\ Len(want) <= BlkCap
  <2>1. /\ AtMost(BlkCap, Len(t.s.pend)) \in Nat
        /\ AtMost(BlkCap, Len(t.s.pend)) <= Len(t.s.pend)
        /\ AtMost(BlkCap, Len(t.s.pend)) <= BlkCap
    BY <1>1, CapsAreNat DEF AtMost
  <2>2. QED  BY <1>1, <2>1, PartOf
<1>3. rest \in Seq(Owned(p, n))
  BY <1>1, <1>2, PartOf
<1>4. CASE t.s.inBlk >= InfCap \/ t.s.wait # <<>> \/ want = <<>>
  <2>1. AskBlk(t) = t
    BY <1>4 DEF AskBlk
  <2>2. QED  BY <2>1
<1>5. CASE ~(t.s.inBlk >= InfCap \/ t.s.wait # <<>> \/ want = <<>>)
  <2> DEFINE m == [t |-> "blk_req", want |-> want]
             r == [t.s EXCEPT !.wait = want, !.inBlk = @ + 1, !.pend = rest]
  <2>1. AskBlk(t) = [s |-> r, out |-> Append(t.out, m)]
    BY <1>5 DEF AskBlk
  <2>2. m \in Requests(p, n) /\ m.t = "blk_req"
    BY <1>2 DEF Requests
  <2> HIDE DEF want, rest
  <2>3. r \in Records(p, n) /\ r.from = t.s.from
    <3>1. t.s.inBlk + 1 \in 0..InfCap
      BY <1>1, <1>5, CapsAreNat DEF Records
    <3>2. QED  BY <1>1, <1>2, <1>3, <3>1 DEF Records
  <2> HIDE DEF m, r
  <2> PICK more : more = Append(t.out, m)  OBVIOUS
  <2>4. /\ more \in Seq(Requests(p, n))
        /\ AsksStill(t.out, more)
        /\ AsksBlk(more)
    <3>1. t.out \in Seq(Requests(p, n))
      BY DEF TurnOK
    <3>2. QED  BY <2>2, <3>1, OutGrows, LastAsked
  <2>5. QED  BY <2>1, <2>3, <2>4 DEF TurnOK, AsksStill
<1>6. QED  BY <1>4, <1>5

LEMMA TailPullTurns ==
    ASSUME NEW p, NEW n \in Nat, NEW t, NEW s, TurnOK(p, n, t, s), NEW local \in Nat
    PROVE  TurnOK(p, n, TailPull(t, local), s)
<1>1. CASE TailPull(t, local) = t
  BY <1>1
<1>2. CASE local < t.s.tip /\ TailPull(t, local) = AskHdr(t, local + 1)
  <2>1. t.s.tip \in 0..n
    BY DEF TurnOK, Records
  <2>2. local + 1 \in 1..n
    BY <1>2, <2>1
  <2>3. QED  BY <1>2, <2>2, AskHdrTurns
<1>3. QED  BY <1>1, <1>2 DEF TailPull

LEMMA SendCupTurns ==
    ASSUME ChainInv, NEW p, NEW n \in Nat, NEW t, NEW s, TurnOK(p, n, t, s),
           NEW top \in 1..n, top > Len(chain)
    PROVE  TurnOK(p, n, SendCup(t, top), s)
<1> DEFINE from == Len(chain) + 1
           to   == AtMost(top, Len(chain) + CupWin)
           m    == [t |-> "cup_req", from |-> from, to |-> to]
           c    == [on |-> TRUE, from |-> from, to |-> to, next |-> from, ix |-> 0, prev |-> Tip]
           r    == [t.s EXCEPT !.cup = c]
<1>1. Len(chain) \in Nat /\ chain \in Seq(Hashes)
  BY LenProperties DEF ChainInv
<1>2. from \in 1..n /\ to \in 1..n /\ from <= to
  BY <1>1, CapsAreNat DEF AtMost
<1>3. Tip \in Hashes
  <2>1. CASE chain = <<>>
    BY <2>1 DEF Tip, Hashes, Genesis
  <2>2. CASE chain # <<>>
    <3>1. Len(chain) \in 1..Len(chain)
      BY <1>1, <2>2, EmptySeq
    <3>2. QED  BY <1>1, <2>2, <3>1, ElementOfSeq DEF Tip, Last
  <2>3. QED  BY <2>1, <2>2
<1>4. SendCup(t, top) = [s |-> r, out |-> Append(t.out, m)]
  BY DEF SendCup
<1> HIDE DEF from, to
<1>5. m \in Requests(p, n) /\ m.t = "cup_req"
  BY <1>2 DEF Requests, Windows
<1>6. c \in Cups
  BY <1>2, <1>3 DEF Cups
<1> HIDE DEF c
<1>7. r \in Records(p, n) /\ r.from = t.s.from /\ r.wait = t.s.wait
  BY <1>6 DEF TurnOK, Records
<1> HIDE DEF m, r
<1> PICK more : more = Append(t.out, m)  OBVIOUS
<1>8. /\ more \in Seq(Requests(p, n))
      /\ AsksStill(t.out, more)
  <2>1. t.out \in Seq(Requests(p, n))
    BY DEF TurnOK
  <2>2. QED  BY <1>5, <2>1, OutGrows
<1>9. QED  BY <1>4, <1>7, <1>8 DEF TurnOK, AsksStill

LEMMA ClearedRecord ==
    ASSUME NEW p, NEW n, NEW s \in Records(p, n)
    PROVE  /\ CupClear(s) \in Records(p, n) /\ ~CupClear(s).cup.on
           /\ CupClear(s).wait = s.wait /\ CupClear(s).from = s.from
           /\ CupClear(s).tip = s.tip
<1>1. NoCup \in Cups /\ NoFork \in Forks /\ ~NoCup.on
  BY DEF NoCup, NoFork, Cups, Forks, Hashes, Genesis
<1>2. QED  BY <1>1 DEF CupClear, Records

\* A sound record that waits for and catches up as s does.
Alike(p, n, r, s) ==
    r \in Records(p, n) /\ r.wait = s.wait /\ r.from = s.from /\ r.cup = s.cup

LEMMA MarkedRecord ==
    ASSUME NEW p, NEW n, NEW s \in Records(p, n), NEW h \in Nat, NEW tip \in Nat
    PROVE  Alike(p, n, ForkMark(s, h, tip), s)
<1> DEFINE f == [h |-> h, tip |-> tip,
                 n |-> IF s.fork.h = h /\ s.fork.tip = tip
                       THEN AtMost(s.fork.n + 1, BrkCap) ELSE 1]
<1>1. f \in Forks
  BY CapsAreNat DEF Forks, Records, AtMost
<1>2. ForkMark(s, h, tip) = [s EXCEPT !.fork = f]
  BY DEF ForkMark
<1> HIDE DEF f
<1>3. QED  BY <1>1, <1>2 DEF Records, Alike

LEMMA RequeuedRecord ==
    ASSUME NEW p, NEW n, NEW s \in Records(p, n), NEW rows \in Seq(Owned(p, n))
    PROVE  /\ Reinqueue(s, rows) \in Records(p, n)
           /\ Reinqueue(s, rows).wait = s.wait /\ Reinqueue(s, rows).from = s.from
           /\ Reinqueue(s, rows).cup = s.cup
<1> DEFINE all == Without(rows, ToSet(s.pend)) \o s.pend
<1>1. s.pend \in Seq(Owned(p, n))
  BY DEF Records
<1>2. all \in Seq(Owned(p, n))
  BY <1>1, WithoutKeeps, ConcatProperties
<1>3. Reinqueue(s, rows) = [s EXCEPT !.pend = all]
  BY DEF Reinqueue
<1> HIDE DEF all
<1>4. QED  BY <1>2, <1>3 DEF Records

LEMMA EnqueueTurns ==
    ASSUME NEW p, NEW n \in Nat, NEW s \in Records(p, n), NEW rows \in Runs(p, n)
    PROVE  TurnOK(p, n, Enqueue(s, rows), s)
<1> DEFINE new  == Without(rows, ToSet(s.pend) \cup ToSet(s.wait))
           next == Last(rows)[1] + 1
           r    == [s EXCEPT !.fork = NoFork, !.pend = @ \o new]
           t    == Turn(r)
           u    == IF next <= s.tip THEN AskHdr(t, next) ELSE t
<1>1. rows \in Seq(Owned(p, n)) /\ rows # <<>> /\ Len(rows) \in 1..Len(rows)
  BY EmptySeq, LenProperties DEF Runs
<1>2. s.pend \o new \in Seq(Owned(p, n)) /\ NoFork \in Forks
  <2>1. new \in Seq(Owned(p, n)) /\ s.pend \in Seq(Owned(p, n))
    BY <1>1, WithoutKeeps DEF Records
  <2>2. QED  BY <2>1, ConcatProperties DEF NoFork, Forks
<1>3. next \in Nat /\ next >= 1 /\ s.tip \in 0..n
  <2>1. Last(rows)[1] \in 1..n
    BY <1>1, OwnedRows DEF Last
  <2>2. QED  BY <2>1 DEF Records
<1>4. Enqueue(s, rows) = AskBlk(u)
  BY DEF Enqueue
<1> HIDE DEF new, next
<1>5. r \in Records(p, n) /\ r.wait = s.wait /\ r.from = s.from
  BY <1>2 DEF Records
<1> HIDE DEF r
<1>6. TurnOK(p, n, t, s)
  BY <1>5, EmptySeq DEF TurnOK, Turn
<1> HIDE DEF t
<1>7. TurnOK(p, n, u, s)
  <2>1. next <= s.tip => next \in 1..n
    BY <1>3
  <2>2. QED  BY <1>6, <2>1, AskHdrTurns
<1> HIDE DEF u
<1>8. QED  BY <1>4, <1>7, AskBlkTurns

LEMMA ForgottenRecord ==
    ASSUME NEW p, NEW n \in Nat, NEW s \in Records(p, n)
    PROVE  Forget(s) \in Records(p, n) /\ Forget(s).wait = <<>> /\ Forget(s).from = 0
<1> DEFINE r == [s EXCEPT !.inHdr = Less1(@), !.inBlk = Less1(@), !.from = 0, !.wait = <<>>]
<1>1. /\ Less1(s.inHdr) \in 0..InfCap /\ Less1(s.inBlk) \in 0..InfCap /\ 0 \in 0..n
      /\ <<>> \in Seq(Owned(p, n)) /\ Len(<<>>) <= BlkCap
  BY CapsAreNat, EmptySeq DEF Records, Less1
<1>2. r \in Records(p, n) /\ r.wait = <<>> /\ r.from = 0
  BY <1>1 DEF Records
<1>3. Forget(s) = Reinqueue(r, s.wait) /\ s.wait \in Seq(Owned(p, n))
  BY DEF Forget, Records
<1> HIDE DEF r
<1>4. QED  BY <1>2, <1>3, RequeuedRecord

-----------------------------------------------------------------------------
(* Streams while messages come and go.                                     *)

LEMMA ConcatAsks ==
    ASSUME NEW S, NEW u \in Seq(S), NEW o \in Seq(S), NEW r, r = u \o o
    PROVE  r \in Seq(S) /\ AsksStill(u, r) /\ AsksStill(o, r)
<1>1. /\ Len(u) \in Nat /\ Len(o) \in Nat /\ DOMAIN u = 1..Len(u) /\ DOMAIN o = 1..Len(o)
      /\ r \in Seq(S) /\ DOMAIN r = 1..Len(r) /\ Len(r) = Len(u) + Len(o)
      /\ \A i \in 1..Len(u) + Len(o) : r[i] = IF i <= Len(u) THEN u[i] ELSE o[i - Len(u)]
  BY ConcatProperties, LenProperties
<1>2. \A i \in DOMAIN u : i \in DOMAIN r /\ r[i] = u[i]
  BY <1>1
<1>3. \A i \in DOMAIN o : Len(u) + i \in DOMAIN r /\ r[Len(u) + i] = o[i]
  BY <1>1
<1>4. AsksStill(u, r)
  BY <1>2 DEF AsksStill, AsksHdr, AsksBlk
<1>5. AsksStill(o, r)
  BY <1>3 DEF AsksStill, AsksHdr, AsksBlk
<1>6. QED  BY <1>1, <1>4, <1>5

\* The answers a stream holds.
EndsStill(d, e) == (EndsHdr(d) => EndsHdr(e)) /\ (EndsBlk(d) => EndsBlk(e))

LEMMA ConcatEnds ==
    ASSUME NEW S, NEW u \in Seq(S), NEW o \in Seq(S), NEW r, r = u \o o
    PROVE  r \in Seq(S) /\ EndsStill(u, r) /\ EndsStill(o, r)
<1>1. /\ Len(u) \in Nat /\ Len(o) \in Nat /\ DOMAIN u = 1..Len(u) /\ DOMAIN o = 1..Len(o)
      /\ r \in Seq(S) /\ DOMAIN r = 1..Len(r) /\ Len(r) = Len(u) + Len(o)
      /\ \A i \in 1..Len(u) + Len(o) : r[i] = IF i <= Len(u) THEN u[i] ELSE o[i - Len(u)]
  BY ConcatProperties, LenProperties
<1>2. \A i \in DOMAIN u : i \in DOMAIN r /\ r[i] = u[i]
  BY <1>1
<1>3. \A i \in DOMAIN o : Len(u) + i \in DOMAIN r /\ r[Len(u) + i] = o[i]
  BY <1>1
<1>4. EndsStill(u, r)
  BY <1>2 DEF EndsStill, EndsHdr, EndsBlk
<1>5. EndsStill(o, r)
  BY <1>3 DEF EndsStill, EndsHdr, EndsBlk
<1>6. QED  BY <1>1, <1>4, <1>5

\* Taking the first message off a stream.
LEMMA TailStream ==
    ASSUME NEW S, NEW d \in Seq(S), d # <<>>
    PROVE  /\ Head(d) \in S /\ Tail(d) \in Seq(S)
           /\ \A i \in DOMAIN d : d[i] = Head(d) \/ \E j \in DOMAIN Tail(d) : Tail(d)[j] = d[i]
<1>1. /\ Head(d) \in S /\ Tail(d) \in Seq(S) /\ Len(Tail(d)) = Len(d) - 1
      /\ \A i \in 1..Len(Tail(d)) : Tail(d)[i] = d[i + 1]
  BY HeadTailProperties
<1>2. /\ Len(d) \in Nat /\ DOMAIN d = 1..Len(d) /\ DOMAIN Tail(d) = 1..Len(Tail(d))
  BY <1>1, LenProperties
<1>3. ASSUME NEW i \in DOMAIN d, i # 1
      PROVE  i - 1 \in DOMAIN Tail(d) /\ Tail(d)[i - 1] = d[i]
  <2>1. i - 1 \in 1..Len(Tail(d)) /\ (i - 1) + 1 = i
    BY <1>1, <1>2, <1>3
  <2>2. QED  BY <1>1, <1>2, <2>1
<1>4. Head(d) = d[1]
  OBVIOUS
<1>5. QED  BY <1>1, <1>3, <1>4

LEMMA TailAsks ==
    ASSUME NEW S, NEW u \in Seq(S), u # <<>>
    PROVE  /\ AsksHdr(u) => AsksHdr(Tail(u)) \/ Head(u).t = "hdr_req"
           /\ AsksBlk(u) => AsksBlk(Tail(u)) \/ Head(u).t = "blk_req"
BY TailStream DEF AsksHdr, AsksBlk

LEMMA TailEnds ==
    ASSUME NEW S, NEW d \in Seq(S), d # <<>>
    PROVE  /\ EndsHdr(d) => EndsHdr(Tail(d)) \/ Head(d).t \in {"hdrs", "nack"}
           /\ EndsBlk(d) => EndsBlk(Tail(d)) \/ Head(d).t \in {"blks", "nack"}
BY TailStream DEF EndsHdr, EndsBlk

-----------------------------------------------------------------------------
(* What a step keeps.                                                      *)

\* The chain stays, or takes rows of the peer that link to its tip.
ChainStep(p) ==
    \/ chain' = chain
    \/ \E rows \in Seq(Owned(p, head[p])) :
          rows # <<>> /\ Links(rows, Tip) /\ chain' = chain \o rows

\* A chain longer than c, with the blocks of c.
Extends(c, d) == Len(c) <= Len(d) /\ \A i \in 1..Len(c) : d[i] = c[i]

LEMMA AppliedRows ==
    ASSUME ChainInv, NEW p \in Peers, NEW rows \in Seq(Owned(p, head[p])), Links(rows, Tip),
           chain' = chain \o rows
    PROVE  ChainStep(p)
<1>1. CASE rows = <<>>
  <2>1. chain' = chain
    BY <1>1, ConcatEmptySeq DEF ChainInv
  <2>2. QED  BY <2>1 DEF ChainStep
<1>2. CASE rows # <<>>
  BY <1>2 DEF ChainStep
<1>3. QED  BY <1>1, <1>2

LEMMA ChainKept ==
    ASSUME ChainInv, NEW p \in Peers, head[p] \in Nat, ChainStep(p), UNCHANGED head
    PROVE  ChainInv' /\ Extends(chain, chain')
<1>1. chain \in Seq(Hashes) /\ Len(chain) \in Nat
  BY LenProperties DEF ChainInv
<1>2. CASE chain' = chain
  BY <1>1, <1>2 DEF ChainInv, Extends, Begins
<1>3. CASE chain' # chain
  <2>1. PICK rows \in Seq(Owned(p, head[p])) :
               rows # <<>> /\ Links(rows, Tip) /\ chain' = chain \o rows
    BY <1>3 DEF ChainStep
  <2>2. Begins(chain \o rows, p, head[p])
    BY <2>1, Joins
  <2>3. rows \in Seq(Hashes)
    <3>1. \A i \in 1..Len(rows) : rows[i] \in Hashes
      BY OwnedRows
    <3>2. QED  BY <3>1, LenProperties, SeqDef
  <2>4. /\ chain \o rows \in Seq(Hashes)
        /\ Len(chain \o rows) = Len(chain) + Len(rows) /\ Len(rows) \in Nat
        /\ \A i \in 1..Len(chain) : (chain \o rows)[i] = chain[i]
    BY <1>1, <2>3, ConcatProperties, LenProperties
  <2>5. Extends(chain, chain')
    BY <1>1, <2>1, <2>4 DEF Extends
  <2>6. ChainInv'
    <3>1. chain' \in Seq(Hashes)
      BY <2>1, <2>4
    <3>2. Begins(chain', p, head'[p])
      BY <2>1, <2>2 DEF Begins
    <3>3. QED  BY <3>1, <3>2 DEF ChainInv
  <2>7. QED  BY <2>5, <2>6
<1>4. QED  BY <1>2, <1>3

LEMMA DiffersStill ==
    ASSUME NEW c, NEW d, Len(c) \in Nat, Len(d) \in Nat, Extends(c, d),
           NEW p, NEW n, Differs(c, p, n)
    PROVE  Differs(d, p, n)
<1>1. PICK i \in 1..Len(c) : i <= n /\ c[i] # Hash(p, i)
  BY DEF Differs
<1>2. i \in 1..Len(d) /\ d[i] = c[i]
  BY DEF Extends
<1>3. QED  BY <1>1, <1>2 DEF Differs

\* A step of another peer's session.
LEMMA OthersKeep ==
    ASSUME NEW q \in Peers, PeerInv(q), ChainInv, ChainInv', Extends(chain, chain'),
           head'[q] = head[q], st'[q] = st[q], up'[q] = up[q], down'[q] = down[q],
           q \in late' => q \in late, q \in apart <=> q \in apart', hist' = {} => hist = {}
    PROVE  PeerInv(q)'
<1>1. Len(chain) \in Nat /\ Len(chain') \in Nat
  BY LenProperties DEF ChainInv
<1>2. Sound(q, head'[q], st'[q], up'[q], down'[q])
  BY DEF PeerInv
<1>3. st'[q].cup.on => q \notin late'
  BY DEF PeerInv
<1>4. hist' = {} /\ q \notin apart' => Waits(st'[q], up'[q], down'[q])
  BY DEF PeerInv
<1>5. q \in apart' => Differs(chain', q, head'[q])
  BY <1>1, DiffersStill DEF PeerInv
<1>6. QED  BY <1>2, <1>3, <1>4, <1>5
           DEF PeerInv, Sound, Waits, Differs, AsksHdr, AsksBlk, EndsHdr, EndsBlk

\* The record s waits for no more than p's does once its message is taken.
Drained(p, s) ==
    /\ s.wait # <<>> => st[p].wait # <<>> /\ Head(down[p]).t \notin {"blks", "nack"}
    /\ s.from # 0    => st[p].from # 0 /\ Head(down[p]).t \notin {"hdrs", "nack"}

\* A handler's turn takes effect.
LEMMA FinishInv ==
    ASSUME IInv, NEW p \in Peers, NEW t, NEW s, down[p] # <<>>, Finish(p, t),
           TurnOK(p, head[p], t, s), hist' = {} => Drained(p, s), ChainStep(p),
           hist' = hist \/ hist' = hist \cup {"dropped"},
           late' \in {late, late \ {p}, late \cup {p}}, t.s.cup.on => p \notin late'
    PROVE  IInv'
<1>1. /\ head' = head /\ apart' = apart
      /\ st' = [q \in Peers |-> IF q = p THEN t.s ELSE st[q]]
      /\ up' = [q \in Peers |-> IF q = p THEN up[p] \o t.out ELSE up[q]]
      /\ down' = [q \in Peers |-> IF q = p THEN Tail(down[p]) ELSE down[q]]
  BY DEF Finish, IInv, Shape
<1>2. /\ st'[p] = t.s /\ up'[p] = up[p] \o t.out /\ down'[p] = Tail(down[p])
      /\ head'[p] = head[p]
  BY <1>1
<1>3. Sound(p, head[p], st[p], up[p], down[p]) /\ PeerInv(p)
  BY DEF IInv, PeerInv
<1>4. head[p] \in Nat /\ ChainInv
  BY <1>3, CapsAreNat DEF Sound, IInv
<1>5. ChainInv' /\ Extends(chain, chain')
  BY <1>1, <1>4, ChainKept
<1>6. /\ up[p] \in Seq(Requests(p, head[p])) /\ t.out \in Seq(Requests(p, head[p]))
      /\ down[p] \in Seq(Answers(p, head[p]))
  BY <1>3 DEF Sound, TurnOK
<1>7. up'[p] \in Seq(Requests(p, head[p])) /\ AsksStill(up[p], up'[p]) /\ AsksStill(t.out, up'[p])
  BY <1>2, <1>6, ConcatAsks
<1>8. /\ down'[p] \in Seq(Answers(p, head[p]))
      /\ EndsHdr(down[p]) => EndsHdr(down'[p]) \/ Head(down[p]).t \in {"hdrs", "nack"}
      /\ EndsBlk(down[p]) => EndsBlk(down'[p]) \/ Head(down[p]).t \in {"blks", "nack"}
  BY <1>2, <1>6, TailStream, TailEnds
<1>9. Sound(p, head'[p], st'[p], up'[p], down'[p])
  BY <1>2, <1>3, <1>7, <1>8 DEF Sound, TurnOK
<1>10. ASSUME Waits(st[p], up[p], down[p]), Drained(p, s)
       PROVE  Waits(st'[p], up'[p], down'[p])
  <2>1. ASSUME st'[p].wait # <<>> PROVE AsksBlk(up'[p]) \/ EndsBlk(down'[p])
    <3>1. CASE AsksBlk(t.out)
      BY <1>7, <3>1 DEF AsksStill
    <3>2. CASE s.wait # <<>>
      <4>1. st[p].wait # <<>> /\ Head(down[p]).t \notin {"blks", "nack"}
        BY <1>10, <3>2 DEF Drained
      <4>2. AsksBlk(up[p]) \/ EndsBlk(down[p])
        BY <1>10, <4>1 DEF Waits
      <4>3. QED  BY <1>7, <1>8, <4>1, <4>2 DEF AsksStill
    <3>3. QED  BY <1>2, <2>1, <3>1, <3>2 DEF TurnOK
  <2>2. ASSUME st'[p].from # 0 PROVE AsksHdr(up'[p]) \/ EndsHdr(down'[p])
    <3>1. CASE AsksHdr(t.out)
      BY <1>7, <3>1 DEF AsksStill
    <3>2. CASE s.from # 0
      <4>1. st[p].from # 0 /\ Head(down[p]).t \notin {"hdrs", "nack"}
        BY <1>10, <3>2 DEF Drained
      <4>2. AsksHdr(up[p]) \/ EndsHdr(down[p])
        BY <1>10, <4>1 DEF Waits
      <4>3. QED  BY <1>7, <1>8, <4>1, <4>2 DEF AsksStill
    <3>3. QED  BY <1>2, <2>2, <3>1, <3>2 DEF TurnOK
  <2>3. QED  BY <2>1, <2>2 DEF Waits
<1>11. hist' = {} => hist = {}
  OBVIOUS
<1>12. hist' = {} /\ p \notin apart' => Waits(st'[p], up'[p], down'[p])
  BY <1>1, <1>3, <1>10, <1>11 DEF PeerInv
<1>13. p \in apart' => Differs(chain', p, head'[p])
  <2>1. Len(chain) \in Nat /\ Len(chain') \in Nat
    BY <1>4, <1>5, LenProperties DEF ChainInv
  <2>2. QED  BY <1>1, <1>3, <1>5, <2>1, DiffersStill DEF PeerInv
<1>14. st'[p].cup.on => p \notin late'
  BY <1>2
<1>15. PeerInv(p)'
  BY <1>9, <1>12, <1>13, <1>14
     DEF PeerInv, Sound, Waits, Differs, AsksHdr, AsksBlk, EndsHdr, EndsBlk
<1>16. ASSUME NEW q \in Peers, q # p PROVE PeerInv(q)'
  <2>1. head'[q] = head[q] /\ st'[q] = st[q] /\ up'[q] = up[q] /\ down'[q] = down[q]
    BY <1>1, <1>16
  <2>2. (q \in late' => q \in late) /\ (q \in apart <=> q \in apart')
    BY <1>1, <1>16
  <2>3. PeerInv(q)
    BY DEF IInv
  <2>4. QED  BY <1>4, <1>5, <1>11, <2>1, <2>2, <2>3, OthersKeep
<1>17. Shape'
  <2>1. /\ head = [q \in Peers |-> head[q]] /\ late \subseteq Peers /\ apart \subseteq Peers
        /\ hist \subseteq {"lost", "dropped"}
    BY DEF IInv, Shape
  <2>2. late' \subseteq Peers /\ apart' \subseteq Peers /\ hist' \subseteq {"lost", "dropped"}
    BY <1>1, <2>1
  <2>3. head' = [q \in Peers |-> head'[q]] /\ st' = [q \in Peers |-> st'[q]]
        /\ up' = [q \in Peers |-> up'[q]] /\ down' = [q \in Peers |-> down'[q]]
    BY <1>1, <2>1
  <2>4. QED  BY <2>2, <2>3 DEF Shape
<1>18. QED  BY <1>5, <1>15, <1>16, <1>17 DEF IInv

\* A peer whose chain differs below both tips is sent away.
LEMMA DisconnectInv ==
    ASSUME IInv, NEW p \in Peers, NEW s \in Records(p, head[p]), Disconnect(p, s),
           s.cup.on => st[p].cup.on, Differs(chain, p, head[p])
    PROVE  IInv'
<1>1. /\ UNCHANGED <<chain, head, late, faults, hist>> /\ apart' = apart \cup {p}
      /\ st' = [q \in Peers |-> IF q = p THEN s ELSE st[q]]
      /\ up' = [q \in Peers |-> IF q = p THEN <<>> ELSE up[q]]
      /\ down' = [q \in Peers |-> IF q = p THEN <<>> ELSE down[q]]
  BY DEF Disconnect, IInv, Shape
<1>2. st'[p] = s /\ up'[p] = <<>> /\ down'[p] = <<>> /\ head'[p] = head[p]
  BY <1>1
<1>3. PeerInv(p) /\ ChainInv /\ Sound(p, head[p], st[p], up[p], down[p])
  BY DEF IInv, PeerInv
<1>4. ChainInv' /\ Extends(chain, chain')
  BY <1>1, <1>3, LenProperties DEF ChainInv, Begins, Extends
<1>5. Sound(p, head'[p], st'[p], up'[p], down'[p])
  BY <1>2, <1>3, EmptySeq DEF Sound
<1>6. /\ p \in apart' /\ Differs(chain', p, head'[p])
      /\ st'[p].cup.on => p \notin late'
  BY <1>1, <1>2, <1>3 DEF PeerInv, Differs
<1>7. PeerInv(p)'
  BY <1>5, <1>6 DEF PeerInv, Sound, Waits, Differs, AsksHdr, AsksBlk, EndsHdr, EndsBlk
<1>8. ASSUME NEW q \in Peers, q # p PROVE PeerInv(q)'
  <2>1. /\ head'[q] = head[q] /\ st'[q] = st[q] /\ up'[q] = up[q] /\ down'[q] = down[q]
        /\ q \in late' => q \in late
        /\ q \in apart <=> q \in apart'
        /\ hist' = {} => hist = {}
    BY <1>1, <1>8
  <2>2. PeerInv(q)
    BY DEF IInv
  <2>3. QED  BY <1>3, <1>4, <2>1, <2>2, OthersKeep
<1>9. Shape'
  <2>1. /\ head = [q \in Peers |-> head[q]] /\ late \subseteq Peers /\ apart \subseteq Peers
        /\ hist \subseteq {"lost", "dropped"}
    BY DEF IInv, Shape
  <2>2. late' \subseteq Peers /\ apart' \subseteq Peers /\ hist' \subseteq {"lost", "dropped"}
    BY <1>1, <2>1
  <2>3. head' = [q \in Peers |-> head'[q]] /\ st' = [q \in Peers |-> st'[q]]
        /\ up' = [q \in Peers |-> up'[q]] /\ down' = [q \in Peers |-> down'[q]]
    BY <1>1, <2>1
  <2>4. QED  BY <2>2, <2>3 DEF Shape
<1>10. QED  BY <1>4, <1>7, <1>8, <1>9 DEF IInv

-----------------------------------------------------------------------------
(* The handlers.                                                           *)

LEMMA MessageKinds ==
    ASSUME NEW p \in Peers, PeerInv(p), down[p] # <<>>
    PROVE  LET m == Head(down[p])
               n == head[p]
           IN  /\ n \in Nat /\ st[p] \in Records(p, n) /\ m \in Answers(p, n)
               /\ m.t = "tip"   => m \in Tips(p, n)
               /\ m.t = "hdrs"  => m.rows \in Runs(p, n)
               /\ m.t = "blks"  => m.rows \in Seq(Owned(p, n))
               /\ m.t = "chunk" => m.rows \in Runs(p, n)
               /\ m.t = "done"  => m.last \in Hashes
<1>1. Sound(p, head[p], st[p], up[p], down[p])
  BY DEF PeerInv
<1>2. head[p] \in Nat /\ Head(down[p]) \in Answers(p, head[p])
  BY <1>1, CapsAreNat, TailStream DEF Sound
<1> PICK m : m = Head(down[p])  OBVIOUS
<1>3. /\ m.t = "tip"   => m \in Tips(p, head[p])
      /\ m.t = "hdrs"  => m.rows \in Runs(p, head[p])
      /\ m.t = "blks"  => m.rows \in Seq(Owned(p, head[p]))
      /\ m.t = "chunk" => m.rows \in Runs(p, head[p])
      /\ m.t = "done"  => m.last \in Hashes
  BY <1>2 DEF Answers, Tips
<1>4. QED  BY <1>1, <1>2, <1>3 DEF Sound

\* Asking leaves a catch-up as it is.
LEMMA AsksKeepCup ==
    ASSUME NEW t, NEW local
    PROVE  /\ AskHdr(t, local).s.cup = t.s.cup
           /\ AskBlk(t).s.cup = t.s.cup
           /\ TailPull(t, local).s.cup = t.s.cup
<1>1. \A from : AskHdr(t, from).s.cup = t.s.cup
  BY DEF AskHdr
<1>2. AskBlk(t).s.cup = t.s.cup
  BY DEF AskBlk
<1>3. QED  BY <1>1, <1>2 DEF TailPull

LEMMA EnqueueKeepsCup ==
    ASSUME NEW p, NEW n \in Nat, NEW s \in Records(p, n), NEW rows \in Runs(p, n)
    PROVE  Enqueue(s, rows).s.cup = s.cup
<1> DEFINE new  == Without(rows, ToSet(s.pend) \cup ToSet(s.wait))
           next == Last(rows)[1] + 1
           r    == [s EXCEPT !.fork = NoFork, !.pend = @ \o new]
           u    == IF next <= s.tip THEN AskHdr(Turn(r), next) ELSE Turn(r)
<1>1. Enqueue(s, rows) = AskBlk(u)
  BY DEF Enqueue
<1>2. r.cup = s.cup
  BY DEF Records
<1> HIDE DEF r, next
<1>3. \A from : AskHdr(Turn(r), from).s.cup = s.cup
  BY <1>2 DEF AskHdr, Turn
<1>4. u.s.cup = s.cup
  BY <1>2, <1>3 DEF Turn
<1> HIDE DEF u
<1>5. AskBlk(u).s.cup = u.s.cup
  BY DEF AskBlk
<1>6. QED  BY <1>1, <1>4, <1>5

LEMMA OnTipInv ==
    ASSUME IInv, NEW p \in Peers, OnTip(p)
    PROVE  IInv'
<1> DEFINE m       == Head(down[p])
           n       == head[p]
           local   == Len(chain)
           seen    == [st[p] EXCEPT !.tip = AtLeast(@, m.h)]
           demoted == m.h >= local /\ m.h < local + CupTailMax /\ seen.cup.on
           s       == IF demoted THEN CupClear(seen) ELSE seen
           cupReq  == seen.cup.on \/ m.h >= local + CupLagMin
           start   == /\ cupReq /\ m.h > local
                      /\ ~s.cup.on /\ ~ForkLocked(s, local)
                      /\ demoted \/ p \notin late
           t       == IF m.h <= local \/ s.cup.on THEN Turn(s)
                      ELSE IF start THEN SendCup(Turn(s), m.h)
                      ELSE AskHdr(Turn(s), local + 1)
<1>1. down[p] # <<>> /\ m.t = "tip"
  BY DEF OnTip, Got
<1>2. \/ m.h = local /\ TipForks(m) /\ Disconnect(p, s)
      \/ /\ ~(m.h = local /\ TipForks(m)) /\ Finish(p, t)
         /\ late' = IF demoted \/ start THEN late \ {p} ELSE late
         /\ UNCHANGED <<chain, hist>>
  BY DEF OnTip
<1>3. PeerInv(p) /\ ChainInv /\ local \in Nat
  BY LenProperties DEF IInv, ChainInv
<1>4. n \in Nat /\ st[p] \in Records(p, n) /\ m \in Tips(p, n)
  BY <1>1, <1>3, MessageKinds
<1>5. m.h \in 0..n
  BY <1>4 DEF Tips
<1>6. seen \in Records(p, n) /\ seen.wait = st[p].wait /\ seen.from = st[p].from
      /\ seen.cup = st[p].cup
  <2>1. AtLeast(st[p].tip, m.h) \in 0..n
    BY <1>4, <1>5 DEF Records, AtLeast
  <2>2. QED  BY <1>4, <2>1 DEF Records
<1>7. /\ s \in Records(p, n) /\ s.wait = st[p].wait /\ s.from = st[p].from
      /\ s.cup.on => ~demoted /\ s.cup = st[p].cup
  <2>1. \A r \in Records(p, n) :
           /\ CupClear(r) \in Records(p, n) /\ ~CupClear(r).cup.on
           /\ CupClear(r).wait = r.wait /\ CupClear(r).from = r.from
    BY ClearedRecord
  <2>2. QED  BY <1>6, <2>1
<1>8. Drained(p, s)
  BY <1>1, <1>7 DEF Drained
<1> HIDE DEF seen, s, m, n, local
<1>9. TurnOK(p, n, Turn(s), s) /\ Turn(s).s = s
  BY <1>7, TurnTurns DEF Turn
<1>10. TurnOK(p, n, t, s)
  <2>1. CASE m.h > local
    <3>1. m.h \in 1..n /\ local + 1 \in 1..n
      BY <1>3, <1>4, <1>5, <2>1
    <3>2. TurnOK(p, n, SendCup(Turn(s), m.h), s)
      BY <1>3, <1>4, <1>9, <2>1, <3>1, SendCupTurns DEF local
    <3>3. TurnOK(p, n, AskHdr(Turn(s), local + 1), s)
      BY <1>4, <1>9, <3>1, AskHdrTurns
    <3>4. QED  BY <1>9, <3>2, <3>3
  <2>2. CASE ~(m.h > local)
    BY <1>3, <1>5, <1>9, <2>2
  <2>3. QED  BY <2>1, <2>2
<1>11. ASSUME m.h = local, TipForks(m) PROVE Differs(chain, p, n)
  <2>1. m.hash = IF m.h = 0 THEN Genesis ELSE Hash(p, m.h)
    BY <1>4 DEF Tips
  <2>2. CASE m.h > 1
    <3>1. Parent(m.hash) = Hash(p, m.h - 1) /\ m.h - 1 \in 1..Len(chain) /\ m.h - 1 <= n
      BY <1>3, <1>4, <1>5, <1>11, <2>1, <2>2, ParentOfHash DEF local
    <3>2. chain[m.h - 1] # Hash(p, m.h - 1)
      BY <1>11, <2>2, <3>1 DEF TipForks
    <3>3. QED  BY <3>1, <3>2 DEF Differs
  <2>3. CASE m.h = 1
    <3> chain # <<>>
      <4>1. chain = <<>> <=> Len(chain) = 0
        BY <1>3, EmptySeq, LenProperties DEF ChainInv
      <4>2. QED  BY <1>11, <2>3, <4>1 DEF local
    <3>1. m.hash = Hash(p, 1) /\ Tip = chain[1] /\ 1 \in 1..Len(chain) /\ 1 <= n
      BY <1>3, <1>4, <1>5, <1>11, <2>1, <2>3, EmptySeq DEF local, Tip, Last
    <3>2. chain[1] # Hash(p, 1)
      BY <1>11, <2>3, <3>1 DEF TipForks
    <3>3. QED  BY <3>1, <3>2 DEF Differs
  <2>4. CASE m.h = 0
    <3>1. Tip = Genesis /\ m.hash = Genesis
      BY <1>3, <1>11, <2>1, <2>4, EmptySeq DEF local, Tip, ChainInv
    <3>2. QED  BY <1>11, <2>4, <3>1 DEF TipForks
  <2>5. m.h > 1 \/ m.h = 1 \/ m.h = 0
    BY <1>4, <1>5
  <2>6. QED  BY <2>2, <2>3, <2>4, <2>5
<1>12. CASE m.h = local /\ TipForks(m) /\ Disconnect(p, s)
  BY <1>7, <1>11, <1>12, DisconnectInv DEF n
<1>13. CASE /\ ~(m.h = local /\ TipForks(m)) /\ Finish(p, t)
            /\ late' = IF demoted \/ start THEN late \ {p} ELSE late
            /\ UNCHANGED <<chain, hist>>
  <2>1. ChainStep(p)
    BY <1>13 DEF ChainStep
  <2>2. t.s.cup.on => p \notin late'
    <3>1. CASE m.h <= local \/ s.cup.on
      <4>1. t.s = s /\ (s.cup.on => ~start /\ ~demoted)
        BY <1>7, <1>9, <3>1
      <4>2. s.cup.on => p \notin late
        BY <1>3, <1>7 DEF PeerInv
      <4>3. QED  BY <1>13, <4>1, <4>2
    <3>2. CASE ~(m.h <= local \/ s.cup.on) /\ start
      BY <1>13, <3>2
    <3>3. CASE ~(m.h <= local \/ s.cup.on) /\ ~start
      <4>1. t = AskHdr(Turn(s), local + 1)
        BY <3>3
      <4>2. AskHdr(Turn(s), local + 1).s.cup = s.cup
        BY <1>9, AsksKeepCup
      <4>3. QED  BY <3>3, <4>1, <4>2
    <3>4. QED  BY <3>1, <3>2, <3>3
  <2>3. late' \in {late, late \ {p}, late \cup {p}} /\ hist' = hist
    BY <1>13
  <2> HIDE DEF t
  <2>4. QED  BY <1>1, <1>8, <1>10, <1>13, <2>1, <2>2, <2>3, FinishInv DEF n
<1>14. QED  BY <1>2, <1>12, <1>13

LEMMA DropLiveInv ==
    ASSUME IInv, NEW p \in Peers, DropLive(p)
    PROVE  IInv'
<1>1. /\ down[p] # <<>> /\ Finish(p, Turn(st[p])) /\ hist' = hist \cup {"dropped"}
      /\ UNCHANGED <<chain, late>>
  BY DEF DropLive, Got
<1>2. PeerInv(p) /\ st[p] \in Records(p, head[p])
  BY <1>1, MessageKinds DEF IInv
<1>3. TurnOK(p, head[p], Turn(st[p]), st[p])
  BY <1>2, TurnTurns
<1>4. /\ ChainStep(p) /\ hist' # {}
      /\ Turn(st[p]).s.cup.on => p \notin late'
  BY <1>1, <1>2 DEF ChainStep, PeerInv, Turn
<1>5. QED  BY <1>1, <1>3, <1>4, FinishInv

LEMMA OnHdrBatchInv ==
    ASSUME IInv, NEW p \in Peers, OnHdrBatch(p)
    PROVE  IInv'
<1> DEFINE rows == Head(down[p]).rows
           n    == head[p]
           s    == [st[p] EXCEPT !.inHdr = Less1(@), !.from = 0]
           marked == ForkMark(s, rows[1][1], Len(chain))
<1>1. /\ down[p] # <<>> /\ Head(down[p]).t = "hdrs" /\ ~st[p].cup.on
      /\ \/ /\ Finish(p, Turn(s)) /\ UNCHANGED <<chain, late, hist>>
         \/ /\ Finish(p, Enqueue(s, rows)) /\ UNCHANGED <<chain, late, hist>>
         \/ /\ Expected(st[p], rows) /\ ~Links(rows, Tip) /\ Disconnect(p, marked)
         \/ /\ Finish(p, Turn(marked)) /\ UNCHANGED <<chain, late, hist>>
  BY DEF OnHdrBatch, Got
<1>2. PeerInv(p) /\ ChainInv /\ Len(chain) \in Nat
  BY LenProperties DEF IInv, ChainInv
<1>3. n \in Nat /\ st[p] \in Records(p, n) /\ rows \in Runs(p, n)
  BY <1>1, <1>2, MessageKinds
<1>4. s \in Records(p, n) /\ s.wait = st[p].wait /\ s.from = 0 /\ ~s.cup.on
  <2>1. Less1(st[p].inHdr) \in 0..InfCap /\ 0 \in 0..n
    BY <1>3, CapsAreNat DEF Records, Less1
  <2>2. QED  BY <1>1, <1>3, <2>1 DEF Records
<1> HIDE DEF s
<1>5. rows \in Seq(Owned(p, n)) /\ 1 \in 1..Len(rows) /\ Len(rows) \in Nat
  <2>1. rows \in Seq(Owned(p, n)) /\ rows # <<>>
    BY <1>3 DEF Runs
  <2>2. QED  BY <2>1, EmptySeq
<1>6. rows[1][1] \in Nat /\ rows[1] = Hash(p, rows[1][1]) /\ rows[1][1] \in 1..n
  BY <1>3, <1>5, OwnedRows
<1>7. /\ marked \in Records(p, n) /\ ~marked.cup.on
      /\ marked.wait = st[p].wait /\ marked.from = 0
  <2>1. Alike(p, n, marked, s)
    BY <1>2, <1>4, <1>6, MarkedRecord
  <2>2. QED  BY <1>4, <2>1 DEF Alike
<1> HIDE DEF marked
<1>8. Drained(p, s) /\ Drained(p, marked)
  BY <1>1, <1>4, <1>7 DEF Drained
<1>9. TurnOK(p, n, Turn(s), s) /\ TurnOK(p, n, Turn(marked), marked)
      /\ TurnOK(p, n, Enqueue(s, rows), s)
  BY <1>3, <1>4, <1>7, TurnTurns, EnqueueTurns
<1>10. ~Turn(s).s.cup.on /\ ~Turn(marked).s.cup.on
  BY <1>4, <1>7 DEF Turn
<1>11. ~Enqueue(s, rows).s.cup.on
  BY <1>3, <1>4, EnqueueKeepsCup
<1>12. CASE Finish(p, Turn(s)) /\ UNCHANGED <<chain, late, hist>>
  BY <1>1, <1>8, <1>9, <1>10, <1>12, FinishInv DEF ChainStep, n
<1>13. CASE Finish(p, Enqueue(s, rows)) /\ UNCHANGED <<chain, late, hist>>
  BY <1>1, <1>8, <1>9, <1>11, <1>13, FinishInv DEF ChainStep, n
<1>14. CASE Finish(p, Turn(marked)) /\ UNCHANGED <<chain, late, hist>>
  BY <1>1, <1>8, <1>9, <1>10, <1>14, FinishInv DEF ChainStep, n
<1>15. CASE Expected(st[p], rows) /\ ~Links(rows, Tip) /\ Disconnect(p, marked)
  <2>1. rows[1][1] = Len(chain) + 1
    BY <1>15 DEF Expected
  <2>2. Parent(rows[1]) # Tip
    <3> SUFFICES ASSUME Parent(rows[1]) = Tip PROVE Links(rows, Tip)
      BY <1>15
    <3>1. ASSUME NEW i \in 1..Len(rows), i # 1 PROVE Parent(rows[i]) = rows[i - 1]
      <4>1. /\ rows[i] = Hash(p, rows[1][1] + i - 1) /\ i - 1 \in 1..Len(rows)
            /\ rows[i - 1] = Hash(p, rows[1][1] + (i - 1) - 1)
        BY <1>3, <1>5, <3>1 DEF Runs
      <4>2. /\ rows[1][1] + i - 1 \in Nat /\ rows[1][1] + i - 1 # 1 /\ rows[1][1] + i - 1 >= 1
            /\ (rows[1][1] + i - 1) - 1 = rows[1][1] + (i - 1) - 1
        BY <1>5, <1>6, <3>1
      <4>3. QED  BY <4>1, <4>2, ParentOfHash
    <3>2. DOMAIN rows = 1..Len(rows)
      BY <1>5, LenProperties
    <3>3. QED  BY <3>1, <3>2 DEF Links
  <2>3. Parent(rows[1]) = IF Len(chain) = 0 THEN Genesis ELSE Hash(p, Len(chain))
    <3>1. Len(chain) + 1 \in Nat /\ Len(chain) + 1 >= 1 /\ (Len(chain) + 1) - 1 = Len(chain)
          /\ (Len(chain) + 1 = 1 <=> Len(chain) = 0)
      BY <1>2
    <3>2. rows[1] = Hash(p, Len(chain) + 1)
      BY <1>6, <2>1
    <3>3. QED  BY <3>1, <3>2, ParentOfHash
  <2>4. Tip = IF Len(chain) = 0 THEN Genesis ELSE chain[Len(chain)]
    BY <1>2, EmptySeq DEF Tip, Last, ChainInv
  <2>5. Len(chain) \in 1..Len(chain) /\ Len(chain) <= n /\ chain[Len(chain)] # Hash(p, Len(chain))
    BY <1>2, <1>3, <1>6, <2>1, <2>2, <2>3, <2>4
  <2>6. Differs(chain, p, n)
    BY <2>5 DEF Differs
  <2>7. QED  BY <1>7, <1>15, <2>6, DisconnectInv DEF n
<1>16. QED  BY <1>1, <1>12, <1>13, <1>14, <1>15

LEMMA OnBlkBatchInv ==
    ASSUME IInv, NEW p \in Peers, OnBlkBatch(p)
    PROVE  IInv'
<1> DEFINE rows == Head(down[p]).rows
           want == st[p].wait
           s    == [st[p] EXCEPT !.inBlk = Less1(@), !.wait = <<>>]
           k    == AtMost(Len(rows), Len(want))
           bad  == {i \in 1..k : rows[i] # want[i]}
           rest == SubSeq(want, k + 1, Len(want))
           done == SubSeq(rows, 1, k)
           worst == CHOOSE i \in bad : \A j \in bad : i <= j
           again == SubSeq(want, worst, Len(want))
           local == Len(chain) + k
<1>1. /\ down[p] # <<>> /\ Head(down[p]).t = "blks" /\ ~st[p].cup.on
      /\ UNCHANGED <<late, hist>>
      /\ \/ Finish(p, Turn(s)) /\ UNCHANGED chain
         \/ bad # {} /\ Finish(p, Turn(Reinqueue(s, again))) /\ UNCHANGED chain
         \/ /\ Links(done, Tip) /\ chain' = chain \o done
            /\ Finish(p, AskBlk(TailPull(Turn(Reinqueue(s, rest)), local)))
         \/ Finish(p, AskBlk(Turn(Reinqueue(s, rest)))) /\ UNCHANGED chain
  BY DEF OnBlkBatch, Got, Appliable
<1>2. PeerInv(p) /\ ChainInv /\ Len(chain) \in Nat
  BY LenProperties DEF IInv, ChainInv
<1> DEFINE n == head[p]
<1>3. n \in Nat /\ st[p] \in Records(p, n) /\ rows \in Seq(Owned(p, n))
      /\ want \in Seq(Owned(p, n)) /\ Len(rows) \in Nat /\ Len(want) \in Nat
  <2>1. n \in Nat /\ st[p] \in Records(p, n) /\ rows \in Seq(Owned(p, n))
    BY <1>1, <1>2, MessageKinds
  <2>2. QED  BY <2>1, LenProperties DEF Records
<1>4. s \in Records(p, n) /\ s.wait = <<>> /\ s.from = st[p].from /\ ~s.cup.on
  <2>1. Less1(st[p].inBlk) \in 0..InfCap /\ <<>> \in Seq(Owned(p, n)) /\ Len(<<>>) <= BlkCap
    BY <1>3, CapsAreNat, EmptySeq DEF Records, Less1
  <2>2. QED  BY <1>1, <1>3, <2>1 DEF Records
<1>5. k \in Nat /\ k <= Len(rows) /\ k <= Len(want) /\ local \in Nat
  BY <1>2, <1>3 DEF AtMost
<1>6. rest \in Seq(Owned(p, n)) /\ done \in Seq(Owned(p, n))
  BY <1>3, <1>5, PartOf
<1>7. ASSUME bad # {} PROVE again \in Seq(Owned(p, n))
  <2>1. bad \in SUBSET Nat
    OBVIOUS
  <2>2. \E i \in bad : \A j \in bad : i <= j
    BY <1>7, <2>1, LeastNumber
  <2>3. worst \in bad
    BY <2>2
  <2> HIDE DEF worst
  <2>4. worst \in Nat /\ worst >= 1
    BY <2>3
  <2>5. QED  BY <1>3, <2>4, PartOf
<1> HIDE DEF s, k, bad, rest, done, again, local, rows, want, n
<1> PICK r : r = Reinqueue(s, rest)  OBVIOUS
<1> PICK a : a = Reinqueue(s, again)  OBVIOUS
<1>8. r \in Records(p, n) /\ r.wait = <<>> /\ r.from = st[p].from /\ ~r.cup.on
  BY <1>4, <1>6, RequeuedRecord
<1>9. bad # {} => a \in Records(p, n) /\ a.wait = <<>> /\ a.from = st[p].from /\ ~a.cup.on
  BY <1>4, <1>7, RequeuedRecord
<1>10. Drained(p, s) /\ Drained(p, r) /\ (bad # {} => Drained(p, a))
  BY <1>1, <1>4, <1>8, <1>9 DEF Drained
<1>11. /\ TurnOK(p, n, Turn(s), s) /\ TurnOK(p, n, Turn(r), r)
       /\ bad # {} => TurnOK(p, n, Turn(a), a)
  BY <1>4, <1>8, <1>9, TurnTurns
<1>12. TurnOK(p, n, AskBlk(Turn(r)), r) /\ TurnOK(p, n, TailPull(Turn(r), local), r)
  BY <1>3, <1>5, <1>11, AskBlkTurns, TailPullTurns
<1>13. TurnOK(p, n, AskBlk(TailPull(Turn(r), local)), r)
  BY <1>3, <1>12, AskBlkTurns
<1>14. ~Turn(s).s.cup.on /\ (bad # {} => ~Turn(a).s.cup.on) /\ ~Turn(r).s.cup.on
  BY <1>4, <1>8, <1>9 DEF Turn
<1>15. ~AskBlk(Turn(r)).s.cup.on
  BY <1>14, AsksKeepCup
<1>16. ~AskBlk(TailPull(Turn(r), local)).s.cup.on
  BY <1>14, AsksKeepCup
<1>17. CASE Finish(p, Turn(s)) /\ UNCHANGED chain
  BY <1>1, <1>10, <1>11, <1>14, <1>17, FinishInv DEF ChainStep, n
<1>18. CASE bad # {} /\ Finish(p, Turn(a)) /\ UNCHANGED chain
  BY <1>1, <1>10, <1>11, <1>14, <1>18, FinishInv DEF ChainStep, n
<1>19. CASE Finish(p, AskBlk(Turn(r))) /\ UNCHANGED chain
  BY <1>1, <1>10, <1>12, <1>15, <1>19, FinishInv DEF ChainStep, n
<1>20. CASE /\ Links(done, Tip) /\ chain' = chain \o done
            /\ Finish(p, AskBlk(TailPull(Turn(r), local)))
  <2>1. ChainStep(p)
    BY <1>2, <1>6, <1>20, AppliedRows DEF n
  <2>2. QED  BY <1>1, <1>10, <1>13, <1>16, <1>20, <2>1, FinishInv DEF n
<1>21. QED  BY <1>1, <1>17, <1>18, <1>19, <1>20

\* A catch-up that is given up.
LEMMA CupFailInv ==
    ASSUME IInv, NEW p \in Peers, NEW s \in Records(p, head[p]), down[p] # <<>>,
           CupFail(p, s), Drained(p, s), UNCHANGED <<chain, hist>>
    PROVE  IInv'
<1>1. Finish(p, Turn(CupClear(s))) /\ late' = late \cup {p}
  BY DEF CupFail
<1>2. /\ CupClear(s) \in Records(p, head[p]) /\ ~CupClear(s).cup.on
      /\ CupClear(s).wait = s.wait /\ CupClear(s).from = s.from
  BY ClearedRecord
<1>3. TurnOK(p, head[p], Turn(CupClear(s)), CupClear(s)) /\ Drained(p, CupClear(s))
      /\ ~Turn(CupClear(s)).s.cup.on
  BY <1>2, TurnTurns DEF Drained, Turn
<1>4. QED  BY <1>1, <1>3, FinishInv DEF ChainStep

LEMMA WithinWindow ==
    ASSUME NEW from \in Nat, NEW to \in Nat, NEW next \in Nat, NEW l \in Nat,
           next >= from, next + l - 1 <= to
    PROVE  next + l \in from..(to + 1)
OBVIOUS

LEMMA OnCupChunkInv ==
    ASSUME IInv, NEW p \in Peers, OnCupChunk(p)
    PROVE  IInv'
<1> DEFINE m == Head(down[p])
           n == head[p]
           s == st[p]
           r == [s EXCEPT !.cup.next = @ + Len(m.rows), !.cup.ix = @ + 1,
                          !.cup.prev = Last(m.rows)]
<1>1. /\ down[p] # <<>> /\ m.t = "chunk" /\ UNCHANGED hist
      /\ \/ Finish(p, Turn(s)) /\ UNCHANGED <<chain, late>>
         \/ /\ s.cup.on /\ m.rows[1][1] = s.cup.next /\ Last(m.rows)[1] <= s.cup.to
            /\ Links(m.rows, Tip) /\ chain' = chain \o m.rows
            /\ Finish(p, Turn(r)) /\ UNCHANGED late
         \/ CupFail(p, s) /\ UNCHANGED chain
  BY DEF OnCupChunk, Got, Appliable
<1>2. PeerInv(p) /\ ChainInv
  BY DEF IInv
<1>3. n \in Nat /\ s \in Records(p, n) /\ m.rows \in Runs(p, n)
  BY <1>1, <1>2, MessageKinds
<1>4. Drained(p, s)
  BY <1>1 DEF Drained
<1>5. CASE Finish(p, Turn(s)) /\ UNCHANGED <<chain, late>>
  <2>1. TurnOK(p, n, Turn(s), s) /\ (Turn(s).s.cup.on => p \notin late)
    BY <1>2, <1>3, TurnTurns DEF PeerInv, Turn
  <2>2. QED  BY <1>1, <1>4, <1>5, <2>1, FinishInv DEF ChainStep
<1>6. CASE CupFail(p, s) /\ UNCHANGED chain
  BY <1>1, <1>3, <1>4, <1>6, CupFailInv
<1>7. CASE /\ s.cup.on /\ m.rows[1][1] = s.cup.next /\ Last(m.rows)[1] <= s.cup.to
           /\ Links(m.rows, Tip) /\ chain' = chain \o m.rows
           /\ Finish(p, Turn(r)) /\ UNCHANGED late
  <2> PICK rows : rows = m.rows  OBVIOUS
  <2>1. rows \in Seq(Owned(p, n)) /\ rows # <<>>
        /\ \A i \in 1..Len(rows) : rows[i] = Hash(p, rows[1][1] + i - 1)
    BY <1>3 DEF Runs
  <2>2. Len(rows) \in Nat /\ 1 \in 1..Len(rows) /\ Len(rows) \in 1..Len(rows)
    BY <2>1, EmptySeq
  <2>3. Last(rows) \in Hashes /\ rows[1][1] \in Nat
    BY <1>3, <2>1, <2>2, OwnedRows DEF Last
  <2>4. Last(rows)[1] = rows[1][1] + Len(rows) - 1
    <3>1. Last(rows) = Hash(p, rows[1][1] + Len(rows) - 1)
      BY <2>1, <2>2 DEF Last
    <3>2. rows[1][1] + Len(rows) - 1 \in Nat
      BY <2>2, <2>3
    <3>3. QED  BY <3>1, <3>2, HashType
  <2>5. s.cup \in Cups
    BY <1>3 DEF Records
  <2> DEFINE c == [s.cup EXCEPT !.next = @ + Len(rows), !.ix = @ + 1, !.prev = Last(rows)]
  <2>6. c \in Cups /\ c.on = s.cup.on
    <3>0. /\ s.cup.next \in Nat /\ s.cup.ix \in Nat /\ s.cup.from \in Nat /\ s.cup.to \in Nat
          /\ s.cup.next >= s.cup.from
          /\ s.cup.next + Len(rows) - 1 <= s.cup.to
      <4>1. /\ s.cup.next \in Nat /\ s.cup.ix \in Nat /\ s.cup.from \in Nat /\ s.cup.to \in Nat
            /\ s.cup.next \in s.cup.from..(s.cup.to + 1)
        BY <1>7, <2>5 DEF Cups
      <4>2. s.cup.next + Len(rows) - 1 <= s.cup.to
        BY <1>7, <2>4
      <4>3. QED  BY <4>1, <4>2
    <3>1. s.cup.next + Len(rows) \in Nat /\ s.cup.ix + 1 \in Nat
      BY <2>2, <3>0
    <3>2. s.cup.next + Len(rows) \in s.cup.from..(s.cup.to + 1)
      BY <2>2, <3>0, WithinWindow
    <3>3. QED  BY <2>3, <2>5, <3>1, <3>2 DEF Cups
  <2>7. r = [s EXCEPT !.cup = c]
    <3>1. s = [f \in DOMAIN s |-> s[f]] /\ s.cup = [f \in DOMAIN s.cup |-> s.cup[f]]
      BY <1>3, <2>5 DEF Records, Cups
    <3>2. QED  BY <3>1
  <2> HIDE DEF c, r
  <2>8. r \in Records(p, n) /\ r.wait = s.wait /\ r.from = s.from /\ r.cup.on = s.cup.on
    BY <1>3, <2>6, <2>7 DEF Records
  <2>9. TurnOK(p, n, Turn(r), r) /\ Drained(p, r)
    BY <1>4, <2>8, TurnTurns DEF Drained
  <2>10. Turn(r).s.cup.on => p \notin late
    BY <1>2, <2>8 DEF PeerInv, Turn
  <2>11. ChainStep(p)
    BY <1>2, <1>7, <2>1, AppliedRows
  <2>12. QED  BY <1>1, <1>7, <2>9, <2>10, <2>11, FinishInv
<1>8. QED  BY <1>1, <1>5, <1>6, <1>7

LEMMA OnCupDoneInv ==
    ASSUME IInv, NEW p \in Peers, OnCupDone(p)
    PROVE  IInv'
<1> DEFINE n == head[p]
           s == st[p]
           c == CupClear(s)
           t == IF s.tip > Len(chain) THEN AskHdr(Turn(c), Len(chain) + 1) ELSE Turn(c)
<1>1. /\ down[p] # <<>> /\ Head(down[p]).t = "done" /\ UNCHANGED <<chain, hist>>
      /\ \/ Finish(p, Turn(s)) /\ UNCHANGED late
         \/ Finish(p, t) /\ UNCHANGED late
         \/ CupFail(p, s)
  BY DEF OnCupDone, Got
<1>2. PeerInv(p) /\ Len(chain) \in Nat
  BY LenProperties DEF IInv, ChainInv
<1>3. n \in Nat /\ s \in Records(p, n) /\ s.tip \in 0..n
  BY <1>1, <1>2, MessageKinds DEF Records
<1>4. Drained(p, s) /\ ChainStep(p)
  BY <1>1 DEF Drained, ChainStep
<1>5. c \in Records(p, n) /\ ~c.cup.on /\ c.wait = s.wait /\ c.from = s.from /\ c.tip = s.tip
  BY <1>3, ClearedRecord
<1> HIDE DEF c
<1>6. Drained(p, c)
  BY <1>4, <1>5 DEF Drained
<1>7. TurnOK(p, n, Turn(c), c) /\ TurnOK(p, n, Turn(s), s)
  BY <1>3, <1>5, TurnTurns
<1>8. TurnOK(p, n, t, c)
  <2>1. s.tip > Len(chain) => Len(chain) + 1 \in 1..n
    BY <1>2, <1>3
  <2>2. QED  BY <1>3, <1>7, <2>1, AskHdrTurns
<1>9. ~t.s.cup.on
  <2>1. AskHdr(Turn(c), Len(chain) + 1).s.cup = Turn(c).s.cup /\ Turn(c).s = c
    BY AsksKeepCup DEF Turn
  <2>2. QED  BY <1>5, <2>1
<1>10. Turn(s).s.cup.on => p \notin late
  BY <1>2 DEF Turn, PeerInv
<1> HIDE DEF t
<1>11. CASE Finish(p, Turn(s)) /\ UNCHANGED late
  BY <1>1, <1>4, <1>7, <1>10, <1>11, FinishInv
<1>12. CASE Finish(p, t) /\ UNCHANGED late
  BY <1>1, <1>4, <1>6, <1>8, <1>9, <1>12, FinishInv
<1>13. CASE CupFail(p, s)
  BY <1>1, <1>3, <1>4, <1>13, CupFailInv
<1>14. QED  BY <1>1, <1>11, <1>12, <1>13

LEMMA OnNackInv ==
    ASSUME IInv, NEW p \in Peers, OnNack(p)
    PROVE  IInv'
<1> DEFINE s == Forget(st[p])
<1>1. /\ down[p] # <<>> /\ UNCHANGED <<chain, hist>>
      /\ CupFail(p, s) \/ (~s.cup.on /\ Finish(p, Turn(s)) /\ UNCHANGED late)
  BY DEF OnNack, Got
<1>2. PeerInv(p) /\ head[p] \in Nat /\ st[p] \in Records(p, head[p])
  BY <1>1, MessageKinds DEF IInv
<1>3. s \in Records(p, head[p]) /\ s.wait = <<>> /\ s.from = 0
  BY <1>2, ForgottenRecord
<1> HIDE DEF s
<1>4. Drained(p, s) /\ TurnOK(p, head[p], Turn(s), s) /\ Turn(s).s = s
  BY <1>3, TurnTurns DEF Drained, Turn
<1>5. QED  BY <1>1, <1>3, <1>4, CupFailInv, FinishInv DEF ChainStep

-----------------------------------------------------------------------------
(* The peers and the sessions.                                             *)

LEMMA BlocksAreARun ==
    ASSUME NEW p, NEW n \in Nat, NEW from \in 1..n, NEW to \in 1..n, from <= to
    PROVE  Blocks(p, from, to) \in Runs(p, n)
<1> PICK r : r = [i \in 1..(to + 1 - from) |-> Hash(p, from + i - 1)]  OBVIOUS
<1>1. to + 1 - from \in Nat /\ to + 1 - from >= 1
  OBVIOUS
<1>2. \A i \in 1..(to + 1 - from) : Hash(p, from + i - 1) \in Owned(p, n)
  <2> SUFFICES ASSUME NEW i \in 1..(to + 1 - from)
               PROVE  Hash(p, from + i - 1) \in Owned(p, n)
    OBVIOUS
  <2>1. from + i - 1 \in 1..n
    OBVIOUS
  <2>2. QED  BY <2>1 DEF Owned
<1>3. r \in [1..(to + 1 - from) -> Owned(p, n)]
  BY <1>2
<1>4. r \in Seq(Owned(p, n)) /\ Len(r) = to + 1 - from
  <2>1. r \in Seq(Owned(p, n))
    BY <1>1, <1>3, SeqDef
  <2>2. QED  BY <1>1, <1>3, <2>1, LenProperties
<1>5. r # <<>>
  BY <1>1, <1>4, EmptySeq
<1>6. r[1] = Hash(p, from) /\ r[1][1] = from
  <2>1. 1 \in 1..(to + 1 - from) /\ from + 1 - 1 = from
    BY <1>1
  <2>2. r[1] = Hash(p, from)
    BY <2>1
  <2>3. QED  BY <2>2, HashType
<1>7. \A i \in 1..Len(r) : r[i] = Hash(p, r[1][1] + i - 1)
  BY <1>4, <1>6
<1>8. Blocks(p, from, to) = r
  BY DEF Blocks
<1>9. QED  BY <1>4, <1>5, <1>7, <1>8 DEF Runs

\* Whole chunks of a range end within it.
LEMMA ChunkFits ==
    ASSUME NEW k \in Nat, NEW c \in Nat \ {0}, NEW i \in Nat, i >= 1, i <= k \div c
    PROVE  i * c \in Nat /\ (i - 1) * c \in Nat /\ i * c <= k /\ i * c = (i - 1) * c + c
<1>1. c * (k \div c) <= k /\ k \div c \in Nat
  OBVIOUS
<1>2. i * c <= (k \div c) * c
  BY <1>1
<1>3. i * c = (i - 1) * c + c /\ i * c \in Nat /\ (i - 1) * c \in Nat
  OBVIOUS
<1>4. QED  BY <1>1, <1>2, <1>3

LEMMA ChunksAreAnswers ==
    ASSUME NEW p, NEW n \in Nat, NEW from \in 1..n, NEW to \in 1..n, from <= to
    PROVE  Chunks(p, from, to) \in Seq(Answers(p, n))
<1> DEFINE a(i) == from + (i - 1) * CupChunk
           b(i) == AtMost(to, from + i * CupChunk - 1)
           e(i) == [t |-> "chunk", ix |-> i - 1, rows |-> Blocks(p, a(i), b(i))]
           k    == (to + CupChunk - from) \div CupChunk
<1>1. k \in Nat /\ to + CupChunk - from \in Nat /\ CupChunk \in Nat \ {0}
  BY CapsAreNat
<1>2. ASSUME NEW i \in 1..k PROVE e(i) \in Answers(p, n)
  <2>1. /\ i * CupChunk \in Nat /\ (i - 1) * CupChunk \in Nat
        /\ i * CupChunk <= to + CupChunk - from
        /\ i * CupChunk = (i - 1) * CupChunk + CupChunk
    <3>1. i \in Nat /\ i >= 1 /\ i <= (to + CupChunk - from) \div CupChunk
      BY <1>1
    <3>2. QED  BY <1>1, <3>1, ChunkFits
  <2>2. a(i) \in 1..n /\ b(i) \in 1..n /\ a(i) <= b(i)
    <3> PICK x, y : x = (i - 1) * CupChunk /\ y = i * CupChunk  OBVIOUS
    <3>1. /\ x \in Nat /\ y \in Nat /\ y <= to + CupChunk - from /\ y = x + CupChunk
          /\ a(i) = from + x /\ b(i) = AtMost(to, from + y - 1)
      BY <2>1
    <3> HIDE DEF a, b
    <3>2. QED  BY <1>1, <3>1 DEF AtMost
  <2>3. Blocks(p, a(i), b(i)) \in Runs(p, n)
    BY <2>2, BlocksAreARun
  <2>4. i - 1 \in Nat
    BY <1>1
  <2> HIDE DEF a, b
  <2>5. QED  BY <2>3, <2>4 DEF Answers
<1> HIDE DEF e
<1>3. [i \in 1..k |-> e(i)] \in [1..k -> Answers(p, n)]
  BY <1>2
<1>4. [i \in 1..k |-> e(i)] \in Seq(Answers(p, n))
  BY <1>1, <1>3, SeqDef
<1>5. QED  BY <1>4 DEF Chunks, e

\* What a peer answers, and that it ends the wait that asked for it.
LEMMA AnswerKinds ==
    ASSUME NEW p \in Peers, head[p] \in Nat, NEW m \in Requests(p, head[p])
    PROVE  /\ Answer(p, m) \in Seq(Answers(p, head[p]))
           /\ m.t = "hdr_req" => EndsHdr(Answer(p, m))
           /\ m.t = "blk_req" => EndsBlk(Answer(p, m))
<1> DEFINE n == head[p]
<1>1. CASE m \in [t : {"hdr_req"}, from : 1..n]
  <2> DEFINE a == [t |-> "hdrs", rows |-> Blocks(p, m.from, AtMost(n, m.from + HdrCap - 1))]
  <2>1. m.t = "hdr_req" /\ m.from \in 1..n
    BY <1>1
  <2>2. Answer(p, m) = <<a>>
    BY <2>1 DEF Answer
  <2>3. Blocks(p, m.from, AtMost(n, m.from + HdrCap - 1)) \in Runs(p, n)
    <3>1. AtMost(n, m.from + HdrCap - 1) \in 1..n /\ m.from <= AtMost(n, m.from + HdrCap - 1)
      BY <2>1, CapsAreNat DEF AtMost
    <3>2. QED  BY <2>1, <3>1, BlocksAreARun
  <2>4. a \in Answers(p, n) /\ a.t = "hdrs"
    BY <2>3 DEF Answers
  <2> HIDE DEF a
  <2>5. <<a>> \in Seq(Answers(p, n)) /\ EndsHdr(<<a>>)
    BY <2>4 DEF EndsHdr
  <2>6. QED  BY <2>1, <2>2, <2>5
<1>2. CASE m \in [t : {"blk_req"}, want : Seq(Owned(p, n))]
  <2> DEFINE a == [t |-> "blks", rows |-> m.want]
  <2>1. m.t = "blk_req" /\ m.want \in Seq(Owned(p, n))
    BY <1>2
  <2>2. Answer(p, m) = <<a>>
    BY <2>1 DEF Answer
  <2>3. a \in Answers(p, n) /\ a.t = "blks"
    BY <2>1 DEF Answers
  <2> HIDE DEF a
  <2>4. <<a>> \in Seq(Answers(p, n)) /\ EndsBlk(<<a>>)
    BY <2>3 DEF EndsBlk
  <2>5. QED  BY <2>1, <2>2, <2>4
<1>3. CASE m \in Windows(n)
  <2> DEFINE a == [t |-> "done", last |-> Hash(p, m.to)]
  <2>1. m.t = "cup_req" /\ m.from \in 1..n /\ m.to \in 1..n /\ m.from <= m.to
    BY <1>3 DEF Windows
  <2>2. Answer(p, m) = Append(Chunks(p, m.from, m.to), a)
    BY <2>1 DEF Answer
  <2>3. Hash(p, m.to) \in Hashes
    BY <2>1, HashType
  <2>4. a \in Answers(p, n)
    BY <2>3 DEF Answers
  <2> HIDE DEF a
  <2>5. Chunks(p, m.from, m.to) \in Seq(Answers(p, n))
    BY <2>1, ChunksAreAnswers
  <2>6. QED  BY <2>1, <2>2, <2>4, <2>5, AppendProperties
<1>4. QED  BY <1>1, <1>2, <1>3 DEF Requests

\* The chain, the record and the heights stay.
LEMMA ChainStays ==
    ASSUME ChainInv, UNCHANGED chain, \A q \in Peers : head'[q] >= head[q] /\ head[q] \in Nat,
           \A q \in Peers : head'[q] \in Nat
    PROVE  ChainInv' /\ Extends(chain, chain')
<1>1. chain \in Seq(Hashes) /\ Len(chain) \in Nat
  BY LenProperties DEF ChainInv
<1>2. Extends(chain, chain')
  BY <1>1 DEF Extends
<1>3. ASSUME chain # <<>> PROVE \E q \in Peers : Begins(chain', q, head'[q])
  <2>1. PICK q \in Peers : Begins(chain, q, head[q])
    BY <1>3 DEF ChainInv
  <2>2. Len(chain) <= head'[q]
    BY <1>1, <2>1 DEF Begins
  <2>3. Begins(chain', q, head'[q])
    BY <2>1, <2>2 DEF Begins
  <2>4. QED  BY <2>3
<1>4. QED  BY <1>1, <1>2, <1>3 DEF ChainInv, Begins

LEMMA HeadsAreNat ==
    ASSUME IInv, NEW q \in Peers
    PROVE  head[q] \in Nat
BY CapsAreNat DEF IInv, PeerInv, Sound

\* A step at the peer's end of the session: its height may grow, its streams
\* change, the follower keeps its chain and what it knows.
LEMMA PeerStep ==
    ASSUME IInv, NEW p \in Peers, NEW n, NEW u, NEW d,
           head' = [head EXCEPT ![p] = n], up' = [up EXCEPT ![p] = u],
           down' = [down EXCEPT ![p] = d], UNCHANGED <<chain, st, late, apart>>,
           Sound(p, n, st[p], u, d), n >= head[p],
           hist' = hist \/ hist' = hist \cup {"lost"},
           hist' = {} /\ Waits(st[p], up[p], down[p]) => Waits(st[p], u, d)
    PROVE  IInv'
<1>1. /\ head' = [q \in Peers |-> IF q = p THEN n ELSE head[q]]
      /\ up' = [q \in Peers |-> IF q = p THEN u ELSE up[q]]
      /\ down' = [q \in Peers |-> IF q = p THEN d ELSE down[q]]
      /\ st = [q \in Peers |-> st[q]] /\ late \subseteq Peers /\ apart \subseteq Peers
      /\ hist \subseteq {"lost", "dropped"}
  BY DEF IInv, Shape
<1>2. head'[p] = n /\ up'[p] = u /\ down'[p] = d /\ st'[p] = st[p]
  BY <1>1
<1>3. n \in Nat /\ \A q \in Peers : head[q] \in Nat
  BY HeadsAreNat, CapsAreNat DEF Sound
<1>4. ChainInv' /\ Extends(chain, chain')
  <2>1. \A q \in Peers : head'[q] >= head[q] /\ head'[q] \in Nat
    BY <1>1, <1>3
  <2>2. ChainInv
    BY DEF IInv
  <2>3. QED  BY <1>3, <2>1, <2>2, ChainStays
<1>5. PeerInv(p) /\ ChainInv
  BY DEF IInv
<1>6. p \in apart' => Differs(chain', p, head'[p])
  <2>1. ASSUME p \in apart PROVE Differs(chain, p, n)
    <3>1. PICK i \in 1..Len(chain) : i <= head[p] /\ chain[i] # Hash(p, i)
      BY <1>5, <2>1 DEF PeerInv, Differs
    <3>2. i \in Nat /\ i <= n
      BY <1>3, <1>5, <3>1, LenProperties DEF ChainInv
    <3>3. QED  BY <3>1, <3>2 DEF Differs
  <2>2. QED  BY <1>2, <2>1 DEF Differs
<1>7. hist' = {} => hist = {}
  OBVIOUS
<1>8. hist' = {} /\ p \notin apart' => Waits(st'[p], up'[p], down'[p])
  BY <1>2, <1>5, <1>7 DEF PeerInv
<1>9. Sound(p, head'[p], st'[p], up'[p], down'[p]) /\ (st'[p].cup.on => p \notin late')
  BY <1>2, <1>5 DEF PeerInv
<1>10. PeerInv(p)'
  BY <1>6, <1>8, <1>9 DEF PeerInv, Sound, Waits, Differs, AsksHdr, AsksBlk, EndsHdr, EndsBlk
<1>11. ASSUME NEW q \in Peers, q # p PROVE PeerInv(q)'
  <2>1. /\ head'[q] = head[q] /\ st'[q] = st[q] /\ up'[q] = up[q] /\ down'[q] = down[q]
        /\ q \in late' => q \in late
        /\ q \in apart <=> q \in apart'
    BY <1>1, <1>11
  <2>2. PeerInv(q)
    BY DEF IInv
  <2>3. QED  BY <1>4, <1>5, <1>7, <2>1, <2>2, OthersKeep
<1>12. Shape'
  <2>1. late' \subseteq Peers /\ apart' \subseteq Peers /\ hist' \subseteq {"lost", "dropped"}
    BY <1>1
  <2>2. head' = [q \in Peers |-> head'[q]] /\ st' = [q \in Peers |-> st'[q]]
        /\ up' = [q \in Peers |-> up'[q]] /\ down' = [q \in Peers |-> down'[q]]
    BY <1>1
  <2>3. QED  BY <2>1, <2>2 DEF Shape
<1>13. QED  BY <1>4, <1>10, <1>11, <1>12 DEF IInv

\* A peer answers its first request.
LEMMA ReplyInv ==
    ASSUME IInv, NEW p \in Peers, up[p] # <<>>, NEW answer \in Seq(Answers(p, head[p])),
           Reply(p, answer),
           Head(up[p]).t = "hdr_req" => EndsHdr(answer),
           Head(up[p]).t = "blk_req" => EndsBlk(answer)
    PROVE  IInv'
<1> DEFINE u == Tail(up[p])
           d == down[p] \o answer
<1>1. Sound(p, head[p], st[p], up[p], down[p])
  BY DEF IInv, PeerInv
<1>2. up[p] \in Seq(Requests(p, head[p])) /\ down[p] \in Seq(Answers(p, head[p]))
  BY <1>1 DEF Sound
<1>3. u \in Seq(Requests(p, head[p]))
      /\ (AsksHdr(up[p]) => AsksHdr(u) \/ Head(up[p]).t = "hdr_req")
      /\ (AsksBlk(up[p]) => AsksBlk(u) \/ Head(up[p]).t = "blk_req")
  BY <1>2, TailStream, TailAsks
<1>4. d \in Seq(Answers(p, head[p])) /\ EndsStill(down[p], d) /\ EndsStill(answer, d)
  BY <1>2, ConcatEnds
<1>5. head' = [head EXCEPT ![p] = head[p]]
  BY DEF Reply, IInv, Shape
<1>6. up' = [up EXCEPT ![p] = u] /\ down' = [down EXCEPT ![p] = d]
      /\ UNCHANGED <<chain, st, late, apart, hist>>
  BY DEF Reply
<1> HIDE DEF u, d
<1>7. Sound(p, head[p], st[p], u, d)
  BY <1>1, <1>3, <1>4 DEF Sound
<1>8. Waits(st[p], up[p], down[p]) => Waits(st[p], u, d)
  BY <1>3, <1>4 DEF Waits, EndsStill
<1>9. head[p] >= head[p]
  BY HeadsAreNat
<1>10. QED  BY <1>5, <1>6, <1>7, <1>8, <1>9, PeerStep

LEMMA ServeInv ==
    ASSUME IInv, NEW p \in Peers, Serve(p) \/ Refuse(p)
    PROVE  IInv'
<1>1. up[p] # <<>>
  BY DEF Serve, Refuse
<1>2. Head(up[p]) \in Requests(p, head[p]) /\ head[p] \in Nat
  <2>1. up[p] \in Seq(Requests(p, head[p]))
    BY DEF IInv, PeerInv, Sound
  <2>2. QED  BY <1>1, <2>1, TailStream, HeadsAreNat
<1>3. CASE Serve(p)
  <2>1. Reply(p, Answer(p, Head(up[p])))
    BY <1>3 DEF Serve
  <2>2. QED  BY <1>1, <1>2, <2>1, AnswerKinds, ReplyInv
<1>4. CASE Refuse(p)
  <2>1. Reply(p, <<[t |-> "nack"]>>)
    BY <1>4 DEF Refuse
  <2> PICK m : m = [t |-> "nack"]  OBVIOUS
  <2>2. m \in Answers(p, head[p]) /\ m.t = "nack"
    BY DEF Answers
  <2>3. <<m>> \in Seq(Answers(p, head[p])) /\ EndsHdr(<<m>>) /\ EndsBlk(<<m>>)
    BY <2>2 DEF EndsHdr, EndsBlk
  <2>4. QED  BY <1>1, <2>1, <2>3, ReplyInv
<1>5. QED  BY <1>3, <1>4

LEMMA AnnounceInv ==
    ASSUME IInv, NEW p \in Peers, Announce(p)
    PROVE  IInv'
<1> DEFINE m == [t |-> "tip", h |-> head[p],
                 hash |-> IF head[p] = 0 THEN Genesis ELSE Hash(p, head[p])]
           d == down[p] \o <<m>>
<1>1. head[p] \in Nat /\ Sound(p, head[p], st[p], up[p], down[p])
  BY HeadsAreNat DEF IInv, PeerInv
<1>2. m \in Answers(p, head[p])
  <2>1. m.hash \in Hashes
    BY <1>1, HashType
  <2>2. QED  BY <1>1, <2>1 DEF Answers, Tips
<1>3. down[p] \in Seq(Answers(p, head[p])) /\ up[p] \in Seq(Requests(p, head[p]))
  BY <1>1 DEF Sound
<1>4. down' = [down EXCEPT ![p] = Append(down[p], m)]
      /\ UNCHANGED <<chain, head, st, late, up, apart, faults, hist>>
  BY DEF Announce
<1> HIDE DEF m
<1>5. <<m>> \in Seq(Answers(p, head[p]))
  BY <1>2
<1>6. d \in Seq(Answers(p, head[p])) /\ EndsStill(down[p], d)
  BY <1>3, <1>5, ConcatEnds
<1>7. down' = [down EXCEPT ![p] = d]
  BY <1>2, <1>3, <1>4, AppendIsConcat
<1>8. head' = [head EXCEPT ![p] = head[p]] /\ up' = [up EXCEPT ![p] = up[p]]
  BY <1>4 DEF IInv, Shape
<1> HIDE DEF d
<1>9. Sound(p, head[p], st[p], up[p], d)
  BY <1>1, <1>6 DEF Sound
<1>10. Waits(st[p], up[p], down[p]) => Waits(st[p], up[p], d)
  BY <1>6 DEF Waits, EndsStill
<1>11. head[p] >= head[p]
  BY <1>1
<1>12. QED  BY <1>4, <1>7, <1>8, <1>9, <1>10, <1>11, PeerStep

LEMMA GrowInv ==
    ASSUME IInv, NEW p \in Peers, Grow(p)
    PROVE  IInv'
<1>1. head[p] \in Nat /\ Sound(p, head[p], st[p], up[p], down[p])
  BY HeadsAreNat DEF IInv, PeerInv
<1>2. /\ head[p] < MaxH[p] /\ head' = [head EXCEPT ![p] = head[p] + 1]
      /\ UNCHANGED <<chain, st, late, up, down, apart, faults, hist>>
  BY DEF Grow
<1>3. up' = [up EXCEPT ![p] = up[p]] /\ down' = [down EXCEPT ![p] = down[p]]
  BY <1>2 DEF IInv, Shape
<1>4. Sound(p, head[p] + 1, st[p], up[p], down[p]) /\ head[p] + 1 >= head[p]
  BY <1>1, <1>2, SoundGrows
<1>5. QED  BY <1>2, <1>3, <1>4, PeerStep

LEMMA BreakInv ==
    ASSUME IInv, NEW p \in Peers, Break(p)
    PROVE  IInv'
<1>1. head[p] \in Nat /\ Sound(p, head[p], st[p], up[p], down[p])
  BY HeadsAreNat DEF IInv, PeerInv
<1>2. /\ up' = [up EXCEPT ![p] = <<>>] /\ down' = [down EXCEPT ![p] = <<>>]
      /\ UNCHANGED <<chain, head, st, late, apart>>
      /\ hist' = hist \/ hist' = hist \cup {"lost"}
      /\ (up[p] # <<>> \/ \E i \in DOMAIN down[p] : down[p][i].t # "tip") => hist' # {}
  BY DEF Break
<1>3. head' = [head EXCEPT ![p] = head[p]]
  BY <1>2 DEF IInv, Shape
<1>4. Sound(p, head[p], st[p], <<>>, <<>>)
  BY <1>1, EmptySeq DEF Sound
<1>5. hist' = {} /\ Waits(st[p], up[p], down[p]) => Waits(st[p], <<>>, <<>>)
  <2> SUFFICES ASSUME hist' = {}, Waits(st[p], up[p], down[p])
               PROVE  Waits(st[p], <<>>, <<>>)
    OBVIOUS
  <2>1. up[p] = <<>> /\ \A i \in DOMAIN down[p] : down[p][i].t = "tip"
    BY <1>2
  <2>2. ~AsksHdr(up[p]) /\ ~AsksBlk(up[p]) /\ ~EndsHdr(down[p]) /\ ~EndsBlk(down[p])
    BY <2>1 DEF AsksHdr, AsksBlk, EndsHdr, EndsBlk
  <2>3. QED  BY <2>2 DEF Waits
<1>6. head[p] >= head[p]
  BY <1>1
<1>7. QED  BY <1>2, <1>3, <1>4, <1>5, <1>6, PeerStep

LEMMA ElapseInv ==
    ASSUME IInv, NEW p \in Peers, Elapse(p)
    PROVE  IInv'
<1>1. /\ late' = late \ {p}
      /\ UNCHANGED <<chain, head, st, up, down, apart, faults, hist>>
  BY DEF Elapse
<1>2. ChainInv /\ \A q \in Peers : head'[q] >= head[q] /\ head[q] \in Nat /\ head'[q] \in Nat
  BY <1>1, HeadsAreNat DEF IInv
<1>3. ChainInv' /\ Extends(chain, chain')
  BY <1>1, <1>2, ChainStays
<1>4. ASSUME NEW q \in Peers PROVE PeerInv(q)'
  <2>1. PeerInv(q)
    BY DEF IInv
  <2>2. QED  BY <1>1, <1>2, <1>3, <2>1, OthersKeep
<1>5. Shape'
  BY <1>1 DEF IInv, Shape
<1>6. QED  BY <1>3, <1>4, <1>5 DEF IInv

-----------------------------------------------------------------------------
(* The invariant and the theorems.                                         *)

LEMMA InitInv == Init => IInv
<1> SUFFICES ASSUME Init PROVE IInv
  OBVIOUS
<1>1. ASSUME NEW p \in Peers
      PROVE  /\ head[p] = 0 /\ st[p] = Fresh /\ up[p] = <<>> /\ down[p] = <<>>
             /\ p \notin apart
  BY DEF Init
<1>2. ASSUME NEW p \in Peers PROVE Fresh \in Records(p, 0)
  <2>1. NoCup \in Cups /\ NoFork \in Forks
    BY DEF NoCup, NoFork, Cups, Forks, Hashes, Genesis
  <2>2. <<>> \in Seq(Owned(p, 0)) /\ Len(<<>>) = 0
    BY EmptySeq
  <2>3. QED  BY <2>1, <2>2, CapsAreNat DEF Fresh, Records
<1>3. ASSUME NEW p \in Peers PROVE PeerInv(p)
  <2>1. Sound(p, head[p], st[p], up[p], down[p])
    <3>1. 0 \in 0..MaxH[p]
      BY CapsAreNat
    <3>2. <<>> \in Seq(Requests(p, 0)) /\ <<>> \in Seq(Answers(p, 0))
      BY EmptySeq
    <3>3. Sound(p, 0, Fresh, <<>>, <<>>)
      BY <1>2, <3>1, <3>2 DEF Sound
    <3>4. QED  BY <1>1, <3>3
  <2>2. Fresh.wait = <<>> /\ Fresh.from = 0 /\ ~Fresh.cup.on
    BY DEF Fresh, NoCup
  <2>3. QED  BY <1>1, <2>1, <2>2 DEF PeerInv, Waits
<1>4. Shape
  BY DEF Init, Shape
<1>5. ChainInv
  BY EmptySeq DEF Init, ChainInv
<1>6. QED  BY <1>3, <1>4, <1>5 DEF IInv

LEMMA StepInv == IInv /\ [Next]_vars => IInv'
<1> SUFFICES ASSUME IInv, [Next]_vars PROVE IInv'
  OBVIOUS
<1>1. CASE UNCHANGED vars
  BY <1>1 DEF vars, IInv, Shape, ChainInv, PeerInv, Sound, Begins, Differs, Waits,
              AsksHdr, AsksBlk, EndsHdr, EndsBlk
<1>2. CASE Next
  <2>1. PICK p \in Peers : \/ Receive(p) \/ Elapse(p) \/ Serve(p) \/ Refuse(p)
                           \/ Announce(p) \/ Grow(p) \/ Break(p)
    BY <1>2 DEF Next
  <2>2. CASE Receive(p)
    BY <2>2, OnTipInv, DropLiveInv, OnHdrBatchInv, OnBlkBatchInv, OnCupChunkInv,
       OnCupDoneInv, OnNackInv DEF Receive
  <2>3. CASE Elapse(p)
    BY <2>3, ElapseInv
  <2>4. CASE Serve(p) \/ Refuse(p)
    BY <2>4, ServeInv
  <2>5. CASE Announce(p)
    BY <2>5, AnnounceInv
  <2>6. CASE Grow(p)
    BY <2>6, GrowInv
  <2>7. CASE Break(p)
    BY <2>7, BreakInv
  <2>8. QED  BY <2>1, <2>2, <2>3, <2>4, <2>5, <2>6, <2>7
<1>3. QED  BY <1>1, <1>2

\* A chain that begins as a peer's does is what OneBranch calls its blocks.
LEMMA BeginningIsBlocks ==
    ASSUME NEW c \in Seq(Hashes), NEW p, NEW n, Begins(c, p, n)
    PROVE  Len(c) <= n /\ c = Blocks(p, 1, Len(c))
<1> PICK b : b = [i \in 1..Len(c) |-> Hash(p, i)]  OBVIOUS
<1>1. Len(c) \in Nat /\ c = [i \in 1..Len(c) |-> c[i]]
  BY LenProperties
<1>2. c = b
  BY <1>1 DEF Begins
<1>3. Blocks(p, 1, Len(c)) = b
  <2>1. Len(c) + 1 - 1 = Len(c) /\ \A i \in 1..Len(c) : 1 + i - 1 = i
    BY <1>1
  <2>2. QED  BY <2>1 DEF Blocks
<1>4. QED  BY <1>2, <1>3 DEF Begins

LEMMA InvImpliesOneBranch == IInv => OneBranch
BY BeginningIsBlocks DEF IInv, ChainInv, OneBranch

LEMMA InvImpliesApart == IInv => ApartOnlyForked
<1> SUFFICES ASSUME IInv, NEW p \in apart
             PROVE  \E i \in DOMAIN chain : i <= head[p] /\ chain[i] # Hash(p, i)
  BY DEF ApartOnlyForked
<1>1. p \in Peers /\ PeerInv(p) /\ DOMAIN chain = 1..Len(chain)
  BY LenProperties DEF IInv, Shape, ChainInv
<1>2. QED  BY <1>1 DEF PeerInv, Differs

LEMMA InvImpliesWaits == IInv => WaitsForSomething
<1> SUFFICES ASSUME IInv, hist = {}, NEW p \in Peers \ apart
             PROVE  /\ st[p].wait # <<>> =>
                         \/ \E i \in DOMAIN up[p] : up[p][i].t = "blk_req"
                         \/ \E i \in DOMAIN down[p] : down[p][i].t \in {"blks", "nack"}
                    /\ st[p].from # 0 =>
                         \/ \E i \in DOMAIN up[p] : up[p][i].t = "hdr_req"
                         \/ \E i \in DOMAIN down[p] : down[p][i].t \in {"hdrs", "nack"}
  BY DEF WaitsForSomething
<1>1. Waits(st[p], up[p], down[p])
  BY DEF IInv, PeerInv
<1>2. QED  BY <1>1 DEF Waits, AsksHdr, AsksBlk, EndsHdr, EndsBlk

LEMMA InvImpliesType == IInv => TypeOK
<1> SUFFICES ASSUME IInv PROVE TypeOK
  OBVIOUS
<1>1. ASSUME NEW i \in DOMAIN chain PROVE chain[i] \in {<<i, 0>>, <<i, 1>>}
  <2>1. i \in 1..Len(chain) /\ chain # <<>>
    BY <1>1, LenProperties DEF IInv, ChainInv
  <2>2. \E q \in Peers : chain[i] = Hash(q, i)
    BY <2>1 DEF IInv, ChainInv, Begins
  <2>3. QED  BY <2>2 DEF Hash
<1>2. ASSUME NEW p \in Peers
      PROVE  /\ head[p] \in 0..MaxH[p]
             /\ st[p].tip \in 0..MaxH[p] /\ st[p].from \in 0..MaxH[p]
             /\ st[p].inHdr \in 0..InfCap /\ st[p].inBlk \in 0..InfCap
             /\ Len(st[p].wait) <= BlkCap
             /\ st[p].cup.on => /\ p \notin late
                                /\ st[p].cup.next \in st[p].cup.from..(st[p].cup.to + 1)
  <2>1. head[p] \in 0..MaxH[p] /\ st[p] \in Records(p, head[p]) /\ MaxH[p] \in Nat
        /\ (st[p].cup.on => p \notin late)
    BY CapsAreNat DEF IInv, PeerInv, Sound
  <2>2. /\ st[p].tip \in 0..head[p] /\ st[p].from \in 0..head[p] /\ st[p].cup \in Cups
        /\ st[p].inHdr \in 0..InfCap /\ st[p].inBlk \in 0..InfCap
        /\ Len(st[p].wait) <= BlkCap
    BY <2>1 DEF Records
  <2>3. st[p].tip \in 0..MaxH[p] /\ st[p].from \in 0..MaxH[p]
    BY <2>1, <2>2
  <2>4. QED  BY <2>1, <2>2, <2>3 DEF Cups
<1>3. late \subseteq Peers /\ apart \subseteq Peers /\ hist \subseteq {"lost", "dropped"}
  BY DEF IInv, Shape
<1>4. QED  BY <1>1, <1>2, <1>3 DEF TypeOK

\* The record of a peer, the requests in flight and the catch-up window keep
\* their bounds, and no catch-up runs during its back-off (sync_live.rs).
THEOREM TypeCorrect == Spec => []TypeOK
<1>1. Init => IInv
  BY InitInv
<1>2. IInv /\ [Next]_vars => IInv'
  BY StepInv
<1>3. IInv => TypeOK
  BY InvImpliesType
<1>4. QED  BY <1>1, <1>2, <1>3, PTL DEF Spec

\* Whatever batches, chunks, refusals and reconnects are mixed, the chain that
\* apply_blk builds is the beginning of one peer's chain.
THEOREM FollowsOneBranch == Spec => []OneBranch
<1>1. Init => IInv
  BY InitInv
<1>2. IInv /\ [Next]_vars => IInv'
  BY StepInv
<1>3. IInv => OneBranch
  BY InvImpliesOneBranch
<1>4. QED  BY <1>1, <1>2, <1>3, PTL DEF Spec

\* on_tip and on_hdr_batch disconnect a peer for divergence only when a block
\* below both tips really differs, however stale the tip or the headers are.
THEOREM DisconnectsOnlyForked == Spec => []ApartOnlyForked
<1>1. Init => IInv
  BY InitInv
<1>2. IInv /\ [Next]_vars => IInv'
  BY StepInv
<1>3. IInv => ApartOnlyForked
  BY InvImpliesApart
<1>4. QED  BY <1>1, <1>2, <1>3, PTL DEF Spec

\* While no answer is lost or dropped, the marks that keep ask_hdr and ask_blk
\* from asking again stand for a request or an answer under way.
THEOREM NeverWaitsInVain == Spec => []WaitsForSomething
<1>1. Init => IInv
  BY InitInv
<1>2. IInv /\ [Next]_vars => IInv'
  BY StepInv
<1>3. IInv => WaitsForSomething
  BY InvImpliesWaits
<1>4. QED  BY <1>1, <1>2, <1>3, PTL DEF Spec

=============================================================================
