--------------------------- MODULE StorageProofs ---------------------------
(***************************************************************************)
(* Proofs about Storage: every variable keeps its shape, and the files can *)
(* be loaded into the chain at every moment but inside an append.          *)
(*                                                                         *)
(* The invariant has two halves.  The files hold the chain: epoch by epoch *)
(* up to the last line written, with a manifest that knows of them and a   *)
(* summary of a block of theirs (DiskInv).  And the threads agree on what  *)
(* is on its way there: the blocks in the channel, the seal loop's block   *)
(* on top of its copy, the commit that may still undo its own, and the     *)
(* writer's answer to a flush (ThreadInv).  What makes the next file open  *)
(* at the right height is that the last block of an epoch is on disk       *)
(* before the next one is sealed: an autosnapshot falls on every one, and  *)
(* the seal loop goes on only when its flush was answered.                 *)
(***************************************************************************)
EXTENDS Storage, FiniteSetTheorems, SequenceTheorems, WellFoundedInduction, TLAPS

-----------------------------------------------------------------------------
(* Heights and epoch files.                                                *)

\* The blocks below those of epoch e, and the heights that end an epoch.
Base(e)     == e * EpochSpan
Boundary(n) == n % EpochSpan = 0

\* The heights of an epoch's blocks lie between its base and the next one.
LEMMA EpochBounds ==
    ASSUME NEW h \in Nat, h >= 1
    PROVE  /\ EpochOf(h) \in Nat
           /\ Base(EpochOf(h)) < h
           /\ h <= Base(EpochOf(h)) + EpochSpan
<1>1. EpochSpan \in Nat /\ EpochSpan > 0
  BY StorageAssumption
<1>2. PICK g \in Nat : g = h - 1
  OBVIOUS
<1>3. PICK q \in Int : q = g \div EpochSpan
  BY <1>1
<1>4. q \in Nat /\ q * EpochSpan <= g /\ g < q * EpochSpan + EpochSpan
  BY <1>1, <1>3, Z3
<1>5. QED  BY <1>1, <1>2, <1>3, <1>4 DEF EpochOf, Base

\* Bases are natural numbers, and grow by an epoch at least.
LEMMA BaseGrows ==
    /\ Base(0) = 0
    /\ \A e \in Nat : Base(e) \in Nat /\ Base(e + 1) = Base(e) + EpochSpan
    /\ \A e, f \in Nat : e < f => Base(e) + EpochSpan <= Base(f)
<1>1. EpochSpan \in Nat /\ EpochSpan > 0
  BY StorageAssumption
<1>2. ASSUME NEW e \in Nat, NEW f \in Nat, e < f PROVE Base(e) + EpochSpan <= Base(f)
  <2>1. PICK d \in Nat : f = e + 1 + d
    <3>1. f - e - 1 \in Nat
      BY <1>2
    <3>2. QED  BY <3>1
  <2>2. d * EpochSpan \in Nat
    BY <1>1
  <2>3. (e + 1 + d) * EpochSpan = e * EpochSpan + EpochSpan + d * EpochSpan
    BY <1>1
  <2>4. e * EpochSpan \in Nat
    BY <1>1
  <2>5. QED  BY <1>1, <2>1, <2>2, <2>3, <2>4 DEF Base
<1>3. ASSUME NEW e \in Nat PROVE Base(e) \in Nat /\ Base(e + 1) = Base(e) + EpochSpan
  BY <1>1 DEF Base
<1>4. QED  BY <1>1, <1>2, <1>3 DEF Base

\* A base is a boundary, and an autosnapshot falls on each of them.
LEMMA BoundaryFacts ==
    /\ \A e \in Nat : Boundary(Base(e))
    /\ \A n \in Nat : n > 0 /\ Boundary(n) => SnapHit(n)
<1>1. EpochSpan \in Nat /\ EpochSpan > 0 /\ SnapEvery \in Nat /\ SnapEvery > 0
      /\ EpochSpan % SnapEvery = 0
  BY StorageAssumption
<1>2. ASSUME NEW e \in Nat PROVE Boundary(Base(e))
  <2>1. (e * EpochSpan) % EpochSpan = 0
    BY <1>1, Z3
  <2>2. QED  BY <2>1 DEF Boundary, Base
<1>3. ASSUME NEW n \in Nat, n > 0, Boundary(n) PROVE SnapHit(n)
  <2>1. PICK p \in Int : EpochSpan = p * SnapEvery
    BY <1>1, Z3
  <2>2. PICK q \in Int : n = q * EpochSpan
    BY <1>1, <1>3, Z3 DEF Boundary
  <2>3. n = (q * p) * SnapEvery
    BY <1>1, <2>1, <2>2, Z3
  <2>4. PICK r \in Int : r = q * p
    OBVIOUS
  <2>5. (r * SnapEvery) % SnapEvery = 0
    BY <1>1, Z3
  <2>6. QED  BY <1>3, <2>3, <2>4, <2>5 DEF SnapHit
<1>4. QED  BY <1>2, <1>3

\* The epochs of the heights a chain may have.
LEMMA EpochRange ==
    /\ IsFiniteSet(Epochs) /\ Epochs \subseteq Nat
    /\ Cardinality(Epochs) \in Nat /\ Cardinality(Epochs) >= 1
    /\ \A i \in 1..Cardinality(Epochs) : i - 1 \in Epochs
    /\ MaxHeight <= Base(Cardinality(Epochs))
    /\ \A h \in 1..MaxHeight : EpochOf(h) \in Epochs
<1>1. MaxHeight \in Nat /\ MaxHeight >= 1 /\ EpochSpan \in Nat /\ EpochSpan > 0
  BY StorageAssumption
<1>2. PICK m \in Nat : m = EpochOf(MaxHeight)
  BY <1>1, EpochBounds
<1>3. Epochs = 0..m
  BY <1>2 DEF Epochs
<1>4. IsFiniteSet(Epochs) /\ Cardinality(Epochs) = m + 1
  BY <1>3, FS_Interval
<1>5. MaxHeight <= Base(m + 1)
  BY <1>1, <1>2, EpochBounds, BaseGrows
<1>6. ASSUME NEW h \in 1..MaxHeight PROVE EpochOf(h) \in Epochs
  <2>1. EpochOf(h) \in Nat /\ Base(EpochOf(h)) < h /\ MaxHeight <= Base(m) + EpochSpan
    BY <1>1, <1>2, EpochBounds
  <2>2. ~(m < EpochOf(h))
    <3>1. SUFFICES ASSUME m < EpochOf(h) PROVE FALSE
      OBVIOUS
    <3>2. Base(m) + EpochSpan <= Base(EpochOf(h))
      BY <2>1, <3>1, BaseGrows
    <3>3. Base(m) \in Nat /\ Base(EpochOf(h)) \in Nat
      BY <2>1, BaseGrows
    <3>4. QED  BY <1>1, <2>1, <3>2, <3>3
  <2>3. QED  BY <1>3, <2>1, <2>2
<1>7. QED  BY <1>3, <1>4, <1>5, <1>6

-----------------------------------------------------------------------------
(* Induction on numbers, with sets of numbers for predicates.              *)

\* Every set of numbers that is not empty has a least element.
LEMMA LeastNumber ==
    ASSUME NEW T \in SUBSET Nat, T # {}
    PROVE  \E n \in T : \A m \in T : n <= m
<1> DEFINE R == OpToRel(<, Nat)
<1>1. IsWellFoundedOn(R, Nat)
  BY NatLessThanWellFounded
<1>2. \A i, j \in Nat : <<i, j>> \in R <=> i < j
  BY DEF OpToRel
<1> HIDE DEF R
<1>3. PICK x \in T : \A y \in T : ~ (<<y, x>> \in R)
  BY <1>1, WFMin
<1>4. ASSUME NEW y \in T PROVE x <= y
  <2>1. ~(y < x) /\ x \in Nat /\ y \in Nat
    BY <1>2, <1>3
  <2>2. QED  BY <2>1
<1>5. QED  BY <1>4

\* A set with 0 and the successor of each of its elements is all of Nat.
LEMMA Induction ==
    ASSUME NEW S \in SUBSET Nat, 0 \in S, \A n \in S : n + 1 \in S
    PROVE  S = Nat
<1> SUFFICES ASSUME S # Nat PROVE FALSE
  OBVIOUS
<1>1. Nat \ S # {}
  OBVIOUS
<1>2. PICK n \in Nat \ S : \A m \in Nat \ S : n <= m
  BY <1>1, LeastNumber
<1>3. n # 0
  OBVIOUS
<1>4. n - 1 \in Nat /\ n - 1 \notin Nat \ S
  BY <1>2, <1>3
<1>5. n \in S
  BY <1>4
<1>6. QED  BY <1>5

-----------------------------------------------------------------------------
(* What FlattenSeq computes.                                               *)

FlatStep(s, f, i) == IF i = 1 THEN s[i] ELSE f[i - 1] \o s[i]

\* The function that FlattenSeq defines by recursion exists.
LEMMA FlattenExists ==
    ASSUME NEW s
    PROVE  \A k \in Nat : \E f : f = [i \in 1..k |-> FlatStep(s, f, i)]
<1> DEFINE S == {k \in Nat : \E f : f = [i \in 1..k |-> FlatStep(s, f, i)]}
<1>1. 0 \in S
  <2> PICK f : f = [i \in 1..0 |-> s]  OBVIOUS
  <2>1. f = [i \in 1..0 |-> FlatStep(s, f, i)]
    OBVIOUS
  <2>2. QED  BY <2>1
<1>2. ASSUME NEW k \in S PROVE k + 1 \in S
  <2>1. PICK f : f = [i \in 1..k |-> FlatStep(s, f, i)]
    OBVIOUS
  <2> PICK g : g = [i \in 1..(k + 1) |-> FlatStep(s, f, i)]
    OBVIOUS
  <2>2. k \in Nat
    OBVIOUS
  <2>3. \A i \in 1..k : g[i] = f[i]
    BY <2>1, <2>2
  <2>4. ASSUME NEW i \in 1..(k + 1)
        PROVE  FlatStep(s, f, i) = FlatStep(s, g, i)
    <3>1. i # 1 => i - 1 \in 1..k
      BY <2>2
    <3>2. QED  BY <2>3, <3>1 DEF FlatStep
  <2>5. g = [i \in 1..(k + 1) |-> FlatStep(s, g, i)]
    BY <2>4
  <2>6. QED  BY <2>2, <2>5
<1> HIDE DEF S
<1>3. S = Nat
  <2>1. S \in SUBSET Nat
    BY DEF S
  <2>2. QED  BY <1>1, <1>2, <2>1, Induction
<1>4. QED  BY <1>3 DEF S

\* The concatenation of sequences, one after the other.
LEMMA FlattenSteps ==
    ASSUME NEW B, NEW s \in Seq(Seq(B)), Len(s) >= 1
    PROVE  \E f : /\ FlattenSeq(s) = f[Len(s)]
                  /\ f[1] = s[1]
                  /\ \A i \in 1..Len(s) : i # 1 => f[i] = f[i - 1] \o s[i]
<1> PICK l : l = Len(s)  OBVIOUS
<1>1. l \in Nat /\ l >= 1
  BY LenProperties
<1> DEFINE f == CHOOSE f : f = [i \in 1..l |-> FlatStep(s, f, i)]
<1>2. f = [i \in 1..l |-> FlatStep(s, f, i)]
  BY <1>1, FlattenExists
<1>3. FlattenSeq(s) = f[l]
  BY <1>1 DEF FlattenSeq, FlatStep
<1> HIDE DEF f
<1>4. \A i \in 1..l : f[i] = FlatStep(s, f, i)
  BY <1>2
<1>5. f[1] = s[1] /\ \A i \in 1..l : i # 1 => f[i] = f[i - 1] \o s[i]
  <2>1. f[1] = FlatStep(s, f, 1)
    BY <1>1, <1>4
  <2>2. f[1] = s[1]
    BY <2>1 DEF FlatStep
  <2>3. \A i \in 1..l : i # 1 => FlatStep(s, f, i) = f[i - 1] \o s[i]
    BY DEF FlatStep
  <2>4. QED  BY <1>4, <2>2, <2>3
<1>6. QED  BY <1>3, <1>5

\* The concatenation is a sequence over the same elements.
LEMMA FlattenType ==
    ASSUME NEW B, NEW s \in Seq(Seq(B))
    PROVE  FlattenSeq(s) \in Seq(B)
<1> PICK l : l = Len(s)  OBVIOUS
<1>1. l \in Nat /\ \A i \in 1..l : s[i] \in Seq(B)
  BY LenProperties, ElementOfSeq
<1>2. CASE l = 0
  <2>1. s = <<>> /\ FlattenSeq(s) = s
    BY <1>2, EmptySeq DEF FlattenSeq
  <2>2. QED  BY <2>1, EmptySeq
<1>3. CASE l # 0
  <2>1. l >= 1
    BY <1>1, <1>3
  <2>2. PICK f : /\ FlattenSeq(s) = f[l]
                 /\ f[1] = s[1]
                 /\ \A i \in 1..l : i # 1 => f[i] = f[i - 1] \o s[i]
    BY <2>1, FlattenSteps
  <2> DEFINE S == {n \in Nat : n \in 1..l => f[n] \in Seq(B)}
  <2>3. 0 \in S
    OBVIOUS
  <2>4. ASSUME NEW n \in S PROVE n + 1 \in S
    <3> SUFFICES ASSUME n + 1 \in 1..l PROVE f[n + 1] \in Seq(B)
      OBVIOUS
    <3>1. CASE n = 0
      BY <1>1, <2>2, <3>1
    <3>2. CASE n # 0
      <4>1. n \in 1..l /\ n + 1 # 1 /\ (n + 1) - 1 = n
        BY <1>1, <3>2
      <4>2. f[n + 1] = f[n] \o s[n + 1]
        BY <2>2, <4>1
      <4>3. QED  BY <1>1, <4>1, <4>2, ConcatProperties
    <3>3. QED  BY <3>1, <3>2
  <2> HIDE DEF S
  <2>5. S = Nat
    <3>1. S \in SUBSET Nat
      BY DEF S
    <3>2. QED  BY <2>3, <2>4, <3>1, Induction
  <2>6. QED  BY <1>1, <2>1, <2>2, <2>5 DEF S
<1>4. QED  BY <1>2, <1>3

\* How many of the first n blocks are those of epoch e.
Fill(e, n) == IF n <= Base(e) THEN 0
              ELSE IF n <= Base(e) + EpochSpan THEN n - Base(e) ELSE EpochSpan

\* Files that hold the blocks of a chain, epoch by epoch, up to a height
\* make that part of the chain.
LEMMA FlattenChain ==
    ASSUME NEW B, NEW c \in Seq(B), NEW n \in Nat, n <= Len(c),
           NEW s \in Seq(Seq(B)), Len(s) >= 1, n <= Base(Len(s)),
           \A i \in 1..Len(s) : /\ Len(s[i]) = Fill(i - 1, n)
                                /\ \A j \in 1..Len(s[i]) : s[i][j] = c[Base(i - 1) + j]
    PROVE  /\ Len(FlattenSeq(s)) = n
           /\ \A j \in 1..n : FlattenSeq(s)[j] = c[j]
<1> PICK l : l = Len(s)  OBVIOUS
<1>1. l \in Nat /\ l >= 1 /\ \A i \in 1..l : s[i] \in Seq(B)
  BY LenProperties, ElementOfSeq
<1>2. EpochSpan \in Nat /\ EpochSpan > 0
  BY StorageAssumption
<1>3. PICK f : /\ FlattenSeq(s) = f[l]
               /\ f[1] = s[1]
               /\ \A i \in 1..l : i # 1 => f[i] = f[i - 1] \o s[i]
  BY FlattenSteps
<1> DEFINE Upto(k) == IF n <= Base(k) THEN n ELSE Base(k)
           S == {k \in Nat : k \in 1..l => /\ f[k] \in Seq(B)
                                           /\ Len(f[k]) = Upto(k)
                                           /\ \A j \in 1..Len(f[k]) : f[k][j] = c[j]}
<1>4. 0 \in S
  OBVIOUS
<1>5. ASSUME NEW k \in S PROVE k + 1 \in S
  <2> SUFFICES ASSUME k + 1 \in 1..l
               PROVE  /\ f[k + 1] \in Seq(B)
                      /\ Len(f[k + 1]) = Upto(k + 1)
                      /\ \A j \in 1..Len(f[k + 1]) : f[k + 1][j] = c[j]
    OBVIOUS
  <2>1. Base(0) = 0 /\ Base(k) \in Nat /\ Base(k + 1) = Base(k) + EpochSpan
    BY BaseGrows
  <2>2. Len(s[k + 1]) = Fill(k, n) /\ \A j \in 1..Len(s[k + 1]) : s[k + 1][j] = c[Base(k) + j]
    <3>1. (k + 1) - 1 = k
      OBVIOUS
    <3>2. QED  BY <3>1
  <2>3. CASE k = 0
    <3>1. f[k + 1] = s[k + 1]
      BY <1>3, <2>3
    <3>2. Fill(k, n) = Upto(k + 1) /\ \A j \in 1..Len(s[k + 1]) : Base(k) + j = j
      BY <1>2, <2>1, <2>3, <2>2 DEF Fill
    <3>3. QED  BY <1>1, <2>2, <3>1, <3>2
  <2>4. CASE k # 0
    <3>1. k \in 1..l /\ k + 1 # 1 /\ (k + 1) - 1 = k
      BY <1>1, <2>4
    <3>2. f[k + 1] = f[k] \o s[k + 1]
      BY <1>3, <3>1
    <3>3. f[k] \in Seq(B) /\ Len(f[k]) = Upto(k) /\ \A j \in 1..Len(f[k]) : f[k][j] = c[j]
      BY <3>1
    <3>4. s[k + 1] \in Seq(B)
      BY <1>1
    <3>5. PICK fk, sk, r : fk = f[k] /\ sk = s[k + 1] /\ r = f[k + 1]
      OBVIOUS
    <3>6. /\ r \in Seq(B) /\ Len(r) = Len(fk) + Len(sk)
          /\ \A i \in 1..(Len(fk) + Len(sk)) : r[i] = IF i <= Len(fk) THEN fk[i] ELSE sk[i - Len(fk)]
      <4>1. /\ f[k] \o s[k + 1] \in Seq(B) /\ Len(f[k] \o s[k + 1]) = Len(f[k]) + Len(s[k + 1])
            /\ \A i \in 1..(Len(f[k]) + Len(s[k + 1])) :
                 (f[k] \o s[k + 1])[i] = IF i <= Len(f[k]) THEN f[k][i] ELSE s[k + 1][i - Len(f[k])]
        BY <3>3, <3>4, ConcatProperties
      <4>2. r = f[k] \o s[k + 1]
        BY <3>2, <3>5
      <4>3. QED  BY <3>5, <4>1, <4>2
    <3>7. Upto(k) + Fill(k, n) = Upto(k + 1) /\ (Fill(k, n) # 0 => Upto(k) = Base(k))
      BY <1>2, <2>1 DEF Fill
    <3>8. Len(r) = Upto(k + 1)
      BY <2>2, <3>3, <3>5, <3>6, <3>7
    <3>9. ASSUME NEW j \in 1..Len(r) PROVE r[j] = c[j]
      <4>1. Len(fk) \in Nat /\ Len(sk) \in Nat
        BY <3>3, <3>4, <3>5, LenProperties
      <4>2. CASE j <= Len(fk)
        <5>1. j \in 1..Len(fk) /\ r[j] = fk[j]
          BY <3>6, <4>1, <4>2
        <5>2. QED  BY <3>3, <3>5, <5>1
      <4>3. CASE ~(j <= Len(fk))
        <5>1. j - Len(fk) \in 1..Len(sk) /\ r[j] = sk[j - Len(fk)]
          BY <3>6, <4>1, <4>3
        <5>2. Len(fk) = Base(k)
          BY <2>2, <3>3, <3>5, <3>7, <5>1
        <5>3. sk[j - Len(fk)] = c[Base(k) + (j - Len(fk))]
          BY <2>2, <3>5, <5>1
        <5>4. Base(k) + (j - Len(fk)) = j
          BY <2>1, <5>2
        <5>5. QED  BY <5>1, <5>3, <5>4
      <4>4. QED  BY <4>2, <4>3
    <3>10. QED  BY <3>5, <3>6, <3>8, <3>9
  <2>5. QED  BY <2>3, <2>4
<1>6. Upto(l) = n
  OBVIOUS
<1> HIDE DEF S, Upto
<1>7. S = Nat
  <2>1. S \in SUBSET Nat
    BY DEF S
  <2>2. QED  BY <1>4, <1>5, <2>1, Induction
<1>8. QED  BY <1>1, <1>3, <1>6, <1>7 DEF S

-----------------------------------------------------------------------------
(* Types.                                                                  *)

\* Chains of linked blocks, as the ones in memory and all their copies are.
Chains == {c \in Seq(Blocks) : Linked(c)}

Seals == {s \in [pc : {"idle", "turn", "enqueue", "recover", "save", "flush", "flushing",
                       "summary", "saved", "failed"},
                 blk : Blocks, bak : Chains] : s.pc = "enqueue" => s.blk.h >= 1}

Commits == [pc : {"idle", "sync", "append", "summary", "monolith", "saved", "failed"},
            who : {"none", "http", "batch", "relay", "stop"}, bak : Chains]

Lates == [on : BOOLEAN, bak : Chains]

Stops == {"no", "flush", "flushing", "shutdown", "joining", "save", "saving", "off"}

Commands == {c \in [op : {"append", "flush", "shutdown"}, blk : Blocks] :
               c.op = "append" => c.blk.h >= 1}

Manifests == [h : 0..MaxHeight, tip : 0..MaxBlocks, rows : SUBSET Epochs]

Summaries == [kind : {"none", "inline", "epochs"}, h : 0..MaxHeight, st : 0..MaxBlocks,
              blocks : Chains]

Apps == {x \in [pc : {"none", "line", "manifest"}, blk : Blocks, man : Manifests] :
           x.pc # "none" => x.blk.h >= 1}

Disks == [files : [Epochs -> Seq(Blocks)], man : Manifests, sum : Summaries]

Threads == /\ chain \in Chains /\ seal \in Seals /\ commit \in Commits /\ late \in Lates
           /\ stop \in Stops /\ mutex \in {"free", "seal", "stop"}
           /\ reply \in {"none", "ok", "error"}
           /\ queue \in Seq(Commands) /\ Len(queue) <= WriterCap
           /\ writer \in {"up", "failed", "gone"}
           /\ app \in [Appenders -> Apps]

Rest == /\ ready \in BOOLEAN /\ up \in BOOLEAN
        /\ born \in 0..MaxBlocks /\ marks \in 0..MaxMarks /\ faults \in 0..MaxFaults
        /\ acked \subseteq Blocks
        /\ harm \subseteq {"raced", "torn", "hollow", "late", "undone"}

TypeInv == Threads /\ disk \in Disks /\ Rest

\* The bounds are numbers.
LEMMA Numbers ==
    /\ EpochSpan \in Nat /\ EpochSpan > 0 /\ SnapEvery \in Nat /\ SnapEvery > 0
    /\ WriterCap \in Nat /\ WriterCap > 0 /\ MaxHeight \in Nat /\ MaxHeight > 0
    /\ MaxBlocks \in Nat /\ MaxBlocks > 0 /\ MaxMarks \in Nat /\ MaxFaults \in Nat
  BY StorageAssumption

\* The block that stands for none is a block.
LEMMA NoBlockType == NoBlock \in Blocks
  BY Numbers DEF NoBlock, Blocks

\* The heights of a chain's blocks count up from 1.
LEMMA ChainFacts ==
    ASSUME NEW c \in Chains
    PROVE  /\ Len(c) \in 0..MaxHeight
           /\ \A i \in 1..Len(c) : /\ c[i] \in Blocks /\ c[i].h = i
                                   /\ c[i].prev = (IF i = 1 THEN 0 ELSE c[i - 1].id)
           /\ TipOf(c) \in Blocks
           /\ c = <<>> => Len(c) = 0 /\ TipOf(c) = NoBlock
           /\ c # <<>> => Len(c) >= 1 /\ TipOf(c) = c[Len(c)]
<1>1. c \in Seq(Blocks) /\ Linked(c)
  BY DEF Chains
<1>2. Len(c) \in Nat /\ DOMAIN c = 1..Len(c) /\ \A i \in 1..Len(c) : c[i] \in Blocks
  BY <1>1, LenProperties, ElementOfSeq
<1>3. \A i \in 1..Len(c) : c[i].h = i /\ c[i].prev = (IF i = 1 THEN 0 ELSE c[i - 1].id)
  BY <1>1, <1>2 DEF Linked
<1>4. Len(c) \in 0..MaxHeight
  <2>1. CASE Len(c) = 0
    BY <2>1, Numbers
  <2>2. CASE Len(c) # 0
    <3>1. Len(c) \in 1..Len(c)
      BY <1>2, <2>2
    <3>2. c[Len(c)] \in Blocks /\ c[Len(c)].h = Len(c)
      BY <1>2, <1>3, <3>1
    <3>3. QED  BY <3>2 DEF Blocks
  <2>3. QED  BY <2>1, <2>2
<1>5. c = <<>> => Len(c) = 0 /\ TipOf(c) = NoBlock
  BY DEF TipOf
<1>6. c # <<>> => Len(c) >= 1 /\ TipOf(c) = c[Len(c)]
  BY <1>1, <1>2, EmptySeq DEF TipOf, Last
<1>7. TipOf(c) \in Blocks
  <2>1. CASE c = <<>>
    BY <1>5, <2>1, NoBlockType
  <2>2. CASE c # <<>>
    <3>1. Len(c) \in 1..Len(c)
      BY <1>2, <1>6, <2>2
    <3>2. QED  BY <1>2, <1>6, <2>2, <3>1
  <2>3. QED  BY <2>1, <2>2
<1>8. QED  BY <1>2, <1>3, <1>4, <1>5, <1>6, <1>7

\* The empty chain is one of linked blocks.
LEMMA EmptyChain == <<>> \in Chains
<1>1. <<>> \in Seq(Blocks) /\ DOMAIN <<>> = {}
  BY EmptySeq
<1>2. QED  BY <1>1 DEF Chains, Linked

\* A new block continues the chain.
LEMMA GrowChain ==
    ASSUME chain \in Chains, born \in 0..MaxBlocks, Len(chain) < MaxHeight, born < MaxBlocks
    PROVE  /\ NewBlock \in Blocks /\ NewBlock.h = Len(chain) + 1 /\ NewBlock.id = born + 1
           /\ Append(chain, NewBlock) \in Chains
           /\ Len(Append(chain, NewBlock)) = Len(chain) + 1
           /\ \A i \in 1..Len(chain) : Append(chain, NewBlock)[i] = chain[i]
           /\ Append(chain, NewBlock)[Len(chain) + 1] = NewBlock
<1> PICK n : n = Len(chain)  OBVIOUS
<1>1. n \in Nat /\ n < MaxHeight /\ \A i \in 1..n : chain[i] \in Blocks /\ chain[i].h = i
      /\ chain[i].prev = (IF i = 1 THEN 0 ELSE chain[i - 1].id)
  BY ChainFacts, Numbers
<1>2. TipOf(chain) \in Blocks /\ TipOf(chain).id \in 0..MaxBlocks
  BY ChainFacts DEF Blocks
<1>3. NewBlock \in Blocks /\ NewBlock.h = n + 1 /\ NewBlock.id = born + 1
      /\ NewBlock.prev = TipOf(chain).id
  <2>1. n + 1 \in 0..MaxHeight /\ born + 1 \in 0..MaxBlocks
    BY <1>1, Numbers
  <2>2. QED  BY <1>2, <2>1 DEF NewBlock, Blocks
<1>4. PICK b : b = NewBlock  OBVIOUS
<1>5. PICK d : d = Append(chain, b)  OBVIOUS
<1>6. chain \in Seq(Blocks)
  BY DEF Chains
<1>7. d \in Seq(Blocks) /\ Len(d) = n + 1 /\ d[n + 1] = b /\ \A i \in 1..n : d[i] = chain[i]
  BY <1>3, <1>4, <1>5, <1>6, AppendProperties
<1>8. TipOf(chain).id = IF n = 0 THEN 0 ELSE chain[n].id
  <2>1. CASE n = 0
    <3>1. chain = <<>>
      <4>1. chain # <<>> => Len(chain) >= 1
        BY ChainFacts
      <4>2. QED  BY <2>1, <4>1
    <3>2. TipOf(chain) = NoBlock
      BY <3>1, ChainFacts
    <3>3. QED  BY <2>1, <3>2 DEF NoBlock
  <2>2. CASE n # 0
    <3>1. chain # <<>>
      BY <2>2, ChainFacts
    <3>2. QED  BY <2>2, <3>1, ChainFacts
  <2>3. QED  BY <2>1, <2>2
<1>9. DOMAIN d = 1..(n + 1)
  BY <1>7, LenProperties
<1>10. ASSUME NEW i \in 1..(n + 1) PROVE d[i].h = i /\ d[i].prev = (IF i = 1 THEN 0 ELSE d[i - 1].id)
  <2>1. CASE i = n + 1
    <3>1. d[i] = b /\ b.h = i /\ b.prev = TipOf(chain).id
      BY <1>3, <1>4, <1>7, <2>1
    <3>2. i # 1 => n \in 1..n /\ d[i - 1] = chain[n] /\ n # 0
      BY <1>1, <1>7, <2>1
    <3>3. i = 1 => n = 0
      BY <1>1, <2>1
    <3>4. QED  BY <1>8, <3>1, <3>2, <3>3
  <2>2. CASE i # n + 1
    <3>1. i \in 1..n /\ (i # 1 => i - 1 \in 1..n)
      BY <1>1, <2>2
    <3>2. QED  BY <1>1, <1>7, <3>1
  <2>3. QED  BY <2>1, <2>2
<1>11. d \in Chains
  BY <1>7, <1>9, <1>10 DEF Chains, Linked
<1>12. QED  BY <1>3, <1>4, <1>5, <1>7, <1>11

\* The files the manifest lists, one after the other.
Listed == [i \in 1..Cardinality(Epochs) |->
             IF i - 1 \in disk.man.rows THEN disk.files[i - 1] ELSE <<>>]

\* The lines of the listed files are blocks.
LEMMA LinesType ==
    ASSUME disk \in Disks
    PROVE  Listed \in Seq(Seq(Blocks)) /\ Lines = FlattenSeq(Listed) /\ Lines \in Seq(Blocks)
<1>1. Cardinality(Epochs) \in Nat /\ \A i \in 1..Cardinality(Epochs) : i - 1 \in Epochs
  BY EpochRange
<1>2. disk.files \in [Epochs -> Seq(Blocks)]
  BY DEF Disks
<1>3. \A i \in 1..Cardinality(Epochs) :
         (IF i - 1 \in disk.man.rows THEN disk.files[i - 1] ELSE <<>>) \in Seq(Blocks)
  BY <1>1, <1>2, EmptySeq
<1>4. Listed \in [1..Cardinality(Epochs) -> Seq(Blocks)]
  BY <1>3 DEF Listed
<1>5. Listed \in Seq(Seq(Blocks))
  BY <1>1, <1>4, SeqDef
<1>6. Lines = FlattenSeq(Listed)
  BY DEF Lines, Listed
<1>7. QED  BY <1>5, <1>6, FlattenType

\* What a start loads is a chain of linked blocks.
LEMMA LoadedType ==
    ASSUME disk \in Disks, Loads
    PROVE  Loaded \in Chains
<1>1. disk.sum \in Summaries /\ disk.man \in Manifests
  BY DEF Disks
<1>2. CASE disk.sum.kind = "inline"
  BY <1>1, <1>2 DEF Loaded, Summaries
<1>3. CASE disk.sum.kind # "inline" /\ Verified
  BY <1>3, LinesType DEF Loaded, Verified, Chains
<1>4. CASE disk.sum.kind = "none" /\ disk.man = NoManifest
  <2>1. \A i \in 1..Cardinality(Epochs) : Listed[i] = <<>>
    BY <1>4 DEF Listed, NoManifest
  <2>2. Len(Listed) = Cardinality(Epochs) /\ Listed \in Seq(Seq(Blocks)) /\ Len(Listed) >= 1
    BY EpochRange, LinesType DEF Listed
  <2>3. \A i \in 1..Len(Listed) : Fill(i - 1, 0) = 0
    <3>1. \A i \in 1..Cardinality(Epochs) : Base(i - 1) \in Nat
      BY EpochRange, BaseGrows
    <3>2. QED  BY <2>2, <3>1 DEF Fill
  <2>4. 0 <= Base(Len(Listed))
    BY <2>2, EpochRange, BaseGrows
  <2>5. \A i \in 1..Len(Listed) : /\ Len(Listed[i]) = Fill(i - 1, 0)
                                  /\ \A j \in 1..Len(Listed[i]) : Listed[i][j] = <<>>[Base(i - 1) + j]
    BY <2>1, <2>2, <2>3
  <2>6. Len(FlattenSeq(Listed)) = 0
    <3>1. PICK c \in Seq(Blocks) : c = <<>>
      BY EmptySeq
    <3>2. Len(c) = 0
      BY <3>1, EmptySeq
    <3>3. \A i \in 1..Len(Listed) : /\ Len(Listed[i]) = Fill(i - 1, 0)
                                    /\ \A j \in 1..Len(Listed[i]) : Listed[i][j] = c[Base(i - 1) + j]
      BY <2>5, <3>1
    <3>4. PICK n \in Nat : n = 0
      OBVIOUS
    <3>5. n <= Len(c) /\ n <= Base(Len(Listed))
      BY <2>4, <3>2, <3>4
    <3>6. \A i \in 1..Len(Listed) : /\ Len(Listed[i]) = Fill(i - 1, n)
                                    /\ \A j \in 1..Len(Listed[i]) : Listed[i][j] = c[Base(i - 1) + j]
      BY <3>3, <3>4
    <3>7. Len(FlattenSeq(Listed)) = n
      <4>1. PICK s \in Seq(Seq(Blocks)) : s = Listed
        BY <2>2
      <4>2. /\ n <= Len(c) /\ n <= Base(Len(s)) /\ Len(s) >= 1
            /\ \A i \in 1..Len(s) : /\ Len(s[i]) = Fill(i - 1, n)
                                    /\ \A j \in 1..Len(s[i]) : s[i][j] = c[Base(i - 1) + j]
        BY <2>2, <3>5, <3>6, <4>1
      <4>3. Len(FlattenSeq(s)) = n
        BY <4>2, FlattenChain
      <4>4. QED  BY <4>1, <4>3
    <3>8. QED  BY <3>4, <3>7
  <2>7. Lines = <<>>
    BY <2>6, LinesType, EmptySeq
  <2>8. QED  BY <1>4, <2>7, EmptyChain DEF Loaded
<1>5. QED  BY <1>2, <1>3, <1>4 DEF Loads, Trusted, FullVerify

-----------------------------------------------------------------------------
(* Type correctness.                                                       *)

\* A node without files has every variable in its shape.
LEMMA InitType == ASSUME Init PROVE TypeInv
<1>1. NoManifest \in Manifests
  BY Numbers DEF NoManifest, Manifests
<1>2. NoSummary \in Summaries
  BY Numbers, EmptyChain DEF NoSummary, Summaries
<1>3. disk \in Disks
  BY <1>1, <1>2, EmptySeq DEF Init, Disks
<1>4. NoAppend \in Apps
  BY <1>1, NoBlockType DEF NoAppend, Apps
<1>5. NoSeal \in Seals /\ NoCommit \in Commits /\ NoLate \in Lates
  BY NoBlockType, EmptyChain DEF NoSeal, NoCommit, NoLate, Seals, Commits, Lates
<1>6. queue \in Seq(Commands) /\ Len(queue) <= WriterCap
  BY Numbers, EmptySeq DEF Init
<1>7. QED  BY <1>3, <1>4, <1>5, <1>6, EmptyChain, Numbers DEF Init, TypeInv, Threads, Rest, Stops

\* Beginning and ending an append.
LEMMA BeginType ==
    ASSUME TypeInv, NEW a \in Appenders, NEW b \in Blocks, b.h >= 1, BeginAppend(a, b)
    PROVE  app' \in [Appenders -> Apps] /\ harm' \subseteq {"raced", "torn", "hollow", "late", "undone"}
<1>1. disk.man \in Manifests
  BY DEF TypeInv, Disks
<1>2. [pc |-> "line", blk |-> b, man |-> disk.man] \in Apps
  BY <1>1 DEF Apps
<1>3. QED  BY <1>2 DEF BeginAppend, TypeInv, Threads, Rest

\* A line is one more block at the end of its file.
LEMMA LineType ==
    ASSUME TypeInv, NEW a \in Appenders, WriteLine(a)
    PROVE  TypeInv'
<1>1. PICK x : x = app[a]  OBVIOUS
<1>2. x \in Apps /\ x.pc = "line" /\ x.blk \in Blocks /\ x.blk.h >= 1
  BY <1>1 DEF TypeInv, Threads, Apps, WriteLine
<1>3. PICK e : e = EpochOf(x.blk.h)  OBVIOUS
<1>4. e \in Epochs
  <2>1. x.blk.h \in 1..MaxHeight
    BY <1>2, Numbers DEF Blocks
  <2>2. QED  BY <1>3, <2>1, EpochRange
<1>5. disk.files \in [Epochs -> Seq(Blocks)] /\ disk.files[e] \in Seq(Blocks)
  BY <1>4 DEF TypeInv, Disks
<1>6. Append(disk.files[e], x.blk) \in Seq(Blocks)
  BY <1>2, <1>5, AppendProperties
<1>7. disk' = [disk EXCEPT !.files[e] = Append(disk.files[e], x.blk)]
  BY <1>1, <1>3 DEF WriteLine
<1>8. disk' \in Disks
  BY <1>5, <1>6, <1>7 DEF TypeInv, Disks
<1>9. app' = [app EXCEPT ![a].pc = "manifest"]
  BY DEF WriteLine
<1>10. app' \in [Appenders -> Apps]
  <2>1. [x EXCEPT !.pc = "manifest"] \in Apps
    BY <1>2 DEF Apps
  <2>2. app' = [app EXCEPT ![a] = [x EXCEPT !.pc = "manifest"]]
    BY <1>1, <1>9
  <2>3. QED  BY <2>1, <2>2 DEF TypeInv, Threads
<1>11. Threads'
  BY <1>10 DEF TypeInv, Threads, WriteLine, handle
<1>12. Rest'
  BY DEF TypeInv, Rest, WriteLine, handle, life, counters, history
<1>13. QED  BY <1>8, <1>11, <1>12 DEF TypeInv

\* The end of an append replaces the manifest at most.
LEMMA EndType ==
    ASSUME TypeInv, NEW a \in Appenders, NEW ok \in BOOLEAN, EndAppend(a, ok)
    PROVE  /\ app' \in [Appenders -> Apps] /\ disk' \in Disks /\ faults' \in 0..MaxFaults
           /\ harm' \subseteq {"raced", "torn", "hollow", "late", "undone"}
<1>1. NoAppend \in Apps
  <2>1. NoManifest \in Manifests
    BY Numbers DEF NoManifest, Manifests
  <2>2. QED  BY <2>1, NoBlockType DEF NoAppend, Apps
<1>2. app' \in [Appenders -> Apps]
  BY <1>1 DEF EndAppend, TypeInv, Threads
<1>3. disk' \in Disks
  <2>1. CASE disk' = disk
    BY <2>1 DEF TypeInv
  <2>2. CASE app[a].pc = "manifest" /\ disk' = [disk EXCEPT !.man = Manifest(a)]
    <3>1. PICK x : x = app[a]  OBVIOUS
    <3>2. x \in Apps /\ x.blk \in Blocks /\ x.blk.h >= 1 /\ x.man \in Manifests
      BY <2>2, <3>1 DEF TypeInv, Threads, Apps
    <3>3. EpochOf(x.blk.h) \in Epochs
      <4>1. x.blk.h \in 1..MaxHeight
        BY <3>2, Numbers DEF Blocks
      <4>2. QED  BY <4>1, EpochRange
    <3>4. Manifest(a) \in Manifests
      BY <3>1, <3>2, <3>3 DEF Manifest, Manifests, Blocks
    <3>5. QED  BY <2>2, <3>4 DEF TypeInv, Disks
  <2>3. QED  BY <2>1, <2>2 DEF EndAppend
<1>4. faults' \in 0..MaxFaults
  BY Numbers DEF EndAppend, TypeInv, Rest
<1>5. harm' \subseteq {"raced", "torn", "hollow", "late", "undone"}
  BY DEF EndAppend, TypeInv, Rest
<1>6. QED  BY <1>2, <1>3, <1>4, <1>5

\* What the savers write.
LEMMA SavedType ==
    ASSUME TypeInv
    PROVE  Checkpoint \in Summaries /\ Monolith \in Summaries
<1>1. chain \in Chains /\ Len(chain) \in 0..MaxHeight /\ TipOf(chain).id \in 0..MaxBlocks
  BY ChainFacts DEF TypeInv, Threads, Blocks
<1>2. QED  BY <1>1, EmptyChain, Numbers DEF Checkpoint, Monolith, Summaries

\* A summary written has the shape of one.
LEMMA SummaryType ==
    ASSUME TypeInv, NEW s \in Summaries, NEW ok \in BOOLEAN, WriteSummary(s, ok)
    PROVE  /\ disk' \in Disks /\ faults' \in 0..MaxFaults
           /\ harm' \subseteq {"raced", "torn", "hollow", "late", "undone"}
<1>1. disk' \in Disks
  <2>1. CASE disk' = disk
    BY <2>1 DEF TypeInv
  <2>2. CASE disk' = [disk EXCEPT !.sum = s]
    BY <2>2 DEF TypeInv, Disks
  <2>3. QED  BY <2>1, <2>2 DEF WriteSummary
<1>2. faults' \in 0..MaxFaults
  BY Numbers DEF WriteSummary, TypeInv, Rest
<1>3. harm' \subseteq {"raced", "torn", "hollow", "late", "undone"}
  BY DEF WriteSummary, TypeInv, Rest
<1>4. QED  BY <1>1, <1>2, <1>3

\* A copy put back is a chain.
LEMMA RestoreType ==
    ASSUME TypeInv, NEW c \in Chains, Restore(c)
    PROVE  chain' \in Chains /\ harm' \subseteq {"raced", "torn", "hollow", "late", "undone"}
<1>1. chain' = c
  BY DEF Restore
<1>2. harm' \subseteq harm \cup {"undone"}
  BY DEF Restore
<1>3. QED  BY <1>1, <1>2 DEF TypeInv, Rest

\* A command in the channel.
LEMMA SendType ==
    ASSUME TypeInv, NEW who, NEW op \in {"append", "flush", "shutdown"}, NEW b \in Blocks,
           op = "append" => b.h >= 1, Send(who, op, b)
    PROVE  /\ queue' \in Seq(Commands) /\ Len(queue') <= WriterCap
           /\ queue' = Append(queue, [op |-> op, blk |-> b])
           /\ Len(queue') = Len(queue) + 1
           /\ \A i \in 1..Len(queue) : queue'[i] = queue[i]
           /\ queue'[Len(queue) + 1] = [op |-> op, blk |-> b]
<1>1. PICK c : c = [op |-> op, blk |-> b]  OBVIOUS
<1>2. c \in Commands
  BY <1>1 DEF Commands
<1>3. queue \in Seq(Commands) /\ Len(queue) \in Nat /\ Len(queue) < WriterCap
  BY LenProperties DEF TypeInv, Threads, Send
<1>4. queue' = Append(queue, c)
  BY <1>1 DEF Send
<1>5. QED  BY <1>1, <1>2, <1>3, <1>4, AppendProperties, Numbers

\* A command taken leaves the others, one place further on.
LEMMA TailType ==
    ASSUME TypeInv, queue # <<>>, queue' = Tail(queue)
    PROVE  /\ queue' \in Seq(Commands) /\ Len(queue') <= WriterCap
           /\ Len(queue') = Len(queue) - 1 /\ Len(queue) \in 1..WriterCap
           /\ \A i \in 1..Len(queue') : i + 1 \in 1..Len(queue) /\ queue'[i] = queue[i + 1]
           /\ Head(queue) \in Commands /\ Head(queue) = queue[1]
<1>1. queue \in Seq(Commands) /\ Len(queue) \in Nat /\ Len(queue) <= WriterCap
  BY LenProperties DEF TypeInv, Threads
<1>2. Len(queue) # 0
  BY <1>1, EmptySeq
<1>3. /\ Head(queue) \in Commands /\ queue' \in Seq(Commands) /\ Len(queue') = Len(queue) - 1
      /\ \A i \in 1..Len(queue') : queue'[i] = queue[i + 1]
  BY <1>1, HeadTailProperties
<1>4. Head(queue) = queue[1]
  BY <1>1
<1>5. QED  BY <1>1, <1>2, <1>3, <1>4, Numbers

\* The commands sent.
LEMMA SentTypes ==
    ASSUME TypeInv, NEW who
    PROVE  /\ seal.pc = "enqueue" /\ Send(who, "append", seal.blk) => queue' \in Seq(Commands) /\ Len(queue') <= WriterCap
           /\ Send(who, "flush", NoBlock) => queue' \in Seq(Commands) /\ Len(queue') <= WriterCap
           /\ stop \in {"flush", "shutdown"} /\ Send(who, stop, NoBlock) => queue' \in Seq(Commands) /\ Len(queue') <= WriterCap
<1>1. seal.blk \in Blocks /\ (seal.pc = "enqueue" => seal.blk.h >= 1)
  BY DEF TypeInv, Threads, Seals
<1>2. QED  BY <1>1, NoBlockType, SendType

\* The steps of the seal loop.
LEMMA SealStepType ==
    ASSUME TypeInv, SealStep
    PROVE  TypeInv'
<1> USE DEF Seals
<1>1. CASE Enqueue
  BY <1>1, SentTypes DEF Enqueue, TypeInv, Threads, Rest, life, counters, history
<1>2. CASE Recover
  <2>1. seal.blk \in Blocks /\ seal.blk.h >= 1
    BY <1>2 DEF Recover, TypeInv, Threads
  <2>2. app' \in [Appenders -> Apps] /\ harm' \subseteq {"raced", "torn", "hollow", "late", "undone"}
    <3>1. CASE BeginAppend("seal", seal.blk)
      BY <2>1, <3>1, BeginType DEF Appenders
    <3>2. CASE UNCHANGED <<app, harm>>
      BY <3>2 DEF TypeInv, Threads, Rest
    <3>3. QED  BY <1>2, <3>1, <3>2 DEF Recover
  <2>3. seal' \in Seals
    BY <1>2 DEF Recover, TypeInv, Threads
  <2>4. QED  BY <1>2, <2>2, <2>3 DEF Recover, TypeInv, Threads, Rest, handle, life, counters
<1>3. CASE SkipSave
  BY <1>3, NoBlockType, EmptyChain DEF SkipSave, NoSeal, TypeInv, Threads, Rest, handle, life, counters, history
<1>4. CASE StartSave
  BY <1>4 DEF StartSave, TypeInv, Threads, Rest, handle, life, counters, history
<1>5. CASE SendFlush
  BY <1>5, SentTypes DEF SendFlush, TypeInv, Threads, Rest, life, counters, history
<1>6. CASE Flushed
  BY <1>6 DEF Flushed, TypeInv, Threads, Rest, life, counters, history
<1>7. CASE Finish
  <2>1. chain' \in Chains /\ harm' \subseteq {"raced", "torn", "hollow", "late", "undone"}
    <3>1. CASE Restore(seal.bak)
      <4>1. seal.bak \in Chains
        BY DEF TypeInv, Threads
      <4>2. QED  BY <3>1, <4>1, RestoreType
    <3>2. CASE UNCHANGED <<chain, harm>>
      BY <3>2 DEF TypeInv, Threads, Rest
    <3>3. QED  BY <1>7, <3>1, <3>2 DEF Finish
  <2>2. seal' \in Seals /\ ready' \in BOOLEAN
    BY <1>7, NoBlockType, EmptyChain DEF Finish, NoSeal
  <2>3. QED  BY <1>7, <2>1, <2>2 DEF Finish, TypeInv, Threads, Rest, handle, counters
<1>8. CASE WaitForRoom("seal")
  BY <1>8 DEF WaitForRoom, TypeInv, Threads, Rest, life, counters, history
<1>9. ASSUME NEW ok \in BOOLEAN, RecoverDone(ok) PROVE TypeInv'
  <2>1. /\ app' \in [Appenders -> Apps] /\ disk' \in Disks /\ faults' \in 0..MaxFaults
        /\ harm' \subseteq {"raced", "torn", "hollow", "late", "undone"}
    BY <1>9, EndType DEF RecoverDone, Appenders
  <2>2. seal' \in Seals
    BY <1>9 DEF RecoverDone, TypeInv, Threads
  <2>3. QED  BY <1>9, <2>1, <2>2 DEF RecoverDone, TypeInv, Threads, Rest, handle, life
<1>10. ASSUME NEW ok \in BOOLEAN, SaveSummary(ok) PROVE TypeInv'
  <2>1. /\ disk' \in Disks /\ faults' \in 0..MaxFaults
        /\ harm' \subseteq {"raced", "torn", "hollow", "late", "undone"}
    BY <1>10, SavedType, SummaryType DEF SaveSummary
  <2>2. seal' \in Seals
    BY <1>10 DEF SaveSummary, TypeInv, Threads
  <2>3. QED  BY <1>10, <2>1, <2>2 DEF SaveSummary, TypeInv, Threads, Rest, handle, life
<1>11. QED  BY <1>1, <1>2, <1>3, <1>4, <1>5, <1>6, <1>7, <1>8, <1>9, <1>10 DEF SealStep

\* The steps of the writer thread, and the lines that reach the disk.
LEMMA WriterStepType ==
    ASSUME TypeInv, WriterStep
    PROVE  TypeInv'
<1>1. CASE WriterTake
  <2>1. queue' \in Seq(Commands) /\ Len(queue') <= WriterCap /\ Head(queue) \in Commands
    BY <1>1, TailType DEF WriterTake
  <2>2. Head(queue).op = "append" => Head(queue).blk \in Blocks /\ Head(queue).blk.h >= 1
    BY <2>1 DEF Commands
  <2>3. /\ app' \in [Appenders -> Apps] /\ harm' \subseteq {"raced", "torn", "hollow", "late", "undone"}
        /\ writer' \in {"up", "failed", "gone"} /\ reply' \in {"none", "ok", "error"}
    <3>1. CASE Head(queue).op = "append" /\ BeginAppend("writer", Head(queue).blk) /\ UNCHANGED <<reply, writer>>
      <4>1. "writer" \in Appenders
        BY DEF Appenders
      <4>2. app' \in [Appenders -> Apps] /\ harm' \subseteq {"raced", "torn", "hollow", "late", "undone"}
        BY <2>2, <3>1, <4>1, BeginType
      <4>3. QED  BY <3>1, <4>2 DEF TypeInv, Threads
    <3>2. CASE UNCHANGED <<app, harm>> /\ writer' \in {writer, "failed", "gone"} /\ reply' \in {reply, "ok", "error"}
      BY <3>2 DEF TypeInv, Threads, Rest
    <3>3. QED  BY <1>1, <3>1, <3>2 DEF WriterTake
  <2>4. QED  BY <1>1, <2>1, <2>3 DEF WriterTake, TypeInv, Threads, Rest, life, counters
<1>2. ASSUME NEW ok \in BOOLEAN, WriterDone(ok) PROVE TypeInv'
  <2>1. /\ app' \in [Appenders -> Apps] /\ disk' \in Disks /\ faults' \in 0..MaxFaults
        /\ harm' \subseteq {"raced", "torn", "hollow", "late", "undone"}
    BY <1>2, EndType DEF WriterDone, Appenders
  <2>2. QED  BY <1>2, <2>1 DEF WriterDone, TypeInv, Threads, Rest, life
<1>3. QED  BY <1>1, <1>2 DEF WriterStep

\* The steps of a commit.
LEMMA CommitStepType ==
    ASSUME TypeInv, CommitStep
    PROVE  TypeInv'
<1> USE DEF Commits
<1>1. CASE SyncStep
  <2>1. disk.man.h \in 0..MaxHeight
    BY DEF TypeInv, Disks, Manifests
  <2>2. disk.man.h + 1 <= Len(chain) => chain[disk.man.h + 1] \in Blocks /\ chain[disk.man.h + 1].h >= 1
    <3>1. chain \in Chains
      BY DEF TypeInv, Threads
    <3>2. disk.man.h + 1 <= Len(chain) => disk.man.h + 1 \in 1..Len(chain)
      BY <2>1, <3>1, ChainFacts
    <3>3. QED  BY <3>1, <3>2, ChainFacts
  <2>3. /\ app' \in [Appenders -> Apps] /\ harm' \subseteq {"raced", "torn", "hollow", "late", "undone"}
    <3>1. CASE disk.man.h + 1 <= Len(chain) /\ BeginAppend("commit", chain[disk.man.h + 1])
      <4>1. "commit" \in Appenders
        BY DEF Appenders
      <4>2. QED  BY <2>2, <3>1, <4>1, BeginType
    <3>2. CASE UNCHANGED <<app, harm>>
      BY <3>2 DEF TypeInv, Threads, Rest
    <3>3. QED  BY <1>1, <3>1, <3>2 DEF SyncStep
  <2>4. commit' \in Commits
    BY <1>1 DEF SyncStep, TypeInv, Threads
  <2>5. QED  BY <1>1, <2>3, <2>4 DEF SyncStep, TypeInv, Threads, Rest, handle, life, counters
<1>2. CASE CommitDone
  <2>1. commit.bak \in Chains /\ TipOf(chain) \in Blocks
    BY ChainFacts DEF TypeInv, Threads
  <2>2. chain' \in Chains /\ harm' \subseteq {"raced", "torn", "hollow", "late", "undone"} /\ late' \in Lates
    <3>1. CASE Restore(commit.bak) /\ UNCHANGED late
      BY <2>1, <3>1, RestoreType DEF TypeInv, Threads
    <3>2. CASE late' = [on |-> TRUE, bak |-> commit.bak] /\ harm' = harm \cup {"late"} /\ UNCHANGED chain
      BY <2>1, <3>2 DEF TypeInv, Threads, Rest, Lates
    <3>3. CASE UNCHANGED <<chain, late, harm>>
      BY <3>3 DEF TypeInv, Threads, Rest
    <3>4. QED  BY <1>2, <3>1, <3>2, <3>3 DEF CommitDone
  <2>3. acked' \subseteq Blocks
    BY <1>2, <2>1 DEF CommitDone, TypeInv, Rest
  <2>4. ready' \in BOOLEAN /\ stop' \in Stops /\ commit' \in Commits
    BY <1>2, EmptyChain DEF CommitDone, TypeInv, Threads, Rest, Stops, NoCommit
  <2>5. QED  BY <1>2, <2>2, <2>3, <2>4 DEF CommitDone, TypeInv, Threads, Rest, handle, counters
<1>3. ASSUME NEW ok \in BOOLEAN, SyncAppended(ok) PROVE TypeInv'
  <2>1. /\ app' \in [Appenders -> Apps] /\ disk' \in Disks /\ faults' \in 0..MaxFaults
        /\ harm' \subseteq {"raced", "torn", "hollow", "late", "undone"}
    BY <1>3, EndType DEF SyncAppended, Appenders
  <2>2. commit' \in Commits
    BY <1>3 DEF SyncAppended, TypeInv, Threads
  <2>3. QED  BY <1>3, <2>1, <2>2 DEF SyncAppended, TypeInv, Threads, Rest, handle, life
<1>4. ASSUME NEW ok \in BOOLEAN, CommitSummary(ok) PROVE TypeInv'
  <2>1. PICK s \in Summaries : WriteSummary(s, ok)
    BY <1>4, SavedType DEF CommitSummary
  <2>2. /\ disk' \in Disks /\ faults' \in 0..MaxFaults
        /\ harm' \subseteq {"raced", "torn", "hollow", "late", "undone"}
    BY <2>1, SummaryType
  <2>3. commit' \in Commits
    BY <1>4 DEF CommitSummary, TypeInv, Threads
  <2>4. QED  BY <1>4, <2>2, <2>3 DEF CommitSummary, TypeInv, Threads, Rest, handle, life
<1>5. QED  BY <1>1, <1>2, <1>3, <1>4 DEF CommitStep

\* The steps of the shutdown.
LEMMA StopStepType ==
    ASSUME TypeInv, StopStep
    PROVE  TypeInv'
<1> USE DEF Stops
<1>1. CASE StopSend
  BY <1>1, SentTypes DEF StopSend, TypeInv, Threads, Rest, life, counters, history
<1>2. CASE StopAnswered
  BY <1>2 DEF StopAnswered, TypeInv, Threads, Rest, life, counters, history
<1>3. CASE StopSave
  BY <1>3, EmptyChain DEF StopSave, Commits, TypeInv, Threads, Rest, handle, life, counters, history
<1>4. CASE End
  BY <1>4 DEF End, TypeInv, Threads, Rest, handle, counters, history
<1>5. CASE WaitForRoom("stop")
  BY <1>5 DEF WaitForRoom, TypeInv, Threads, Rest, life, counters, history
<1>6. QED  BY <1>1, <1>2, <1>3, <1>4, <1>5 DEF StopStep

\* A new block in memory.
LEMMA NewChainType ==
    ASSUME TypeInv, Len(chain) < MaxHeight, born < MaxBlocks,
           chain' = Append(chain, NewBlock), born' = born + 1
    PROVE  chain' \in Chains /\ born' \in 0..MaxBlocks /\ NewBlock \in Blocks /\ NewBlock.h >= 1
<1>1. chain \in Chains /\ born \in 0..MaxBlocks
  BY DEF TypeInv, Threads, Rest
<1>2. Len(chain) \in 0..MaxHeight
  BY <1>1, ChainFacts
<1>3. QED  BY <1>1, <1>2, GrowChain, Numbers

\* The steps that begin something.
LEMMA StartStepType ==
    ASSUME TypeInv,
           StartTurn \/ Seal \/ HttpCommit \/ SyncBatch \/ MarkRelayed \/ LateRollback \/ RequestStop
    PROVE  TypeInv'
<1>1. CASE StartTurn
  BY <1>1, NoBlockType, EmptyChain DEF StartTurn, NoSeal, Seals, TypeInv, Threads, Rest, handle, life, counters, history
<1>2. CASE Seal
  <2>1. chain' \in Chains /\ born' \in 0..MaxBlocks /\ NewBlock \in Blocks /\ NewBlock.h >= 1
    BY <1>2, NewChainType DEF Seal
  <2>2. seal' \in Seals
    BY <1>2, <2>1 DEF Seal, Seals, TypeInv, Threads
  <2>3. QED  BY <1>2, <2>1, <2>2 DEF Seal, TypeInv, Threads, Rest, handle, life, history
<1>3. CASE HttpCommit
  <2>1. chain' \in Chains /\ born' \in 0..MaxBlocks
    BY <1>3, NewChainType DEF HttpCommit
  <2>2. commit' \in Commits
    BY <1>3 DEF HttpCommit, Commits, TypeInv, Threads
  <2>3. QED  BY <1>3, <2>1, <2>2 DEF HttpCommit, TypeInv, Threads, Rest, handle, life, history
<1>4. CASE SyncBatch
  <2>1. chain' \in Chains /\ born' \in 0..MaxBlocks
    BY <1>4, NewChainType DEF SyncBatch
  <2>2. commit' \in Commits
    BY <1>4 DEF SyncBatch, Commits, TypeInv, Threads
  <2>3. QED  BY <1>4, <2>1, <2>2 DEF SyncBatch, TypeInv, Threads, Rest, handle, life, history
<1>5. CASE MarkRelayed
  BY <1>5, Numbers DEF MarkRelayed, Commits, TypeInv, Threads, Rest, handle, life, history
<1>6. CASE LateRollback
  <2>1. chain' \in Chains /\ harm' \subseteq {"raced", "torn", "hollow", "late", "undone"}
    <3>1. late.bak \in Chains
      BY DEF TypeInv, Threads, Lates
    <3>2. QED  BY <1>6, <3>1, RestoreType DEF LateRollback
  <2>2. late' \in Lates
    BY <1>6, EmptyChain DEF LateRollback, NoLate, Lates
  <2>3. QED  BY <1>6, <2>1, <2>2 DEF LateRollback, TypeInv, Threads, Rest, handle, counters
<1>7. CASE RequestStop
  BY <1>7 DEF RequestStop, Stops, TypeInv, Threads, Rest, handle, life, counters, history
<1>8. QED  BY <1>1, <1>2, <1>3, <1>4, <1>5, <1>6, <1>7

\* The end of the process leaves every shape.
LEMMA CrashType ==
    ASSUME TypeInv, Crash
    PROVE  TypeInv'
<1>1. Threads' /\ disk' \in Disks
  BY DEF Crash, TypeInv, Threads, handle
<1>2. harm' \subseteq harm \cup {"torn"}
  BY DEF Crash
<1>3. up' \in BOOLEAN /\ faults' \in 0..MaxFaults
  <2>1. up' \in BOOLEAN
    BY DEF Crash
  <2>2. faults \in 0..MaxFaults /\ faults < MaxFaults /\ faults' = faults + 1
    BY DEF Crash, TypeInv, Rest
  <2>3. QED  BY <2>1, <2>2, Numbers
<1>4. Rest'
  BY <1>2, <1>3 DEF Crash, TypeInv, Rest
<1>5. QED  BY <1>1, <1>4 DEF TypeInv

\* A start takes a chain of linked blocks into memory.
LEMMA RestartType ==
    ASSUME TypeInv, Restart
    PROVE  TypeInv'
<1>1. disk \in Disks
  BY DEF TypeInv
<1>2. chain' \in Chains /\ Loaded \in Chains
  BY <1>1, LoadedType DEF Restart
<1>3. Len(Loaded) \in 0..MaxHeight /\ TipOf(Loaded).id \in 0..MaxBlocks
  BY <1>2, ChainFacts DEF Blocks
<1>4. disk' \in Disks
  <2>1. [kind |-> "epochs", h |-> Len(Loaded), st |-> TipOf(Loaded).id, blocks |-> <<>>] \in Summaries
    BY <1>3, EmptyChain DEF Summaries
  <2>2. QED  BY <1>1, <2>1 DEF Restart, Disks
<1>5. NoAppend \in Apps
  <2>1. NoManifest \in Manifests
    BY Numbers DEF NoManifest, Manifests
  <2>2. QED  BY <2>1, NoBlockType DEF NoAppend, Apps
<1>6. NoSeal \in Seals /\ NoCommit \in Commits /\ NoLate \in Lates
  BY NoBlockType, EmptyChain DEF NoSeal, NoCommit, NoLate, Seals, Commits, Lates
<1>7. <<>> \in Seq(Commands) /\ Len(<<>>) <= WriterCap
  BY Numbers, EmptySeq
<1>8. Threads'
  BY <1>2, <1>5, <1>6, <1>7 DEF Restart, Threads, Stops
<1>9. Rest'
  BY DEF Restart, TypeInv, Rest, counters
<1>10. QED  BY <1>4, <1>8, <1>9 DEF TypeInv

\* Every step keeps the shapes.
LEMMA NextType == ASSUME TypeInv, [Next]_vars PROVE TypeInv'
<1>1. CASE \E a \in Appenders : WriteLine(a)
  BY <1>1, LineType
<1>2. CASE UNCHANGED vars
  BY <1>2 DEF vars, handle, life, counters, history, TypeInv, Threads, Rest
<1>3. QED
  BY <1>1, <1>2, SealStepType, WriterStepType, CommitStepType, StopStepType, StartStepType,
     CrashType, RestartType DEF Next

\* The shapes are those of TypeOK, and a bit more.
LEMMA TypeImplies == ASSUME TypeInv PROVE TypeOK
<1>1. chain \in Seq(Blocks) /\ Linked(chain)
  BY DEF TypeInv, Threads, Chains
<1>2. seal \in Seals /\ commit \in Commits /\ late \in Lates
  BY DEF TypeInv, Threads
<1>3. seal.bak \in Seq(Blocks) /\ commit.bak \in Seq(Blocks) /\ late.bak \in Seq(Blocks)
  BY <1>2 DEF Seals, Commits, Lates, Chains
<1>4. queue \in Seq([op : {"append", "flush", "shutdown"}, blk : Blocks])
  <2>1. Commands \subseteq [op : {"append", "flush", "shutdown"}, blk : Blocks]
    BY DEF Commands
  <2>2. queue \in Seq(Commands)
    BY DEF TypeInv, Threads
  <2>3. QED  BY <2>1, <2>2, SeqMonotonic
<1>5. \A a \in Appenders : app[a].pc \in {"none", "line", "manifest"} /\ app[a].blk \in Blocks
  BY DEF TypeInv, Threads, Apps
<1>6. /\ \A e \in Epochs : disk.files[e] \in Seq(Blocks)
      /\ disk.man \in Manifests /\ disk.sum \in Summaries
  BY DEF TypeInv, Disks
<1>7. disk.man.h \in 0..MaxHeight /\ disk.man.tip \in 0..MaxBlocks /\ disk.man.rows \subseteq Epochs
  BY <1>6 DEF Manifests
<1>8. disk.sum.kind \in {"none", "inline", "epochs"} /\ disk.sum.blocks \in Seq(Blocks)
  BY <1>6 DEF Summaries, Chains
<1>9. seal.pc \in {"idle", "turn", "enqueue", "recover", "save", "flush", "flushing",
                    "summary", "saved", "failed"} /\ seal.blk \in Blocks
  BY <1>2 DEF Seals
<1>10. /\ commit.pc \in {"idle", "sync", "append", "summary", "monolith", "saved", "failed"}
       /\ commit.who \in {"none", "http", "batch", "relay", "stop"} /\ late.on \in BOOLEAN
  BY <1>2 DEF Commits, Lates
<1>11. QED
  BY <1>1, <1>3, <1>4, <1>5, <1>6, <1>7, <1>8, <1>9, <1>10 DEF TypeInv, Threads, Rest, Stops, TypeOK

\* Every variable of the store keeps its shape, the writer's channel its
\* bound, and every chain that comes into memory, sealed, applied, put back
\* or loaded, is one of linked blocks.
THEOREM TypeCorrect == Spec => []TypeOK
<1>1. Init => TypeInv
  BY InitType
<1>2. TypeInv /\ [Next]_vars => TypeInv'
  BY NextType
<1>3. TypeInv => TypeOK
  BY TypeImplies
<1>4. QED  BY <1>1, <1>2, <1>3, PTL DEF Spec

-----------------------------------------------------------------------------
(* Files that hold a chain.                                                *)

\* One chain begins the other, a block is in a chain, and numbers grow
\* along a chain, up to n.
Begins(s, t)  == Len(s) <= Len(t) /\ \A i \in 1..Len(s) : s[i] = t[i]
In(b, c)      == b.h \in 1..Len(c) /\ c[b.h] = b
Ordered(c, n) == /\ \A i \in 1..Len(c) : c[i].id \in 1..n
                 /\ \A i, j \in 1..Len(c) : i < j => c[i].id < c[j].id

\* The files hold the first w blocks of c, epoch by epoch; the manifest
\* knows of those up to its height; the summary has a chain of its own, or
\* stands for a block of c.
FilesHold(files, c, w) ==
    \A e \in Epochs : /\ Len(files[e]) = Fill(e, w)
                      /\ \A i \in 1..Len(files[e]) : files[e][i] = c[Base(e) + i]

ManifestHolds(man, c) ==
    /\ man.rows = {e \in Epochs : Base(e) < man.h}
    /\ man.tip = IF man.h = 0 THEN 0 ELSE c[man.h].id

SummaryHolds(sum, man, c) ==
    \/ sum = NoSummary
    \/ sum.kind = "inline" /\ Begins(sum.blocks, c) /\ ~Boundary(Len(sum.blocks))
    \/ /\ sum.kind = "epochs" /\ man.h >= 1
       /\ sum.h \in 1..Len(c) /\ sum.st = c[sum.h].id

Store(c, d, w) ==
    /\ d.man.h <= w /\ w <= Len(c)
    /\ FilesHold(d.files, c, w) /\ ManifestHolds(d.man, c) /\ SummaryHolds(d.sum, d.man, c)

\* The blocks answered for are among those a start gets back.
Kept(bs, c, d) ==
    \A b \in bs : In(b, c) /\ b.h <= (IF d.sum.kind = "inline" THEN Len(d.sum.blocks) ELSE d.man.h)

\* The blocks of an epoch's file are below the height written.
LEMMA FillFacts ==
    ASSUME NEW e \in Nat, NEW w \in Nat
    PROVE  /\ Base(e) \in Nat /\ Fill(e, w) \in Nat
           /\ \A i \in 1..Fill(e, w) : Base(e) + i \in 1..w
           /\ (Fill(e, w) = 0 <=> w <= Base(e))
<1>1. Base(e) \in Nat /\ EpochSpan \in Nat /\ EpochSpan > 0
  BY BaseGrows, Numbers
<1>2. QED  BY <1>1 DEF Fill

\* A chain holds its beginnings, and what they hold.
LEMMA BeginsFacts ==
    ASSUME NEW s \in Chains, NEW t \in Chains, Begins(s, t)
    PROVE  /\ \A b : In(b, s) => In(b, t)
           /\ \A r \in Chains : Begins(r, s) => Begins(r, t)
           /\ \A r \in Chains : Begins(t, r) => Begins(s, r)
<1>1. Len(s) \in Nat /\ Len(t) \in Nat /\ \A r \in Chains : Len(r) \in Nat
  BY ChainFacts
<1>2. QED  BY <1>1 DEF Begins, In

\* Files that hold a chain hold what continues it.
LEMMA StoreGrows ==
    ASSUME NEW c \in Chains, NEW t \in Chains, Begins(c, t),
           NEW d \in Disks, NEW w \in Nat, Store(c, d, w)
    PROVE  Store(t, d, w)
<1>1. Len(c) \in Nat /\ Len(t) \in Nat /\ Len(c) <= Len(t) /\ \A i \in 1..Len(c) : t[i] = c[i]
  BY ChainFacts DEF Begins
<1>2. d.man \in Manifests /\ d.sum \in Summaries /\ d.man.h \in Nat /\ d.man.h <= w /\ w <= Len(c)
  BY DEF Disks, Manifests, Store
<1>3. FilesHold(d.files, t, w)
  <2> SUFFICES ASSUME NEW e \in Epochs
               PROVE  /\ Len(d.files[e]) = Fill(e, w)
                      /\ \A i \in 1..Len(d.files[e]) : d.files[e][i] = t[Base(e) + i]
    BY DEF FilesHold
  <2>1. Len(d.files[e]) = Fill(e, w) /\ \A i \in 1..Len(d.files[e]) : d.files[e][i] = c[Base(e) + i]
    BY DEF Store, FilesHold
  <2>2. \A i \in 1..Fill(e, w) : Base(e) + i \in 1..w
    BY EpochRange, FillFacts
  <2>3. \A i \in 1..Fill(e, w) : Base(e) + i \in 1..Len(c)
    BY <1>1, <1>2, <2>2
  <2>4. QED  BY <1>1, <2>1, <2>3
<1>4. ManifestHolds(d.man, t)
  <2>1. d.man.h # 0 => d.man.h \in 1..Len(c)
    BY <1>1, <1>2
  <2>2. QED  BY <1>1, <2>1 DEF Store, ManifestHolds
<1>5. SummaryHolds(d.sum, d.man, t)
  <2>1. d.sum.blocks \in Chains
    BY <1>2 DEF Summaries
  <2>2. Begins(d.sum.blocks, c) => Begins(d.sum.blocks, t)
    BY <2>1, BeginsFacts
  <2>3. d.sum.h \in 1..Len(c) => d.sum.h \in 1..Len(t) /\ t[d.sum.h] = c[d.sum.h]
    BY <1>1
  <2>4. QED  BY <2>2, <2>3 DEF Store, SummaryHolds
<1>6. QED  BY <1>1, <1>2, <1>3, <1>4, <1>5 DEF Store

\* Blocks kept for a chain are kept for what continues it.
LEMMA KeptGrows ==
    ASSUME NEW c \in Chains, NEW t \in Chains, Begins(c, t), NEW bs, NEW d, Kept(bs, c, d)
    PROVE  Kept(bs, t, d)
  BY BeginsFacts DEF Kept

-----------------------------------------------------------------------------
(* Going back to a chain that has all that was written.                    *)

\* A block of the chain whose number the beginning has is in the beginning.
LEMMA CutKeeps ==
    ASSUME NEW c \in Chains, NEW n, Ordered(c, n), NEW t \in Chains, Begins(t, c),
           NEW i \in 1..Len(c), c[i].id \in Ids(ToSet(t)) \cup {0}
    PROVE  i \in 1..Len(t)
<1>1. Len(c) \in Nat /\ Len(t) \in Nat /\ Len(t) <= Len(c) /\ \A j \in 1..Len(t) : t[j] = c[j]
  BY ChainFacts DEF Begins
<1>2. c[i].id # 0
  BY DEF Ordered
<1>3. DOMAIN t = 1..Len(t)
  BY LenProperties DEF Chains
<1>4. PICK j \in 1..Len(t) : t[j].id = c[i].id
  BY <1>2, <1>3 DEF Ids, ToSet
<1>5. j \in 1..Len(c) /\ c[j].id = c[i].id /\ i \in Nat /\ j \in Nat
  BY <1>1, <1>4
<1>6. ~(i < j) /\ ~(j < i)
  <2>1. \A k \in 1..Len(c) : c[k].id \in Int
    BY DEF Ordered
  <2>2. QED  BY <1>5, <2>1 DEF Ordered
<1>7. i = j
  BY <1>5, <1>6
<1>8. QED  BY <1>7

\* The blocks on disk and the ones a rollback may not lose.
Blocks0(d) == (UNION {ToSet(d.files[e]) : e \in Epochs}) \cup ToSet(d.sum.blocks)

\* Files whose blocks are all in the shorter chain hold that one too.
LEMMA StoreCut ==
    ASSUME NEW c \in Chains, NEW n, Ordered(c, n), NEW t \in Chains, Begins(t, c),
           NEW d \in Disks, NEW w \in Nat, Store(c, d, w),
           Ids(Blocks0(d)) \cup {d.sum.st} \subseteq Ids(ToSet(t)) \cup {0}
    PROVE  Store(t, d, w)
<1>1. Len(c) \in 0..MaxHeight /\ Len(t) \in Nat /\ Len(t) <= Len(c) /\ \A i \in 1..Len(t) : t[i] = c[i]
  BY ChainFacts DEF Begins
<1>2. d.man \in Manifests /\ d.sum \in Summaries /\ d.man.h \in Nat /\ d.man.h <= w /\ w <= Len(c)
  BY DEF Disks, Manifests, Store
<1>3. w <= Len(t)
  <2> SUFFICES ASSUME w # 0 PROVE w \in 1..Len(t)
    BY <1>1
  <2>1. w \in 1..Len(c) /\ w \in 1..MaxHeight
    BY <1>1, <1>2, Numbers
  <2>2. PICK e \in Epochs : e = EpochOf(w)
    BY <2>1, EpochRange
  <2>3. e \in Nat /\ Base(e) < w /\ w <= Base(e) + EpochSpan /\ Base(e) \in Nat
    BY <2>1, <2>2, EpochBounds, BaseGrows
  <2>4. Fill(e, w) = w - Base(e)
    BY <2>3 DEF Fill
  <2>5. PICK i : i = w - Base(e)
    OBVIOUS
  <2>6. i \in 1..Fill(e, w) /\ Base(e) + i = w
    BY <2>3, <2>4, <2>5
  <2>7. Len(d.files[e]) = Fill(e, w) /\ d.files[e][i] = c[w]
    BY <2>6 DEF Store, FilesHold
  <2>8. DOMAIN d.files[e] = 1..Len(d.files[e])
    <3>1. d.files[e] \in Seq(Blocks)
      BY DEF Disks
    <3>2. QED  BY <3>1, LenProperties
  <2>9. c[w] \in ToSet(d.files[e])
    BY <2>6, <2>7, <2>8 DEF ToSet
  <2>10. c[w] \in Blocks0(d)
    BY <2>9 DEF Blocks0
  <2>11. c[w].id \in Ids(Blocks0(d))
    BY <2>10 DEF Ids
  <2>12. c[w].id \in Ids(ToSet(t)) \cup {0}
    BY <2>11
  <2>13. QED  BY <2>1, <2>12, CutKeeps
<1>4. FilesHold(d.files, t, w)
  <2> SUFFICES ASSUME NEW e \in Epochs
               PROVE  /\ Len(d.files[e]) = Fill(e, w)
                      /\ \A i \in 1..Len(d.files[e]) : d.files[e][i] = t[Base(e) + i]
    BY DEF FilesHold
  <2>1. Len(d.files[e]) = Fill(e, w) /\ \A i \in 1..Len(d.files[e]) : d.files[e][i] = c[Base(e) + i]
    BY DEF Store, FilesHold
  <2>2. \A i \in 1..Fill(e, w) : Base(e) + i \in 1..w
    BY EpochRange, FillFacts
  <2>3. \A i \in 1..Fill(e, w) : Base(e) + i \in 1..Len(t)
    BY <1>1, <1>3, <2>2
  <2>4. QED  BY <1>1, <2>1, <2>3
<1>5. ManifestHolds(d.man, t)
  <2>1. d.man.h # 0 => d.man.h \in 1..Len(t)
    BY <1>1, <1>2, <1>3
  <2>2. QED  BY <1>1, <2>1 DEF Store, ManifestHolds
<1>6. CASE d.sum = NoSummary
  BY <1>1, <1>2, <1>3, <1>4, <1>5, <1>6 DEF Store, SummaryHolds
<1>7. CASE d.sum.kind = "inline" /\ Begins(d.sum.blocks, c) /\ ~Boundary(Len(d.sum.blocks))
  <2>1. PICK b \in Chains : b = d.sum.blocks
    BY <1>2 DEF Summaries
  <2>2. Len(b) \in Nat /\ Len(b) <= Len(c) /\ \A i \in 1..Len(b) : b[i] = c[i]
    BY <1>7, <2>1, ChainFacts DEF Begins
  <2>3. Len(b) <= Len(t)
    <3> SUFFICES ASSUME Len(b) # 0 PROVE Len(b) \in 1..Len(t)
      BY <1>1, <2>2
    <3>1. PICK k : k = Len(b)
      OBVIOUS
    <3>2. k \in 1..Len(b) /\ k \in 1..Len(c) /\ DOMAIN b = 1..Len(b)
      BY <1>1, <2>2, <3>1, LenProperties DEF Chains
    <3>3. c[k] \in ToSet(b)
      BY <2>2, <3>2 DEF ToSet
    <3>4. c[k] \in Blocks0(d)
      <4>1. ToSet(d.sum.blocks) \subseteq Blocks0(d)
        BY DEF Blocks0
      <4>2. ToSet(d.sum.blocks) = ToSet(b)
        BY <2>1
      <4>3. QED  BY <3>3, <4>1, <4>2
    <3>5. c[k].id \in Ids(ToSet(t)) \cup {0}
      BY <3>4 DEF Ids
    <3>6. QED  BY <3>1, <3>2, <3>5, CutKeeps
  <2>4. Begins(d.sum.blocks, t)
    BY <1>1, <2>1, <2>2, <2>3 DEF Begins
  <2>5. QED  BY <1>2, <1>3, <1>4, <1>5, <1>7, <2>4 DEF Store, SummaryHolds
<1>8. CASE d.sum.kind = "epochs" /\ d.man.h >= 1 /\ d.sum.h \in 1..Len(c) /\ d.sum.st = c[d.sum.h].id
  <2>1. PICK k \in 1..Len(c) : k = d.sum.h
    BY <1>8
  <2>2. c[k].id \in Ids(ToSet(t)) \cup {0}
    BY <1>8, <2>1
  <2>3. k \in 1..Len(t)
    BY <2>2, CutKeeps
  <2>4. QED  BY <1>1, <1>2, <1>3, <1>4, <1>5, <1>8, <2>1, <2>3 DEF Store, SummaryHolds
<1>9. QED  BY <1>6, <1>7, <1>8 DEF Store, SummaryHolds

\* Blocks kept by the files stay in a chain the files hold.
LEMMA KeptCut ==
    ASSUME NEW c \in Chains, NEW t \in Chains, Begins(t, c), NEW d \in Disks, NEW w \in Nat,
           Store(t, d, w), NEW bs, Kept(bs, c, d)
    PROVE  Kept(bs, t, d)
<1>1. Len(c) \in Nat /\ Len(t) \in Nat /\ Len(t) <= Len(c) /\ \A i \in 1..Len(t) : t[i] = c[i]
  BY ChainFacts DEF Begins
<1>2. d.man.h \in Nat /\ d.sum.blocks \in Chains
  BY DEF Disks, Manifests, Summaries
<1>3. PICK k : k = (IF d.sum.kind = "inline" THEN Len(d.sum.blocks) ELSE d.man.h)
  OBVIOUS
<1>4. k \in Nat /\ k <= Len(t)
  <2>1. CASE d.sum.kind = "inline"
    <3>1. Begins(d.sum.blocks, t)
      BY <2>1 DEF Store, SummaryHolds, NoSummary
    <3>2. QED  BY <1>2, <1>3, <2>1, <3>1, ChainFacts DEF Begins
  <2>2. CASE d.sum.kind # "inline"
    BY <1>1, <1>2, <1>3, <2>2 DEF Store
  <2>3. QED  BY <2>1, <2>2
<1>5. ASSUME NEW b \in bs PROVE In(b, t) /\ b.h <= k
  <2>1. b.h \in 1..Len(c) /\ c[b.h] = b /\ b.h <= k
    BY <1>3 DEF Kept, In
  <2>2. b.h \in 1..Len(t)
    BY <1>1, <1>4, <2>1
  <2>3. QED  BY <1>1, <2>1, <2>2 DEF In
<1>6. QED  BY <1>3, <1>5 DEF Kept

-----------------------------------------------------------------------------
(* What the savers do to the files.                                        *)

\* The next block goes to the file of its epoch.
LEMMA FillNext ==
    ASSUME NEW w \in Nat, w + 1 <= MaxHeight, NEW e0, e0 = EpochOf(w + 1)
    PROVE  /\ e0 \in Epochs /\ e0 \in Nat
           /\ Fill(e0, w) = w - Base(e0) /\ Fill(e0, w + 1) = Fill(e0, w) + 1
           /\ \A e \in Epochs \ {e0} : Fill(e, w + 1) = Fill(e, w)
<1>1. w + 1 \in 1..MaxHeight /\ EpochSpan \in Nat /\ EpochSpan > 0
  BY Numbers
<1>2. e0 \in Epochs /\ e0 \in Nat /\ Base(e0) \in Nat
      /\ Base(e0) < w + 1 /\ w + 1 <= Base(e0) + EpochSpan
  BY <1>1, EpochRange, EpochBounds, BaseGrows
<1>3. Fill(e0, w) = w - Base(e0) /\ Fill(e0, w + 1) = Fill(e0, w) + 1
  BY <1>1, <1>2 DEF Fill
<1>4. ASSUME NEW e \in Epochs, e # e0 PROVE Fill(e, w + 1) = Fill(e, w)
  <2>1. e \in Nat /\ Base(e) \in Nat
    BY EpochRange, BaseGrows
  <2>2. CASE e < e0
    <3>1. Base(e) + EpochSpan <= Base(e0)
      BY <1>2, <2>1, <2>2, BaseGrows
    <3>2. QED  BY <1>1, <1>2, <2>1, <3>1 DEF Fill
  <2>3. CASE e0 < e
    <3>1. Base(e0) + EpochSpan <= Base(e)
      BY <1>2, <2>1, <2>3, BaseGrows
    <3>2. QED  BY <1>1, <1>2, <2>1, <3>1 DEF Fill
  <2>4. QED  BY <1>2, <1>4, <2>1, <2>2, <2>3
<1>5. QED  BY <1>2, <1>3, <1>4

\* The next block's line: one more block is written.
LEMMA StoreLine ==
    ASSUME NEW c \in Chains, NEW d \in Disks, NEW w \in Nat, Store(c, d, w), w + 1 <= Len(c),
           NEW e0, e0 = EpochOf(w + 1),
           NEW fs, fs = [d EXCEPT !.files[e0] = Append(d.files[e0], c[w + 1])]
    PROVE  Store(c, fs, w + 1)
<1>1. Len(c) \in 0..MaxHeight
  BY ChainFacts
<1>2. w + 1 <= MaxHeight /\ w + 1 \in 1..Len(c)
  BY <1>1, Numbers
<1>3. c[w + 1] \in Blocks
  BY <1>2, ChainFacts
<1>4. /\ e0 \in Epochs /\ e0 \in Nat /\ Base(e0) \in Nat
      /\ Fill(e0, w) = w - Base(e0) /\ Fill(e0, w + 1) = Fill(e0, w) + 1
      /\ \A e \in Epochs \ {e0} : Fill(e, w + 1) = Fill(e, w)
  BY <1>2, FillNext, BaseGrows
<1>5. d.files \in [Epochs -> Seq(Blocks)]
  BY DEF Disks
<1>6. fs.man = d.man /\ fs.sum = d.sum /\ fs.files = [d.files EXCEPT ![e0] = Append(d.files[e0], c[w + 1])]
  BY DEF Disks
<1>7. FilesHold(fs.files, c, w + 1)
  <2> SUFFICES ASSUME NEW e \in Epochs
               PROVE  /\ Len(fs.files[e]) = Fill(e, w + 1)
                      /\ \A i \in 1..Len(fs.files[e]) : fs.files[e][i] = c[Base(e) + i]
    BY DEF FilesHold
  <2>1. Len(d.files[e]) = Fill(e, w) /\ \A i \in 1..Len(d.files[e]) : d.files[e][i] = c[Base(e) + i]
    BY DEF Store, FilesHold
  <2>2. CASE e # e0
    BY <1>4, <1>5, <1>6, <2>1, <2>2
  <2>3. CASE e = e0
    <3>1. PICK f \in Seq(Blocks) : f = d.files[e]
      BY <1>5
    <3>2. PICK g : g = fs.files[e]
      OBVIOUS
    <3>3. g = Append(f, c[w + 1])
      BY <1>4, <1>5, <1>6, <2>3, <3>1, <3>2
    <3>4. /\ Len(f) \in Nat /\ Len(g) = Len(f) + 1 /\ \A i \in 1..Len(f) : g[i] = f[i]
          /\ g[Len(f) + 1] = c[w + 1]
      BY <1>3, <3>1, <3>3, AppendProperties, LenProperties
    <3>5. Len(f) = w - Base(e) /\ Fill(e, w + 1) = Len(f) + 1
      BY <1>4, <2>1, <2>3, <3>1
    <3>6. \A i \in 1..Len(g) : g[i] = c[Base(e) + i]
      <4> SUFFICES ASSUME NEW i \in 1..Len(g) PROVE g[i] = c[Base(e) + i]
        OBVIOUS
      <4>1. CASE i \in 1..Len(f)
        BY <2>1, <3>1, <3>4, <4>1
      <4>2. CASE i = Len(f) + 1
        <5>1. Base(e) + i = w + 1
          BY <1>4, <2>3, <3>5, <4>2
        <5>2. QED  BY <3>4, <4>2, <5>1
      <4>3. QED  BY <3>4, <4>1, <4>2
    <3>7. QED  BY <3>2, <3>4, <3>5, <3>6
  <2>4. QED  BY <2>2, <2>3
<1>8. d.man.h <= w + 1
  BY DEF Store, Disks, Manifests
<1>9. QED  BY <1>6, <1>7, <1>8 DEF Store

\* The manifest catches up with the line.
LEMMA StoreManifest ==
    ASSUME NEW c \in Chains, NEW d \in Disks, NEW m, m = d.man.h, Store(c, d, m + 1),
           NEW man, man = [h |-> m + 1, tip |-> c[m + 1].id, rows |-> d.man.rows \cup {EpochOf(m + 1)}],
           NEW r, r = [d EXCEPT !.man = man]
    PROVE  Store(c, r, m + 1)
<1>1. Len(c) \in 0..MaxHeight /\ m \in Nat /\ m + 1 <= Len(c)
  BY ChainFacts DEF Disks, Manifests, Store
<1>2. m + 1 \in 1..MaxHeight /\ EpochSpan \in Nat /\ EpochSpan > 0
  BY <1>1, Numbers
<1>3. PICK e0 : e0 = EpochOf(m + 1)
  OBVIOUS
<1>4. e0 \in Epochs /\ e0 \in Nat /\ Base(e0) \in Nat /\ Base(e0) < m + 1 /\ m + 1 <= Base(e0) + EpochSpan
  BY <1>2, <1>3, EpochRange, EpochBounds, BaseGrows
<1>5. ASSUME NEW e \in Epochs PROVE Base(e) < m + 1 <=> Base(e) < m \/ e = e0
  <2>1. e \in Nat /\ Base(e) \in Nat
    BY EpochRange, BaseGrows
  <2>2. CASE e = e0
    BY <1>4, <2>2
  <2>3. CASE e < e0
    <3>1. Base(e) + EpochSpan <= Base(e0)
      BY <1>4, <2>1, <2>3, BaseGrows
    <3>2. QED  BY <1>1, <1>2, <1>4, <2>1, <3>1
  <2>4. CASE e0 < e
    <3>1. Base(e0) + EpochSpan <= Base(e)
      BY <1>4, <2>1, <2>4, BaseGrows
    <3>2. QED  BY <1>1, <1>2, <1>4, <2>1, <2>4, <3>1
  <2>5. QED  BY <1>4, <2>1, <2>2, <2>3, <2>4
<1>6. d.man.rows = {e \in Epochs : Base(e) < m}
  BY DEF Store, ManifestHolds
<1>7. man.rows = {e \in Epochs : Base(e) < m + 1}
  BY <1>3, <1>4, <1>5, <1>6
<1>8. ManifestHolds(man, c)
  BY <1>1, <1>7 DEF ManifestHolds
<1>9. r.man = man /\ r.sum = d.sum /\ r.files = d.files
  BY DEF Disks
<1>10. SummaryHolds(d.sum, man, c)
  BY <1>1 DEF Store, SummaryHolds
<1>11. QED  BY <1>1, <1>8, <1>9, <1>10 DEF Store

\* A manifest of height 0 is none.
LEMMA NoManifestIff ==
    ASSUME NEW c, NEW d \in Disks, NEW w, Store(c, d, w)
    PROVE  d.man = NoManifest <=> d.man.h = 0
<1>1. d.man \in Manifests
  BY DEF Disks
<1>2. ASSUME d.man.h = 0 PROVE d.man = NoManifest
  <2>1. d.man.tip = 0
    BY <1>2 DEF Store, ManifestHolds
  <2>2. d.man.rows = {}
    <3>1. \A e \in Epochs : Base(e) \in Nat
      BY EpochRange, BaseGrows
    <3>2. QED  BY <1>2, <3>1 DEF Store, ManifestHolds
  <2>3. QED  BY <1>1, <1>2, <2>1, <2>2 DEF Manifests, NoManifest
<1>3. QED  BY <1>2 DEF NoManifest

\* A summary that is not hollow.
LEMMA StoreSaved ==
    ASSUME TypeInv, NEW w \in Nat, Store(chain, disk, w),
           NEW s \in {Checkpoint, Monolith}, ~Hollow(s), NEW r, r = [disk EXCEPT !.sum = s]
    PROVE  Store(chain, r, w)
<1>1. disk \in Disks /\ chain \in Chains
  BY DEF TypeInv, Threads
<1>2. Len(chain) \in Nat /\ disk.man.h \in Nat /\ disk.man.h <= Len(chain)
  BY <1>1, ChainFacts DEF Store, Disks, Manifests
<1>3. r.man = disk.man /\ r.sum = s /\ r.files = disk.files
  BY <1>1 DEF Disks
<1>4. CASE s = Checkpoint
  <2>1. disk.man # NoManifest
    BY <1>4 DEF Hollow, Checkpoint
  <2>2. disk.man.h >= 1
    BY <1>1, <1>2, <2>1, NoManifestIff
  <2>3. chain # <<>> /\ TipOf(chain) = chain[Len(chain)] /\ Len(chain) \in 1..Len(chain)
    BY <1>1, <1>2, <2>2, ChainFacts
  <2>4. SummaryHolds(s, disk.man, chain)
    BY <1>4, <2>2, <2>3 DEF Checkpoint, SummaryHolds
  <2>5. QED  BY <1>3, <2>4 DEF Store
<1>5. CASE s = Monolith
  <2>1. ~Boundary(Len(chain))
    BY <1>5 DEF Hollow, Monolith, Boundary
  <2>2. Begins(chain, chain)
    BY <1>2 DEF Begins
  <2>3. SummaryHolds(s, disk.man, chain)
    BY <1>5, <2>1, <2>2 DEF Monolith, SummaryHolds
  <2>4. QED  BY <1>3, <2>3 DEF Store
<1>6. QED  BY <1>4, <1>5

-----------------------------------------------------------------------------
(* What a start reads.                                                     *)

\* The lines of the listed files are the chain up to the manifest.
LEMMA LinesHold ==
    ASSUME chain \in Chains, disk \in Disks, Store(chain, disk, disk.man.h)
    PROVE  Len(Lines) = disk.man.h /\ \A j \in 1..disk.man.h : Lines[j] = chain[j]
<1>1. Len(chain) \in 0..MaxHeight /\ disk.man.h \in Nat /\ disk.man.h <= Len(chain)
  BY ChainFacts DEF Store, Disks, Manifests
<1>2. PICK n \in Nat : n = disk.man.h
  BY <1>1
<1>3. PICK s \in Seq(Seq(Blocks)) : s = Listed
  BY LinesType
<1>4. Len(s) = Cardinality(Epochs) /\ Len(s) >= 1
  BY <1>3, EpochRange DEF Listed
<1>5. n <= Base(Len(s))
  <2>1. MaxHeight <= Base(Len(s)) /\ Base(Len(s)) \in Nat
    BY <1>4, EpochRange, BaseGrows
  <2>2. QED  BY <1>1, <1>2, <2>1, Numbers
<1>6. ASSUME NEW i \in 1..Len(s)
      PROVE  /\ Len(s[i]) = Fill(i - 1, n)
             /\ \A j \in 1..Len(s[i]) : s[i][j] = chain[Base(i - 1) + j]
  <2>1. i - 1 \in Epochs /\ i - 1 \in Nat
    BY <1>4, EpochRange
  <2>2. s[i] = IF i - 1 \in disk.man.rows THEN disk.files[i - 1] ELSE <<>>
    BY <1>3, <1>4 DEF Listed
  <2>3. disk.man.rows = {e \in Epochs : Base(e) < n}
    BY <1>2 DEF Store, ManifestHolds
  <2>4. /\ Len(disk.files[i - 1]) = Fill(i - 1, n)
        /\ \A j \in 1..Len(disk.files[i - 1]) : disk.files[i - 1][j] = chain[Base(i - 1) + j]
    BY <1>2, <2>1 DEF Store, FilesHold
  <2>5. CASE Base(i - 1) < n
    <3>1. s[i] = disk.files[i - 1]
      BY <2>1, <2>2, <2>3, <2>5
    <3>2. QED  BY <2>4, <3>1
  <2>6. CASE ~(Base(i - 1) < n)
    <3>1. s[i] = <<>>
      BY <2>2, <2>3, <2>6
    <3>2. Fill(i - 1, n) = 0
      <4>1. Base(i - 1) \in Nat
        BY <2>1, BaseGrows
      <4>2. n <= Base(i - 1)
        BY <2>6, <4>1
      <4>3. QED  BY <2>1, <4>2, FillFacts
    <3>3. Len(s[i]) = 0
      BY <3>1
    <3>4. QED  BY <3>2, <3>3
  <2>7. QED  BY <2>5, <2>6
<1>7. chain \in Seq(Blocks) /\ n <= Len(chain)
  BY <1>1, <1>2 DEF Chains
<1>8. Len(FlattenSeq(s)) = n /\ \A j \in 1..n : FlattenSeq(s)[j] = chain[j]
  BY <1>4, <1>5, <1>6, <1>7, FlattenChain
<1>9. QED  BY <1>2, <1>3, <1>8, LinesType

\* The blocks answered for are in a beginning of the chain that is long
\* enough.
LEMMA KeptLines ==
    ASSUME NEW c \in Chains, NEW t \in Chains, Begins(t, c), NEW d, NEW bs, Kept(bs, c, d),
           Len(t) = IF d.sum.kind = "inline" THEN Len(d.sum.blocks) ELSE d.man.h
    PROVE  Kept(bs, t, d)
<1>1. Len(c) \in Nat /\ Len(t) \in Nat /\ Len(t) <= Len(c) /\ \A i \in 1..Len(t) : t[i] = c[i]
  BY ChainFacts DEF Begins
<1>2. ASSUME NEW b \in bs PROVE In(b, t) /\ b.h <= Len(t)
  <2>1. b.h \in 1..Len(c) /\ c[b.h] = b /\ b.h <= Len(t)
    BY DEF Kept, In
  <2>2. QED  BY <1>1, <2>1 DEF In
<1>3. QED  BY <1>2 DEF Kept

\* Files between two appends give a start the beginning of the chain, with
\* every block that was answered for, and the files hold it in turn.
LEMMA StoreLoads ==
    ASSUME TypeInv, Store(chain, disk, disk.man.h), Kept(acked, chain, disk)
    PROVE  /\ Loads /\ Loaded \in Chains /\ Begins(Loaded, chain)
           /\ disk.sum.kind # "inline" => Len(Loaded) = disk.man.h
           /\ Kept(acked, Loaded, disk)
<1>1. disk \in Disks /\ chain \in Chains /\ disk.man \in Manifests /\ disk.sum \in Summaries
  BY DEF TypeInv, Threads, Disks
<1>2. Len(chain) \in Nat /\ disk.man.h \in Nat /\ disk.man.h <= Len(chain)
      /\ \A i \in 1..Len(chain) : /\ chain[i] \in Blocks /\ chain[i].h = i
                                  /\ chain[i].prev = (IF i = 1 THEN 0 ELSE chain[i - 1].id)
  BY <1>1, ChainFacts DEF Store, Manifests
<1>3. Len(Lines) = disk.man.h /\ \A j \in 1..disk.man.h : Lines[j] = chain[j]
  BY <1>1, LinesHold
<1>4. Lines \in Seq(Blocks) /\ DOMAIN Lines = 1..disk.man.h
  BY <1>1, <1>3, LinesType, LenProperties
<1>5. Linked(Lines)
  <2> SUFFICES ASSUME NEW i \in 1..disk.man.h
               PROVE  Lines[i].h = i /\ Lines[i].prev = (IF i = 1 THEN 0 ELSE Lines[i - 1].id)
    BY <1>4 DEF Linked
  <2>1. i \in 1..Len(chain) /\ (i # 1 => i - 1 \in 1..disk.man.h)
    BY <1>2
  <2>2. QED  BY <1>2, <1>3, <2>1
<1>6. Verified /\ Lines \in Chains /\ Begins(Lines, chain)
  BY <1>2, <1>3, <1>4, <1>5 DEF Verified, Chains, Begins
<1>7. disk.man.h >= 1 => TipOf(Lines) = chain[disk.man.h] /\ disk.man.tip = chain[disk.man.h].id
  <2> SUFFICES ASSUME disk.man.h >= 1
               PROVE  TipOf(Lines) = chain[disk.man.h] /\ disk.man.tip = chain[disk.man.h].id
    OBVIOUS
  <2>1. Len(Lines) \in 1..disk.man.h /\ disk.man.h # 0
    BY <1>2, <1>3
  <2>2. Lines # <<>>
    BY <1>3, <1>4, <2>1, EmptySeq
  <2>3. TipOf(Lines) = Lines[Len(Lines)]
    BY <1>6, <2>2, ChainFacts
  <2>4. QED  BY <1>3, <2>1, <2>3 DEF Store, ManifestHolds
<1>8. disk.man = NoManifest <=> disk.man.h = 0
  BY <1>1, NoManifestIff
<1>9. CASE disk.sum = NoSummary
  <2>1. disk.sum.kind = "none" /\ disk.sum.h = 0
    BY <1>9 DEF NoSummary
  <2>2. Loads
    BY <1>2, <1>6, <1>8, <2>1 DEF Loads, FullVerify
  <2>3. Loaded = Lines
    BY <2>1 DEF Loaded
  <2>4. QED  BY <1>1, <1>3, <1>6, <2>1, <2>2, <2>3, KeptLines
<1>10. CASE disk.sum.kind = "inline"
  <2>1. Loads /\ Loaded = disk.sum.blocks /\ disk.sum.blocks \in Chains
    BY <1>1, <1>10 DEF Loads, Loaded, Summaries
  <2>2. Begins(Loaded, chain)
    BY <1>10, <2>1 DEF Store, SummaryHolds, NoSummary
  <2>3. QED  BY <1>1, <1>10, <2>1, <2>2, KeptLines
<1>11. CASE disk.sum.kind = "epochs"
  <2>1. disk.man.h >= 1 /\ disk.sum.h \in 1..Len(chain) /\ disk.sum.st = chain[disk.sum.h].id
    BY <1>11 DEF Store, SummaryHolds, NoSummary
  <2>2. disk.man # NoManifest
    BY <1>2, <1>8, <2>1
  <2>3. CASE disk.man.h = disk.sum.h
    <3>1. Trusted
      BY <1>6, <1>7, <2>1, <2>2, <2>3 DEF Trusted
    <3>2. Loads /\ Loaded = Lines
      BY <1>11, <2>3, <3>1 DEF Loads, FullVerify, Loaded
    <3>3. QED  BY <1>1, <1>3, <1>6, <1>11, <3>2, KeptLines
  <2>4. CASE disk.man.h # disk.sum.h
    <3>1. Loads /\ Loaded = Lines
      BY <1>6, <1>11, <2>2, <2>4 DEF Loads, FullVerify, Loaded
    <3>2. QED  BY <1>1, <1>3, <1>6, <1>11, <3>1, KeptLines
  <2>5. QED  BY <2>3, <2>4
<1>12. QED  BY <1>9, <1>10, <1>11 DEF Store, SummaryHolds

-----------------------------------------------------------------------------
(* The invariant of the files.                                             *)

Busy(a) == app[a].pc # "none"

\* The height of the last line on disk.
Written == IF \E a \in Appenders : app[a].pc = "manifest" THEN disk.man.h + 1 ELSE disk.man.h

\* One append at a time, of the next block, from the manifest as it is.
Appending ==
    /\ \A a, o \in Appenders : Busy(a) /\ Busy(o) => a = o
    /\ \A a \in Appenders : Busy(a) => /\ app[a].blk.h = disk.man.h + 1
                                       /\ In(app[a].blk, chain)
                                       /\ app[a].man = disk.man
    /\ ~up => \A a \in Appenders : app[a].pc # "manifest"

DiskInv == /\ ~late.on
           /\ Ordered(chain, born)
           /\ Appending
           /\ Store(chain, disk, Written)
           /\ Kept(acked, chain, disk)

\* A height that ends an epoch is on disk.
Covered(n) == Boundary(n) => disk.man.h >= n

\* At most one line is ahead of the manifest.
LEMMA WrittenFacts ==
    ASSUME TypeInv, DiskInv
    PROVE  /\ disk.man.h \in Nat /\ Written \in {disk.man.h, disk.man.h + 1}
           /\ Written \in Nat /\ Written <= Len(chain)
<1>1. disk.man.h \in Nat
  BY DEF TypeInv, Disks, Manifests
<1>2. QED  BY <1>1 DEF Written, DiskInv, Store

\* A step that moves neither chain nor files keeps their invariant.
LEMMA DiskSame ==
    ASSUME TypeInv, DiskInv, UNCHANGED <<chain, born, app, disk, acked>>, ~late'.on,
           ~up' => \A a \in Appenders : app[a].pc # "manifest"
    PROVE  DiskInv'
<1>1. Written' = Written
  BY DEF Written
<1>2. Appending'
  BY DEF Appending, Busy, DiskInv
<1>3. QED  BY <1>1, <1>2 DEF DiskInv

\* A block added in memory leaves the files a beginning of the chain.
LEMMA DiskGrows ==
    ASSUME TypeInv, DiskInv, chain' = Append(chain, NewBlock), born' = born + 1,
           Len(chain) < MaxHeight, born < MaxBlocks,
           UNCHANGED <<app, disk, acked, up, late>>
    PROVE  /\ DiskInv' /\ chain' \in Chains /\ Begins(chain, chain')
           /\ Len(chain') = Len(chain) + 1 /\ chain'[Len(chain) + 1] = NewBlock
           /\ In(NewBlock, chain')
<1>1. chain \in Chains /\ born \in 0..MaxBlocks /\ born \in Nat /\ disk \in Disks
  BY Numbers DEF TypeInv, Threads, Rest
<1>2. PICK b, c : b = NewBlock /\ c = chain'
  OBVIOUS
<1>3. /\ c \in Chains /\ Len(c) = Len(chain) + 1 /\ c[Len(chain) + 1] = b
      /\ \A i \in 1..Len(chain) : c[i] = chain[i]
      /\ b.h = Len(chain) + 1 /\ b.id = born + 1
  BY <1>1, <1>2, GrowChain
<1>4. Len(chain) \in Nat
  BY <1>1, ChainFacts
<1>5. Begins(chain, c)
  BY <1>3, <1>4 DEF Begins
<1>6. In(b, c)
  BY <1>3, <1>4 DEF In
<1>7. Ordered(c, born + 1)
  <2>1. \A i \in 1..Len(chain) : chain[i].id \in 1..born
    BY DEF DiskInv, Ordered
  <2>2. \A i \in 1..Len(c) : i \in 1..Len(chain) \/ i = Len(chain) + 1
    BY <1>3, <1>4
  <2>3. \A i \in 1..Len(c) : c[i].id \in 1..(born + 1) /\ (i \in 1..Len(chain) => c[i].id <= born)
    BY <1>1, <1>3, <2>1, <2>2
  <2>4. ASSUME NEW i \in 1..Len(c), NEW j \in 1..Len(c), i < j PROVE c[i].id < c[j].id
    <3>1. i \in 1..Len(chain)
      BY <1>3, <1>4, <2>4
    <3>2. CASE j \in 1..Len(chain)
      BY <1>3, <2>4, <3>1, <3>2 DEF DiskInv, Ordered
    <3>3. CASE j = Len(chain) + 1
      BY <1>1, <1>3, <2>3, <3>1, <3>3
    <3>4. QED  BY <2>2, <3>2, <3>3
  <2>5. QED  BY <2>3, <2>4 DEF Ordered
<1>8. Written' = Written /\ Written \in Nat
  BY WrittenFacts DEF Written
<1>9. Store(c, disk, Written)
  BY <1>1, <1>3, <1>5, <1>8, StoreGrows DEF DiskInv
<1>10. Kept(acked, c, disk)
  BY <1>1, <1>3, <1>5, KeptGrows DEF DiskInv
<1>11. Appending'
  <2>1. \A x : In(x, chain) => In(x, c)
    BY <1>1, <1>3, <1>5, BeginsFacts
  <2>2. QED  BY <1>2, <2>1 DEF Appending, Busy, DiskInv
<1>12. QED  BY <1>2, <1>3, <1>5, <1>6, <1>7, <1>8, <1>9, <1>10, <1>11 DEF DiskInv

\* A rollback that loses nothing on disk or on its way there.
LEMMA DiskCut ==
    ASSUME TypeInv, DiskInv, NEW c \in Chains, Begins(c, chain), Restore(c), harm' = {},
           UNCHANGED <<born, app, disk, acked, up, late>>
    PROVE  /\ DiskInv' /\ chain' = c /\ disk.man.h <= Len(c)
           /\ \A b \in OnWay : In(b, chain) => In(b, c)
<1>1. chain \in Chains /\ disk \in Disks
  BY DEF TypeInv, Threads
<1>2. chain' = c /\ Ids(OnDisk \cup OnWay) \cup {disk.sum.st} \subseteq Ids(ToSet(c)) \cup {0}
  BY DEF Restore
<1>3. Blocks0(disk) = OnDisk
  BY DEF Blocks0, OnDisk
<1>4. Ids(Blocks0(disk)) \cup {disk.sum.st} \subseteq Ids(ToSet(c)) \cup {0}
  BY <1>2, <1>3 DEF Ids
<1>5. Written' = Written /\ Written \in Nat /\ disk.man.h \in Nat /\ Written >= disk.man.h
  BY WrittenFacts DEF Written
<1>6. Ordered(chain, born)
  BY DEF DiskInv
<1>7. Store(c, disk, Written)
  BY <1>1, <1>4, <1>5, <1>6, StoreCut DEF DiskInv
<1>8. Kept(acked, c, disk)
  BY <1>1, <1>5, <1>7, KeptCut DEF DiskInv
<1>9. Len(c) \in Nat /\ Len(chain) \in Nat /\ Len(c) <= Len(chain) /\ \A i \in 1..Len(c) : c[i] = chain[i]
  BY <1>1, ChainFacts DEF Begins
<1>10. ASSUME NEW b \in OnWay, In(b, chain) PROVE In(b, c)
  <2>1. b.h \in 1..Len(chain) /\ chain[b.h] = b
    BY <1>10 DEF In
  <2>2. b.id \in Ids(OnDisk \cup OnWay)
    BY DEF Ids
  <2>3. chain[b.h].id \in Ids(ToSet(c)) \cup {0}
    BY <1>2, <2>1, <2>2
  <2>4. b.h \in 1..Len(c)
    BY <1>1, <1>6, <2>1, <2>3, CutKeeps
  <2>5. QED  BY <1>9, <2>1, <2>4 DEF In
<1>11. Ordered(c, born)
  <2>1. \A i \in 1..Len(c) : i \in 1..Len(chain) /\ c[i] = chain[i]
    BY <1>9
  <2>2. QED  BY <1>6, <2>1 DEF Ordered
<1>12. Appending'
  <2>1. \A a \in Appenders : app[a].blk \in OnWay
    BY DEF OnWay
  <2>2. \A a \in Appenders : In(app[a].blk, chain) => In(app[a].blk, c)
    BY <1>10, <2>1
  <2>3. QED  BY <1>2, <2>2 DEF Appending, Busy, DiskInv
<1>13. disk.man.h <= Len(c)
  BY <1>5, <1>7, <1>9 DEF Store
<1>14. QED  BY <1>2, <1>5, <1>7, <1>8, <1>10, <1>11, <1>12, <1>13 DEF DiskInv

\* The block to append is the next one.
LEMMA NextBlock ==
    ASSUME TypeInv, DiskInv, \A a \in Appenders : ~Busy(a),
           NEW b, In(b, chain), Covered(b.h - 1), Appendable(b)
    PROVE  b.h = disk.man.h + 1
<1>1. chain \in Chains /\ disk \in Disks
  BY DEF TypeInv, Threads
<1>2. PICK m \in Nat : m = disk.man.h
  BY WrittenFacts
<1>3. Written = m
  BY <1>2 DEF Written, Busy
<1>4. PICK h : h = b.h
  OBVIOUS
<1>5. h \in 1..Len(chain) /\ h \in 1..MaxHeight /\ h \in Nat /\ m <= Len(chain) /\ Len(chain) \in Nat
  <2>1. h \in 1..Len(chain) /\ Len(chain) \in 0..MaxHeight
    BY <1>1, <1>4, ChainFacts DEF In
  <2>2. QED  BY <1>2, <1>3, <2>1, Numbers, WrittenFacts
<1>6. PICK e \in Epochs : e = EpochOf(h)
  BY <1>5, EpochRange
<1>7. e \in Nat /\ Base(e) \in Nat /\ Base(e) < h /\ h <= Base(e) + EpochSpan /\ EpochSpan \in Nat /\ EpochSpan > 0
  <2>1. h >= 1 /\ h \in Nat
    BY <1>5
  <2>2. e \in Nat /\ Base(e) < h /\ h <= Base(e) + EpochSpan
    BY <1>6, <2>1, EpochBounds
  <2>3. QED  BY <2>2, BaseGrows, Numbers
<1>8. Len(disk.files[e]) = Fill(e, m) /\ \A i \in 1..Len(disk.files[e]) : disk.files[e][i] = chain[Base(e) + i]
  BY <1>3 DEF DiskInv, Store, FilesHold
<1>9. PICK last : last = TipOf(disk.files[e]).h
  OBVIOUS
<1>10. IF last = 0 THEN h = Base(e) + 1 ELSE last = h - 1
  BY <1>4, <1>6, <1>9 DEF Appendable, Base
<1>11. disk.files[e] \in Seq(Blocks)
  BY <1>1 DEF Disks
<1>12. CASE m <= Base(e)
  <2>1. Fill(e, m) = 0
    BY <1>2, <1>7, <1>12, FillFacts
  <2>2. disk.files[e] = <<>>
    BY <1>8, <1>11, <2>1, EmptySeq
  <2>3. last = 0
    BY <1>9, <2>2 DEF TipOf, NoBlock
  <2>4. h = Base(e) + 1
    BY <1>10, <2>3
  <2>5. Boundary(h - 1)
    <3>1. h - 1 = Base(e)
      BY <1>7, <2>4
    <3>2. QED  BY <1>7, <3>1, BoundaryFacts
  <2>6. m >= h - 1
    BY <1>2, <1>4, <2>5 DEF Covered
  <2>7. QED  BY <1>2, <1>4, <1>7, <1>12, <2>4, <2>6
<1>13. CASE ~(m <= Base(e))
  <2>1. PICK k : k = Fill(e, m)
    OBVIOUS
  <2>2. k \in Nat /\ k >= 1 /\ k = (IF m <= Base(e) + EpochSpan THEN m - Base(e) ELSE EpochSpan)
    BY <1>7, <1>13, <2>1 DEF Fill
  <2>3. Len(disk.files[e]) = k /\ k \in 1..Len(disk.files[e])
    BY <1>8, <2>1, <2>2
  <2>4. TipOf(disk.files[e]) = chain[Base(e) + k]
    <3>1. disk.files[e] # <<>>
      BY <1>11, <2>2, <2>3, EmptySeq
    <3>2. TipOf(disk.files[e]) = disk.files[e][k]
      BY <2>3, <3>1 DEF TipOf, Last
    <3>3. QED  BY <1>8, <2>3, <3>2
  <2>5. Base(e) + k \in 1..Len(chain)
    BY <1>5, <1>7, <2>2
  <2>6. last = Base(e) + k
    BY <1>1, <1>9, <2>4, <2>5, ChainFacts
  <2>7. last = h - 1
    BY <1>7, <1>10, <2>2, <2>6
  <2>8. h - 1 = Base(e) + k
    BY <2>6, <2>7
  <2>9. CASE m <= Base(e) + EpochSpan
    <3>1. k = m - Base(e)
      BY <2>2, <2>9
    <3>2. h = m + 1
      BY <1>5, <1>7, <2>8, <3>1
    <3>3. QED  BY <1>2, <1>4, <3>2
  <2>10. CASE ~(m <= Base(e) + EpochSpan)
    BY <1>2, <1>5, <1>7, <2>2, <2>8, <2>10
  <2>11. QED  BY <2>9, <2>10
<1>14. QED  BY <1>12, <1>13

\* An append that begins alone takes the next block.
LEMMA DiskBegins ==
    ASSUME TypeInv, DiskInv, up, NEW a \in Appenders, NEW b, In(b, chain), Covered(b.h - 1),
           Appendable(b), BeginAppend(a, b), harm' = {},
           UNCHANGED <<chain, born, disk, acked, up, late>>
    PROVE  DiskInv' /\ Busy(a)' /\ app'[a].blk = b
<1>1. \A o \in Appenders : ~Busy(o)
  BY DEF BeginAppend, Busy
<1>2. b.h = disk.man.h + 1
  BY <1>1, NextBlock
<1>3. app' = [app EXCEPT ![a] = [pc |-> "line", blk |-> b, man |-> disk.man]]
  BY DEF BeginAppend
<1>4. app \in [Appenders -> Apps]
  BY DEF TypeInv, Threads
<1>5. app'[a] = [pc |-> "line", blk |-> b, man |-> disk.man] /\ \A o \in Appenders : o # a => app'[o] = app[o]
  BY <1>3, <1>4
<1>6. Written' = Written
  BY <1>1, <1>5 DEF Written, Busy
<1>7. Appending'
  BY <1>1, <1>2, <1>5 DEF Appending, Busy, DiskInv
<1>8. QED  BY <1>5, <1>6, <1>7 DEF DiskInv, Busy

\* The line of the append under way is the next block's.
LEMMA DiskLine ==
    ASSUME TypeInv, DiskInv, NEW a \in Appenders, WriteLine(a)
    PROVE  /\ DiskInv' /\ disk'.man = disk.man /\ disk'.sum = disk.sum
           /\ \A o \in Appenders : app'[o].blk = app[o].blk /\ (Busy(o)' <=> Busy(o))
<1>1. chain \in Chains /\ disk \in Disks /\ app \in [Appenders -> Apps] /\ chain' = chain
  BY DEF TypeInv, Threads, WriteLine
<1>2. PICK m \in Nat : m = disk.man.h
  BY WrittenFacts
<1>3. Busy(a) /\ app[a].pc = "line" /\ up
  BY DEF WriteLine, Busy
<1>4. \A o \in Appenders : o # a => ~Busy(o)
  BY <1>3 DEF DiskInv, Appending
<1>5. Written = m
  BY <1>2, <1>3, <1>4 DEF Written, Busy
<1>6. PICK b : b = app[a].blk
  OBVIOUS
<1>7. b.h = m + 1 /\ In(b, chain)
  BY <1>2, <1>3, <1>6 DEF DiskInv, Appending
<1>8. b = chain[m + 1] /\ m + 1 \in 1..Len(chain)
  BY <1>7 DEF In
<1>9. PICK e0 : e0 = EpochOf(m + 1)
  OBVIOUS
<1>10. disk' = [disk EXCEPT !.files[e0] = Append(disk.files[e0], chain[m + 1])]
  BY <1>6, <1>7, <1>8, <1>9 DEF WriteLine
<1>11. Store(chain, disk', m + 1)
  <2>1. m + 1 <= Len(chain) /\ Store(chain, disk, m)
    BY <1>5, <1>8 DEF DiskInv
  <2>2. QED  BY <1>1, <1>9, <1>10, <2>1, StoreLine
<1>12. disk'.man = disk.man /\ disk'.sum = disk.sum
  BY <1>1, <1>10 DEF Disks
<1>13. app' = [app EXCEPT ![a].pc = "manifest"]
  BY DEF WriteLine
<1>14. /\ app'[a].pc = "manifest" /\ app'[a].blk = b /\ app'[a].man = app[a].man
       /\ \A o \in Appenders : o # a => app'[o] = app[o]
  <2>1. app[a] \in [pc : {"none", "line", "manifest"}, blk : Blocks, man : Manifests]
    BY <1>1 DEF Apps
  <2>2. QED  BY <1>1, <1>6, <1>13, <2>1
<1>15. Written' = m + 1
  <2>1. \E o \in Appenders : app'[o].pc = "manifest"
    BY <1>14
  <2>2. QED  BY <1>2, <1>12, <2>1 DEF Written
<1>16. Appending'
  <2>1. up'
    BY <1>3 DEF WriteLine, life
  <2>2. \A o \in Appenders : Busy(o)' => o = a
    BY <1>4, <1>14 DEF Busy
  <2>3. app[a].man = disk.man
    BY <1>3 DEF DiskInv, Appending
  <2>4. QED  BY <1>1, <1>2, <1>7, <1>12, <1>14, <2>1, <2>2, <2>3 DEF Appending
<1>17. Kept(acked, chain, disk)'
  BY <1>1, <1>12 DEF DiskInv, Kept, WriteLine, history
<1>18. \A o \in Appenders : app'[o].blk = app[o].blk /\ (Busy(o)' <=> Busy(o))
  BY <1>3, <1>6, <1>14 DEF Busy
<1>19. ~late'.on /\ Ordered(chain', born')
  BY <1>1 DEF DiskInv, WriteLine, counters
<1>20. QED  BY <1>1, <1>11, <1>12, <1>15, <1>16, <1>17, <1>18, <1>19 DEF DiskInv

\* The manifest that is replaced is the one the append has read.
LEMMA DiskEnds ==
    ASSUME TypeInv, DiskInv, NEW a \in Appenders, NEW ok \in BOOLEAN, EndAppend(a, ok), harm' = {},
           UNCHANGED <<chain, born, acked, up, late>>
    PROVE  /\ DiskInv' /\ disk'.sum = disk.sum /\ disk'.man.h \in Nat /\ disk'.man.h >= disk.man.h
           /\ ok => disk'.man.h = app[a].blk.h
           /\ Busy(a) /\ ~Busy(a)' /\ \A o \in Appenders : o # a => ~Busy(o)
<1>1. chain \in Chains /\ disk \in Disks /\ app \in [Appenders -> Apps]
  BY DEF TypeInv, Threads
<1>2. PICK m \in Nat : m = disk.man.h
  BY WrittenFacts
<1>3. Busy(a) /\ up
  BY DEF EndAppend, Busy
<1>4. \A o \in Appenders : o # a => ~Busy(o)
  BY <1>3 DEF DiskInv, Appending
<1>5. PICK b : b = app[a].blk
  OBVIOUS
<1>6. b.h = m + 1 /\ In(b, chain) /\ app[a].man = disk.man
  BY <1>2, <1>3, <1>5 DEF DiskInv, Appending
<1>7. app'[a] = NoAppend /\ \A o \in Appenders : o # a => app'[o] = app[o]
  BY <1>1 DEF EndAppend
<1>8. \A o \in Appenders : ~Busy(o)' /\ app'[o].pc # "manifest"
  BY <1>4, <1>7 DEF Busy, NoAppend
<1>9. Appending'
  BY <1>8 DEF Appending
<1>10. Written' = disk'.man.h
  BY <1>8 DEF Written
<1>11. CASE ok
  <2>1. app[a].pc = "manifest" /\ disk' = [disk EXCEPT !.man = Manifest(a)]
    BY <1>11 DEF EndAppend
  <2>2. Written = m + 1
    BY <1>2, <2>1 DEF Written
  <2>3. Manifest(a) = [h |-> m + 1, tip |-> chain[m + 1].id, rows |-> disk.man.rows \cup {EpochOf(m + 1)}]
    BY <1>5, <1>6 DEF Manifest, In
  <2>4. Store(chain, disk, m + 1)
    BY <2>2 DEF DiskInv
  <2>5. Store(chain, disk', m + 1)
    BY <1>1, <1>2, <2>1, <2>3, <2>4, StoreManifest
  <2>6. disk'.man.h = m + 1 /\ disk'.sum = disk.sum
    BY <1>1, <2>1, <2>3 DEF Disks
  <2>7. Kept(acked, chain, disk')
    <3> SUFFICES ASSUME NEW x \in acked
                 PROVE  In(x, chain) /\ x.h <= (IF disk'.sum.kind = "inline" THEN Len(disk'.sum.blocks) ELSE disk'.man.h)
      BY DEF Kept
    <3>1. In(x, chain) /\ x.h <= (IF disk.sum.kind = "inline" THEN Len(disk.sum.blocks) ELSE m)
      BY <1>2 DEF DiskInv, Kept
    <3>2. x.h \in Nat
      BY <1>1, <3>1, ChainFacts DEF In
    <3>3. QED  BY <1>2, <2>6, <3>1, <3>2
  <2>8. QED  BY <1>2, <1>3, <1>4, <1>5, <1>6, <1>8, <1>9, <1>10, <2>5, <2>6, <2>7 DEF DiskInv
<1>12. CASE ~ok
  <2>1. disk' = disk /\ app[a].pc = "line"
    BY <1>12 DEF EndAppend
  <2>2. Written = m
    BY <1>2, <1>4, <2>1 DEF Written, Busy
  <2>3. QED  BY <1>2, <1>3, <1>4, <1>8, <1>9, <1>10, <1>12, <2>1, <2>2 DEF DiskInv
<1>13. QED  BY <1>11, <1>12

\* A summary that hides no block takes the place of the old one.
LEMMA DiskSaved ==
    ASSUME TypeInv, DiskInv, NEW s \in {Checkpoint, Monolith}, NEW ok \in BOOLEAN,
           WriteSummary(s, ok), harm' = {}, UNCHANGED <<chain, born, app, acked, up, late>>
    PROVE  /\ DiskInv' /\ disk'.man = disk.man
           /\ ~ok => disk' = disk
           /\ ok => disk'.sum = s /\ ~Hollow(s)
<1>1. chain \in Chains /\ disk \in Disks
  BY DEF TypeInv, Threads
<1>2. PICK m \in Nat : m = disk.man.h
  BY WrittenFacts
<1>3. CASE ok
  <2>1. disk' = [disk EXCEPT !.sum = s] /\ ~Hollow(s)
    BY <1>3 DEF WriteSummary
  <2>2. disk'.man = disk.man /\ disk'.sum = s
    BY <1>1, <2>1 DEF Disks
  <2>3. Written' = Written /\ Written \in Nat
    BY <2>2, WrittenFacts DEF Written
  <2>4. Store(chain, disk', Written)
    BY <2>1, <2>3, StoreSaved DEF DiskInv
  <2>5. Appending'
    BY <2>2 DEF DiskInv, Appending, Busy
  <2>6. Kept(acked, chain, disk')
    <3> SUFFICES ASSUME NEW x \in acked
                 PROVE  In(x, chain) /\ x.h <= (IF disk'.sum.kind = "inline" THEN Len(disk'.sum.blocks) ELSE disk'.man.h)
      BY DEF Kept
    <3>1. In(x, chain) /\ x.h <= (IF disk.sum.kind = "inline" THEN Len(disk.sum.blocks) ELSE m)
      BY <1>2 DEF DiskInv, Kept
    <3>2. x.h \in Nat /\ x.h <= Len(chain) /\ Len(chain) \in Nat
      BY <1>1, <3>1, ChainFacts DEF In
    <3>3. CASE s = Checkpoint
      <4>1. s.kind = "epochs"
        BY <3>3 DEF Checkpoint
      <4>2. disk.sum.kind = "inline" => m >= Len(chain)
        <5>1. disk.sum.kind = "inline" => ~(m < Len(chain))
          BY <1>2, <2>1, <4>1 DEF Hollow
        <5>2. QED  BY <1>2, <3>2, <5>1
      <4>3. QED  BY <1>2, <2>2, <3>1, <3>2, <4>1, <4>2
    <3>4. CASE s = Monolith
      <4>1. s.kind = "inline" /\ s.blocks = chain
        BY <3>4 DEF Monolith
      <4>2. QED  BY <2>2, <3>1, <3>2, <4>1
    <3>5. QED  BY <3>3, <3>4
  <2>7. QED  BY <1>3, <2>1, <2>2, <2>3, <2>4, <2>5, <2>6 DEF DiskInv
<1>4. CASE ~ok
  <2>1. disk' = disk
    BY <1>4 DEF WriteSummary
  <2>2. Appending' /\ Written' = Written
    BY <2>1 DEF DiskInv, Appending, Busy, Written
  <2>3. QED  BY <1>4, <2>1, <2>2 DEF DiskInv
<1>5. QED  BY <1>3, <1>4

-----------------------------------------------------------------------------
(* The invariant of the threads.                                           *)

\* The seal loop persists a block, or seals no more until the next start.
Sealing == seal.pc \notin {"idle", "turn"}
Over    == seal.pc = "idle" /\ stop # "no"

\* The commit whose block may be undone, and the chain without that block.
Undoable == commit.pc # "idle" /\ commit.who \in {"http", "batch"}
Ground   == IF Undoable THEN commit.bak ELSE chain

\* A height that ends an epoch is on disk, or its block is being persisted.
Settled(n) == Boundary(n) => \/ disk.man.h >= n
                             \/ Sealing /\ seal.blk.h = n
                             \/ Over

\* Blocks on their way to the writer are blocks of the chain.
QueueInv == \A i \in 1..Len(queue) :
              queue[i].op = "append" => In(queue[i].blk, chain) /\ Covered(queue[i].blk.h - 1)

\* The block of the seal loop stands in the chain on top of its copy.
SealInv == Sealing => /\ seal.blk.h = Len(seal.bak) + 1 /\ Covered(Len(seal.bak))
                      /\ In(seal.blk, Ground) /\ Begins(seal.bak, Ground)

GroundInv == /\ Settled(Len(Ground)) /\ Begins(Ground, chain)
             /\ Undoable => Len(chain) = Len(commit.bak) + 1

CommitInv == /\ commit.pc = "monolith" => commit.who = "http"
             /\ Undoable /\ commit.pc = "summary" => disk.man.h >= Len(chain)
             /\ Undoable /\ commit.pc = "saved" =>
                  \/ disk.sum.kind = "inline" /\ disk.sum.blocks = chain
                  \/ disk.sum.kind = "epochs" /\ disk.man.h >= Len(chain)

\* Who has begun an append waits for its end.
OwnInv == /\ Busy("seal") => seal.pc = "recover"
          /\ Busy("commit") => commit.pc = "append"

\* The block of the seal loop is on disk, on its way, or its writer failed.
Carried == \/ writer = "failed"
           \/ disk.man.h >= seal.blk.h
           \/ \E i \in 1..Len(queue) : queue[i].op = "append" /\ queue[i].blk = seal.blk
           \/ Busy("writer") /\ app["writer"].blk = seal.blk

\* Until a shutdown the writer serves the seal loop alone, and its answer to
\* a flush says that the block is on disk.
WriterInv == stop = "no" =>
    /\ writer # "gone" /\ seal.pc # "recover"
    /\ \A i \in 1..Len(queue) :
          /\ queue[i].op # "shutdown"
          /\ queue[i].op = "flush" => i = Len(queue) /\ seal.pc = "flushing" /\ reply = "none"
    /\ reply # "none" => seal.pc = "flushing"
    /\ seal.pc \in {"save", "flush", "flushing"} => Carried
    /\ seal.pc = "flushing" /\ reply = "ok" => disk.man.h >= seal.blk.h
    /\ seal.pc \in {"summary", "saved"} => disk.man.h >= seal.blk.h

ThreadInv == QueueInv /\ SealInv /\ GroundInv /\ CommitInv /\ OwnInv /\ WriterInv

\* The numbers the invariant compares.
LEMMA Heights ==
    ASSUME TypeInv
    PROVE  /\ disk.man.h \in Nat /\ Len(chain) \in Nat /\ Len(seal.bak) \in Nat
           /\ Len(commit.bak) \in Nat /\ seal.blk.h \in Nat /\ Len(queue) \in Nat
           /\ chain \in Chains /\ Ground \in Chains /\ seal.bak \in Chains /\ Len(Ground) \in Nat
           /\ seal = [pc |-> seal.pc, blk |-> seal.blk, bak |-> seal.bak]
           /\ commit = [pc |-> commit.pc, who |-> commit.who, bak |-> commit.bak]
<1>1. chain \in Chains /\ seal \in Seals /\ commit \in Commits /\ queue \in Seq(Commands) /\ disk \in Disks
  BY DEF TypeInv, Threads
<1>2. seal.bak \in Chains /\ commit.bak \in Chains /\ seal.blk \in Blocks
  BY <1>1 DEF Seals, Commits
<1>3. Ground \in Chains
  BY <1>1, <1>2 DEF Ground
<1>4. seal = [pc |-> seal.pc, blk |-> seal.blk, bak |-> seal.bak]
      /\ commit = [pc |-> commit.pc, who |-> commit.who, bak |-> commit.bak]
  BY <1>1 DEF Seals, Commits
<1>5. disk.man.h \in Nat /\ seal.blk.h \in Nat
  BY <1>1, <1>2 DEF Disks, Manifests, Blocks
<1>6. Len(queue) \in Nat
  BY <1>1, LenProperties
<1>7. Len(chain) \in Nat /\ Len(seal.bak) \in Nat /\ Len(commit.bak) \in Nat /\ Len(Ground) \in Nat
  BY <1>1, <1>2, <1>3, ChainFacts
<1>8. QED  BY <1>1, <1>2, <1>3, <1>4, <1>5, <1>6, <1>7

\* The block of the seal loop is in the chain, on a covered height.
LEMMA SealBlock ==
    ASSUME TypeInv, ThreadInv, Sealing
    PROVE  /\ In(seal.blk, chain) /\ Covered(seal.blk.h - 1) /\ seal.blk.h >= 1
           /\ Begins(seal.bak, chain)
<1>1. chain \in Chains /\ Ground \in Chains /\ seal.bak \in Chains /\ Len(seal.bak) \in Nat
  BY Heights
<1>2. /\ seal.blk.h = Len(seal.bak) + 1 /\ Covered(Len(seal.bak))
      /\ In(seal.blk, Ground) /\ Begins(seal.bak, Ground) /\ Begins(Ground, chain)
  BY DEF ThreadInv, SealInv, GroundInv
<1>3. In(seal.blk, chain) /\ Begins(seal.bak, chain)
  BY <1>1, <1>2, BeginsFacts
<1>4. seal.blk.h - 1 = Len(seal.bak)
  BY <1>1, <1>2
<1>5. QED  BY <1>1, <1>2, <1>3, <1>4

\* What is covered stays so.
LEMMA CoveredStays ==
    ASSUME disk.man.h \in Nat, disk'.man.h \in Nat, disk'.man.h >= disk.man.h, NEW n \in Int, Covered(n)
    PROVE  Covered(n)'
  BY DEF Covered

\* Commands that were in the channel before stay blocks of the chain.
LEMMA QueueKeeps ==
    ASSUME TypeInv, TypeInv', QueueInv, Begins(chain, chain'), disk'.man.h >= disk.man.h,
           \A i \in 1..Len(queue)' : \E j \in 1..Len(queue) : queue'[i] = queue[j]
    PROVE  QueueInv'
<1>1. chain \in Chains /\ chain' \in Chains /\ disk.man.h \in Nat /\ disk'.man.h \in Nat
  <2>1. chain \in Chains /\ disk.man.h \in Nat
    BY Heights
  <2>2. chain' \in Chains /\ disk'.man.h \in Nat
    BY DEF TypeInv, Threads, Disks, Manifests
  <2>3. QED  BY <2>1, <2>2
<1> SUFFICES ASSUME NEW i \in 1..Len(queue)', queue'[i].op = "append"
             PROVE  /\ In(queue'[i].blk, chain')
                    /\ Boundary(queue'[i].blk.h - 1) => disk'.man.h >= queue'[i].blk.h - 1
  BY DEF QueueInv, Covered
<1>2. PICK j \in 1..Len(queue) : queue'[i] = queue[j]
  OBVIOUS
<1>3. PICK b : b = queue[j].blk
  OBVIOUS
<1>4. In(b, chain) /\ Covered(b.h - 1)
  BY <1>2, <1>3 DEF QueueInv
<1>5. In(b, chain')
  BY <1>1, <1>4, BeginsFacts
<1>6. b.h \in Int /\ b.h - 1 \in Int
  BY <1>1, <1>4, ChainFacts DEF In
<1>7. Boundary(b.h - 1) => disk'.man.h >= b.h - 1
  BY <1>1, <1>4, <1>6 DEF Covered
<1>8. QED  BY <1>2, <1>3, <1>5, <1>7

\* The seal loop's block stays on top of its copy.
LEMMA SealKeeps ==
    ASSUME TypeInv, TypeInv', SealInv, Sealing' => Sealing, seal'.blk = seal.blk, seal'.bak = seal.bak,
           Begins(Ground, Ground'), disk'.man.h >= disk.man.h
    PROVE  SealInv'
<1>1. Ground \in Chains /\ disk.man.h \in Nat /\ Len(seal.bak) \in Nat /\ seal.bak \in Chains
  BY Heights
<1>2. Ground' \in Chains /\ disk'.man.h \in Nat
  <2>1. chain' \in Chains /\ commit' \in Commits /\ disk' \in Disks
    BY DEF TypeInv, Threads
  <2>2. QED  BY <2>1 DEF Ground, Commits, Disks, Manifests
<1> SUFFICES ASSUME Sealing'
             PROVE  /\ seal'.blk.h = Len(seal'.bak) + 1 /\ Covered(Len(seal.bak))'
                    /\ In(seal'.blk, Ground') /\ Begins(seal'.bak, Ground')
  BY DEF SealInv
<1>3. /\ seal.blk.h = Len(seal.bak) + 1 /\ Covered(Len(seal.bak))
      /\ In(seal.blk, Ground) /\ Begins(seal.bak, Ground)
  BY DEF SealInv
<1>4. In(seal.blk, Ground') /\ Begins(seal.bak, Ground')
  BY <1>1, <1>2, <1>3, BeginsFacts
<1>5. Boundary(Len(seal.bak)) => disk'.man.h >= Len(seal.bak)
  BY <1>1, <1>2, <1>3 DEF Covered
<1>6. QED  BY <1>3, <1>4, <1>5 DEF Covered

\* A chain begins itself.
LEMMA BeginsSelf ==
    ASSUME NEW c \in Chains
    PROVE  Begins(c, c)
  BY ChainFacts DEF Begins

\* What a commit under way relies on.
LEMMA GroundKeeps ==
    ASSUME TypeInv, TypeInv', GroundInv, UNCHANGED <<chain, commit>>, disk'.man.h >= disk.man.h,
           Settled(Len(Ground)) => Settled(Len(Ground))'
    PROVE  GroundInv' /\ Ground' = Ground /\ Begins(Ground, Ground') /\ Begins(chain, chain')
<1>1. Ground' = Ground /\ (Undoable' <=> Undoable)
  BY DEF Ground, Undoable
<1>2. Ground \in Chains /\ chain \in Chains
  BY Heights
<1>3. QED  BY <1>1, <1>2, BeginsSelf DEF GroundInv

\* A block that is settled stays so when the seal loop goes on with it.
LEMMA SettledStays ==
    ASSUME TypeInv, TypeInv', disk'.man.h >= disk.man.h, NEW n \in Nat, Settled(n),
           Sealing => seal'.blk = seal.blk /\ (Sealing' \/ ~Boundary(seal.blk.h) \/ Over'
                                                  \/ disk'.man.h >= seal.blk.h),
           Over => Over'
    PROVE  Settled(n)'
<1>1. disk.man.h \in Nat /\ disk'.man.h \in Nat
  BY DEF TypeInv, Disks, Manifests
<1>2. QED  BY <1>1 DEF Settled

\* A commit that does not move keeps what it relies on.
LEMMA CommitKeeps ==
    ASSUME TypeInv, TypeInv', CommitInv, UNCHANGED <<chain, commit>>, disk'.man.h >= disk.man.h,
           disk'.sum = disk.sum
    PROVE  CommitInv'
<1>1. disk.man.h \in Nat /\ disk'.man.h \in Nat /\ Len(chain) \in Nat
  BY Heights DEF TypeInv, Disks, Manifests
<1>2. QED  BY <1>1 DEF CommitInv, Undoable

\* An append belongs to the one who waits for it.
LEMMA OwnKeeps ==
    ASSUME OwnInv, Busy("seal")' => Busy("seal") /\ seal'.pc = seal.pc,
           Busy("commit")' => Busy("commit") /\ commit'.pc = commit.pc
    PROVE  OwnInv'
  BY DEF OwnInv

\* The files are as they were, nothing but the threads has moved.
LEMMA FilesSame ==
    ASSUME TypeInv, UNCHANGED disk
    PROVE  disk'.man.h >= disk.man.h /\ disk'.sum = disk.sum
  BY Heights

-----------------------------------------------------------------------------
(* The writer thread.                                                      *)

\* WriterTake: an answer, a dropped block, an append or a failure.
LEMMA TakeKeeps ==
    ASSUME TypeInv, TypeInv', DiskInv, ThreadInv, harm' = {}, WriterTake
    PROVE  DiskInv' /\ ThreadInv'
<1>1. PICK c : c = Head(queue)
  OBVIOUS
<1>2. PICK n : n = Len(queue)
  OBVIOUS
<1>3. /\ n \in Nat /\ n >= 1 /\ Len(queue') = n - 1 /\ c = queue[1]
      /\ \A i \in 1..Len(queue') : i + 1 \in 1..n /\ queue'[i] = queue[i + 1]
  BY <1>1, <1>2, TailType, Numbers DEF WriterTake
<1>4. 1 \in 1..n
  BY <1>3
<1>5. c.op = "append" => In(c.blk, chain) /\ Covered(c.blk.h - 1)
  BY <1>2, <1>3, <1>4 DEF ThreadInv, QueueInv
<1>6. UNCHANGED <<chain, seal, commit, late, stop, disk, up, born, acked>> /\ up
  BY DEF WriterTake, life, counters
<1>7. \/ c.op = "append" /\ writer = "up" /\ Appendable(c.blk) /\ BeginAppend("writer", c.blk)
         /\ UNCHANGED <<reply, writer>>
      \/ UNCHANGED app /\ UNCHANGED harm
  BY <1>1 DEF WriterTake
<1>8. DiskInv'
  <2>1. CASE UNCHANGED app
    BY <1>6, <2>1, DiskSame DEF DiskInv, Appending
  <2>2. CASE c.op = "append" /\ Appendable(c.blk) /\ BeginAppend("writer", c.blk)
    <3>1. "writer" \in Appenders
      BY DEF Appenders
    <3>2. QED  BY <1>5, <1>6, <2>2, <3>1, DiskBegins
  <2>3. QED  BY <1>7, <2>1, <2>2
<1>9. disk'.man.h >= disk.man.h /\ disk'.sum = disk.sum
  BY <1>6, FilesSame
<1>10. Settled(Len(Ground)) => Settled(Len(Ground))'
  BY <1>6 DEF Settled, Sealing, Over, Ground, Undoable
<1>11. GroundInv' /\ Begins(Ground, Ground') /\ Begins(chain, chain')
  BY <1>6, <1>9, <1>10, GroundKeeps DEF ThreadInv
<1>12. SealInv'
  BY <1>6, <1>9, <1>11, SealKeeps DEF ThreadInv, Sealing
<1>13. CommitInv'
  BY <1>6, <1>9, CommitKeeps DEF ThreadInv
<1>14. QueueInv'
  <2>1. \A i \in 1..Len(queue)' : \E j \in 1..Len(queue) : queue'[i] = queue[j]
    BY <1>2, <1>3
  <2>2. QED  BY <1>9, <1>11, <2>1, QueueKeeps DEF ThreadInv
<1>15. \A o \in Appenders : o # "writer" => app'[o] = app[o]
  BY <1>7 DEF BeginAppend, TypeInv, Threads
<1>16. OwnInv'
  <2>1. "seal" \in Appenders /\ "commit" \in Appenders
    BY DEF Appenders
  <2>2. QED  BY <1>6, <1>15, <2>1, OwnKeeps DEF ThreadInv, Busy
<1>17. WriterInv'
  <2> SUFFICES ASSUME stop = "no"
               PROVE  WriterInv'
    BY <1>6 DEF WriterInv
  <2>1. /\ writer # "gone" /\ seal.pc # "recover"
        /\ \A i \in 1..n : /\ queue[i].op # "shutdown"
                           /\ queue[i].op = "flush" => i = n /\ seal.pc = "flushing" /\ reply = "none"
        /\ reply # "none" => seal.pc = "flushing"
        /\ seal.pc \in {"save", "flush", "flushing"} => Carried
        /\ seal.pc = "flushing" /\ reply = "ok" => disk.man.h >= seal.blk.h
        /\ seal.pc \in {"summary", "saved"} => disk.man.h >= seal.blk.h
    BY <1>2 DEF ThreadInv, WriterInv
  <2>2. c.op # "shutdown" /\ (c.op = "flush" => n = 1 /\ seal.pc = "flushing" /\ reply = "none")
    BY <1>3, <1>4, <2>1
  <2>3. ~Busy("writer")
    BY DEF WriterTake, Busy
  <2>4. CASE c.op = "flush"
    <3>1. /\ reply' = (IF writer = "up" THEN "ok" ELSE "error") /\ writer' = writer
          /\ UNCHANGED <<app, harm>> /\ seal.pc = "flushing" /\ n = 1
      BY <1>1, <2>2, <2>4 DEF WriterTake
    <3>2. Len(queue') = 0
      BY <1>3, <3>1
    <3>3. Carried
      BY <2>1, <3>1
    <3>4. writer = "failed" \/ disk.man.h >= seal.blk.h
      <4>1. \A i \in 1..n : queue[i].op = "flush"
        BY <1>3, <2>4, <3>1
      <4>2. QED  BY <1>2, <2>3, <3>3, <4>1 DEF Carried
    <3>5. Carried'
      BY <1>6, <3>1, <3>4 DEF Carried
    <3>6. reply' = "ok" => disk.man.h >= seal.blk.h
      BY <3>1, <3>4
    <3>7. seal' = seal /\ stop' = stop /\ disk' = disk
      BY <1>6
    <3>8. writer' # "gone" /\ seal'.pc = "flushing" /\ 1..Len(queue') = {}
      <4>1. 1..Len(queue') = {}
        BY <3>2
      <4>2. QED  BY <2>1, <3>1, <3>7, <4>1
    <3>9. reply' = "ok" => disk'.man.h >= seal'.blk.h
      BY <3>6, <3>7
    <3>10. QED  BY <3>5, <3>8, <3>9 DEF WriterInv
  <2>5. CASE c.op # "flush"
    <3>1. /\ reply' = reply /\ writer' \in {writer, "failed"} /\ c.op = "append"
          /\ \/ writer' = "failed"
             \/ BeginAppend("writer", c.blk)
      <4>1. c.op = "append"
        <5>1. c \in Commands
          BY <1>1, TailType DEF WriterTake
        <5>2. QED  BY <2>2, <2>5, <5>1 DEF Commands
      <4>2. QED  BY <1>1, <4>1, <2>1 DEF WriterTake, Answered
    <3>2. \A i \in 1..Len(queue') : /\ queue'[i].op # "shutdown"
                                    /\ queue'[i].op = "flush" => i = Len(queue') /\ seal.pc = "flushing" /\ reply = "none"
      <4> SUFFICES ASSUME NEW i \in 1..Len(queue')
                   PROVE  /\ queue'[i].op # "shutdown"
                          /\ queue'[i].op = "flush" => i = Len(queue') /\ seal.pc = "flushing" /\ reply = "none"
        OBVIOUS
      <4>1. i + 1 \in 1..n /\ queue'[i] = queue[i + 1]
        BY <1>3
      <4>2. QED  BY <1>3, <2>1, <4>1
    <3>3. Carried => Carried'
      <4>1. CASE writer' = "failed"
        BY <4>1 DEF Carried
      <4>2. CASE BeginAppend("writer", c.blk)
        <5>1. app'["writer"].blk = c.blk /\ Busy("writer")'
          BY <4>2 DEF BeginAppend, TypeInv, Threads, Appenders, Busy
        <5>2. ASSUME NEW i \in 1..n, i # 1
              PROVE  i - 1 \in 1..Len(queue') /\ queue'[i - 1] = queue[i]
          <6>1. i - 1 \in 1..Len(queue') /\ (i - 1) + 1 = i
            BY <1>3, <5>2
          <6>2. QED  BY <1>3, <6>1
        <5>3. ASSUME NEW i \in 1..n, queue[i].op = "append", queue[i].blk = seal.blk
              PROVE  Carried'
          <6>1. CASE i = 1
            BY <1>3, <1>6, <5>1, <5>3, <6>1 DEF Carried
          <6>2. CASE i # 1
            <7>1. i - 1 \in 1..Len(queue') /\ queue'[i - 1] = queue[i]
              BY <5>2, <6>2
            <7>2. QED  BY <1>6, <5>3, <7>1 DEF Carried
          <6>3. QED  BY <6>1, <6>2
        <5>4. writer = "failed" => writer' = "failed"
          BY <3>1
        <5>5. disk.man.h >= seal.blk.h => Carried'
          BY <1>6 DEF Carried
        <5>6. writer' = "failed" => Carried'
          BY DEF Carried
        <5>7. QED  BY <1>2, <2>3, <5>3, <5>4, <5>5, <5>6 DEF Carried
      <4>3. QED  BY <3>1, <4>1, <4>2
    <3>4. writer' # "gone"
      BY <2>1, <3>1
    <3>5. QED  BY <1>6, <2>1, <3>1, <3>2, <3>3, <3>4 DEF WriterInv
  <2>6. QED  BY <2>4, <2>5
<1>18. QED  BY <1>8, <1>11, <1>12, <1>13, <1>14, <1>16, <1>17 DEF ThreadInv

\* The end of an append, and a line that reaches the disk, change no thread
\* but the one that made it.
LEMMA WriterKeeps ==
    ASSUME TypeInv, TypeInv', ThreadInv, UNCHANGED <<stop, mutex, queue, reply, seal>>,
           disk'.man.h >= disk.man.h, writer' \in {writer, "failed"},
           \/ writer' = "failed"
           \/ Busy("writer") /\ app["writer"].blk = seal.blk =>
                 disk'.man.h >= seal.blk.h \/ (Busy("writer")' /\ app'["writer"].blk = seal.blk)
    PROVE  WriterInv'
<1>1. disk.man.h \in Nat /\ disk'.man.h \in Nat /\ seal.blk.h \in Nat
  BY Heights DEF TypeInv, Disks, Manifests
<1>2. disk.man.h >= seal.blk.h => disk'.man.h >= seal.blk.h
  BY <1>1
<1>3. Carried => Carried'
  BY <1>2 DEF Carried
<1>4. stop = "no" => writer' # "gone"
  BY DEF ThreadInv, WriterInv
<1>5. QED  BY <1>2, <1>3, <1>4 DEF ThreadInv, WriterInv

\* WriterDone: the writer's append ends, or fails.
LEMMA DoneKeeps ==
    ASSUME TypeInv, TypeInv', DiskInv, ThreadInv, harm' = {}, NEW ok \in BOOLEAN, WriterDone(ok)
    PROVE  DiskInv' /\ ThreadInv'
<1> USE DEF WriterDone
<1>1. UNCHANGED <<chain, seal, commit, late, stop, mutex, queue, reply, up, born, acked>>
  BY DEF life
<1>2. "writer" \in Appenders /\ "seal" \in Appenders /\ "commit" \in Appenders
  BY DEF Appenders
<1>3. EndAppend("writer", ok) /\ (ok => writer' = writer) /\ (~ok => writer' = "failed")
  OBVIOUS
<1>4. /\ DiskInv' /\ disk'.sum = disk.sum /\ disk'.man.h >= disk.man.h
      /\ ok => disk'.man.h = app["writer"].blk.h
      /\ Busy("writer") /\ \A o \in Appenders : o # "writer" => ~Busy(o)
  BY <1>1, <1>2, <1>3, DiskEnds
<1>5. \A o \in Appenders : o # "writer" => ~Busy(o)'
  BY <1>4 DEF EndAppend, TypeInv, Threads, Busy
<1>6. Settled(Len(Ground)) => Settled(Len(Ground))'
  <2>1. Sealing' = Sealing /\ Over' = Over /\ Ground' = Ground
    BY <1>1 DEF Sealing, Over, Ground, Undoable
  <2>2. QED  BY <1>1, <1>4, <2>1, Heights, SettledStays
<1>7. GroundInv' /\ Begins(Ground, Ground') /\ Begins(chain, chain')
  BY <1>1, <1>4, <1>6, GroundKeeps DEF ThreadInv
<1>8. SealInv'
  BY <1>1, <1>4, <1>7, SealKeeps DEF ThreadInv, Sealing
<1>9. CommitInv'
  BY <1>1, <1>4, CommitKeeps DEF ThreadInv
<1>10. QueueInv'
  BY <1>1, <1>4, <1>7, QueueKeeps DEF ThreadInv
<1>11. OwnInv'
  BY <1>2, <1>5, OwnKeeps DEF ThreadInv
<1>12. WriterInv'
  <2>1. disk'.man.h \in Nat /\ seal.blk.h \in Nat
    BY Heights DEF TypeInv, Disks, Manifests
  <2>2. ok => (app["writer"].blk = seal.blk => disk'.man.h >= seal.blk.h)
    BY <1>4, <2>1
  <2>3. QED  BY <1>1, <1>3, <1>4, <2>2, WriterKeeps
<1>13. QED  BY <1>4, <1>7, <1>8, <1>9, <1>10, <1>11, <1>12 DEF ThreadInv

\* WriteLine changes a file and nothing else.
LEMMA LineKeeps ==
    ASSUME TypeInv, TypeInv', DiskInv, ThreadInv, NEW a \in Appenders, WriteLine(a)
    PROVE  DiskInv' /\ ThreadInv'
<1>1. UNCHANGED <<chain, seal, commit, late, stop, mutex, queue, writer, reply>>
  BY DEF WriteLine, handle
<1>2. "writer" \in Appenders /\ "seal" \in Appenders /\ "commit" \in Appenders
  BY DEF Appenders
<1>3. /\ DiskInv' /\ disk'.man = disk.man /\ disk'.sum = disk.sum
      /\ \A o \in Appenders : app'[o].blk = app[o].blk /\ (Busy(o)' <=> Busy(o))
  BY DiskLine
<1>4. disk'.man.h >= disk.man.h
  BY <1>3, Heights
<1>5. Settled(Len(Ground)) => Settled(Len(Ground))'
  <2>1. Sealing' = Sealing /\ Over' = Over /\ Ground' = Ground
    BY <1>1 DEF Sealing, Over, Ground, Undoable
  <2>2. QED  BY <1>1, <1>4, <2>1, Heights, SettledStays
<1>6. GroundInv' /\ Begins(Ground, Ground') /\ Begins(chain, chain')
  BY <1>1, <1>4, <1>5, GroundKeeps DEF ThreadInv
<1>7. SealInv'
  BY <1>1, <1>4, <1>6, SealKeeps DEF ThreadInv, Sealing
<1>8. CommitInv'
  BY <1>1, <1>3, <1>4, CommitKeeps DEF ThreadInv
<1>9. QueueInv'
  BY <1>1, <1>4, <1>6, QueueKeeps DEF ThreadInv
<1>10. OwnInv'
  BY <1>1, <1>2, <1>3, OwnKeeps DEF ThreadInv
<1>11. WriterInv'
  BY <1>1, <1>2, <1>3, <1>4, WriterKeeps
<1>12. QED  BY <1>3, <1>6, <1>7, <1>8, <1>9, <1>10, <1>11 DEF ThreadInv

-----------------------------------------------------------------------------
(* The seal loop.                                                          *)

\* What a step of the seal loop keeps when neither chain nor files change.
LEMMA SealQuiet ==
    ASSUME TypeInv, TypeInv', DiskInv, ThreadInv, UNCHANGED <<chain, commit, late, stop, app, disk, up, born, acked>>,
           seal'.blk = seal.blk, seal'.bak = seal.bak, Sealing' => Sealing,
           Sealing => Sealing' \/ ~Boundary(seal.blk.h) \/ Over' \/ disk.man.h >= seal.blk.h,
           Over => Over', ~Busy("seal") \/ seal'.pc = seal.pc
    PROVE  /\ DiskInv' /\ SealInv' /\ GroundInv' /\ CommitInv' /\ OwnInv'
           /\ Begins(chain, chain') /\ disk'.man.h >= disk.man.h
<1>1. DiskInv'
  BY DiskSame DEF DiskInv, Appending
<1>2. disk'.man.h >= disk.man.h /\ disk'.sum = disk.sum
  BY FilesSame
<1>3. Settled(Len(Ground)) => Settled(Len(Ground))'
  <2>1. Ground' = Ground /\ Len(Ground) \in Nat
    BY Heights DEF Ground, Undoable
  <2>2. PICK n : n = Len(Ground)
    OBVIOUS
  <2>3. ASSUME Settled(n), Boundary(n)
        PROVE  disk'.man.h >= n \/ (Sealing' /\ seal'.blk.h = n) \/ Over'
    <3>1. CASE disk.man.h >= n
      <4>1. disk'.man.h = disk.man.h
        OBVIOUS
      <4>2. QED  BY <3>1, <4>1
    <3>2. CASE Sealing /\ seal.blk.h = n
      <4>1. seal'.blk.h = n /\ Boundary(seal.blk.h)
        BY <2>3, <3>2
      <4>2. disk.man.h >= seal.blk.h => disk'.man.h >= n
        <5>1. disk'.man.h = disk.man.h
          OBVIOUS
        <5>2. QED  BY <3>2, <5>1
      <4>3. QED  BY <3>2, <4>1, <4>2
    <3>3. QED  BY <2>3, <3>1, <3>2 DEF Settled
  <2>4. QED  BY <2>1, <2>2, <2>3 DEF Settled
<1>4. GroundInv' /\ Begins(Ground, Ground') /\ Begins(chain, chain')
  BY <1>2, <1>3, GroundKeeps DEF ThreadInv
<1>5. SealInv'
  BY <1>2, <1>4, SealKeeps DEF ThreadInv
<1>6. CommitInv'
  BY <1>2, CommitKeeps DEF ThreadInv
<1>7. OwnInv'
  BY DEF ThreadInv, OwnInv, Busy
<1>8. QED  BY <1>1, <1>2, <1>4, <1>5, <1>6, <1>7

\* A step that leaves the channel alone keeps what is in it.
LEMMA SameQueue ==
    ASSUME TypeInv, TypeInv', ThreadInv, UNCHANGED queue, Begins(chain, chain'), disk'.man.h >= disk.man.h
    PROVE  QueueInv'
  BY QueueKeeps DEF ThreadInv

\* Enqueue: the block of the seal loop is on its way.
LEMMA EnqueueKeeps ==
    ASSUME TypeInv, TypeInv', DiskInv, ThreadInv, Enqueue
    PROVE  DiskInv' /\ ThreadInv'
<1>1. /\ UNCHANGED <<chain, commit, late, stop, writer, reply, app, disk, up, born, acked>>
      /\ seal.pc = "enqueue" /\ writer # "gone" /\ mutex' = "free"
      /\ Send("seal", "append", seal.blk)
  BY DEF Enqueue, life, counters, history
<1>2. seal'.pc = "save" /\ seal'.blk = seal.blk /\ seal'.bak = seal.bak
  BY Heights DEF Enqueue
<1>3. Sealing /\ Sealing' /\ ~Over
  BY <1>1, <1>2 DEF Sealing, Over
<1>4. ~Busy("seal")
  BY <1>1 DEF ThreadInv, OwnInv
<1>5. /\ DiskInv' /\ SealInv' /\ GroundInv' /\ CommitInv' /\ OwnInv'
      /\ Begins(chain, chain') /\ disk'.man.h >= disk.man.h
  BY <1>1, <1>2, <1>3, <1>4, SealQuiet
<1>6. In(seal.blk, chain) /\ Covered(seal.blk.h - 1) /\ seal.blk.h >= 1 /\ seal.blk \in Blocks
  BY <1>3, SealBlock DEF TypeInv, Threads, Seals
<1>7. PICK n : n = Len(queue)
  OBVIOUS
<1>8. /\ n \in Nat /\ Len(queue') = n + 1 /\ \A i \in 1..n : queue'[i] = queue[i]
      /\ queue'[n + 1] = [op |-> "append", blk |-> seal.blk]
  BY <1>1, <1>6, <1>7, SendType, Heights
<1>9. \A i \in 1..Len(queue') : i \in 1..n \/ i = n + 1
  BY <1>8
<1>10. QueueInv'
  <2> SUFFICES ASSUME NEW i \in 1..Len(queue'), queue'[i].op = "append"
               PROVE  In(queue'[i].blk, chain) /\ Covered(queue'[i].blk.h - 1)
    BY <1>1 DEF QueueInv, Covered
  <2>1. CASE i \in 1..n
    BY <1>7, <1>8, <2>1 DEF ThreadInv, QueueInv
  <2>2. CASE i = n + 1
    BY <1>6, <1>8, <2>2
  <2>3. QED  BY <1>9, <2>1, <2>2
<1>11. WriterInv'
  <2> SUFFICES ASSUME stop = "no" PROVE WriterInv'
    BY <1>1 DEF WriterInv
  <2>1. reply = "none" /\ \A i \in 1..n : queue[i].op = "append"
    <3>1. \A i \in 1..n : queue[i].op # "shutdown" /\ queue[i].op # "flush"
      BY <1>1, <1>7 DEF ThreadInv, WriterInv
    <3>2. \A i \in 1..n : queue[i] \in Commands
      BY <1>7, ElementOfSeq DEF TypeInv, Threads
    <3>3. reply = "none"
      BY <1>1 DEF ThreadInv, WriterInv
    <3>4. QED  BY <3>1, <3>2, <3>3 DEF Commands
  <2>2. \A i \in 1..Len(queue') : queue'[i].op = "append"
    BY <1>8, <1>9, <2>1
  <2>3. Carried'
    <3>1. n + 1 \in 1..Len(queue')
      BY <1>8
    <3>2. QED  BY <1>2, <1>8, <3>1 DEF Carried
  <2>4. QED  BY <1>1, <1>2, <2>1, <2>2, <2>3 DEF WriterInv
<1>12. QED  BY <1>5, <1>10, <1>11 DEF ThreadInv

\* Recover: the seal loop appends the block itself.
LEMMA RecoverKeeps ==
    ASSUME TypeInv, TypeInv', DiskInv, ThreadInv, harm' = {}, Recover
    PROVE  DiskInv' /\ ThreadInv'
<1>1. /\ UNCHANGED <<chain, commit, late, stop, mutex, queue, writer, reply, disk, up, born, acked>>
      /\ seal.pc = "enqueue" /\ writer = "gone" /\ up
  BY DEF Recover, handle, life, counters
<1>2. /\ seal'.blk = seal.blk /\ seal'.bak = seal.bak /\ seal'.pc \in {"recover", "failed"}
      /\ \/ Appendable(seal.blk) /\ BeginAppend("seal", seal.blk) /\ seal'.pc = "recover"
         \/ UNCHANGED app
  BY Heights DEF Recover
<1>3. Sealing /\ Sealing' /\ ~Over
  BY <1>1, <1>2 DEF Sealing, Over
<1>4. In(seal.blk, chain) /\ Covered(seal.blk.h - 1)
  BY <1>3, SealBlock
<1>5. "seal" \in Appenders /\ "commit" \in Appenders
  BY DEF Appenders
<1>6. DiskInv'
  <2>1. CASE UNCHANGED app
    BY <1>1, <2>1, DiskSame DEF DiskInv, Appending
  <2>2. CASE Appendable(seal.blk) /\ BeginAppend("seal", seal.blk)
    BY <1>1, <1>4, <1>5, <2>2, DiskBegins
  <2>3. QED  BY <1>2, <2>1, <2>2
<1>7. disk'.man.h >= disk.man.h /\ disk'.sum = disk.sum
  BY <1>1, FilesSame
<1>8. Settled(Len(Ground)) => Settled(Len(Ground))'
  <2>1. Ground' = Ground
    BY <1>1 DEF Ground, Undoable
  <2>2. QED  BY <1>1, <1>2, <1>3, <2>1 DEF Settled
<1>9. GroundInv' /\ Begins(Ground, Ground') /\ Begins(chain, chain')
  BY <1>1, <1>7, <1>8, GroundKeeps DEF ThreadInv
<1>10. SealInv'
  BY <1>2, <1>3, <1>7, <1>9, SealKeeps DEF ThreadInv
<1>11. CommitInv'
  BY <1>1, <1>7, CommitKeeps DEF ThreadInv
<1>12. QueueInv'
  BY <1>1, <1>7, <1>9, SameQueue
<1>13. OwnInv'
  <2>1. ~Busy("seal")
    BY <1>1 DEF ThreadInv, OwnInv
  <2>2. app'["commit"] = app["commit"]
    BY <1>2, <1>5 DEF BeginAppend, TypeInv, Threads
  <2>3. Busy("seal")' => seal'.pc = "recover"
    BY <1>2, <2>1 DEF Busy
  <2>4. QED  BY <1>1, <2>2, <2>3 DEF ThreadInv, OwnInv, Busy
<1>14. WriterInv'
  BY <1>1 DEF ThreadInv, WriterInv
<1>15. QED  BY <1>6, <1>9, <1>10, <1>11, <1>12, <1>13, <1>14 DEF ThreadInv

\* RecoverDone: the seal loop's own append ends.
LEMMA RecoverDoneKeeps ==
    ASSUME TypeInv, TypeInv', DiskInv, ThreadInv, harm' = {}, NEW ok \in BOOLEAN, RecoverDone(ok)
    PROVE  DiskInv' /\ ThreadInv'
<1>1. /\ UNCHANGED <<chain, commit, late, stop, mutex, queue, writer, reply, up, born, acked>>
      /\ EndAppend("seal", ok)
  BY DEF RecoverDone, handle, life
<1>2. "seal" \in Appenders /\ "commit" \in Appenders
  BY DEF Appenders
<1>3. /\ DiskInv' /\ disk'.sum = disk.sum /\ disk'.man.h >= disk.man.h
      /\ Busy("seal") /\ ~Busy("seal")' /\ ~Busy("commit")
  BY <1>1, <1>2, DiskEnds
<1>4. seal'.blk = seal.blk /\ seal'.bak = seal.bak /\ seal'.pc \in {"save", "failed"}
  BY Heights DEF RecoverDone
<1>5. seal.pc = "recover"
  BY <1>3 DEF ThreadInv, OwnInv
<1>6. Sealing /\ Sealing' /\ ~Over
  BY <1>4, <1>5 DEF Sealing, Over
<1>7. Settled(Len(Ground)) => Settled(Len(Ground))'
  <2>1. Ground' = Ground
    BY <1>1 DEF Ground, Undoable
  <2>2. QED  BY <1>3, <1>4, <1>6, <2>1, Heights, SettledStays
<1>8. GroundInv' /\ Begins(Ground, Ground') /\ Begins(chain, chain')
  BY <1>1, <1>3, <1>7, GroundKeeps DEF ThreadInv
<1>9. SealInv'
  BY <1>3, <1>4, <1>6, <1>8, SealKeeps DEF ThreadInv
<1>10. CommitInv'
  BY <1>1, <1>3, CommitKeeps DEF ThreadInv
<1>11. QueueInv'
  BY <1>1, <1>3, <1>8, SameQueue
<1>12. OwnInv'
  <2>1. ~Busy("commit")'
    BY <1>1, <1>2, <1>3 DEF EndAppend, TypeInv, Threads, Busy
  <2>2. QED  BY <1>3, <2>1 DEF OwnInv
<1>13. WriterInv'
  <2>1. stop # "no"
    BY <1>5 DEF ThreadInv, WriterInv
  <2>2. QED  BY <1>1, <2>1 DEF WriterInv
<1>14. QED  BY <1>3, <1>8, <1>9, <1>10, <1>11, <1>12, <1>13 DEF ThreadInv

\* The turn is over: the seal loop is idle again and has no block.
LEMMA IdleKeeps ==
    ASSUME TypeInv, TypeInv', DiskInv, ThreadInv, Sealing, seal' = NoSeal, ~Busy("seal"), seal.pc # "flushing",
           UNCHANGED <<chain, commit, late, stop, mutex, queue, writer, reply, app, disk, up, born, acked>>,
           ~Boundary(seal.blk.h) \/ stop # "no" \/ disk.man.h >= seal.blk.h
    PROVE  DiskInv' /\ ThreadInv'
<1>1. DiskInv'
  BY DiskSame DEF DiskInv, Appending
<1>2. disk'.man.h >= disk.man.h /\ disk'.sum = disk.sum
  BY FilesSame
<1>3. seal'.pc = "idle" /\ ~Sealing' /\ ~Over /\ (stop # "no" => Over')
  BY DEF NoSeal, Sealing, Over
<1>4. Settled(Len(Ground)) => Settled(Len(Ground))'
  <2>1. Ground' = Ground
    BY DEF Ground, Undoable
  <2>2. QED  BY <1>3, <2>1 DEF Settled
<1>5. GroundInv' /\ Begins(chain, chain')
  BY <1>2, <1>4, GroundKeeps DEF ThreadInv
<1>6. SealInv'
  BY <1>3 DEF SealInv
<1>7. CommitInv'
  BY <1>2, CommitKeeps DEF ThreadInv
<1>8. QueueInv'
  BY <1>2, <1>5, SameQueue
<1>9. OwnInv'
  BY DEF ThreadInv, OwnInv, Busy
<1>10. WriterInv'
  BY <1>3 DEF ThreadInv, WriterInv
<1>11. QED  BY <1>1, <1>5, <1>6, <1>7, <1>8, <1>9, <1>10 DEF ThreadInv

\* A block that has no autosnapshot ends no epoch.
LEMMA NoSnapshot ==
    ASSUME TypeInv, ThreadInv, Sealing, ~SnapHit(seal.blk.h)
    PROVE  ~Boundary(seal.blk.h)
  BY SealBlock, Heights, BoundaryFacts

\* SkipSave and StartSave: only a snapshot height goes on.
LEMMA SaveStartKeeps ==
    ASSUME TypeInv, TypeInv', DiskInv, ThreadInv, SkipSave \/ StartSave
    PROVE  DiskInv' /\ ThreadInv'
<1>1. /\ UNCHANGED <<chain, commit, late, stop, mutex, queue, writer, reply, app, disk, up, born, acked>>
      /\ seal.pc = "save"
  BY DEF SkipSave, StartSave, handle, life, counters, history
<1>2. Sealing /\ ~Over /\ ~Busy("seal")
  BY <1>1 DEF Sealing, Over, ThreadInv, OwnInv
<1>3. CASE SkipSave
  <2>1. seal' = NoSeal /\ ~Boundary(seal.blk.h)
    BY <1>2, <1>3, NoSnapshot DEF SkipSave
  <2>2. QED  BY <1>1, <1>2, <2>1, IdleKeeps
<1>4. CASE StartSave
  <2>1. seal'.pc = "flush" /\ seal'.blk = seal.blk /\ seal'.bak = seal.bak
    BY <1>4, Heights DEF StartSave
  <2>2. Sealing'
    BY <2>1 DEF Sealing
  <2>3. /\ DiskInv' /\ SealInv' /\ GroundInv' /\ CommitInv' /\ OwnInv'
        /\ Begins(chain, chain') /\ disk'.man.h >= disk.man.h
    BY <1>1, <1>2, <2>1, <2>2, SealQuiet
  <2>4. QueueInv'
    BY <1>1, <2>3, SameQueue
  <2>5. WriterInv'
    <3>1. Carried' = Carried
      BY <1>1, <2>1 DEF Carried, Busy
    <3>2. QED  BY <1>1, <2>1, <3>1 DEF ThreadInv, WriterInv
  <2>6. QED  BY <2>3, <2>4, <2>5 DEF ThreadInv
<1>5. QED  BY <1>3, <1>4

-----------------------------------------------------------------------------
(* The autosnapshot of the seal loop.                                      *)

\* A step that moves none of what the invariant is about.
LEMMA StillKeeps ==
    ASSUME TypeInv, TypeInv', DiskInv, ThreadInv,
           UNCHANGED <<chain, seal, commit, late, stop, queue, writer, reply, app, disk, up, born, acked>>
    PROVE  DiskInv' /\ ThreadInv'
<1>1. DiskInv'
  BY DiskSame DEF DiskInv, Appending
<1>2. disk'.man.h >= disk.man.h /\ disk'.sum = disk.sum
  BY FilesSame
<1>3. Settled(Len(Ground)) => Settled(Len(Ground))'
  BY DEF Settled, Sealing, Over, Ground, Undoable
<1>4. GroundInv' /\ Begins(Ground, Ground') /\ Begins(chain, chain')
  BY <1>2, <1>3, GroundKeeps DEF ThreadInv
<1>5. SealInv'
  BY <1>2, <1>4, SealKeeps DEF ThreadInv, Sealing
<1>6. CommitInv'
  BY <1>2, CommitKeeps DEF ThreadInv
<1>7. QueueInv'
  BY <1>2, <1>4, SameQueue
<1>8. OwnInv'
  BY DEF ThreadInv, OwnInv, Busy
<1>9. WriterInv'
  BY DEF ThreadInv, WriterInv, Carried, Busy
<1>10. QED  BY <1>1, <1>4, <1>5, <1>6, <1>7, <1>8, <1>9 DEF ThreadInv

\* A command without a block leaves the blocks in the channel as they are.
LEMMA SentQueue ==
    ASSUME TypeInv, TypeInv', ThreadInv, NEW who, NEW op \in {"flush", "shutdown"}, Send(who, op, NoBlock),
           Begins(chain, chain'), disk'.man.h >= disk.man.h
    PROVE  /\ QueueInv' /\ Len(queue') = Len(queue) + 1
           /\ \A i \in 1..Len(queue) : i \in 1..Len(queue') /\ queue'[i] = queue[i]
           /\ queue'[Len(queue) + 1] = [op |-> op, blk |-> NoBlock]
           /\ \A i \in 1..Len(queue') : i \in 1..Len(queue) \/ i = Len(queue')
<1>1. PICK n : n = Len(queue)
  OBVIOUS
<1>2. /\ n \in Nat /\ Len(queue') = n + 1 /\ \A i \in 1..n : queue'[i] = queue[i]
      /\ queue'[n + 1] = [op |-> op, blk |-> NoBlock]
  BY <1>1, NoBlockType, SendType, Heights
<1>3. /\ \A i \in 1..n : i \in 1..Len(queue')
      /\ \A i \in 1..Len(queue') : i \in 1..n \/ i = n + 1
  BY <1>2
<1>4. chain \in Chains /\ chain' \in Chains /\ disk.man.h \in Nat /\ disk'.man.h \in Nat
  <2>1. chain \in Chains /\ disk.man.h \in Nat
    BY Heights
  <2>2. chain' \in Chains /\ disk'.man.h \in Nat
    BY DEF TypeInv, Threads, Disks, Manifests
  <2>3. QED  BY <2>1, <2>2
<1>5. QueueInv'
  <2> SUFFICES ASSUME NEW i \in 1..Len(queue)', queue'[i].op = "append"
               PROVE  /\ In(queue'[i].blk, chain')
                      /\ Boundary(queue'[i].blk.h - 1) => disk'.man.h >= queue'[i].blk.h - 1
    BY DEF QueueInv, Covered
  <2>1. i # n + 1
    BY <1>2
  <2>2. i \in 1..n /\ queue'[i] = queue[i]
    BY <1>2, <1>3, <2>1
  <2>3. PICK b : b = queue[i].blk
    OBVIOUS
  <2>4. In(b, chain) /\ Covered(b.h - 1)
    BY <1>1, <2>2, <2>3 DEF ThreadInv, QueueInv
  <2>5. In(b, chain')
    BY <1>4, <2>4, BeginsFacts
  <2>6. b.h - 1 \in Int
    BY <1>4, <2>4, ChainFacts DEF In
  <2>7. Boundary(b.h - 1) => disk'.man.h >= b.h - 1
    BY <1>4, <2>4, <2>6 DEF Covered
  <2>8. QED  BY <2>2, <2>3, <2>5, <2>7
<1>6. QED  BY <1>1, <1>2, <1>3, <1>5

\* SendFlush: the flush is the last command in the channel.
LEMMA SendFlushKeeps ==
    ASSUME TypeInv, TypeInv', DiskInv, ThreadInv, SendFlush
    PROVE  DiskInv' /\ ThreadInv'
<1>1. /\ UNCHANGED <<chain, commit, late, stop, writer, reply, app, disk, up, born, acked>>
      /\ seal.pc = "flush"
      /\ \/ writer # "gone" /\ Send("seal", "flush", NoBlock) /\ seal' = [seal EXCEPT !.pc = "flushing"]
         \/ writer = "gone" /\ queue' = queue /\ seal' = [seal EXCEPT !.pc = "summary"]
  BY DEF SendFlush, life, counters, history
<1>2. /\ seal'.blk = seal.blk /\ seal'.bak = seal.bak /\ seal'.pc \in {"flushing", "summary"}
      /\ \/ writer # "gone" /\ Send("seal", "flush", NoBlock) /\ seal'.pc = "flushing"
         \/ writer = "gone" /\ queue' = queue /\ seal'.pc = "summary"
  BY <1>1, Heights
<1>3. Sealing /\ Sealing' /\ ~Over /\ ~Busy("seal")
  BY <1>1, <1>2 DEF Sealing, Over, ThreadInv, OwnInv
<1>4. /\ DiskInv' /\ SealInv' /\ GroundInv' /\ CommitInv' /\ OwnInv'
      /\ Begins(chain, chain') /\ disk'.man.h >= disk.man.h
  BY <1>1, <1>2, <1>3, SealQuiet
<1>5. CASE writer # "gone"
  <2>1. Send("seal", "flush", NoBlock) /\ seal'.pc = "flushing"
    BY <1>2, <1>5
  <2>2. PICK n : n = Len(queue)
    OBVIOUS
  <2>3. /\ QueueInv' /\ Len(queue') = n + 1 /\ n \in Nat
        /\ \A i \in 1..n : i \in 1..Len(queue') /\ queue'[i] = queue[i]
        /\ queue'[n + 1] = [op |-> "flush", blk |-> NoBlock]
        /\ \A i \in 1..Len(queue') : i \in 1..n \/ i = Len(queue')
    BY <1>4, <2>1, <2>2, SentQueue, Heights
  <2>4. WriterInv'
    <3> SUFFICES ASSUME stop = "no" PROVE WriterInv'
      BY <1>1 DEF WriterInv
    <3>1. reply = "none" /\ Carried /\ \A i \in 1..n : queue[i].op # "shutdown" /\ queue[i].op # "flush"
      BY <1>1, <2>2 DEF ThreadInv, WriterInv
    <3>2. \A i \in 1..Len(queue') : /\ queue'[i].op # "shutdown"
                                    /\ queue'[i].op = "flush" => i = Len(queue')
      BY <2>3, <3>1
    <3>3. Carried'
      BY <1>1, <1>2, <2>2, <2>3, <3>1 DEF Carried, Busy
    <3>4. QED  BY <1>1, <1>5, <2>1, <3>1, <3>2, <3>3 DEF WriterInv
  <2>5. QED  BY <1>4, <2>3, <2>4 DEF ThreadInv
<1>6. CASE writer = "gone"
  <2>1. QueueInv'
    BY <1>2, <1>4, <1>6, SameQueue
  <2>2. WriterInv'
    BY <1>1, <1>6 DEF ThreadInv, WriterInv
  <2>3. QED  BY <1>4, <2>1, <2>2 DEF ThreadInv
<1>7. QED  BY <1>5, <1>6

\* Flushed: an answer without an error means the block is on disk.
LEMMA FlushedKeeps ==
    ASSUME TypeInv, TypeInv', DiskInv, ThreadInv, Flushed
    PROVE  DiskInv' /\ ThreadInv'
<1>1. /\ UNCHANGED <<chain, commit, late, stop, queue, writer, app, disk, up, born, acked>>
      /\ seal.pc = "flushing" /\ reply # "none" /\ reply' = "none"
  BY DEF Flushed, life, counters, history
<1>2. /\ seal'.blk = seal.blk /\ seal'.bak = seal.bak
      /\ seal'.pc = (IF reply = "ok" THEN "summary" ELSE "failed")
  BY Heights DEF Flushed
<1>3. Sealing /\ Sealing' /\ ~Over /\ ~Busy("seal")
  BY <1>1, <1>2 DEF Sealing, Over, ThreadInv, OwnInv
<1>4. /\ DiskInv' /\ SealInv' /\ GroundInv' /\ CommitInv' /\ OwnInv'
      /\ Begins(chain, chain') /\ disk'.man.h >= disk.man.h
  BY <1>1, <1>2, <1>3, SealQuiet
<1>5. QueueInv'
  BY <1>1, <1>4, SameQueue
<1>6. WriterInv'
  <2> SUFFICES ASSUME stop = "no" PROVE WriterInv'
    BY <1>1 DEF WriterInv
  <2>1. /\ writer # "gone" /\ (reply = "ok" => disk.man.h >= seal.blk.h)
        /\ \A i \in 1..Len(queue) : queue[i].op # "shutdown" /\ queue[i].op # "flush"
    BY <1>1 DEF ThreadInv, WriterInv
  <2>2. seal'.pc \in {"summary", "failed"} /\ (seal'.pc = "summary" => disk'.man.h >= seal'.blk.h)
    BY <1>1, <1>2, <2>1
  <2>3. QED  BY <1>1, <2>1, <2>2 DEF WriterInv
<1>7. QED  BY <1>4, <1>5, <1>6 DEF ThreadInv

\* SaveSummary: a checkpoint of the tip.
LEMMA SaveKeeps ==
    ASSUME TypeInv, TypeInv', DiskInv, ThreadInv, harm' = {}, NEW ok \in BOOLEAN, SaveSummary(ok)
    PROVE  DiskInv' /\ ThreadInv'
<1>1. /\ UNCHANGED <<chain, commit, late, stop, mutex, queue, writer, reply, app, up, born, acked>>
      /\ seal.pc = "summary" /\ WriteSummary(Checkpoint, ok)
  BY DEF SaveSummary, life, handle
<1>2. seal'.blk = seal.blk /\ seal'.bak = seal.bak /\ seal'.pc = (IF ok THEN "saved" ELSE "failed")
  BY Heights DEF SaveSummary
<1>3. Sealing /\ Sealing' /\ ~Over /\ ~Busy("seal")
  BY <1>1, <1>2 DEF Sealing, Over, ThreadInv, OwnInv
<1>4. DiskInv' /\ disk'.man = disk.man /\ (~ok => disk' = disk) /\ (ok => disk'.sum = Checkpoint /\ ~Hollow(Checkpoint))
  BY <1>1, DiskSaved
<1>5. disk'.man.h >= disk.man.h
  BY <1>4, Heights
<1>6. Settled(Len(Ground)) => Settled(Len(Ground))'
  <2>1. Ground' = Ground
    BY <1>1 DEF Ground, Undoable
  <2>2. QED  BY <1>2, <1>3, <1>5, <2>1, Heights, SettledStays
<1>7. GroundInv' /\ Begins(Ground, Ground') /\ Begins(chain, chain')
  BY <1>1, <1>5, <1>6, GroundKeeps DEF ThreadInv
<1>8. SealInv'
  BY <1>2, <1>3, <1>5, <1>7, SealKeeps DEF ThreadInv
<1>9. CommitInv'
  <2>1. CASE ~ok
    <3>1. disk' = disk
      BY <1>4, <2>1
    <3>2. QED  BY <1>1, <1>5, <3>1, CommitKeeps DEF ThreadInv
  <2>2. CASE ok
    <3>1. disk'.sum.kind = "epochs" /\ ~Hollow(Checkpoint) /\ Checkpoint.kind = "epochs"
      BY <1>4, <2>2 DEF Checkpoint
    <3>2. disk.sum.kind = "inline" => disk.man.h >= Len(chain)
      BY <3>1, Heights DEF Hollow
    <3>3. QED  BY <1>1, <1>4, <3>1, <3>2 DEF ThreadInv, CommitInv, Undoable
  <2>3. QED  BY <2>1, <2>2
<1>10. QueueInv'
  BY <1>1, <1>5, <1>7, SameQueue
<1>11. OwnInv'
  BY <1>1, <1>3 DEF ThreadInv, OwnInv, Busy
<1>12. WriterInv'
  <2> SUFFICES ASSUME stop = "no" PROVE WriterInv'
    BY <1>1 DEF WriterInv
  <2>1. /\ writer # "gone" /\ disk.man.h >= seal.blk.h /\ reply = "none"
        /\ \A i \in 1..Len(queue) : queue[i].op # "shutdown" /\ queue[i].op # "flush"
    BY <1>1 DEF ThreadInv, WriterInv
  <2>2. seal'.pc \in {"saved", "failed"} /\ disk'.man.h >= seal'.blk.h
    BY <1>2, <1>4, <2>1
  <2>3. QED  BY <1>1, <2>1, <2>2 DEF WriterInv
<1>13. QED  BY <1>4, <1>7, <1>8, <1>9, <1>10, <1>11, <1>12 DEF ThreadInv

\* A rollback keeps every block that is on its way to the writer.
LEMMA CutQueue ==
    ASSUME TypeInv, ThreadInv, NEW c, \A b \in OnWay : In(b, chain) => In(b, c),
           chain' = c, UNCHANGED <<queue, disk>>
    PROVE  QueueInv'
<1> SUFFICES ASSUME NEW i \in 1..Len(queue), queue[i].op = "append"
             PROVE  In(queue[i].blk, c) /\ Covered(queue[i].blk.h - 1)
  BY DEF QueueInv, Covered
<1>1. In(queue[i].blk, chain) /\ Covered(queue[i].blk.h - 1)
  BY DEF ThreadInv, QueueInv
<1>2. DOMAIN queue = 1..Len(queue)
  BY LenProperties DEF TypeInv, Threads
<1>3. queue[i].blk \in OnWay
  BY <1>2 DEF OnWay
<1>4. QED  BY <1>1, <1>3

\* Finish: the turn is over, or its block is taken back.
LEMMA FinishKeeps ==
    ASSUME TypeInv, TypeInv', DiskInv, ThreadInv, harm' = {}, Finish
    PROVE  DiskInv' /\ ThreadInv'
<1>1. /\ UNCHANGED <<commit, late, stop, mutex, queue, writer, reply, app, disk, up, born, acked>>
      /\ seal.pc \in {"saved", "failed"} /\ seal' = NoSeal
  BY DEF Finish, handle, counters
<1>2. Sealing /\ ~Over /\ ~Busy("seal")
  BY <1>1 DEF Sealing, Over, ThreadInv, OwnInv
<1>3. CASE seal.pc = "failed" /\ SnapHit(seal.blk.h)
  <2>1. Writable /\ Restore(seal.bak)
    BY <1>3 DEF Finish
  <2>2. commit.pc = "idle" /\ ~Undoable /\ ~Undoable'
    BY <1>1, <2>1 DEF Writable, Undoable
  <2>3. PICK c : c = seal.bak
    OBVIOUS
  <2>4. c \in Chains /\ Len(c) \in Nat /\ Covered(Len(c)) /\ Begins(c, chain)
    BY <1>2, <2>2, <2>3, Heights DEF ThreadInv, SealInv, Ground
  <2>5. /\ DiskInv' /\ chain' = c /\ disk.man.h <= Len(c)
        /\ \A b \in OnWay : In(b, chain) => In(b, c)
    BY <1>1, <2>1, <2>3, <2>4, DiskCut
  <2>6. QueueInv'
    BY <1>1, <2>5, CutQueue
  <2>7. GroundInv'
    <3>1. Ground' = c
      BY <2>2, <2>5 DEF Ground
    <3>2. Settled(Len(Ground))'
      BY <1>1, <2>4, <3>1 DEF Settled, Covered
    <3>3. QED  BY <2>2, <2>4, <2>5, <3>1, <3>2, BeginsSelf DEF GroundInv
  <2>8. SealInv'
    BY <1>1 DEF SealInv, Sealing, NoSeal
  <2>9. CommitInv'
    BY <1>1, <2>2 DEF CommitInv
  <2>10. OwnInv'
    BY <1>1, <1>2 DEF ThreadInv, OwnInv, Busy
  <2>11. WriterInv'
    BY <1>1 DEF ThreadInv, WriterInv, NoSeal
  <2>12. QED  BY <2>5, <2>6, <2>7, <2>8, <2>9, <2>10, <2>11 DEF ThreadInv
<1>4. CASE ~(seal.pc = "failed" /\ SnapHit(seal.blk.h))
  <2>1. chain' = chain
    BY <1>4 DEF Finish
  <2>2. ~Boundary(seal.blk.h) \/ stop # "no" \/ disk.man.h >= seal.blk.h
    <3>1. CASE seal.pc = "saved"
      BY <3>1 DEF ThreadInv, WriterInv
    <3>2. CASE ~SnapHit(seal.blk.h)
      BY <1>2, <3>2, NoSnapshot
    <3>3. QED  BY <1>1, <1>4, <3>1, <3>2
  <2>3. QED  BY <1>1, <1>2, <2>1, <2>2, IdleKeeps
<1>5. QED  BY <1>3, <1>4

\* WaitForRoom moves the mutex alone.
LEMMA WaitKeeps ==
    ASSUME TypeInv, TypeInv', DiskInv, ThreadInv, NEW who, WaitForRoom(who)
    PROVE  DiskInv' /\ ThreadInv'
<1>1. UNCHANGED <<chain, seal, commit, late, stop, queue, writer, reply, app, disk, up, born, acked>>
  BY DEF WaitForRoom, life, counters, history
<1>2. QED  BY <1>1, StillKeeps

-----------------------------------------------------------------------------
(* Commits that persist under the chain's lock.                            *)

\* What a step of a commit keeps as long as the commit goes on.
LEMMA CommitQuiet ==
    ASSUME TypeInv, TypeInv', ThreadInv,
           UNCHANGED <<chain, seal, stop, mutex, queue, writer, reply>>, disk'.man.h >= disk.man.h,
           commit.pc # "idle", commit'.pc # "idle", commit'.who = commit.who, commit'.bak = commit.bak,
           Busy("writer")' <=> Busy("writer"), app'["writer"].blk = app["writer"].blk
    PROVE  QueueInv' /\ SealInv' /\ GroundInv' /\ WriterInv'
<1>1. Ground' = Ground /\ (Undoable' <=> Undoable)
  BY DEF Ground, Undoable
<1>2. Ground \in Chains /\ chain \in Chains
  BY Heights
<1>3. Begins(Ground, Ground') /\ Begins(chain, chain')
  BY <1>1, <1>2, BeginsSelf
<1>4. Settled(Len(Ground)) => Settled(Len(Ground))'
  <2>1. Sealing' = Sealing /\ Over' = Over
    BY DEF Sealing, Over
  <2>2. QED  BY <1>1, <2>1, Heights, SettledStays
<1>5. GroundInv'
  BY <1>1, <1>4 DEF ThreadInv, GroundInv
<1>6. SealInv'
  BY <1>3, SealKeeps DEF ThreadInv, Sealing
<1>7. QueueInv'
  BY <1>3, SameQueue
<1>8. WriterInv'
  BY WriterKeeps
<1>9. QED  BY <1>5, <1>6, <1>7, <1>8

\* The next block to write is the chain's block after the manifest's.
LEMMA NextInChain ==
    ASSUME TypeInv, NEW h, h = disk.man.h + 1, h <= Len(chain)
    PROVE  In(chain[h], chain) /\ Covered(chain[h].h - 1)
<1>1. h \in 1..Len(chain) /\ chain \in Chains /\ disk.man.h \in Nat
  BY Heights
<1>2. chain[h].h = h
  BY <1>1, ChainFacts
<1>3. chain[h].h - 1 = disk.man.h
  BY <1>1, <1>2
<1>4. QED  BY <1>1, <1>2, <1>3 DEF In, Covered

\* SyncStep: the next block of the chain is appended, or none is left.
LEMMA SyncKeeps ==
    ASSUME TypeInv, TypeInv', DiskInv, ThreadInv, harm' = {}, SyncStep
    PROVE  DiskInv' /\ ThreadInv'
<1>1. /\ UNCHANGED <<chain, seal, late, stop, mutex, queue, writer, reply, disk, up, born, acked>>
      /\ commit.pc = "sync" /\ up
  BY DEF SyncStep, life, handle, counters
<1>2. PICK h : h = disk.man.h + 1
  OBVIOUS
<1>3. /\ commit'.who = commit.who /\ commit'.bak = commit.bak
      /\ \/ h > Len(chain) /\ commit'.pc = "summary" /\ UNCHANGED app
         \/ h <= Len(chain) /\ Appendable(chain[h]) /\ BeginAppend("commit", chain[h]) /\ commit'.pc = "append"
         \/ commit'.pc = "failed" /\ UNCHANGED app
  BY <1>2, Heights DEF SyncStep
<1>4. "commit" \in Appenders /\ "writer" \in Appenders /\ "seal" \in Appenders
  BY DEF Appenders
<1>5. DiskInv'
  <2>1. CASE UNCHANGED app
    BY <1>1, <2>1, DiskSame DEF DiskInv, Appending
  <2>2. CASE h <= Len(chain) /\ Appendable(chain[h]) /\ BeginAppend("commit", chain[h])
    <3>1. In(chain[h], chain) /\ Covered(chain[h].h - 1)
      BY <1>2, <2>2, NextInChain
    <3>2. PICK b : b = chain[h]
      OBVIOUS
    <3>3. QED  BY <1>1, <1>4, <2>2, <3>1, <3>2, DiskBegins
  <2>3. QED  BY <1>3, <2>1, <2>2
<1>6. \A o \in Appenders : o # "commit" => app'[o] = app[o]
  BY <1>3 DEF BeginAppend, TypeInv, Threads
<1>7. disk'.man.h >= disk.man.h /\ disk'.sum = disk.sum
  BY <1>1, FilesSame
<1>8. commit'.pc # "idle"
  BY <1>3
<1>9. QueueInv' /\ SealInv' /\ GroundInv' /\ WriterInv'
  BY <1>1, <1>3, <1>4, <1>6, <1>7, <1>8, CommitQuiet DEF Busy
<1>10. CommitInv'
  <2>1. commit'.pc \in {"summary", "append", "failed"}
    BY <1>3
  <2>2. commit'.pc = "summary" => disk.man.h >= Len(chain)
    <3>1. h > Len(chain) => disk.man.h >= Len(chain)
      BY <1>2, Heights
    <3>2. QED  BY <1>3, <3>1
  <2>3. QED  BY <1>1, <2>1, <2>2 DEF CommitInv, Undoable
<1>11. OwnInv'
  <2>1. ~Busy("commit")
    BY <1>1 DEF ThreadInv, OwnInv
  <2>2. Busy("commit")' => commit'.pc = "append"
    BY <1>3, <2>1 DEF Busy
  <2>3. QED  BY <1>1, <1>4, <1>6, <2>2 DEF ThreadInv, OwnInv, Busy
<1>12. QED  BY <1>5, <1>9, <1>10, <1>11 DEF ThreadInv

\* SyncAppended: the commit's append ends.
LEMMA AppendedKeeps ==
    ASSUME TypeInv, TypeInv', DiskInv, ThreadInv, harm' = {}, NEW ok \in BOOLEAN, SyncAppended(ok)
    PROVE  DiskInv' /\ ThreadInv'
<1>1. /\ UNCHANGED <<chain, seal, late, stop, mutex, queue, writer, reply, up, born, acked>>
      /\ EndAppend("commit", ok)
  BY DEF SyncAppended, life, handle
<1>2. commit'.who = commit.who /\ commit'.bak = commit.bak /\ commit'.pc \in {"sync", "failed"}
  BY Heights DEF SyncAppended
<1>3. "commit" \in Appenders /\ "writer" \in Appenders /\ "seal" \in Appenders
  BY DEF Appenders
<1>4. /\ DiskInv' /\ disk'.sum = disk.sum /\ disk'.man.h >= disk.man.h
      /\ Busy("commit") /\ ~Busy("commit")' /\ \A o \in Appenders : o # "commit" => ~Busy(o)
  BY <1>1, <1>3, DiskEnds
<1>5. \A o \in Appenders : o # "commit" => app'[o] = app[o]
  BY <1>1 DEF EndAppend, TypeInv, Threads
<1>6. commit.pc = "append" /\ commit'.pc # "idle"
  BY <1>2, <1>4 DEF ThreadInv, OwnInv
<1>7. QueueInv' /\ SealInv' /\ GroundInv' /\ WriterInv'
  BY <1>1, <1>2, <1>3, <1>4, <1>5, <1>6, CommitQuiet DEF Busy
<1>8. CommitInv'
  BY <1>2 DEF CommitInv
<1>9. OwnInv'
  BY <1>1, <1>3, <1>4, <1>5 DEF ThreadInv, OwnInv, Busy
<1>10. QED  BY <1>4, <1>7, <1>8, <1>9 DEF ThreadInv

\* CommitSummary: a checkpoint or a monolith of the tip.
LEMMA CommitSaveKeeps ==
    ASSUME TypeInv, TypeInv', DiskInv, ThreadInv, harm' = {}, NEW ok \in BOOLEAN, CommitSummary(ok)
    PROVE  DiskInv' /\ ThreadInv'
<1>1. PICK s : s = IF commit.pc = "summary" THEN Checkpoint ELSE Monolith
  OBVIOUS
<1>2. /\ UNCHANGED <<chain, seal, late, stop, mutex, queue, writer, reply, app, up, born, acked>>
      /\ commit.pc \in {"summary", "monolith"} /\ WriteSummary(s, ok) /\ s \in {Checkpoint, Monolith}
  BY <1>1 DEF CommitSummary, life, handle
<1>3. commit'.who = commit.who /\ commit'.bak = commit.bak /\ commit'.pc = (IF ok THEN "saved" ELSE "failed")
  BY Heights DEF CommitSummary
<1>4. DiskInv' /\ disk'.man = disk.man /\ (~ok => disk' = disk) /\ (ok => disk'.sum = s)
  BY <1>2, DiskSaved
<1>5. disk'.man.h >= disk.man.h
  BY <1>4, Heights
<1>6. QueueInv' /\ SealInv' /\ GroundInv' /\ WriterInv'
  BY <1>2, <1>3, <1>5, CommitQuiet DEF Busy
<1>7. CommitInv'
  <2>1. CASE ~ok
    BY <1>3, <2>1 DEF CommitInv
  <2>2. CASE ok /\ commit.pc = "summary"
    <3>1. disk'.sum.kind = "epochs"
      BY <1>1, <1>4, <2>2 DEF Checkpoint
    <3>2. Undoable' => disk.man.h >= Len(chain)
      BY <1>3, <2>2 DEF ThreadInv, CommitInv, Undoable
    <3>3. QED  BY <1>2, <1>3, <1>4, <2>2, <3>1, <3>2 DEF CommitInv
  <2>3. CASE ok /\ commit.pc = "monolith"
    <3>1. disk'.sum.kind = "inline" /\ disk'.sum.blocks = chain
      BY <1>1, <1>4, <2>3 DEF Monolith
    <3>2. QED  BY <1>2, <1>3, <2>3, <3>1 DEF CommitInv
  <2>4. QED  BY <1>2, <2>1, <2>2, <2>3
<1>8. OwnInv'
  BY <1>2 DEF ThreadInv, OwnInv, Busy
<1>9. QED  BY <1>4, <1>6, <1>7, <1>8 DEF ThreadInv

\* What was saved reaches the tip, and its last block may be answered for.
LEMMA SavedTip ==
    ASSUME TypeInv, DiskInv, ThreadInv, Undoable, commit.pc = "saved"
    PROVE  /\ Boundary(Len(chain)) => disk.man.h >= Len(chain)
           /\ In(TipOf(chain), chain)
           /\ TipOf(chain).h <= (IF disk.sum.kind = "inline" THEN Len(disk.sum.blocks) ELSE disk.man.h)
<1>1. chain \in Chains /\ Len(chain) \in Nat /\ Len(commit.bak) \in Nat /\ disk.man.h \in Nat
  BY Heights
<1>2. Len(chain) = Len(commit.bak) + 1
  BY DEF ThreadInv, GroundInv
<1>3. \/ disk.sum.kind = "inline" /\ disk.sum.blocks = chain
      \/ disk.sum.kind = "epochs" /\ disk.man.h >= Len(chain)
  BY DEF ThreadInv, CommitInv
<1>4. disk.sum.kind = "inline" => ~Boundary(Len(disk.sum.blocks))
  BY DEF DiskInv, Store, SummaryHolds, NoSummary
<1>5. Len(chain) >= 1 /\ Len(chain) \in 1..Len(chain)
  BY <1>1, <1>2
<1>6. chain # <<>>
  BY <1>1, <1>5, ChainFacts
<1>7. TipOf(chain) = chain[Len(chain)] /\ chain[Len(chain)].h = Len(chain)
  BY <1>1, <1>5, <1>6, ChainFacts
<1>8. In(TipOf(chain), chain) /\ TipOf(chain).h = Len(chain)
  BY <1>5, <1>7 DEF In
<1>9. QED  BY <1>1, <1>3, <1>4, <1>8

\* CommitDone: the answer, or the block undone under the lock.
LEMMA CommitDoneKeeps ==
    ASSUME TypeInv, TypeInv', DiskInv, ThreadInv, harm' = {}, CommitDone
    PROVE  DiskInv' /\ ThreadInv'
<1>1. /\ UNCHANGED <<seal, mutex, queue, writer, reply, app, disk, up, born>>
      /\ commit.pc \in {"saved", "failed"} /\ commit' = NoCommit
      /\ stop' = (IF commit.who = "stop" THEN "off" ELSE stop)
      /\ acked' = (IF commit.pc = "saved" /\ commit.who = "http" THEN acked \cup {TipOf(chain)} ELSE acked)
  BY DEF CommitDone, handle, counters
<1>2. commit'.pc = "idle" /\ ~Undoable'
  BY <1>1 DEF NoCommit, Undoable
<1>3. Ground' = chain'
  BY <1>2 DEF Ground
<1>4. disk'.man.h >= disk.man.h /\ disk'.sum = disk.sum
  BY <1>1, FilesSame
<1>5. CommitInv'
  BY <1>2 DEF CommitInv
<1>6. OwnInv'
  BY <1>1 DEF ThreadInv, OwnInv, Busy
<1>7. WriterInv'
  <2> SUFFICES ASSUME stop' = "no" PROVE WriterInv'
    BY DEF WriterInv
  <2>1. stop = "no"
    BY <1>1
  <2>2. QED  BY <1>1, <2>1 DEF ThreadInv, WriterInv, Carried, Busy
<1>8. Sealing' = Sealing /\ (Over => Over')
  BY <1>1 DEF Sealing, Over
<1>9. CASE commit.pc = "failed" /\ commit.who = "http"
  <2>1. Undoable /\ Ground = commit.bak /\ acked' = acked /\ stop' = stop
    BY <1>1, <1>9 DEF Undoable, Ground
  <2>2. Restore(commit.bak) /\ late' = late
    BY <1>9 DEF CommitDone
  <2>3. PICK c : c = commit.bak
    OBVIOUS
  <2>4. c \in Chains /\ Len(c) \in Nat /\ Begins(c, chain) /\ Settled(Len(c)) /\ c = Ground
    BY <2>1, <2>3, Heights DEF ThreadInv, GroundInv
  <2>5. /\ DiskInv' /\ chain' = c /\ disk.man.h <= Len(c)
        /\ \A b \in OnWay : In(b, chain) => In(b, c)
    BY <1>1, <2>1, <2>2, <2>3, <2>4, DiskCut
  <2>6. QueueInv'
    BY <1>1, <2>5, CutQueue
  <2>7. Ground' = Ground /\ Begins(Ground, Ground')
    BY <1>3, <2>4, <2>5, BeginsSelf
  <2>8. Settled(Len(Ground))'
    <3>1. Over' = Over
      BY <1>1, <2>1 DEF Over
    <3>2. QED  BY <1>1, <1>8, <2>4, <2>7, <3>1 DEF Settled
  <2>9. GroundInv'
    BY <1>2, <1>3, <2>4, <2>5, <2>7, <2>8 DEF GroundInv
  <2>10. SealInv'
    BY <1>1, <1>4, <1>8, <2>7, SealKeeps DEF ThreadInv
  <2>11. QED  BY <1>5, <1>6, <1>7, <2>5, <2>6, <2>9, <2>10 DEF ThreadInv
<1>10. CASE commit.pc = "saved" \/ commit.who = "stop"
  <2>1. UNCHANGED <<chain, late>>
    BY <1>10 DEF CommitDone
  <2>2. Undoable => commit.pc = "saved"
    BY <1>10 DEF Undoable
  <2>3. Kept(acked', chain, disk)
    <3>1. CASE acked' = acked
      BY <3>1 DEF DiskInv
    <3>2. CASE commit.pc = "saved" /\ commit.who = "http"
      <4>1. Undoable
        BY <3>2 DEF Undoable
      <4>2. QED  BY <1>1, <3>2, <4>1, SavedTip DEF DiskInv, Kept
    <3>3. QED  BY <1>1, <3>1, <3>2
  <2>4. DiskInv'
    <3>1. Written' = Written
      BY <1>1 DEF Written
    <3>2. Appending'
      BY <1>1, <2>1 DEF Appending, Busy, DiskInv
    <3>3. QED  BY <1>1, <2>1, <2>3, <3>1, <3>2 DEF DiskInv
  <2>5. chain \in Chains /\ Ground \in Chains /\ Len(chain) \in Nat /\ Begins(Ground, chain)
    BY Heights DEF ThreadInv, GroundInv
  <2>6. Begins(Ground, Ground') /\ Begins(chain, chain') /\ Ground' = chain
    BY <1>3, <2>1, <2>5, BeginsSelf
  <2>7. Settled(Len(chain))
    <3>1. CASE Undoable
      BY <2>2, <3>1, SavedTip DEF Settled
    <3>2. CASE ~Undoable
      BY <3>2 DEF ThreadInv, GroundInv, Ground
    <3>3. QED  BY <3>1, <3>2
  <2>8. Settled(Len(Ground))'
    <3>1. Settled(Len(chain))'
      BY <1>1, <1>8, <2>1, <2>7 DEF Settled
    <3>2. QED  BY <1>3, <3>1 DEF Settled
  <2>9. GroundInv'
    BY <1>2, <1>3, <2>1, <2>5, <2>8, BeginsSelf DEF GroundInv
  <2>10. SealInv'
    BY <1>1, <1>4, <1>8, <2>6, SealKeeps DEF ThreadInv
  <2>11. QueueInv'
    BY <1>1, <1>4, <2>6, SameQueue
  <2>12. QED  BY <1>5, <1>6, <1>7, <2>4, <2>9, <2>10, <2>11 DEF ThreadInv
<1>11. CASE commit.pc = "failed" /\ commit.who # "http" /\ commit.who # "stop"
  <2>1. harm' = harm \cup {"late"}
    BY <1>11 DEF CommitDone
  <2>2. QED  BY <2>1
<1>12. QED  BY <1>1, <1>9, <1>10, <1>11

-----------------------------------------------------------------------------
(* Shutdown, and the steps that begin something.                           *)

\* What a step keeps that moves neither chain, files nor seal loop, and at
\* most lets a commit begin that undoes nothing.
LEMMA ThreadQuiet ==
    ASSUME TypeInv, TypeInv', DiskInv, ThreadInv, UNCHANGED <<chain, seal, late, app, disk, born, acked>>,
           ~up' => \A a \in Appenders : app[a].pc # "manifest",
           Over => Over',
           \/ commit' = commit
           \/ commit.pc = "idle" /\ commit'.pc \in {"sync", "summary"} /\ commit'.who \in {"stop", "relay"}
    PROVE  /\ DiskInv' /\ SealInv' /\ GroundInv' /\ CommitInv' /\ OwnInv'
           /\ Begins(chain, chain') /\ disk'.man.h >= disk.man.h
<1>1. DiskInv'
  BY DiskSame DEF DiskInv
<1>2. disk'.man.h >= disk.man.h /\ disk'.sum = disk.sum
  BY FilesSame
<1>3. Ground' = Ground /\ (Undoable' <=> Undoable)
  BY DEF Ground, Undoable
<1>4. Ground \in Chains /\ chain \in Chains /\ Len(Ground) \in Nat
  BY Heights
<1>5. Begins(Ground, Ground') /\ Begins(chain, chain')
  BY <1>3, <1>4, BeginsSelf
<1>6. Settled(Len(Ground)) => Settled(Len(Ground))'
  <2>1. Sealing' = Sealing
    BY DEF Sealing
  <2>2. QED  BY <1>3, <2>1 DEF Settled
<1>7. GroundInv'
  <2>1. Undoable => commit' = commit
    BY DEF Undoable
  <2>2. QED  BY <1>3, <1>6, <2>1 DEF ThreadInv, GroundInv
<1>8. SealInv'
  BY <1>2, <1>5, SealKeeps DEF ThreadInv, Sealing
<1>9. CommitInv'
  <2>1. CASE commit' = commit
    BY <1>2, <2>1, CommitKeeps DEF ThreadInv
  <2>2. CASE commit'.pc \in {"sync", "summary"} /\ commit'.who \in {"stop", "relay"}
    BY <2>2 DEF CommitInv, Undoable
  <2>3. QED  BY <2>1, <2>2
<1>10. OwnInv'
  BY DEF ThreadInv, OwnInv, Busy
<1>11. QED  BY <1>1, <1>2, <1>5, <1>7, <1>8, <1>9, <1>10

\* The shutdown's steps, whatever the other threads are at.
LEMMA StopKeeps ==
    ASSUME TypeInv, TypeInv', DiskInv, ThreadInv, StopSend \/ StopAnswered \/ StopSave \/ RequestStop
    PROVE  DiskInv' /\ ThreadInv'
<1>1. UNCHANGED <<chain, seal, late, app, disk, born, acked, up>> /\ up /\ stop' # "no"
  BY DEF StopSend, StopAnswered, StopSave, RequestStop, life, counters, history
<1>2. Over => Over'
  BY <1>1 DEF Over
<1>3. \/ commit' = commit
      \/ commit.pc = "idle" /\ commit'.pc \in {"sync", "summary"} /\ commit'.who \in {"stop", "relay"}
  BY DEF StopSend, StopAnswered, StopSave, RequestStop
<1>4. /\ DiskInv' /\ SealInv' /\ GroundInv' /\ CommitInv' /\ OwnInv'
      /\ Begins(chain, chain') /\ disk'.man.h >= disk.man.h
  BY <1>1, <1>2, <1>3, ThreadQuiet
<1>5. WriterInv'
  BY <1>1 DEF WriterInv
<1>6. QueueInv'
  <2>1. CASE StopSend
    <3>1. PICK op : op = stop
      OBVIOUS
    <3>2. Send("stop", op, NoBlock) /\ op \in {"flush", "shutdown"}
      BY <2>1, <3>1 DEF StopSend
    <3>3. QED  BY <1>4, <3>2, SentQueue
  <2>2. CASE StopAnswered \/ StopSave \/ RequestStop
    <3>1. queue' = queue
      BY <2>2 DEF StopAnswered, StopSave, RequestStop, handle
    <3>2. QED  BY <1>4, <3>1, SameQueue
  <2>3. QED  BY <2>1, <2>2
<1>7. QED  BY <1>4, <1>5, <1>6 DEF ThreadInv

\* The process ends between two steps; no line lacks its manifest.
LEMMA EndKeeps ==
    ASSUME TypeInv, TypeInv', DiskInv, ThreadInv, harm' = {}, End \/ Crash
    PROVE  DiskInv' /\ ThreadInv'
<1>1. UNCHANGED <<chain, seal, commit, late, stop, mutex, queue, writer, reply, app, disk, born, acked>>
  BY DEF End, Crash, handle, counters, history
<1>2. \A a \in Appenders : app[a].pc # "manifest"
  <2>1. CASE End
    BY <2>1 DEF End
  <2>2. CASE Crash
    BY <2>2 DEF Crash
  <2>3. QED  BY <2>1, <2>2
<1>3. Over => Over'
  BY <1>1 DEF Over
<1>4. /\ DiskInv' /\ SealInv' /\ GroundInv' /\ CommitInv' /\ OwnInv'
      /\ Begins(chain, chain') /\ disk'.man.h >= disk.man.h
  BY <1>1, <1>2, <1>3, ThreadQuiet
<1>5. QueueInv'
  BY <1>1, <1>4, SameQueue
<1>6. WriterInv'
  BY <1>1 DEF ThreadInv, WriterInv, Carried, Busy
<1>7. QED  BY <1>4, <1>5, <1>6 DEF ThreadInv

\* MarkRelayed: a commit that undoes nothing begins.
LEMMA RelayedKeeps ==
    ASSUME TypeInv, TypeInv', DiskInv, ThreadInv, MarkRelayed
    PROVE  DiskInv' /\ ThreadInv'
<1>1. /\ UNCHANGED <<chain, seal, late, stop, mutex, queue, writer, reply, app, disk, up, born, acked>> /\ up
      /\ commit.pc = "idle" /\ commit' = [pc |-> "summary", who |-> "relay", bak |-> chain]
  BY DEF MarkRelayed, Writable, handle, life, history
<1>2. commit'.pc = "summary" /\ commit'.who = "relay"
  BY <1>1
<1>3. Over => Over'
  BY <1>1 DEF Over
<1>4. /\ DiskInv' /\ SealInv' /\ GroundInv' /\ CommitInv' /\ OwnInv'
      /\ Begins(chain, chain') /\ disk'.man.h >= disk.man.h
  BY <1>1, <1>2, <1>3, ThreadQuiet
<1>5. QueueInv'
  BY <1>1, <1>4, SameQueue
<1>6. WriterInv'
  BY <1>1 DEF ThreadInv, WriterInv, Carried, Busy
<1>7. QED  BY <1>4, <1>5, <1>6 DEF ThreadInv

\* Without a commit, the last block that ends an epoch is on disk unless
\* the seal loop has it.
LEMMA IdleCovers ==
    ASSUME TypeInv, ThreadInv, commit.pc = "idle"
    PROVE  /\ Ground = chain /\ Settled(Len(chain))
           /\ seal.pc = "turn" => Covered(Len(chain))
  BY DEF ThreadInv, GroundInv, Ground, Undoable, Settled, Covered, Sealing, Over

\* StartTurn: there is no block yet.
LEMMA TurnKeeps ==
    ASSUME TypeInv, TypeInv', DiskInv, ThreadInv, StartTurn
    PROVE  DiskInv' /\ ThreadInv'
<1>1. /\ UNCHANGED <<chain, commit, late, stop, mutex, queue, writer, reply, app, disk, up, born, acked>>
      /\ seal.pc = "idle" /\ stop = "no" /\ seal'.pc = "turn"
  BY DEF StartTurn, NoSeal, handle, life, counters, history
<1>2. ~Sealing /\ ~Sealing' /\ ~Over
  BY <1>1 DEF Sealing, Over
<1>3. DiskInv'
  BY <1>1, DiskSame DEF DiskInv, Appending
<1>4. disk'.man.h >= disk.man.h /\ disk'.sum = disk.sum
  BY <1>1, FilesSame
<1>5. Settled(Len(Ground)) => Settled(Len(Ground))'
  <2>1. Ground' = Ground
    BY <1>1 DEF Ground, Undoable
  <2>2. QED  BY <1>1, <1>2, <2>1 DEF Settled
<1>6. GroundInv' /\ Begins(chain, chain')
  BY <1>1, <1>4, <1>5, GroundKeeps DEF ThreadInv
<1>7. SealInv'
  BY <1>2 DEF SealInv
<1>8. CommitInv'
  BY <1>1, <1>4, CommitKeeps DEF ThreadInv
<1>9. QueueInv'
  BY <1>1, <1>4, <1>6, SameQueue
<1>10. OwnInv'
  BY <1>1 DEF ThreadInv, OwnInv, Busy
<1>11. WriterInv'
  BY <1>1 DEF ThreadInv, WriterInv
<1>12. QED  BY <1>3, <1>6, <1>7, <1>8, <1>9, <1>10, <1>11 DEF ThreadInv

\* Seal: the block stands on a height that is covered.
LEMMA SealedKeeps ==
    ASSUME TypeInv, TypeInv', DiskInv, ThreadInv, Seal
    PROVE  DiskInv' /\ ThreadInv'
<1>1. /\ UNCHANGED <<commit, late, stop, mutex, queue, writer, reply, app, disk, up, acked>>
      /\ seal.pc = "turn" /\ commit.pc = "idle"
      /\ seal' = [pc |-> "enqueue", blk |-> NewBlock, bak |-> chain]
  BY DEF Seal, Writable, handle, life, history
<1>2. /\ DiskInv' /\ chain' \in Chains /\ Begins(chain, chain')
      /\ Len(chain') = Len(chain) + 1 /\ chain'[Len(chain) + 1] = NewBlock
      /\ In(NewBlock, chain')
  <2>1. chain' = Append(chain, NewBlock) /\ born' = born + 1 /\ Len(chain) < MaxHeight /\ born < MaxBlocks
    BY DEF Seal
  <2>2. QED  BY <1>1, <2>1, DiskGrows
<1>3. PICK b : b = NewBlock
  OBVIOUS
<1>4. /\ seal'.pc = "enqueue" /\ seal'.blk = b /\ seal'.bak = chain
      /\ Len(chain) \in Nat /\ b.h = Len(chain) + 1
  BY <1>1, <1>3, Heights DEF NewBlock
<1>5. Ground = chain /\ Covered(Len(chain)) /\ Ground' = chain' /\ ~Undoable'
  BY <1>1, IdleCovers DEF Ground, Undoable
<1>6. disk'.man.h >= disk.man.h
  BY <1>1, FilesSame
<1>7. Sealing'
  BY <1>4 DEF Sealing
<1>8. SealInv'
  <2>1. Covered(Len(chain)) => (Boundary(Len(chain)) => disk'.man.h >= Len(chain))
    BY <1>1 DEF Covered
  <2>2. QED  BY <1>2, <1>3, <1>4, <1>5, <2>1 DEF SealInv, Covered
<1>9. GroundInv'
  <2>1. Settled(Len(Ground))'
    BY <1>2, <1>4, <1>5, <1>7 DEF Settled
  <2>2. QED  BY <1>2, <1>5, <2>1, BeginsSelf DEF GroundInv
<1>10. CommitInv'
  BY <1>1 DEF CommitInv, Undoable
<1>11. QueueInv'
  BY <1>1, <1>2, <1>6, SameQueue
<1>12. OwnInv'
  BY <1>1 DEF ThreadInv, OwnInv, Busy
<1>13. WriterInv'
  BY <1>1, <1>4 DEF ThreadInv, WriterInv
<1>14. QED  BY <1>2, <1>8, <1>9, <1>10, <1>11, <1>12, <1>13 DEF ThreadInv

\* A block comes under the chain's lock: it may be undone, or it ends no
\* epoch.
LEMMA GrownKeeps ==
    ASSUME TypeInv, TypeInv', DiskInv, ThreadInv, commit.pc = "idle",
           chain' = Append(chain, NewBlock), born' = born + 1, Len(chain) < MaxHeight, born < MaxBlocks,
           UNCHANGED <<seal, late, stop, mutex, queue, writer, reply, app, disk, up, acked>>,
           \/ /\ commit'.pc \in {"sync", "monolith"} /\ commit'.who \in {"http", "batch"}
              /\ commit'.bak = chain
              /\ (commit'.pc = "monolith" => commit'.who = "http")
           \/ commit' = commit /\ ~Boundary(Len(chain) + 1)
    PROVE  DiskInv' /\ ThreadInv'
<1>1. /\ DiskInv' /\ chain' \in Chains /\ Begins(chain, chain')
      /\ Len(chain') = Len(chain) + 1
  BY DiskGrows
<1>2. Ground = chain /\ Settled(Len(chain)) /\ chain \in Chains
  BY IdleCovers, Heights
<1>3. disk'.man.h >= disk.man.h
  BY FilesSame
<1>4. Sealing' = Sealing /\ Over' = Over
  BY DEF Sealing, Over
<1>5. GroundInv' /\ Begins(Ground, Ground')
  <2>1. CASE commit'.pc \in {"sync", "monolith"} /\ commit'.who \in {"http", "batch"} /\ commit'.bak = chain
    <3>1. Undoable' /\ Ground' = chain
      BY <2>1 DEF Undoable, Ground
    <3>2. Settled(Len(Ground))'
      <4>1. \/ ~Boundary(Len(chain)) \/ disk'.man.h >= Len(chain)
            \/ Sealing' /\ seal'.blk.h = Len(chain)
            \/ Over'
        BY <1>2, <1>4 DEF Settled
      <4>2. QED  BY <3>1, <4>1 DEF Settled
    <3>3. QED  BY <1>1, <1>2, <2>1, <3>1, <3>2, BeginsSelf DEF GroundInv
  <2>2. CASE commit' = commit /\ ~Boundary(Len(chain) + 1)
    <3>1. ~Undoable' /\ Ground' = chain'
      BY <2>2 DEF Undoable, Ground
    <3>2. Settled(Len(Ground))'
      BY <1>1, <2>2, <3>1 DEF Settled
    <3>3. QED  BY <1>1, <1>2, <3>1, <3>2, BeginsSelf DEF GroundInv
  <2>3. QED  BY <2>1, <2>2
<1>6. SealInv'
  BY <1>3, <1>4, <1>5, SealKeeps DEF ThreadInv
<1>7. CommitInv'
  BY DEF CommitInv, Undoable
<1>8. QueueInv'
  BY <1>1, <1>3, SameQueue
<1>9. OwnInv'
  BY DEF ThreadInv, OwnInv, Busy
<1>10. WriterInv'
  BY DEF ThreadInv, WriterInv, Carried, Busy
<1>11. QED  BY <1>1, <1>5, <1>6, <1>7, <1>8, <1>9, <1>10 DEF ThreadInv

\* HttpCommit: the block may be undone while the lock is held.
LEMMA HttpKeeps ==
    ASSUME TypeInv, TypeInv', DiskInv, ThreadInv, HttpCommit
    PROVE  DiskInv' /\ ThreadInv'
<1>1. /\ UNCHANGED <<seal, late, stop, mutex, queue, writer, reply, app, disk, up, acked>> /\ commit.pc = "idle"
      /\ chain' = Append(chain, NewBlock) /\ born' = born + 1 /\ Len(chain) < MaxHeight /\ born < MaxBlocks
  BY DEF HttpCommit, Writable, handle, life, history
<1>2. commit'.pc \in {"sync", "monolith"} /\ commit'.who = "http" /\ commit'.bak = chain
  BY DEF HttpCommit
<1>3. QED  BY <1>1, <1>2, GrownKeeps

\* SyncBatch: saved at an autosnapshot, where every epoch ends.
LEMMA BatchKeeps ==
    ASSUME TypeInv, TypeInv', DiskInv, ThreadInv, SyncBatch
    PROVE  DiskInv' /\ ThreadInv'
<1>1. /\ UNCHANGED <<seal, late, stop, mutex, queue, writer, reply, app, disk, up, acked>> /\ commit.pc = "idle"
      /\ chain' = Append(chain, NewBlock) /\ born' = born + 1 /\ Len(chain) < MaxHeight /\ born < MaxBlocks
  BY DEF SyncBatch, Writable, handle, life, history
<1>2. CASE SavesBatch(Len(chain) + 1)
  <2>1. commit'.pc = "sync" /\ commit'.who = "batch" /\ commit'.bak = chain
    BY <1>2 DEF SyncBatch
  <2>2. QED  BY <1>1, <2>1, GrownKeeps
<1>3. CASE ~SavesBatch(Len(chain) + 1)
  <2>1. commit' = commit
    BY <1>3 DEF SyncBatch
  <2>2. ~Boundary(Len(chain) + 1)
    <3>1. Len(chain) + 1 \in Nat /\ Len(chain) + 1 > 0
      BY Heights
    <3>2. QED  BY <1>3, <3>1, BoundaryFacts DEF SavesBatch
  <2>3. QED  BY <1>1, <2>1, <2>2, GrownKeeps
<1>4. QED  BY <1>2, <1>3

-----------------------------------------------------------------------------
(* The next start.                                                         *)

\* Without an append under way every line has its manifest.
LEMMA WrittenQuiet ==
    ASSUME TypeInv, DiskInv, \A a \in Appenders : app[a].pc # "manifest"
    PROVE  /\ Store(chain, disk, disk.man.h) /\ Kept(acked, chain, disk)
           /\ Loads /\ Loaded \in Chains /\ Begins(Loaded, chain)
           /\ disk.sum.kind # "inline" => Len(Loaded) = disk.man.h
           /\ Kept(acked, Loaded, disk)
<1>1. Written = disk.man.h
  BY DEF Written
<1>2. Store(chain, disk, disk.man.h) /\ Kept(acked, chain, disk)
  BY <1>1 DEF DiskInv
<1>3. QED  BY <1>2, StoreLoads

\* The files a start accepts hold the chain it takes, when no block on disk
\* is left out.
LEMMA StartHolds ==
    ASSUME TypeInv, DiskInv, ~up, OnDisk \subseteq ToSet(Loaded)
    PROVE  /\ disk.man.h <= Len(Loaded)
           /\ FilesHold(disk.files, Loaded, disk.man.h) /\ ManifestHolds(disk.man, Loaded)
<1>1. \A a \in Appenders : app[a].pc # "manifest"
  BY DEF DiskInv, Appending
<1>2. Store(chain, disk, disk.man.h) /\ Loaded \in Chains /\ Begins(Loaded, chain)
  BY <1>1, WrittenQuiet
<1>3. disk \in Disks /\ chain \in Chains /\ disk.man.h \in Nat
  BY Heights DEF TypeInv
<1>4. PICK c : c = Loaded
  OBVIOUS
<1>5. PICK d : d = [disk EXCEPT !.sum = NoSummary]
  OBVIOUS
<1>6. NoSummary \in Summaries
  BY Numbers, EmptyChain DEF NoSummary, Summaries
<1>7. d \in Disks /\ d.files = disk.files /\ d.man = disk.man /\ d.sum = NoSummary
  BY <1>3, <1>5, <1>6 DEF Disks
<1>8. Store(chain, d, disk.man.h)
  BY <1>2, <1>7 DEF Store, SummaryHolds
<1>9. Blocks0(d) \subseteq OnDisk
  <2>1. ToSet(d.sum.blocks) = {}
    BY <1>7, EmptySeq DEF NoSummary, ToSet
  <2>2. QED  BY <1>7, <2>1 DEF Blocks0, OnDisk
<1>10. Ids(Blocks0(d)) \cup {d.sum.st} \subseteq Ids(ToSet(c)) \cup {0}
  <2>1. Blocks0(d) \subseteq ToSet(c)
    BY <1>4, <1>9
  <2>2. d.sum.st = 0
    BY <1>7 DEF NoSummary
  <2>3. QED  BY <2>1, <2>2 DEF Ids
<1>11. Ordered(chain, born) /\ c \in Chains /\ Begins(c, chain)
  BY <1>2, <1>4 DEF DiskInv
<1>12. Store(c, d, disk.man.h)
  BY <1>3, <1>7, <1>8, <1>10, <1>11, StoreCut
<1>13. QED  BY <1>4, <1>7, <1>12 DEF Store

\* Restart: the chain in memory is the one on disk.
LEMMA RestartKeeps ==
    ASSUME TypeInv, TypeInv', DiskInv, ThreadInv, harm' = {}, Restart
    PROVE  DiskInv' /\ ThreadInv'
<1>1. \A a \in Appenders : app[a].pc # "manifest"
  BY DEF DiskInv, Appending, Restart
<1>2. PICK m \in Nat : m = disk.man.h
  BY Heights
<1>3. PICK c : c = Loaded
  OBVIOUS
<1>4. /\ Store(chain, disk, m) /\ Loads /\ c \in Chains /\ Begins(c, chain)
      /\ disk.sum.kind # "inline" => Len(c) = m
      /\ Kept(acked, c, disk) /\ Len(c) \in Nat
  BY <1>1, <1>2, <1>3, WrittenQuiet, ChainFacts
<1>5. m <= Len(c) /\ FilesHold(disk.files, c, m) /\ ManifestHolds(disk.man, c)
  BY <1>2, <1>3, StartHolds DEF Restart
<1>6. disk \in Disks /\ chain \in Chains /\ disk.sum \in Summaries /\ disk.man \in Manifests
  BY DEF TypeInv, Threads, Disks
<1>7. SummaryHolds(disk.sum, disk.man, chain)
  BY <1>4 DEF Store
<1>8. disk.man = NoManifest <=> m = 0
  BY <1>2, <1>4, <1>6, NoManifestIff
<1>9. PICK s : s = [kind |-> "epochs", h |-> Len(c), st |-> TipOf(c).id, blocks |-> <<>>]
  OBVIOUS
<1>10. disk' = IF FullVerify THEN [disk EXCEPT !.sum = s] ELSE disk
  BY <1>3, <1>9 DEF Restart
<1>11. disk'.man = disk.man /\ disk'.files = disk.files /\ disk'.sum = (IF FullVerify THEN s ELSE disk.sum)
  BY <1>6, <1>10 DEF Disks
<1>12. SummaryHolds(disk'.sum, disk'.man, c)
  <2>1. CASE FullVerify
    <3>1. m >= 1 /\ Len(c) = m
      BY <1>4, <1>8, <2>1 DEF FullVerify
    <3>2. c # <<>> /\ Len(c) \in 1..Len(c)
      BY <1>4, <3>1, ChainFacts
    <3>3. TipOf(c) = c[Len(c)]
      BY <1>4, <3>2, ChainFacts
    <3>4. QED  BY <1>2, <1>9, <1>11, <2>1, <3>1, <3>2, <3>3 DEF SummaryHolds
  <2>2. CASE ~FullVerify /\ disk.sum.kind = "inline"
    <3>1. c = disk.sum.blocks
      BY <1>3, <2>2 DEF Loaded
    <3>2. ~Boundary(Len(c))
      BY <1>7, <2>2, <3>1 DEF SummaryHolds, NoSummary
    <3>3. QED  BY <1>4, <1>11, <2>2, <3>1, <3>2, BeginsSelf DEF SummaryHolds
  <2>3. CASE ~FullVerify /\ disk.sum.kind = "epochs"
    <3>1. disk.man.h >= 1 /\ disk.sum.h \in 1..Len(chain) /\ disk.sum.st = chain[disk.sum.h].id
      BY <1>7, <2>3 DEF SummaryHolds, NoSummary
    <3>2. disk.sum.h = m /\ Len(c) = m
      BY <1>2, <1>4, <1>8, <2>3, <3>1 DEF FullVerify
    <3>3. disk.sum.h \in 1..Len(c)
      BY <1>2, <3>1, <3>2
    <3>4. disk.sum.st = c[disk.sum.h].id
      BY <1>4, <3>1, <3>3 DEF Begins
    <3>5. QED  BY <1>11, <2>3, <3>1, <3>3, <3>4 DEF SummaryHolds
  <2>4. CASE ~FullVerify /\ disk.sum.kind = "none"
    BY <1>7, <1>11, <2>4 DEF SummaryHolds
  <2>5. QED  BY <1>6, <2>1, <2>2, <2>3, <2>4 DEF Summaries
<1>13. Store(c, disk', m)
  BY <1>2, <1>5, <1>11, <1>12 DEF Store
<1>14. Kept(acked, c, disk')
  <2>1. disk'.sum.kind = "inline" <=> disk.sum.kind = "inline"
    BY <1>9, <1>11 DEF FullVerify
  <2>2. disk.sum.kind = "inline" => disk'.sum = disk.sum
    BY <1>11 DEF FullVerify
  <2>3. QED  BY <1>4, <1>11, <2>1, <2>2 DEF Kept
<1>15. /\ chain' = c /\ born' = born /\ acked' = acked /\ up' = TRUE
       /\ seal' = NoSeal /\ commit' = NoCommit /\ late' = NoLate /\ reply' = "none"
       /\ queue' = <<>> /\ writer' = "up"
  BY <1>3 DEF Restart, counters
<1>16. \A a \in Appenders : app'[a].pc = "none"
  BY DEF Restart, NoAppend
<1>17. Written' = m
  BY <1>2, <1>11, <1>16 DEF Written
<1>18. Ordered(c, born)
  <2>1. \A i \in 1..Len(c) : i \in 1..Len(chain) /\ c[i] = chain[i]
    <3>1. Len(c) <= Len(chain) /\ Len(chain) \in Nat
      BY <1>4, Heights DEF Begins
    <3>2. QED  BY <1>4, <3>1 DEF Begins
  <2>2. QED  BY <2>1 DEF DiskInv, Ordered
<1>19. Appending'
  BY <1>16 DEF Appending, Busy
<1>20. ~late'.on
  BY <1>15 DEF NoLate
<1>21. DiskInv'
  BY <1>13, <1>14, <1>15, <1>17, <1>18, <1>19, <1>20 DEF DiskInv
<1>22. seal'.pc = "idle" /\ commit'.pc = "idle" /\ ~Sealing' /\ ~Undoable' /\ Ground' = c
  BY <1>15 DEF NoSeal, NoCommit, Sealing, Undoable, Ground
<1>23. GroundInv'
  <2>1. Boundary(Len(c)) => disk'.man.h >= Len(c)
    <3>1. CASE disk.sum.kind = "inline"
      <4>1. c = disk.sum.blocks
        BY <1>3, <3>1 DEF Loaded
      <4>2. QED  BY <1>7, <3>1, <4>1 DEF SummaryHolds, NoSummary
    <3>2. CASE disk.sum.kind # "inline"
      BY <1>2, <1>4, <1>11, <3>2
    <3>3. QED  BY <3>1, <3>2
  <2>2. Settled(Len(Ground))'
    BY <1>22, <2>1 DEF Settled
  <2>3. QED  BY <1>4, <1>15, <1>22, <2>2, BeginsSelf DEF GroundInv
<1>24. 1..Len(queue') = {}
  <2>1. Len(queue') = 0
    BY <1>15, EmptySeq
  <2>2. QED  BY <2>1
<1>25. QueueInv' /\ SealInv' /\ CommitInv' /\ OwnInv'
  <2>1. OwnInv'
    <3>1. ~Busy("seal")' /\ ~Busy("commit")'
      BY <1>16 DEF Busy, Appenders
    <3>2. QED  BY <3>1 DEF OwnInv
  <2>2. QED  BY <1>22, <1>24, <2>1 DEF QueueInv, SealInv, CommitInv
<1>26. WriterInv'
  BY <1>15, <1>22, <1>24 DEF WriterInv
<1>27. QED  BY <1>21, <1>23, <1>25, <1>26 DEF ThreadInv

-----------------------------------------------------------------------------
(* Every start gets the chain back.                                        *)

\* As long as none of the five harms has happened the files hold the chain
\* and the threads agree on what is on its way to them.
IInv == TypeInv /\ (harm = {} => DiskInv /\ ThreadInv)

\* Empty files hold the empty chain.
LEMMA InitHolds == ASSUME Init PROVE IInv
<1>1. TypeInv
  BY InitType
<1>2. \A a \in Appenders : app[a].pc = "none"
  BY DEF Init, NoAppend
<1>3. disk.man = NoManifest /\ disk.sum = NoSummary /\ \A e \in Epochs : disk.files[e] = <<>>
  BY DEF Init
<1>4. chain = <<>> /\ Len(chain) = 0 /\ disk.man.h = 0 /\ Written = 0
  BY <1>2, <1>3, EmptySeq DEF Init, NoManifest, Written
<1>5. Store(chain, disk, 0)
  <2>1. FilesHold(disk.files, chain, 0)
    <3> SUFFICES ASSUME NEW e \in Epochs PROVE Len(disk.files[e]) = 0 /\ Fill(e, 0) = 0
      BY DEF FilesHold
    <3>1. e \in Nat
      BY EpochRange
    <3>2. Fill(e, 0) = 0
      BY <3>1, FillFacts
    <3>3. QED  BY <1>3, <3>2, EmptySeq
  <2>2. ManifestHolds(disk.man, chain)
    <3>1. \A e \in Epochs : ~(Base(e) < 0)
      <4>1. \A e \in Epochs : e \in Nat
        BY EpochRange
      <4>2. QED  BY <4>1, BaseGrows
    <3>2. QED  BY <1>3, <3>1 DEF ManifestHolds, NoManifest
  <2>3. QED  BY <1>3, <1>4, <2>1, <2>2 DEF Store, SummaryHolds
<1>6. 1..Len(chain) = {} /\ 1..Len(queue) = {}
  BY <1>4, EmptySeq DEF Init
<1>7. DiskInv
  BY <1>2, <1>4, <1>5, <1>6 DEF Init, DiskInv, NoLate, Ordered, Appending, Busy, Kept
<1>8. seal.pc = "idle" /\ commit.pc = "idle" /\ ~Sealing /\ ~Undoable /\ Ground = chain
  BY DEF Init, NoSeal, NoCommit, Sealing, Undoable, Ground
<1>9. GroundInv
  <2>1. Settled(Len(Ground))
    BY <1>4, <1>8 DEF Settled
  <2>2. QED  BY <1>4, <1>8, <2>1, EmptyChain, BeginsSelf DEF GroundInv
<1>10. OwnInv
  <2>1. ~Busy("seal") /\ ~Busy("commit")
    BY <1>2 DEF Busy, Appenders
  <2>2. QED  BY <2>1 DEF OwnInv
<1>11. ThreadInv
  BY <1>6, <1>8, <1>9, <1>10 DEF Init, ThreadInv, QueueInv, SealInv, CommitInv, WriterInv
<1>12. QED  BY <1>1, <1>7, <1>11 DEF IInv

\* Harm is never mended.
LEMMA HarmStays == ASSUME [Next]_vars PROVE harm \subseteq harm'
<1>1. \A a \in Appenders : WriteLine(a) => UNCHANGED harm
  BY DEF WriteLine, history
<1>2. \A ok \in BOOLEAN : WriterDone(ok) \/ RecoverDone(ok) \/ SyncAppended(ok) => harm \subseteq harm'
  BY DEF WriterDone, RecoverDone, SyncAppended, EndAppend
<1>3. \A ok \in BOOLEAN : SaveSummary(ok) \/ CommitSummary(ok) => harm \subseteq harm'
  BY DEF SaveSummary, CommitSummary, WriteSummary
<1>4. WriterTake \/ Recover \/ SyncStep => harm \subseteq harm'
  BY DEF WriterTake, Recover, SyncStep, BeginAppend
<1>5. Finish \/ CommitDone \/ LateRollback => harm \subseteq harm'
  BY DEF Finish, CommitDone, LateRollback, Restore
<1>6. Enqueue \/ SkipSave \/ StartSave \/ SendFlush \/ Flushed => harm \subseteq harm'
  BY DEF Enqueue, SkipSave, StartSave, SendFlush, Flushed, history
<1>7. \A who : WaitForRoom(who) => harm \subseteq harm'
  BY DEF WaitForRoom, history
<1>8. StopSend \/ StopAnswered \/ StopSave \/ End \/ RequestStop => harm \subseteq harm'
  BY DEF StopSend, StopAnswered, StopSave, End, RequestStop, history
<1>9. StartTurn \/ Seal \/ HttpCommit \/ SyncBatch \/ MarkRelayed => harm \subseteq harm'
  BY DEF StartTurn, Seal, HttpCommit, SyncBatch, MarkRelayed, history
<1>10. Crash \/ Restart => harm \subseteq harm'
  BY DEF Crash, Restart
<1>11. CASE UNCHANGED vars
  BY <1>11 DEF vars, history
<1>12. CASE Next
  BY <1>1, <1>2, <1>3, <1>4, <1>5, <1>6, <1>7, <1>8, <1>9, <1>10, <1>12
     DEF Next, WriterStep, SealStep, CommitStep, StopStep
<1>13. QED  BY <1>11, <1>12

\* Every step keeps the invariant, or does one of the five harms.
LEMMA NextHolds == ASSUME IInv, [Next]_vars PROVE IInv'
<1>1. TypeInv /\ TypeInv'
  BY NextType DEF IInv
<1> SUFFICES ASSUME harm' = {} PROVE DiskInv' /\ ThreadInv'
  BY <1>1 DEF IInv
<1>2. harm = {}
  BY HarmStays
<1>3. DiskInv /\ ThreadInv
  BY <1>2 DEF IInv
<1>4. CASE WriterStep
  <2>1. CASE WriterTake
    BY <1>1, <1>3, <2>1, TakeKeeps
  <2>2. ASSUME NEW ok \in BOOLEAN, WriterDone(ok) PROVE DiskInv' /\ ThreadInv'
    BY <1>1, <1>3, <2>2, DoneKeeps
  <2>3. QED  BY <1>4, <2>1, <2>2 DEF WriterStep
<1>5. CASE SealStep
  <2>1. CASE Enqueue
    BY <1>1, <1>3, <2>1, EnqueueKeeps
  <2>2. CASE Recover
    BY <1>1, <1>3, <2>2, RecoverKeeps
  <2>3. CASE SkipSave \/ StartSave
    BY <1>1, <1>3, <2>3, SaveStartKeeps
  <2>4. CASE SendFlush
    BY <1>1, <1>3, <2>4, SendFlushKeeps
  <2>5. CASE Flushed
    BY <1>1, <1>3, <2>5, FlushedKeeps
  <2>6. CASE Finish
    BY <1>1, <1>3, <2>6, FinishKeeps
  <2>7. CASE WaitForRoom("seal")
    BY <1>1, <1>3, <2>7, WaitKeeps
  <2>8. ASSUME NEW ok \in BOOLEAN, RecoverDone(ok) PROVE DiskInv' /\ ThreadInv'
    BY <1>1, <1>3, <2>8, RecoverDoneKeeps
  <2>9. ASSUME NEW ok \in BOOLEAN, SaveSummary(ok) PROVE DiskInv' /\ ThreadInv'
    BY <1>1, <1>3, <2>9, SaveKeeps
  <2>10. QED  BY <1>5, <2>1, <2>2, <2>3, <2>4, <2>5, <2>6, <2>7, <2>8, <2>9 DEF SealStep
<1>6. CASE CommitStep
  <2>1. CASE SyncStep
    BY <1>1, <1>3, <2>1, SyncKeeps
  <2>2. CASE CommitDone
    BY <1>1, <1>3, <2>2, CommitDoneKeeps
  <2>3. ASSUME NEW ok \in BOOLEAN, SyncAppended(ok) PROVE DiskInv' /\ ThreadInv'
    BY <1>1, <1>3, <2>3, AppendedKeeps
  <2>4. ASSUME NEW ok \in BOOLEAN, CommitSummary(ok) PROVE DiskInv' /\ ThreadInv'
    BY <1>1, <1>3, <2>4, CommitSaveKeeps
  <2>5. QED  BY <1>6, <2>1, <2>2, <2>3, <2>4 DEF CommitStep
<1>7. CASE StopStep \/ RequestStop \/ Crash
  <2>1. CASE StopSend \/ StopAnswered \/ StopSave \/ RequestStop
    BY <1>1, <1>3, <2>1, StopKeeps
  <2>2. CASE End \/ Crash
    BY <1>1, <1>3, <2>2, EndKeeps
  <2>3. CASE WaitForRoom("stop")
    BY <1>1, <1>3, <2>3, WaitKeeps
  <2>4. QED  BY <1>7, <2>1, <2>2, <2>3 DEF StopStep
<1>8. ASSUME NEW a \in Appenders, WriteLine(a) PROVE DiskInv' /\ ThreadInv'
  BY <1>1, <1>3, <1>8, LineKeeps
<1>9. CASE StartTurn
  BY <1>1, <1>3, <1>9, TurnKeeps
<1>10. CASE Seal
  BY <1>1, <1>3, <1>10, SealedKeeps
<1>11. CASE HttpCommit
  BY <1>1, <1>3, <1>11, HttpKeeps
<1>12. CASE SyncBatch
  BY <1>1, <1>3, <1>12, BatchKeeps
<1>13. CASE MarkRelayed
  BY <1>1, <1>3, <1>13, RelayedKeeps
<1>14. CASE LateRollback
  BY <1>3, <1>14 DEF LateRollback, DiskInv
<1>15. CASE Restart
  BY <1>1, <1>3, <1>15, RestartKeeps
<1>16. CASE UNCHANGED vars
  BY <1>1, <1>3, <1>16, StillKeeps DEF vars, handle, life, counters, history
<1>17. QED  BY <1>4, <1>5, <1>6, <1>7, <1>8, <1>9, <1>10, <1>11, <1>12, <1>13, <1>14, <1>15, <1>16 DEF Next

\* A chain that begins another is a prefix of it, and blocks in a chain are
\* elements of it.
LEMMA RecoversHolds == ASSUME IInv PROVE Recovers
<1> SUFFICES ASSUME harm = {}, \A a \in Appenders : app[a].pc # "manifest"
             PROVE  Loads /\ IsPrefix(Loaded, chain) /\ acked \subseteq ToSet(Loaded)
  BY DEF Recovers
<1>1. TypeInv /\ DiskInv
  BY DEF IInv
<1>2. PICK c : c = Loaded
  OBVIOUS
<1>3. Loads /\ c \in Chains /\ Begins(c, chain) /\ Kept(acked, c, disk)
  BY <1>1, <1>2, WrittenQuiet
<1>4. chain \in Seq(Blocks) /\ c \in Seq(Blocks) /\ Len(c) \in Nat /\ Len(chain) \in Nat
  BY <1>1, <1>3, Heights, ChainFacts DEF Chains
<1>5. IsPrefix(c, chain)
  <2>1. Len(c) <= Len(chain) /\ \A i \in 1..Len(c) : c[i] = chain[i]
    BY <1>3 DEF Begins
  <2>2. PICK t : t = SubSeq(chain, 1, Len(c))
    OBVIOUS
  <2>3. Len(t) = Len(c) /\ t \in Seq(Blocks) /\ \A i \in 1..Len(c) : t[i] = chain[i]
    <3>1. \A i \in 1..Len(c) : i \in 1..Len(chain)
      BY <1>4, <2>1
    <3>2. QED  BY <1>4, <2>1, <2>2, <3>1, SubSeqProperties
  <2>4. c = t
    BY <1>4, <2>1, <2>3, SeqEqual
  <2>5. QED  BY <2>1, <2>2, <2>4 DEF IsPrefix
<1>6. acked \subseteq ToSet(c)
  <2> SUFFICES ASSUME NEW b \in acked PROVE b \in ToSet(c)
    OBVIOUS
  <2>1. b.h \in 1..Len(c) /\ c[b.h] = b
    BY <1>3 DEF Kept, In
  <2>2. DOMAIN c = 1..Len(c)
    BY <1>4, LenProperties
  <2>3. QED  BY <2>1, <2>2 DEF ToSet
<1>7. QED  BY <1>2, <1>3, <1>5, <1>6

\* At every moment but inside an append, and as long as none of the five
\* harms has happened, load_snapshot_timed accepts the files, gets the chain
\* up to some height and every block whose HTTP request was answered:
\* whatever the writer, the seal loop, commits, batches, shutdowns, failed
\* writes and crashes have done, for every span, interval and capacity.
THEOREM FilesRecover == Spec => []Recovers
<1>1. Init => IInv
  BY InitHolds
<1>2. IInv /\ [Next]_vars => IInv'
  BY NextHolds
<1>3. IInv => Recovers
  BY RecoversHolds
<1>4. QED  BY <1>1, <1>2, <1>3, PTL DEF Spec
=============================================================================
