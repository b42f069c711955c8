--------------------------- MODULE ClusterProofs ---------------------------
(***************************************************************************)
(* Theorems about Cluster, for any number of proposers and attesters, any  *)
(* order of the turns (members may have several or none), any quorum, and  *)
(* any bounds on heights, blocks, losses and disturbances.                 *)
(*                                                                         *)
(* hist only grows, so each part of the invariant may assume that what     *)
(* breaks it has not happened.  The parts that the properties need and do  *)
(* not say: only the member whose turn it is opens a round; a block in a   *)
(* chain or on the wire was made by the member of its turn, at a height    *)
(* this member has left behind; signatures follow the binding of their     *)
(* round; and nothing on the wire is ahead of the chain it was cut from.   *)
(***************************************************************************)
EXTENDS Cluster, FiniteSetTheorems, SequenceTheorems, TLAPS

\* The height of a chain's last block is not above h.
TopAt(blks, h) == blks # <<>> => blks[Len(blks)].h <= h

Baks == [chain : Seq(Blocks), canon : {0} \cup Heights, set : BOOLEAN]

Rounds == [open : BOOLEAN, parent : Nat, acks : SUBSET Acks,
           opened : BOOLEAN, retry : 0..RetryCap]

Gates == [h : {0} \cup Heights, acks : SUBSET Acks]

TypeInv ==
    /\ TypeOK
    /\ bak \in [Proposers -> Baks]
    /\ \A p \in Proposers : TopAt(bak[p].chain, bak[p].canon)

-----------------------------------------------------------------------------
(* Facts about sequences of blocks.                                        *)

LEMMA HeightsAreNat ==
    /\ Heights \subseteq Nat /\ 0 \notin Heights /\ MaxHeight \in Nat
    /\ \A h \in {0} \cup Heights : h \in Nat
BY ClusterAssumption DEF Heights

\* A batch is the part of a chain that follows its j-th block.
Cut(blks, src, j) == \A k \in 1..Len(blks) : j + k \in 1..Len(src) /\ blks[k] = src[j + k]

\* The blocks above a height are what is left of the chain from some place on.
LEMMA AboveIsSuffix ==
    ASSUME NEW c \in Seq(Blocks), NEW h \in Nat, NEW blks, blks = Above(c, h)
    PROVE  /\ blks \in Seq(Blocks)
           /\ \E j \in Nat : Cut(blks, c, j)
<1> DEFINE low == {k \in DOMAIN c : c[k].h <= h}
           j == Cardinality(low)
<1>1. /\ DOMAIN c = 1..Len(c)
      /\ Len(c) \in Nat
  BY LenProperties
<1>2. IsFiniteSet(1..Len(c))
  BY <1>1, FS_Interval
<1>3. IsFiniteSet(low)
  BY <1>1, <1>2, FS_Subset
<1>4. j \in Nat
  BY <1>3, FS_CardinalityType
<1>5. blks = SubSeq(c, j + 1, Len(c))
  BY DEF Above
<1> HIDE DEF j
<1>6. j + 1 \in Int /\ Len(c) \in Int
  BY <1>1, <1>4
<1>7. \A i \in (j + 1)..Len(c) : c[i] \in Blocks
  BY <1>1, <1>4, ElementOfSeq
<1>8. /\ SubSeq(c, j + 1, Len(c)) \in Seq(Blocks)
      /\ Len(SubSeq(c, j + 1, Len(c)))
            = IF j + 1 <= Len(c) THEN Len(c) - (j + 1) + 1 ELSE 0
      /\ \A i \in 1..(Len(c) - (j + 1) + 1) :
            SubSeq(c, j + 1, Len(c))[i] = c[(j + 1) + i - 1]
  BY <1>6, <1>7, SubSeqProperties
<1>9. blks \in Seq(Blocks)
  BY <1>5, <1>8
<1>10. ASSUME NEW k \in 1..Len(blks)
       PROVE  j + k \in 1..Len(c) /\ blks[k] = c[j + k]
  <2>1. /\ j + 1 <= Len(c)
        /\ k \in 1..(Len(c) - (j + 1) + 1)
        /\ (j + 1) + k - 1 = j + k
    BY <1>1, <1>4, <1>5, <1>8
  <2>2. blks[k] = c[j + k]
    BY <2>1, <1>5, <1>8
  <2>3. QED  BY <2>1, <2>2, <1>1, <1>4
<1>11. QED  BY <1>4, <1>9, <1>10 DEF Cut

\* An index of a chain and a batch is one of the chain or one of the batch.
LEMMA SplitIndex ==
    \A l, n \in Nat :
        /\ l <= l + n
        /\ \A k \in 1..(l + n) : k \in 1..l \/ (k - l \in 1..n /\ k = l + (k - l))
OBVIOUS

\* The blocks a chain gains are those of the batch, above what it had.
LEMMA Extended ==
    ASSUME NEW c \in Seq(Blocks), NEW blks \in Seq(Blocks)
    PROVE  /\ c \o blks \in Seq(Blocks)
           /\ Len(c \o blks) = Len(c) + Len(blks)
           /\ \A k \in 1..Len(c) : (c \o blks)[k] = c[k]
           /\ \A k \in 1..Len(blks) : (c \o blks)[Len(c) + k] = blks[k]
<1>1. Len(c) \in Nat /\ Len(blks) \in Nat
  BY LenProperties
<1>2. /\ c \o blks \in Seq(Blocks)
      /\ Len(c \o blks) = Len(c) + Len(blks)
      /\ \A i \in 1 .. Len(c) + Len(blks) :
            (c \o blks)[i] = IF i <= Len(c) THEN c[i] ELSE blks[i - Len(c)]
  BY ConcatProperties
<1>3. \A k \in 1..Len(c) : k \in 1..(Len(c) + Len(blks)) /\ k <= Len(c)
  BY <1>1
<1>4. \A k \in 1..Len(blks) : /\ Len(c) + k \in 1..(Len(c) + Len(blks))
                              /\ ~(Len(c) + k <= Len(c))
                              /\ (Len(c) + k) - Len(c) = k
  BY <1>1
<1>5. QED  BY <1>2, <1>3, <1>4

-----------------------------------------------------------------------------
(* The type invariant, action by action.                                   *)

LEMMA TipTypes ==
    ASSUME TypeInv, NEW n \in Nodes
    PROVE  /\ chain[n] \in Seq(Blocks) /\ canon[n] \in {0} \cup Heights
           /\ Len(chain[n]) \in Nat
           /\ chain[n] # <<>> => Len(chain[n]) \in 1..Len(chain[n])
           /\ TipHash(n) \in Nat /\ NextH(n) \in Nat
           /\ canon[n] \in Nat
<1>1. chain[n] \in Seq(Blocks) /\ canon[n] \in {0} \cup Heights
  BY DEF TypeInv, TypeOK
<1>2. Len(chain[n]) \in Nat /\ (chain[n] # <<>> => Len(chain[n]) \in Nat \ {0})
  BY <1>1, LenProperties, EmptySeq
<1>3. chain[n] # <<>> => Len(chain[n]) \in 1..Len(chain[n])
  BY <1>2
<1>4. chain[n] # <<>> => chain[n][Len(chain[n])] \in Blocks
  BY <1>1, <1>3, ElementOfSeq
<1>5. TipHash(n) \in Nat
  BY <1>4 DEF TipHash, Blocks
<1>6. canon[n] \in Nat
  BY <1>1, HeightsAreNat
<1>7. NextH(n) \in Nat
  BY <1>6 DEF NextH
<1>8. QED  BY <1>1, <1>2, <1>3, <1>5, <1>6, <1>7

LEMMA MessageKinds ==
    ASSUME TypeInv, NEW m \in msgs
    PROVE  /\ m.kind = "propose" =>
                /\ m.from \in Proposers /\ m.to \in Attesters /\ m.h \in Heights
                /\ m.parent \in Nat /\ m.tail \in Seq(Blocks)
           /\ m.kind = "attest" =>
                /\ m.from \in Attesters /\ m.to \in Proposers /\ m.h \in Heights
                /\ m.parent \in Nat
<1>1. m \in Messages
  BY DEF TypeInv, TypeOK
<1>2. QED  BY <1>1 DEF Messages

\* A node that applies a batch stays well formed.
LEMMA AppliedType ==
    ASSUME TypeInv, NEW n \in Nodes, NEW blks \in Seq(Blocks),
           Follows(n, blks), Apply(n, blks)
    PROVE  /\ chain' \in [Nodes -> Seq(Blocks)]
           /\ canon' \in [Nodes -> {0} \cup Heights]
           /\ \A x \in Nodes : TopAt(chain[x], canon[x])'
<1>1. /\ chain \in [Nodes -> Seq(Blocks)]
      /\ canon \in [Nodes -> {0} \cup Heights]
      /\ \A x \in Nodes : TopAt(chain[x], canon[x])
  BY DEF TypeInv, TypeOK, TopAt
<1>2. /\ chain[n] \o blks \in Seq(Blocks)
      /\ Len(chain[n] \o blks) = Len(chain[n]) + Len(blks)
      /\ \A k \in 1..Len(blks) : (chain[n] \o blks)[Len(chain[n]) + k] = blks[k]
  BY <1>1, Extended
<1>3. Len(blks) \in 1..Len(blks)
  BY EmptySeq, LenProperties DEF Follows
<1>4. blks[Len(blks)] \in Blocks
  BY <1>3, ElementOfSeq
<1>5. blks[Len(blks)].h \in Heights
  BY <1>4 DEF Blocks
<1>6. /\ chain' = [chain EXCEPT ![n] = chain[n] \o blks]
      /\ canon' = [canon EXCEPT ![n] = blks[Len(blks)].h]
  BY DEF Apply
<1>7. TopAt(chain[n] \o blks, blks[Len(blks)].h)
  <2>1. blks[Len(blks)].h \in Nat
    BY <1>5, HeightsAreNat
  <2>2. (chain[n] \o blks)[Len(chain[n] \o blks)] = blks[Len(blks)]
    BY <1>2, <1>3
  <2>3. QED  BY <2>1, <2>2 DEF TopAt
<1>8. QED
  <2>1. chain' \in [Nodes -> Seq(Blocks)] /\ canon' \in [Nodes -> {0} \cup Heights]
    BY <1>1, <1>2, <1>5, <1>6
  <2>2. \A x \in Nodes : x # n => chain'[x] = chain[x] /\ canon'[x] = canon[x]
    BY <1>1, <1>6
  <2>3. chain'[n] = chain[n] \o blks /\ canon'[n] = blks[Len(blks)].h
    BY <1>1, <1>6
  <2>4. \A x \in Nodes : TopAt(chain'[x], canon'[x])
    BY <2>2, <2>3, <1>7, <1>1
  <2>5. QED  BY <2>1, <2>4 DEF TopAt

\* The conjuncts of the type invariant that speak of the chains.
ChainsOK == /\ chain \in [Nodes -> Seq(Blocks)]
            /\ canon \in [Nodes -> {0} \cup Heights]
            /\ \A n \in Nodes : TopAt(chain[n], canon[n])

\* The conjuncts about what may be put back.
BaksOK == /\ bak \in [Proposers -> Baks]
          /\ \A p \in Proposers : TopAt(bak[p].chain, bak[p].canon)

\* The others.
RestOK == /\ born \in 0..MaxBlocks
          /\ round \in [Proposers -> [Heights -> Rounds]]
          /\ sent \in [Proposers -> [Attesters -> {0} \cup Heights]]
          /\ msgs \subseteq Messages
          /\ gate \in [Proposers -> Gates]
          /\ target \in [Proposers -> {0} \cup Heights]
          /\ dead \subseteq Proposers
          /\ losses \in 0..MaxLosses
          /\ hist \subseteq {"rollback", "http", "skip", "manual", "early"}

LEMMA TypeParts == TypeInv <=> ChainsOK /\ BaksOK /\ RestOK
<1>1. BaksOK => \A p \in Proposers : bak[p].chain \in Seq(Blocks) /\ bak[p].canon \in {0} \cup Heights
  BY DEF BaksOK, Baks
<1>2. QED  BY <1>1 DEF TypeInv, TypeOK, ChainsOK, BaksOK, RestOK, TopAt, Rounds, Gates

LEMMA ChainsSame == ChainsOK /\ UNCHANGED <<chain, canon>> => ChainsOK'
BY DEF ChainsOK, TopAt

LEMMA BaksSame == BaksOK /\ UNCHANGED bak => BaksOK'
BY DEF BaksOK, TopAt

\* A round that is recorded: what it becomes, and that no other does.
LEMMA RecordedRound ==
    ASSUME round \in [Proposers -> [Heights -> Rounds]],
           NEW p \in Proposers, NEW h \in Heights, NEW opened \in BOOLEAN,
           TipHash(p) \in Nat, NEW r, r = Recorded(p, h, opened)
    PROVE  /\ r \in [Proposers -> [Heights -> Rounds]]
           /\ \A q \in Proposers : \A g \in Heights :
                 IF q = p /\ g = h
                 THEN /\ r[q][g].open /\ r[q][g].parent = TipHash(p)
                      /\ r[q][g].acks = round[p][h].acks
                 ELSE r[q][g] = round[q][g]
<1> PICK t : t = TipHash(p)  OBVIOUS
<1>1. round[p][h] \in Rounds
  OBVIOUS
<1> PICK x : x = [round[p][h] EXCEPT !.open = TRUE, !.parent = t,
                                     !.opened = round[p][h].opened \/ opened]
  OBVIOUS
<1>2. /\ x \in Rounds
      /\ x.open /\ x.parent = t /\ x.acks = round[p][h].acks
  BY <1>1 DEF Rounds
<1>3. r = [round EXCEPT ![p] = [round[p] EXCEPT ![h] = x]]
  BY DEF Recorded
<1>4. r \in [Proposers -> [Heights -> Rounds]]
  BY <1>2, <1>3
<1>5. \A q \in Proposers : \A g \in Heights :
         r[q][g] = IF q = p /\ g = h THEN x ELSE round[q][g]
  BY <1>3
<1>6. QED  BY <1>2, <1>4, <1>5

\* The height a proposer proposes is one of the model's.
LEMMA ProposedHeight ==
    ASSUME NEW p \in Proposers, NEW h \in PropHeight(p)
    PROVE  h \in Heights /\ Turn(h) = p
BY DEF PropHeight, LocalProd

LEMMA PropTickType ==
    ASSUME TypeInv, NEW p \in Proposers, PropTick(p)
    PROVE  TypeInv'
<1>1. ChainsOK /\ BaksOK /\ RestOK
  BY TypeParts
<1>2. TipHash(p) \in Nat
  BY TipTypes DEF Nodes
<1>3. round' \in [Proposers -> [Heights -> Rounds]]
  BY <1>1, <1>2, RecordedRound, ProposedHeight DEF PropTick, RestOK
<1>4. ChainsOK' /\ BaksOK'
  BY <1>1, ChainsSame, BaksSame DEF PropTick
<1>5. RestOK'
  BY <1>1, <1>3 DEF RestOK, PropTick
<1>6. QED  BY <1>4, <1>5, TypeParts, PTL

\* What is proposed is a message, with a tail cut from the proposer's chain.
LEMMA TailIsSuffix ==
    ASSUME NEW p \in Proposers, chain[p] \in Seq(Blocks), NEW depth \in 1..TailCap,
           NEW t, t = TailBlocks(p, depth)
    PROVE  /\ t \in Seq(Blocks)
           /\ \E j \in Nat : Cut(t, chain[p], j)
<1> PICK c : c = chain[p]  OBVIOUS
<1>1. Len(c) \in Nat /\ depth \in Nat /\ depth > 0
  BY LenProperties, ClusterAssumption
<1> PICK s : s = Larger(1, Len(c) - depth + 1)  OBVIOUS
<1>2. s \in Nat /\ s >= 1
  BY <1>1 DEF Larger
<1>3. t = SubSeq(c, s, Len(c))
  BY DEF TailBlocks
<1>4. \A i \in s..Len(c) : c[i] \in Blocks
  BY <1>1, <1>2, ElementOfSeq
<1>5. s \in Int /\ Len(c) \in Int
  BY <1>1, <1>2
<1>6. /\ t \in Seq(Blocks)
      /\ Len(t) = IF s <= Len(c) THEN Len(c) - s + 1 ELSE 0
      /\ \A i \in 1..(Len(c) - s + 1) : t[i] = c[s + i - 1]
  BY <1>3, <1>4, <1>5, SubSeqProperties
<1>7. ASSUME NEW k \in 1..Len(t)
      PROVE  (s - 1) + k \in 1..Len(c) /\ t[k] = c[(s - 1) + k]
  <2>1. s <= Len(c) /\ k \in 1..(Len(c) - s + 1) /\ (s - 1) + k = s + k - 1
    BY <1>1, <1>2, <1>6
  <2>2. QED  BY <2>1, <1>1, <1>2, <1>6
<1>8. s - 1 \in Nat
  BY <1>2
<1>9. Cut(t, c, s - 1)
  BY <1>7 DEF Cut
<1>10. QED  BY <1>6, <1>8, <1>9

\* What a session sends: the proposal it sends, and the round it records.
Proposed(p, h, m, depth) ==
    /\ msgs' = msgs \cup {m}
    /\ m.kind = "propose" /\ m.from = p /\ m.h = h
    /\ m.tail = TailBlocks(p, depth)
    /\ round' = Recorded(p, h, TRUE)

LEMMA SentProposal ==
    ASSUME TypeInv, NEW p \in Proposers, NEW a \in Attesters, SendProp(p, a)
    PROVE  \E h \in PropHeight(p), m \in Messages, depth \in 1..TailCap :
              Proposed(p, h, m, depth) /\ sent' = [sent EXCEPT ![p][a] = h]
<1>1. TipHash(p) \in Nat /\ chain[p] \in Seq(Blocks)
  BY TipTypes DEF Nodes
<1>2. PICK h \in PropHeight(p) :
         /\ \E depth \in 1..TailCap :
               msgs' = msgs \cup {[kind |-> "propose", from |-> p, to |-> a, h |-> h,
                                   parent |-> TipHash(p), tail |-> TailBlocks(p, depth)]}
         /\ round' = Recorded(p, h, TRUE)
         /\ sent' = [sent EXCEPT ![p][a] = h]
  BY DEF SendProp
<1>3. PICK depth \in 1..TailCap :
         msgs' = msgs \cup {[kind |-> "propose", from |-> p, to |-> a, h |-> h,
                             parent |-> TipHash(p), tail |-> TailBlocks(p, depth)]}
  BY <1>2
<1> PICK t : t = TailBlocks(p, depth)  OBVIOUS
<1> PICK x : x = TipHash(p)  OBVIOUS
<1>4. t \in Seq(Blocks)
  BY <1>1, TailIsSuffix
<1> PICK m : m = [kind |-> "propose", from |-> p, to |-> a, h |-> h, parent |-> x, tail |-> t]
  OBVIOUS
<1>5. m \in Messages /\ m.kind = "propose" /\ m.from = p /\ m.h = h /\ m.tail = t
  BY <1>1, <1>4, ProposedHeight DEF Messages
<1>6. Proposed(p, h, m, depth)
  BY <1>2, <1>3, <1>5 DEF Proposed
<1>7. QED  BY <1>2, <1>5, <1>6

LEMMA SendPropType ==
    ASSUME TypeInv, NEW p \in Proposers, NEW a \in Attesters, SendProp(p, a)
    PROVE  TypeInv'
<1>1. ChainsOK /\ BaksOK /\ RestOK
  BY TypeParts
<1>2. TipHash(p) \in Nat
  BY TipTypes DEF Nodes
<1>3. PICK h \in PropHeight(p), m \in Messages, depth \in 1..TailCap :
         Proposed(p, h, m, depth) /\ sent' = [sent EXCEPT ![p][a] = h]
  BY SentProposal
<1>4. round' \in [Proposers -> [Heights -> Rounds]]
  BY <1>1, <1>2, <1>3, RecordedRound, ProposedHeight DEF RestOK, Proposed
<1>5. sent' \in [Proposers -> [Attesters -> {0} \cup Heights]]
  BY <1>1, <1>3, ProposedHeight DEF RestOK
<1>6. msgs' \subseteq Messages
  BY <1>1, <1>3 DEF RestOK, Proposed
<1>7. ChainsOK' /\ BaksOK'
  BY <1>1, ChainsSame, BaksSame DEF SendProp
<1>8. RestOK'
  BY <1>1, <1>4, <1>5, <1>6 DEF RestOK, SendProp
<1>9. QED  BY <1>7, <1>8, TypeParts, PTL

\* An attest that is counted: the round gains an entry of its own binding.
CountedAcks(p, m, r) ==
    /\ r \in [Proposers -> [Heights -> Rounds]]
    /\ \A q \in Proposers : \A g \in Heights :
          IF q = p /\ g = m.h /\ Binds(p, m)
          THEN /\ r[q][g].open = round[q][g].open
               /\ r[q][g].parent = round[q][g].parent
               /\ \A k \in r[q][g].acks :
                     k \in round[q][g].acks \/ (k.h = m.h /\ k.parent = m.parent)
          ELSE r[q][g] = round[q][g]

LEMMA CountedRound ==
    ASSUME TypeInv, NEW p \in Proposers, NEW m \in msgs, CountAttest(p, m)
    PROVE  CountedAcks(p, m, round')
<1>1. round \in [Proposers -> [Heights -> Rounds]]
  BY TypeParts DEF RestOK
<1>2. m.from \in Attesters /\ m.h \in Heights /\ m.parent \in Nat
  BY MessageKinds DEF CountAttest
<1> PICK g : g = m.h  OBVIOUS
<1>3. round[p][g] \in Rounds
  BY <1>1, <1>2
<1> PICK a : a = [by |-> m.from, h |-> m.h, parent |-> m.parent]
  OBVIOUS
<1>4. a \in Acks /\ a.h = m.h /\ a.parent = m.parent
  BY <1>2 DEF Acks
<1> PICK s : s = {k \in round[p][g].acks : k.by # m.from} \cup {a}
  OBVIOUS
<1>5. s \in SUBSET Acks
  BY <1>3, <1>4 DEF Rounds
<1> PICK x : x = [round[p][g] EXCEPT !.acks = s]
  OBVIOUS
<1>6. /\ x \in Rounds
      /\ x.open = round[p][g].open /\ x.parent = round[p][g].parent /\ x.acks = s
  BY <1>3, <1>5 DEF Rounds
<1>7. CASE Binds(p, m)
  <2>1. round' = [round EXCEPT ![p] = [round[p] EXCEPT ![g] = x]]
    BY <1>7 DEF CountAttest
  <2>2. /\ round' \in [Proposers -> [Heights -> Rounds]]
        /\ \A q \in Proposers : \A f \in Heights :
              round'[q][f] = IF q = p /\ f = g THEN x ELSE round[q][f]
    BY <2>1, <1>1, <1>6
  <2>3. \A k \in x.acks : k \in round[p][g].acks \/ (k.h = m.h /\ k.parent = m.parent)
    BY <1>4, <1>6
  <2>4. QED  BY <2>2, <2>3, <1>6, <1>7 DEF CountedAcks
<1>8. CASE ~Binds(p, m)
  BY <1>1, <1>8 DEF CountAttest, CountedAcks
<1>9. QED  BY <1>7, <1>8

LEMMA CountAttestType ==
    ASSUME TypeInv, NEW p \in Proposers, NEW m \in msgs, CountAttest(p, m)
    PROVE  TypeInv'
<1>1. ChainsOK /\ BaksOK /\ RestOK
  BY TypeParts
<1>2. round' \in [Proposers -> [Heights -> Rounds]]
  BY CountedRound DEF CountedAcks
<1>3. ChainsOK' /\ BaksOK'
  BY <1>1, ChainsSame, BaksSame DEF CountAttest
<1>4. RestOK'
  BY <1>1, <1>2 DEF RestOK, CountAttest
<1>5. QED  BY <1>3, <1>4, TypeParts, PTL

LEMMA PassGateType ==
    ASSUME TypeInv, NEW p \in Proposers, PassGate(p)
    PROVE  TypeInv'
<1>1. ChainsOK /\ BaksOK /\ RestOK
  BY TypeParts
<1>2. round[p][NextH(p)] \in Rounds
  BY <1>1 DEF RestOK, PassGate
<1> PICK x : x = [h |-> NextH(p), acks |-> round[p][NextH(p)].acks]
  OBVIOUS
<1>3. x \in Gates
  BY <1>2 DEF Rounds, Gates, PassGate
<1>4. gate' \in [Proposers -> Gates]
  BY <1>1, <1>3 DEF RestOK, PassGate
<1>5. ChainsOK' /\ BaksOK'
  BY <1>1, ChainsSame, BaksSame DEF PassGate
<1>6. RestOK'
  BY <1>1, <1>4 DEF RestOK, PassGate
<1>7. QED  BY <1>5, <1>6, TypeParts, PTL

\* A seal: the block it adds, at the next height and on the tip.
AddsBlock(n, acks, kind, b) ==
    /\ b \in Blocks
    /\ b.h = NextH(n) /\ b.parent = TipHash(n) /\ b.by = n
    /\ b.kind = kind /\ b.acks = acks
    /\ NextH(n) \in Heights
    /\ chain' = [chain EXCEPT ![n] = Append(chain[n], b)]
    /\ canon' = [canon EXCEPT ![n] = NextH(n)]

LEMMA SealedBlock ==
    ASSUME TypeInv, NEW n \in Nodes, NEW acks \in SUBSET Acks, NEW kind \in {"gated", "http"},
           SealOn(n, acks, kind)
    PROVE  /\ \E b : AddsBlock(n, acks, kind, b)
           /\ born' \in 0..MaxBlocks
<1>1. TipHash(n) \in Nat
  BY TipTypes
<1>2. born \in Nat /\ born < MaxBlocks /\ MaxBlocks \in Nat
  BY ClusterAssumption DEF TypeInv, TypeOK, SealOn
<1> PICK i : i = born + 1  OBVIOUS
<1>3. i \in Nat /\ i \in 0..MaxBlocks
  BY <1>2
<1> PICK b : b = [id |-> i, h |-> NextH(n), parent |-> TipHash(n), by |-> n,
                  kind |-> kind, acks |-> acks]
  OBVIOUS
<1>4. b \in Blocks
  BY <1>1, <1>3 DEF Blocks, SealOn
<1>5. chain' = [chain EXCEPT ![n] = Append(chain[n], b)]
  BY DEF SealOn
<1>6. AddsBlock(n, acks, kind, b)
  BY <1>4, <1>5 DEF AddsBlock, SealOn
<1>7. QED  BY <1>3, <1>6 DEF SealOn

LEMMA SealedType ==
    ASSUME ChainsOK, NEW n \in Nodes, NEW acks, NEW kind, NEW b, AddsBlock(n, acks, kind, b)
    PROVE  ChainsOK'
<1>1. chain[n] \in Seq(Blocks)
  BY DEF ChainsOK
<1> PICK c : c = Append(chain[n], b)  OBVIOUS
<1>2. c \in Seq(Blocks) /\ c[Len(c)] = b
  BY <1>1, AppendProperties DEF AddsBlock
<1>3. b.h \in Nat /\ b.h = NextH(n)
  BY HeightsAreNat DEF AddsBlock
<1>4. TopAt(c, NextH(n))
  BY <1>2, <1>3 DEF TopAt
<1>5. /\ chain' \in [Nodes -> Seq(Blocks)]
      /\ canon' \in [Nodes -> {0} \cup Heights]
  BY <1>2 DEF ChainsOK, AddsBlock
<1>6. \A x \in Nodes : IF x = n THEN chain'[x] = c /\ canon'[x] = NextH(n)
                                ELSE chain'[x] = chain[x] /\ canon'[x] = canon[x]
  BY DEF ChainsOK, AddsBlock
<1>7. \A x \in Nodes : TopAt(chain'[x], canon'[x])
  BY <1>4, <1>6 DEF ChainsOK
<1>8. QED  BY <1>5, <1>7 DEF ChainsOK, TopAt

LEMMA SealType ==
    ASSUME TypeInv, NEW p \in Proposers, Seal(p)
    PROVE  TypeInv'
<1>1. ChainsOK /\ BaksOK /\ RestOK
  BY TypeParts
<1>2. gate[p] \in Gates
  BY <1>1 DEF RestOK
<1>3. gate[p].acks \in SUBSET Acks /\ p \in Nodes
  BY <1>2 DEF Gates, Nodes
<1>4. SealOn(p, gate[p].acks, "gated")
  BY DEF Seal
<1>5. born' \in 0..MaxBlocks
  BY <1>3, <1>4, SealedBlock
<1>6. PICK b : AddsBlock(p, gate[p].acks, "gated", b)
  BY <1>3, <1>4, SealedBlock
<1>7. ChainsOK'
  BY <1>1, <1>3, <1>6, SealedType
<1>8. NoGate \in Gates
  BY DEF NoGate, Gates
<1>9. RestOK'
  <2>1. gate' \in [Proposers -> Gates]
    BY <1>1, <1>8 DEF RestOK, Seal
  <2>2. QED  BY <1>1, <1>5, <2>1 DEF RestOK, Seal
<1>10. BaksOK'
  <2> PICK x : x = [chain |-> chain[p], canon |-> canon[p], set |-> target[p] = 0]
    OBVIOUS
  <2>1. chain[p] \in Seq(Blocks) /\ canon[p] \in {0} \cup Heights /\ TopAt(chain[p], canon[p])
    BY <1>1, <1>3 DEF ChainsOK
  <2>2. x \in Baks /\ TopAt(x.chain, x.canon)
    BY <2>1 DEF Baks
  <2>3. bak' = [bak EXCEPT ![p] = x]
    BY DEF Seal
  <2>4. /\ bak' \in [Proposers -> Baks]
        /\ \A q \in Proposers : bak'[q] = IF q = p THEN x ELSE bak[q]
    BY <1>1, <2>2, <2>3 DEF BaksOK
  <2>5. QED  BY <1>1, <2>2, <2>4 DEF BaksOK, TopAt
<1>11. QED  BY <1>7, <1>9, <1>10, TypeParts, PTL

LEMMA ClearedBaks ==
    ASSUME BaksOK, NEW p \in Proposers, bak' = [bak EXCEPT ![p] = NoBak]
    PROVE  BaksOK'
<1>1. NoBak \in Baks /\ TopAt(NoBak.chain, NoBak.canon)
  BY EmptySeq DEF NoBak, Baks, TopAt
<1>2. /\ bak' \in [Proposers -> Baks]
      /\ \A q \in Proposers : bak'[q] = IF q = p THEN NoBak ELSE bak[q]
  BY <1>1 DEF BaksOK
<1>3. QED  BY <1>1, <1>2 DEF BaksOK, TopAt

LEMMA RollbackType ==
    ASSUME TypeInv, NEW p \in Proposers, Rollback(p)
    PROVE  TypeInv'
<1>1. ChainsOK /\ BaksOK /\ RestOK
  BY TypeParts
<1> PICK x : x = bak[p]  OBVIOUS
<1>2. x \in Baks /\ TopAt(x.chain, x.canon) /\ p \in Nodes
  BY <1>1 DEF BaksOK, Nodes
<1>3. x.chain \in Seq(Blocks) /\ x.canon \in {0} \cup Heights
  BY <1>2 DEF Baks
<1>4. /\ chain' = [chain EXCEPT ![p] = x.chain]
      /\ canon' = [canon EXCEPT ![p] = x.canon]
  BY DEF Rollback
<1>5. ChainsOK'
  <2>1. /\ chain' \in [Nodes -> Seq(Blocks)] /\ canon' \in [Nodes -> {0} \cup Heights]
        /\ \A n \in Nodes : IF n = p THEN chain'[n] = x.chain /\ canon'[n] = x.canon
                                     ELSE chain'[n] = chain[n] /\ canon'[n] = canon[n]
    BY <1>1, <1>2, <1>3, <1>4 DEF ChainsOK
  <2>2. \A n \in Nodes : TopAt(chain'[n], canon'[n])
    BY <1>1, <1>2, <2>1 DEF ChainsOK
  <2>3. QED  BY <2>1, <2>2 DEF ChainsOK, TopAt
<1>6. BaksOK'
  BY <1>1, ClearedBaks DEF Rollback
<1>7. RestOK'
  BY <1>1 DEF RestOK, Rollback, Disturb
<1>8. QED  BY <1>5, <1>6, <1>7, TypeParts, PTL

LEMMA SavedType ==
    ASSUME TypeInv, NEW p \in Proposers, Saved(p)
    PROVE  TypeInv'
<1>1. ChainsOK /\ BaksOK /\ RestOK
  BY TypeParts
<1>2. ChainsOK' /\ BaksOK'
  BY <1>1, ChainsSame, ClearedBaks DEF Saved
<1>3. RestOK'
  BY <1>1 DEF RestOK, Saved
<1>4. QED  BY <1>2, <1>3, TypeParts, PTL

\* A retry changes nothing of the rounds but what is not signed.
RetriedRound(r) ==
    /\ r \in [Proposers -> [Heights -> Rounds]]
    /\ \A q \in Proposers : \A g \in Heights :
          /\ r[q][g].open = round[q][g].open
          /\ r[q][g].parent = round[q][g].parent
          /\ r[q][g].acks = round[q][g].acks

LEMMA RetryRound ==
    ASSUME TypeInv, NEW p \in Proposers, Retry(p)
    PROVE  RetriedRound(round')
<1>1. round \in [Proposers -> [Heights -> Rounds]] /\ RetryCap \in Nat
  BY TypeParts, ClusterAssumption DEF RestOK
<1> PICK g : g = NextH(p)  OBVIOUS
<1>2. g \in Heights /\ round[p][g].retry < RetryCap
  BY DEF Retry
<1>3. round[p][g] \in Rounds
  BY <1>1, <1>2
<1> PICK i : i = round[p][g].retry + 1  OBVIOUS
<1>4. i \in 0..RetryCap
  BY <1>1, <1>2, <1>3 DEF Rounds
<1> PICK x : x = [round[p][g] EXCEPT !.opened = FALSE, !.retry = i]
  OBVIOUS
<1>5. /\ x \in Rounds /\ x.open = round[p][g].open
      /\ x.parent = round[p][g].parent /\ x.acks = round[p][g].acks
  BY <1>3, <1>4 DEF Rounds
<1>6. round' = [round EXCEPT ![p] = [round[p] EXCEPT ![g] = x]]
  BY DEF Retry
<1>7. /\ round' \in [Proposers -> [Heights -> Rounds]]
      /\ \A q \in Proposers : \A f \in Heights :
            round'[q][f] = IF q = p /\ f = g THEN x ELSE round[q][f]
  BY <1>1, <1>5, <1>6
<1>8. QED  BY <1>5, <1>7 DEF RetriedRound

LEMMA RetryType ==
    ASSUME TypeInv, NEW p \in Proposers, Retry(p)
    PROVE  TypeInv'
<1>1. ChainsOK /\ BaksOK /\ RestOK
  BY TypeParts
<1>2. round' \in [Proposers -> [Heights -> Rounds]]
  BY RetryRound DEF RetriedRound
<1>3. sent' \in [Proposers -> [Attesters -> {0} \cup Heights]]
  BY <1>1 DEF RestOK, Retry
<1>4. hist' \subseteq {"rollback", "http", "skip", "manual", "early"}
  BY <1>1 DEF RestOK, Retry, Disturb
<1>5. ChainsOK' /\ BaksOK'
  BY <1>1, ChainsSame, BaksSame DEF Retry
<1>6. RestOK'
  BY <1>1, <1>2, <1>3, <1>4 DEF RestOK, Retry
<1>7. QED  BY <1>5, <1>6, TypeParts, PTL

LEMMA SkipMissedType ==
    ASSUME TypeInv, NEW p \in Proposers, SkipMissed(p)
    PROVE  TypeInv'
<1>1. ChainsOK /\ BaksOK /\ RestOK
  BY TypeParts
<1>2. p \in Nodes /\ NextH(p) \in Heights /\ canon[p] \in Nat
  BY TipTypes DEF SkipMissed, Nodes
<1>3. ChainsOK'
  <2>1. /\ canon' \in [Nodes -> {0} \cup Heights]
        /\ \A n \in Nodes : canon'[n] = IF n = p THEN NextH(p) ELSE canon[n]
    BY <1>1, <1>2 DEF ChainsOK, SkipMissed
  <2>2. chain[p] # <<>> => chain[p][Len(chain[p])].h \in Heights
    <3>1. chain[p] # <<>> => chain[p][Len(chain[p])] \in Blocks
      BY <1>2, TipTypes, ElementOfSeq
    <3>2. QED  BY <3>1 DEF Blocks
  <2>3. TopAt(chain[p], NextH(p))
    <3>1. chain[p] # <<>> => /\ chain[p][Len(chain[p])].h \in Nat
                             /\ chain[p][Len(chain[p])].h <= canon[p]
      BY <1>1, <1>2, <2>2, HeightsAreNat DEF ChainsOK, TopAt
    <3>2. \A h \in Nat : h <= canon[p] => h <= NextH(p)
      BY <1>2 DEF NextH
    <3>3. QED  BY <3>1, <3>2 DEF TopAt
  <2>4. chain' = chain
    BY DEF SkipMissed
  <2>5. \A n \in Nodes : TopAt(chain'[n], canon'[n])
    BY <1>1, <2>1, <2>3, <2>4 DEF ChainsOK
  <2>6. QED  BY <1>1, <2>1, <2>4, <2>5 DEF ChainsOK, TopAt
<1>4. BaksOK'
  BY <1>1, BaksSame DEF SkipMissed
<1>5. RestOK'
  BY <1>1 DEF RestOK, SkipMissed, Disturb
<1>6. QED  BY <1>3, <1>4, <1>5, TypeParts, PTL

LEMMA SetTargetType ==
    ASSUME TypeInv, NEW p \in Proposers, NEW h \in {0} \cup Heights, SetTarget(p, h)
    PROVE  TypeInv'
<1>1. ChainsOK /\ BaksOK /\ RestOK
  BY TypeParts
<1>2. ChainsOK' /\ BaksOK'
  BY <1>1, ChainsSame, BaksSame DEF SetTarget
<1>3. RestOK'
  BY <1>1 DEF RestOK, SetTarget, Disturb
<1>4. QED  BY <1>2, <1>3, TypeParts, PTL

\* A batch that is applied: where it comes from does not matter to the type.
LEMMA ApplyTypes ==
    ASSUME ChainsOK, TypeInv, NEW n \in Nodes, NEW blks \in Seq(Blocks),
           Follows(n, blks), Apply(n, blks)
    PROVE  ChainsOK'
<1>1. /\ chain' \in [Nodes -> Seq(Blocks)]
      /\ canon' \in [Nodes -> {0} \cup Heights]
      /\ \A x \in Nodes : TopAt(chain[x], canon[x])'
  BY AppliedType
<1>2. QED  BY <1>1 DEF ChainsOK

LEMMA SyncType ==
    ASSUME TypeInv, NEW n \in Nodes, NEW m \in Nodes, Sync(n, m)
    PROVE  TypeInv'
<1>1. ChainsOK /\ BaksOK /\ RestOK
  BY TypeParts
<1> PICK blks : blks = Above(chain[m], canon[n])  OBVIOUS
<1>2. blks \in Seq(Blocks)
  BY TipTypes, AboveIsSuffix
<1>3. ChainsOK'
  BY <1>1, <1>2, ApplyTypes DEF Sync
<1>4. BaksOK'
  BY <1>1, BaksSame DEF Sync
<1>5. RestOK'
  BY <1>1 DEF RestOK, Sync
<1>6. QED  BY <1>3, <1>4, <1>5, TypeParts, PTL

\* An attester takes a proposal: it applies its blocks or none, and answers.
Answered(a, m, x) ==
    /\ x \in Messages /\ x.kind = "attest"
    /\ msgs' = (msgs \ {m}) \cup {x}

LEMMA AttestSteps ==
    ASSUME TypeInv, NEW a \in Attesters, NEW m \in msgs, Attest(a, m)
    PROVE  /\ \E x : Answered(a, m, x)
           /\ m.kind = "propose" /\ m.tail \in Seq(Blocks) /\ m.from \in Proposers
           /\ \/ UNCHANGED <<chain, canon>>
              \/ LET blks == Above(m.tail, canon[a]) IN
                 blks \in Seq(Blocks) /\ Follows(a, blks) /\ Apply(a, blks)
<1>1. /\ m.kind = "propose" /\ m.from \in Proposers /\ m.h \in Heights
      /\ m.parent \in Nat /\ m.tail \in Seq(Blocks)
  BY MessageKinds DEF Attest
<1> PICK blks : blks = Above(m.tail, canon[a])  OBVIOUS
<1>2. a \in Nodes /\ canon[a] \in Nat
  BY TipTypes DEF Nodes
<1>3. blks \in Seq(Blocks)
  BY <1>1, <1>2, AboveIsSuffix
<1>4. UNCHANGED <<chain, canon>> \/ (Follows(a, blks) /\ Apply(a, blks))
  BY DEF Attest
<1> PICK x : x = [kind |-> "attest", from |-> a, to |-> m.from, h |-> m.h, parent |-> m.parent]
  OBVIOUS
<1>5. x \in Messages /\ x.kind = "attest"
  BY <1>1 DEF Messages
<1>6. Answered(a, m, x)
  BY <1>5 DEF Attest, Answered
<1>7. QED  BY <1>1, <1>3, <1>4, <1>6

LEMMA AttestType ==
    ASSUME TypeInv, NEW a \in Attesters, NEW m \in msgs, Attest(a, m)
    PROVE  TypeInv'
<1>1. ChainsOK /\ BaksOK /\ RestOK
  BY TypeParts
<1>2. ChainsOK'
  BY <1>1, AttestSteps, ApplyTypes, ChainsSame DEF Nodes
<1>3. BaksOK'
  BY <1>1, BaksSame DEF Attest
<1>4. msgs' \subseteq Messages
  BY <1>1, AttestSteps DEF RestOK, Answered
<1>5. RestOK'
  BY <1>1, <1>4 DEF RestOK, Attest
<1>6. QED  BY <1>2, <1>3, <1>5, TypeParts, PTL

LEMMA HttpSealType ==
    ASSUME TypeInv, NEW n \in Nodes, HttpSeal(n)
    PROVE  TypeInv'
<1>1. ChainsOK /\ BaksOK /\ RestOK
  BY TypeParts
<1> PICK none : none = {}  OBVIOUS
<1>2. none \in SUBSET Acks
  OBVIOUS
<1>3. SealOn(n, none, "http")
  BY DEF HttpSeal
<1>4. born' \in 0..MaxBlocks
  BY <1>2, <1>3, SealedBlock
<1>5. PICK b : AddsBlock(n, none, "http", b)
  BY <1>2, <1>3, SealedBlock
<1>6. ChainsOK'
  BY <1>1, <1>5, SealedType
<1>7. BaksOK'
  BY <1>1, BaksSame DEF HttpSeal
<1>8. RestOK'
  BY <1>1, <1>4 DEF RestOK, HttpSeal, Disturb
<1>9. QED  BY <1>6, <1>7, <1>8, TypeParts, PTL

LEMMA LoseType ==
    ASSUME TypeInv, NEW m \in msgs, Lose(m)
    PROVE  TypeInv'
<1>1. ChainsOK /\ BaksOK /\ RestOK
  BY TypeParts
<1>2. losses' \in 0..MaxLosses
  BY <1>1, ClusterAssumption DEF RestOK, Lose
<1>3. ChainsOK' /\ BaksOK'
  BY <1>1, ChainsSame, BaksSame DEF Lose
<1>4. RestOK'
  BY <1>1, <1>2 DEF RestOK, Lose
<1>5. QED  BY <1>3, <1>4, TypeParts, PTL

LEMMA InitType == Init => TypeInv
<1> SUFFICES ASSUME Init PROVE TypeInv  OBVIOUS
<1>1. /\ <<>> \in Seq(Blocks)
      /\ {MaxBlocks, MaxLosses, RetryCap} \subseteq Nat
  BY EmptySeq, ClusterAssumption
<1>2. ChainsOK
  BY <1>1 DEF Init, ChainsOK, TopAt
<1>3. NoBak \in Baks /\ TopAt(NoBak.chain, NoBak.canon)
  BY <1>1 DEF NoBak, Baks, TopAt
<1>4. BaksOK
  BY <1>3 DEF Init, BaksOK
<1>5. NoRound \in Rounds /\ NoGate \in Gates
  BY <1>1 DEF NoRound, NoGate, Rounds, Gates
<1>6. /\ round \in [Proposers -> [Heights -> Rounds]]
      /\ gate \in [Proposers -> Gates]
  BY <1>5 DEF Init
<1>7. dead \subseteq Proposers
  BY DEF Init
<1>8. RestOK
  BY <1>1, <1>6, <1>7 DEF Init, RestOK
<1>9. QED  BY <1>2, <1>4, <1>8, TypeParts

LEMMA StutterType == TypeInv /\ UNCHANGED vars => TypeInv'
<1> SUFFICES ASSUME TypeInv, UNCHANGED vars PROVE TypeInv'  OBVIOUS
<1>1. ChainsOK' /\ BaksOK'
  BY TypeParts, ChainsSame, BaksSame DEF vars
<1>2. RestOK'
  BY TypeParts DEF RestOK, vars
<1>3. QED  BY <1>1, <1>2, TypeParts, PTL

LEMMA NextType == TypeInv /\ [Next]_vars => TypeInv'
<1> SUFFICES ASSUME TypeInv, [Next]_vars PROVE TypeInv'  OBVIOUS
<1>1. ASSUME NEW p \in Proposers, PropTick(p) PROVE TypeInv'
  BY <1>1, PropTickType
<1>2. ASSUME NEW p \in Proposers, NEW a \in Attesters, SendProp(p, a) PROVE TypeInv'
  BY <1>2, SendPropType
<1>3. ASSUME NEW p \in Proposers, NEW m \in msgs, CountAttest(p, m) PROVE TypeInv'
  BY <1>3, CountAttestType
<1>4. ASSUME NEW p \in Proposers, PassGate(p) PROVE TypeInv'
  BY <1>4, PassGateType
<1>5. ASSUME NEW p \in Proposers, Seal(p) PROVE TypeInv'
  BY <1>5, SealType
<1>6. ASSUME NEW p \in Proposers, Rollback(p) PROVE TypeInv'
  BY <1>6, RollbackType
<1>7. ASSUME NEW p \in Proposers, Saved(p) PROVE TypeInv'
  BY <1>7, SavedType
<1>8. ASSUME NEW p \in Proposers, Retry(p) PROVE TypeInv'
  BY <1>8, RetryType
<1>9. ASSUME NEW p \in Proposers, SkipMissed(p) PROVE TypeInv'
  BY <1>9, SkipMissedType
<1>10. ASSUME NEW p \in Proposers, NEW h \in {0} \cup Heights, SetTarget(p, h) PROVE TypeInv'
  BY <1>10, SetTargetType
<1>11. ASSUME NEW a \in Attesters, NEW m \in msgs, Attest(a, m) PROVE TypeInv'
  BY <1>11, AttestType
<1>12. ASSUME NEW n \in Nodes, NEW m \in Nodes, Sync(n, m) PROVE TypeInv'
  BY <1>12, SyncType
<1>13. ASSUME NEW n \in Nodes, HttpSeal(n) PROVE TypeInv'
  BY <1>13, HttpSealType
<1>14. ASSUME NEW m \in msgs, Lose(m) PROVE TypeInv'
  BY <1>14, LoseType
<1>15. CASE UNCHANGED vars
  BY <1>15, StutterType
<1>16. QED
  BY <1>1, <1>2, <1>3, <1>4, <1>5, <1>6, <1>7, <1>8, <1>9, <1>10, <1>11, <1>12,
     <1>13, <1>14, <1>15 DEF Next

\* Proposals, attests, seals, restored chains and skipped heights leave every
\* node's blocks, rounds and messages well formed, and no node's height falls
\* below its last block (finish_snap and skip_missed_h move the two apart).
THEOREM TypeCorrect == Spec => []TypeOK
<1>1. TypeInv => TypeOK
  BY DEF TypeInv
<1>2. QED  BY InitType, NextType, <1>1, PTL DEF Spec

-----------------------------------------------------------------------------
(* Whose turn a block was.                                                 *)

\* Only the member whose turn it is opens the round of a height.
RoundsInTurn == \A p \in Proposers : \A h \in Heights : round[p][h].open => Turn(h) = p

\* By the member of its turn, at a height this member has left behind.
Made(b, heights) == b.by = Turn(b.h) /\ b.h <= heights[b.by]
AllMade(blks, heights) == \A k \in 1..Len(blks) : Made(blks[k], heights)

Calm == Quiet({"rollback", "http"})

GatesInTurn == \A p \in Proposers :
    gate[p] # NoGate => gate[p].h = NextH(p) /\ Turn(gate[p].h) = p

MadeInTurn ==
    /\ \A n \in Nodes : AllMade(chain[n], canon)
    /\ \A m \in msgs : m.kind = "propose" => AllMade(m.tail, canon)
    /\ GatesInTurn

\* No height goes down.
Rises == \A n \in Nodes : canon[n] <= canon'[n]

LEMMA HistGrows == [Next]_vars => hist \subseteq hist'
<1> SUFFICES ASSUME [Next]_vars PROVE hist \subseteq hist'  OBVIOUS
<1>1. CASE UNCHANGED vars
  BY <1>1 DEF vars
<1>2. ASSUME NEW p \in Proposers,
             \/ PropTick(p) \/ PassGate(p) \/ Seal(p) \/ Rollback(p) \/ Saved(p)
             \/ Retry(p) \/ SkipMissed(p)
             \/ \E a \in Attesters : SendProp(p, a)
             \/ \E m \in msgs : CountAttest(p, m)
             \/ \E h \in {0} \cup Heights : SetTarget(p, h)
      PROVE  hist \subseteq hist'
  BY <1>2 DEF PropTick, PassGate, Seal, Rollback, Saved, Retry, SkipMissed,
              SendProp, CountAttest, SetTarget, Disturb
<1>3. CASE \/ \E a \in Attesters, m \in msgs : Attest(a, m)
           \/ \E n, m \in Nodes : Sync(n, m)
           \/ \E n \in Nodes : HttpSeal(n)
           \/ \E m \in msgs : Lose(m)
  BY <1>3 DEF Attest, Sync, HttpSeal, Lose, Disturb
<1>4. QED  BY <1>1, <1>2, <1>3 DEF Next

LEMMA RoundsStayInTurn == TypeInv /\ RoundsInTurn /\ [Next]_vars => RoundsInTurn'
<1> SUFFICES ASSUME TypeInv, RoundsInTurn, [Next]_vars PROVE RoundsInTurn'  OBVIOUS
<1>1. round \in [Proposers -> [Heights -> Rounds]]
  BY TypeParts DEF RestOK
<1>2. ASSUME NEW p \in Proposers, NEW h \in PropHeight(p), NEW x \in BOOLEAN,
             round' = Recorded(p, h, x)
      PROVE  RoundsInTurn'
  <2>1. h \in Heights /\ Turn(h) = p /\ TipHash(p) \in Nat
    BY ProposedHeight, TipTypes DEF Nodes
  <2>2. \A q \in Proposers : \A g \in Heights :
           (q = p /\ g = h) \/ round'[q][g] = round[q][g]
    BY <1>1, <1>2, <2>1, RecordedRound
  <2>3. QED  BY <2>1, <2>2 DEF RoundsInTurn
<1>3. ASSUME NEW p \in Proposers, PropTick(p) PROVE RoundsInTurn'
  BY <1>2, <1>3 DEF PropTick
<1>4. ASSUME NEW p \in Proposers, NEW a \in Attesters, SendProp(p, a) PROVE RoundsInTurn'
  BY <1>2, <1>4 DEF SendProp
<1>5. ASSUME NEW p \in Proposers, NEW m \in msgs, CountAttest(p, m) PROVE RoundsInTurn'
  <2>1. CountedAcks(p, m, round')
    BY <1>5, CountedRound
  <2>2. \A q \in Proposers : \A g \in Heights : round'[q][g].open = round[q][g].open
    BY <2>1 DEF CountedAcks
  <2>3. QED  BY <2>2 DEF RoundsInTurn
<1>6. ASSUME NEW p \in Proposers, Retry(p) PROVE RoundsInTurn'
  <2>1. RetriedRound(round')
    BY <1>6, RetryRound
  <2>2. QED  BY <2>1 DEF RetriedRound, RoundsInTurn
<1>7. CASE UNCHANGED round
  BY <1>7 DEF RoundsInTurn
<1>8. ASSUME NEW p \in Proposers,
             \/ PassGate(p) \/ Seal(p) \/ Rollback(p) \/ Saved(p) \/ SkipMissed(p)
             \/ \E h \in {0} \cup Heights : SetTarget(p, h)
      PROVE  UNCHANGED round
  BY <1>8 DEF PassGate, Seal, Rollback, Saved, SkipMissed, SetTarget
<1>9. CASE \/ \E a \in Attesters, m \in msgs : Attest(a, m)
           \/ \E n, m \in Nodes : Sync(n, m)
           \/ \E n \in Nodes : HttpSeal(n)
           \/ \E m \in msgs : Lose(m)
           \/ UNCHANGED vars
  BY <1>7, <1>9 DEF Attest, Sync, HttpSeal, Lose, vars
<1>10. QED  BY <1>3, <1>4, <1>5, <1>6, <1>7, <1>8, <1>9 DEF Next

LEMMA AllMadeRises ==
    ASSUME NEW c \in [Nodes -> {0} \cup Heights], NEW d \in [Nodes -> {0} \cup Heights],
           \A n \in Nodes : c[n] <= d[n],
           NEW blks \in Seq(Blocks), AllMade(blks, c)
    PROVE  AllMade(blks, d)
<1> SUFFICES ASSUME NEW k \in 1..Len(blks) PROVE Made(blks[k], d)
  BY DEF AllMade
<1>1. blks[k] \in Blocks
  BY ElementOfSeq
<1> PICK b : b = blks[k]  OBVIOUS
<1>2. b.by \in Nodes /\ b.h \in Heights
  BY <1>1 DEF Blocks
<1>3. c[b.by] \in Nat /\ d[b.by] \in Nat /\ b.h \in Nat
  BY <1>2, HeightsAreNat
<1>4. Made(b, c)
  BY DEF AllMade
<1>5. c[b.by] <= d[b.by]
  BY <1>2
<1>6. QED  BY <1>3, <1>4, <1>5 DEF Made

\* A suffix of blocks made in turn.
LEMMA SuffixMade ==
    ASSUME NEW src, NEW heights, AllMade(src, heights), NEW blks, NEW j \in Nat,
           Cut(blks, src, j)
    PROVE  AllMade(blks, heights)
BY DEF AllMade, Cut

LEMMA ConcatMade ==
    ASSUME NEW c \in Seq(Blocks), NEW blks \in Seq(Blocks), NEW heights,
           AllMade(c, heights), AllMade(blks, heights)
    PROVE  AllMade(c \o blks, heights)
<1> PICK s : s = c \o blks  OBVIOUS
<1> PICK l, n : l = Len(c) /\ n = Len(blks)  OBVIOUS
<1>1. l \in Nat /\ n \in Nat
  BY LenProperties
<1>2. /\ Len(s) = l + n
      /\ \A k \in 1..l : s[k] = c[k]
      /\ \A k \in 1..n : s[l + k] = blks[k]
  BY Extended
<1>3. \A k \in 1..(l + n) : k \in 1..l \/ (k - l \in 1..n /\ k = l + (k - l))
  BY <1>1, SplitIndex
<1>4. ASSUME NEW k \in 1..Len(s) PROVE Made(s[k], heights)
  <2>1. CASE k \in 1..l
    BY <1>2, <2>1 DEF AllMade
  <2>2. CASE k - l \in 1..n /\ k = l + (k - l)
    <3>1. s[k] = blks[k - l]
      BY <1>2, <2>2
    <3>2. QED  BY <2>2, <3>1 DEF AllMade
  <2>3. QED  BY <1>2, <1>3, <2>1, <2>2
<1>5. QED  BY <1>4 DEF AllMade

\* A node takes blocks that were made in turn: its height rises, its chain is
\* made in turn, and it was not about to seal.
LEMMA AppliedMade ==
    ASSUME TypeInv, MadeInTurn, NEW n \in Nodes, NEW src \in Seq(Blocks), AllMade(src, canon),
           NEW blks, blks = Above(src, canon[n]), Follows(n, blks), Apply(n, blks)
    PROVE  /\ Rises
           /\ \A x \in Nodes : AllMade(chain'[x], canon')
           /\ n \in Proposers => gate[n] = NoGate
           /\ \A x \in Nodes \ {n} : chain'[x] = chain[x] /\ canon'[x] = canon[x]
<1>1. /\ chain \in [Nodes -> Seq(Blocks)]
      /\ canon \in [Nodes -> {0} \cup Heights]
      /\ canon[n] \in Nat
  BY TypeParts, TipTypes DEF ChainsOK
<1>2. blks \in Seq(Blocks)
  BY <1>1, AboveIsSuffix
<1>3. PICK j \in Nat : Cut(blks, src, j)
  BY <1>1, AboveIsSuffix
<1>4. AllMade(blks, canon)
  BY <1>3, SuffixMade
<1>5. Len(blks) \in Nat \ {0}
  BY <1>2, EmptySeq DEF Follows
<1>6. 1 \in 1..Len(blks) /\ Len(blks) \in 1..Len(blks)
  BY <1>5
<1>7. /\ blks[Len(blks)].h = canon[n] + Len(blks)
      /\ blks[1].h = NextH(n)
  BY <1>6 DEF Follows, NextH
<1>8. /\ chain' = [chain EXCEPT ![n] = chain[n] \o blks]
      /\ canon' = [canon EXCEPT ![n] = blks[Len(blks)].h]
  BY DEF Apply
<1>9. \A x \in Nodes \ {n} : chain'[x] = chain[x] /\ canon'[x] = canon[x]
  BY <1>1, <1>8
<1>10. Rises
  <2>1. canon'[n] = canon[n] + Len(blks)
    BY <1>1, <1>7, <1>8
  <2>2. canon[n] <= canon'[n]
    BY <1>1, <1>5, <2>1
  <2>3. \A x \in Nodes : canon[x] \in Nat
    BY TipTypes
  <2>4. QED  BY <1>9, <2>2, <2>3 DEF Rises
<1>11. canon' \in [Nodes -> {0} \cup Heights]
  BY <1>2, ApplyTypes, TypeParts DEF ChainsOK
<1>12. ASSUME NEW x \in Nodes PROVE AllMade(chain'[x], canon')
  <2>1. AllMade(chain[x], canon') /\ AllMade(blks, canon')
    BY <1>1, <1>2, <1>4, <1>10, <1>11, AllMadeRises DEF MadeInTurn, Rises
  <2>2. CASE x # n
    BY <1>9, <2>1, <2>2
  <2>3. CASE x = n
    <3>1. chain'[n] = chain[n] \o blks /\ chain[n] \in Seq(Blocks)
      BY <1>1, <1>8
    <3>2. QED  BY <1>2, <2>1, <2>3, <3>1, ConcatMade
  <2>4. QED  BY <2>2, <2>3
<1>13. ASSUME n \in Proposers, gate[n] # NoGate PROVE FALSE
  <2>1. Turn(NextH(n)) = n
    BY <1>13 DEF MadeInTurn, GatesInTurn
  <2>2. Made(blks[1], canon)
    BY <1>4, <1>6 DEF AllMade
  <2>3. NextH(n) <= canon[n]
    BY <1>7, <2>1, <2>2 DEF Made
  <2>4. QED  BY <1>1, <2>3 DEF NextH
<1>14. QED  BY <1>9, <1>10, <1>12, <1>13

\* A gate that stays passed, of a proposer whose height stays.
LEMMA GatesStay ==
    ASSUME GatesInTurn,
           \A p \in Proposers : gate'[p] # NoGate => gate'[p] = gate[p] /\ canon'[p] = canon[p]
    PROVE  GatesInTurn'
BY DEF GatesInTurn, NextH

\* Steps that touch neither chains nor gates and propose nothing.
LEMMA MadeFrame ==
    ASSUME TypeInv, MadeInTurn, UNCHANGED <<chain, canon, gate>>,
           \A m \in msgs' : m.kind = "propose" => m \in msgs
    PROVE  MadeInTurn' /\ Rises
<1>1. \A n \in Nodes : canon[n] \in Nat
  BY TipTypes
<1>2. Rises
  BY <1>1 DEF Rises
<1>3. GatesInTurn'
  BY GatesStay DEF MadeInTurn
<1>4. QED  BY <1>2, <1>3 DEF MadeInTurn

\* Heights rise: tails on the wire stay made in turn.
LEMMA TailsRise ==
    ASSUME TypeInv, TypeInv', MadeInTurn, Rises, NEW m \in msgs, m.kind = "propose"
    PROVE  AllMade(m.tail, canon')
<1>1. m.tail \in Seq(Blocks)
  BY MessageKinds
<1>2. /\ canon \in [Nodes -> {0} \cup Heights]
      /\ canon' \in [Nodes -> {0} \cup Heights]
  BY TypeParts DEF TypeInv, TypeOK
<1>3. \A n \in Nodes : canon[n] <= canon'[n]
  BY DEF Rises
<1>4. AllMade(m.tail, canon)
  BY DEF MadeInTurn
<1>5. QED  BY <1>1, <1>2, <1>3, <1>4, AllMadeRises

LEMMA SendPropMade ==
    ASSUME TypeInv, MadeInTurn, NEW p \in Proposers, NEW a \in Attesters, SendProp(p, a)
    PROVE  MadeInTurn' /\ Rises
<1>1. PICK h \in PropHeight(p), m \in Messages, depth \in 1..TailCap : Proposed(p, h, m, depth)
  BY SentProposal
<1>2. chain[p] \in Seq(Blocks) /\ p \in Nodes
  BY TipTypes DEF Nodes
<1> PICK t : t = TailBlocks(p, depth)  OBVIOUS
<1>3. PICK j \in Nat : Cut(t, chain[p], j)
  BY <1>2, TailIsSuffix
<1>4. AllMade(t, canon)
  BY <1>2, <1>3, SuffixMade DEF MadeInTurn
<1>5. msgs' = msgs \cup {m} /\ m.tail = t
  BY <1>1 DEF Proposed
<1>6. UNCHANGED <<chain, canon, gate>>
  BY DEF SendProp
<1>7. \A n \in Nodes : canon[n] \in Nat
  BY TipTypes
<1>8. Rises
  BY <1>6, <1>7 DEF Rises
<1>9. GatesInTurn'
  BY <1>6, GatesStay DEF MadeInTurn
<1>10. QED  BY <1>4, <1>5, <1>6, <1>8, <1>9 DEF MadeInTurn

LEMMA PassGateMade ==
    ASSUME TypeInv, RoundsInTurn, MadeInTurn, NEW p \in Proposers, PassGate(p)
    PROVE  MadeInTurn' /\ Rises
<1>1. NextH(p) \in Heights /\ round[p][NextH(p)].open
  BY DEF PassGate, QuorumMet
<1>2. Turn(NextH(p)) = p
  BY <1>1 DEF RoundsInTurn
<1>3. gate \in [Proposers -> Gates]
  BY TypeParts DEF RestOK
<1> PICK x : x = [h |-> NextH(p), acks |-> round[p][NextH(p)].acks]
  OBVIOUS
<1>4. /\ gate' = [gate EXCEPT ![p] = x] /\ x.h = NextH(p)
      /\ UNCHANGED <<chain, canon, msgs>>
  BY DEF PassGate
<1>5. \A q \in Proposers : gate'[q] = IF q = p THEN x ELSE gate[q]
  BY <1>3, <1>4
<1>6. \A q \in Proposers : NextH(q)' = NextH(q)
  BY <1>4 DEF NextH
<1>7. GatesInTurn'
  BY <1>2, <1>4, <1>5, <1>6 DEF MadeInTurn, GatesInTurn
<1>8. Rises
  BY <1>4, TipTypes DEF Rises
<1>9. QED  BY <1>4, <1>7, <1>8 DEF MadeInTurn

\* The block of a gated seal, and what the seal leaves alone.
LEMMA GatedBlock ==
    ASSUME TypeInv, NEW p \in Proposers, Seal(p)
    PROVE  /\ \E b : AddsBlock(p, gate[p].acks, "gated", b)
           /\ gate[p] # NoGate /\ gate[p].acks \in SUBSET Acks
           /\ gate'[p] = NoGate
           /\ \A q \in Proposers \ {p} : gate'[q] = gate[q]
           /\ \A n \in Nodes \ {p} : chain'[n] = chain[n] /\ canon'[n] = canon[n]
           /\ \A b : AddsBlock(p, gate[p].acks, "gated", b) =>
                  chain'[p] = Append(chain[p], b) /\ canon'[p] = NextH(p)
<1>1. gate \in [Proposers -> Gates] /\ ChainsOK
  BY TypeParts DEF RestOK
<1>2. gate[p].acks \in SUBSET Acks /\ p \in Nodes
  BY <1>1 DEF Gates, Nodes
<1>3. SealOn(p, gate[p].acks, "gated")
  BY DEF Seal
<1>4. \E b : AddsBlock(p, gate[p].acks, "gated", b)
  BY <1>2, <1>3, SealedBlock
<1>5. gate[p] # NoGate /\ gate'[p] = NoGate /\ \A q \in Proposers \ {p} : gate'[q] = gate[q]
  BY <1>1 DEF Seal
<1>6. \A b : AddsBlock(p, gate[p].acks, "gated", b) =>
          /\ chain'[p] = Append(chain[p], b) /\ canon'[p] = NextH(p)
          /\ \A n \in Nodes \ {p} : chain'[n] = chain[n] /\ canon'[n] = canon[n]
  BY <1>1, <1>2 DEF AddsBlock, ChainsOK
<1>7. QED  BY <1>2, <1>4, <1>5, <1>6

LEMMA SealMade ==
    ASSUME TypeInv, TypeInv', MadeInTurn, NEW p \in Proposers, Seal(p)
    PROVE  MadeInTurn' /\ Rises
<1>1. PICK b : AddsBlock(p, gate[p].acks, "gated", b)
  BY GatedBlock
<1>2. /\ chain'[p] = Append(chain[p], b) /\ canon'[p] = NextH(p)
      /\ \A n \in Nodes \ {p} : chain'[n] = chain[n] /\ canon'[n] = canon[n]
      /\ b \in Blocks /\ b.h = NextH(p) /\ b.by = p
  BY <1>1, GatedBlock DEF AddsBlock
<1>3. Turn(NextH(p)) = p
  BY GatedBlock DEF MadeInTurn, GatesInTurn
<1>4. \A n \in Nodes : canon[n] \in Nat /\ chain[n] \in Seq(Blocks)
  BY TipTypes
<1>5. p \in Nodes
  BY DEF Nodes
<1>6. canon'[p] = canon[p] + 1
  BY <1>2 DEF NextH
<1>7. Rises
  <2>1. canon[p] <= canon'[p]
    BY <1>4, <1>5, <1>6
  <2>2. QED  BY <1>2, <1>4, <2>1 DEF Rises
<1>8. Made(b, canon')
  <2>1. canon'[p] \in Nat
    BY <1>4, <1>5, <1>6
  <2>2. QED  BY <1>2, <1>3, <2>1 DEF Made
<1>9. /\ canon \in [Nodes -> {0} \cup Heights]
      /\ canon' \in [Nodes -> {0} \cup Heights]
  BY DEF TypeInv, TypeOK
<1>10. \A n \in Nodes : AllMade(chain[n], canon')
  BY <1>4, <1>7, <1>9, AllMadeRises DEF MadeInTurn, Rises
<1>11. AllMade(chain'[p], canon')
  <2> PICK c : c = chain[p]  OBVIOUS
  <2> PICK l : l = Len(c)  OBVIOUS
  <2>1. c \in Seq(Blocks) /\ l \in Nat
    BY <1>4, <1>5, LenProperties
  <2>2. /\ Len(Append(c, b)) = l + 1
        /\ \A i \in 1..l : Append(c, b)[i] = c[i]
        /\ Append(c, b)[l + 1] = b
    BY <2>1, <1>2, AppendProperties
  <2>3. \A k \in 1..(l + 1) : k \in 1..l \/ k = l + 1
    BY <2>1
  <2>4. \A k \in 1..(l + 1) : Made(Append(c, b)[k], canon')
    BY <2>2, <2>3, <1>5, <1>8, <1>10 DEF AllMade
  <2>5. QED  BY <2>2, <2>4, <1>2 DEF AllMade
<1>12. \A m \in msgs : m.kind = "propose" => AllMade(m.tail, canon')
  BY <1>7, TailsRise
<1>13. GatesInTurn'
  <2>1. p \notin Attesters /\ \A q \in Proposers : q \in Nodes
    BY ClusterAssumption DEF Nodes
  <2>2. QED  BY <2>1, <1>2, GatedBlock, GatesStay DEF MadeInTurn
<1>14. \A n \in Nodes : AllMade(chain'[n], canon')
  BY <1>2, <1>10, <1>11
<1>15. msgs' = msgs
  BY DEF Seal
<1>16. QED  BY <1>7, <1>12, <1>13, <1>14, <1>15 DEF MadeInTurn

LEMMA SkipMissedMade ==
    ASSUME TypeInv, TypeInv', MadeInTurn, NEW p \in Proposers, SkipMissed(p)
    PROVE  MadeInTurn' /\ Rises
<1>1. /\ canon \in [Nodes -> {0} \cup Heights]
      /\ canon' \in [Nodes -> {0} \cup Heights]
      /\ gate \in [Proposers -> Gates]
  BY TypeParts DEF TypeInv, TypeOK, RestOK
<1>2. \A n \in Nodes : canon[n] \in Nat /\ chain[n] \in Seq(Blocks)
  BY TipTypes
<1>3. /\ \A n \in Nodes : canon'[n] = IF n = p THEN canon[n] + 1 ELSE canon[n]
      /\ UNCHANGED <<chain, msgs, gate>> /\ gate[p] = NoGate
  BY <1>1 DEF SkipMissed, NextH
<1>4. Rises
  <2>1. ASSUME NEW n \in Nodes PROVE canon[n] <= canon'[n]
    <3>1. canon[n] \in Nat /\ (canon'[n] = canon[n] + 1 \/ canon'[n] = canon[n])
      BY <1>2, <1>3
    <3>2. QED  BY <3>1
  <2>2. QED  BY <2>1 DEF Rises
<1>5. \A n \in Nodes : AllMade(chain'[n], canon')
  BY <1>1, <1>2, <1>3, <1>4, AllMadeRises DEF MadeInTurn, Rises
<1>6. \A m \in msgs : m.kind = "propose" => AllMade(m.tail, canon')
  BY <1>4, TailsRise
<1>7. GatesInTurn'
  BY <1>3, GatesStay DEF MadeInTurn, Nodes
<1>8. QED  BY <1>3, <1>4, <1>5, <1>6, <1>7 DEF MadeInTurn

LEMMA SyncMade ==
    ASSUME TypeInv, TypeInv', MadeInTurn, NEW n \in Nodes, NEW m \in Nodes, Sync(n, m)
    PROVE  MadeInTurn' /\ Rises
<1> PICK blks : blks = Above(chain[m], canon[n])  OBVIOUS
<1>1. chain[m] \in Seq(Blocks) /\ AllMade(chain[m], canon)
  BY TipTypes DEF MadeInTurn
<1>2. Follows(n, blks) /\ Apply(n, blks) /\ UNCHANGED <<msgs, gate>>
  BY DEF Sync
<1>3. /\ Rises
      /\ \A x \in Nodes : AllMade(chain'[x], canon')
      /\ n \in Proposers => gate[n] = NoGate
      /\ \A x \in Nodes \ {n} : chain'[x] = chain[x] /\ canon'[x] = canon[x]
  BY <1>1, <1>2, AppliedMade
<1>4. \A x \in msgs : x.kind = "propose" => AllMade(x.tail, canon')
  BY <1>3, TailsRise
<1>5. GatesInTurn'
  BY <1>2, <1>3, GatesStay DEF MadeInTurn, Nodes
<1>6. QED  BY <1>2, <1>3, <1>4, <1>5 DEF MadeInTurn

LEMMA AttestMade ==
    ASSUME TypeInv, TypeInv', MadeInTurn, NEW a \in Attesters, NEW m \in msgs, Attest(a, m)
    PROVE  MadeInTurn' /\ Rises
<1>1. PICK x : Answered(a, m, x)
  BY AttestSteps
<1>2. m.tail \in Seq(Blocks) /\ AllMade(m.tail, canon) /\ UNCHANGED gate
  BY AttestSteps DEF MadeInTurn, Attest
<1>3. \A y \in msgs' : y.kind = "propose" => y \in msgs
  BY <1>1 DEF Answered
<1>4. CASE UNCHANGED <<chain, canon>>
  BY <1>2, <1>3, <1>4, MadeFrame
<1>5. CASE ~UNCHANGED <<chain, canon>>
  <2> PICK blks : blks = Above(m.tail, canon[a])  OBVIOUS
  <2>1. Follows(a, blks) /\ Apply(a, blks) /\ a \in Nodes
    BY <1>5, AttestSteps DEF Nodes
  <2>2. /\ Rises
        /\ \A n \in Nodes : AllMade(chain'[n], canon')
        /\ \A n \in Nodes \ {a} : canon'[n] = canon[n]
    BY <1>2, <2>1, AppliedMade
  <2>3. \A y \in msgs' : y.kind = "propose" => AllMade(y.tail, canon')
    BY <1>3, <2>2, TailsRise
  <2>4. \A p \in Proposers : p \in Nodes \ {a}
    BY ClusterAssumption DEF Nodes
  <2>5. GatesInTurn'
    BY <1>2, <2>2, <2>4, GatesStay DEF MadeInTurn
  <2>6. QED  BY <2>2, <2>3, <2>5 DEF MadeInTurn
<1>6. QED  BY <1>4, <1>5

LEMMA CalmBack == [Next]_vars /\ Calm' => Calm
BY HistGrows DEF Calm, Quiet

\* Once blocks are made in turn, only a restored chain or an HTTP seal ends it.
LEMMA MadeStays ==
    ASSUME TypeInv, TypeInv', RoundsInTurn, MadeInTurn, [Next]_vars, Calm'
    PROVE  MadeInTurn' /\ Rises
<1> DEFINE Goal == MadeInTurn' /\ Rises
<1>1. ASSUME NEW p \in Proposers, PropTick(p) PROVE Goal
  BY <1>1, MadeFrame DEF PropTick
<1>2. ASSUME NEW p \in Proposers, NEW a \in Attesters, SendProp(p, a) PROVE Goal
  BY <1>2, SendPropMade
<1>3. ASSUME NEW p \in Proposers, NEW m \in msgs, CountAttest(p, m) PROVE Goal
  BY <1>3, MadeFrame DEF CountAttest
<1>4. ASSUME NEW p \in Proposers, PassGate(p) PROVE Goal
  BY <1>4, PassGateMade
<1>5. ASSUME NEW p \in Proposers, Seal(p) PROVE Goal
  BY <1>5, SealMade
<1>6. ASSUME NEW p \in Proposers, Rollback(p) PROVE Goal
  BY <1>6 DEF Rollback, Disturb, Calm, Quiet
<1>7. ASSUME NEW p \in Proposers, Saved(p) PROVE Goal
  BY <1>7, MadeFrame DEF Saved
<1>8. ASSUME NEW p \in Proposers, Retry(p) PROVE Goal
  BY <1>8, MadeFrame DEF Retry
<1>9. ASSUME NEW p \in Proposers, SkipMissed(p) PROVE Goal
  BY <1>9, SkipMissedMade
<1>10. ASSUME NEW p \in Proposers, NEW h \in {0} \cup Heights, SetTarget(p, h) PROVE Goal
  BY <1>10, MadeFrame DEF SetTarget
<1>11. ASSUME NEW a \in Attesters, NEW m \in msgs, Attest(a, m) PROVE Goal
  BY <1>11, AttestMade
<1>12. ASSUME NEW n \in Nodes, NEW m \in Nodes, Sync(n, m) PROVE Goal
  BY <1>12, SyncMade
<1>13. ASSUME NEW n \in Nodes, HttpSeal(n) PROVE Goal
  BY <1>13 DEF HttpSeal, Disturb, Calm, Quiet
<1>14. ASSUME NEW m \in msgs, Lose(m) PROVE Goal
  BY <1>14, MadeFrame DEF Lose
<1>15. CASE UNCHANGED vars
  BY <1>15, MadeFrame DEF vars
<1>16. QED
  BY <1>1, <1>2, <1>3, <1>4, <1>5, <1>6, <1>7, <1>8, <1>9, <1>10, <1>11, <1>12,
     <1>13, <1>14, <1>15 DEF Next

-----------------------------------------------------------------------------
(* One chain.                                                              *)

\* A chain without gaps, and a height that is its length.
Gapless(c, h) == h = Len(c) /\ \A k \in 1..Len(c) : c[k].h = k

\* Two chains do not differ where both have a block.
Agree(c, d) == \A k \in 1..Len(c) : k \in 1..Len(d) => c[k] = d[k]

\* A block lies in a chain, at its height.
Placed(b, c) == b.h \in 1..Len(c) /\ b = c[b.h]

Straight == Quiet({"skip", "rollback", "http"})

OnBranch ==
    /\ \A n \in Nodes : Gapless(chain[n], canon[n])
    /\ \A n, m \in Nodes : Agree(chain[n], chain[m])
    /\ \A m \in msgs : m.kind = "propose" =>
          \A k \in 1..Len(m.tail) : Placed(m.tail[k], chain[m.from])

LEMMA BranchFrame ==
    ASSUME OnBranch, UNCHANGED <<chain, canon>>,
           \A m \in msgs' : m.kind = "propose" => m \in msgs
    PROVE  OnBranch'
BY DEF OnBranch

\* A chain that only grew still holds what it held.
LEMMA PlacedStays ==
    ASSUME NEW b, NEW c, NEW d, Len(c) \in Nat, Len(d) \in Nat, Len(c) <= Len(d),
           \A k \in 1..Len(c) : d[k] = c[k], Placed(b, c)
    PROVE  Placed(b, d)
BY DEF Placed

LEMMA SendPropBranch ==
    ASSUME TypeInv, OnBranch, NEW p \in Proposers, NEW a \in Attesters, SendProp(p, a)
    PROVE  OnBranch'
<1>1. PICK h \in PropHeight(p), m \in Messages, depth \in 1..TailCap : Proposed(p, h, m, depth)
  BY SentProposal
<1>2. chain[p] \in Seq(Blocks) /\ p \in Nodes
  BY TipTypes DEF Nodes
<1> PICK t : t = TailBlocks(p, depth)  OBVIOUS
<1>3. PICK j \in Nat : Cut(t, chain[p], j)
  BY <1>2, TailIsSuffix
<1>4. \A k \in 1..Len(t) : Placed(t[k], chain[p])
  <2>1. Gapless(chain[p], canon[p])
    BY <1>2 DEF OnBranch
  <2>2. QED  BY <1>3, <2>1 DEF Cut, Placed, Gapless
<1>5. msgs' = msgs \cup {m} /\ m.tail = t /\ m.from = p
  BY <1>1 DEF Proposed
<1>6. UNCHANGED <<chain, canon>>
  BY DEF SendProp
<1>7. \A x \in msgs' : x.kind = "propose" =>
         \A k \in 1..Len(x.tail) : Placed(x.tail[k], chain[x.from])
  BY <1>4, <1>5 DEF OnBranch
<1>8. QED  BY <1>6, <1>7 DEF OnBranch

\* Where the blocks of a node's chain after the step were before it.
Known(c, n, m) == \A k \in 1..Len(c) :
    \/ k \in 1..Len(chain[n]) /\ c[k] = chain[n][k]
    \/ k \in 1..Len(chain[m]) /\ c[k] = chain[m][k]

\* A node whose new blocks another node has, at the same heights.
LEMMA KnownBranch ==
    ASSUME TypeInv, OnBranch, NEW n \in Nodes, NEW m \in Nodes, NEW c \in Seq(Blocks),
           Known(c, n, m), chain'[n] = c, canon'[n] = Len(c), Len(chain[n]) <= Len(c),
           \A x \in Nodes \ {n} : chain'[x] = chain[x] /\ canon'[x] = canon[x],
           \A k \in 1..Len(chain[n]) : c[k] = chain[n][k],
           \A x \in msgs' : x.kind = "propose" => x \in msgs
    PROVE  OnBranch'
<1>1. \A x \in Nodes : Len(chain[x]) \in Nat /\ chain[x] \in Seq(Blocks)
  BY TipTypes
<1>2. Len(c) \in Nat
  BY LenProperties
<1>3. ASSUME NEW x \in Nodes PROVE Gapless(chain'[x], canon'[x])
  <2>1. CASE x # n
    BY <2>1 DEF OnBranch
  <2>2. CASE x = n
    <3>1. \A k \in 1..Len(c) : c[k].h = k
      BY DEF Known, OnBranch, Gapless
    <3>2. QED  BY <2>2, <3>1 DEF Gapless
  <2>3. QED  BY <2>1, <2>2
<1>4. ASSUME NEW x \in Nodes PROVE Agree(c, chain[x]) /\ Agree(chain[x], c)
  <2>1. Agree(chain[n], chain[x]) /\ Agree(chain[m], chain[x])
    BY DEF OnBranch
  <2>2. QED  BY <2>1 DEF Known, Agree
<1>5. ASSUME NEW x \in Nodes, NEW y \in Nodes PROVE Agree(chain'[x], chain'[y])
  <2>1. CASE x # n /\ y # n
    BY <2>1 DEF OnBranch
  <2>2. CASE x = n /\ y # n
    BY <2>2, <1>4
  <2>3. CASE x # n /\ y = n
    BY <2>3, <1>4
  <2>4. CASE x = n /\ y = n
    BY <2>4 DEF Agree
  <2>5. QED  BY <2>1, <2>2, <2>3, <2>4
<1>6. ASSUME NEW x \in msgs', x.kind = "propose", NEW k \in 1..Len(x.tail)
      PROVE  Placed(x.tail[k], chain'[x.from])
  <2>1. x \in msgs /\ x.from \in Nodes
    BY <1>6, MessageKinds DEF Nodes
  <2>2. Placed(x.tail[k], chain[x.from])
    BY <1>6, <2>1 DEF OnBranch
  <2>3. CASE x.from # n
    BY <2>1, <2>2, <2>3
  <2>4. CASE x.from = n
    BY <1>1, <1>2, <2>2, <2>4, PlacedStays
  <2>5. QED  BY <2>3, <2>4
<1>7. QED  BY <1>3, <1>5, <1>6 DEF OnBranch

\* A node applies blocks that lie in the chain of m.
LEMMA AppliedBranch ==
    ASSUME TypeInv, OnBranch, NEW n \in Nodes, NEW m \in Nodes, NEW src \in Seq(Blocks),
           \A k \in 1..Len(src) : Placed(src[k], chain[m]),
           NEW blks, blks = Above(src, canon[n]), Follows(n, blks), Apply(n, blks),
           \A x \in msgs' : x.kind = "propose" => x \in msgs
    PROVE  OnBranch'
<1>1. /\ chain \in [Nodes -> Seq(Blocks)] /\ canon \in [Nodes -> {0} \cup Heights]
      /\ canon[n] \in Nat /\ chain[n] \in Seq(Blocks)
  BY TypeParts, TipTypes DEF ChainsOK
<1>2. blks \in Seq(Blocks)
  BY <1>1, AboveIsSuffix
<1>3. PICK j \in Nat : Cut(blks, src, j)
  BY <1>1, AboveIsSuffix
<1> PICK old : old = chain[n]  OBVIOUS
<1> PICK c : c = old \o blks  OBVIOUS
<1> PICK l, b : l = Len(old) /\ b = Len(blks)  OBVIOUS
<1>4. l \in Nat /\ b \in Nat /\ b > 0 /\ b \in 1..b
  <2>1. l \in Nat /\ b \in Nat \ {0}
    BY <1>1, <1>2, EmptySeq, LenProperties DEF Follows
  <2>2. QED  BY <2>1
<1>5. /\ c \in Seq(Blocks)
      /\ Len(c) = l + b
      /\ \A k \in 1..l : c[k] = old[k]
      /\ \A k \in 1..b : c[l + k] = blks[k]
  BY <1>1, <1>2, Extended
<1>6. /\ chain' = [chain EXCEPT ![n] = c]
      /\ canon' = [canon EXCEPT ![n] = blks[Len(blks)].h]
  BY DEF Apply
<1>7. canon[n] = l
  BY DEF OnBranch, Gapless
<1>8. \A k \in 1..b : blks[k].h = l + k
  BY <1>7 DEF Follows
<1>9. ASSUME NEW k \in 1..b PROVE l + k \in 1..Len(chain[m]) /\ blks[k] = chain[m][l + k]
  <2>1. j + k \in 1..Len(src) /\ blks[k] = src[j + k]
    BY <1>3 DEF Cut
  <2>2. Placed(blks[k], chain[m])
    BY <2>1
  <2>3. QED  BY <1>8, <2>2 DEF Placed
<1>10. Known(c, n, m)
  <2>1. ASSUME NEW k \in 1..(l + b)
        PROVE  k \in 1..l \/ (k - l \in 1..b /\ k = l + (k - l))
    BY <1>4, SplitIndex
  <2>2. ASSUME NEW k \in 1..Len(c)
        PROVE  \/ k \in 1..Len(chain[n]) /\ c[k] = chain[n][k]
               \/ k \in 1..Len(chain[m]) /\ c[k] = chain[m][k]
    <3>1. CASE k \in 1..l
      BY <1>5, <3>1
    <3>2. CASE k - l \in 1..b /\ k = l + (k - l)
      <4>1. c[k] = blks[k - l]
        BY <1>5, <3>2
      <4>2. k \in 1..Len(chain[m]) /\ blks[k - l] = chain[m][k]
        BY <1>9, <3>2
      <4>3. QED  BY <4>1, <4>2
    <3>3. QED  BY <1>5, <2>1, <3>1, <3>2
  <2>3. QED  BY <2>2 DEF Known
<1>11. /\ chain'[n] = c
       /\ \A x \in Nodes \ {n} : chain'[x] = chain[x] /\ canon'[x] = canon[x]
  BY <1>1, <1>6
<1>12. canon'[n] = Len(c)
  BY <1>1, <1>4, <1>5, <1>6, <1>8
<1>13. Len(chain[n]) <= Len(c)
  <2>1. l <= l + b
    BY <1>4, SplitIndex, Zenon
  <2>2. QED  BY <1>5, <2>1
<1>14. QED  BY <1>5, <1>10, <1>11, <1>12, <1>13, KnownBranch

\* A proposer that seals has the longest chain: a block beyond its tip would
\* have been made by itself.
LEMMA SealerIsAhead ==
    ASSUME TypeInv, MadeInTurn, OnBranch, NEW p \in Proposers, gate[p] # NoGate, NEW n \in Nodes
    PROVE  Len(chain[n]) <= Len(chain[p])
<1>1. p \in Nodes
  BY DEF Nodes
<1> PICK l, k : l = Len(chain[p]) /\ k = Len(chain[n])  OBVIOUS
<1>2. l \in Nat /\ k \in Nat
  BY <1>1, TipTypes
<1>3. l + 1 = NextH(p) /\ canon[p] = l
  BY <1>1 DEF OnBranch, Gapless, NextH
<1> SUFFICES ASSUME ~(k <= l) PROVE FALSE
  OBVIOUS
<1>4. l + 1 \in 1..k
  BY <1>2
<1> PICK b : b = chain[n][l + 1]  OBVIOUS
<1>5. b.h = l + 1
  BY <1>4 DEF OnBranch, Gapless
<1>6. Made(b, canon)
  BY <1>4 DEF MadeInTurn, AllMade
<1>7. b.by = p /\ b.h <= canon[p]
  BY <1>3, <1>5, <1>6 DEF MadeInTurn, GatesInTurn, Made
<1>8. QED  BY <1>2, <1>3, <1>5, <1>7

LEMMA SealBranch ==
    ASSUME TypeInv, MadeInTurn, OnBranch, NEW p \in Proposers, Seal(p)
    PROVE  OnBranch'
<1>1. PICK b : AddsBlock(p, gate[p].acks, "gated", b)
  BY GatedBlock
<1> PICK c : c = chain[p]  OBVIOUS
<1> PICK l : l = Len(c)  OBVIOUS
<1> PICK d : d = Append(c, b)  OBVIOUS
<1>2. /\ chain'[p] = d /\ canon'[p] = NextH(p)
      /\ \A n \in Nodes \ {p} : chain'[n] = chain[n] /\ canon'[n] = canon[n]
      /\ b \in Blocks /\ b.h = NextH(p)
  <2>1. chain'[p] = Append(chain[p], b) /\ canon'[p] = NextH(p)
    BY <1>1, GatedBlock
  <2>2. \A n \in Nodes \ {p} : chain'[n] = chain[n] /\ canon'[n] = canon[n]
    BY GatedBlock
  <2>3. b \in Blocks /\ b.h = NextH(p)
    BY <1>1 DEF AddsBlock
  <2>4. QED  BY <2>1, <2>2, <2>3
<1>3. p \in Nodes /\ c \in Seq(Blocks) /\ l \in Nat
  BY TipTypes DEF Nodes
<1>4. /\ Len(d) = l + 1 /\ d \in Seq(Blocks)
      /\ \A k \in 1..l : d[k] = c[k]
      /\ d[l + 1] = b
  BY <1>2, <1>3, AppendProperties
<1>5. NextH(p) = l + 1
  BY <1>3 DEF OnBranch, Gapless, NextH
<1>6. ASSUME NEW n \in Nodes
      PROVE  Len(chain[n]) \in Nat /\ Len(chain[n]) <= l
  BY TipTypes, SealerIsAhead, GatedBlock
<1>7. ASSUME NEW k \in 1..(l + 1) PROVE k \in 1..l \/ k = l + 1
  BY <1>3
<1>8. ASSUME NEW n \in Nodes PROVE Gapless(chain'[n], canon'[n])
  <2>1. CASE n # p
    BY <1>2, <2>1 DEF OnBranch
  <2>2. \A k \in 1..l : c[k].h = k
    BY <1>3 DEF OnBranch, Gapless
  <2>3. \A k \in 1..(l + 1) : d[k].h = k
    BY <1>2, <1>4, <1>5, <1>7, <2>2
  <2>4. Gapless(d, l + 1)
    BY <1>4, <2>3 DEF Gapless
  <2>5. QED  BY <1>2, <1>5, <2>1, <2>4
<1>9. ASSUME NEW n \in Nodes PROVE Agree(d, chain[n]) /\ Agree(chain[n], d)
  <2> PICK e : e = chain[n]  OBVIOUS
  <2>1. ~(l + 1 \in 1..Len(e))
    BY <1>3, <1>6
  <2>2. Agree(c, e)
    BY <1>3 DEF OnBranch
  <2>3. Agree(d, e)
    BY <1>4, <1>7, <2>1, <2>2 DEF Agree
  <2>4. Agree(e, d)
    BY <2>3 DEF Agree
  <2>5. QED  BY <2>3, <2>4
<1>10. ASSUME NEW x \in Nodes, NEW y \in Nodes PROVE Agree(chain'[x], chain'[y])
  <2>1. CASE x # p /\ y # p
    BY <1>2, <2>1 DEF OnBranch
  <2>2. CASE x = p /\ y # p
    BY <1>2, <1>9, <2>2
  <2>3. CASE x # p /\ y = p
    BY <1>2, <1>9, <2>3
  <2>4. CASE x = p /\ y = p
    BY <2>4 DEF Agree
  <2>5. QED  BY <2>1, <2>2, <2>3, <2>4
<1>11. ASSUME NEW m \in msgs', m.kind = "propose", NEW k \in 1..Len(m.tail)
       PROVE  Placed(m.tail[k], chain'[m.from])
  <2>1. m \in msgs
    BY DEF Seal
  <2>2. m.from \in Nodes /\ Placed(m.tail[k], chain[m.from])
    BY <1>11, <2>1, MessageKinds DEF OnBranch, Nodes
  <2>3. CASE m.from # p
    BY <1>2, <2>2, <2>3
  <2>4. CASE m.from = p
    <3>1. Len(c) \in Nat /\ Len(d) \in Nat /\ Len(c) <= Len(d)
      BY <1>3, <1>4
    <3>2. \A i \in 1..Len(c) : d[i] = c[i]
      BY <1>4
    <3> PICK b1 : b1 = m.tail[k]  OBVIOUS
    <3>4. Placed(b1, c)
      BY <2>2, <2>4
    <3>5. Placed(m.tail[k], d)
      BY <3>1, <3>2, <3>4, PlacedStays
    <3>6. QED  BY <1>2, <2>4, <3>5
  <2>5. QED  BY <2>3, <2>4
<1>12. QED  BY <1>8, <1>10, <1>11 DEF OnBranch

LEMMA BranchStays ==
    ASSUME TypeInv, TypeInv', MadeInTurn, OnBranch, [Next]_vars, Straight'
    PROVE  OnBranch'
<1>1. ASSUME NEW p \in Proposers, PropTick(p) PROVE OnBranch'
  BY <1>1, BranchFrame DEF PropTick
<1>2. ASSUME NEW p \in Proposers, NEW a \in Attesters, SendProp(p, a) PROVE OnBranch'
  BY <1>2, SendPropBranch
<1>3. ASSUME NEW p \in Proposers, NEW m \in msgs, CountAttest(p, m) PROVE OnBranch'
  BY <1>3, BranchFrame DEF CountAttest
<1>4. ASSUME NEW p \in Proposers, PassGate(p) PROVE OnBranch'
  BY <1>4, BranchFrame DEF PassGate
<1>5. ASSUME NEW p \in Proposers, Seal(p) PROVE OnBranch'
  BY <1>5, SealBranch
<1>6. ASSUME NEW p \in Proposers, Rollback(p) PROVE OnBranch'
  BY <1>6 DEF Rollback, Disturb, Straight, Quiet
<1>7. ASSUME NEW p \in Proposers, Saved(p) PROVE OnBranch'
  BY <1>7, BranchFrame DEF Saved
<1>8. ASSUME NEW p \in Proposers, Retry(p) PROVE OnBranch'
  BY <1>8, BranchFrame DEF Retry
<1>9. ASSUME NEW p \in Proposers, SkipMissed(p) PROVE OnBranch'
  BY <1>9 DEF SkipMissed, Disturb, Straight, Quiet
<1>10. ASSUME NEW p \in Proposers, NEW h \in {0} \cup Heights, SetTarget(p, h) PROVE OnBranch'
  BY <1>10, BranchFrame DEF SetTarget
<1>11. ASSUME NEW a \in Attesters, NEW m \in msgs, Attest(a, m) PROVE OnBranch'
  <2>1. PICK x : Answered(a, m, x)
    BY <1>11, AttestSteps
  <2>2. \A y \in msgs' : y.kind = "propose" => y \in msgs
    BY <2>1 DEF Answered
  <2>3. CASE UNCHANGED <<chain, canon>>
    BY <2>2, <2>3, BranchFrame
  <2>4. CASE ~UNCHANGED <<chain, canon>>
    <3> PICK blks : blks = Above(m.tail, canon[a])  OBVIOUS
    <3>1. /\ Follows(a, blks) /\ Apply(a, blks) /\ a \in Nodes
          /\ m.from \in Nodes /\ m.tail \in Seq(Blocks) /\ m.kind = "propose"
      BY <1>11, <2>4, AttestSteps DEF Nodes
    <3>2. \A k \in 1..Len(m.tail) : Placed(m.tail[k], chain[m.from])
      BY <3>1 DEF OnBranch
    <3>3. QED  BY <2>2, <3>1, <3>2, AppliedBranch
  <2>5. QED  BY <2>3, <2>4
<1>12. ASSUME NEW n \in Nodes, NEW m \in Nodes, Sync(n, m) PROVE OnBranch'
  <2> PICK blks : blks = Above(chain[m], canon[n])  OBVIOUS
  <2>1. Follows(n, blks) /\ Apply(n, blks) /\ UNCHANGED msgs
    BY <1>12 DEF Sync
  <2>2. chain[m] \in Seq(Blocks)
    BY TipTypes
  <2>3. \A k \in 1..Len(chain[m]) : Placed(chain[m][k], chain[m])
    BY DEF OnBranch, Gapless, Placed
  <2>4. QED  BY <2>1, <2>2, <2>3, AppliedBranch
<1>13. ASSUME NEW n \in Nodes, HttpSeal(n) PROVE OnBranch'
  BY <1>13 DEF HttpSeal, Disturb, Straight, Quiet
<1>14. ASSUME NEW m \in msgs, Lose(m) PROVE OnBranch'
  BY <1>14, BranchFrame DEF Lose
<1>15. CASE UNCHANGED vars
  BY <1>15, BranchFrame DEF vars
<1>16. QED
  BY <1>1, <1>2, <1>3, <1>4, <1>5, <1>6, <1>7, <1>8, <1>9, <1>10, <1>11, <1>12,
     <1>13, <1>14, <1>15 DEF Next

\* The invariant of the chains: what each kind of quiet keeps.
ChainInv == /\ TypeInv
            /\ RoundsInTurn
            /\ Calm => MadeInTurn
            /\ Straight => OnBranch

LEMMA InitChains == Init => ChainInv
<1> SUFFICES ASSUME Init PROVE ChainInv  OBVIOUS
<1>1. TypeInv
  BY InitType
<1>2. RoundsInTurn
  BY DEF Init, RoundsInTurn, NoRound
<1>3. Len(<<>>) = 0
  OBVIOUS
<1>4. \A n \in Nodes : Len(chain[n]) = 0 /\ canon[n] = 0
  BY <1>3 DEF Init
<1>5. MadeInTurn
  BY <1>4 DEF Init, MadeInTurn, AllMade, GatesInTurn
<1>6. OnBranch
  BY <1>4 DEF Init, OnBranch, Gapless, Agree
<1>7. QED  BY <1>1, <1>2, <1>5, <1>6 DEF ChainInv

LEMMA StraightBack == [Next]_vars /\ Straight' => Straight /\ Calm
BY HistGrows DEF Straight, Calm, Quiet

LEMMA NextChains == ChainInv /\ [Next]_vars => ChainInv'
<1> SUFFICES ASSUME ChainInv, [Next]_vars PROVE ChainInv'  OBVIOUS
<1>1. TypeInv /\ TypeInv' /\ RoundsInTurn /\ RoundsInTurn'
  BY NextType, RoundsStayInTurn DEF ChainInv
<1>2. Calm' => MadeInTurn'
  BY <1>1, CalmBack, MadeStays DEF ChainInv
<1>3. Straight' => OnBranch'
  BY <1>1, StraightBack, BranchStays DEF ChainInv
<1>4. QED  BY <1>1, <1>2, <1>3 DEF ChainInv

LEMMA AgreeIsPrefix ==
    ASSUME NEW c \in Seq(Blocks), NEW d \in Seq(Blocks), Agree(c, d), Len(c) <= Len(d)
    PROVE  Prefix(c, d)
<1>1. Len(c) \in Nat /\ Len(d) \in Nat
  BY LenProperties
<1> PICK s : s = SubSeq(d, 1, Len(c))  OBVIOUS
<1>2. \A i \in 1..Len(c) : d[i] \in Blocks
  BY <1>1, ElementOfSeq
<1>3. 1 \in Int /\ Len(c) \in Int
  BY <1>1
<1>4. /\ s \in Seq(Blocks)
      /\ Len(s) = IF 1 <= Len(c) THEN Len(c) - 1 + 1 ELSE 0
      /\ \A i \in 1..(Len(c) - 1 + 1) : s[i] = d[1 + i - 1]
  BY <1>2, <1>3, SubSeqProperties
<1>5. Len(s) = Len(c) /\ \A i \in 1..Len(c) : s[i] = d[i]
  BY <1>1, <1>4
<1>6. \A i \in 1..Len(s) : s[i] = c[i]
  BY <1>1, <1>5 DEF Agree
<1>7. s = c
  BY <1>4, <1>5, <1>6, SeqEqual
<1>8. QED  BY <1>7 DEF Prefix

\* The turns alone keep all chains prefixes of one another (pick_prod_idx and
\* the gate of try_seal_tick): as long as no height is skipped, no chain is
\* restored and nobody seals on an HTTP request, there is one chain, whatever
\* is lost, retried, sealed by hand or applied from a proposal's tail.
THEOREM ChainsAreOne == Spec => []OneChain
<1>1. ChainInv => OneChain
  <2> SUFFICES ASSUME ChainInv, Straight, NEW n \in Nodes, NEW m \in Nodes
               PROVE  Prefix(chain[n], chain[m]) \/ Prefix(chain[m], chain[n])
    BY DEF OneChain, Straight
  <2>1. /\ chain[n] \in Seq(Blocks) /\ chain[m] \in Seq(Blocks)
        /\ Len(chain[n]) \in Nat /\ Len(chain[m]) \in Nat
    BY TipTypes DEF ChainInv
  <2>2. Agree(chain[n], chain[m]) /\ Agree(chain[m], chain[n])
    BY DEF ChainInv, OnBranch
  <2>3. Len(chain[n]) <= Len(chain[m]) \/ Len(chain[m]) <= Len(chain[n])
    BY <2>1
  <2>4. QED  BY <2>1, <2>2, <2>3, AgreeIsPrefix
<1>2. QED  BY InitChains, NextChains, <1>1, PTL DEF Spec

-----------------------------------------------------------------------------
(* What a quorum has signed.                                               *)

\* All signatures are for one height and one parent.
AckFor(acks, h, parent) == \A k \in acks : k.h = h /\ k.parent = parent

Signers(acks) == {k.by : k \in acks}

\* SignedByQuorum, of one block.
Signed(b) == b.kind = "gated" =>
    Cardinality({a.by : a \in {x \in b.acks : x.h = b.h /\ x.parent = b.parent}}) >= Quorum

AllSigned(blks) == \A k \in 1..Len(blks) : Signed(blks[k])

\* A round holds signatures of its binding, and none before it has one.
RoundsBound == \A p \in Proposers : \A h \in Heights :
    /\ round[p][h].open \/ round[p][h].acks = {}
    /\ AckFor(round[p][h].acks, h, round[p][h].parent)

\* An open round is of the next height at most, and then on the tip.
RoundsOnTip == \A p \in Proposers : \A h \in Heights : round[p][h].open =>
    /\ h <= NextH(p)
    /\ h = NextH(p) => round[p][h].parent = TipHash(p)

\* A passed gate holds a quorum for its height on the tip.
GatesSigned == \A p \in Proposers : gate[p] # NoGate =>
    /\ AckFor(gate[p].acks, gate[p].h, TipHash(p))
    /\ Cardinality(Signers(gate[p].acks)) >= Quorum

Unattended == Quiet({"rollback", "manual", "http"})

NoTarget == \A p \in Proposers : target[p] = 0

SignedInv ==
    /\ NoTarget /\ RoundsBound /\ RoundsOnTip /\ GatesSigned
    /\ \A n \in Nodes : AllSigned(chain[n])
    /\ \A m \in msgs : m.kind = "propose" => AllSigned(m.tail)

LEMMA SuffixSigned ==
    ASSUME NEW src, AllSigned(src), NEW blks, NEW j \in Nat, Cut(blks, src, j)
    PROVE  AllSigned(blks)
BY DEF AllSigned, Cut

LEMMA ConcatSigned ==
    ASSUME NEW c \in Seq(Blocks), NEW blks \in Seq(Blocks), AllSigned(c), AllSigned(blks)
    PROVE  AllSigned(c \o blks)
<1> PICK s : s = c \o blks  OBVIOUS
<1> PICK l, n : l = Len(c) /\ n = Len(blks)  OBVIOUS
<1>1. l \in Nat /\ n \in Nat
  BY LenProperties
<1>2. /\ Len(s) = l + n
      /\ \A k \in 1..l : s[k] = c[k]
      /\ \A k \in 1..n : s[l + k] = blks[k]
  BY Extended
<1>3. ASSUME NEW k \in 1..Len(s) PROVE Signed(s[k])
  <2>1. k \in 1..l \/ (k - l \in 1..n /\ k = l + (k - l))
    BY <1>1, <1>2, SplitIndex
  <2>2. CASE k \in 1..l
    BY <1>2, <2>2 DEF AllSigned
  <2>3. CASE k - l \in 1..n /\ k = l + (k - l)
    <3>1. s[k] = blks[k - l]
      BY <1>2, <2>3
    <3>2. QED  BY <2>3, <3>1 DEF AllSigned
  <2>4. QED  BY <2>1, <2>2, <2>3
<1>4. QED  BY <1>3 DEF AllSigned

\* Rounds stay on the tip when a proposer's chain stays or its height rises.
LEMMA TipMoves ==
    ASSUME TypeInv, RoundsOnTip, UNCHANGED round,
           \A p \in Proposers : \/ canon'[p] = canon[p] /\ chain'[p] = chain[p]
                                \/ canon'[p] \in Nat /\ canon[p] < canon'[p]
    PROVE  RoundsOnTip'
<1> SUFFICES ASSUME NEW p \in Proposers, NEW h \in Heights, round'[p][h].open
             PROVE  /\ h <= NextH(p)'
                    /\ h = NextH(p)' => round'[p][h].parent = TipHash(p)'
  BY DEF RoundsOnTip
<1>1. h \in Nat /\ canon[p] \in Nat
  BY HeightsAreNat, TipTypes DEF Nodes
<1>2. h <= canon[p] + 1 /\ (h = canon[p] + 1 => round[p][h].parent = TipHash(p))
  BY DEF RoundsOnTip, NextH
<1>3. CASE canon'[p] = canon[p] /\ chain'[p] = chain[p]
  BY <1>2, <1>3 DEF NextH, TipHash
<1>4. CASE canon'[p] \in Nat /\ canon[p] < canon'[p]
  <2>1. h <= canon'[p] + 1 /\ h # canon'[p] + 1
    BY <1>1, <1>2, <1>4
  <2>2. QED  BY <2>1 DEF NextH
<1>5. QED  BY <1>3, <1>4

LEMMA GatesStaySigned ==
    ASSUME GatesSigned,
           \A p \in Proposers : gate'[p] # NoGate => gate'[p] = gate[p] /\ chain'[p] = chain[p]
    PROVE  GatesSigned'
BY DEF GatesSigned, TipHash

\* Steps that touch no chain, round or gate and propose nothing.
LEMMA SignedFrame ==
    ASSUME SignedInv, UNCHANGED <<chain, canon, gate, round, target>>,
           \A m \in msgs' : m.kind = "propose" => m \in msgs
    PROVE  SignedInv'
BY DEF SignedInv, NoTarget, RoundsBound, RoundsOnTip, GatesSigned, NextH, TipHash

\* The round of the next height is recorded: its signatures are of the tip.
LEMMA RecordedSigned ==
    ASSUME TypeInv, SignedInv, NEW p \in Proposers, NEW h \in PropHeight(p), NEW x \in BOOLEAN,
           round' = Recorded(p, h, x), UNCHANGED <<chain, canon>>
    PROVE  RoundsBound' /\ RoundsOnTip'
<1>1. /\ round \in [Proposers -> [Heights -> Rounds]]
      /\ h \in Heights /\ TipHash(p) \in Nat /\ NextH(p) \in Nat
  BY TypeParts, ProposedHeight, TipTypes DEF RestOK, Nodes
<1>2. h = NextH(p)
  <2>1. h = Larger(0, NextH(p))
    BY DEF PropHeight, SignedInv, NoTarget
  <2>2. QED  BY <1>1, <2>1 DEF Larger
<1>3. \A q \in Proposers : \A g \in Heights :
         IF q = p /\ g = h
         THEN /\ round'[q][g].open /\ round'[q][g].parent = TipHash(p)
              /\ round'[q][g].acks = round[p][h].acks
         ELSE round'[q][g] = round[q][g]
  BY <1>1, RecordedRound
<1>4. AckFor(round[p][h].acks, h, TipHash(p))
  <2>1. CASE round[p][h].open
    BY <1>1, <1>2, <2>1 DEF SignedInv, RoundsBound, RoundsOnTip
  <2>2. CASE round[p][h].acks = {}
    BY <2>2 DEF AckFor
  <2>3. QED  BY <1>1, <2>1, <2>2 DEF SignedInv, RoundsBound
<1>5. RoundsBound'
  <2>1. ASSUME NEW q \in Proposers, NEW g \in Heights
        PROVE  /\ round'[q][g].open \/ round'[q][g].acks = {}
               /\ AckFor(round'[q][g].acks, g, round'[q][g].parent)
    <3>1. CASE q = p /\ g = h
      BY <1>3, <1>4, <3>1
    <3>2. CASE ~(q = p /\ g = h)
      BY <1>3, <3>2 DEF SignedInv, RoundsBound
    <3>3. QED  BY <3>1, <3>2
  <2>2. QED  BY <2>1 DEF RoundsBound
<1>6. RoundsOnTip'
  <2>1. \A q \in Proposers : NextH(q)' = NextH(q) /\ TipHash(q)' = TipHash(q)
    BY DEF NextH, TipHash
  <2>2. ASSUME NEW q \in Proposers, NEW g \in Heights, round'[q][g].open
        PROVE  /\ g <= NextH(q)
               /\ g = NextH(q) => round'[q][g].parent = TipHash(q)
    <3>1. CASE q = p /\ g = h
      BY <1>1, <1>2, <1>3, <3>1
    <3>2. CASE ~(q = p /\ g = h)
      BY <1>3, <2>2, <3>2 DEF SignedInv, RoundsOnTip
    <3>3. QED  BY <3>1, <3>2
  <2>3. QED  BY <2>1, <2>2 DEF RoundsOnTip
<1>7. QED  BY <1>5, <1>6

LEMMA PropTickSigned ==
    ASSUME TypeInv, SignedInv, NEW p \in Proposers, PropTick(p)
    PROVE  SignedInv'
<1>1. UNCHANGED <<chain, canon, msgs, gate, target>>
  BY DEF PropTick
<1>2. RoundsBound' /\ RoundsOnTip'
  BY <1>1, RecordedSigned DEF PropTick
<1>3. GatesSigned'
  BY <1>1, GatesStaySigned DEF SignedInv
<1>4. QED  BY <1>1, <1>2, <1>3 DEF SignedInv, NoTarget

LEMMA SendPropSigned ==
    ASSUME TypeInv, SignedInv, NEW p \in Proposers, NEW a \in Attesters, SendProp(p, a)
    PROVE  SignedInv'
<1>1. PICK h \in PropHeight(p), m \in Messages, depth \in 1..TailCap : Proposed(p, h, m, depth)
  BY SentProposal
<1>2. chain[p] \in Seq(Blocks) /\ p \in Nodes
  BY TipTypes DEF Nodes
<1> PICK t : t = TailBlocks(p, depth)  OBVIOUS
<1>3. PICK j \in Nat : Cut(t, chain[p], j)
  BY <1>2, TailIsSuffix
<1>4. AllSigned(t)
  BY <1>2, <1>3, SuffixSigned DEF SignedInv
<1>5. msgs' = msgs \cup {m} /\ m.tail = t /\ round' = Recorded(p, h, TRUE)
  BY <1>1 DEF Proposed
<1>6. UNCHANGED <<chain, canon, gate, target>>
  BY DEF SendProp
<1>7. RoundsBound' /\ RoundsOnTip'
  BY <1>5, <1>6, RecordedSigned
<1>8. GatesSigned'
  BY <1>6, GatesStaySigned DEF SignedInv
<1>9. QED  BY <1>4, <1>5, <1>6, <1>7, <1>8 DEF SignedInv, NoTarget

LEMMA CountAttestSigned ==
    ASSUME TypeInv, SignedInv, NEW p \in Proposers, NEW m \in msgs, CountAttest(p, m)
    PROVE  SignedInv'
<1>1. /\ UNCHANGED <<chain, canon, gate, target>>
      /\ \A x \in msgs' : x \in msgs
  BY DEF CountAttest
<1>2. CountedAcks(p, m, round')
  BY CountedRound
<1>3. \A q \in Proposers : \A g \in Heights :
         /\ round'[q][g].open = round[q][g].open
         /\ round'[q][g].parent = round[q][g].parent
  BY <1>2 DEF CountedAcks
<1>4. RoundsBound'
  <2> SUFFICES ASSUME NEW q \in Proposers, NEW g \in Heights
               PROVE  /\ round'[q][g].open \/ round'[q][g].acks = {}
                      /\ AckFor(round'[q][g].acks, g, round'[q][g].parent)
    BY DEF RoundsBound
  <2>1. CASE q = p /\ g = m.h /\ Binds(p, m)
    <3>1. round[q][g].open /\ round[q][g].parent = m.parent
      BY <2>1 DEF Binds
    <3>2. \A k \in round'[q][g].acks :
             k \in round[q][g].acks \/ (k.h = m.h /\ k.parent = m.parent)
      BY <1>2, <2>1 DEF CountedAcks
    <3>3. AckFor(round[q][g].acks, g, round[q][g].parent)
      BY DEF SignedInv, RoundsBound
    <3>4. QED  BY <1>3, <2>1, <3>1, <3>2, <3>3 DEF AckFor
  <2>2. CASE ~(q = p /\ g = m.h /\ Binds(p, m))
    <3>1. round'[q][g] = round[q][g]
      BY <1>2, <2>2 DEF CountedAcks
    <3>2. QED  BY <3>1 DEF SignedInv, RoundsBound
  <2>3. QED  BY <2>1, <2>2
<1>5. RoundsOnTip'
  BY <1>1, <1>3 DEF SignedInv, RoundsOnTip, NextH, TipHash
<1>6. GatesSigned'
  BY <1>1, GatesStaySigned DEF SignedInv
<1>7. QED  BY <1>1, <1>4, <1>5, <1>6 DEF SignedInv, NoTarget

LEMMA PassGateSigned ==
    ASSUME TypeInv, SignedInv, NEW p \in Proposers, PassGate(p)
    PROVE  SignedInv'
<1> PICK r : r = round[p][NextH(p)]  OBVIOUS
<1> PICK x : x = [h |-> NextH(p), acks |-> r.acks]  OBVIOUS
<1>1. /\ gate' = [gate EXCEPT ![p] = x] /\ x.h = NextH(p) /\ x.acks = r.acks
      /\ UNCHANGED <<chain, canon, msgs, round, target>>
      /\ NextH(p) \in Heights /\ QuorumMet(r)
  BY DEF PassGate
<1>2. r.open /\ r.parent = TipHash(p) /\ AckFor(r.acks, NextH(p), r.parent)
  BY <1>1 DEF SignedInv, RoundsBound, RoundsOnTip, QuorumMet
<1>3. Cardinality(Signers(r.acks)) >= Quorum
  BY <1>1 DEF QuorumMet, Signers
<1>4. \A q \in Proposers : gate'[q] = IF q = p THEN x ELSE gate[q]
  BY <1>1, TypeParts DEF RestOK
<1>5. \A q \in Proposers : TipHash(q)' = TipHash(q)
  BY <1>1 DEF TipHash
<1>6. GatesSigned'
  BY <1>1, <1>2, <1>3, <1>4, <1>5 DEF SignedInv, GatesSigned
<1>7. RoundsBound' /\ RoundsOnTip'
  BY <1>1 DEF SignedInv, RoundsBound, RoundsOnTip, NextH, TipHash
<1>8. QED  BY <1>1, <1>6, <1>7 DEF SignedInv, NoTarget

\* The signatures of a passed gate are those of the block it seals.
LEMMA GatedIsSigned ==
    ASSUME NEW acks, NEW b, b.acks = acks, AckFor(acks, b.h, b.parent),
           Cardinality(Signers(acks)) >= Quorum
    PROVE  Signed(b)
<1>1. {x \in b.acks : x.h = b.h /\ x.parent = b.parent} = acks
  BY DEF AckFor
<1>2. QED  BY <1>1 DEF Signed, Signers

LEMMA SealSigned ==
    ASSUME TypeInv, MadeInTurn, SignedInv, NEW p \in Proposers, Seal(p)
    PROVE  SignedInv'
<1>1. PICK b : AddsBlock(p, gate[p].acks, "gated", b)
  BY GatedBlock
<1> PICK c : c = chain[p]  OBVIOUS
<1> PICK l : l = Len(c)  OBVIOUS
<1>2. b \in Blocks /\ b.h = NextH(p) /\ b.parent = TipHash(p) /\ b.acks = gate[p].acks
  BY <1>1 DEF AddsBlock
<1>3. chain'[p] = Append(c, b) /\ canon'[p] = NextH(p)
  BY <1>1, GatedBlock
<1>4. /\ \A n \in Nodes \ {p} : chain'[n] = chain[n] /\ canon'[n] = canon[n]
      /\ \A q \in Proposers \ {p} : gate'[q] = gate[q]
      /\ gate'[p] = NoGate
  BY GatedBlock
<1>5. /\ AckFor(gate[p].acks, gate[p].h, TipHash(p)) /\ gate[p].h = NextH(p)
      /\ Cardinality(Signers(gate[p].acks)) >= Quorum
  BY GatedBlock DEF SignedInv, GatesSigned, MadeInTurn, GatesInTurn
<1>6. Signed(b)
  BY <1>2, <1>5, GatedIsSigned
<1>7. p \in Nodes /\ c \in Seq(Blocks) /\ l \in Nat /\ canon[p] \in Nat
  BY TipTypes DEF Nodes
<1>8. AllSigned(chain'[p])
  <2>1. /\ Len(Append(c, b)) = l + 1
        /\ \A k \in 1..l : Append(c, b)[k] = c[k]
        /\ Append(c, b)[l + 1] = b
    BY <1>2, <1>7, AppendProperties
  <2>2. ASSUME NEW k \in 1..(l + 1) PROVE k \in 1..l \/ k = l + 1
    BY <1>7
  <2>3. \A k \in 1..(l + 1) : Signed(Append(c, b)[k])
    BY <1>6, <1>7, <2>1, <2>2 DEF SignedInv, AllSigned
  <2>4. QED  BY <1>3, <2>1, <2>3 DEF AllSigned
<1>9. \A n \in Nodes : AllSigned(chain'[n])
  BY <1>4, <1>8 DEF SignedInv
<1>10. canon'[p] \in Nat /\ canon[p] < canon'[p]
  BY <1>3, <1>7 DEF NextH
<1>11. UNCHANGED <<round, msgs, target>>
  BY DEF Seal
<1>12. \A q \in Proposers : q \in Nodes
  BY DEF Nodes
<1>13. RoundsOnTip'
  BY <1>4, <1>10, <1>11, <1>12, TipMoves DEF SignedInv
<1>14. GatesSigned'
  BY <1>4, <1>12, GatesStaySigned DEF SignedInv
<1>15. RoundsBound'
  BY <1>11 DEF SignedInv, RoundsBound
<1>16. QED  BY <1>9, <1>11, <1>13, <1>14, <1>15 DEF SignedInv, NoTarget

LEMMA RetrySigned ==
    ASSUME TypeInv, SignedInv, NEW p \in Proposers, Retry(p)
    PROVE  SignedInv'
<1>1. RetriedRound(round')
  BY RetryRound
<1>2. UNCHANGED <<chain, canon, msgs, gate, target>>
  BY DEF Retry
<1>3. RoundsBound'
  BY <1>1 DEF RetriedRound, SignedInv, RoundsBound
<1>4. RoundsOnTip'
  BY <1>1, <1>2 DEF RetriedRound, SignedInv, RoundsOnTip, NextH, TipHash
<1>5. GatesSigned'
  BY <1>2, GatesStaySigned DEF SignedInv
<1>6. QED  BY <1>2, <1>3, <1>4, <1>5 DEF SignedInv, NoTarget

LEMMA SkipMissedSigned ==
    ASSUME TypeInv, SignedInv, NEW p \in Proposers, SkipMissed(p)
    PROVE  SignedInv'
<1>1. canon \in [Nodes -> {0} \cup Heights] /\ canon[p] \in Nat /\ p \in Nodes
  BY TipTypes DEF TypeInv, TypeOK, Nodes
<1>2. /\ \A n \in Nodes : canon'[n] = IF n = p THEN canon[n] + 1 ELSE canon[n]
      /\ UNCHANGED <<chain, msgs, gate, round, target>>
  BY <1>1 DEF SkipMissed, NextH
<1>3. canon'[p] \in Nat /\ canon[p] < canon'[p]
  BY <1>1, <1>2
<1>4. \A q \in Proposers : q \in Nodes
  BY DEF Nodes
<1>5. RoundsOnTip'
  BY <1>2, <1>3, <1>4, TipMoves DEF SignedInv
<1>6. GatesSigned'
  BY <1>2, GatesStaySigned DEF SignedInv
<1>7. RoundsBound'
  BY <1>2 DEF SignedInv, RoundsBound
<1>8. QED  BY <1>2, <1>5, <1>6, <1>7 DEF SignedInv, NoTarget

\* A node that is not about to seal applies blocks a quorum has signed.
LEMMA AppliedSigned ==
    ASSUME TypeInv, MadeInTurn, SignedInv, NEW n \in Nodes, NEW src \in Seq(Blocks),
           AllMade(src, canon), AllSigned(src),
           NEW blks, blks = Above(src, canon[n]), Follows(n, blks), Apply(n, blks),
           UNCHANGED <<gate, round, target>>,
           \A m \in msgs' : m.kind = "propose" => m \in msgs
    PROVE  SignedInv'
<1>1. /\ n \in Proposers => gate[n] = NoGate
      /\ \A x \in Nodes \ {n} : chain'[x] = chain[x] /\ canon'[x] = canon[x]
  BY AppliedMade
<1>2. /\ chain \in [Nodes -> Seq(Blocks)] /\ canon \in [Nodes -> {0} \cup Heights]
      /\ canon[n] \in Nat
  BY TypeParts, TipTypes DEF ChainsOK
<1>3. blks \in Seq(Blocks)
  BY <1>2, AboveIsSuffix
<1>4. PICK j \in Nat : Cut(blks, src, j)
  BY <1>2, AboveIsSuffix
<1>5. AllSigned(blks)
  BY <1>4, SuffixSigned
<1>6. chain'[n] = chain[n] \o blks /\ canon'[n] = blks[Len(blks)].h
  BY <1>2 DEF Apply
<1>7. AllSigned(chain'[n])
  BY <1>2, <1>3, <1>5, <1>6, ConcatSigned DEF SignedInv
<1>8. \A x \in Nodes : AllSigned(chain'[x])
  BY <1>1, <1>7 DEF SignedInv
<1>9. canon'[n] \in Nat /\ canon[n] < canon'[n]
  <2>1. Len(blks) \in Nat \ {0}
    BY <1>3, EmptySeq DEF Follows
  <2>2. Len(blks) \in 1..Len(blks)
    BY <2>1
  <2>3. canon'[n] = canon[n] + Len(blks)
    BY <1>6, <2>2 DEF Follows
  <2>4. QED  BY <1>2, <2>1, <2>3
<1>10. \A q \in Proposers : q \in Nodes
  BY DEF Nodes
<1>11. RoundsOnTip'
  BY <1>1, <1>9, <1>10, TipMoves DEF SignedInv
<1>12. GatesSigned'
  BY <1>1, <1>10, GatesStaySigned DEF SignedInv
<1>13. RoundsBound'
  BY DEF SignedInv, RoundsBound
<1>14. QED  BY <1>8, <1>11, <1>12, <1>13 DEF SignedInv, NoTarget

LEMMA SyncSigned ==
    ASSUME TypeInv, MadeInTurn, SignedInv, NEW n \in Nodes, NEW m \in Nodes, Sync(n, m)
    PROVE  SignedInv'
<1> PICK blks : blks = Above(chain[m], canon[n])  OBVIOUS
<1>1. Follows(n, blks) /\ Apply(n, blks) /\ UNCHANGED <<msgs, gate, round, target>>
  BY DEF Sync
<1>2. chain[m] \in Seq(Blocks) /\ AllMade(chain[m], canon) /\ AllSigned(chain[m])
  BY TipTypes DEF MadeInTurn, SignedInv
<1>3. QED  BY <1>1, <1>2, AppliedSigned

LEMMA AttestSigned ==
    ASSUME TypeInv, MadeInTurn, SignedInv, NEW a \in Attesters, NEW m \in msgs, Attest(a, m)
    PROVE  SignedInv'
<1>1. PICK x : Answered(a, m, x)
  BY AttestSteps
<1>2. \A y \in msgs' : y.kind = "propose" => y \in msgs
  BY <1>1 DEF Answered
<1>3. UNCHANGED <<gate, round, target>>
  BY DEF Attest
<1>4. /\ m.tail \in Seq(Blocks) /\ AllMade(m.tail, canon) /\ AllSigned(m.tail)
      /\ a \in Nodes
  BY AttestSteps DEF MadeInTurn, SignedInv, Nodes
<1>5. CASE UNCHANGED <<chain, canon>>
  BY <1>2, <1>3, <1>5, SignedFrame
<1>6. CASE ~UNCHANGED <<chain, canon>>
  <2> PICK blks : blks = Above(m.tail, canon[a])  OBVIOUS
  <2>1. Follows(a, blks) /\ Apply(a, blks)
    BY <1>6, AttestSteps
  <2>2. QED  BY <1>2, <1>3, <1>4, <2>1, AppliedSigned
<1>7. QED  BY <1>5, <1>6

LEMMA SignedStays ==
    ASSUME TypeInv, MadeInTurn, SignedInv, [Next]_vars, Unattended'
    PROVE  SignedInv'
<1>1. ASSUME NEW p \in Proposers, PropTick(p) PROVE SignedInv'
  BY <1>1, PropTickSigned
<1>2. ASSUME NEW p \in Proposers, NEW a \in Attesters, SendProp(p, a) PROVE SignedInv'
  BY <1>2, SendPropSigned
<1>3. ASSUME NEW p \in Proposers, NEW m \in msgs, CountAttest(p, m) PROVE SignedInv'
  BY <1>3, CountAttestSigned
<1>4. ASSUME NEW p \in Proposers, PassGate(p) PROVE SignedInv'
  BY <1>4, PassGateSigned
<1>5. ASSUME NEW p \in Proposers, Seal(p) PROVE SignedInv'
  BY <1>5, SealSigned
<1>6. ASSUME NEW p \in Proposers, Rollback(p) PROVE SignedInv'
  BY <1>6 DEF Rollback, Disturb, Unattended, Quiet
<1>7. ASSUME NEW p \in Proposers, Saved(p) PROVE SignedInv'
  BY <1>7, SignedFrame DEF Saved
<1>8. ASSUME NEW p \in Proposers, Retry(p) PROVE SignedInv'
  BY <1>8, RetrySigned
<1>9. ASSUME NEW p \in Proposers, SkipMissed(p) PROVE SignedInv'
  BY <1>9, SkipMissedSigned
<1>10. ASSUME NEW p \in Proposers, NEW h \in {0} \cup Heights, SetTarget(p, h) PROVE SignedInv'
  BY <1>10 DEF SetTarget, Disturb, Unattended, Quiet
<1>11. ASSUME NEW a \in Attesters, NEW m \in msgs, Attest(a, m) PROVE SignedInv'
  BY <1>11, AttestSigned
<1>12. ASSUME NEW n \in Nodes, NEW m \in Nodes, Sync(n, m) PROVE SignedInv'
  BY <1>12, SyncSigned
<1>13. ASSUME NEW n \in Nodes, HttpSeal(n) PROVE SignedInv'
  BY <1>13 DEF HttpSeal, Disturb, Unattended, Quiet
<1>14. ASSUME NEW m \in msgs, Lose(m) PROVE SignedInv'
  BY <1>14, SignedFrame DEF Lose
<1>15. CASE UNCHANGED vars
  BY <1>15, SignedFrame DEF vars
<1>16. QED
  BY <1>1, <1>2, <1>3, <1>4, <1>5, <1>6, <1>7, <1>8, <1>9, <1>10, <1>11, <1>12,
     <1>13, <1>14, <1>15 DEF Next

LEMMA UnattendedBack == [Next]_vars /\ Unattended' => Unattended /\ Calm
BY HistGrows DEF Unattended, Calm, Quiet

LEMMA InitSigned == Init => SignedInv
<1> SUFFICES ASSUME Init PROVE SignedInv  OBVIOUS
<1>1. Len(<<>>) = 0
  OBVIOUS
<1>2. \A n \in Nodes : AllSigned(chain[n])
  BY <1>1 DEF Init, AllSigned
<1>3. NoTarget /\ RoundsBound /\ RoundsOnTip /\ GatesSigned
  BY DEF Init, NoTarget, RoundsBound, RoundsOnTip, GatesSigned, NoRound, AckFor
<1>4. QED  BY <1>2, <1>3 DEF Init, SignedInv

\* run_cluster_gate passes without holding a lock until the seal, and counts
\* signatures without comparing hashes: a quorum has still signed every block
\* sealed behind a gate, at its height and on its parent, as long as the loop
\* alone seals and no chain is restored.
THEOREM BlocksAreSigned == Spec => []SignedByQuorum
<1> DEFINE SInv == ChainInv /\ (Unattended => SignedInv)
<1>1. Init => SInv
  BY InitChains, InitSigned
<1>2. SInv /\ [Next]_vars => SInv'
  <2> SUFFICES ASSUME SInv, [Next]_vars PROVE SInv'  OBVIOUS
  <2>1. ChainInv'
    BY NextChains
  <2>2. ASSUME Unattended' PROVE SignedInv'
    BY <2>2, UnattendedBack, SignedStays DEF ChainInv
  <2>3. QED  BY <2>1, <2>2
<1>3. SInv => SignedByQuorum
  <2> SUFFICES ASSUME SInv, Unattended, NEW n \in Nodes, NEW k \in 1..Len(chain[n])
               PROVE  Signed(chain[n][k])
    BY DEF SignedByQuorum, Unattended, Signed
  <2>1. QED  BY DEF SignedInv, AllSigned
<1>4. QED  BY <1>1, <1>2, <1>3, PTL DEF Spec
=============================================================================
