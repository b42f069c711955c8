--------------------------- MODULE PipelineProofs ---------------------------
(***************************************************************************)
(* Theorems about Pipeline, for any workers, capacities and save interval. *)
(*                                                                         *)
(* TrustedUntilRollback is not inductive.  As long as no block has been    *)
(* discarded a version is the height it belongs to, so versions can be     *)
(* compared: what is published is at least as new as the published height, *)
(* a worker that reads the height first sees accounts at least that new,   *)
(* and no version is newer than the tip.  A check that carries the tip's   *)
(* height is then caught between the two.                                  *)
(***************************************************************************)
EXTENDS Pipeline, SequenceTheorems, TLAPS

\* Every version ever made is in the chain, at its own height.
VersionsAreHeights ==
    /\ born = Len(chain)
    /\ \A k \in 1..Len(chain) : chain[k] = k - 1

\* What the workers can read is not older than the height they can read.
PublishedIsNewer ==
    /\ tipH <= snap /\ snap <= TipHeight
    /\ tipH <= hot  /\ hot <= TipHeight

\* The seal loop stores the height when both are the tip's.
HeightComesLast ==
    /\ loop \in {"stored", "refreshed"} => snap = TipHeight
    /\ loop = "refreshed" => hot = TipHeight

WorkersReadForward ==
    \A w \in Workers :
        /\ worker[w].pc # "idle" => worker[w].at <= tipH
        /\ worker[w].pc = "checked" => /\ worker[w].at <= worker[w].seen
                                       /\ worker[w].seen <= TipHeight

QueueReadsForward ==
    \A k \in 1..Len(queue) : /\ queue[k].at <= queue[k].seen
                             /\ queue[k].seen <= TipHeight

Forward == /\ VersionsAreHeights
           /\ PublishedIsNewer
           /\ HeightComesLast
           /\ WorkersReadForward
           /\ QueueReadsForward

Inv == TypeOK /\ (~rolled => Forward)

-----------------------------------------------------------------------------

(* What n committed blocks do to the chain.                                *)
LEMMA CommitEffect ==
  ASSUME TypeOK, NEW n \in Nat, Commit(n)
  PROVE  /\ chain' \in Seq(Nat) /\ chain' # <<>>
         /\ born' \in Nat /\ born' = born + n
         /\ Len(chain') = Len(chain) + n
         /\ \A k \in 1..Len(chain') :
               chain'[k] = IF k <= Len(chain) THEN chain[k]
                           ELSE born + (k - Len(chain)) - 1
<1> DEFINE new == [k \in 1..n |-> born + k - 1]
<1>1. chain \in Seq(Nat) /\ chain # <<>> /\ born \in Nat
  BY DEF TypeOK
<1>2. new \in Seq(Nat) /\ Len(new) = n
  <2>1. \A k \in 1..n : born + k - 1 \in Nat
    BY <1>1
  <2> QED
    BY <2>1
<1>3. \A k \in 1..n : new[k] = born + k - 1
  OBVIOUS
<1>4. chain' = chain \o new /\ born' = born + n
  BY DEF Commit
<1> HIDE DEF new
<1>5. Len(chain) \in Nat /\ Len(chain) > 0
  BY <1>1, EmptySeq, LenProperties
<1>6. /\ chain' \in Seq(Nat)
      /\ Len(chain') = Len(chain) + n
      /\ \A k \in 1..(Len(chain) + n) :
            chain'[k] = IF k <= Len(chain) THEN chain[k] ELSE new[k - Len(chain)]
  BY <1>1, <1>2, <1>4, ConcatProperties
<1>7. chain' # <<>>
  BY <1>5, <1>6
<1>8. ASSUME NEW k \in 1..Len(chain')
      PROVE  chain'[k] = IF k <= Len(chain) THEN chain[k]
                         ELSE born + (k - Len(chain)) - 1
  <2>1. chain'[k] = IF k <= Len(chain) THEN chain[k] ELSE new[k - Len(chain)]
    BY <1>6
  <2>2. CASE k <= Len(chain)
    BY <2>1, <2>2
  <2>3. CASE k > Len(chain)
    <3>1. k - Len(chain) \in 1..n
      BY <1>5, <1>6, <2>3
    <3>2. new[k - Len(chain)] = born + (k - Len(chain)) - 1
      BY <1>3, <3>1
    <3> QED
      BY <1>5, <2>1, <2>3, <3>2
  <2> QED
    BY <1>5, <2>2, <2>3
<1> QED
  BY <1>1, <1>4, <1>6, <1>7, <1>8

(* What a block leaves in the queue was there before.                      *)
LEMMA UndrainedEffect ==
  ASSUME TypeOK
  PROVE  /\ Undrained \in Seq(Checks)
         /\ Len(Undrained) <= QueueCap
         /\ \A k \in 1..Len(Undrained) : \E j \in 1..Len(queue) : Undrained[k] = queue[j]
<1>1. queue \in Seq(Checks) /\ Len(queue) \in Nat /\ Len(queue) <= QueueCap
  BY LenProperties DEF TypeOK
<1>2. BlockCap \in Nat /\ QueueCap \in Nat
  BY ParametersAssumption
<1>3. \A i \in (BlockCap + 1)..Len(queue) : queue[i] \in Checks
  BY <1>1, <1>2, ElementOfSeq
<1>4. BlockCap + 1 \in Int /\ Len(queue) \in Int
  BY <1>1, <1>2
<1>5. /\ Undrained \in Seq(Checks)
      /\ Len(Undrained) = IF BlockCap + 1 <= Len(queue)
                          THEN Len(queue) - (BlockCap + 1) + 1 ELSE 0
      /\ \A k \in 1..(Len(queue) - (BlockCap + 1) + 1) :
            Undrained[k] = queue[(BlockCap + 1) + k - 1]
  BY <1>3, <1>4, SubSeqProperties DEF Undrained
<1>6. ASSUME NEW k \in 1..Len(Undrained)
      PROVE  \E j \in 1..Len(queue) : Undrained[k] = queue[j]
  <2>1. k \in 1..(Len(queue) - (BlockCap + 1) + 1)
    BY <1>1, <1>2, <1>5
  <2>2. (BlockCap + 1) + k - 1 \in 1..Len(queue)
    BY <1>1, <1>2, <2>1
  <2> QED
    BY <1>5, <2>1, <2>2
<1> QED
  BY <1>1, <1>2, <1>5, <1>6

(* What a worker's check adds to the queue.                                *)
LEMMA EnqueueEffect ==
  ASSUME TypeOK, NEW w \in Workers, Enqueue(w)
  PROVE  /\ queue' \in Seq(Checks)
         /\ Len(queue') <= QueueCap
         /\ \A k \in 1..Len(queue') :
               \/ \E j \in 1..Len(queue) : queue'[k] = queue[j]
               \/ queue'[k] = [at |-> worker[w].at, seen |-> worker[w].seen]
<1> DEFINE e == [at |-> worker[w].at, seen |-> worker[w].seen]
<1>1. queue \in Seq(Checks) /\ Len(queue) \in Nat /\ Len(queue) <= QueueCap
  BY LenProperties DEF TypeOK
<1>2. e \in Checks
  BY DEF TypeOK, Checks
<1>3. QueueCap \in Nat
  BY ParametersAssumption
<1>4. CASE Len(queue) < QueueCap
  <2>1. queue' = Append(queue, e)
    BY <1>4 DEF Enqueue
  <2> HIDE DEF e
  <2>2. /\ queue' \in Seq(Checks)
        /\ Len(queue') = Len(queue) + 1
        /\ \A k \in 1..Len(queue) : queue'[k] = queue[k]
        /\ queue'[Len(queue) + 1] = e
    BY <1>1, <1>2, <2>1, AppendProperties
  <2>3. ASSUME NEW k \in 1..Len(queue')
        PROVE (\E j \in 1..Len(queue) : queue'[k] = queue[j]) \/ queue'[k] = e
    <3>1. k \in 1..Len(queue) \/ k = Len(queue) + 1
      BY <1>1, <2>2
    <3> QED
      BY <2>2, <3>1
  <2> QED
    BY <1>1, <1>3, <1>4, <2>2, <2>3 DEF e
<1>5. CASE ~(Len(queue) < QueueCap)
  BY <1>1, <1>5 DEF Enqueue
<1> QED
  BY <1>4, <1>5

(* While every version is its height, the tip's is the tip's height.       *)
LEMMA TipFacts ==
  ASSUME TypeOK
  PROVE  /\ TipHeight \in Nat /\ Len(chain) = TipHeight + 1
         /\ TipVersion \in Nat
         /\ VersionsAreHeights => TipVersion = TipHeight
<1>1. chain \in Seq(Nat) /\ Len(chain) \in Nat /\ Len(chain) > 0
  BY EmptySeq, LenProperties DEF TypeOK
<1>2. Len(chain) \in 1..Len(chain)
  BY <1>1
<1>3. TipVersion \in Nat
  BY <1>1, <1>2, ElementOfSeq DEF TipVersion
<1> QED
  BY <1>1, <1>2, <1>3 DEF TipHeight, TipVersion, VersionsAreHeights

(* Blocks committed on top leave everything read or published behind them. *)
LEMMA CommitForward ==
  ASSUME TypeOK, Forward, NEW n \in Nat, Commit(n),
         UNCHANGED <<published, worker>>,
         loop' \notin {"stored", "refreshed"},
         \A k \in 1..Len(queue') : \E j \in 1..Len(queue) : queue'[k] = queue[j]
  PROVE  Forward'
<1>1. /\ Len(chain') = Len(chain) + n
      /\ born' = born + n
      /\ \A k \in 1..Len(chain') :
            chain'[k] = IF k <= Len(chain) THEN chain[k]
                        ELSE born + (k - Len(chain)) - 1
  BY CommitEffect
<1>2. Len(chain) \in Nat /\ TipHeight \in Nat /\ TipHeight' = TipHeight + n
  BY <1>1, TipFacts DEF TipHeight
<1>3. VersionsAreHeights'
  <2>1. born' = Len(chain')
    BY <1>1 DEF Forward, VersionsAreHeights
  <2>2. ASSUME NEW k \in 1..Len(chain')
        PROVE  chain'[k] = k - 1
    <3>1. CASE k <= Len(chain)
      BY <1>1, <1>2, <3>1 DEF Forward, VersionsAreHeights
    <3>2. CASE ~(k <= Len(chain))
      BY <1>1, <1>2, <3>2 DEF Forward, VersionsAreHeights
    <3> QED
      BY <3>1, <3>2
  <2> QED
    BY <2>1, <2>2 DEF VersionsAreHeights
<1>4. PublishedIsNewer'
  BY <1>2 DEF Forward, PublishedIsNewer, published, TypeOK
<1>5. HeightComesLast'
  BY DEF HeightComesLast
<1>6. WorkersReadForward'
  BY <1>2 DEF Forward, WorkersReadForward, published, TypeOK
<1>7. QueueReadsForward'
  <2>1. ASSUME NEW k \in 1..Len(queue')
        PROVE  queue'[k].at <= queue'[k].seen /\ queue'[k].seen <= TipHeight'
    <3>1. PICK j \in 1..Len(queue) : queue'[k] = queue[j]
      OBVIOUS
    <3>2. queue[j] \in Checks
      BY ElementOfSeq DEF TypeOK
    <3>3. queue[j].at <= queue[j].seen /\ queue[j].seen <= TipHeight
      BY DEF Forward, QueueReadsForward
    <3> QED
      BY <1>2, <3>1, <3>2, <3>3 DEF Checks
  <2> QED
    BY <2>1 DEF QueueReadsForward
<1> QED
  BY <1>3, <1>4, <1>5, <1>6, <1>7 DEF Forward

-----------------------------------------------------------------------------

LEMMA InitInv == Init => Inv
<1> SUFFICES ASSUME Init PROVE Inv
  OBVIOUS
<1>1. /\ chain = <<0>> /\ Len(chain) = 1 /\ chain[1] = 0
      /\ chain \in Seq(Nat) /\ chain # <<>>
  BY DEF Init
<1>2. queue \in Seq(Checks) /\ Len(queue) = 0
  BY DEF Init
<1>3. TypeOK
  <2>1. sealBak \in Seq(Nat) /\ syncBak \in Seq(Nat)
    BY DEF Init
  <2>2. worker \in [Workers -> [pc : {"idle", "read", "checked"}, at : Nat, seen : Nat]]
    BY DEF Init, Idle
  <2>3. Len(queue) <= QueueCap
    BY <1>2, ParametersAssumption
  <2>4. /\ born \in Nat /\ snap \in Nat /\ hot \in Nat /\ tipH \in Nat
        /\ loop = "idle" /\ rolled \in BOOLEAN
    BY DEF Init
  <2> QED
    BY <1>1, <1>2, <2>1, <2>2, <2>3, <2>4 DEF TypeOK
<1>4. VersionsAreHeights
  BY <1>1 DEF Init, VersionsAreHeights
<1>5. PublishedIsNewer /\ HeightComesLast /\ WorkersReadForward
  BY <1>1 DEF Init, PublishedIsNewer, HeightComesLast, WorkersReadForward, TipHeight, Idle
<1>6. QueueReadsForward
  BY <1>2 DEF QueueReadsForward
<1> QED
  BY <1>3, <1>4, <1>5, <1>6 DEF Inv, Forward

(* The steps that touch neither the chain, the queue nor what is published *)
(* keep their types; the others are taken one by one.                      *)
LEMMA TypeStep == TypeOK /\ [Next]_vars => TypeOK'
<1> SUFFICES ASSUME TypeOK, [Next]_vars PROVE TypeOK'
  OBVIOUS
<1> USE DEF commits, published
<1>0. TipHeight \in Nat /\ TipVersion \in Nat
  BY TipFacts
<1>1. ASSUME NEW w \in Workers, ReadHeight(w) PROVE TypeOK'
  BY <1>1 DEF ReadHeight, TypeOK
<1>2. ASSUME NEW w \in Workers, Check(w) PROVE TypeOK'
  <2>1. PICK v \in Nat : worker' = [worker EXCEPT ![w].pc = "checked", ![w].seen = v]
    BY <1>2 DEF Check, TypeOK
  <2>2. worker' \in [Workers -> [pc : {"idle", "read", "checked"}, at : Nat, seen : Nat]]
    BY <2>1 DEF TypeOK
  <2> QED
    BY <1>2, <2>2 DEF Check, TypeOK
<1>3. ASSUME NEW w \in Workers, Push(w) PROVE TypeOK'
  <2>1. queue' \in Seq(Checks) /\ Len(queue') <= QueueCap
    BY <1>3, EnqueueEffect DEF Push
  <2> QED
    BY <1>3, <2>1 DEF Push, TypeOK, Idle
<1>4. ASSUME NEW w \in Workers, Reject(w) PROVE TypeOK'
  BY <1>4 DEF Reject, TypeOK, Idle
<1>5. CASE SealBlock
  <2>1. chain' \in Seq(Nat) /\ chain' # <<>> /\ born' \in Nat
    BY <1>5, CommitEffect DEF SealBlock
  <2>2. queue' \in Seq(Checks) /\ Len(queue') <= QueueCap
    BY <1>5, UndrainedEffect DEF SealBlock
  <2>3. sealBak' \in Seq(Nat)
    BY <1>5 DEF SealBlock, TypeOK
  <2> QED
    BY <1>5, <2>1, <2>2, <2>3 DEF SealBlock, TypeOK
<1>6. CASE SealFailed
  <2>1. queue' \in Seq(Checks) /\ Len(queue') <= QueueCap
    BY <1>6, UndrainedEffect DEF SealFailed
  <2> QED
    BY <1>6, <2>1 DEF SealFailed, TypeOK
<1>7. CASE StoreSnapshot
  BY <1>0, <1>7 DEF StoreSnapshot, TypeOK
<1>8. CASE RefreshHot
  BY <1>0, <1>8 DEF RefreshHot, TypeOK
<1>9. CASE StoreTip
  BY <1>0, <1>9 DEF StoreTip, TypeOK
<1>10. CASE SaveDone
  BY <1>10 DEF SaveDone, TypeOK
<1>11. CASE SaveFailed
  BY <1>11 DEF SaveFailed, TypeOK
<1>12. CASE HttpSeal
  <2>1. chain' \in Seq(Nat) /\ chain' # <<>> /\ born' \in Nat
    BY <1>12, CommitEffect DEF HttpSeal
  <2> QED
    BY <1>12, <2>1 DEF HttpSeal, TypeOK
<1>13. ASSUME NEW n \in 1..BatchCap, SyncBatch(n) PROVE TypeOK'
  <2>1. n \in Nat
    BY ParametersAssumption
  <2>2. chain' \in Seq(Nat) /\ chain' # <<>> /\ born' \in Nat
    BY <1>13, <2>1, CommitEffect DEF SyncBatch
  <2> QED
    BY <1>13, <2>2 DEF SyncBatch, TypeOK
<1>14. CASE SyncRollback
  BY <1>14 DEF SyncRollback, TypeOK
<1>15. CASE UNCHANGED vars
  BY <1>15 DEF vars, TypeOK
<1> QED
  BY <1>1, <1>2, <1>3, <1>4, <1>5, <1>6, <1>7, <1>8, <1>9, <1>10, <1>11, <1>12,
     <1>13, <1>14, <1>15 DEF Next

(* What a step does while nothing has been discarded: blocks are added, or *)
(* the chain stands still and something is published, read or queued.      *)
LEMMA ForwardStep == Inv /\ [Next]_vars /\ ~rolled' => Forward'
<1> SUFFICES ASSUME Inv, [Next]_vars, ~rolled' PROVE Forward'
  OBVIOUS
<1>0. TypeOK
  BY DEF Inv
<1>1. CASE rolled
  <2>1. rolled' = rolled \/ rolled' = TRUE
    BY DEF Next, vars, ReadHeight, Check, Push, Reject, SealBlock, SealFailed, StoreSnapshot,
           RefreshHot, StoreTip, SaveDone, SaveFailed, HttpSeal, SyncBatch, SyncRollback
  <2> QED
    BY <1>1, <2>1
<1>2. CASE ~rolled
  <2>0. Forward /\ TipHeight \in Nat /\ TipVersion = TipHeight
    BY <1>0, <1>2, TipFacts DEF Inv, Forward
  <2> USE <1>0, <2>0 DEF commits, published, Forward
  <2>1. ASSUME NEW w \in Workers, ReadHeight(w) PROVE Forward'
    <3>1. WorkersReadForward'
      <4>1. /\ worker'[w].pc = "read" /\ worker'[w].at = tipH
            /\ \A u \in Workers \ {w} : worker'[u] = worker[u]
        BY <2>1 DEF ReadHeight, TypeOK
      <4>2. tipH' = tipH /\ tipH \in Nat /\ TipHeight' = TipHeight
        BY <2>1 DEF ReadHeight, TypeOK, TipHeight
      <4> QED
        BY <4>1, <4>2 DEF WorkersReadForward
    <3> QED
      BY <2>1, <3>1 DEF ReadHeight, VersionsAreHeights, PublishedIsNewer, HeightComesLast,
                        QueueReadsForward, TipHeight
  <2>2. ASSUME NEW w \in Workers, Check(w) PROVE Forward'
    <3>1. WorkersReadForward'
      <4>1. PICK v \in {hot, snap} :
               worker' = [worker EXCEPT ![w].pc = "checked", ![w].seen = v]
        BY <2>2 DEF Check
      <4>2. tipH' = tipH /\ TipHeight' = TipHeight
        BY <2>2 DEF Check, TipHeight
      <4>3. /\ v \in Nat /\ tipH \in Nat /\ tipH <= v /\ v <= TipHeight
            /\ worker[w].at \in Nat /\ worker[w].at <= tipH
        BY <2>2 DEF Check, WorkersReadForward, PublishedIsNewer, TypeOK
      <4>4. worker[w].at <= v
        BY <4>3
      <4>5. /\ worker'[w].at = worker[w].at /\ worker'[w].seen = v
            /\ \A u \in Workers \ {w} : worker'[u] = worker[u]
        BY <4>1 DEF TypeOK
      <4> QED
        BY <4>2, <4>3, <4>4, <4>5 DEF WorkersReadForward
    <3> QED
      BY <2>2, <3>1 DEF Check, VersionsAreHeights, PublishedIsNewer, HeightComesLast,
                        QueueReadsForward, TipHeight
  <2>3. ASSUME NEW w \in Workers, Push(w) PROVE Forward'
    <3>1. WorkersReadForward'
      <4>1. /\ worker'[w].pc = "idle"
            /\ \A u \in Workers \ {w} : worker'[u] = worker[u]
        BY <2>3 DEF Push, TypeOK, Idle
      <4>2. tipH' = tipH /\ TipHeight' = TipHeight
        BY <2>3 DEF Push, TipHeight
      <4> QED
        BY <4>1, <4>2 DEF WorkersReadForward
    <3>2. QueueReadsForward'
      <4>1. \A k \in 1..Len(queue') :
               \/ \E j \in 1..Len(queue) : queue'[k] = queue[j]
               \/ queue'[k] = [at |-> worker[w].at, seen |-> worker[w].seen]
        BY <2>3, EnqueueEffect DEF Push
      <4>2. worker[w].at <= worker[w].seen /\ worker[w].seen <= TipHeight
        BY <2>3 DEF Push, WorkersReadForward
      <4>3. TipHeight' = TipHeight
        BY <2>3 DEF Push, TipHeight
      <4> QED
        BY <4>1, <4>2, <4>3 DEF QueueReadsForward
    <3> QED
      BY <2>3, <3>1, <3>2 DEF Push, VersionsAreHeights, PublishedIsNewer, HeightComesLast, TipHeight
  <2>4. ASSUME NEW w \in Workers, Reject(w) PROVE Forward'
    <3>1. WorkersReadForward'
      <4>1. /\ worker'[w].pc = "idle"
            /\ \A u \in Workers \ {w} : worker'[u] = worker[u]
        BY <2>4 DEF Reject, TypeOK, Idle
      <4>2. tipH' = tipH /\ TipHeight' = TipHeight
        BY <2>4 DEF Reject, TipHeight
      <4> QED
        BY <4>1, <4>2 DEF WorkersReadForward
    <3> QED
      BY <2>4, <3>1 DEF Reject, VersionsAreHeights, PublishedIsNewer, HeightComesLast,
                        QueueReadsForward, TipHeight
  <2>5. CASE SealBlock
    <3>1. \A k \in 1..Len(queue') : \E j \in 1..Len(queue) : queue'[k] = queue[j]
      BY <2>5, UndrainedEffect DEF SealBlock
    <3> QED
      BY <2>5, <3>1, CommitForward DEF SealBlock
  <2>6. CASE SealFailed
    <3>1. QueueReadsForward'
      <4>1. \A k \in 1..Len(queue') : \E j \in 1..Len(queue) : queue'[k] = queue[j]
        BY <2>6, UndrainedEffect DEF SealFailed
      <4> QED
        BY <2>6, <4>1 DEF SealFailed, QueueReadsForward, TipHeight
    <3> QED
      BY <2>6, <3>1 DEF SealFailed, VersionsAreHeights, PublishedIsNewer, HeightComesLast,
                        WorkersReadForward, TipHeight
  <2>7. CASE StoreSnapshot
    <3>1. TipHeight' = TipHeight /\ UNCHANGED <<chain, born, tipH, worker, queue>>
      BY <2>7 DEF StoreSnapshot, TipHeight
    <3>2. PublishedIsNewer' /\ HeightComesLast'
      BY <2>7, <3>1 DEF StoreSnapshot, PublishedIsNewer, HeightComesLast, TypeOK
    <3> QED
      BY <3>1, <3>2 DEF VersionsAreHeights, WorkersReadForward, QueueReadsForward
  <2>8. CASE RefreshHot
    <3>1. TipHeight' = TipHeight /\ UNCHANGED <<chain, born, tipH, worker, queue>>
      BY <2>8 DEF RefreshHot, TipHeight
    <3>2. PublishedIsNewer' /\ HeightComesLast'
      BY <2>8, <3>1 DEF RefreshHot, PublishedIsNewer, HeightComesLast, TypeOK
    <3> QED
      BY <3>1, <3>2 DEF VersionsAreHeights, WorkersReadForward, QueueReadsForward
  <2>9. CASE StoreTip
    <3>1. PublishedIsNewer' /\ HeightComesLast'
      BY <2>9 DEF StoreTip, PublishedIsNewer, HeightComesLast, TipHeight
    <3>2. WorkersReadForward'
      <4>1. tipH <= tipH'
        BY <2>9 DEF StoreTip, PublishedIsNewer, TypeOK
      <4>2. worker' = worker /\ TipHeight' = TipHeight
        BY <2>9 DEF StoreTip, TipHeight
      <4>3. tipH \in Nat /\ tipH' \in Nat
        BY <2>9 DEF StoreTip, TypeOK
      <4>4. ASSUME NEW w \in Workers, worker[w].pc # "idle"
            PROVE  worker[w].at <= tipH'
        <5>1. worker[w].at <= tipH /\ worker[w].at \in Nat
          BY <4>4 DEF WorkersReadForward, TypeOK
        <5> QED
          BY <4>1, <4>3, <5>1
      <4> QED
        BY <4>2, <4>4 DEF WorkersReadForward
    <3> QED
      BY <2>9, <3>1, <3>2 DEF StoreTip, VersionsAreHeights, QueueReadsForward, TipHeight
  <2>10. CASE SaveDone
    BY <2>10 DEF SaveDone, VersionsAreHeights, PublishedIsNewer, HeightComesLast,
                 WorkersReadForward, QueueReadsForward, TipHeight
  <2>11. CASE SaveFailed
    BY <2>11 DEF SaveFailed
  <2>12. CASE HttpSeal
    BY <2>12, CommitForward DEF HttpSeal, LockFree
  <2>13. ASSUME NEW n \in 1..BatchCap, SyncBatch(n) PROVE Forward'
    <3>1. n \in Nat
      BY ParametersAssumption
    <3> QED
      BY <2>13, <3>1, CommitForward DEF SyncBatch, LockFree
  <2>14. CASE SyncRollback
    BY <2>14 DEF SyncRollback
  <2>15. CASE UNCHANGED vars
    BY <2>15 DEF vars, VersionsAreHeights, PublishedIsNewer, HeightComesLast,
                 WorkersReadForward, QueueReadsForward, TipHeight
  <2> QED
    BY <2>1, <2>2, <2>3, <2>4, <2>5, <2>6, <2>7, <2>8, <2>9, <2>10, <2>11, <2>12,
       <2>13, <2>14, <2>15 DEF Next
<1> QED
  BY <1>1, <1>2

LEMMA InvAlways == Spec => []Inv
<1>1. Inv /\ [Next]_vars => Inv'
  BY TypeStep, ForwardStep DEF Inv
<1> QED
  BY InitInv, <1>1, PTL DEF Spec

-----------------------------------------------------------------------------

(* Type correctness of the pipeline, with the validated queue within its   *)
(* capacity, for any number of workers.                                    *)
THEOREM TypeCorrect == Spec => []TypeOK
<1>1. Inv => TypeOK
  BY DEF Inv
<1> QED
  BY InvAlways, <1>1, PTL

(* Until a rollback, a check that skips the policies when it is applied    *)
(* (apply_prechecked_tx) was made on the very state it is applied to,      *)
(* however the workers' lock-free reads meet the commits of the seal loop, *)
(* of the HTTP handlers and of the sync.                                   *)
THEOREM ChecksAreOfTip == Spec => []TrustedUntilRollback
<1>1. Inv => TrustedUntilRollback
  <2> SUFFICES ASSUME Inv, ~rolled, NEW k \in 1..Len(queue), queue[k].at = TipHeight
               PROVE  queue[k].seen = TipVersion
    BY DEF TrustedUntilRollback, TrustedChecksAreOfTip
  <2>1. TipHeight \in Nat /\ TipVersion = TipHeight
    BY TipFacts DEF Inv, Forward
  <2>2. queue[k].at <= queue[k].seen /\ queue[k].seen <= TipHeight
    BY DEF Inv, Forward, QueueReadsForward
  <2>3. queue[k].seen \in Nat
    <3>1. queue[k] \in Checks
      BY ElementOfSeq DEF Inv, TypeOK
    <3> QED
      BY <3>1 DEF Checks
  <2> QED
    BY <2>1, <2>2, <2>3
<1> QED
  BY InvAlways, <1>1, PTL
=============================================================================
