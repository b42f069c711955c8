-------------------------- MODULE CrossShardProofs --------------------------
(***************************************************************************)
(* Theorems about CrossShard, for any number of exports, any deadlines,    *)
(* any cap of the fact ledger and any number of failing snapshots.         *)
(*                                                                         *)
(* Every handler of the source leaves it "later" than it was: a lock that  *)
(* was taken stays in the table, and nothing is said to be imported that   *)
(* was not said before, but for what the exchange of facts brings.  Only a *)
(* copy put back goes against this, and the copies waiting to be put back  *)
(* are therefore part of the invariant.                                    *)
(***************************************************************************)
EXTENDS CrossShard, FiniteSetTheorems, TLAPS

Ranks == {Exported, Registered, Imported}

FactTables == [Exports -> Unknown..Imported]

Sources == [nonce  : 0..MaxExports,
            lock   : [Exports -> {"none", "Locked", "Refunded"}],
            due    : [Exports -> 0..LockBlocks],
            facts  : FactTables,
            intent : [Exports -> {"none"} \cup Locking \cup Terminal],
            ttl    : [Exports -> 0..Ttl],
            active : Exports \cup {NoExport}]

Targets == [imported : SUBSET Exports, facts : FactTables]

Capped(facts) == Cardinality(Known(facts)) <= FactCap

\* LockIsLive, of any state of the source.
LockLive(s) ==
    /\ s.active # NoExport => s.intent[s.active] \in Locking
    /\ \A e \in Exports :
          /\ s.intent[e] \in Locking
          /\ \A x \in Exports \ {e} : s.intent[x] = "none"
          => s.active = e

SoundSource(s) == s \in Sources /\ Capped(s.facts) /\ LockLive(s)
SoundTarget(t) == t \in Targets /\ Capped(t.facts)

\* The exports the source takes for imported.
Told(s) == {e \in Exports : s.facts[e] = Imported \/ s.intent[e] = "imported"}

\* The exports the target knows of.
Met(t) == {e \in Exports : e \in t.imported \/ t.facts[e] # Unknown}

\* The exports the source has sealed, and those it speaks of.
Sealed(s) == {e \in Exports : s.lock[e] # "none"}
Listed(s) == {e \in Exports : s.facts[e] # Unknown \/ s.intent[e] # "none"}

\* What a handler makes of the source.
Later(s, t) == /\ SoundSource(t)
               /\ Told(t) \subseteq Told(s)
               /\ Sealed(s) \subseteq Sealed(t)
               /\ Listed(t) \subseteq Listed(s) \cup Sealed(t)

USE DEF NoExport, Unknown, Exported, Registered, Imported, Locking, Terminal

\* A node with another ledger of facts.
WithFacts(n, f) == [n EXCEPT !.facts = f]

LEMMA SomeRanks == Exported \in Ranks /\ Registered \in Ranks /\ Imported \in Ranks
BY DEF Ranks

-----------------------------------------------------------------------------
(* The fact ledger *)

\* A fact is new, gains rank or is dropped; the cap holds.
LEMMA UpsertFacts ==
    ASSUME NEW facts \in FactTables, Capped(facts), NEW e \in Exports,
           NEW status \in Ranks,
           NEW f \in Upsert(facts, e, status)
    PROVE  /\ f \in FactTables
           /\ Capped(f)
           /\ \A x \in Exports : f[x] # Unknown => facts[x] # Unknown \/ x = e
           /\ \A x \in Exports : f[x] = Imported =>
                 facts[x] = Imported \/ (x = e /\ status = Imported)
<1> DEFINE new == [facts EXCEPT ![e] = IF status < @ THEN @ ELSE status]
<1>1. /\ new \in FactTables
      /\ Known(new) = Known(facts) \cup {e}
      /\ \A x \in Exports : new[x] # Unknown => facts[x] # Unknown \/ x = e
      /\ \A x \in Exports : new[x] = Imported =>
            facts[x] = Imported \/ (x = e /\ status = Imported)
  BY DEF FactTables, Known, Exports, Ranks
<1> HIDE DEF new
<1>2. IsFiniteSet(Exports)
  BY FS_Interval, CrossShardAssumption DEF Exports
<1>3. IsFiniteSet(Known(facts)) /\ IsFiniteSet(Known(new))
  BY <1>2, FS_Subset, Known(facts) \subseteq Exports, Known(new) \subseteq Exports DEF Known
<1>4. Cardinality(Known(new)) <= FactCap + 1
  <2>1. Cardinality(Known(facts)) \in Nat
    BY <1>3, FS_CardinalityType
  <2>2. Cardinality(Known(facts) \cup {e}) =
           IF e \in Known(facts) THEN Cardinality(Known(facts)) ELSE Cardinality(Known(facts)) + 1
    BY <1>3, FS_AddElement
  <2>3. Known(new) = Known(facts) \cup {e}
    BY <1>1
  <2> QED
    BY <2>1, <2>2, <2>3, CrossShardAssumption DEF Capped
<1>5. CASE Cardinality(Known(new)) <= FactCap
  <2>1. f = new
    BY <1>5 DEF Upsert, new
  <2> QED
    BY <1>1, <1>5, <2>1 DEF Capped
<1>6. CASE ~(Cardinality(Known(new)) <= FactCap)
  <2>1. PICK x \in Known(new) : f = [new EXCEPT ![x] = Unknown]
    BY <1>6 DEF Upsert, new
  <2>2. x \in Exports /\ f \in FactTables /\ \A y \in Exports : f[y] = IF y = x THEN Unknown ELSE new[y]
    BY <1>1, <2>1 DEF FactTables, Known
  <2>3. Known(f) = Known(new) \ {x}
    BY <2>2 DEF Known
  <2>4. Cardinality(Known(f)) = Cardinality(Known(new)) - 1
    BY <2>1, <2>3, <1>3, FS_RemoveElement
  <2>5. Capped(f)
    BY <2>4, <1>4, <1>3, FS_CardinalityType, CrossShardAssumption DEF Capped
  <2> QED
    BY <1>1, <2>2, <2>5
<1> QED
  BY <1>5, <1>6

-----------------------------------------------------------------------------
(* The source's own handlers *)

LEMMA LaterSame ==
    ASSUME NEW s, SoundSource(s)
    PROVE  Later(s, s)
BY DEF Later

LEMMA LaterOfLater ==
    ASSUME NEW s, NEW t, NEW u, Later(s, t), Later(t, u)
    PROVE  Later(s, u)
BY DEF Later

\* expire_by_height
LEMMA ExpireLater ==
    ASSUME NEW s, SoundSource(s)
    PROVE  Later(s, Expire(s))
<1> DEFINE gone == {e \in Exports : s.intent[e] \in Locking /\ s.ttl[e] = 0}
           t == Expire(s)
<1>1. t \in Sources /\ t.facts = s.facts /\ t.lock = s.lock
      /\ t.active = (IF gone = {} THEN s.active ELSE NoExport)
      /\ \A e \in Exports : t.intent[e] = (IF e \in gone THEN "expired" ELSE s.intent[e])
  BY DEF Expire, SoundSource, Sources
<1>2. LockLive(t)
  <2>1. CASE gone = {}
    BY <1>1, <2>1 DEF SoundSource, LockLive, Sources
  <2>2. CASE gone # {}
    BY <1>1, <2>2 DEF SoundSource, LockLive, Sources
  <2> QED
    BY <2>1, <2>2
<1> HIDE DEF t
<1>3. Told(t) \subseteq Told(s) /\ Sealed(s) \subseteq Sealed(t)
      /\ Listed(t) \subseteq Listed(s)
  BY <1>1 DEF Told, Sealed, Listed
<1> QED
  BY <1>1, <1>2, <1>3 DEF Later, SoundSource, t

\* set_status
LEMMA SetIntentFields ==
    ASSUME NEW s \in Sources, NEW e \in Exports, NEW status \in Locking \cup Terminal,
           NEW t, t = SetIntent(s, e, status)
    PROVE  /\ t \in Sources /\ t.facts = s.facts /\ t.lock = s.lock
           /\ t.active = (IF status \in Locking THEN e ELSE NoExport)
           /\ \A x \in Exports : t.intent[x] = (IF x = e THEN status ELSE s.intent[x])
<1> DEFINE i == [s.intent EXCEPT ![e] = status]
           a == IF status \in Locking THEN e ELSE NoExport
<1>1. i \in [Exports -> {"none"} \cup Locking \cup Terminal] /\ a \in Exports \cup {NoExport}
      /\ \A x \in Exports : i[x] = (IF x = e THEN status ELSE s.intent[x])
  BY DEF Sources
<1>2. t = [s EXCEPT !.intent = i, !.active = a]
  BY DEF SetIntent, Sources
<1> HIDE DEF i, a
<1>3. t \in Sources /\ t.facts = s.facts /\ t.lock = s.lock /\ t.active = a /\ t.intent = i
  BY <1>1, <1>2 DEF Sources
<1> QED
  BY <1>1, <1>3 DEF a

\* mark_exported, mark_relayed
LEMMA MarkLater ==
    ASSUME NEW s, SoundSource(s), NEW e \in Exports
    PROVE  Later(s, Mark(s, e, "relayed"))
<1> DEFINE t == SetIntent(s, e, "relayed")
<1>1. CASE s.intent[e] = "none"
  BY <1>1, LaterSame DEF Mark
<1>2. CASE s.intent[e] # "none"
  <2>1. t \in Sources /\ t.facts = s.facts /\ t.lock = s.lock /\ t.active = e
        /\ \A x \in Exports : t.intent[x] = (IF x = e THEN "relayed" ELSE s.intent[x])
    BY SetIntentFields DEF SoundSource
  <2> HIDE DEF t
  <2>2. LockLive(t)
    BY <2>1 DEF LockLive
  <2>3. Told(t) \subseteq Told(s) /\ Sealed(s) \subseteq Sealed(t) /\ Listed(t) \subseteq Listed(s)
    BY <1>2, <2>1 DEF Told, Sealed, Listed
  <2> QED
    BY <1>2, <2>1, <2>2, <2>3 DEF Later, SoundSource, Mark, t
<1> QED
  BY <1>1, <1>2

\* A block: deadlines come nearer, expired locks are refunded.
LEMMA BlockFields ==
    ASSUME NEW s \in Sources
    PROVE  /\ Block(s) \in Sources
           /\ Block(s).facts = s.facts /\ Block(s).intent = s.intent
           /\ Block(s).active = s.active /\ Block(s).nonce = s.nonce
           /\ Sealed(Block(s)) = Sealed(s)
<1>1. \A n \in 0..LockBlocks : Down(n) \in 0..LockBlocks
  BY CrossShardAssumption DEF Down
<1>2. \A n \in 0..Ttl : Down(n) \in 0..Ttl
  BY CrossShardAssumption DEF Down
<1>3. /\ Block(s) \in Sources
      /\ Block(s).facts = s.facts /\ Block(s).intent = s.intent
      /\ Block(s).active = s.active /\ Block(s).nonce = s.nonce
      /\ \A e \in Exports : Block(s).lock[e] =
            IF s.lock[e] = "Locked" /\ s.due[e] <= 1 THEN "Refunded" ELSE s.lock[e]
  BY <1>1, <1>2 DEF Block, Sources
<1> QED
  BY <1>3 DEF Sealed

LEMMA BlockLater ==
    ASSUME NEW s, SoundSource(s)
    PROVE  Later(s, Block(s))
BY BlockFields DEF Later, SoundSource, LockLive, Told, Listed

\* The block that seals an export.
LEMMA ExportLater ==
    ASSUME NEW s, SoundSource(s), NEW e \in Exports, NEW t \in ExportBlocks(s, e)
    PROVE  Later(s, t) /\ e \in Sealed(t)
<1>1. PICK f \in Upsert(s.facts, e, Exported) :
         t = [Block(s) EXCEPT !.nonce = e, !.lock[e] = "Locked", !.due[e] = LockBlocks, !.facts = f]
  BY DEF ExportBlocks
<1>2. s.facts \in FactTables /\ Capped(s.facts)
  BY DEF SoundSource, Sources
<1>3. /\ f \in FactTables /\ Capped(f)
      /\ \A x \in Exports : f[x] # Unknown => s.facts[x] # Unknown \/ x = e
      /\ \A x \in Exports : f[x] = Imported => s.facts[x] = Imported
  BY <1>2, UpsertFacts, SomeRanks
<1>4. /\ t \in Sources /\ t.facts = f /\ t.intent = s.intent /\ t.active = s.active
      /\ \A x \in Exports : t.lock[x] = IF x = e THEN "Locked" ELSE Block(s).lock[x]
  <2> DEFINE b == Block(s)
  <2>1. b \in Sources /\ b.intent = s.intent /\ b.active = s.active
    BY BlockFields DEF SoundSource
  <2>2. t = [b EXCEPT !.nonce = e, !.lock[e] = "Locked", !.due[e] = LockBlocks, !.facts = f]
    BY <1>1
  <2> HIDE DEF b
  <2>3. e \in 0..MaxExports /\ LockBlocks \in 0..LockBlocks
    BY CrossShardAssumption DEF Exports
  <2>4. t \in Sources /\ t.facts = f /\ t.intent = b.intent /\ t.active = b.active
        /\ t.lock = [b.lock EXCEPT ![e] = "Locked"]
    BY <1>3, <2>1, <2>2, <2>3 DEF Sources
  <2>5. \A x \in Exports : t.lock[x] = IF x = e THEN "Locked" ELSE b.lock[x]
    BY <2>1, <2>4 DEF Sources
  <2> QED
    BY <2>1, <2>4, <2>5 DEF b
<1>5. e \in Sealed(t) /\ Sealed(s) \subseteq Sealed(t)
  BY <1>4, BlockFields DEF Sealed, SoundSource
<1>6. Told(t) \subseteq Told(s) /\ Listed(t) \subseteq Listed(s) \cup Sealed(t)
  BY <1>3, <1>4, <1>5 DEF Told, Listed
<1>7. SoundSource(t)
  BY <1>3, <1>4 DEF SoundSource, LockLive
<1> QED
  BY <1>5, <1>6, <1>7 DEF Later

\* register_export and the rest of v1_roaming_intent_create
LEMMA CreatedLater ==
    ASSUME NEW s, SoundSource(s), NEW e \in Exports, NEW t \in Created(s, e)
    PROVE  Later(s, t) /\ e \in Sealed(t)
<1>1. PICK u \in ExportBlocks(s, e) : t = SetIntent([u EXCEPT !.ttl[e] = Ttl], e, "exported")
  BY DEF Created
<1>2. Later(s, u) /\ e \in Sealed(u)
  BY ExportLater
<1>3. u \in Sources
  BY <1>2 DEF Later, SoundSource
<1>4. t \in Sources /\ t.facts = u.facts /\ t.lock = u.lock /\ t.active = e
      /\ \A x \in Exports : t.intent[x] = (IF x = e THEN "exported" ELSE u.intent[x])
  <2>1. PICK v : v = [u EXCEPT !.ttl[e] = Ttl]
    OBVIOUS
  <2>2. v \in Sources /\ v.facts = u.facts /\ v.lock = u.lock /\ v.intent = u.intent
    BY <1>3, <2>1, CrossShardAssumption DEF Sources
  <2>3. PICK status \in Locking : status = "exported"
    OBVIOUS
  <2>4. t = SetIntent(v, e, status)
    BY <1>1, <2>1, <2>3
  <2> HIDE DEF Locking, Terminal
  <2>5. /\ t \in Sources /\ t.facts = v.facts /\ t.lock = v.lock /\ t.active = e
        /\ \A x \in Exports : t.intent[x] = (IF x = e THEN status ELSE v.intent[x])
    BY <2>2, <2>4, SetIntentFields
  <2> QED
    BY <2>2, <2>3, <2>5
<1>5. LockLive(t)
  BY <1>4 DEF LockLive
<1>6. Told(t) \subseteq Told(u) /\ Sealed(t) = Sealed(u) /\ Listed(t) \subseteq Listed(u) \cup {e}
  BY <1>4 DEF Told, Sealed, Listed
<1> QED
  BY <1>2, <1>4, <1>5, <1>6 DEF Later, SoundSource

\* A start: the locks are rebuilt from the intents.
LEMMA RebuiltLater ==
    ASSUME NEW s, SoundSource(s), NEW t \in Rebuilt(s)
    PROVE  Later(s, t)
<1> DEFINE locking == {e \in Exports : s.intent[e] \in Locking}
<1>1. PICK a \in (IF locking = {} THEN {NoExport} ELSE locking) : t = [s EXCEPT !.active = a]
  BY DEF Rebuilt
<1>2. t \in Sources /\ t.facts = s.facts /\ t.lock = s.lock /\ t.intent = s.intent /\ t.active = a
  BY <1>1 DEF SoundSource, Sources
<1>3. LockLive(t)
  <2>1. CASE locking = {}
    BY <1>1, <1>2, <2>1 DEF LockLive
  <2>2. CASE locking # {}
    BY <1>1, <1>2, <2>2 DEF LockLive
  <2> QED
    BY <2>1, <2>2
<1> QED
  BY <1>2, <1>3 DEF Later, SoundSource, Told, Sealed, Listed

\* mark_import_by_export
LEMMA MarkImported ==
    ASSUME NEW s, SoundSource(s), NEW e \in Exports
    PROVE  /\ SoundSource(Mark(s, e, "imported"))
           /\ Told(Mark(s, e, "imported")) \subseteq Told(s) \cup {e}
           /\ Sealed(Mark(s, e, "imported")) = Sealed(s)
           /\ Listed(Mark(s, e, "imported")) \subseteq Listed(s)
<1> DEFINE t == SetIntent(s, e, "imported")
<1>1. CASE s.intent[e] = "none"
  BY <1>1 DEF Mark
<1>2. CASE s.intent[e] # "none"
  <2>1. t \in Sources /\ t.facts = s.facts /\ t.lock = s.lock /\ t.active = NoExport
        /\ \A x \in Exports : t.intent[x] = (IF x = e THEN "imported" ELSE s.intent[x])
    BY SetIntentFields DEF SoundSource
  <2> HIDE DEF t
  <2>2. LockLive(t)
    BY <2>1 DEF LockLive
  <2>3. Told(t) \subseteq Told(s) \cup {e} /\ Sealed(t) = Sealed(s) /\ Listed(t) \subseteq Listed(s)
    BY <1>2, <2>1 DEF Told, Sealed, Listed
  <2> QED
    BY <1>2, <2>1, <2>2, <2>3 DEF SoundSource, Mark, t
<1> QED
  BY <1>1, <1>2

\* The exchange of facts, the one place where the source learns of an import.
LEMMA MergeFacts ==
    ASSUME NEW s, SoundSource(s), NEW e \in Exports,
           NEW status \in Ranks,
           NEW f \in Upsert(s.facts, e, status),
           NEW t, t = IF status = Imported THEN Mark(WithFacts(s, f), e, "imported")
                                           ELSE WithFacts(s, f)
    PROVE  /\ SoundSource(t)
           /\ Told(t) \subseteq Told(s) \cup {x \in {e} : status = Imported}
           /\ Sealed(t) = Sealed(s)
           /\ Listed(t) \subseteq Listed(s) \cup {e}
<1>0. PICK u : u = WithFacts(s, f)
  OBVIOUS
<1>1. s.facts \in FactTables /\ Capped(s.facts)
  BY DEF SoundSource, Sources
<1>2. /\ f \in FactTables /\ Capped(f)
      /\ \A x \in Exports : f[x] # Unknown => s.facts[x] # Unknown \/ x = e
      /\ \A x \in Exports : f[x] = Imported => s.facts[x] = Imported \/ (x = e /\ status = Imported)
  BY <1>1, UpsertFacts
<1>3. u \in Sources /\ u.facts = f /\ u.intent = s.intent /\ u.active = s.active /\ u.lock = s.lock
  BY <1>0, <1>2 DEF SoundSource, Sources, WithFacts
<1>4. SoundSource(u)
  BY <1>2, <1>3 DEF SoundSource, LockLive
<1>5. /\ Told(u) \subseteq Told(s) \cup {x \in {e} : status = Imported}
      /\ Sealed(u) = Sealed(s)
      /\ Listed(u) \subseteq Listed(s) \cup {e}
  BY <1>2, <1>3 DEF Told, Sealed, Listed
<1>6. CASE status = Imported
  <2>1. t = Mark(u, e, "imported")
    BY <1>0, <1>6
  <2> QED
    BY <1>4, <1>5, <1>6, <2>1, MarkImported
<1>7. CASE status # Imported
  <2>1. t = u
    BY <1>0, <1>7
  <2> QED
    BY <1>4, <1>5, <2>1
<1> QED
  BY <1>6, <1>7

-----------------------------------------------------------------------------
(* The inductive invariant *)

Copies == {<<>>} \cup {<<x>> : x \in Sources \cup Targets}

TypeInv == /\ waiting \subseteq Exports /\ posts \subseteq Exports /\ sealed \subseteq Exports
           /\ acks \subseteq posts
           /\ degraded \subseteq Nodes /\ undone \subseteq Nodes
           /\ faults \in 0..MaxFaults
           /\ held \in [Nodes -> Copies]

\* What is in use and what may be put back.
SoundInv == /\ SoundSource(src) /\ SoundTarget(tgt)
            /\ held["src"] # <<>> => SoundSource(held["src"][1])
            /\ held["tgt"] # <<>> => SoundTarget(held["tgt"][1])

\* As long as the target has undone nothing.
TrueInv == "tgt" \notin undone =>
              /\ Told(src) \subseteq tgt.imported
              /\ held["src"] # <<>> => Told(held["src"][1]) \subseteq tgt.imported
              /\ \A e \in Exports : tgt.facts[e] = Imported => e \in tgt.imported

\* As long as the source has undone nothing.
BackedInv == "src" \notin undone =>
              /\ Listed(src) \subseteq Sealed(src)
              /\ posts \subseteq Sealed(src)
              /\ Met(tgt) \subseteq Sealed(src)
              /\ held["tgt"] # <<>> => Met(held["tgt"][1]) \subseteq Sealed(src)

Inv == TypeInv /\ SoundInv /\ TrueInv /\ BackedInv

\* A copy kept for a rollback.
LEMMA HeldCopy ==
    ASSUME NEW h \in [Nodes -> Copies], NEW n \in Nodes, NEW x \in Sources \cup Targets,
           NEW g, g = [h EXCEPT ![n] = <<x>>]
    PROVE  /\ g \in [Nodes -> Copies]
           /\ g[n] # <<>> /\ g[n][1] = x
           /\ \A m \in Nodes \ {n} : g[m] = h[m]
<1>1. PICK c : c = <<x>>
  OBVIOUS
<1>2. c \in Copies /\ c # <<>> /\ c[1] = x
  BY <1>1 DEF Copies
<1>3. g = [h EXCEPT ![n] = c]
  BY <1>1
<1> QED
  BY <1>2, <1>3

LEMMA InitInv == Init => Inv
<1> SUFFICES ASSUME Init PROVE Inv
  OBVIOUS
<1>1. src \in Sources /\ tgt \in Targets
  BY CrossShardAssumption DEF Init, Sources, Targets, FactTables
<1>2. Known(src.facts) = {} /\ Known(tgt.facts) = {}
  BY DEF Init, Known
<1>3. Capped(src.facts) /\ Capped(tgt.facts)
  BY <1>2, FS_EmptySet, CrossShardAssumption DEF Capped
<1>4. LockLive(src)
  BY DEF Init, LockLive
<1>5. Told(src) = {} /\ Listed(src) = {} /\ Met(tgt) = {}
  BY DEF Init, Told, Listed, Met
<1>6. TypeInv /\ held["src"] = <<>> /\ held["tgt"] = <<>>
  BY CrossShardAssumption DEF Init, TypeInv, Copies, Nodes
<1>7. \A e \in Exports : tgt.facts[e] # Imported
  BY DEF Init
<1>8. posts = {}
  BY DEF Init
<1> QED
  BY <1>1, <1>3, <1>4, <1>5, <1>6, <1>7, <1>8 DEF Inv, SoundInv, SoundSource, SoundTarget, TrueInv, BackedInv

-----------------------------------------------------------------------------
(* One step *)

\* A handler of the source, with or without a copy left to be put back.
LEMMA SourceStep ==
    ASSUME Inv, Later(src, src'), UNCHANGED <<tgt, acks, undone>>,
           posts \subseteq posts', posts' \subseteq posts \cup Listed(src) \cup Sealed(src'),
           waiting' \subseteq Exports, sealed' \subseteq Exports, degraded' \subseteq Nodes,
           faults' \in 0..MaxFaults,
           \/ UNCHANGED held
           \/ \E bak : Later(src, bak) /\ held' = [held EXCEPT !["src"] = <<bak>>]
    PROVE  Inv'
<1>1. /\ held' \in [Nodes -> Copies]
      /\ held'["tgt"] = held["tgt"]
      /\ held'["src"] # <<>> =>
            \/ held["src"] # <<>> /\ held'["src"] = held["src"]
            \/ SoundSource(held'["src"][1]) /\ Told(held'["src"][1]) \subseteq Told(src)
  <2>1. CASE UNCHANGED held
    BY <2>1 DEF Inv, TypeInv
  <2>2. CASE \E bak : Later(src, bak) /\ held' = [held EXCEPT !["src"] = <<bak>>]
    <3>1. PICK bak : Later(src, bak) /\ held' = [held EXCEPT !["src"] = <<bak>>]
      BY <2>2
    <3>2. bak \in Sources
      BY <3>1 DEF Later, SoundSource
    <3>3. /\ held' \in [Nodes -> Copies] /\ held'["src"][1] = bak
          /\ held'["tgt"] = held["tgt"]
      BY <3>1, <3>2, HeldCopy DEF Inv, TypeInv, Nodes
    <3> QED
      BY <3>1, <3>3 DEF Later
  <2> QED
    BY <2>1, <2>2
<1>2. TypeInv'
  BY <1>1 DEF Inv, TypeInv, Sealed, Listed
<1>3. SoundInv'
  BY <1>1 DEF Inv, SoundInv, Later
<1>4. TrueInv'
  BY <1>1 DEF Inv, TrueInv, Later
<1>5. BackedInv'
  BY <1>1 DEF Inv, BackedInv, Later
<1> QED
  BY <1>2, <1>3, <1>4, <1>5 DEF Inv

\* A handler of the target.
LEMMA TargetStep ==
    ASSUME Inv, SoundTarget(tgt'), UNCHANGED <<src, waiting, posts, undone>>,
           tgt.imported \subseteq tgt'.imported,
           Met(tgt') \subseteq Met(tgt) \cup Listed(src) \cup posts,
           \A e \in Exports : tgt'.facts[e] = Imported =>
              tgt.facts[e] = Imported \/ src.facts[e] = Imported \/ e \in tgt'.imported,
           acks' \subseteq posts, sealed' \subseteq Exports, degraded' \subseteq Nodes,
           faults' \in 0..MaxFaults,
           UNCHANGED held \/ held' = [held EXCEPT !["tgt"] = <<tgt>>]
    PROVE  Inv'
<1>1. /\ held' \in [Nodes -> Copies]
      /\ held'["src"] = held["src"]
      /\ held'["tgt"] # <<>> =>
            \/ held["tgt"] # <<>> /\ held'["tgt"] = held["tgt"]
            \/ held'["tgt"][1] = tgt
  <2>1. CASE UNCHANGED held
    BY <2>1 DEF Inv, TypeInv
  <2>2. CASE held' = [held EXCEPT !["tgt"] = <<tgt>>]
    <3>1. tgt \in Targets
      BY DEF Inv, SoundInv, SoundTarget
    <3> QED
      BY <2>2, <3>1, HeldCopy DEF Inv, TypeInv, Nodes
  <2> QED
    BY <2>1, <2>2
<1>2. TypeInv'
  BY <1>1 DEF Inv, TypeInv
<1>3. SoundInv'
  BY <1>1 DEF Inv, SoundInv
<1>4. TrueInv'
  BY <1>1 DEF Inv, TrueInv, Told
<1>5. BackedInv'
  BY <1>1 DEF Inv, BackedInv
<1> QED
  BY <1>2, <1>3, <1>4, <1>5 DEF Inv

LEMMA ExpiredSource == Inv => Later(src, Expire(src)) /\ SoundSource(Expire(src))
BY ExpireLater DEF Inv, SoundInv, Later

\* A snapshot that may fail: the copy is one the source has been through.
LEMMA SavedSource ==
    ASSUME Inv, NEW bak, Later(src, bak), Fail("src", bak)
    PROVE  /\ faults' \in 0..MaxFaults
           /\ \E b : Later(src, b) /\ held' = [held EXCEPT !["src"] = <<b>>]
<1>1. faults' \in 0..MaxFaults
  BY CrossShardAssumption DEF Inv, TypeInv, Fail
<1>2. held' = [held EXCEPT !["src"] = <<bak>>]
  BY DEF Fail
<1> QED
  BY <1>1, <1>2

LEMMA CreateInv == ASSUME Inv, NEW e \in Exports, Create(e) PROVE Inv'
<1> DEFINE s == Expire(src)
<1>1. Later(src, s) /\ SoundSource(s)
  BY ExpiredSource
<1>2. UNCHANGED <<tgt, acks, sealed, held, degraded, undone>>
  BY DEF Create
<1>3. CASE src' \in Created(s, e) /\ posts' = posts \cup {e}
           /\ waiting' = waiting \cup {e} /\ UNCHANGED faults
  <2>1. Later(s, src') /\ e \in Sealed(src')
    BY <1>1, <1>3, CreatedLater
  <2>2. Later(src, src')
    BY <1>1, <2>1, LaterOfLater
  <2> QED
    BY <1>2, <1>3, <2>1, <2>2, SourceStep DEF Inv, TypeInv
<1>4. CASE src' = s /\ faults' \in {faults, faults + 1} /\ faults' <= MaxFaults
           /\ UNCHANGED <<posts, waiting>>
  BY <1>1, <1>2, <1>4, SourceStep, CrossShardAssumption DEF Inv, TypeInv
<1> QED
  BY <1>3, <1>4, CrossShardAssumption DEF Create, Inv, TypeInv

LEMMA SealDirectInv == ASSUME Inv, NEW e \in Exports, SealDirect(e) PROVE Inv'
<1>1. PICK t \in ExportBlocks(src, e) : src' = Expire(t)
  BY DEF SealDirect
<1>2. Later(src, t)
  BY ExportLater DEF Inv, SoundInv
<1>3. Later(t, src')
  BY <1>1, <1>2, ExpireLater DEF Later
<1>4. Later(src, src')
  BY <1>2, <1>3, LaterOfLater
<1> QED
  BY <1>4, SourceStep DEF SealDirect, Inv, TypeInv

LEMMA FinalizeInv == ASSUME Inv, NEW e \in Exports, Finalize(e) PROVE Inv'
<1> DEFINE s == Expire(src)
<1>1. Later(src, s) /\ SoundSource(s)
  BY ExpiredSource
<1>2. src' = s /\ UNCHANGED <<tgt, acks, sealed, degraded, undone>>
  BY DEF Finalize
<1>3. CASE Fail("src", s) /\ UNCHANGED <<posts, waiting>>
  BY <1>1, <1>2, <1>3, SavedSource, SourceStep DEF Inv, TypeInv
<1>4. CASE UNCHANGED <<held, faults>> /\ posts' = posts \cup {e}
           /\ waiting' \in {waiting, waiting \cup {e}}
  <2>1. s.intent[e] # "none"
    BY DEF Finalize
  <2>2. e \in Listed(s)
    BY <2>1 DEF Listed
  <2>3. e \in Listed(src) \cup Sealed(src')
    BY <1>1, <1>2, <2>2 DEF Later
  <2>4. Later(src, src')
    BY <1>1, <1>2
  <2> HIDE DEF s
  <2> QED
    BY <1>2, <1>4, <2>3, <2>4, SourceStep DEF Inv, TypeInv
<1> QED
  BY <1>3, <1>4 DEF Finalize

LEMMA RelayReturnsInv == ASSUME Inv, NEW e \in Exports, RelayReturns(e) PROVE Inv'
<1>1. Later(src, src')
  BY MarkLater, LaterSame DEF RelayReturns, MarkRelayed, Inv, SoundInv
<1> QED
  BY <1>1, SourceStep DEF RelayReturns, Inv, TypeInv

LEMMA ImportReturnsInv == ASSUME Inv, NEW e \in Exports, ImportReturns(e) PROVE Inv'
<1>1. Later(src, src')
  BY MarkLater DEF ImportReturns, MarkRelayed, Inv, SoundInv
<1>2. CASE UNCHANGED <<held, faults>>
  BY <1>1, <1>2, SourceStep DEF ImportReturns, Inv, TypeInv
<1>3. CASE Fail("src", src)
  <2>1. Later(src, src)
    BY LaterSame DEF Inv, SoundInv
  <2> QED
    BY <1>1, <1>3, <2>1, SavedSource, SourceStep DEF ImportReturns, Inv, TypeInv
<1> QED
  BY <1>2, <1>3 DEF ImportReturns, Save

LEMMA StatusInv == ASSUME Inv, Status PROVE Inv'
BY ExpiredSource, SourceStep DEF Status, Inv, TypeInv

LEMMA SourceBlockInv == ASSUME Inv, SourceBlock PROVE Inv'
<1>1. PICK s : s = Expire(src)
  OBVIOUS
<1>2. Later(src, s) /\ SoundSource(s) /\ src' = Block(s)
  BY <1>1, ExpiredSource DEF SourceBlock
<1>3. Later(src, src')
  BY <1>2, BlockLater, LaterOfLater
<1>4. UNCHANGED <<tgt, waiting, posts, acks, sealed, undone>>
  BY DEF SourceBlock
<1>5. CASE Fail("src", s) /\ UNCHANGED degraded
  BY <1>2, <1>3, <1>4, <1>5, SavedSource, SourceStep DEF Inv, TypeInv
<1>6. CASE UNCHANGED <<held, faults>> /\ degraded' = degraded \ {"src"}
  BY <1>3, <1>4, <1>6, SourceStep DEF Inv, TypeInv
<1> QED
  BY <1>1, <1>5, <1>6 DEF SourceBlock

LEMMA RestartInv == ASSUME Inv, Restart PROVE Inv'
<1>1. Later(src, src')
  BY RebuiltLater DEF Restart, Inv, SoundInv
<1> QED
  BY <1>1, SourceStep DEF Restart, Inv, TypeInv

\* The source learns of an import from the target's own fact.
LEMMA HearInv == ASSUME Inv, NEW e \in Exports, Hear(e) PROVE Inv'
<1>1. PICK f \in Upsert(src.facts, e, tgt.facts[e]) :
         src' = IF tgt.facts[e] = Imported
                THEN Mark(WithFacts(src, f), e, "imported")
                ELSE WithFacts(src, f)
  BY DEF Hear, WithFacts
<1>2. tgt.facts[e] \in Ranks
  BY DEF Hear, Inv, SoundInv, SoundTarget, Targets, FactTables, Ranks
<1>3. /\ SoundSource(src')
      /\ Told(src') \subseteq Told(src) \cup {x \in {e} : tgt.facts[e] = Imported}
      /\ Sealed(src') = Sealed(src)
      /\ Listed(src') \subseteq Listed(src) \cup {e}
  BY <1>1, <1>2, MergeFacts DEF Inv, SoundInv
<1>4. UNCHANGED <<tgt, waiting, posts, acks, sealed, held, degraded, faults, undone>>
  BY DEF Hear
<1>5. e \in Met(tgt)
  BY DEF Hear, Met
<1>6. TypeInv' /\ SoundInv'
  BY <1>3, <1>4 DEF Inv, TypeInv, SoundInv
<1>7. TrueInv'
  BY <1>3, <1>4 DEF Inv, TrueInv
<1>8. BackedInv'
  BY <1>3, <1>4, <1>5 DEF Inv, BackedInv
<1> QED
  BY <1>6, <1>7, <1>8 DEF Inv

\* What a fact at the target does to the target.
LEMMA TargetFact ==
    ASSUME NEW t, SoundTarget(t), NEW e \in Exports,
           NEW status \in Ranks,
           NEW f \in Upsert(t.facts, e, status),
           NEW u, u = WithFacts(t, f)
    PROVE  /\ SoundTarget(u) /\ u.imported = t.imported
           /\ Met(u) \subseteq Met(t) \cup {e}
           /\ \A x \in Exports : u.facts[x] = Imported =>
                 t.facts[x] = Imported \/ (x = e /\ status = Imported)
<1>1. t.facts \in FactTables /\ Capped(t.facts)
  BY DEF SoundTarget, Targets
<1>2. /\ f \in FactTables /\ Capped(f)
      /\ \A x \in Exports : f[x] # Unknown => t.facts[x] # Unknown \/ x = e
      /\ \A x \in Exports : f[x] = Imported => t.facts[x] = Imported \/ (x = e /\ status = Imported)
  BY <1>1, UpsertFacts
<1>3. u \in Targets /\ u.facts = f /\ u.imported = t.imported
  BY <1>2 DEF SoundTarget, Targets, WithFacts
<1> QED
  BY <1>2, <1>3 DEF SoundTarget, Met

LEMMA RegisterInv == ASSUME Inv, NEW e \in Exports, Register(e) PROVE Inv'
<1>1. PICK f \in Upsert(tgt.facts, e, Registered) : tgt' = WithFacts(tgt, f)
  BY DEF Register, WithFacts
<1>2. /\ SoundTarget(tgt') /\ tgt'.imported = tgt.imported
      /\ Met(tgt') \subseteq Met(tgt) \cup {e}
      /\ \A x \in Exports : tgt'.facts[x] = Imported => tgt.facts[x] = Imported
  BY <1>1, TargetFact, SomeRanks DEF Inv, SoundInv
<1>3. e \in posts /\ UNCHANGED <<src, waiting, posts, sealed, degraded, undone>>
  BY DEF Register
<1>4. CASE acks' = acks \cup {e} /\ UNCHANGED <<held, faults>>
  BY <1>2, <1>3, <1>4, TargetStep DEF Inv, TypeInv
<1>5. CASE Fail("tgt", tgt) /\ UNCHANGED acks
  <2>1. faults' \in 0..MaxFaults
    BY <1>5, CrossShardAssumption DEF Inv, TypeInv, Fail
  <2>2. held' = [held EXCEPT !["tgt"] = <<tgt>>]
    BY <1>5 DEF Fail
  <2> QED
    BY <1>2, <1>3, <1>5, <2>1, <2>2, TargetStep DEF Inv, TypeInv
<1> QED
  BY <1>4, <1>5 DEF Register

LEMMA BackfillInv == ASSUME Inv, NEW e \in Exports, Backfill(e) PROVE Inv'
<1>1. PICK f \in Upsert(tgt.facts, e, Registered) : tgt' = WithFacts(tgt, f)
  BY DEF Backfill, WithFacts
<1>2. /\ SoundTarget(tgt') /\ tgt'.imported = tgt.imported
      /\ Met(tgt') \subseteq Met(tgt) \cup {e}
      /\ \A x \in Exports : tgt'.facts[x] = Imported => tgt.facts[x] = Imported
  BY <1>1, TargetFact, SomeRanks DEF Inv, SoundInv
<1>3. e \in Listed(src)
  BY DEF Backfill, Listed
<1> QED
  BY <1>2, <1>3, TargetStep DEF Backfill, Inv, TypeInv

LEMMA HearSourceInv == ASSUME Inv, NEW e \in Exports, HearSource(e) PROVE Inv'
<1>1. PICK f \in Upsert(tgt.facts, e, src.facts[e]) : tgt' = WithFacts(tgt, f)
  BY DEF HearSource, WithFacts
<1>2. src.facts[e] \in Ranks
  BY DEF HearSource, Inv, SoundInv, SoundSource, Sources, FactTables, Ranks
<1>3. /\ SoundTarget(tgt') /\ tgt'.imported = tgt.imported
      /\ Met(tgt') \subseteq Met(tgt) \cup {e}
      /\ \A x \in Exports : tgt'.facts[x] = Imported =>
            tgt.facts[x] = Imported \/ src.facts[x] = Imported
  BY <1>1, <1>2, TargetFact, SomeRanks DEF Inv, SoundInv
<1>4. e \in Listed(src)
  BY DEF HearSource, Listed
<1> QED
  BY <1>3, <1>4, TargetStep DEF HearSource, Inv, TypeInv

LEMMA ImportInv == ASSUME Inv, NEW e \in Exports, Import(e) PROVE Inv'
<1>1. PICK f \in Upsert(tgt.facts, e, Imported) :
         tgt' = [tgt EXCEPT !.imported = @ \cup {e}, !.facts = f]
  BY DEF Import
<1>2. PICK u : u = WithFacts(tgt, f)
  OBVIOUS
<1>3. /\ SoundTarget(u) /\ u.imported = tgt.imported
      /\ Met(u) \subseteq Met(tgt) \cup {e}
      /\ \A x \in Exports : u.facts[x] = Imported => tgt.facts[x] = Imported \/ x = e
  BY <1>1, <1>2, TargetFact, SomeRanks DEF Inv, SoundInv
<1>4. tgt' \in Targets /\ tgt'.facts = u.facts /\ tgt'.imported = tgt.imported \cup {e}
  BY <1>1, <1>2, <1>3 DEF SoundTarget, Targets, Inv, SoundInv, WithFacts
<1>5. e \in Met(tgt)
  BY DEF Import, Importable, Met
<1>6. SoundTarget(tgt') /\ Met(tgt') \subseteq Met(tgt)
  BY <1>3, <1>4, <1>5 DEF SoundTarget, Met
<1>7. acks' \subseteq posts /\ sealed' \subseteq Exports /\ degraded' \subseteq Nodes
      /\ faults' \in 0..MaxFaults /\ UNCHANGED <<src, waiting, posts, undone, held>>
  BY DEF Import, Inv, TypeInv
<1> QED
  BY <1>3, <1>4, <1>6, <1>7, TargetStep

LEMMA TargetBlockInv == ASSUME Inv, TargetBlock PROVE Inv'
<1>1. UNCHANGED <<src, tgt, waiting, posts, acks, sealed, undone>>
  BY DEF TargetBlock
<1>2. SoundTarget(tgt') /\ Met(tgt') = Met(tgt)
  BY <1>1 DEF Inv, SoundInv
<1>3. CASE Fail("tgt", tgt) /\ UNCHANGED degraded
  <2>1. faults' \in 0..MaxFaults
    BY <1>3, CrossShardAssumption DEF Inv, TypeInv, Fail
  <2>2. held' = [held EXCEPT !["tgt"] = <<tgt>>]
    BY <1>3 DEF Fail
  <2> QED
    BY <1>1, <1>2, <1>3, <2>1, <2>2, TargetStep DEF Inv, TypeInv
<1>4. CASE UNCHANGED <<held, faults>> /\ degraded' = degraded \ {"tgt"}
  BY <1>1, <1>2, <1>4, TargetStep DEF Inv, TypeInv
<1> QED
  BY <1>3, <1>4 DEF TargetBlock

\* A copy is put back: the node that does so answers for nothing any more,
\* and what the invariant says of the copy becomes what it says of the node.
LEMMA RollbackInv == ASSUME Inv, NEW n \in Nodes, Rollback(n) PROVE Inv'
<1>1. /\ held[n] # <<>> /\ undone' = undone \cup {n} /\ degraded' = degraded \cup {n}
      /\ UNCHANGED <<waiting, posts, acks, sealed, faults>>
  BY DEF Rollback, Quiet
<1>2. /\ held' \in [Nodes -> Copies] /\ held'[n] = <<>>
      /\ \A m \in Nodes \ {n} : held'[m] = held[m]
  <2>1. PICK c : c = <<>>
    OBVIOUS
  <2>2. held' = [held EXCEPT ![n] = c] /\ c \in Copies
    BY <2>1 DEF Rollback, Copies
  <2> QED
    BY <2>1, <2>2 DEF Inv, TypeInv
<1>3. TypeInv'
  BY <1>1, <1>2 DEF Inv, TypeInv
<1>4. CASE n = "src"
  <2>1. src' = held["src"][1] /\ UNCHANGED tgt
    BY <1>4 DEF Rollback
  <2>2. SoundInv'
    BY <1>1, <1>2, <1>4, <2>1 DEF Inv, SoundInv, Nodes
  <2>3. TrueInv'
    BY <1>1, <1>2, <1>4, <2>1 DEF Inv, TrueInv
  <2>4. BackedInv'
    BY <1>1, <1>4 DEF BackedInv
  <2> QED
    BY <1>3, <2>2, <2>3, <2>4 DEF Inv
<1>5. CASE n = "tgt"
  <2>1. tgt' = held["tgt"][1] /\ UNCHANGED src
    BY <1>5 DEF Rollback
  <2>2. SoundInv'
    BY <1>1, <1>2, <1>5, <2>1 DEF Inv, SoundInv, Nodes
  <2>3. TrueInv'
    BY <1>1, <1>5 DEF TrueInv
  <2>4. BackedInv'
    BY <1>1, <1>2, <1>5, <2>1 DEF Inv, BackedInv
  <2> QED
    BY <1>3, <2>2, <2>3, <2>4 DEF Inv
<1> QED
  BY <1>4, <1>5 DEF Nodes

LEMMA StepInv == Inv /\ [Next]_vars => Inv'
<1> SUFFICES ASSUME Inv, [Next]_vars PROVE Inv'
  OBVIOUS
<1>1. ASSUME NEW e \in Exports,
             \/ Create(e) \/ SealDirect(e) \/ Finalize(e)
             \/ RelayReturns(e) \/ ImportReturns(e) \/ Hear(e)
             \/ Register(e) \/ Backfill(e) \/ Import(e) \/ HearSource(e)
      PROVE  Inv'
  BY <1>1, CreateInv, SealDirectInv, FinalizeInv, RelayReturnsInv, ImportReturnsInv, HearInv,
     RegisterInv, BackfillInv, ImportInv, HearSourceInv
<1>2. ASSUME NEW n \in Nodes, Rollback(n) PROVE Inv'
  BY <1>2, RollbackInv
<1>3. CASE Status
  BY <1>3, StatusInv
<1>4. CASE SourceBlock
  BY <1>4, SourceBlockInv
<1>5. CASE TargetBlock
  BY <1>5, TargetBlockInv
<1>6. CASE Restart
  BY <1>6, RestartInv
<1>7. CASE UNCHANGED vars
  BY <1>7 DEF vars, Inv, TypeInv, SoundInv, TrueInv, BackedInv
<1> QED
  BY <1>1, <1>2, <1>3, <1>4, <1>5, <1>6, <1>7 DEF Next

\* The invariant, on which the theorems rest.
LEMMA Invariance == Spec => []Inv
BY InitInv, StepInv, PTL DEF Spec

-----------------------------------------------------------------------------
(* The theorems *)

\* The tables of both nodes, and of every copy that may be put back, stay in
\* their domains, and the fact ledgers within their cap (upsert).
THEOREM TypeCorrect == Spec => []TypeOK
<1>1. Inv => TypeOK
  <2> SUFFICES ASSUME Inv PROVE TypeOK
    OBVIOUS
  <2>1. \A s : SoundSource(s) => IsSource(s)
    BY DEF SoundSource, Sources, IsSource, FactTables
  <2>2. \A t : SoundTarget(t) => IsTarget(t)
    BY DEF SoundTarget, Targets, IsTarget, FactTables
  <2>3. IsSource(src) /\ IsTarget(tgt)
    BY <2>1, <2>2 DEF Inv, SoundInv
  <2>4. \A n \in Nodes : held[n] # <<>> =>
           IF n = "src" THEN IsSource(held[n][1]) ELSE IsTarget(held[n][1])
    BY <2>1, <2>2 DEF Inv, SoundInv, Nodes
  <2>5. Cardinality(Known(src.facts)) <= FactCap /\ Cardinality(Known(tgt.facts)) <= FactCap
    BY DEF Inv, SoundInv, SoundSource, SoundTarget, Capped
  <2> QED
    BY <2>3, <2>4, <2>5 DEF TypeOK, Inv, TypeInv
<1> QED
  BY <1>1, Invariance, PTL

\* A lock never outlives its intent and the account's only intent holds it,
\* whatever expires, is relayed, heard of or put back (set_status,
\* expire_by_height, rebuild_locks_from_status, rollback_commit).
THEOREM LockAlwaysLive == Spec => []LockIsLive
<1>1. Inv => LockIsLive
  BY DEF Inv, SoundInv, SoundSource, LockLive, LockIsLive
<1> QED
  BY <1>1, Invariance, PTL

\* The source takes an export for imported only when the target has sealed
\* the import, unless the target put back a copy (merge_cross_shard_facts,
\* record_backfill_fact, mark_import_by_export).
THEOREM ImportsAreTrue == Spec => []ImportIsTrue
<1>1. Inv => ImportIsTrue
  BY DEF Inv, TrueInv, Told, ImportIsTrue
<1> QED
  BY <1>1, Invariance, PTL

\* What the target knows of was sealed at the source, unless the source put
\* back a copy (v1_roaming_intent_create, v1_roaming_intent_finalize).
THEOREM ExportsAreBacked == Spec => []Backed
<1>1. Inv => Backed
  BY DEF Inv, BackedInv, Met, Sealed, Backed
<1> QED
  BY <1>1, Invariance, PTL
=============================================================================
