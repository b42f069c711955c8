---------------------------- MODULE LeaseProofs ----------------------------
(***************************************************************************)
(* Theorems about Lease, for any number of clones and any Ttl and Wait.    *)
(*                                                                         *)
(* OneHolder is not inductive.  What makes it hold is that the runtime of  *)
(* a clone that believes in its lease agrees with the shared record        *)
(* (Agrees), and that a clone about to take a lease over has read, at a    *)
(* time not after now, that it had expired (TakesExpired): the             *)
(* compare-and-swap then finds the same expiry, so no one believes in the  *)
(* lease it replaces.                                                      *)
(***************************************************************************)
EXTENDS Lease, TLAPS

\* Clock readings are never in the future.
ReadsPast == \A i \in Nodes : at[i] <= now

\* The gate that renews or takes over has seen a record.
HasSeen == \A i \in Nodes : pc[i] \in {"renew", "takeover"} => seen[i] # None

\* The lease a gate wants to take over had expired when the gate started.
TakesExpired == \A i \in Nodes : pc[i] = "takeover" => seen[i].expiry <= at[i]

\* A clone that believes in its lease is the one the record names.
Agrees == \A i \in Nodes : Believes(i) => /\ rec # None
                                          /\ rec.owner = i
                                          /\ rt[i].expires = rec.expiry

Inv == TypeOK /\ ReadsPast /\ HasSeen /\ TakesExpired /\ Agrees

-----------------------------------------------------------------------------

(* A new record is a lease record.                                         *)
LEMMA NewRecType ==
  ASSUME TypeOK, NEW i \in Nodes, NEW t \in Nat, NEW f \in Nat
  PROVE  NewRec(i, t, f) \in LeaseRecs
  BY ParametersAssumption DEF TypeOK, NewRec, LeaseRecs

(* None is no lease record.                                                *)
LEMMA NoneIsNoRec == None \notin LeaseRecs
  BY NoneAssumption DEF LeaseRecs

LEMMA InitInv == Init => Inv
<1> SUFFICES ASSUME Init PROVE Inv
  OBVIOUS
<1>1. NewRuntime \in Runtimes
  BY DEF NewRuntime, Runtimes
<1>2. TypeOK
  BY <1>1 DEF Init, TypeOK
<1>3. \A i \in Nodes : ~Believes(i)
  BY DEF Init, Believes, NewRuntime
<1> QED
  BY <1>2, <1>3 DEF Init, Inv, ReadsPast, HasSeen, TakesExpired, Agrees

(* A gate that is granted r leaves the invariant true, if r is a record of *)
(* its own and no other clone believes in a lease.                         *)
LEMMA GrantInv ==
  ASSUME Inv, NEW i \in Nodes, NEW r \in LeaseRecs, r.owner = i, Grant(i, r),
         \A j \in Nodes \ {i} : ~Believes(j)
  PROVE  Inv'
<1> USE DEF Inv, TypeOK, Grant, LeaveGate
<1>1. [allow |-> TRUE, expires |-> r.expiry] \in Runtimes /\ r.fence \in Nat
  BY DEF LeaseRecs, Runtimes
<1>2. TypeOK'
  BY <1>1
<1>3. ReadsPast' /\ HasSeen' /\ TakesExpired'
  BY DEF ReadsPast, HasSeen, TakesExpired
<1>4. Agrees'
  <2>1. rec' # None /\ rec'.owner = i /\ rt'[i].expires = rec'.expiry
    BY NoneIsNoRec
  <2>2. \A j \in Nodes \ {i} : ~Believes(j)'
    BY DEF Believes
  <2> QED
    BY <2>1, <2>2 DEF Agrees
<1> QED
  BY <1>2, <1>3, <1>4

LEMMA RefuseInv ==
  ASSUME Inv, NEW i \in Nodes, Refuse(i)
  PROVE  Inv'
<1> USE DEF Inv, TypeOK, Refuse, LeaveGate
<1>1. rt' \in [Nodes -> Runtimes]
  BY DEF Runtimes
<1>2. TypeOK'
  BY <1>1
<1>3. ReadsPast' /\ HasSeen' /\ TakesExpired'
  BY DEF ReadsPast, HasSeen, TakesExpired
<1>4. \A j \in Nodes : Believes(j)' => Believes(j) /\ j # i
  BY DEF Believes, Runtimes
<1>5. Agrees'
  BY <1>4 DEF Agrees
<1> QED
  BY <1>2, <1>3, <1>5

LEMMA RestartedInv ==
  ASSUME Inv, NEW i \in Nodes, Restarted(i), lost' \in BOOLEAN,
         \/ rec' = rec
         \/ rec' = None /\ \A j \in Nodes \ {i} : ~Believes(j)
  PROVE  Inv'
<1> USE DEF Inv, TypeOK, Restarted, LeaveGate
<1>1. NewRuntime \in Runtimes
  BY DEF NewRuntime, Runtimes
<1>2. TypeOK'
  BY <1>1
<1>3. ReadsPast' /\ HasSeen' /\ TakesExpired'
  BY DEF ReadsPast, HasSeen, TakesExpired
<1>4. \A j \in Nodes : Believes(j)' => Believes(j) /\ j # i
  BY DEF Believes, NewRuntime
<1>5. Agrees'
  BY <1>4 DEF Agrees
<1> QED
  BY <1>2, <1>3, <1>5

(* The gate may go on with the record it read, if going on to a takeover   *)
(* it found the record expired.                                            *)
LEMMA ProceedInv ==
  ASSUME Inv, NEW i \in Nodes, NEW label \in {"renew", "takeover"},
         Proceed(i, label), rec # None,
         label = "takeover" => rec.expiry <= at[i]
  PROVE  Inv'
<1> USE DEF Inv, TypeOK, Proceed
<1>1. TypeOK'
  OBVIOUS
<1>2. ReadsPast' /\ HasSeen' /\ TakesExpired'
  BY DEF ReadsPast, HasSeen, TakesExpired
<1>3. Agrees'
  BY DEF Agrees, Believes
<1> QED
  BY <1>1, <1>2, <1>3

(* No one believes in a lease that a gate may take over.                   *)
LEMMA TakeableExpired ==
  ASSUME Inv, NEW i \in Nodes, pc[i] = "takeover", Takeable(i), NEW j \in Nodes
  PROVE  ~Believes(j)
<1>1. rec.expiry <= now
  <2>1. rec.expiry \in Nat /\ rec.expiry <= at[i] /\ at[i] <= now
    BY DEF Inv, TypeOK, LeaseRecs, Takeable, SameLease, TakesExpired, ReadsPast
  <2> QED
    BY <2>1 DEF Inv, TypeOK
<1>2. now \in Nat /\ rec \in LeaseRecs
  BY DEF Inv, TypeOK, Takeable, SameLease
<1> QED
  BY <1>1, <1>2 DEF Inv, Agrees, Believes, LeaseRecs

LEMMA StepInv == Inv /\ [Next]_vars => Inv'
<1> SUFFICES ASSUME Inv, [Next]_vars PROVE Inv'
  OBVIOUS
<1>1. CASE UNCHANGED vars
  BY <1>1 DEF vars, Inv, TypeOK, ReadsPast, HasSeen, TakesExpired, Agrees, Believes
<1>2. CASE Tick
  <2>1. TypeOK' /\ ReadsPast' /\ HasSeen' /\ TakesExpired'
    BY <1>2 DEF Tick, Inv, TypeOK, ReadsPast, HasSeen, TakesExpired
  <2>2. \A j \in Nodes : Believes(j)' => Believes(j)
    BY <1>2 DEF Tick, Believes, Inv, TypeOK, Runtimes
  <2> QED
    BY <1>2, <2>1, <2>2 DEF Tick, Inv, Agrees
<1> SUFFICES ASSUME NEW i \in Nodes,
                    \/ StartGate(i) \/ Acquire(i) \/ Renew(i) \/ Takeover(i)
                    \/ BackendError(i) \/ Seal(i) \/ Restart(i) \/ DieInGap(i)
             PROVE  Inv'
  BY <1>1, <1>2 DEF Next
<1>3. CASE StartGate(i)
  <2>1. TypeOK' /\ ReadsPast' /\ HasSeen' /\ TakesExpired'
    BY <1>3 DEF StartGate, Inv, TypeOK, ReadsPast, HasSeen, TakesExpired
  <2> QED
    BY <1>3, <2>1 DEF StartGate, Inv, Agrees, Believes
<1>4. CASE Acquire(i)
  <2>1. CASE rec = None
    <3>1. \A j \in Nodes : ~Believes(j)
      BY <2>1 DEF Inv, Agrees
    <3>2. NewRec(i, 1, 1) \in LeaseRecs /\ NewRec(i, 1, 1).owner = i
      BY NewRecType DEF Inv, NewRec
    <3> QED
      BY <1>4, <2>1, <3>1, <3>2, GrantInv DEF Acquire
  <2>2. CASE rec # None /\ rec.owner = i
    BY <1>4, <2>2, ProceedInv DEF Acquire
  <2>3. CASE rec # None /\ rec.owner # i
    <3>1. CASE at[i] >= rec.expiry + Wait /\ Proceed(i, "takeover")
      <4>1. rec.expiry <= at[i]
        BY <2>3, <3>1, ParametersAssumption DEF Inv, TypeOK, LeaseRecs
      <4> QED
        BY <2>3, <3>1, <4>1, ProceedInv
    <3>2. CASE Refuse(i)
      BY <3>2, RefuseInv
    <3> QED
      BY <1>4, <2>3, <3>1, <3>2 DEF Acquire
  <2> QED
    BY <2>1, <2>2, <2>3
<1>5. CASE Renew(i)
  <2>1. CASE Renewable(i)
    <3>1. \A j \in Nodes \ {i} : ~Believes(j)
      BY <2>1 DEF Renewable, Inv, Agrees
    <3> DEFINE r == [rec EXCEPT !.expiry = at[i] + Ttl]
    <3>2. r \in LeaseRecs /\ r.owner = i
      BY <2>1, ParametersAssumption DEF Renewable, SameLease, Inv, TypeOK, LeaseRecs
    <3> HIDE DEF r
    <3>3. Grant(i, r)
      BY <1>5, <2>1 DEF Renew, r
    <3> QED
      BY <3>1, <3>2, <3>3, GrantInv
  <2>2. CASE ~Renewable(i) /\ rec # None /\ rec.owner = i /\ at[i] > rec.expiry
    <3>1. rec.expiry <= at[i]
      BY <2>2 DEF Inv, TypeOK, LeaseRecs
    <3> QED
      BY <1>5, <2>2, <3>1, ProceedInv DEF Renew
  <2>3. CASE Refuse(i)
    BY <2>3, RefuseInv
  <2> QED
    BY <1>5, <2>1, <2>2, <2>3 DEF Renew
<1>6. CASE Takeover(i)
  <2>1. CASE Takeable(i)
    <3>1. \A j \in Nodes : ~Believes(j)
      BY <1>6, <2>1, TakeableExpired DEF Takeover
    <3> DEFINE r == NewRec(i, rec.term + 1, rec.fence + 1)
    <3>2. rec.term + 1 \in Nat /\ rec.fence + 1 \in Nat
      BY <2>1 DEF Takeable, SameLease, Inv, TypeOK, LeaseRecs
    <3>3. r \in LeaseRecs /\ r.owner = i
      BY <3>2, NewRecType DEF Inv, NewRec
    <3> HIDE DEF r
    <3>4. Grant(i, r)
      BY <1>6, <2>1 DEF Takeover, r
    <3> QED
      BY <3>1, <3>3, <3>4, GrantInv
  <2>2. CASE ~Takeable(i)
    BY <1>6, <2>2, RefuseInv DEF Takeover
  <2> QED
    BY <2>1, <2>2
<1>7. CASE BackendError(i)
  BY <1>7, RefuseInv DEF BackendError
<1>8. CASE Seal(i)
  <2>1. TypeOK' /\ ReadsPast' /\ HasSeen' /\ TakesExpired'
    BY <1>8 DEF Seal, Inv, TypeOK, ReadsPast, HasSeen, TakesExpired
  <2> QED
    BY <1>8, <2>1 DEF Seal, Inv, Agrees, Believes
<1>9. CASE Restart(i)
  BY <1>9, RestartedInv DEF Restart, Inv, TypeOK
<1>10. CASE DieInGap(i)
  <2>1. \A j \in Nodes \ {i} : ~Believes(j)
    <3>1. CASE pc[i] = "renew" /\ Renewable(i)
      BY <3>1 DEF Renewable, Inv, Agrees
    <3>2. CASE pc[i] = "takeover" /\ Takeable(i)
      BY <3>2, TakeableExpired
    <3> QED
      BY <1>10, <3>1, <3>2 DEF DieInGap
  <2> QED
    BY <1>10, <2>1, RestartedInv DEF DieInGap
<1> QED
  BY <1>3, <1>4, <1>5, <1>6, <1>7, <1>8, <1>9, <1>10

LEMMA Invariance == Spec => []Inv
  BY InitInv, StepInv, PTL DEF Spec

(* Record, runtimes and gates keep their types in every behaviour.         *)
THEOREM TypeCorrect == Spec => []TypeOK
<1>1. Inv => TypeOK
  BY DEF Inv
<1> QED
  BY <1>1, Invariance, PTL

(* Two clones never believe in a lease at once, whatever the clock they    *)
(* read, however their gates interleave, and even when a failing clone     *)
(* loses the record.                                                       *)
THEOREM AtMostOneHolder == Spec => []OneHolder
<1>1. Inv => OneHolder
  BY DEF Inv, Agrees, OneHolder
<1> QED
  BY <1>1, Invariance, PTL

-----------------------------------------------------------------------------
(* FenceKept: the backend has not lost the record.                         *)

(* The fences given out so far end with the record's, which is its owner's. *)
FencesEndAtRec ==
    /\ rec = None => granted = {}
    /\ rec # None => \A g \in granted : /\ g[1] <= rec.fence
                                        /\ g[1] = rec.fence => g[2] = rec.owner

FenceInv == ~lost => FencesEndAtRec /\ FenceUnique

LEMMA StepFenceInv ==
  Inv /\ FenceInv /\ [Next]_vars => FenceInv'
<1> SUFFICES ASSUME Inv, FenceInv, [Next]_vars, ~lost' PROVE (FencesEndAtRec /\ FenceUnique)'
  BY DEF FenceInv
<1>0. ~lost
  BY DEF Next, vars, Tick, StartGate, Acquire, Renew, Takeover, BackendError, Seal, Restart,
         DieInGap, Grant, Refuse, Proceed
<1>a. FencesEndAtRec /\ FenceUnique
  BY <1>0 DEF FenceInv
<1> DEFINE Fences == FencesEndAtRec /\ FenceUnique
<1> USE <1>a
<1>1. CASE UNCHANGED <<rec, granted>>
  BY <1>1 DEF FencesEndAtRec, FenceUnique
<1>2. ASSUME NEW i \in Nodes, rec = None, Grant(i, NewRec(i, 1, 1))
      PROVE Fences'
  <2>1. NewRec(i, 1, 1) \in LeaseRecs /\ NewRec(i, 1, 1).owner = i
    BY NewRecType DEF Inv, NewRec
  <2> DEFINE r == NewRec(i, 1, 1)
  <2> HIDE DEF r
  <2>2. granted' = {<<r.fence, i>>} /\ rec' = r /\ r \in LeaseRecs /\ r.owner = i
    BY <1>2, <2>1 DEF Grant, FencesEndAtRec, r
  <2> QED
    BY <2>2, NoneIsNoRec DEF FencesEndAtRec, FenceUnique, LeaseRecs
<1>3. ASSUME NEW i \in Nodes, NEW r \in LeaseRecs, rec # None, Grant(i, r),
             r.fence = rec.fence, r.owner = rec.owner, rec.owner = i
      PROVE Fences'
  <2>1. granted' = granted \cup {<<r.fence, i>>} /\ rec' = r /\ rec' # None
    BY <1>3, NoneIsNoRec DEF Grant
  <2>2. \A g \in granted' : g[1] <= r.fence /\ (g[1] = r.fence => g[2] = i)
    BY <1>3, <2>1 DEF FencesEndAtRec, LeaseRecs
  <2> QED
    BY <1>3, <2>1, <2>2 DEF FencesEndAtRec, FenceUnique
<1>4. ASSUME NEW i \in Nodes, NEW r \in LeaseRecs, rec \in LeaseRecs, Grant(i, r),
             r.fence = rec.fence + 1, r.owner = i
      PROVE Fences'
  <2>1. granted' = granted \cup {<<r.fence, i>>} /\ rec' = r /\ rec' # None
    BY <1>4, NoneIsNoRec DEF Grant
  <2>2. \A g \in granted : g[1] <= rec.fence /\ g[1] \in Nat
    BY <1>4, NoneIsNoRec DEF FencesEndAtRec, Inv, TypeOK
  <2>3. \A g \in granted : g[1] < r.fence
    BY <1>4, <2>2 DEF LeaseRecs
  <2>4. \A g \in granted : g[1] # r.fence
    BY <1>4, <2>2 DEF LeaseRecs
  <2>5. FencesEndAtRec'
    BY <1>4, <2>1, <2>2, <2>3 DEF FencesEndAtRec, LeaseRecs
  <2>6. FenceUnique'
    BY <2>1, <2>4 DEF FenceUnique
  <2> QED
    BY <2>5, <2>6
<1>5. CASE Tick
  BY <1>1, <1>5 DEF Tick
<1>6. ASSUME NEW i \in Nodes, ~UNCHANGED <<rec, granted>>,
             \/ StartGate(i) \/ Acquire(i) \/ Renew(i) \/ Takeover(i)
             \/ BackendError(i) \/ Seal(i) \/ Restart(i) \/ DieInGap(i)
      PROVE Fences'
  <2>1. CASE Acquire(i)
    BY <1>2, <1>6, <2>1 DEF Acquire, Proceed, Refuse
  <2>2. CASE Renew(i)
    <3> DEFINE r == [rec EXCEPT !.expiry = at[i] + Ttl]
    <3>1. Renewable(i) /\ Grant(i, r)
      BY <1>6, <2>2 DEF Renew, Proceed, Refuse
    <3>2. /\ r \in LeaseRecs
          /\ rec # None
          /\ r.fence = rec.fence
          /\ r.owner = rec.owner
          /\ rec.owner = i
      BY <3>1, ParametersAssumption DEF Renewable, SameLease, Inv, TypeOK, LeaseRecs
    <3> HIDE DEF r
    <3> QED
      BY <1>3, <3>1, <3>2
  <2>3. CASE Takeover(i)
    <3> DEFINE r == NewRec(i, rec.term + 1, rec.fence + 1)
    <3>1. Takeable(i) /\ Grant(i, r)
      BY <1>6, <2>3 DEF Takeover, Refuse
    <3>2. rec \in LeaseRecs /\ rec.term + 1 \in Nat /\ rec.fence + 1 \in Nat
      BY <3>1 DEF Takeable, SameLease, Inv, TypeOK, LeaseRecs
    <3>3. r \in LeaseRecs /\ r.owner = i /\ r.fence = rec.fence + 1
      BY <3>2, NewRecType DEF Inv, NewRec
    <3> HIDE DEF r
    <3> QED
      BY <1>4, <3>1, <3>2, <3>3
  <2> QED
    BY <1>6, <2>1, <2>2, <2>3
       DEF StartGate, BackendError, Refuse, Seal, Restart, Restarted, DieInGap
<1> QED
  BY <1>1, <1>5, <1>6 DEF Next, vars

LEMMA InitFenceInv == Init => FenceInv
  BY DEF Init, FenceInv, FencesEndAtRec, FenceUnique

(* Until a failure loses the record, two clones never hold leases of the   *)
(* same fence: a fence names its holder for ever.                          *)
THEOREM FencesAreUnique == Spec => []FenceKept
<1>1. FenceInv => FenceKept
  BY DEF FenceInv, FenceUnique, FenceKept
<1> QED
  BY <1>1, StepFenceInv, InitFenceInv, Invariance, PTL DEF Spec
=============================================================================
