------------------------ MODULE PolicyAccountProofs ------------------------
(***************************************************************************)
(* Theorems about PolicyAccount, for every set of policies, either address *)
(* flag and every bound on the height.  The inductive invariant is TypeOK, *)
(* Consistent and FinalizedRedirects, each of them preserved with the help *)
(* of the ones before it.                                                  *)
(***************************************************************************)
EXTENDS PolicyAccount, TLAPS

-----------------------------------------------------------------------------
(* What the policy operators do to the policy fields of an account.        *)

(* set_pol_mode leaves well-formed policy fields.                          *)
LEMMA SetPolModesType ==
  ASSUME NEW p \in PolicySets, NEW modes, DOMAIN modes \subseteq PolicyKinds,
         \A k \in DOMAIN modes : modes[k] \in ActivationModes, NEW h \in Nat
  PROVE  SetPolModes(p, modes, h) \in PolicySets
<1>1. \A q \in DOMAIN modes : modes[q].at \in Nat
  BY DEF ActivationModes
<1> QED
  BY <1>1 DEF SetPolModes, PolicySets

(* apply_policy_action leaves well-formed policy fields.                   *)
LEMMA ApplyType ==
  ASSUME NEW p \in PolicySets, NEW a \in PolicyActions, NEW h \in Nat
  PROVE  Apply(p, a, h) \in PolicySets
<1>1. a.policy \in PolicyKinds /\ a.mode \in ActivationModes
      /\ a.act \in {"set", "activate", "deactivate"}
  BY DEF PolicyActions
<1>2. SetPolModes(p, [q \in {a.policy} |-> a.mode], h) \in PolicySets
  BY <1>1, SetPolModesType
<1>3. Activated(p, a.policy) \in PolicySets
  BY <1>1 DEF Activated, PolicySets
<1>4. Deactivated(p, a.policy, h) \in PolicySets
  BY <1>1 DEF Deactivated, PolicySets
<1> QED
  BY <1>1, <1>2, <1>3, <1>4 DEF Apply

(* set_pol_mode leaves no policy both active and dormant, and one row for  *)
(* each deferred one.                                                      *)
LEMMA SetPolModesConsistent ==
  ASSUME NEW p \in PolicySets, NEW modes, DOMAIN modes \subseteq PolicyKinds,
         \A k \in DOMAIN modes : modes[k] \in ActivationModes, NEW h \in Nat,
         p.active \cap p.dormant = {},
         \A r, s \in p.deferred : r.policy = s.policy => r = s,
         NEW q, q = SetPolModes(p, modes, h)
  PROVE  /\ q.active \cap q.dormant = {}
         /\ \A r, s \in q.deferred : r.policy = s.policy => r = s
<1>1. q.active \cap q.dormant = {}
  BY DEF SetPolModes, BitSetBy
<1>2. \A r, s \in q.deferred : r.policy = s.policy => r = s
  <2> SUFFICES ASSUME NEW r \in q.deferred, NEW s \in q.deferred, r.policy = s.policy
               PROVE  r = s
    OBVIOUS
  <2> DEFINE New == {[policy |-> k, at |-> modes[k].at] :
                        k \in {j \in DOMAIN modes : modes[j].mode = "deferred"}}
             Old == {row \in p.deferred : row.policy \notin DOMAIN modes}
  <2>1. q.deferred = Old \cup New
    BY DEF SetPolModes
  <2>2. \A x \in New : x.policy \in DOMAIN modes /\ x = [policy |-> x.policy, at |-> modes[x.policy].at]
    OBVIOUS
  <2>3. CASE r \in Old
    BY <2>1, <2>2, <2>3
  <2>4. CASE r \in New
    BY <2>1, <2>2, <2>4
  <2> QED
    BY <2>1, <2>3, <2>4
<1> QED
  BY <1>1, <1>2

(* apply_policy_action does so too.                                        *)
LEMMA ApplyConsistent ==
  ASSUME NEW p \in PolicySets, NEW a \in PolicyActions, NEW h \in Nat,
         p.active \cap p.dormant = {},
         \A r, s \in p.deferred : r.policy = s.policy => r = s,
         NEW q, q = Apply(p, a, h)
  PROVE  /\ q.active \cap q.dormant = {}
         /\ \A r, s \in q.deferred : r.policy = s.policy => r = s
<1>1. a.policy \in PolicyKinds /\ a.mode \in ActivationModes
      /\ a.act \in {"set", "activate", "deactivate"}
  BY DEF PolicyActions
<1>2. CASE a.act = "set"
  BY <1>1, <1>2, SetPolModesConsistent DEF Apply
<1>3. CASE a.act = "activate"
  BY <1>3 DEF Apply, Activated, PolicySets
<1>4. CASE a.act = "deactivate"
  BY <1>4 DEF Apply, Deactivated, PolicySets
<1> QED
  BY <1>1, <1>2, <1>3, <1>4

(* No accepted action of an account with COSIGN_NON_DISABLEABLE turns an   *)
(* active cosign off.                                                      *)
LEMMA ApplyKeepsCosign ==
  ASSUME NEW p \in PolicySets, NEW a \in PolicyActions, NEW h \in Nat,
         ActiveAt(p, "cosign", h), ~WeakensCosign(a)
  PROVE  ActiveAt(Apply(p, a, h), "cosign", h)
<1>1. a.policy \in PolicyKinds /\ a.mode \in ActivationModes
      /\ a.act \in {"set", "activate", "deactivate"}
  BY DEF PolicyActions
<1>2. CASE a.act = "set" /\ a.policy = "cosign"
  BY <1>2 DEF Apply, SetPolModes, BitSetBy, WeakensCosign, ActiveAt
<1>3. CASE a.act = "set" /\ a.policy # "cosign"
  BY <1>3 DEF Apply, SetPolModes, ActiveAt, PolicySets
<1>4. CASE a.act = "activate"
  BY <1>4 DEF Apply, Activated, ActiveAt, PolicySets
<1>5. CASE a.act = "deactivate"
  BY <1>5 DEF Apply, Deactivated, WeakensCosign, ActiveAt, PolicySets
<1> QED
  BY <1>1, <1>2, <1>3, <1>4, <1>5

-----------------------------------------------------------------------------
(* The steps of the specification.                                         *)

(* The modes a transaction may carry are activation modes.                 *)
LEMMA ModesType == Modes \subseteq ActivationModes
  BY MaxHeightAssumption DEF Modes, ActivationModes, Dormant, Immediately, Deferred

(* The actions of the model are policy actions.                            *)
LEMMA ActionsType ==
  ASSUME NEW p \in Policies, NEW m \in Modes
  PROVE  /\ SetPolicy(p, m) \in PolicyActions
         /\ ActivatePolicy(p) \in PolicyActions
         /\ DeactivatePolicy(p) \in PolicyActions
  BY PoliciesAssumption, ModesType
     DEF SetPolicy, ActivatePolicy, DeactivatePolicy, PolicyActions,
         Dormant, ActivationModes

(* A step of the specification is a registration, one policy transaction,  *)
(* the next block, or a stutter.                                           *)
LEMMA StepCases ==
  ASSUME [Next]_vars
  PROVE  \/ \E ps \in SUBSET PolicyKinds :
              \E modes \in [ps -> ActivationModes] : Register(modes)
         \/ \E a \in PolicyActions : PolicyTx(a)
         \/ NextBlock
         \/ UNCHANGED vars
<1>1. CASE \E ps \in SUBSET Policies : \E modes \in [ps -> Modes] : Register(modes)
  <2>1. PICK ps \in SUBSET Policies : \E modes \in [ps -> Modes] : Register(modes)
    BY <1>1
  <2>2. PICK modes \in [ps -> Modes] : Register(modes)
    BY <2>1
  <2>3. ps \in SUBSET PolicyKinds /\ modes \in [ps -> ActivationModes]
    BY PoliciesAssumption, ModesType
  <2> QED
    BY <2>2, <2>3
<1>2. CASE \E p \in Policies : Set(p) \/ Activate(p) \/ Deactivate(p)
  <2>1. Dormant \in Modes
    BY DEF Modes
  <2> QED
    BY <1>2, <2>1, ActionsType DEF Set, Activate, Deactivate
<1> QED
  BY <1>1, <1>2 DEF Next

-----------------------------------------------------------------------------
(* TypeOK                                                                  *)

LEMMA InitTypeOK == Init => TypeOK
<1>1. NoPolicies \in PolicySets
  BY DEF NoPolicies, PolicySets
<1>2. 1 \in Nat
  OBVIOUS
<1> QED
  BY <1>1, <1>2, Zenon DEF Init, TypeOK

LEMMA StepTypeOK == TypeOK /\ [Next]_vars => TypeOK'
<1> SUFFICES ASSUME TypeOK, [Next]_vars PROVE TypeOK'
  OBVIOUS
<1>1. ASSUME NEW ps \in SUBSET PolicyKinds, NEW modes \in [ps -> ActivationModes],
             Register(modes)
      PROVE TypeOK'
  BY <1>1, SetPolModesType DEF Register, TypeOK
<1>2. ASSUME NEW a \in PolicyActions, PolicyTx(a) PROVE TypeOK'
  <2>1. pol' \in PolicySets
    BY <1>2, ApplyType DEF PolicyTx, TypeOK
  <2>2. finalized' \in BOOLEAN
    BY <1>2 DEF PolicyTx
  <2> QED
    BY <1>2, <2>1, <2>2 DEF PolicyTx, TypeOK
<1>3. CASE NextBlock
  BY <1>3 DEF NextBlock, TypeOK
<1>4. CASE UNCHANGED vars
  BY <1>4 DEF vars, TypeOK
<1> QED
  BY <1>1, <1>2, <1>3, <1>4, StepCases

(* Height, flags and policy fields keep their types in every behaviour.    *)
THEOREM TypeCorrect == Spec => []TypeOK
  BY InitTypeOK, StepTypeOK, PTL DEF Spec

-----------------------------------------------------------------------------
(* Consistent                                                              *)

LEMMA InitConsistent == Init => Consistent
  BY DEF Init, Consistent, NoPolicies

LEMMA StepConsistent == TypeOK /\ Consistent /\ [Next]_vars => Consistent'
<1> SUFFICES ASSUME TypeOK, Consistent, [Next]_vars PROVE Consistent'
  OBVIOUS
<1>1. ASSUME NEW ps \in SUBSET PolicyKinds, NEW modes \in [ps -> ActivationModes],
             Register(modes)
      PROVE Consistent'
  BY <1>1, SetPolModesConsistent DEF Register, TypeOK, Consistent
<1>2. ASSUME NEW a \in PolicyActions, PolicyTx(a) PROVE Consistent'
  BY <1>2, ApplyConsistent DEF PolicyTx, TypeOK, Consistent
<1>3. CASE NextBlock
  BY <1>3 DEF NextBlock, Consistent
<1>4. CASE UNCHANGED vars
  BY <1>4 DEF vars, Consistent
<1> QED
  BY <1>1, <1>2, <1>3, <1>4, StepCases

(* Whatever is set, activated and deactivated, and in whatever order, no   *)
(* policy is both active and dormant and none has two deferred rows.       *)
THEOREM PoliciesConsistent == Spec => []Consistent
  BY TypeCorrect, InitConsistent, StepConsistent, PTL DEF Spec

-----------------------------------------------------------------------------
(* FinalizedRedirects and FinalizedForever                                 *)

(* Once the redirect is active its owner has no policy transaction left.   *)
LEMMA FinalizedBlocksAll ==
  ASSUME FinalizedRedirects, finalized, NEW a, PolicyTx(a)
  PROVE  FALSE
  BY DEF FinalizedRedirects, PolicyTx, FinalizedAllows

LEMMA StepFinalized ==
  TypeOK /\ FinalizedRedirects /\ (finalized => initialized) /\ [Next]_vars
    => FinalizedRedirects' /\ (finalized => initialized)'
<1> SUFFICES ASSUME TypeOK, FinalizedRedirects, finalized => initialized, [Next]_vars
             PROVE  FinalizedRedirects' /\ (finalized => initialized)'
  OBVIOUS
<1>1. ASSUME NEW ps \in SUBSET PolicyKinds, NEW modes \in [ps -> ActivationModes],
             Register(modes)
      PROVE FinalizedRedirects' /\ (finalized => initialized)'
  BY <1>1 DEF Register, FinalizedRedirects
<1>2. ASSUME NEW a \in PolicyActions, PolicyTx(a)
      PROVE FinalizedRedirects' /\ (finalized => initialized)'
  <2>1. CASE Finalizes(pol, a)
    <3>1. pol' = Activated(pol, Redirect) /\ ~HasRow(pol, Redirect)
      BY <1>2, <2>1 DEF PolicyTx, Finalizes, Apply, CanApply, CanActivate
    <3>2. Redirect \in pol'.active /\ pol'.deferred = pol.deferred
      BY <3>1 DEF Activated, TypeOK, PolicySets
    <3> QED
      BY <1>2, <3>1, <3>2 DEF PolicyTx, FinalizedRedirects, HasRow
  <2>2. CASE ~Finalizes(pol, a)
    BY <1>2, <2>2, FinalizedBlocksAll DEF PolicyTx, FinalizedRedirects
  <2> QED
    BY <2>1, <2>2
<1>3. CASE NextBlock
  BY <1>3 DEF NextBlock, FinalizedRedirects
<1>4. CASE UNCHANGED vars
  BY <1>4 DEF vars, FinalizedRedirects
<1> QED
  BY <1>1, <1>2, <1>3, <1>4, StepCases

LEMMA InitFinalized == Init => FinalizedRedirects /\ (finalized => initialized)
  BY DEF Init, FinalizedRedirects

(* A finalized account redirects at every later height.                    *)
THEOREM FinalizedAlwaysRedirects == Spec => []FinalizedRedirects
  BY TypeCorrect, InitFinalized, StepFinalized, PTL DEF Spec

LEMMA StepForever ==
  FinalizedRedirects /\ (finalized => initialized) /\ [Next]_vars
    => [finalized => finalized' /\ pol' = pol]_vars
<1> SUFFICES ASSUME FinalizedRedirects, finalized => initialized, [Next]_vars, finalized
             PROVE  finalized' /\ pol' = pol
  OBVIOUS
<1> QED
  BY StepCases, FinalizedBlocksAll DEF Register, NextBlock, vars

(* Finalization is irreversible: no later step of any kind touches the     *)
(* flag or the policies again.                                             *)
THEOREM FinalizationIsForever == Spec => FinalizedForever
<1> DEFINE FInv == FinalizedRedirects /\ (finalized => initialized)
<1>1. Spec => []FInv
  BY TypeCorrect, InitFinalized, StepFinalized, PTL DEF Spec
<1>2. FInv /\ [Next]_vars => [finalized => finalized' /\ pol' = pol]_vars
  BY StepForever
<1> QED
  BY <1>1, <1>2, PTL DEF Spec, FinalizedForever

-----------------------------------------------------------------------------
(* CosignKept                                                              *)

(* The cosign of an account whose address makes it non-disableable stays   *)
(* active from the height it became so, whatever the account sets later.   *)
THEOREM CosignIsKept == Spec => CosignKept
<1> DEFINE Kept == NonDisableable /\ initialized /\ ActiveAt(pol, "cosign", height)
                      => ActiveAt(pol', "cosign", height')
<1>1. TypeOK /\ [Next]_vars => [Kept]_vars
  <2> SUFFICES ASSUME TypeOK, [Next]_vars, NonDisableable, initialized,
                      ActiveAt(pol, "cosign", height)
               PROVE  ActiveAt(pol', "cosign", height')
    OBVIOUS
  <2>1. ASSUME NEW ps \in SUBSET PolicyKinds, NEW modes \in [ps -> ActivationModes],
               Register(modes)
        PROVE FALSE
    BY <2>1 DEF Register
  <2>2. ASSUME NEW a \in PolicyActions, PolicyTx(a)
        PROVE ActiveAt(pol', "cosign", height')
    BY <2>2, ApplyKeepsCosign DEF PolicyTx, TypeOK
  <2>3. CASE NextBlock
    <3>1. \A row \in pol.deferred : row.at \in Nat
      BY DEF TypeOK, PolicySets
    <3> QED
      BY <2>3, <3>1 DEF NextBlock, ActiveAt, TypeOK
  <2>4. CASE UNCHANGED vars
    BY <2>4 DEF vars
  <2> QED
    BY <2>1, <2>2, <2>3, <2>4, StepCases
<1> QED
  BY <1>1, TypeCorrect, PTL DEF Spec, CosignKept
=============================================================================
