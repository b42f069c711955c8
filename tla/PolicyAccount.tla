--------------------------- MODULE PolicyAccount ---------------------------
(***************************************************************************)
(* The life of one account's policies, block after block: the account      *)
(* registers with a list of initial policies, then policy transactions set,*)
(* activate and deactivate them while the chain height grows and deferred  *)
(* rows mature on their own.  Fees, nonces and cosignatures are in the     *)
(* module Ledger; here every transaction is taken to be signed and paid.   *)
(***************************************************************************)
EXTENDS Policy

CONSTANTS Policies,       \* the policies the transactions are about
          NonDisableable, \* the address flag COSIGN_NON_DISABLEABLE
          MaxHeight       \* bound: no block above this height

ASSUME PoliciesAssumption == Policies \subseteq PolicyKinds
ASSUME FlagAssumption == NonDisableable \in BOOLEAN
ASSUME MaxHeightAssumption == MaxHeight \in Nat

VARIABLES height,      \* inclusion height of the block being built
          initialized, \* Account.initialized
          pol,         \* the policy fields of Account
          finalized    \* Account.finalized

vars == <<height, initialized, pol, finalized>>

Modes == {Dormant, Immediately} \cup {Deferred(k) : k \in 0..MaxHeight}

Init == /\ height = 1
        /\ initialized = FALSE
        /\ pol = NoPolicies
        /\ finalized = FALSE

-----------------------------------------------------------------------------
(* TxBody::Init with its initial_policies, one row for each listed policy. *)
Register(modes) ==
    /\ ~initialized
    /\ initialized' = TRUE
    /\ pol' = SetPolModes(pol, modes, height)
    /\ UNCHANGED <<height, finalized>>

(* TxBody::Policy: the finalized gate of evaluate_policy, the flag's gate  *)
(* of validate_pol_action, then apply_policy_action.                       *)
PolicyTx(a) ==
    /\ initialized
    /\ finalized => FinalizedAllows(pol, a)
    /\ NonDisableable => ~WeakensCosign(a)
    /\ CanApply(pol, a, height)
    /\ pol' = Apply(pol, a, height)
    /\ finalized' = (finalized \/ Finalizes(pol, a))
    /\ UNCHANGED <<height, initialized>>

NextBlock ==
    /\ height < MaxHeight
    /\ height' = height + 1
    /\ UNCHANGED <<initialized, pol, finalized>>

Set(p)        == \E m \in Modes : PolicyTx(SetPolicy(p, m))
Activate(p)   == PolicyTx(ActivatePolicy(p))
Deactivate(p) == PolicyTx(DeactivatePolicy(p))

Next == \/ \E ps \in SUBSET Policies : \E modes \in [ps -> Modes] : Register(modes)
        \/ \E p \in Policies : Set(p) \/ Activate(p) \/ Deactivate(p)
        \/ NextBlock

Spec == Init /\ [][Next]_vars

-----------------------------------------------------------------------------
(* Properties                                                              *)

TypeOK == /\ height \in Nat
          /\ initialized \in BOOLEAN
          /\ pol \in PolicySets
          /\ finalized \in BOOLEAN

(* The bits and rows written by set_pol_mode and apply_policy_action never *)
(* contradict each other: a policy is not active and dormant at once, and  *)
(* it has at most one row.  The evaluator reads the first row it finds, so *)
(* a second one would be applied or ignored depending on the order.        *)
Consistent ==
    /\ pol.active \cap pol.dormant = {}
    /\ \A r, s \in pol.deferred : r.policy = s.policy => r = s

(* A finalized account redirects, now and at every later height: the bit   *)
(* of the redirect is set and no row holds it.  conservation_recipient_dst *)
(* and evaluate_policy test both the flag and the policy, so a finalized   *)
(* account whose redirect were lost would take transfers it cannot spend.  *)
FinalizedRedirects ==
    finalized => Redirect \in pol.active /\ ~HasRow(pol, Redirect)

(* Finalization is irreversible: once set, neither it nor any policy of    *)
(* the account changes again.                                              *)
FinalizedForever == [][finalized => finalized' /\ pol' = pol]_vars

(* What an address with COSIGN_NON_DISABLEABLE installs as active cosign   *)
(* stays active at every later height, whatever is set or deactivated.     *)
CosignKept ==
    [][NonDisableable /\ initialized /\ ActiveAt(pol, "cosign", height)
        => ActiveAt(pol', "cosign", height')]_vars
=============================================================================
