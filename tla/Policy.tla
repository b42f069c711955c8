------------------------------- MODULE Policy -------------------------------
(***************************************************************************)
(* The policies of one account: which are active, which are installed but  *)
(* dormant, and which activate by themselves at a chain height.  These are *)
(* the pure operators of pwm-core/src/state.rs (set_pol_mode,              *)
(* apply_policy_action, policy_is_active_at, finalized_policy_allowed) and *)
(* of pwm-core/src/tx.rs (PolicyKind, policy_weakens_cosign); the modules  *)
(* PolicyAccount and LedgerOps are built from them.                        *)
(***************************************************************************)
EXTENDS Naturals

PolicyKinds == {"same_domain", "redirect", "sender_filter", "default", "cosign"}

\* RoutingEmergencyRedirect, the only policy that cannot be taken back.
Redirect == "redirect"

Reversible(p) == p # Redirect

-----------------------------------------------------------------------------
(* ActivationMode.  "at" means something for a deferred policy only.       *)

Dormant     == [mode |-> "dormant", at |-> 0]
Immediately == [mode |-> "immediately", at |-> 0]
Deferred(k) == [mode |-> "deferred", at |-> k]

ActivationModes == [mode: {"dormant", "immediately", "deferred"}, at: Nat]

(* PolicyAction.  A SetPolicy carries a mode, the other two do not.        *)

SetPolicy(p, m)     == [act |-> "set", policy |-> p, mode |-> m]
ActivatePolicy(p)   == [act |-> "activate", policy |-> p, mode |-> Dormant]
DeactivatePolicy(p) == [act |-> "deactivate", policy |-> p, mode |-> Dormant]

PolicyActions == [act: {"set", "activate", "deactivate"},
                  policy: PolicyKinds, mode: ActivationModes]

-----------------------------------------------------------------------------
(* The two bit sets and the deferred rows an account carries.              *)

PolicySets == [active: SUBSET PolicyKinds, dormant: SUBSET PolicyKinds,
               deferred: SUBSET [policy: PolicyKinds, at: Nat]]

NoPolicies == [active |-> {}, dormant |-> {}, deferred |-> {}]

\* policy_is_active_at: the bit, or a row whose height has come.
ActiveAt(pol, p, h) ==
    \/ p \in pol.active
    \/ \E row \in pol.deferred : row.policy = p /\ h >= row.at

HasRow(pol, p) == \E row \in pol.deferred : row.policy = p

HasFutureRow(pol, p, h) == \E row \in pol.deferred : row.policy = p /\ h < row.at

\* Whether installing a policy in mode m at height h sets its active bit.
BitSetBy(m, h) == m.mode = "immediately" \/ (m.mode = "deferred" /\ m.at <= h)

\* Faults of set_pol_mode: the old rows survive; a row without its height.
SetPolModesKeepingRows(pol, modes, h) ==
    LET ps == DOMAIN modes IN
    [active   |-> (pol.active \ ps) \cup {p \in ps : BitSetBy(modes[p], h)},
     dormant  |-> (pol.dormant \ ps) \cup {p \in ps : modes[p].mode = "dormant"},
     deferred |-> pol.deferred
                  \cup {[policy |-> p, at |-> modes[p].at] :
                            p \in {q \in ps : modes[q].mode = "deferred"}}]

SetPolModesLosingHeight(pol, modes, h) ==
    LET ps == DOMAIN modes IN
    [active   |-> (pol.active \ ps) \cup {p \in ps : BitSetBy(modes[p], h)},
     dormant  |-> (pol.dormant \ ps) \cup {p \in ps : modes[p].mode = "dormant"},
     deferred |-> {row \in pol.deferred : row.policy \notin ps}
                  \cup {[policy |-> p] : p \in {q \in ps : modes[q].mode = "deferred"}}]

(* set_pol_mode for every policy of the domain of modes: what was there    *)
(* for these policies is dropped.  A deferred policy keeps its row even    *)
(* when its height has come and its bit is set.                            *)
SetPolModes(pol, modes, h) ==
    LET ps == DOMAIN modes IN
    [active   |-> (pol.active \ ps) \cup {p \in ps : BitSetBy(modes[p], h)},
     dormant  |-> (pol.dormant \ ps) \cup {p \in ps : modes[p].mode = "dormant"},
     deferred |-> {row \in pol.deferred : row.policy \notin ps}
                  \cup {[policy |-> p, at |-> modes[p].at] :
                            p \in {q \in ps : modes[q].mode = "deferred"}}]

-----------------------------------------------------------------------------
(* apply_policy_action: the actions it accepts, and what they do.          *)

CanActivate(pol, p) == ~HasRow(pol, p) /\ p \in pol.active \cup pol.dormant

\* An already active policy is accepted again and nothing changes.
Activated(pol, p) ==
    [pol EXCEPT !.active = @ \cup {p},
                !.dormant = IF p \in pol.active THEN @ ELSE @ \ {p}]

CanDeactivate(pol, p, h) ==
    Reversible(p) /\ (HasFutureRow(pol, p, h) \/ p \in pol.active)

\* A row still in the future is removed; otherwise only the bits move.
Deactivated(pol, p, h) ==
    IF HasFutureRow(pol, p, h)
    THEN [pol EXCEPT !.deferred = {row \in @ : row.policy # p}]
    ELSE [pol EXCEPT !.active = @ \ {p}, !.dormant = @ \cup {p}]

CanApply(pol, a, h) ==
    \/ a.act = "set"
    \/ a.act = "activate" /\ CanActivate(pol, a.policy)
    \/ a.act = "deactivate" /\ CanDeactivate(pol, a.policy, h)

Apply(pol, a, h) ==
    CASE a.act = "set"        -> SetPolModes(pol, [p \in {a.policy} |-> a.mode], h)
      [] a.act = "activate"   -> Activated(pol, a.policy)
      [] a.act = "deactivate" -> Deactivated(pol, a.policy, h)

\* Fault: any SET of the redirect finalizes, a dormant one too.
FinalizesOnSet(pol, a) ==
    a.act \in {"set", "activate"} /\ a.policy = Redirect /\ Redirect \notin pol.active

\* The one path that sets Account.finalized: the redirect's own activation.
Finalizes(pol, a) ==
    a.act = "activate" /\ a.policy = Redirect /\ Redirect \notin pol.active

IsEmergency(a) == a.act = "activate" /\ a.policy = Redirect

\* Fault: only the redirect is closed to a finalized account.
FinalizedAllowsOthers(pol, a) == a.policy # Redirect

\* What a finalized account may still do to its policies.
FinalizedAllows(pol, a) ==
    IsEmergency(a) /\ Redirect \notin pol.active /\ Redirect \in pol.dormant

\* Fault: the deactivation is forgotten.
WeakensCosignBySetting(a) ==
    a.policy = "cosign" /\ a.act = "set" /\ a.mode.mode # "immediately"

\* Forbidden to an account whose address makes the cosign non-disableable.
WeakensCosign(a) ==
    /\ a.policy = "cosign"
    /\ \/ a.act = "set" /\ a.mode.mode # "immediately"
       \/ a.act = "deactivate"
=============================================================================
