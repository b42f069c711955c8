-------------------------------- MODULE Lease --------------------------------
(***************************************************************************)
(* The seal lease of the single_sealer profile: clones of one validator    *)
(* share a lease record, and a clone may seal only when its gate holds the *)
(* lease.  The gate is step_lease and step_standby of pwmd/src/lease.rs,   *)
(* the record is kept by the file or the process-local backend of          *)
(* pwmd/src/lease_backend.rs, and run_lease_gate and the seal loop of      *)
(* pwmd/src/lifecycle.rs drive it.                                         *)
(*                                                                         *)
(* A backend call runs under the key's lock and is one step; a gate makes  *)
(* up to three of them and other clones run in between.  The gate reads    *)
(* the clock once, when it starts.  The clones share a clock.  The file    *)
(* backend replaces the record by removing the old file and renaming the   *)
(* new one, so a clone that fails in between leaves no record.  Chain tips *)
(* are left out: the tip check of a takeover may refuse at any time.       *)
(***************************************************************************)
EXTENDS Naturals, FiniteSets

CONSTANTS Nodes,  \* clones of the validator
          None,   \* no lease record
          Ttl,    \* cfg.ttl_ms
          Wait,   \* cfg.takeover_ms
          MaxNow  \* bound on the clock

ASSUME NoneAssumption == None \notin [owner: Nodes, term: Nat, fence: Nat, expiry: Nat]
ASSUME ParametersAssumption ==
    Ttl \in Nat /\ Wait \in Nat /\ MaxNow \in Nat

VARIABLES now,     \* the clock, in milliseconds
          rec,     \* the shared record
          pc,      \* where each clone's seal loop stands
          at,      \* now_ms as the gate read it, 0 outside a gate
          seen,    \* the record the gate decided on, None before it has one
          rt,      \* LeaseRuntime of each clone
          granted, \* history: every fence with the owner it was given to
          lost     \* history: a clone failed between remove and rename

vars == <<now, rec, pc, at, seen, rt, granted, lost>>

LeaseRecs == [owner: Nodes, term: Nat, fence: Nat, expiry: Nat]

Runtimes == [allow: BOOLEAN, expires: Nat]

NewRuntime == [allow |-> FALSE, expires |-> 0]

Init == /\ now = 0
        /\ rec = None
        /\ pc = [i \in Nodes |-> "idle"]
        /\ at = [i \in Nodes |-> 0]
        /\ seen = [i \in Nodes |-> None]
        /\ rt = [i \in Nodes |-> NewRuntime]
        /\ granted = {}
        /\ lost = FALSE

-----------------------------------------------------------------------------
(* mk_rec, and what a clone does with a record it was given (apply_rt).    *)

NewRec(i, term, fence) ==
    [owner |-> i, term |-> term, fence |-> fence, expiry |-> at[i] + Ttl]

\* The gate is over and its locals with it.
LeaveGate(i, label) ==
    /\ pc' = [pc EXCEPT ![i] = label]
    /\ at' = [at EXCEPT ![i] = 0]
    /\ seen' = [seen EXCEPT ![i] = None]

Grant(i, r) ==
    /\ rec' = r
    /\ rt' = [rt EXCEPT ![i] = [allow |-> TRUE, expires |-> r.expiry]]
    /\ granted' = granted \cup {<<r.fence, i>>}
    /\ LeaveGate(i, "sealing")
    /\ UNCHANGED <<now, lost>>

\* The gate closes; the last lease it was given stays in the runtime.
Refuse(i) ==
    /\ rt' = [rt EXCEPT ![i].allow = FALSE]
    /\ LeaveGate(i, "idle")
    /\ UNCHANGED <<now, rec, granted, lost>>

\* The gate goes on to its next backend call, about the record it has seen.
Proceed(i, label) ==
    /\ seen' = [seen EXCEPT ![i] = rec]
    /\ pc' = [pc EXCEPT ![i] = label]
    /\ UNCHANGED <<now, rec, at, rt, granted, lost>>

-----------------------------------------------------------------------------
(* The gate.                                                               *)

StartGate(i) ==
    /\ pc[i] = "idle"
    /\ at' = [at EXCEPT ![i] = now]
    /\ pc' = [pc EXCEPT ![i] = "acquire"]
    /\ UNCHANGED <<now, rec, seen, rt, granted, lost>>

(* acquire hands out a first lease and reports any other as held, expired  *)
(* or not; on a peer's lease step_standby goes on.                         *)
Acquire(i) ==
    /\ pc[i] = "acquire"
    /\ IF rec = None THEN Grant(i, NewRec(i, 1, 1))
       ELSE IF rec.owner = i THEN Proceed(i, "renew")
       ELSE \/ at[i] >= rec.expiry + Wait /\ Proceed(i, "takeover")
            \/ Refuse(i)  \* too early, or the own tip is too far behind

\* The record is still the one the gate holds in seen, term and fence alike.
SameLease(i) ==
    /\ rec # None
    /\ rec.term = seen[i].term
    /\ rec.fence = seen[i].fence

Renewable(i) == SameLease(i) /\ rec.owner = i /\ at[i] <= rec.expiry

(* renew extends the lease it was called about; an owner that comes too    *)
(* late may take its own expired lease over at once.                       *)
Renew(i) ==
    /\ pc[i] = "renew"
    /\ IF Renewable(i)
       THEN Grant(i, [rec EXCEPT !.expiry = at[i] + Ttl])
       ELSE IF rec # None /\ rec.owner = i /\ at[i] > rec.expiry
       THEN Proceed(i, "takeover")
       ELSE Refuse(i)

\* Fault: term and fence alone are compared, a renewal goes unnoticed.
TakeableRenewed(i) == SameLease(i)

Takeable(i) == SameLease(i) /\ rec.expiry = seen[i].expiry

\* Fault: the new owner inherits the fence.
TakeoverSameFence(i) ==
    /\ pc[i] = "takeover"
    /\ IF Takeable(i) THEN Grant(i, NewRec(i, rec.term + 1, rec.fence))
       ELSE Refuse(i)

Takeover(i) ==
    /\ pc[i] = "takeover"
    /\ IF Takeable(i) THEN Grant(i, NewRec(i, rec.term + 1, rec.fence + 1))
       ELSE Refuse(i)

\* Any backend call may return an error: the gate closes.
BackendError(i) ==
    /\ pc[i] \in {"acquire", "renew", "takeover"}
    /\ Refuse(i)

-----------------------------------------------------------------------------
(* After the gate: the cluster gate, the write lock and the seal, with     *)
(* nothing read from the lease again.  A block given up looks the same.    *)

Seal(i) ==
    /\ pc[i] = "sealing"
    /\ pc' = [pc EXCEPT ![i] = "idle"]
    /\ UNCHANGED <<now, rec, at, seen, rt, granted, lost>>

\* Fault: the runtime is not set up again.
RestartedBare(i) ==
    /\ rt' = [rt EXCEPT ![i] = None]
    /\ LeaveGate(i, "idle")
    /\ UNCHANGED <<now, granted>>

\* A clone comes back with its identity and a fresh runtime.
Restarted(i) ==
    /\ rt' = [rt EXCEPT ![i] = NewRuntime]
    /\ LeaveGate(i, "idle")
    /\ UNCHANGED <<now, granted>>

Restart(i) == Restarted(i) /\ UNCHANGED <<rec, lost>>

\* write_rec removed the old record and the clone died before the rename.
DieInGap(i) ==
    /\ \/ pc[i] = "renew" /\ Renewable(i)
       \/ pc[i] = "takeover" /\ Takeable(i)
    /\ rec' = None
    /\ lost' = TRUE
    /\ Restarted(i)

Tick ==
    /\ now < MaxNow
    /\ now' = now + 1
    /\ UNCHANGED <<rec, pc, at, seen, rt, granted, lost>>

Next == \/ Tick
        \/ \E i \in Nodes :
              \/ StartGate(i) \/ Acquire(i) \/ Renew(i) \/ Takeover(i)
              \/ BackendError(i) \/ Seal(i) \/ Restart(i) \/ DieInGap(i)

Spec == Init /\ [][Next]_vars

-----------------------------------------------------------------------------
(* Properties                                                              *)

TypeOK == /\ now \in Nat
          /\ rec \in LeaseRecs \cup {None}
          /\ pc \in [Nodes -> {"idle", "acquire", "renew", "takeover", "sealing"}]
          /\ at \in [Nodes -> Nat]
          /\ seen \in [Nodes -> LeaseRecs \cup {None}]
          /\ rt \in [Nodes -> Runtimes]
          /\ granted \subseteq Nat \X Nodes
          /\ lost \in BOOLEAN

\* A clone whose status shows an open gate and a lease that has not expired.
Believes(i) == rt[i].allow /\ now < rt[i].expires

(* At most one clone believes it holds an unexpired lease, although gates  *)
(* interleave between their backend calls, act on clock readings of any    *)
(* age, and clones fail and come back: takeover waits for expiry, and the  *)
(* compare-and-swap on term, fence and expiry rejects what changed since.  *)
OneHolder == \A i, j \in Nodes : Believes(i) /\ Believes(j) => i = j

(* As long as no failure lost the record, a fence is given to one clone    *)
(* only: every change of owner raises it, so a deposed owner can be told   *)
(* from the current one.                                                   *)
FenceKept == ~lost => \A g, h \in granted : g[1] = h[1] => g[2] = h[2]

(* The lease note of sprint S2 says that a takeover raises term and fence: *)
(* a fence is given to one clone only.                                     *)
FenceUnique == \A g, h \in granted : g[1] = h[1] => g[2] = h[2]
=============================================================================
