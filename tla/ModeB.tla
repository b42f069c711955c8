------------------------------- MODULE ModeB --------------------------------
(***************************************************************************)
(* What the escrow of cross-shard exports promises ("Mode B"): an export   *)
(* locks its value; the lock is released when the value is handed to the   *)
(* importer or refunded when it goes back to the sender, never both, and   *)
(* an id that was used is never locked again.                              *)
(***************************************************************************)
CONSTANT Ids   \* export ids

VARIABLES locked, released, refunded   \* the ids in each state

Init == locked = {} /\ released = {} /\ refunded = {}

Lock(id) == /\ id \notin locked \cup released \cup refunded
            /\ locked' = locked \cup {id}
            /\ UNCHANGED <<released, refunded>>

Release(id) == /\ id \in locked
               /\ locked' = locked \ {id}
               /\ released' = released \cup {id}
               /\ UNCHANGED refunded

Refund(id) == /\ id \in locked
              /\ locked' = locked \ {id}
              /\ refunded' = refunded \cup {id}
              /\ UNCHANGED released

Next == \E id \in Ids : Lock(id) \/ Release(id) \/ Refund(id)

Spec == Init /\ [][Next]_<<locked, released, refunded>>
=============================================================================
