-------------------------- MODULE ObservationDelivery --------------------------
(***************************************************************************)
(* What a device promises of the usage it observes: each observation is    *)
(* held until it is delivered, once, or dropped, and neither is undone.    *)
(***************************************************************************)
CONSTANT Observations
VARIABLE status    \* of each observation

Init == status = [o \in Observations |-> "unseen"]

(* Some observations go one step from one status to another. *)
Move(moved, from, to) ==
  /\ \A o \in moved : status[o] = from
  /\ status' = [o \in Observations |-> IF o \in moved THEN to ELSE status[o]]

Observe == \E moved \in SUBSET Observations : Move(moved, "unseen", "held")
Deliver == \E moved \in SUBSET Observations : Move(moved, "held", "delivered")
Drop == \E moved \in SUBSET Observations : Move(moved, "held", "dropped")

Next == Observe \/ Deliver \/ Drop

Spec == Init /\ [][Next]_status
=============================================================================
