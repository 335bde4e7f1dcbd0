--------------------------- MODULE MCEscrowWebhook ---------------------------
(* Instances of EscrowWebhook small enough for TLC. *)
EXTENDS EscrowWebhook, TLC

CONSTANTS s1, s2, e1, e2, e3, k1

OneSlot == {s1}
TwoSlots == {s1, s2}
OneEvent == {e1}
TwoEvents == {e1, e2}
ThreeEvents == {e1, e2, e3}

\* Events of one escrow, e1 and e2 with different statuses, e2 by an alias.
OneContract == [e \in Events |-> k1]
Spelled == [e \in Events |-> IF e = e1 THEN "funded" ELSE "in_review"]

SlotSymmetry == Permutations(Slots)
=============================================================================
