------------------------- MODULE MCOwnershipTransfer -------------------------
(* Instances of OwnershipTransfer small enough for TLC. *)
EXTENDS OwnershipTransfer, TLC

CONSTANTS c1, c2, c3, c4, t1, t2

ThreeCalls == {c1, c2, c3}
FourCalls == {c1, c2, c3, c4}
OneTransfer == {t1}
TwoTransfers == {t1, t2}

OneDeal == {[escrowId |-> "e1", fromOwner |-> "ann", toOwner |-> "bob"]}
TwoDeals == OneDeal \cup {[escrowId |-> "e1", fromOwner |-> "ann", toOwner |-> "cyd"]}

Symmetric == Permutations(Calls) \cup Permutations(TransferIds)
=============================================================================
