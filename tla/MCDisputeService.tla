-------------------------- MODULE MCDisputeService --------------------------
(* Instances of DisputeService small enough for TLC. *)
EXTENDS DisputeService, TLC

CONSTANTS c1, c2, c3, c4, d1, d2

TwoCalls == {c1, c2}
ThreeCalls == {c1, c2, c3}
FourCalls == {c1, c2, c3, c4}
OneDispute == {d1}
TwoDisputes == {d1, d2}

Symmetric == Permutations(Calls) \cup Permutations(Disputes)
=============================================================================
