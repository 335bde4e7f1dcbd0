---------------------------- MODULE MCRefundClaim ----------------------------
(* Instances of RefundClaim small enough for TLC. *)
EXTENDS RefundClaim, TLC

CONSTANTS r1, r2, r3, i1, i2, e1, e2

TwoRequests == {r1, r2}
ThreeRequests == {r1, r2, r3}
OneId == {i1}
TwoIds == {i1, i2}
OneEscrow == {e1}
TwoEscrows == {e1, e2}

\* Requests, keys and balances are interchangeable.
Symmetric == Permutations(Requests) \cup Permutations(RefundIds)
               \cup Permutations(Escrows)
=============================================================================
