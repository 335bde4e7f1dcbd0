---------------------------- MODULE RefundPayout ----------------------------
(***************************************************************************)
(* What the refund path promises, with no store, network or process in     *)
(* sight: the disputed balance of an escrow is paid back at most once, and *)
(* at most one claimant is ever told that the refund went through, never   *)
(* before the money has moved.  RefundClaim implements this specification. *)
(***************************************************************************)
CONSTANTS Requests, Escrows

VARIABLES
  paid,       \* the escrows whose disputed balance has been refunded
  confirmed   \* for each escrow, the requests answered "refunded"

payoutVars == <<paid, confirmed>>

PayoutInit ==
  /\ paid = {}
  /\ confirmed = [e \in Escrows |-> {}]

Pay(e) ==
  /\ e \notin paid
  /\ paid' = paid \cup {e}
  /\ UNCHANGED confirmed

Confirm(r, e) ==
  /\ e \in paid
  /\ confirmed[e] = {}
  /\ confirmed' = [confirmed EXCEPT ![e] = {r}]
  /\ UNCHANGED paid

PayoutNext ==
  \E e \in Escrows : Pay(e) \/ \E r \in Requests : Confirm(r, e)

PayoutSpec == PayoutInit /\ [][PayoutNext]_payoutVars
=============================================================================
