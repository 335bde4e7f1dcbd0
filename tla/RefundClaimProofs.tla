-------------------------- MODULE RefundClaimProofs --------------------------
(***************************************************************************)
(* Proofs about RefundClaim.  Part one holds with the cleanup job running; *)
(* part two needs that no record is evicted.                               *)
(***************************************************************************)
EXTENDS RefundClaim, TLAPS

-----------------------------------------------------------------------------
(* Part one: the inductive invariant of the money *)

\* A running handler and a signed transaction have a payload.
PayloadKnown ==
  \A r \in Requests :
    pc[r] \in Running \/ tx[r] # "unsent" => payload[r] \in Payloads

\* Nothing has left the process before the handler reaches "sent".
UnsentBefore ==
  \A r \in Requests :
    pc[r] \in {"idle", "inserted", "duplicate", "existing", "conflict", "executing"}
      => tx[r] = "unsent"

\* The handler goes on to record "submitted" only for an applied transaction.
AcceptedIsApplied ==
  \A r \in Requests : pc[r] = "accepted" => tx[r] = "applied"

\* The contract remembers every transaction it applied.
AppliedIsRefunded ==
  \A r \in Requests : tx[r] = "applied" => escrow[EscrowOf(r)] = "refunded"

\* The disputed balance of an escrow leaves it in at most one transaction.
PaidAtMostOnce ==
  \A r, q \in Requests :
    tx[r] = "applied" /\ tx[q] = "applied" /\ EscrowOf(r) = EscrowOf(q) => r = q

\* A submitted record is about an applied transaction.
SubmittedIsApplied ==
  \A i \in RefundIds :
    store[i].status = "submitted" => tx[store[i].claim] = "applied"

\* The copy of a record held across an await is about one, too.
SeenIsApplied ==
  \A r \in Requests :
    seen[r].status = "submitted" => tx[seen[r].claim] = "applied"

\* Nobody is answered before the handler is done.
Unanswered ==
  \A r \in Requests : pc[r] # "done" => answer[r] = "none"

\* Whoever was told 201 by a service that moves money had it moved.
SuccessIsApplied ==
  \A r \in Requests :
    answer[r] = "201" /\ tx[r] # "unsent" => tx[r] = "applied"

MoneyInv ==
  /\ TypeOK
  /\ PayloadKnown
  /\ UnsentBefore
  /\ AcceptedIsApplied
  /\ AppliedIsRefunded
  /\ PaidAtMostOnce
  /\ SubmittedIsApplied
  /\ SeenIsApplied
  /\ Unanswered
  /\ SuccessIsApplied

LEMMA InitMoneyInv == Init => MoneyInv
  BY DEF Init, MoneyInv, TypeOK, PCs, Errors, Answers, Running, PayloadKnown,
         UnsentBefore, AcceptedIsApplied, AppliedIsRefunded, PaidAtMostOnce,
         SubmittedIsApplied, SeenIsApplied, Unanswered, SuccessIsApplied, NoRecord

LEMMA HandlerMoneyInv ==
  ASSUME MoneyInv, NEW r \in Requests, RequestStep(r)
  PROVE  MoneyInv'
<1> USE DEF MoneyInv, TypeOK, PCs, Running, Errors, Answers, handlerVars, chainVars,
         PayloadKnown, UnsentBefore, AcceptedIsApplied, AppliedIsRefunded, PaidAtMostOnce,
         SubmittedIsApplied, SeenIsApplied, Unanswered, SuccessIsApplied, EscrowOf, RefundIdOf, Reply, Throw,
         Records, NoRecord, Payloads, NoPayload
<1>1. CASE RejectPayload(r)
  BY <1>1 DEF RejectPayload
<1>2. ASSUME NEW i \in RefundIds, NEW e \in Escrows, Claim(r, i, e)
      PROVE  MoneyInv'
  <2> DEFINE stored == [claim |-> r, status |-> IF deployment = "recordOnly"
                                             THEN "claimed" ELSE "pending"]
             asked == [refundId |-> i, escrowId |-> e, claimedAt |-> now]
  <2>1. asked \in Payloads /\ payload' = [payload EXCEPT ![r] = asked]
    BY <1>2 DEF Claim
  <2>2. stored \in Records /\ stored.status # "submitted"
    OBVIOUS
  <2>3. UNCHANGED <<deployment, now, seen, err, answer, tx, escrow>> /\ pc[r] = "idle"
    BY <1>2 DEF Claim
  <2>4. \/ store' = [store EXCEPT ![i] = stored] /\ pc' = [pc EXCEPT ![r] = "inserted"]
        \/ store' = store /\ pc' = [pc EXCEPT ![r] = "duplicate"]
    BY <1>2 DEF Claim
  <2>5. tx[r] = "unsent"
    BY <2>3
  <2> HIDE DEF stored, asked
  <2>6. TypeOK'
    <3>1. payload' \in [Requests -> Payloads \cup {NoPayload}]
      BY <2>1
    <3>2. store' \in [RefundIds -> Records \cup {NoRecord}]
      BY <2>2, <2>4
    <3>3. pc' \in [Requests -> PCs]
      BY <2>4
    <3>. QED
      BY <2>3, <3>1, <3>2, <3>3
  <2>7. PayloadKnown' /\ UnsentBefore' /\ AcceptedIsApplied'
    BY <2>1, <2>3, <2>4, <2>5
  <2>8. AppliedIsRefunded' /\ PaidAtMostOnce'
    BY <2>1, <2>3, <2>5
  <2>9. SubmittedIsApplied' /\ SeenIsApplied' /\ Unanswered' /\ SuccessIsApplied'
    BY <2>2, <2>3, <2>4
  <2>. QED
    BY <2>6, <2>7, <2>8, <2>9
<1>3. CASE ReturnClaimed(r)
  BY <1>3 DEF ReturnClaimed
<1>4. CASE ReadExisting(r)
    BY <1>4 DEF ReadExisting
<1>5. CASE RewriteExisting(r)
    BY <1>5 DEF RewriteExisting
<1>6. CASE AnswerConflict(r)
    BY <1>6 DEF AnswerConflict
<1>7. CASE StartExecution(r)
  <2>1. /\ pc[r] = "inserted" /\ tx[r] = "unsent"
        /\ UNCHANGED <<store, deployment, now, payload, seen, answer, tx, escrow>>
    BY <1>7 DEF StartExecution
  <2>2. \/ pc' = [pc EXCEPT ![r] = "caught"]
        \/ pc' = [pc EXCEPT ![r] = "executing"]
    BY <1>7 DEF StartExecution
  <2>3. err' \in [Requests -> Errors]
    BY <1>7 DEF StartExecution
  <2>4. TypeOK'
    BY <2>1, <2>2, <2>3
  <2>5. PayloadKnown' /\ UnsentBefore' /\ AcceptedIsApplied'
    BY <2>1, <2>2
  <2>6. AppliedIsRefunded' /\ PaidAtMostOnce' /\ SubmittedIsApplied' /\ SeenIsApplied'
    BY <2>1
  <2>7. Unanswered' /\ SuccessIsApplied'
    BY <2>1, <2>2
  <2>. QED
    BY <2>4, <2>5, <2>6, <2>7
<1>8. CASE BuildFails(r)
    BY <1>8 DEF BuildFails
<1>9. CASE SignAndSend(r)
  <2>1. /\ pc[r] = "executing" /\ pc' = [pc EXCEPT ![r] = "sent"]
        /\ tx[r] = "unsent" /\ tx' = [tx EXCEPT ![r] = "inFlight"]
        /\ UNCHANGED <<store, deployment, now, payload, seen, err, answer, escrow>>
    BY <1>9 DEF SignAndSend
  <2>2. TypeOK'
    BY <2>1
  <2>3. PayloadKnown' /\ UnsentBefore' /\ AcceptedIsApplied'
    BY <2>1
  <2>4. AppliedIsRefunded' /\ PaidAtMostOnce'
    BY <2>1
  <2>5. SubmittedIsApplied' /\ SeenIsApplied'
    BY <2>1
  <2>6. Unanswered' /\ SuccessIsApplied'
    BY <2>1
  <2>. QED
    BY <2>2, <2>3, <2>4, <2>5, <2>6
<1>10. CASE SendSucceeds(r)
    BY <1>10 DEF SendSucceeds, Successful
<1>11. CASE SendFails(r)
    BY <1>11 DEF SendFails
<1>12. CASE RecordSubmitted(r)
    BY <1>12 DEF RecordSubmitted, Record
<1>13. CASE RecordFailed(r)
    BY <1>13 DEF RecordFailed, Record, FailureAnswer
<1>. QED
  BY <1>1, <1>2, <1>3, <1>4, <1>5, <1>6, <1>7, <1>8, <1>9, <1>10, <1>11, <1>12, <1>13
     DEF RequestStep, HandlerStep

LEMMA ChainMoneyInv ==
  ASSUME MoneyInv, ChainStep
  PROVE  MoneyInv'
<1> USE DEF MoneyInv, TypeOK, PCs, Running, Errors, Answers, handlerVars, chainVars,
         PayloadKnown, UnsentBefore, AcceptedIsApplied, AppliedIsRefunded, PaidAtMostOnce,
         SubmittedIsApplied, SeenIsApplied, Unanswered, SuccessIsApplied, EscrowOf,
         Payloads
<1>1. ASSUME NEW e \in Escrows, StartDispute(e) \/ Release(e)
      PROVE  MoneyInv'
  BY <1>1 DEF StartDispute, Release
<1>2. ASSUME NEW r \in Requests, ApplyTransaction(r)
      PROVE  MoneyInv'
  BY <1>2 DEF ApplyTransaction, Resolvable
<1>3. ASSUME NEW r \in Requests, DropTransaction(r)
      PROVE  MoneyInv'
  BY <1>3 DEF DropTransaction
<1>. QED
  BY <1>1, <1>2, <1>3 DEF ChainStep

LEMMA ProcessMoneyInv ==
  ASSUME MoneyInv, Restart \/ Tick \/ Cleanup
  PROVE  MoneyInv'
<1> USE DEF MoneyInv, TypeOK, PCs, Running, Errors, Answers, handlerVars, chainVars,
         PayloadKnown, UnsentBefore, AcceptedIsApplied, AppliedIsRefunded, PaidAtMostOnce,
         SubmittedIsApplied, SeenIsApplied, Unanswered, SuccessIsApplied, EscrowOf,
         NoRecord
<1>1. CASE Restart
  BY <1>1 DEF Restart
<1>2. CASE Tick
  BY <1>2 DEF Tick
<1>3. CASE Cleanup
  BY <1>3 DEF Cleanup
<1>. QED
  BY <1>1, <1>2, <1>3

LEMMA StutterMoneyInv ==
  ASSUME MoneyInv, UNCHANGED vars
  PROVE  MoneyInv'
BY DEF vars, MoneyInv, TypeOK, PayloadKnown, UnsentBefore, AcceptedIsApplied,
       AppliedIsRefunded, PaidAtMostOnce, SubmittedIsApplied, SeenIsApplied, Unanswered,
       SuccessIsApplied, EscrowOf

\* Every step, the cleanup job's included, preserves the money invariant.
THEOREM MoneyInvariant == SpecWithCleanup => []MoneyInv
<1>1. MoneyInv /\ [NextWithCleanup]_vars => MoneyInv'
  BY HandlerMoneyInv, ChainMoneyInv, ProcessMoneyInv, StutterMoneyInv
     DEF NextWithCleanup, Next
<1>. QED
  BY <1>1, InitMoneyInv, PTL DEF SpecWithCleanup

\* The same for the service as it is deployed.
THEOREM DeployedMoneyInvariant == Spec => []MoneyInv
<1>1. MoneyInv /\ [Next]_vars => MoneyInv'
  BY HandlerMoneyInv, ChainMoneyInv, ProcessMoneyInv, StutterMoneyInv DEF Next
<1>. QED
  BY <1>1, InitMoneyInv, PTL DEF Spec

\* Every variable keeps its type.
THEOREM TypeCorrect == SpecWithCleanup => []TypeOK
  BY MoneyInvariant, PTL DEF MoneyInv

\* A submitted record names an applied transaction and a refunded escrow.
THEOREM SubmittedRecordsArePaid == SpecWithCleanup => []SubmittedIsPaid
<1>1. MoneyInv => SubmittedIsPaid
  BY DEF MoneyInv, SubmittedIsPaid, SubmittedIsApplied, AppliedIsRefunded,
         TypeOK, Records, NoRecord
<1>. QED
  BY <1>1, MoneyInvariant, PTL

\* Two claimants are never both told that the same escrow paid them.
THEOREM OneSuccess == SpecWithCleanup => []OneSuccessPerEscrow
<1>1. MoneyInv => OneSuccessPerEscrow
  BY DEF MoneyInv, OneSuccessPerEscrow, SuccessIsApplied, PaidAtMostOnce
<1>. QED
  BY <1>1, MoneyInvariant, PTL
-----------------------------------------------------------------------------
(* The refund path implements RefundPayout *)

paidBar == {e \in Escrows : escrow[e] = "refunded"}
toldBar(e) == {r \in Requests : answer[r] = "201" /\ tx[r] # "unsent" /\ EscrowOf(r) = e}
confirmedBar == [e \in Escrows |-> toldBar(e)]

LEMMA InitRefines == Init => Payout!PayoutInit
  BY DEF Init, Payout!PayoutInit

\* A step that touches neither the escrows nor who was told is a stutter.
LEMMA QuietStep ==
  ASSUME UNCHANGED escrow, \A e \in Escrows : toldBar(e)' = toldBar(e)
  PROVE  UNCHANGED Payout!payoutVars
  BY DEF Payout!payoutVars, toldBar

LEMMA StepRefines ==
  ASSUME MoneyInv, MoneyInv', [NextWithCleanup]_vars
  PROVE  [Payout!PayoutNext]_(Payout!payoutVars)
<1> USE DEF MoneyInv, TypeOK, PCs, Running, handlerVars, chainVars, EscrowOf, toldBar, Reply
<1>1. ASSUME NEW r \in Requests, RecordSubmitted(r)
      PROVE  [Payout!PayoutNext]_(Payout!payoutVars)
  <2>0. PICK e \in Escrows : EscrowOf(r) = e
    BY <1>1 DEF RecordSubmitted, PayloadKnown, Payloads
  <2>1. /\ pc[r] = "accepted" /\ tx[r] = "applied"
        /\ answer' = [answer EXCEPT ![r] = "201"]
        /\ UNCHANGED <<payload, tx, escrow>>
    BY <1>1 DEF RecordSubmitted, AcceptedIsApplied
  <2>2. escrow[e] = "refunded"
    BY <2>0, <2>1 DEF AppliedIsRefunded
  <2>3. toldBar(e) = {}
    BY <2>0, <2>1 DEF SuccessIsApplied, PaidAtMostOnce, Unanswered
  <2>4. toldBar(e)' = {r}
    BY <2>0, <2>1, <2>3
  <2>5. \A f \in Escrows : f # e => toldBar(f)' = toldBar(f)
    <3> SUFFICES ASSUME NEW f \in Escrows, f # e  PROVE toldBar(f)' = toldBar(f)
      OBVIOUS
    <3>1. \A q \in Requests : q # r => answer'[q] = answer[q]
      BY <2>1
    <3>. QED
      BY <2>0, <2>1, <3>1
  <2>6. confirmedBar[e] = {} /\ confirmedBar' = [confirmedBar EXCEPT ![e] = {r}]
    <3> HIDE DEF toldBar
    <3>. QED
      BY <2>3, <2>4, <2>5 DEF confirmedBar
  <2>7. Payout!Confirm(r, e)
    BY <2>1, <2>2, <2>6 DEF Payout!Confirm, confirmedBar
  <2>. QED
    BY <2>7 DEF Payout!PayoutNext
<1>2. ASSUME NEW r \in Requests, ApplyTransaction(r)
      PROVE  [Payout!PayoutNext]_(Payout!payoutVars)
  <2>0. PICK e \in Escrows : EscrowOf(r) = e
    BY <1>2 DEF ApplyTransaction, PayloadKnown, Payloads
  <2>1. /\ tx[r] = "inFlight"
        /\ escrow[e] = "disputed" /\ escrow' = [escrow EXCEPT ![e] = "refunded"]
        /\ tx' = [tx EXCEPT ![r] = "applied"]
        /\ UNCHANGED <<payload, answer>>
    BY <1>2, <2>0 DEF ApplyTransaction, Resolvable
  <2>2. \A f \in Escrows : toldBar(f)' = toldBar(f)
    BY <2>1 DEF SuccessIsApplied
  <2>3. confirmedBar' = confirmedBar
    BY <2>2 DEF confirmedBar
  <2>4. e \notin paidBar /\ paidBar' = paidBar \cup {e}
    BY <2>1 DEF paidBar
  <2>5. Payout!Pay(e)
    BY <2>3, <2>4 DEF Payout!Pay, confirmedBar, paidBar
  <2>. QED
    BY <2>5 DEF Payout!PayoutNext
<1>3. ASSUME NEW r \in Requests, RequestStep(r), ~RecordSubmitted(r)
      PROVE  UNCHANGED Payout!payoutVars
  <2>1. UNCHANGED escrow
    BY <1>3 DEF RequestStep, HandlerStep, RejectPayload, Claim, ReturnClaimed, ReadExisting,
         RewriteExisting, AnswerConflict, StartExecution, BuildFails, SignAndSend,
         SendSucceeds, SendFails, RecordFailed
  <2>2. \A e \in Escrows : toldBar(e)' = toldBar(e)
    <3>1. CASE RejectPayload(r)
      BY <3>1 DEF RejectPayload, Unanswered
    <3>2. ASSUME NEW i \in RefundIds, NEW f \in Escrows, Claim(r, i, f)
          PROVE  \A e \in Escrows : toldBar(e)' = toldBar(e)
      BY <3>2 DEF Claim, Unanswered
    <3>3. CASE ReturnClaimed(r)
      BY <3>3 DEF ReturnClaimed, UnsentBefore
    <3>4. CASE AnswerConflict(r)
      BY <3>4 DEF AnswerConflict, Unanswered
    <3>5. CASE RecordFailed(r)
      BY <3>5 DEF RecordFailed, FailureAnswer, Unanswered
    <3>6. CASE SignAndSend(r)
      BY <3>6 DEF SignAndSend, Unanswered
    <3>7. CASE \/ ReadExisting(r) \/ RewriteExisting(r) \/ StartExecution(r)
               \/ BuildFails(r) \/ SendSucceeds(r) \/ SendFails(r)
      BY <3>7 DEF ReadExisting, RewriteExisting, StartExecution, BuildFails, SendSucceeds,
                  SendFails
    <3>. QED
      BY <1>3, <3>1, <3>2, <3>3, <3>4, <3>5, <3>6, <3>7 DEF RequestStep, HandlerStep
  <2>. QED
    BY <2>1, <2>2, QuietStep
<1>4. CASE ChainStep /\ ~\E r \in Requests : ApplyTransaction(r)
  <2>1. ASSUME NEW e \in Escrows, StartDispute(e) \/ Release(e)
        PROVE  UNCHANGED Payout!payoutVars
    <3>1. paidBar' = paidBar
      BY <2>1 DEF StartDispute, Release, paidBar
    <3>2. \A f \in Escrows : toldBar(f)' = toldBar(f)
      BY <2>1 DEF StartDispute, Release
    <3>. QED
      BY <3>1, <3>2 DEF Payout!payoutVars, paidBar
  <2>2. ASSUME NEW r \in Requests, DropTransaction(r)
        PROVE  UNCHANGED Payout!payoutVars
    <3>1. \A f \in Escrows : toldBar(f)' = toldBar(f)
      BY <2>2 DEF DropTransaction, SuccessIsApplied
    <3>. QED
      BY <2>2, <3>1, QuietStep DEF DropTransaction
  <2>. QED
    BY <1>4, <2>1, <2>2 DEF ChainStep
<1>5. CASE Restart \/ Tick \/ Cleanup \/ UNCHANGED vars
  <2>1. UNCHANGED <<escrow, tx, payload>>
    BY <1>5 DEF Restart, Tick, Cleanup, vars
  <2>2. \A r \in Requests : answer'[r] = "201" <=> answer[r] = "201"
    BY <1>5 DEF Restart, Tick, Cleanup, vars, Unanswered
  <2>3. \A f \in Escrows : toldBar(f)' = toldBar(f)
    BY <2>1, <2>2
  <2>. QED
    BY <2>1, <2>3, QuietStep
<1>. QED
  BY <1>1, <1>2, <1>3, <1>4, <1>5 DEF NextWithCleanup, Next

\* The service, with the cleanup job and restarts, implements the
\* at-most-once payout.
THEOREM RefundImplementsPayout == SpecWithCleanup => ImplementsPayout
<1>1. MoneyInv /\ MoneyInv' /\ [NextWithCleanup]_vars
        => [Payout!PayoutNext]_(Payout!payoutVars)
  BY StepRefines
<1>. QED
  BY <1>1, InitRefines, MoneyInvariant, PTL DEF SpecWithCleanup, ImplementsPayout, Payout!PayoutSpec
-----------------------------------------------------------------------------
(* Part two: the inductive invariant of the keys, while nothing is evicted *)

\* The record under the key of an executing handler is its own.
OwnRecord ==
  \A r \in Requests :
    Executing(r) =>
      /\ store[RefundIdOf(r)].claim = r
      /\ store[RefundIdOf(r)].status =
           IF deployment = "recordOnly" THEN "claimed" ELSE "pending"

\* A record is stored under the refundId of the request it was made for.
RecordIsKeyed ==
  \A i \in RefundIds :
    store[i] # NoRecord =>
      /\ store[i].claim \in Requests
      /\ pc[store[i].claim] # "idle"
      /\ RefundIdOf(store[i].claim) = i

\* A failed record read by alreadyClaimed is still there when it is rewritten.
SeenIsCurrent ==
  \A r \in Requests :
    pc[r] = "existing" /\ seen[r].status = "failed" => store[RefundIdOf(r)] = seen[r]

KeyInv ==
  /\ OwnRecord
  /\ RecordIsKeyed
  /\ SeenIsCurrent
  /\ PendingHasExecutor

LEMMA InitKeyInv == Init => KeyInv
  BY DEF Init, KeyInv, OwnRecord, RecordIsKeyed, SeenIsCurrent, PendingHasExecutor,
         Executing, NoRecord

LEMMA RequestKeyInv ==
  ASSUME MoneyInv, KeyInv, NEW r \in Requests, RequestStep(r)
  PROVE  KeyInv'
<1> USE DEF MoneyInv, TypeOK, PayloadKnown, PCs, Running, handlerVars, chainVars, KeyInv,
         OwnRecord, RecordIsKeyed, SeenIsCurrent, PendingHasExecutor, Executing, RefundIdOf,
         Records, Payloads, NoRecord, NoPayload, Reply, Throw
<1>1. CASE RejectPayload(r)
  BY <1>1 DEF RejectPayload
<1>2. ASSUME NEW i \in RefundIds, NEW e \in Escrows, Claim(r, i, e)
      PROVE  KeyInv'
  BY <1>2 DEF Claim, Absent
<1>3. CASE ReturnClaimed(r)
  BY <1>3 DEF ReturnClaimed
<1>4. CASE ReadExisting(r)
  BY <1>4 DEF ReadExisting
<1>5. CASE RewriteExisting(r)
  BY <1>5 DEF RewriteExisting
<1>6. CASE AnswerConflict(r)
  BY <1>6 DEF AnswerConflict
<1>7. CASE StartExecution(r)
  BY <1>7 DEF StartExecution
<1>8. CASE BuildFails(r) \/ SignAndSend(r) \/ SendSucceeds(r) \/ SendFails(r)
  BY <1>8 DEF BuildFails, SignAndSend, SendSucceeds, SendFails
<1>9. CASE RecordSubmitted(r)
  BY <1>9 DEF RecordSubmitted, Record
<1>10. CASE RecordFailed(r)
  BY <1>10 DEF RecordFailed, Record
<1>. QED
  BY <1>1, <1>2, <1>3, <1>4, <1>5, <1>6, <1>7, <1>8, <1>9, <1>10 DEF RequestStep, HandlerStep

LEMMA OtherKeyInv ==
  ASSUME MoneyInv, KeyInv, ChainStep \/ Restart \/ UNCHANGED vars
  PROVE  KeyInv'
<1> USE DEF KeyInv, OwnRecord, RecordIsKeyed, SeenIsCurrent, PendingHasExecutor, Executing,
         RefundIdOf, MoneyInv, TypeOK, PCs, Running
<1>1. CASE ChainStep \/ UNCHANGED vars
  <2>. UNCHANGED <<store, deployment, pc, payload, seen>>
    BY <1>1 DEF ChainStep, StartDispute, Release, ApplyTransaction, DropTransaction, vars,
                handlerVars
  <2>. QED
    OBVIOUS
<1>2. CASE Restart
  BY <1>2 DEF Restart, NoRecord
<1>. QED
  BY <1>1, <1>2

\* Every step that evicts nothing preserves the invariant of the keys.
THEOREM KeyInvariant == Spec => [](MoneyInv /\ KeyInv)
<1>1. MoneyInv /\ KeyInv /\ [Next]_vars => KeyInv'
  BY RequestKeyInv, OtherKeyInv DEF Next
<1>. QED
  BY <1>1, InitKeyInv, DeployedMoneyInvariant, PTL DEF Spec

\* Two handlers never execute under one refundId.
THEOREM OneExecutor == Spec => []OneExecutorPerRefundId
<1>1. KeyInv => OneExecutorPerRefundId
  BY DEF KeyInv, OwnRecord, OneExecutorPerRefundId
<1>. QED
  BY <1>1, KeyInvariant, PTL

\* A pending record always has its handler.
THEOREM PendingNotOrphaned == Spec => []PendingHasExecutor
  BY KeyInvariant, PTL DEF KeyInv

\* A refundId recorded as submitted stays so until the process stops.
THEOREM SubmittedStays == Spec => SubmittedIsFinal
<1>1. ASSUME MoneyInv, KeyInv, [Next]_vars,
             NEW i \in RefundIds, store[i].status = "submitted"
      PROVE  store'[i] = store[i] \/ \A j \in RefundIds : store'[j] = NoRecord
  <2> USE DEF MoneyInv, TypeOK, PayloadKnown, Running, KeyInv, OwnRecord, SeenIsCurrent,
           Executing, RefundIdOf, NoRecord
  <2>1. ASSUME NEW r \in Requests, RequestStep(r)  PROVE store'[i] = store[i]
    <3>1. ASSUME NEW k \in RefundIds, NEW e \in Escrows, Claim(r, k, e)
          PROVE  store'[i] = store[i]
      BY <1>1, <3>1 DEF Claim, Absent
    <3>2. CASE RewriteExisting(r)
      BY <1>1, <3>2 DEF RewriteExisting
    <3>3. CASE RecordSubmitted(r) \/ RecordFailed(r)
      BY <1>1, <3>3 DEF RecordSubmitted, RecordFailed, Record
    <3>4. CASE UNCHANGED store
      BY <3>4
    <3>. QED
      BY <2>1, <3>1, <3>2, <3>3, <3>4
         DEF RequestStep, HandlerStep, RejectPayload, ReturnClaimed, ReadExisting,
             AnswerConflict, StartExecution, BuildFails, SignAndSend, SendSucceeds, SendFails
  <2>2. CASE ChainStep \/ UNCHANGED vars
    BY <2>2 DEF ChainStep, StartDispute, Release, ApplyTransaction, DropTransaction, vars
  <2>3. CASE Restart
    BY <2>3 DEF Restart
  <2>. QED
    BY <1>1, <2>1, <2>2, <2>3 DEF Next
<1>2. MoneyInv /\ KeyInv /\ [Next]_vars =>
        [\A i \in RefundIds :
           store[i].status = "submitted" =>
             store'[i] = store[i] \/ \A j \in RefundIds : store'[j] = NoRecord]_vars
  BY <1>1
<1>. QED
  BY <1>2, KeyInvariant, PTL DEF Spec, SubmittedIsFinal
=============================================================================
