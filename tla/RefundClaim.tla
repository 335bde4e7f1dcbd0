----------------------------- MODULE RefundClaim -----------------------------
(***************************************************************************)
(* RefundService (services/refund.service.ts), the POST /claim route that  *)
(* calls it (routes/refunds.ts) and the resolveDispute call it makes       *)
(* (lib/trustless-work.ts), against an external contract, a network that   *)
(* loses answers, and a process that may stop at any await.                *)
(*                                                                         *)
(* One action is one run of the handler between two awaits.  A request is  *)
(* one HTTP call: a client that retries makes a new request.               *)
(*                                                                         *)
(* An element of Escrows is one disputable balance: an escrowId, with its  *)
(* milestoneIndex when the escrow is multi-release.                        *)
(***************************************************************************)
EXTENDS Naturals

CONSTANTS
  Requests,    \* POST /api/refunds/claim calls
  RefundIds,   \* idempotency keys chosen by the clients
  Escrows,     \* disputable balances on chain
  Retention,   \* cleanup(retentionDays), in ticks
  MaxTime      \* bound on the clock

ASSUME RetentionAssumption == Retention \in Nat
ASSUME MaxTimeAssumption == MaxTime \in Nat

VARIABLES
  store,       \* InMemoryRefundStore: refundId -> ClaimedRefund; lost by a restart
  deployment,  \* how the process is configured; fixed from start to stop
  now,         \* the clock that stamps claimedAt
  pc,          \* where each request's handler is suspended
  payload,     \* what each request asks for
  seen,        \* the record read by alreadyClaimed, held across an await
  err,         \* the error that execute threw
  answer,      \* the HTTP status each request got
  tx,          \* the signed transaction of each request, outside the process
  escrow       \* the contract's state of each balance

handlerVars == <<pc, payload, seen, err, answer>>
chainVars == <<tx, escrow>>
vars == <<store, deployment, now, pc, payload, seen, err, answer, tx, escrow>>
-----------------------------------------------------------------------------
(* Values *)

\* recordOnly: a RefundService built without an executor.  unconfigured: no
\* API key or secret.  mainnetBlocked: mainnet settings outside production.
Deployments == {"ready", "unconfigured", "mainnetBlocked", "recordOnly"}

\* `claim` is the request the record was made for: it stands for the fields
\* copied from the payload, for claimedAt and (once submitted) for txHash.
Records == [claim : Requests,
            status : {"claimed", "pending", "submitted", "failed"}]
NoRecord == [status |-> "absent"]
Payloads == [refundId : RefundIds, escrowId : Escrows, claimedAt : Nat]
NoPayload == [refundId |-> "none"]

Running == {"inserted", "duplicate", "existing", "conflict",
            "executing", "sent", "accepted", "caught"}
PCs == Running \cup {"idle", "done"}
Errors == {"none", "TrustlessWorkNotConfigured", "MainnetSubmissionBlocked",
           "TrustlessWork"}
Answers == {"none", "201", "400", "409", "502", "503", "connectionLost"}

RefundIdOf(r) == payload[r].refundId
EscrowOf(r) == payload[r].escrowId

\* A handler that has inserted its record and not yet written the outcome.
Executing(r) == pc[r] \in {"inserted", "executing", "sent", "accepted", "caught"}
-----------------------------------------------------------------------------
Init ==
  /\ store = [i \in RefundIds |-> NoRecord]
  /\ deployment \in Deployments
  /\ now = 0
  /\ pc = [r \in Requests |-> "idle"]
  /\ payload = [r \in Requests |-> NoPayload]
  /\ seen = [r \in Requests |-> NoRecord]
  /\ err = [r \in Requests |-> "none"]
  /\ answer = [r \in Requests |-> "none"]
  /\ tx = [r \in Requests |-> "unsent"]
  /\ escrow = [e \in Escrows |-> "funded"]

Reply(r, status) ==
  /\ pc' = [pc EXCEPT ![r] = "done"]
  /\ answer' = [answer EXCEPT ![r] = status]
-----------------------------------------------------------------------------
(* claimRefund *)

\* Variant: only a submitted refund blocks its key.
NotSubmitted(i) == store[i].status # "submitted"

\* insertIfAbsent finds no row for the key.
Absent(i) == store[i] = NoRecord

\* The request fails the route's schema, has no verified user, or fails the
\* service's own checks: nothing is written.
RejectPayload(r) ==
  /\ pc[r] = "idle"
  /\ Reply(r, "400")
  /\ UNCHANGED <<store, deployment, now, payload, seen, err, chainVars>>

\* Validation, the record, and insertIfAbsent run without an await between
\* them.  Without an executor the record is final as soon as it is inserted.
Claim(r, i, e) ==
  /\ pc[r] = "idle"
  /\ payload' = [payload EXCEPT ![r] =
                   [refundId |-> i, escrowId |-> e, claimedAt |-> now]]
  /\ \/ /\ Absent(i)
        /\ store' = [store EXCEPT ![i] =
                       [claim |-> r,
                        status |-> IF deployment = "recordOnly"
                                     THEN "claimed" ELSE "pending"]]
        /\ pc' = [pc EXCEPT ![r] = "inserted"]
     \/ /\ ~Absent(i)
        /\ pc' = [pc EXCEPT ![r] = "duplicate"]
        /\ UNCHANGED store
  /\ UNCHANGED <<deployment, now, seen, err, answer, chainVars>>

\* The no-executor path returns the inserted record.
ReturnClaimed(r) ==
  /\ pc[r] = "inserted"
  /\ deployment = "recordOnly"
  /\ Reply(r, "201")
  /\ UNCHANGED <<store, deployment, now, payload, seen, err, chainVars>>

\* alreadyClaimed reads the record that is in the way ...
ReadExisting(r) ==
  /\ pc[r] = "duplicate"
  /\ seen' = [seen EXCEPT ![r] = store[RefundIdOf(r)]]
  /\ pc' = [pc EXCEPT ![r] = "existing"]
  /\ UNCHANGED <<store, deployment, now, payload, err, answer, chainVars>>

\* Variant: the test for a failed record is forgotten.
RewriteWhateverExists(r) ==
  /\ pc[r] = "existing"
  /\ store' = [store EXCEPT ![RefundIdOf(r)] = seen[r]]
  /\ pc' = [pc EXCEPT ![r] = "conflict"]
  /\ UNCHANGED <<deployment, now, payload, seen, err, answer, chainVars>>

\* ... and, when it had failed, writes the copy it read back under the key.
RewriteExisting(r) ==
  /\ pc[r] = "existing"
  /\ store' = IF seen[r].status = "failed"
                THEN [store EXCEPT ![RefundIdOf(r)] = seen[r]] ELSE store
  /\ pc' = [pc EXCEPT ![r] = "conflict"]
  /\ UNCHANGED <<deployment, now, payload, seen, err, answer, chainVars>>

\* The route turns REFUND_ALREADY_CLAIMED into a 409 with the stored claim.
AnswerConflict(r) ==
  /\ pc[r] = "conflict"
  /\ Reply(r, "409")
  /\ UNCHANGED <<store, deployment, now, payload, seen, err, chainVars>>
-----------------------------------------------------------------------------
(* TrustlessWorkRefundExecutor.execute and resolveDispute *)

Throw(r, e) ==
  /\ pc' = [pc EXCEPT ![r] = "caught"]
  /\ err' = [err EXCEPT ![r] = e]

\* The mainnet guard comes first, then the credentials; both throw before
\* anything leaves the process.  Otherwise the resolve-dispute call goes out.
StartExecution(r) ==
  /\ pc[r] = "inserted"
  /\ deployment # "recordOnly"
  /\ \/ /\ deployment = "mainnetBlocked"
        /\ Throw(r, "MainnetSubmissionBlocked")
     \/ /\ deployment = "unconfigured"
        /\ Throw(r, "TrustlessWorkNotConfigured")
     \/ /\ deployment = "ready"
        /\ pc' = [pc EXCEPT ![r] = "executing"]
        /\ UNCHANGED err
  /\ UNCHANGED <<store, deployment, now, payload, seen, answer, chainVars>>

\* resolve-dispute fails, answers with an error, or has no transaction.
BuildFails(r) ==
  /\ pc[r] = "executing"
  /\ Throw(r, "TrustlessWork")
  /\ UNCHANGED <<store, deployment, now, payload, seen, answer, chainVars>>

\* An unsigned transaction arrives: it is signed and sent in one run.
SignAndSend(r) ==
  /\ pc[r] = "executing"
  /\ pc' = [pc EXCEPT ![r] = "sent"]
  /\ tx' = [tx EXCEPT ![r] = "inFlight"]
  /\ UNCHANGED <<store, deployment, now, payload, seen, err, answer, escrow>>

\* Variant: any answer counts, the status in it is not looked at.
Answered(r) == tx[r] \in {"applied", "rejected"}

\* send-transaction answers SUCCESS, which it does for an applied transaction.
Successful(r) == tx[r] = "applied"

SendSucceeds(r) ==
  /\ pc[r] = "sent"
  /\ Successful(r)
  /\ pc' = [pc EXCEPT ![r] = "accepted"]
  /\ UNCHANGED <<store, deployment, now, payload, seen, err, answer, chainVars>>

\* Variant: only an explicit refusal is caught, a silent network is not.
SendRefused(r) ==
  /\ pc[r] = "sent"
  /\ tx[r] = "rejected"
  /\ Throw(r, "TrustlessWork")
  /\ UNCHANGED <<store, deployment, now, payload, seen, answer, chainVars>>

\* The call fails, its answer is lost or late, or carries another status: the
\* executor throws whatever has become of the transaction.
SendFails(r) ==
  /\ pc[r] = "sent"
  /\ Throw(r, "TrustlessWork")
  /\ UNCHANGED <<store, deployment, now, payload, seen, answer, chainVars>>

\* The outcome is written under the key, whatever the key holds by now.
Record(r, status) ==
  store' = [store EXCEPT ![RefundIdOf(r)] = [claim |-> r, status |-> status]]

RecordSubmitted(r) ==
  /\ pc[r] = "accepted"
  /\ Record(r, "submitted")
  /\ Reply(r, "201")
  /\ UNCHANGED <<deployment, now, payload, seen, err, chainVars>>

\* Only a missing configuration is told apart; the rest is a 502.
FailureAnswer(e) == IF e = "TrustlessWorkNotConfigured" THEN "503" ELSE "502"

RecordFailed(r) ==
  /\ pc[r] = "caught"
  /\ Record(r, "failed")
  /\ Reply(r, FailureAnswer(err[r]))
  /\ UNCHANGED <<deployment, now, payload, seen, err, chainVars>>
-----------------------------------------------------------------------------
(* Cleanup and restart *)

Tick ==
  /\ now < MaxTime
  /\ now' = now + 1
  /\ UNCHANGED <<store, deployment, handlerVars, chainVars>>

Expired(i) ==
  /\ store[i] # NoRecord
  /\ payload[store[i].claim].claimedAt + Retention < now

Cleanup ==
  /\ \E i \in RefundIds : Expired(i)
  /\ store' = [i \in RefundIds |-> IF Expired(i) THEN NoRecord ELSE store[i]]
  /\ UNCHANGED <<deployment, now, handlerVars, chainVars>>

\* The process stops: the in-memory store and every suspended handler are
\* gone, what has been sent is not, and the next process may be configured
\* differently.
Restart ==
  /\ store' = [i \in RefundIds |-> NoRecord]
  /\ deployment' \in Deployments
  /\ pc' = [r \in Requests |-> IF pc[r] \in Running THEN "done" ELSE pc[r]]
  /\ answer' = [r \in Requests |->
                  IF pc[r] \in Running THEN "connectionLost" ELSE answer[r]]
  /\ UNCHANGED <<now, payload, seen, err, chainVars>>
-----------------------------------------------------------------------------
(* The escrow contract and the parties who use it without the backend *)

\* Only a disputed balance can be resolved, and only once.
Resolvable(e) == escrow[e] = "disputed"

StartDispute(e) ==
  /\ escrow[e] = "funded"
  /\ escrow' = [escrow EXCEPT ![e] = "disputed"]
  /\ UNCHANGED <<store, deployment, now, handlerVars, tx>>

Release(e) ==
  /\ escrow[e] = "funded"
  /\ escrow' = [escrow EXCEPT ![e] = "released"]
  /\ UNCHANGED <<store, deployment, now, handlerVars, tx>>

ApplyTransaction(r) ==
  /\ tx[r] = "inFlight"
  /\ Resolvable(EscrowOf(r))
  /\ tx' = [tx EXCEPT ![r] = "applied"]
  /\ escrow' = [escrow EXCEPT ![EscrowOf(r)] = "refunded"]
  /\ UNCHANGED <<store, deployment, now, handlerVars>>

\* The contract refuses (not disputed, wrong amount) or the network drops it.
DropTransaction(r) ==
  /\ tx[r] = "inFlight"
  /\ tx' = [tx EXCEPT ![r] = "rejected"]
  /\ UNCHANGED <<store, deployment, now, handlerVars, escrow>>
-----------------------------------------------------------------------------
HandlerStep(r) ==
  \/ ReturnClaimed(r)
  \/ ReadExisting(r) \/ RewriteExisting(r) \/ AnswerConflict(r)
  \/ StartExecution(r)
  \/ BuildFails(r) \/ SignAndSend(r)
  \/ SendSucceeds(r) \/ SendFails(r)
  \/ RecordSubmitted(r) \/ RecordFailed(r)

RequestStep(r) ==
  \/ RejectPayload(r)
  \/ \E i \in RefundIds, e \in Escrows : Claim(r, i, e)
  \/ HandlerStep(r)

ChainStep ==
  \/ \E e \in Escrows : StartDispute(e) \/ Release(e)
  \/ \E r \in Requests : ApplyTransaction(r) \/ DropTransaction(r)

\* The service as it is deployed: nothing in the repository calls cleanup.
Next == (\E r \in Requests : RequestStep(r)) \/ ChainStep \/ Restart

\* The service with the daily cleanup job its documentation recommends.
NextWithCleanup == Next \/ Tick \/ Cleanup

Spec == Init /\ [][Next]_vars
SpecWithCleanup == Init /\ [][NextWithCleanup]_vars

\* Every await of a handler settles: the stores never block and fetch gives
\* up by itself.  Clients, the chain, cleanup and restarts need not act.
FairSpec == SpecWithCleanup /\ \A r \in Requests : WF_vars(HandlerStep(r))
-----------------------------------------------------------------------------
(* Properties *)

TypeOK ==
  /\ store \in [RefundIds -> Records \cup {NoRecord}]
  /\ deployment \in Deployments
  /\ now \in Nat
  /\ pc \in [Requests -> PCs]
  /\ payload \in [Requests -> Payloads \cup {NoPayload}]
  /\ seen \in [Requests -> Records \cup {NoRecord}]
  /\ err \in [Requests -> Errors]
  /\ answer \in [Requests -> Answers]
  /\ tx \in [Requests -> {"unsent", "inFlight", "applied", "rejected"}]
  /\ escrow \in [Escrows -> {"funded", "disputed", "refunded", "released"}]

\* A record says "submitted" only if the very transaction of the request it
\* records was applied and the escrow is refunded.
SubmittedIsPaid ==
  \A i \in RefundIds :
    store[i].status = "submitted" =>
      /\ tx[store[i].claim] = "applied"
      /\ escrow[EscrowOf(store[i].claim)] = "refunded"

\* Among all requests about one escrow that had to move money, at most one
\* is ever answered 201: two claimants are never both told they were paid.
OneSuccessPerEscrow ==
  \A r, q \in Requests :
    /\ answer[r] = "201" /\ tx[r] # "unsent"
    /\ answer[q] = "201" /\ tx[q] # "unsent"
    /\ EscrowOf(r) = EscrowOf(q)
    => r = q

\* Insert-first idempotency: while nothing is evicted, two handlers never
\* execute under the same refundId (routes/refunds.ts: two simultaneous
\* requests never both submit).
OneExecutorPerRefundId ==
  \A r, q \in Requests :
    Executing(r) /\ Executing(q) /\ RefundIdOf(r) = RefundIdOf(q) => r = q

\* A "pending" record is never orphaned: its own handler is still running
\* and will write the outcome.
PendingHasExecutor ==
  \A i \in RefundIds :
    store[i].status = "pending" =>
      Executing(store[i].claim) /\ RefundIdOf(store[i].claim) = i

\* Once a refundId is recorded as submitted, no late handler overwrites the
\* record; only a restart, which loses every record, removes it.
SubmittedIsFinal ==
  [][\A i \in RefundIds :
       store[i].status = "submitted" =>
         store'[i] = store[i] \/ \A j \in RefundIds : store'[j] = NoRecord]_vars

\* A request that was taken up is answered in the end, or its connection is
\* lost to a restart.
EveryClaimAnswered ==
  \A r \in Requests : pc[r] \in Running ~> pc[r] = "done"

Payout == INSTANCE RefundPayout WITH
  paid <- {e \in Escrows : escrow[e] = "refunded"},
  confirmed <- [e \in Escrows |->
                  {r \in Requests : /\ answer[r] = "201" /\ tx[r] # "unsent"
                                    /\ EscrowOf(r) = e}]

\* The refund path implements the at-most-once payout.
ImplementsPayout == Payout!PayoutSpec
-----------------------------------------------------------------------------
(* What the documentation says and the code does not do *)

\* refund.service.ts:234-235 -- a failed execution "may be retried with the
\* same refundId": a claim that finds a failed record would not be refused.
FailedMayBeRetried ==
  \A r \in Requests : answer[r] = "409" => seen[r].status # "failed"
=============================================================================
