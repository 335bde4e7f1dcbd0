# TrueStub: TLA+ models, model checking and proofs

TrueStub is a marketplace for tickets. A buyer's money sits in an escrow contract that
Trustless Work runs on Stellar; the TrueStub backend refunds disputed escrows, transfers
ticket ownership, keeps disputes and an audit log, and mirrors the escrow's status into
Postgres (through Hasura) when Trustless Work calls its webhook. The browser deploys and
funds escrows itself and keeps a copy of the one it shows. This directory models the parts
of both where order, failure and concurrency decide whether they are right.

Paths in this file are relative to `src/apps/backend/src/`, or where they begin with `FE/` to
`src/apps/frontend/src/`, unless they say otherwise.

Contents: [the system](#the-system), [how the code is modelled](#how-the-code-is-modelled),
[the modules](#the-modules), [the runs](#the-runs), [fairness](#fairness),
[the proofs](#the-proofs), [where the code and its documents disagree](#where-the-code-and-its-documents-disagree),
[what is not modelled](#what-is-not-modelled), [the plan](#the-plan).

## The system

### Components, their state, and how they meet

| Component | Code | State it keeps | Operations |
| --- | --- | --- | --- |
| Refund claims | `services/refund.service.ts`, `routes/refunds.ts`, `lib/trustless-work.ts`, `lib/network-guard.ts` | one record per `refundId` (claimed, pending, submitted, failed), in memory | claim, execute on chain, clean up |
| Ownership transfers | `services/ownership-transfer.service.ts`, `routes/transfers.ts` | one transfer per `transferId`; a mutex with a queue per `transferId`, in memory | initiate, accept, cancel |
| Disputes | `services/dispute.service.ts`, `routes/disputes.ts` | one dispute per `disputeId`; an audit log of its own, in memory | open, escalate, resolve, withdraw, list SLA breaches (and alert) |
| Escrow-status webhook | `routes/webhooks.ts`, `services/hasura.service.ts` | the cache of processed events, in memory; the status column, in Postgres | receive a delivery |
| Changelog | `services/changelog.service.ts`, `routes/changelog.ts` | write-once entries, in memory; listeners | append, remove, record a money movement, list |
| Notification delivery | `services/notification.service.ts` | notifications, dead letters (repository not in the tree) | send with retries |
| Accounts and recovery codes | `routes/users.ts`, `routes/sync-user.ts`, `routes/recovery-codes.ts` | a Hasura row, a Firebase account and second factor, an audit entry, code sets | delete me, sync, generate codes, redeem one |
| Escrow blocks | `FE/components/tw-blocks`, `FE/lib/retry.ts` | the selected escrow, its copy in localStorage | deploy (with retries), fund, approve, change a milestone |
| Rate limiter | `FE/lib/rate-limit.ts`, `FE/middleware.ts` | a bounded table of windows | check |
| Token refresher | `FE/lib/authTokenRefresh.ts`, `FE/config/apollo.ts` | one timer | follow the session, refresh |
| Listings and alerts | `routes/listings.ts`, `routes/listing-alerts.ts`, `services/listing-alert.service.ts` | watches | watch, price check |
| Balance monitor, fraud score, analytics, health, migrations | see `PROJECT.json` | none, or one statement each | |
| Rest of the frontend | `FE` | browser state | pages and forms |
| Contracts | `src/contracts` | none (placeholder) | |

Calls go one way. A client's HTTP request passes `requireAuth` and reaches a router, the
router calls its service, the service awaits its store and, where there is one, an external
party:

    client ── POST /api/refunds/claim ──> RefundService ──> Trustless Work ──> Stellar
    client ── POST /api/transfers/... ──> OwnershipTransferService (mutex per transferId)
    client ── POST /api/disputes/...  ──> DisputeService ──> its own ChangelogService
    client ── GET  /sla/breaches      ──> disputes router ──> shared changelogService
    client ── DELETE /api/users/me ──> Hasura, shared changelogService, Firebase
    Trustless Work ── POST /webhooks/escrow-status ──> Hasura ──> Postgres
    browser form ── fetch, sign, send ──> Trustless Work; then its own copy of the escrow

The services share no store, so each is modelled in a module of its own. They meet in three
places: the dispute service and the deletion of an account write changelog entries (in their
models the entry itself; how the changelog keeps it is `Changelog`), and a refund, the browser
and the webhook meet in the escrow contract (in each model the contract's state, which other
parties change too).

### What is hard about it

* **Interleavings at `await`.** Node runs one continuation at a time, so what lies between two
  awaits is atomic and nothing else is. Every store is an asynchronous interface meant to be
  replaced by a database (`services/refund.service.ts:10-12`, `services/ownership-transfer.service.ts:22-26`);
  two calls about one key interleave at each of its calls, and the tests start such calls
  together with `Promise.allSettled`. The calls to Trustless Work and Hasura are network I/O
  already.
* **Lost answers and late effects.** `send-transaction` may move the money and lose its answer, or
  take effect after its failure was reported; a mutation may be written and time out; Trustless Work
  repeats an event until it sees a 200. Two transactions in Postgres do not see each other's inserts.
* **Restarts.** Stores, mutexes, queues and the dedup cache are in memory, and
  `src/docs/ARCHITECTURE.md:73-74` says so. The chain and Postgres remember what the process forgets.
* **The browser.** A form holds the escrow it was rendered with while it waits for the wallet and
  the network; meanwhile another form answers or the page is loaded anew. A timer is set after an
  await in which its user may have left.
* **Swallowed failures.** The audit entry of a transition and the audit line of a deletion are appended
  on the way; when the append fails, the call goes on and is answered 200.
* **Bounds.** The dedup cache has a TTL and a maximum; an SLA is counted from a stamp that is copied
  from record to record. (The job that would evict refund records by age alone is not scheduled.)

`PROJECT.json` lists each hazard at its line, with the properties that would catch it.

### What makes each component correct

* Refunds: a balance is paid at most once; at most one claimant is told so; the record agrees
  with the chain; one handler executes per `refundId`; a submitted record stays; every claim is
  answered.
* Transfers: each call looks atomic; one initiate and one accept-or-cancel wins; final is final;
  the mutex admits one call, in order, and forgets none.
* Disputes: the state moves along the transition table; the stamps agree with the state; the
  audit trail replays to the state, but for the entries whose own append failed; an alert counts from
  a real escalation.
* Webhook: an event that is no longer delivered has been written, or its mutation ran and the escrow
  has no row; it is notified once; the cache holds only what a mutation ran for and stays bounded;
  every event is acknowledged in the end.
* Changelog: an id is written once until it is removed, each change is announced as what it was and
  in order, what the author was told is stored is kept until a removal or a restart, and a listing
  that says it is at its end has shown everything.
* Notifications: an event is delivered by one call, once, or alerted on; never neither.
* Accounts: personal data go before the account does, a deletion leaves its audit line unless its own
  append failed, a recovery code works once, and two sets are in force only if two generations ran in
  Postgres at the same time.
* Escrow blocks: the local copy never claims what the contract does not have, and keeps up with what
  the user was told; one submission deploys one contract, unless it was told of a failure, or of nothing,
  by one that took effect; what was paid adds up to what users were told
  they paid, and nobody pays twice.
* Rate limiter: the table stays bounded, a key gets no more than two limits in any window's length,
  is refused only when its limit is spent, and Retry-After is true.
* Token refresher: the timer is within reach of `clearTimer`, is for the user who is there, and a
  session is never without one for no reason.

## How the code is modelled

* **A step is what runs between two awaits.** An action is named after what the handler does in
  that run and ends where the code awaits, answers or throws. A handler's local variables that
  survive an await are state (`seen`, `err`, `made`, `batch`, `job`), its place is `pc`, its HTTP
  status is `answer`.
* **A request is a value, used once.** A client that retries is another request, so retries,
  duplicates and reordered requests are all in the model: any number of requests, in any order.
* **Data is what the properties tell apart.** A refund record is the request it was made for and
  its status; a dispute is its state and stamps; an HTTP answer is its status code. Amounts,
  reasons, wallets and messages are left out; the schema checks on them are `RejectPayload`.
* **Time is counted in ticks**, so that TTLs and SLAs pass inside a bound.
* **Restarts** drop what is in memory and every suspended handler. `answer` becomes `lost` (or
  `connectionLost`) for the handlers that were running; calls that were answered before keep their
  answer, in every module. What is in flight outside the process stays there.
* **Faults of the in-memory stores are left out**: a `Map` does not fail. Faults of the network are
  in: a call fails, or its answer is lost, whatever it did at the other end, then or later. The one
  exception are the audit entries of disputes and deletions: the code catches whatever their append
  throws, so the append may throw (`LoseEntry`, `FailAudit`).
* **A comment `Variant:`** marks an operator that the specification does not use: the way the
  definition after it could plausibly be wrong. Every property listed in `PROJECT.json` is violated
  when one such variant takes the place of its definition, so that none holds by accident.

At this commit the backend does not type-check: some modules are imported and not in the tree
(`lib/requestContext`, which `services/refund.service.ts:43` takes `getRequestId` from; `lib/requestLogger`,
which `lib/logger.ts:20` and `lib/trustless-work.ts:18` name; `utils/logger`, `services/alert.service`,
`lib/postgres`, `repositories/notification.repository`, `types/*`), `services/dispute.service.ts` uses
`DISPUTE_EVENT_ENTRY_TYPES`, `routes/disputes.ts` `MAX_DISPUTE_PAGE_SIZE` and `index.ts:41`
`recoveryCodesRouter` without importing them, and `NotificationService` lacks the methods the webhook
calls. `getRequestId` is imported from `middleware/requestLogger`, which exports `getCorrelationId` and no such
name, by `services/dispute.service.ts:71`, `services/changelog.service.ts:75`,
`services/ownership-transfer.service.ts:28`, `routes/disputes.ts:37`, `routes/changelog.ts:35` and
`routes/transfers.ts:33`; as it stands, each handler that logs with it would throw there. It is modelled as
bound to `getCorrelationId`, as `services/hasura.service.ts:12` imports it; of the other names the one that
matters is `DISPUTE_EVENT_ENTRY_TYPES` at `services/dispute.service.ts:404`, inside the `try` that swallows its
`ReferenceError`: at this commit every transition takes the step `LoseEntry`, and with the import added it
may take `CheckEntry` and `WriteEntry`. Both are in the model. In the frontend both `useInitializeEscrow.ts` use `useTrustlineAssets` without importing it. The handlers are modelled as they are
written, with any other such name bound to the declaration the repository has, or as an external call that may
succeed or throw.

## The modules

| Module | Stands for | State and actions |
| --- | --- | --- |
| `RefundPayout` | what the refund path promises | a balance is paid once; one claimant is then told so |
| `RefundClaim` | `RefundService`, `POST /claim`, `resolveDispute`, the mainnet guard | `store`, `deployment`, handlers, transactions, the contract. `Claim` is validation and `insertIfAbsent`; `ReadExisting`/`RewriteExisting`/`AnswerConflict` are `alreadyClaimed`; `StartExecution`, `BuildFails`, `SignAndSend`, `SendSucceeds`, `SendFails` are the executor; `RecordSubmitted`/`RecordFailed` write the outcome; `Cleanup` is `cleanupBefore`; `StartDispute`, `Release`, `ApplyTransaction`, `DropTransaction` are the world outside |
| `AtomicTransfer` | what the transfer service promises | each call happens at once, in one place between request and answer |
| `OwnershipTransfer` | `OwnershipTransferService`, its mutex and its routes | `store`, `locked`, `queue`, handlers. `Acquire` is `getLock().acquire()`; `ReleaseAndReply` the `finally` with its hand-over; `Insert`, `Read`, `Write` the store calls; the `Refuse…` and `Finish…` actions the ways out |
| `DisputeService` | `DisputeService`, its routes, the changelog append it makes | `store`, the two logs `own` and `audit`, handlers, the clock. `Begin` reads; `InsertOpen`/`Transition` write; `CheckEntry`/`WriteEntry` are `appendEntry`, `LoseEntry` whatever it throws; `ListEscalated`, `PickBreaches`, `WriteAlert` are `GET /sla/breaches` |
| `EscrowWebhook` | `POST /webhooks/escrow-status`, `updateEscrowStatus` | `row`, the cache `kept`, handlers, mutations nobody waits for. `IgnoreDuplicate`/`StartUpdate` are the check, `UpdateRow`/`LateUpdate`/`FailUpdate` the mutation, which writes the escrow's row (`Write`) or finds none (`MatchNothing`), `InsertRow` the browser's insert, `Mark`, `Notify`/`SkipNotify`, `Acknowledge` the rest |
| `WriteOnceLog` | what the changelog promises of an id | an entry is written where there is none, or removed, and announced before the next change |
| `Changelog` | `ChangelogService`, `routes/changelog.ts` | `entries`, `news` (the last event of each id), handlers, `listing`. The look-up, the write and the announcement of an append and of a removal are runs of their own; `recordMoneyMovement` looks up once more before it appends; a listing reads its page and then its total |
| `NotificationService` | `sendNotification`, `dispatchWithRetry`, `handleDeliveryFailure` | repository and provider, external: each call may fail before or after its effect. `StartSend` is the duplicate check, `Create` the row, `Deliver` one attempt, `BackOff` the pause, `HandleDeliveryFailure` dead letter and alert |
| `Accounts` | `DELETE /me`, `POST /sync-user`, both recovery-code routes | the row, the account, the second factor, the audit line, the code sets. `Anonymize`, `LookUpAudit`, `AppendAudit` or `FailAudit`, `RemoveAccount` are the deletion in order; `StartReplace` and `EndReplace` are the transaction of `REPLACE_CODES` (its DELETE, and its INSERT with the commit), `UseCode` one conditional update; `LandLate` is a call that takes effect after its caller gave up on it |
| `EscrowClient` | `EscrowProvider`, the mutations, the forms that deploy, fund, approve and change a milestone, `retryWithBackoff` | contracts (external), `selected`, `stored`, forms. `FetchAndSign`, `Send`, `Succeed` or `Fail` are a mutation; `Update` is `updateEscrow`; `TryAgain` the retry; `Reload` a page load; `Land` a transaction that takes effect after its failure was reported or its page was gone |
| `RateLimit` | `checkRateLimit`, `prune`, the Retry-After header | `hits`, a sequence: the `Map` in insertion order. A request is one action |
| `TokenRefresh` | `startAuthTokenRefresh`, `errorLink`'s forced refresh | session (Firebase, external), schedulings, timers, refreshes under way. `Listener` is the callback, `SetTimer` what follows the await of `scheduleRefresh` |
| `MC…` | | the small sets and symmetries the runs use. `MCBackend` and `MCFrontend` put three modules that share no state into one run: a variable `part`, chosen initially, says which of them the behaviour is one of |
| `…Proofs` | | theorems and proofs about the module of that name; `FrontendProofs`: about `EscrowClient`, `RateLimit` and `TokenRefresh` |

Some choices need a word:

* An element of `Escrows` in `RefundClaim` is one disputable balance: an escrow, with a milestone
  when it is multi-release. The contract is external. It resolves only a disputed balance and only
  once; that is the one thing about it the properties rely on.
* `RefundClaim` has two next-state relations. `Next` is the service as deployed: nothing in the
  repository calls `cleanup`. `NextWithCleanup` adds the daily job its comment recommends.
* `OwnershipTransfer` hands its mutex over while it stays locked, as `release` does; a waiting call
  has no action of its own.
* In `EscrowWebhook` a slot is a delivery in progress, and the next delivery may use it again. A
  rank (`nth`) stands for the insertion order of JavaScript's `Map`, which pruning relies on;
  ranks are compacted, which keeps their order. `applied`, `unmatched` and `notified` are history
  variables. The UPDATE has a `where`: for an escrow without a row it changes nothing and is a success like
  any other (`services/hasura.service.ts:99-101`). Rows come from the browser, at their own time.
* Neither the dispute service nor the changelog keeps calls about one key apart, and with two at once
  little can be promised. What they promise otherwise is checked in the midst of it: a history
  variable (`overlapped`, `contended`) collects the keys on which two calls were at work together,
  and the properties speak of the others. Likewise `excused` in the webhook (events handled twice
  at once, or forgotten by cache or restart), `metEvents`, `doubtful` and `cutShort` in
  notifications, `crossed` and `unaudited` in accounts, `crossed` and `doubtful` in the escrow blocks,
  `overtaken` and `uncovered` in the token refresher; `unlogged` in disputes (entries whose append
  failed) and `bygone` and `forgotten` (calls from before the last restart) in transfers, changelog and
  disputes. No guard reads them.
* Transactions in Postgres run at READ COMMITTED, its default. One conditional update is one step. The
  DELETE of `REPLACE_CODES` deletes what was committed before it, so that two that overlap keep both sets;
  the conflict of two DELETEs on one row, where the second waits for the first, changes neither result.
* What a caller has given up on stays on its way in `late` (webhook), `adrift` (accounts) and `afloat`
  (escrow blocks), and takes effect at any later time or never.
* An entry of `Changelog` is its author and its rank among the timestamps: enough to tell two entries
  apart and to list them in order. The events are `news`, the last one per id, since a listener that
  follows the log is led astray by the order of these.
* `Accounts` follows one user; users share nothing. The ten codes of a set behave alike and are one.
* A form, dialog or button disables itself while its submission is under way (`isSubmitting` is state of the
  instance); another instance of the same kind does not, so any submissions may overlap.
* `EscrowClient` gives each fund form one unit to pay in; `Balance` is then the number of payments. One
  flag stands for a milestone's approval or a status.
* `RateLimit` has one length of window, as every rule of the code has, and a limit per key, `LimitOf`: a
  key is a client on one path. It remembers, per key, the last `2 * LimitOf[k] + 1` times the key was let
  through; the property about any stretch of time needs no more. `Entries` takes some entries of the
  `Map` in their order: the filter that `prune` is, written without recursion.

## The runs

All invariants and properties are explained at their definitions. Distinct states in brackets.

| Run | Asks | Bounds |
| --- | --- | --- |
| `refund_core` (112 510) | Does the record agree with the chain, is there one success per balance and one executor per key, is submitted final? | 3 requests, 2 refundIds, 1 balance, no cleanup |
| `refund_cleanup` (304 456) | With evictions too, is a balance paid once and confirmed to one, and is every claim answered? | 2 requests, 2 refundIds, 1 balance, `Retention` 1, `MaxTime` 2 |
| `refund_retry` | May a failed claim be retried under its refundId, as documented? **No.** | 2 requests, 1 refundId |
| `transfer` (459 961) | Does the mutex exclude and keep order, is the winner stored, does each call look atomic, is every call answered? | 4 calls, 1 transferId, 2 deals |
| `dispute_core` (1 872 817) | Does a stored dispute stay a whole record however calls overlap; and where they do not, are table, trail, confirmations and alerts right? | 4 calls, 1 dispute, SLA 1 tick, `MaxTime` 2 |
| `dispute_final` | Is a final state final, as documented? **No.** | 3 calls |
| `dispute_audit` | Is every transition in the served changelog, as documented? **No.** | 3 calls |
| `backend` (506 679) | Changelog: does it implement the write-once log where calls on an id do not overlap, keep what it told, and end a listing only when all was shown? Notifications: is none dropped in silence or doubled? Accounts: do deletion, sync and codes keep their order? | 4 calls on 2 ids, pages of 1; 3 sends, 1 event, 2 attempts; 3 requests |
| `webhook_core` (1 793 072) | Is no update lost that had a row to write, is the cache sound, is an event notified once unless handled twice at once or forgotten? | 2 slots, 2 events of one escrow, `TTL` 1, `MaxKept` 1, `MaxTime` 2 |
| `webhook_live` (20 304) | Is every event acknowledged, and the cache bounded? | 1 slot, 3 events of one escrow, `TTL` 1, `MaxKept` 1, `MaxTime` 0 |
| `webhook_concurrent` | One notification also if deliveries overlap, as documented? **No.** | 2 slots, 1 event |
| `frontend` (614 442) | Escrow blocks: is the local copy real and up to date, is one contract deployed? Limiter: are its bounds kept when the table overflows? Token refresher: one timer, for the right user? | 3 submissions, 3 contracts, 1 flag, 2 attempts; 3 keys with limits 2, 2, 1 in a table of 2, `Window` 3, `MaxTime` 6; 2 users, 4 timers |

Why these bounds are enough:

* *Requests and calls.* The races here are between two handlers about one key. A third request
  lets a race meet the answer of an earlier one (refunds, notifications, deletions), and a fourth
  lets two calls queue behind a holder while another arrives (transfers), lets a full life of a
  dispute be followed by a listing, an entry be removed and written again under a third call
  (changelog). In the escrow blocks three submissions let a payment meet a deployment and an approval.
* *Keys.* Handlers about different keys share nothing in transfers and disputes, so one key is
  enough there. Refunds need two, since two refundIds meet in one balance; listings need two, to
  have a second page; the limiter needs one more key than its table holds, and the escrow blocks one
  more contract than a submission has attempts.
* *Clock.* `MaxTime` exceeds `Retention`, `TTL` or the SLA by at least one tick in the runs whose
  question is what happens afterwards (`refund_cleanup`, `dispute_core`, `webhook_core`); in
  `frontend` it is two windows, so that a window follows another and both are half full at a
  boundary, and `Second` is 2 ticks so that rounding matters. `refund_core` has no cleanup, and `now`
  matters to nothing else in it. In `webhook_live` an event leaves the cache because of `MaxKept`.
* *Cache.* `MaxKept` 1 with 2 or 3 events makes pruning by size happen at once.
* *Attempts and counts.* Two attempts are a first and a last. `MaxNotices` caps a history counter one
  above what the property allows; where no property counts notices it is 0. `MaxTimers` 4 is a sign-in,
  two refreshes and another user's sign-in.

What is proved (below) is proved for all values of these constants. Symmetry is used only in runs
without liveness properties, over sets whose elements nothing tells apart; `MCEscrowWebhook`'s events
differ in status and are not permuted. Deadlock is checked wherever the process can
restart, since then it never stops; `webhook_live` has no restart and ends when everything is
acknowledged, and in `backend` and `frontend` the parts end with their last request, tick or timer.

## Fairness

* `RefundClaim!FairSpec`, `OwnershipTransfer!FairSpec`: weak fairness of `HandlerStep` for each call.
  Node resumes every continuation whose promise has settled; the stores' promises settle at once,
  and `fetch` rejects after its own time limits, in which case `BuildFails` or `SendFails` is the
  step. Nothing is assumed of clients, the contract, the cleanup job or restarts. A call that waits
  for the mutex has no fair step of its own, so `EveryCallAnswered` really shows that whoever holds
  the mutex hands it on.
* `EscrowWebhook!LiveSpec`: Trustless Work repeats what was not acknowledged, so each event is
  delivered infinitely often while it is pending (strong fairness, because a slot may be busy: a
  bound of the model). A mutation that is tried again and again succeeds some time and its answer
  arrives (`UpdateRow`, `Mark`), and so does one 200. Without these, a network that is always down
  settles nothing. Restarts are left out: infinitely many could undo every delivery.
* The other modules have no liveness property: a handler there waits for nobody.

## The proofs

| Module | Theorems | Inductive invariant, and why it is needed |
| --- | --- | --- |
| `RefundClaimProofs` | `TypeCorrect`, `SubmittedRecordsArePaid`, `OneSuccess`, `RefundImplementsPayout` (with cleanup and restarts) | `MoneyInv`. *Submitted is paid* is not inductive: the record is written two runs after the answer came. The invariant follows the transaction: which `pc` it can be in which state at, that an applied transaction's balance is refunded, and that only one transaction per balance is applied |
| | `OneExecutor`, `PendingNotOrphaned`, `SubmittedStays` (without eviction) | `KeyInv`: each executing handler owns the pending record under its key, so no second one can insert; a copy that says failed in `alreadyClaimed` means the key's handler is done |
| `OwnershipTransferProofs` | `MutexExcludes`, `NobodyForgotten`, `NobodyWaitsForNobody`, `TypeCorrect` | `LockInv`: the flag, the holders and the queue determine each other. Exclusion alone is not inductive, since the mutex is handed over without being unlocked: one has to know the woken call was waiting, and waiting in this queue only. That a waiting call finds the mutex locked (`WaitersFindItLocked`) is added for `NobodyWaitsForNobody`: it is opened only when nobody waits |
| | `OneCallWins`, `WinnersAreStored`, `FinalStaysFinal`, `NobodyOvertakes`, `TransferIsAtomic` | `DataInv`: inside the mutex, what a call read is still stored; outside, an answer is of its own kind of call, one call has won, and what it was told is what is stored |
| `DisputeServiceProofs` | `TypeCorrect`, `StampsAgree` (however calls overlap) | `StampInv`: the copies handlers hold are whole records too, so overlaying one gives a whole record, however old it is |
| | `TableFollowed` (where no two calls overlapped) | `Undisturbed`: one call per dispute, and what it read is still stored |
| | `ConfirmedHolds`, `AlertsAreJustified` (likewise) | `KeptInv`: what a confirmed call, a listing and an alert rest on is still stored, since only a restart takes away a stamp or a final state, and it ends who held them |
| | `TrailReplayed` (likewise) | `TrailInv`: the trail of a dispute is the path to its state; while a call is between its write and its entry the state is one edge ahead, so the two must be told apart by `pc`; an edge whose append failed is in `unlogged`, and in the trail of no other call |
| `EscrowWebhookProofs` | `NoMutationLost` | `Reached`: a 200 is sent to a duplicate because of the cache, and the cache is filled by handlers past the mutation; hence *cached* and *past the mutation* each imply *applied or unmatched*, through any pruning and any restart |
| | `CacheSound`, `CacheBounded`, `TypeCorrect` | `CacheInv`: what may still be added counts with what is there, and ranks are distinct because none is above the number of entries. It rests on lemmas about what pruning, ranking and marking make of a set of entries and of its cardinality |
| | `NoSecondNotice` | `OnceInv`: an event that is not excused and was notified is in the cache, or with the one handler that marked it; so no second one gets past the check |
| `ChangelogProofs` | `ToldKept`, `WriteOnce` | `LogInv`: on an id nobody contended for there is one call at most, the log and the last announcement stand to what that call has done so far as its place says (`InHand`), and when there is none they agree; a call from before the last restart vouches for nothing. The refinement is then one abstract step per write and per announcement |
| | `EndIsHonest`, `TypeCorrect` | `PageInv`: the entries a reader was not shown are still there, and those that were shown or added, with what was removed of them, make up for the page and all before it. That a page with something behind it is not short rests on a least rank, which well-foundedness of the naturals gives |
| `NotificationServiceProofs` | `NothingDropped`, `NothingTwice`, `TypeCorrect` | `NotificationInv`: a row has a call past `Create`, or one cut short; a call ends well only by delivering or alerting; of the calls on an event nobody found free twice, one at most has its row or is about to write it (`OneAtWork`), also after a crash; and a call has delivered no more often than it has tried |
| `AccountsProofs` | `CodesWorkOnce`, `OneSet` | `PlacesInv` and `CodeInv`: each generation is at one place only (waiting, on its way, in its transaction, over), so a code somebody redeemed is of a generation that is over, and no set comes into force again; of the sets that are in force, each open transaction has seen all that it did not overlap with (`OpenSeeOthers`) |
| | `TypeCorrect` | its own: each action keeps the flags |
| | `DataFirst`, `Audited` | `DataInv`: past its first step a deletion has left no data, or a sync wrote them or is on its way to. `AuditInv`: past its third, the audit line is there or the deletion is among those whose append failed or whose line was taken away |
| `FrontendProofs` | `OneTimerInReach`, `TimerForTheUser`, `SessionCovered`, `TokenTypeCorrect` (of `TokenRefresh`) | `TokenInv`: a timer is what a scheduling turns into, so schedulings too are for the user who is there or for one who left meanwhile |
| | `OneContract`, `ClientTypeCorrect` (of `EscrowClient`) | `DeployInv`: what a form deployed and what it may still deploy (`Pending`, the attempts that were sent and given up on) are together no more than its attempts, and fewer before the one under way is sent; `OnTheWay`: only a deployment is tried again while one of its transactions is on its way |
| | `CopyIsReal` | `CopyInv`: what a form was rendered with is no more ahead of its contract than what is shown, and is of the selected escrow unless a deployment crossed; what was sent leaves room on the contract for what will be shown |
| | `CopyKeepsUp` | `KeepInv`: a form that is alone was rendered with what is selected; what a form deployed and has not reported is known to no other, so no success is counted before the copy exists |
| | `EveryPaymentCounts` | `PaidInv`: what a contract was paid lies between the payments that were certainly made (sent and not answered with a failure) and those that may have been (sent at all, and not on the way any more); the two differ by lost answers |
| | `MapStaysBounded`, `TwiceTheLimitAtMost`, `WaitingIsEnough`, `RefusalIsDeserved`, `LimiterTypeCorrect` (of `RateLimit`) | `LimiterInv`. That two limits are the most in any stretch is not inductive: one has to know, of each window that is open, that what it counted was let through inside it, that what came before was so before its start, and all but a limit's worth of that a whole window before. A key without a window has nothing but a limit's worth in the last one, and a window ends no later than its key was told to come back |

The assumptions are those of the modules, named `…Assumption` there: bounds are natural numbers,
statuses are known, sets of slots and events finite where ranks are counted, and what means "none"
is no member of the set it is none of. The sets
of calls, keys and events may be of any size. The contract's rule (a balance is resolved once, and
only when disputed) is part of `ApplyTransaction`; the payout theorem rests on it, as the service
itself does.

Each safety proof has the same shape: the initial states satisfy the invariant, each action
preserves it (one step per action, helper lemmas for the shapes many actions share), and the
invariant implies the property; the last step is temporal. The refinement theorems show that every
step of the detailed specification is a step or a stutter of the abstract one under the mapping at
the end of its module.

Only model-checked:

* liveness (`EveryClaimAnswered`, `EveryCallAnswered`, `EventuallySettled`): fairness and ENABLED are
  out of the prover's reach. Every safety property of a passing run is proved.

What is proved of the limiter's table and of the webhook's cache rests on lemmas about their operators:
how many members of a finite set lie below each (`Positions` in `FrontendProofs`, `Ranks` in
`EscrowWebhookProofs`), and what `Entries`, `Pruned`, `Opened` and `Counted`, or `Ranked`, `Pruned` and
`Marked`, make of a table.

The type invariants, `QueueIsWaiters`, `OneWinner`, `FinalityUntilRestart`, `WaitersHaveHolder`, `PaymentsAddUp` and
`RefusedOnlyWhenSpent` are proved for all values of the constants and are not run as well.

## Where the code and its documents disagree

Four of these are runs that TLC refutes, listed under `findings` with the lines they contradict:

* `refund_retry`: a failed refund may not be retried with its `refundId`; every later claim is a 409.
* `dispute_final`: two overlapping transitions can overwrite a final state.
* `dispute_audit`: the dispute service audits into a changelog of its own, which no route reads.
* `webhook_concurrent`: overlapping deliveries of one event can notify twice; the mark comes after the
  await it is meant to protect.

Others were met while modelling and need no model checker:

* An event about an escrow that has no row is acknowledged and marked, and its status is written nowhere
  (`services/hasura.service.ts:81-90`, `routes/webhooks.ts:278`); the later insert says `pending`.
* Two generations of recovery codes at once leave two sets in force, while `routes/recovery-codes.ts:4-6`
  speaks of a fresh set "replacing any old ones".
* The README of the backend calls the audit entries write-once and the writing of them best-effort; an entry
  whose append failed is missing for good, and the line of a deletion can be removed with
  `DELETE /api/changelog/:entryId`, or be posted by a client under its id.
* A record may say `failed` although the money moved (its answer was lost), while
  `services/refund.service.ts:64` reads "on-chain refund failed".
* The mainnet block answers 502 (`services/refund.service.ts:310`); `routes/refunds.ts:37-38` says 503.
* `REFUND_AMOUNT_MISMATCH`, `REFUND_ID_REUSED_ACROSS_ESCROWS` and `REFUND_NEEDS_MANUAL_INTERVENTION`
  (`routes/refunds.ts:31-39`) are never produced.
* With an evicting store behind `RefundStore`, `alreadyClaimed` may write a failed record back after
  its eviction.
* A transfer is "initiated by the current owner" (`services/ownership-transfer.service.ts:6`), but no
  record says who owns an escrow: a former owner may transfer it again under a new `transferId`.
* `actorId` is passed to accept and cancel and ignored there.
* `routes/transfers.ts:17-23` promises compensation of earlier steps; there is none (there is one
  write, so none is missed either).
* Two concurrent opens of one `disputeId` are both answered 201; the second replaces the first
  (`services/dispute.service.ts:287,307`).
* Service and route disagree at the SLA boundary (`services/dispute.service.ts:53` and
  `routes/disputes.ts:107`).
* An SLA alert may be written for a dispute that was resolved after the list was read; and an audit
  entry with the id of an earlier one (same event, same millisecond) is dropped silently.
* A completed refund and a completed transfer are nowhere written to the changelog
  (`services/changelog.service.ts:168-169, 300-302`).
* A replayed event is notified again after its cache entry is gone
  (`routes/webhooks.ts:286`), although the status did not change.
* `recordMoneyMovement` is documented as idempotent; of two that race one is answered 409 by the
  `appendEntry` inside it.
* Two calls on one entry id do not keep to the log: a second append may replace the first, a removal may
  delete an entry it has not read, or announce the removal of one whose append was not announced yet.
* A page and its total are two reads: a listing may ask for a page that is empty, or, after removals,
  end before it has shown entries that moved up.
* A recovery code is used up also when Firebase then refuses to remove the factor (502).
* `routes/sync-user.ts` is not mounted by `index.ts`.
* `RaiseDisputeModal` reports success although the call before it failed.
* A deployed escrow is selected but not persisted: a reload before another change forgets it. A form in
  flight while another escrow is deployed merges its own copy over it, and the balance of one contract
  is shown for the other. The fund *button* adds to `amount`, where the form adds to `balance`.
* The limiter drops "the oldest entries" when its table is full; the order is that of the `Map`, in which a
  window that was renewed keeps its old place, so the freshest may go first.
* A proactive token refresh that failed is not scheduled again, although the module promises a session
  that stays valid; and a scheduling that was awaited while its user left still sets a timer.

## What is not modelled

`PROJECT.json` lists every component with its reason. In short:

* *No code to be faithful to*: `services/listing-alert.service.ts` (two files spliced at line 75) and
  `routes/listings.ts` (imports a service that is not in the tree); `src/contracts` (a placeholder).
* *Nothing to check*: wiring, middleware, rendering, read-only queries, one-statement handlers,
  scripts, migrations run by hand, pure scoring with hand-chosen weights, browser copies of
  services that no page uses. The split of a purchase into milestones rounds each part on its own and
  is exact for prices in cents.
* *Not in use*: the wallet sessions sit behind dialogs no page mounts, one of which uses names it does
  not declare.
* *Inside the modelled components*: reads that change nothing; `runDisputeToRefundE2E` of
  `routes/refunds.ts`, a test harness; the bodies of messages and log lines.

Most of the repository's lines are pages, forms, tables and translations of the frontend, several of
them stubs or in no build, and keep no state a property could be about. The models map the code that
does, so their lines are a small share of the whole.

## The plan

Done, in this order: refunds, transfers, disputes and the webhook with their proofs; the changelog and
its refinement; notifications; accounts and recovery codes; the escrow blocks, the limiter and the token
refresher; proofs of what they promise.

Left, in order of what matters most:

1. **Composition** of the deletion of an account with `Changelog`, and of `EscrowClient`'s contract with
   `RefundClaim`'s, once one part of the code reads what another wrote.
2. **Listings and alerts**, when `services/listing-alert.service.ts` parses and
   `services/escrow.service` is in the tree.
