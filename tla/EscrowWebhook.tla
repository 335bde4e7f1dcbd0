---------------------------- MODULE EscrowWebhook ----------------------------
(***************************************************************************)
(* The escrow-status webhook (routes/webhooks.ts) and the one mutation it  *)
(* sends (HasuraService.updateEscrowStatus): the path by which the status  *)
(* of an escrow reaches the database.                                      *)
(*                                                                         *)
(* Trustless Work delivers an event until it is answered 200, and may      *)
(* deliver it again while an earlier delivery is still being handled.  A   *)
(* handler awaits the mutation and then the notification.  A mutation that *)
(* the handler has given up on may still reach the database.               *)
(*                                                                         *)
(* A delivery here is signed, complete and of a known status; the others   *)
(* are answered 4xx, or 500 without a secret, and touch nothing.           *)
(***************************************************************************)
EXTENDS Integers, FiniteSets

CONSTANTS
  Slots,       \* bound: deliveries handled at once
  Events,      \* events, each with an id of its own (the dedup key)
  ContractOf,  \* the escrow an event is about
  StatusOf,    \* the status it reports, as Trustless Work spells it
  TTL,         \* PROCESSED_EVENT_TTL_MS, in ticks
  MaxKept,     \* PROCESSED_EVENT_MAX
  MaxTime,     \* bound on the clock
  MaxNotices   \* bound: notifications of one event are counted up to here

\* The documented spellings and their aliases.
STATUS_MAP ==
  [created |-> "pending", funded |-> "funded", active |-> "funded",
   completed |-> "completed", released |-> "released", disputed |-> "disputed",
   resolved |-> "resolved", cancelled |-> "cancelled", expired |-> "expired",
   refunded |-> "refunded", pending |-> "pending", in_progress |-> "funded",
   in_review |-> "disputed", failed |-> "cancelled"]

ASSUME WebhookAssumption ==
  /\ StatusOf \in [Events -> DOMAIN STATUS_MAP]
  /\ TTL \in Nat /\ MaxKept \in Nat \ {0} /\ MaxTime \in Nat /\ MaxNotices \in Nat
  /\ IsFiniteSet(Events) /\ IsFiniteSet(Slots)

Contracts == {ContractOf[e] : e \in Events}

\* What the column may hold.
Statuses == {"pending", "funded", "completed", "released", "disputed", "resolved",
             "cancelled", "expired", "refunded"}

VARIABLES
  row,       \* escrow_transactions.status, by contract_id; "none": no such row
  kept,      \* processedEvents: [id, at, nth], nth the rank in insertion order
  now,       \* the clock
  pc,        \* where each delivery's handler is suspended
  job,       \* the event each handler works on and the time it started
  late,      \* mutations on their way that no handler waits for
  pending,   \* events Trustless Work has seen no 200 for
  applied,   \* history: events whose status has been written
  unmatched, \* history: events whose mutation has only run without a row to write
  notified,  \* history: how often each event was notified, up to MaxNotices
  excused    \* history: events delivered while handled, or forgotten

serviceVars == <<row, kept, now, pc, job, late, pending, applied, unmatched, notified>>
vars == <<serviceVars, excused>>

NoJob == [event |-> "none"]
-----------------------------------------------------------------------------
(* The cache of processed events *)

Ids(cache) == {k.id : k \in cache}

\* Ranks without gaps, so that a long run needs no large ranks.
Ranked(cache) ==
  {[id |-> k.id, at |-> k.at, nth |-> Cardinality({j \in cache : j.nth < k.nth})] :
     k \in cache}

\* Variant: an entry goes when it reaches its TTL.
PrunedEarly(cache, t) ==
  LET fresh == {k \in cache : t - k.at < TTL}
  IN  {k \in fresh : Cardinality({j \in fresh : j.nth > k.nth}) < MaxKept}

\* Variant: no entry goes before it expires.
Untrimmed(cache, t) == {k \in cache : t - k.at <= TTL}

\* pruneProcessedEvents: the expired go, then the oldest beyond the maximum.
Pruned(cache, t) ==
  LET fresh == {k \in cache : t - k.at <= TTL}
  IN  {k \in fresh : Cardinality({j \in fresh : j.nth > k.nth}) < MaxKept}

\* Variant: a list instead of a map.
MarkedAgain(cache, e, t) ==
  cache \cup {[id |-> e, at |-> t, nth |-> Cardinality(cache)]}

\* Map.set: an id that is there keeps its place.
Marked(cache, e, t) ==
  IF e \in Ids(cache)
  THEN {IF k.id = e THEN [id |-> e, at |-> t, nth |-> k.nth] ELSE k : k \in cache}
  ELSE cache \cup {[id |-> e, at |-> t, nth |-> Cardinality(cache)]}
-----------------------------------------------------------------------------
Init ==
  /\ row = [c \in Contracts |-> "none"]
  /\ kept = {}
  /\ now = 0
  /\ pc = [s \in Slots |-> "idle"]
  /\ job = [s \in Slots |-> NoJob]
  /\ late = {}
  /\ pending = Events
  /\ applied = {}
  /\ unmatched = {}
  /\ notified = [e \in Events |-> 0]
  /\ excused = {}

\* The handler has answered.
Finish(s) ==
  /\ pc' = [pc EXCEPT ![s] = "idle"]
  /\ job' = [job EXCEPT ![s] = NoJob]

\* A 200 for e, which Trustless Work may or may not get to see.
Acknowledged(e) == pending' \in {pending, pending \ {e}}

Goto(s, l) == pc' = [pc EXCEPT ![s] = l]

\* Variant: a duplicate is refused.
RefuseDuplicate(s, e) ==
  /\ pc[s] = "idle"
  /\ e \in pending
  /\ kept' = Ranked(Pruned(kept, now))
  /\ e \in Ids(kept')
  /\ UNCHANGED <<row, now, pc, job, late, pending, applied, unmatched, notified>>

IgnoreDuplicate(s, e) ==
  /\ pc[s] = "idle"
  /\ e \in pending
  /\ kept' = Ranked(Pruned(kept, now))
  /\ e \in Ids(kept')
  /\ Acknowledged(e)
  /\ UNCHANGED <<row, now, pc, job, late, applied, unmatched, notified>>

\* Variant: the event is marked before the mutation is sent.
MarkAndStart(s, e) ==
  /\ pc[s] = "idle"
  /\ e \in pending
  /\ e \notin Ids(Pruned(kept, now))
  /\ kept' = Marked(Ranked(Pruned(kept, now)), e, now)
  /\ job' = [job EXCEPT ![s] = [event |-> e, began |-> now]]
  /\ Goto(s, "updating")
  /\ UNCHANGED <<row, now, late, pending, applied, unmatched, notified>>

StartUpdate(s, e) ==
  /\ pc[s] = "idle"
  /\ e \in pending
  /\ kept' = Ranked(Pruned(kept, now))
  /\ e \notin Ids(kept')
  /\ job' = [job EXCEPT ![s] = [event |-> e, began |-> now]]
  /\ Goto(s, "updating")
  /\ UNCHANGED <<row, now, late, pending, applied, unmatched, notified>>
-----------------------------------------------------------------------------
(* The mutation; affected_rows only reaches the log and the answer *)

Stored(e) == STATUS_MAP[StatusOf[e]]

\* The UPDATE finds the row of the contract, which then holds the status ...
Write(e) ==
  /\ row[ContractOf[e]] # "none"
  /\ row' = [row EXCEPT ![ContractOf[e]] = Stored(e)]
  /\ applied' = applied \cup {e}
  /\ unmatched' = unmatched \ {e}

\* ... or there is none: affected_rows is 0, and that is no error.
MatchNothing(e) ==
  /\ row[ContractOf[e]] = "none"
  /\ unmatched' = unmatched \cup {e}
  /\ UNCHANGED <<row, applied>>

Mutation(e) == Write(e) \/ MatchNothing(e)

UpdateRow(s) ==
  /\ pc[s] = "updating"
  /\ Mutation(job[s].event)
  /\ Goto(s, "updated")
  /\ UNCHANGED <<kept, now, job, late, pending, notified>>

LateUpdate(e) ==
  /\ e \in late
  /\ Mutation(e)
  /\ late' = late \ {e}
  /\ UNCHANGED <<kept, now, pc, job, pending, notified>>

\* The request or its answer is lost: 500, so that the delivery is retried.
FailUpdate(s) ==
  /\ pc[s] \in {"updating", "updated"}
  /\ late' \in {late} \cup (IF pc[s] = "updating" THEN {late \cup {job[s].event}} ELSE {})
  /\ Finish(s)
  /\ UNCHANGED <<row, kept, now, pending, applied, unmatched, notified>>

\* The answer arrives; the event is marked with the time the handler started.
Mark(s) ==
  /\ pc[s] = "updated"
  /\ kept' = Marked(kept, job[s].event, job[s].began)
  /\ Goto(s, "marked")
  /\ UNCHANGED <<row, now, job, late, pending, applied, unmatched, notified>>

\* Whatever the mutation changed, the recipient is notified.
Notify(s) ==
  /\ pc[s] = "marked"
  /\ notified' = [notified EXCEPT ![job[s].event] =
                    IF @ < MaxNotices THEN @ + 1 ELSE @]
  /\ Goto(s, "notified")
  /\ UNCHANGED <<row, kept, now, job, late, pending, applied, unmatched>>

\* A notification that fails is caught; the delivery is answered all the same.
SkipNotify(s) ==
  /\ pc[s] = "marked"
  /\ Goto(s, "notified")
  /\ UNCHANGED <<row, kept, now, job, late, pending, applied, unmatched, notified>>

Acknowledge(s) ==
  /\ pc[s] = "notified"
  /\ Acknowledged(job[s].event)
  /\ Finish(s)
  /\ UNCHANGED <<row, kept, now, late, applied, unmatched, notified>>
-----------------------------------------------------------------------------
\* The frontend inserts the row of an escrow it has deployed, at its own time.
InsertRow(c) ==
  /\ row[c] = "none"
  /\ row' = [row EXCEPT ![c] = "pending"]
  /\ UNCHANGED <<kept, now, pc, job, late, pending, applied, unmatched, notified>>

Tick ==
  /\ now < MaxTime
  /\ now' = now + 1
  /\ UNCHANGED <<row, kept, pc, job, late, pending, applied, unmatched, notified>>

\* The cache and the handlers are lost; mutations under way may still land.
Restart ==
  /\ late' \in {late, late \cup {job[s].event : s \in {x \in Slots : pc[x] = "updating"}}}
  /\ kept' = {}
  /\ pc' = [s \in Slots |-> "idle"]
  /\ job' = [s \in Slots |-> NoJob]
  /\ UNCHANGED <<row, now, pending, applied, unmatched, notified>>

Deliver(s, e) == IgnoreDuplicate(s, e) \/ StartUpdate(s, e)

HandlerStep(s) ==
  UpdateRow(s) \/ FailUpdate(s) \/ Mark(s) \/ Notify(s) \/ SkipNotify(s) \/ Acknowledge(s)

\* The cache may drop an entry that is past its TTL or has MaxKept newer ones.
Droppable(k) ==
  \/ ~(now - k.at <= TTL)
  \/ ~(Cardinality({j \in {x \in kept : now - x.at <= TTL} : j.nth > k.nth}) < MaxKept)

\* The history is kept beside every step: an event is excused when two handlers
\* work on it, when its entry may be dropped, and when a restart drops it.
Watch ==
  excused' = excused \cup Ids({k \in kept : Droppable(k)})
               \cup {e \in Events : \E s, t \in Slots :
                      s # t /\ job'[s].event = e /\ job'[t].event = e}

Running ==
  \/ \E s \in Slots : HandlerStep(s) \/ \E e \in Events : Deliver(s, e)
  \/ \E e \in late : LateUpdate(e)
  \/ \E c \in Contracts : InsertRow(c)
  \/ Tick

Next ==
  \/ Running /\ Watch
  \/ Restart /\ excused' = excused \cup Ids(kept)

Spec == Init /\ [][Next]_vars

\* Trustless Work keeps delivering what is pending, handlers run, a mutation
\* that is tried over and over succeeds some time, and so does a 200 arrive.
Fairness ==
  /\ \A e \in Events : SF_serviceVars(\E s \in Slots : Deliver(s, e))
  /\ \A s \in Slots :
       /\ WF_serviceVars(HandlerStep(s))
       /\ SF_serviceVars(UpdateRow(s))
       /\ SF_serviceVars(Mark(s))
       /\ SF_serviceVars(Acknowledge(s) /\ pending' # pending)
       /\ \A e \in Events : SF_serviceVars(IgnoreDuplicate(s, e) /\ pending' # pending)

\* Liveness does not read the history, and it is not kept here.
LiveSpec == Init /\ [][Running /\ UNCHANGED excused]_vars /\ Fairness
-----------------------------------------------------------------------------
(* Properties *)

Entries == [id : Events, at : 0 .. now, nth : 0 .. Cardinality(Events)]

Jobs == [event : Events, began : 0 .. now]

TypeOK ==
  /\ row \in [Contracts -> {"none"} \cup Statuses]
  /\ kept \subseteq Entries
  /\ now \in Nat
  /\ pc \in [Slots -> {"idle", "updating", "updated", "marked", "notified"}]
  /\ job \in [Slots -> Jobs \cup {NoJob}]
  /\ late \subseteq Events
  /\ pending \subseteq Events
  /\ applied \subseteq Events
  /\ unmatched \subseteq Events
  /\ notified \in [Events -> 0 .. MaxNotices]
  /\ excused \subseteq Events

\* The events whose mutation has run in the database.
Reached == applied \cup unmatched

\* When Trustless Work stops retrying an event, its mutation has reached the
\* database, whatever was lost, retried or restarted in between: its status was
\* written, or there was no row of its contract.  This is what the 500 and
\* the place of the mark are for.
AppliedOrUnmatched == Events \ pending \subseteq Reached

\* An event in the cache is there once, and its mutation was answered.
CacheIsSound ==
  /\ Ids(kept) \subseteq Reached
  /\ \A j, k \in kept : j.id = k.id \/ j.nth = k.nth => j = k

\* An event whose deliveries do not overlap, and that neither the bounds of the
\* cache nor a restart made the process forget, is notified at most once: what
\* failed after the write is retried without a second notice.
NotifiedOnce == \A e \in Events \ excused : notified[e] <= 1

\* The cache outgrows its maximum by no more than the deliveries handled at
\* once: it is pruned where a delivery starts, and grows where one is marked.
CacheIsBounded == Cardinality(kept) <= MaxKept + Cardinality(Slots)

\* Under fair delivery Trustless Work sees every event acknowledged: no retry is
\* refused for ever, and no handler is stuck between its awaits.
EventuallySettled == \A e \in Events : <>(e \notin pending)
-----------------------------------------------------------------------------
(* What the documentation says and the code does not do *)

\* routes/webhooks.ts:276 -- marking after the mutation and before the notice
\* keeps a retry from notifying twice.  It does not keep a delivery that runs
\* beside another from doing so.
NeverNotifiedTwice == \A e \in Events : notified[e] <= 1
=============================================================================
