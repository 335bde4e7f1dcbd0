---------------------------- MODULE DisputeService ----------------------------
(***************************************************************************)
(* DisputeService (services/dispute.service.ts) and its routes             *)
(* (routes/disputes.ts): opening, the transition table, the audit entry of *)
(* each transition, and the alert for disputes left ESCALATED too long.    *)
(*                                                                         *)
(* One action is one run of a handler between two awaits.  Unlike the      *)
(* transfer service this one takes no lock: a record is read in one run    *)
(* and written in another.  Time is counted in ticks, TicksPerDay a day.   *)
(***************************************************************************)
EXTENDS Integers

CONSTANTS
  Calls,        \* HTTP requests
  Disputes,     \* disputeIds
  TicksPerDay,  \* resolution of the clock
  SlaDays,      \* ESCALATED_SLA_DAYS
  MaxTime       \* bound on the clock

ASSUME TimeAssumption ==
  TicksPerDay \in Nat \ {0} /\ SlaDays \in Nat /\ MaxTime \in Nat

VARIABLES
  store,     \* InMemoryDisputeStore: disputeId -> Dispute
  own,       \* the entries of the ChangelogService the dispute service built
  audit,     \* SLA entries of the changelogService that the routes share
  now,       \* the clock
  pc,        \* where each call's handler is suspended
  request,   \* what each call asks for
  seen,      \* the dispute each call read, held across awaits
  made,      \* the dispute each call wrote
  batch,     \* the escalated disputes a breach listing read, or is to alert on
  answer,    \* the HTTP status each call got
  unlogged,  \* history: entries whose append failed, since the last restart
  forgotten, \* history: calls that began before the last restart
  overlapped \* history: disputes two calls have worked on at once

callVars == <<pc, request, seen, made, batch, answer>>
vars == <<store, own, audit, now, callVars, unlogged, forgotten, overlapped>>
-----------------------------------------------------------------------------
(* The state machine *)

FINAL_STATES == {"RESOLVED", "WITHDRAWN"}
States == {"OPEN", "ESCALATED"} \cup FINAL_STATES
Events == {"escalate", "resolve", "withdraw"}

\* DISPUTE_TRANSITIONS, as a set of edges.
DISPUTE_TRANSITIONS ==
  {<<"OPEN", "escalate", "ESCALATED">>, <<"OPEN", "resolve", "RESOLVED">>,
   <<"OPEN", "withdraw", "WITHDRAWN">>,
   <<"ESCALATED", "resolve", "RESOLVED">>, <<"ESCALATED", "withdraw", "WITHDRAWN">>}

Target(event) ==
  CASE event = "escalate" -> "ESCALATED"
    [] event = "resolve" -> "RESOLVED"
    [] OTHER -> "WITHDRAWN"

\* Variant: whatever is not final takes any event.
AnyEvent(from, event) == from \notin FINAL_STATES

Permitted(from, event) == <<from, event, Target(event)>> \in DISPUTE_TRANSITIONS
-----------------------------------------------------------------------------
(* Values *)

Never == -1
Times == Nat \cup {Never}
DisputeRecords == [by : Calls, state : States, openedAt : Nat, updatedAt : Nat,
                   escalatedAt : Times, resolvedAt : Times]
NoDispute == [state |-> "absent"]

Requests == [op : {"open"} \cup Events, id : Disputes]
              \cup [op : {"breaches"}]
NoRequest == [op |-> "none"]

\* An entry's id is made of its event, its dispute and the time; two entries
\* with one id are one entry.
EntryIds == Events \X Disputes \X Nat
Entries == [id : EntryIds, from : States]

Running == {"opening", "opened", "deciding", "persisted", "logging", "duplicate",
            "logged", "listing", "alerting"}
PCs == Running \cup {"idle", "done"}
Answers == {"none", "200", "201", "400", "404", "409", "422", "lost"}

IdOf(c) == request[c].id
OnDispute(c, d) == pc[c] \in Running /\ request[c].op # "breaches" /\ IdOf(c) = d
-----------------------------------------------------------------------------
Init ==
  /\ store = [d \in Disputes |-> NoDispute]
  /\ own = {}
  /\ audit = {}
  /\ now = 0
  /\ pc = [c \in Calls |-> "idle"]
  /\ request = [c \in Calls |-> NoRequest]
  /\ seen = [c \in Calls |-> NoDispute]
  /\ made = [c \in Calls |-> NoDispute]
  /\ batch = [c \in Calls |-> {}]
  /\ answer = [c \in Calls |-> "none"]
  /\ unlogged = {}
  /\ forgotten = {}
  /\ overlapped = {}

Reply(c, status) ==
  /\ pc' = [pc EXCEPT ![c] = "done"]
  /\ answer' = [answer EXCEPT ![c] = status]

Goto(c, l) ==
  /\ pc' = [pc EXCEPT ![c] = l]
  /\ UNCHANGED answer

RejectPayload(c) ==
  /\ pc[c] = "idle"
  /\ Reply(c, "400")
  /\ UNCHANGED <<store, own, unlogged, audit, now, request, seen, made, batch>>
-----------------------------------------------------------------------------
(* openDispute and transition *)

\* Both validate and read the dispute in their first run.
Begin(c, op, d) ==
  /\ pc[c] = "idle"
  /\ request' = [request EXCEPT ![c] = [op |-> op, id |-> d]]
  /\ seen' = [seen EXCEPT ![c] = store[d]]
  /\ Goto(c, IF op = "open" THEN "opening" ELSE "deciding")
  /\ UNCHANGED <<store, own, unlogged, audit, now, made, batch>>

RefuseOpen(c) ==
  /\ pc[c] = "opening"
  /\ seen[c] # NoDispute
  /\ Reply(c, "409")
  /\ UNCHANGED <<store, own, unlogged, audit, now, request, seen, made, batch>>

InsertOpen(c) ==
  /\ pc[c] = "opening"
  /\ seen[c] = NoDispute
  /\ made' = [made EXCEPT ![c] =
                [by |-> c, state |-> "OPEN", openedAt |-> now, updatedAt |-> now,
                 escalatedAt |-> Never, resolvedAt |-> Never]]
  /\ store' = [store EXCEPT ![IdOf(c)] = made'[c]]
  /\ Goto(c, "opened")
  /\ UNCHANGED <<own, unlogged, audit, now, request, seen, batch>>

FinishOpen(c) ==
  /\ pc[c] = "opened"
  /\ Reply(c, "201")
  /\ UNCHANGED <<store, own, unlogged, audit, now, request, seen, made, batch>>

\* Not found, final, or no such event from this state.
RefuseTransition(c) ==
  /\ pc[c] = "deciding"
  /\ \/ seen[c] = NoDispute /\ Reply(c, "404")
     \/ seen[c].state \in FINAL_STATES /\ Reply(c, "409")
     \/ /\ seen[c].state \in States \ FINAL_STATES
        /\ ~Permitted(seen[c].state, request[c].op)
        /\ Reply(c, "422")
  /\ UNCHANGED <<store, own, unlogged, audit, now, request, seen, made, batch>>

\* Variant: the SLA clock is not anchored.
Unanchored(r, to, t) ==
  [r EXCEPT !.state = to, !.updatedAt = t,
            !.resolvedAt = IF to = "RESOLVED" THEN t ELSE r.resolvedAt]

\* The record as transition rebuilds it: the copy that was read, overlaid.
Updated(r, to, t) ==
  [r EXCEPT !.state = to, !.updatedAt = t,
            !.escalatedAt = IF to = "ESCALATED" THEN t ELSE r.escalatedAt,
            !.resolvedAt = IF to = "RESOLVED" THEN t ELSE r.resolvedAt]

Transition(c) ==
  /\ pc[c] = "deciding"
  /\ seen[c] # NoDispute
  /\ Permitted(seen[c].state, request[c].op)
  /\ made' = [made EXCEPT ![c] = Updated(seen[c], Target(request[c].op), now)]
  /\ store' = [store EXCEPT ![IdOf(c)] = made'[c]]
  /\ Goto(c, "persisted")
  /\ UNCHANGED <<own, unlogged, audit, now, request, seen, batch>>
-----------------------------------------------------------------------------
(* The audit entry of a transition: appendEntry on the service's own log.   *)
(* Whatever it throws is swallowed, since the transition has succeeded.     *)

\* Its type is that of the event in DISPUTE_EVENT_ENTRY_TYPES.
EntryOf(c) == [id |-> <<request[c].op, IdOf(c), made[c].updatedAt>>,
               from |-> seen[c].state]

CheckEntry(c) ==
  /\ pc[c] = "persisted"
  /\ Goto(c, IF \E e \in own : e.id = EntryOf(c).id THEN "duplicate" ELSE "logging")
  /\ UNCHANGED <<store, own, unlogged, audit, now, request, seen, made, batch>>

\* Variant: the entry names the state the dispute is in by now.
LateEntry(c) ==
  /\ pc[c] = "logging"
  /\ own' = {e \in own : e.id # EntryOf(c).id}
              \cup {[id |-> EntryOf(c).id, from |-> store[IdOf(c)].state]}
  /\ Goto(c, "logged")
  /\ UNCHANGED <<store, unlogged, audit, now, request, seen, made, batch>>

WriteEntry(c) ==
  /\ pc[c] = "logging"
  /\ own' = {e \in own : e.id # EntryOf(c).id} \cup {EntryOf(c)}
  /\ Goto(c, "logged")
  /\ UNCHANGED <<store, unlogged, audit, now, request, seen, made, batch>>

\* The append throws, at its look-up or at its write, and there is no entry.
LoseEntry(c) ==
  /\ pc[c] \in {"persisted", "logging"}
  /\ unlogged' = unlogged \cup {EntryOf(c)}
  /\ Goto(c, "logged")
  /\ UNCHANGED <<store, own, audit, now, request, seen, made, batch>>

\* A duplicate is an error of the append too.
FinishTransition(c) ==
  /\ pc[c] \in {"logged", "duplicate"}
  /\ Reply(c, "200")
  /\ UNCHANGED <<store, own, unlogged, audit, now, request, seen, made, batch>>
-----------------------------------------------------------------------------
(* The ESCALATED SLA *)

Escalated(r) == r.state = "ESCALATED"

\* Variant: the SLA runs from the opening.
OpenTooLong(r, t) == Escalated(r) /\ t - r.openedAt > SlaDays * TicksPerDay

\* escalatedSlaBreach of the route: beyond the SLA.
Breached(r, t) ==
  /\ Escalated(r) /\ r.escalatedAt # Never
  /\ t - r.escalatedAt > SlaDays * TicksPerDay

\* GET /sla/breaches reads the escalated disputes ...
ListEscalated(c) ==
  /\ pc[c] = "idle"
  /\ request' = [request EXCEPT ![c] = [op |-> "breaches"]]
  /\ batch' = [batch EXCEPT ![c] =
                 {[id |-> d, dispute |-> store[d], elapsed |-> 0] :
                    d \in {x \in Disputes : Escalated(store[x])}}]
  /\ Goto(c, "listing")
  /\ UNCHANGED <<store, own, unlogged, audit, now, seen, made>>

\* The alert of a dispute has one id for all times.
AlertId(d) == <<"breach", d>>
Alerted(d) == \E a \in audit : a.id = AlertId(d)

\* ... picks the breached ones and looks up the alert of each ...
PickBreaches(c) ==
  /\ pc[c] = "listing"
  /\ batch' = [batch EXCEPT ![c] =
                 {[b EXCEPT !.elapsed = now - b.dispute.escalatedAt] :
                    b \in {x \in @ : Breached(x.dispute, now) /\ ~Alerted(x.id)}}]
  /\ Goto(c, "alerting")
  /\ UNCHANGED <<store, own, unlogged, audit, now, request, seen, made>>

\* ... appends those that were missing, one by one ...
WriteAlert(c, b) ==
  /\ pc[c] = "alerting"
  /\ b \in batch[c]
  /\ audit' = {a \in audit : a.id # AlertId(b.id)}
                \cup {[id |-> AlertId(b.id), elapsed |-> b.elapsed]}
  /\ batch' = [batch EXCEPT ![c] = @ \ {b}]
  /\ UNCHANGED <<store, own, unlogged, now, pc, request, seen, made, answer>>

\* ... an append that fails is logged and passed over ...
SkipAlert(c, b) ==
  /\ pc[c] = "alerting"
  /\ b \in batch[c]
  /\ batch' = [batch EXCEPT ![c] = @ \ {b}]
  /\ UNCHANGED <<store, own, unlogged, audit, now, pc, request, seen, made, answer>>

\* ... and answers.
FinishBreaches(c) ==
  /\ pc[c] = "alerting"
  /\ batch[c] = {}
  /\ Reply(c, "200")
  /\ UNCHANGED <<store, own, unlogged, audit, now, request, seen, made, batch>>
-----------------------------------------------------------------------------
Tick ==
  /\ now < MaxTime
  /\ now' = now + 1
  /\ UNCHANGED <<store, own, unlogged, audit, callVars>>

\* Both logs and the store live in the process; a call that was being handled
\* loses its connection.
Restart ==
  /\ store' = [d \in Disputes |-> NoDispute]
  /\ own' = {}
  /\ audit' = {}
  /\ pc' = [c \in Calls |-> IF pc[c] = "idle" THEN "idle" ELSE "done"]
  /\ answer' = [c \in Calls |-> IF pc[c] \in Running THEN "lost" ELSE answer[c]]
  /\ unlogged' = {}
  /\ forgotten' = {c \in Calls : pc[c] # "idle"}
  /\ UNCHANGED <<now, request, seen, made, batch>>

HandlerStep(c) ==
  \/ RefuseOpen(c) \/ InsertOpen(c) \/ FinishOpen(c)
  \/ RefuseTransition(c) \/ Transition(c)
  \/ CheckEntry(c) \/ WriteEntry(c) \/ LoseEntry(c) \/ FinishTransition(c)
  \/ PickBreaches(c) \/ FinishBreaches(c)
  \/ \E b \in batch[c] : WriteAlert(c, b) \/ SkipAlert(c, b)

CallStep(c) ==
  \/ RejectPayload(c)
  \/ \E op \in {"open"} \cup Events, d \in Disputes : Begin(c, op, d)
  \/ ListEscalated(c)
  \/ HandlerStep(c)

\* The history is kept beside every step: a call that begins on a dispute while
\* another is at work on it makes an overlap.
Watch ==
  overlapped' = overlapped \cup
    {d \in Disputes :
       \E b, c \in Calls : /\ pc[c] = "idle" /\ OnDispute(c, d)'
                           /\ b # c /\ OnDispute(b, d)}

Next ==
  /\ \/ ((\E c \in Calls : CallStep(c)) \/ Tick) /\ UNCHANGED forgotten
     \/ Restart
  /\ Watch

Spec == Init /\ [][Next]_vars
-----------------------------------------------------------------------------
(* Properties *)

ServiceTypes ==
  /\ store \in [Disputes -> DisputeRecords \cup {NoDispute}]
  /\ own \subseteq Entries
  /\ audit \subseteq [id : {"breach"} \X Disputes, elapsed : Nat]
  /\ now \in Nat
  /\ pc \in [Calls -> PCs]
  /\ request \in [Calls -> Requests \cup {NoRequest}]
  /\ seen \in [Calls -> DisputeRecords \cup {NoDispute}]
  /\ made \in [Calls -> DisputeRecords \cup {NoDispute}]
  /\ batch \in [Calls -> SUBSET [id : Disputes, dispute : DisputeRecords, elapsed : Nat]]
  /\ answer \in [Calls -> Answers]

TypeOK ==
  /\ ServiceTypes
  /\ unlogged \subseteq Entries
  /\ forgotten \subseteq Calls
  /\ overlapped \subseteq Disputes

\* However the writes race, a stored dispute is a whole record: its stamps are
\* those its state calls for and in order, so that an escalated dispute is
\* never outside the SLA clock and no closed dispute has a negative age.
StampsFit(r, t) ==
  /\ r.openedAt <= r.updatedAt /\ r.updatedAt <= t
  /\ r.escalatedAt # Never => r.openedAt <= r.escalatedAt /\ r.escalatedAt <= r.updatedAt
  /\ r.state = "OPEN" => r.escalatedAt = Never /\ r.resolvedAt = Never
  /\ r.state = "ESCALATED" => r.escalatedAt = r.updatedAt /\ r.resolvedAt = Never
  /\ r.state = "RESOLVED" => r.resolvedAt = r.updatedAt
  /\ r.state = "WITHDRAWN" => r.resolvedAt = Never

StampsMatchState ==
  \A d \in Disputes : store[d] # NoDispute => StampsFit(store[d], now)

\* The process that confirmed the call's transition is still the running one.
Confirmed(c) == answer[c] = "200" /\ request[c].op \in Events /\ c \notin forgotten

\* A dispute on which no two calls have overlapped moves along the edges of the
\* table only, and never leaves a final state.
FollowsTable ==
  [][\A d \in Disputes \ overlapped' :
       LET from == store[d].state
           to == store'[d].state
       IN  \/ store'[d] = store[d]
           \/ from = "absent" /\ to = "OPEN"
           \/ \E e \in Events : <<from, e, to>> \in DISPUTE_TRANSITIONS
           \/ \A x \in Disputes : store'[x] = NoDispute]_vars

\* The steps of a dispute that a set of entries shows.
EdgesOf(log, d) == {<<e.from, Target(e.id[1])>> : e \in {x \in log : x.id[2] = d}}

\* The steps by which a dispute has come to where it is.
PathOf(r) ==
  {x \in {<<"OPEN", "ESCALATED">>} : r.escalatedAt # Never} \cup
  {x \in {<<IF r.escalatedAt = Never THEN "OPEN" ELSE "ESCALATED", r.state>>} :
     r.state \in FINAL_STATES}

\* Once nobody works on a dispute on which no two calls have overlapped, every
\* step on its path has its entry, or is one whose append failed: no entry shows
\* a step that was not made, and none is missing for any other reason.
TrailReplays ==
  \A d \in Disputes \ overlapped :
    store[d] # NoDispute /\ (\A c \in Calls : ~OnDispute(c, d)) =>
      /\ EdgesOf(own, d) \cup EdgesOf(unlogged, d) = PathOf(store[d])
      /\ EdgesOf(own, d) \cap EdgesOf(unlogged, d) = {}

\* Where no two calls have overlapped, what a confirmed call made is what was
\* stored next: it is still there, or a later transition left it.
ConfirmedInForce ==
  \A c \in Calls :
    Confirmed(c) /\ IdOf(c) \notin overlapped =>
      \/ store[IdOf(c)].state = Target(request[c].op)
      \/ /\ request[c].op = "escalate"
         /\ store[IdOf(c)].escalatedAt = made[c].escalatedAt

\* Where no two calls about the dispute have overlapped, an alert is about a
\* dispute that was escalated and has kept the stamp, and that stamp is the one
\* the breach was counted from, however stale the listing the alert comes from.
AlertIsJustified ==
  \A a \in audit :
    LET r == store[a.id[2]]
    IN  a.id[2] \notin overlapped =>
        /\ r.escalatedAt # Never
        /\ a.elapsed > SlaDays * TicksPerDay
        /\ a.elapsed <= now - r.escalatedAt
-----------------------------------------------------------------------------
(* What the documentation says and the code does not do *)

\* dispute.service.ts:202 -- final states have no outgoing transitions.
FinalStatesHold ==
  [][\A d \in Disputes :
       store[d].state \in FINAL_STATES =>
         store'[d] = store[d] \/ \A x \in Disputes : store'[x] = NoDispute]_vars

\* routes/disputes.ts:17 -- every state transition is recorded in the changelog
\* audit log, unless the append fails.  The log the changelog routes serve is changelogService; the
\* dispute service, built without arguments, made one of its own.
EveryTransitionAudited ==
  \A c \in Calls : Confirmed(c) /\ EntryOf(c) \notin unlogged =>
    \E a \in audit : a.id = EntryOf(c).id
=============================================================================
