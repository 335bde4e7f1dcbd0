------------------------- MODULE DisputeServiceProofs -------------------------
(***************************************************************************)
(* What holds of DisputeService for all values of its constants: first     *)
(* however the calls overlap, then where no two about a dispute have.      *)
(***************************************************************************)
EXTENDS DisputeService, TLAPS

\* What a handler holds at each of its suspension points.
HandlerKnows ==
  \A c \in Calls :
    /\ pc[c] \in {"opening", "opened"} =>
         request[c] \in [op : {"open"}, id : Disputes]
    /\ pc[c] \in {"deciding", "persisted", "logging", "duplicate", "logged"} =>
         request[c] \in [op : Events, id : Disputes]
    /\ pc[c] \in {"listing", "alerting"} => request[c] \in [op : {"breaches"}]
    /\ pc[c] \in {"persisted", "logging"} =>
         seen[c] \in DisputeRecords /\ made[c] \in DisputeRecords

\* A copy that a call holds is a whole record too, however old it is.
CopiesFit == \A c \in Calls : seen[c] # NoDispute => StampsFit(seen[c], now)

StampInv ==
  /\ ServiceTypes
  /\ HandlerKnows
  /\ CopiesFit
  /\ StampsMatchState
-----------------------------------------------------------------------------
LEMMA Values ==
  /\ NoDispute \notin DisputeRecords
  /\ SlaDays * TicksPerDay \in Nat
<1>1. NoDispute \notin DisputeRecords
  BY DEF NoDispute, DisputeRecords, States, FINAL_STATES
<1>2. SlaDays * TicksPerDay \in Nat
  BY TimeAssumption
<1> QED BY <1>1, <1>2

LEMMA TargetIsState ==
  ASSUME NEW s, NEW e, Permitted(s, e)
  PROVE  /\ s \in {"OPEN", "ESCALATED"} /\ e \in Events
         /\ Target(e) \in {"ESCALATED", "RESOLVED", "WITHDRAWN"}
         /\ Target(e) = "ESCALATED" => s = "OPEN"
BY DEF Permitted, DISPUTE_TRANSITIONS, Target, Events

\* Overlaying a whole record gives a whole record of the new state.
LEMMA UpdatedFits ==
  ASSUME NEW r \in DisputeRecords, NEW e, Permitted(r.state, e),
         NEW t \in Nat, StampsFit(r, t)
  PROVE  LET u == Updated(r, Target(e), t)
         IN  u \in DisputeRecords /\ StampsFit(u, t) /\ u.state = Target(e)
<1> DEFINE u == Updated(r, Target(e), t)
<1>1. /\ r.state \in {"OPEN", "ESCALATED"}
      /\ Target(e) \in {"ESCALATED", "RESOLVED", "WITHDRAWN"}
      /\ Target(e) = "ESCALATED" => r.state = "OPEN"
  BY TargetIsState
<1>2. /\ u.by = r.by /\ u.openedAt = r.openedAt /\ u.state = Target(e) /\ u.updatedAt = t
      /\ u.escalatedAt = IF Target(e) = "ESCALATED" THEN t ELSE r.escalatedAt
      /\ u.resolvedAt = IF Target(e) = "RESOLVED" THEN t ELSE r.resolvedAt
  BY DEF Updated, DisputeRecords
<1>3. u \in DisputeRecords
  BY <1>1 DEF Updated, DisputeRecords, States, FINAL_STATES, Times, Never
<1>4. StampsFit(u, t)
  <2> HIDE DEF u
  <2> QED BY <1>1, <1>2 DEF StampsFit, DisputeRecords, Times, Never
<1> QED BY <1>2, <1>3, <1>4

\* A new dispute is a whole record.
LEMMA OpenedFits ==
  ASSUME NEW c \in Calls, NEW t \in Nat
  PROVE  LET r == [by |-> c, state |-> "OPEN", openedAt |-> t, updatedAt |-> t,
                   escalatedAt |-> Never, resolvedAt |-> Never]
         IN  r \in DisputeRecords /\ StampsFit(r, t) /\ r.state = "OPEN"
BY DEF DisputeRecords, StampsFit, States, FINAL_STATES, Times, Never

\* The clock only makes the stamps older.
LEMMA StillFits ==
  ASSUME NEW t \in Nat, NEW r \in DisputeRecords, StampsFit(r, t)
  PROVE  StampsFit(r, t + 1)
BY DEF StampsFit, DisputeRecords

\* What a breach counts is a length of time beyond the SLA.
LEMMA BreachCounts ==
  ASSUME NEW r \in DisputeRecords, NEW t \in Nat, Breached(r, t)
  PROVE  t - r.escalatedAt \in Nat
<1> DEFINE sla == SlaDays * TicksPerDay
<1>1. /\ sla \in Nat /\ t - r.escalatedAt > sla
      /\ r.escalatedAt \in Times
  BY Values DEF Breached, DisputeRecords
<1> HIDE DEF sla
<1> QED BY <1>1 DEF Times, Never
-----------------------------------------------------------------------------
LEMMA StampInvInit == Init => StampInv
<1> SUFFICES ASSUME Init PROVE StampInv
  OBVIOUS
<1>1. ServiceTypes
  BY DEF Init, ServiceTypes, PCs, Answers
<1>2. HandlerKnows /\ CopiesFit /\ StampsMatchState
  BY DEF Init, HandlerKnows, CopiesFit, StampsMatchState
<1> QED BY <1>1, <1>2 DEF StampInv

\* A call that writes a whole record of its own for its dispute keeps every
\* stored record whole.
LEMMA StampInvWrite ==
  ASSUME StampInv, NEW c \in Calls, NEW r \in DisputeRecords, StampsFit(r, now),
         NEW l, l \in {"opened", "persisted"}, IdOf(c) \in Disputes,
         l = "opened" => request[c] \in [op : {"open"}, id : Disputes],
         l = "persisted" => /\ request[c] \in [op : Events, id : Disputes]
                            /\ seen[c] \in DisputeRecords,
         made' = [made EXCEPT ![c] = r],
         store' = [store EXCEPT ![IdOf(c)] = r],
         Goto(c, l),
         UNCHANGED <<own, audit, now, request, seen, batch>>
  PROVE  StampInv'
<1> USE DEF StampInv, ServiceTypes
<1>1. ServiceTypes'
  BY DEF Goto, PCs, Running
<1>2. HandlerKnows'
  BY DEF HandlerKnows, Goto
<1>3. CopiesFit'
  BY DEF CopiesFit
<1>4. StampsMatchState'
  BY DEF StampsMatchState
<1> QED BY <1>1, <1>2, <1>3, <1>4

\* A call that only moves on, or answers, keeps the invariant.
LEMMA StampInvMove ==
  ASSUME StampInv, NEW c \in Calls, NEW l \in PCs, NEW a \in Answers,
         pc' = [pc EXCEPT ![c] = l],
         answer' = [answer EXCEPT ![c] = a],
         \/ l = "done"
         \/ pc[c] = "persisted" /\ l \in {"duplicate", "logging", "logged"}
         \/ pc[c] = "logging" /\ l = "logged",
         UNCHANGED <<store, audit, now, request, seen, made, batch>>,
         own' \subseteq Entries
  PROVE  StampInv'
<1> USE DEF StampInv, ServiceTypes
<1>1. ServiceTypes'
  OBVIOUS
<1>2. HandlerKnows'
  BY DEF HandlerKnows
<1>3. CopiesFit' /\ StampsMatchState'
  BY DEF CopiesFit, StampsMatchState
<1> QED BY <1>1, <1>2, <1>3

\* Each disjunct of a handler's step.
LEMMA StampInvHandler ==
  ASSUME StampInv, NEW c \in Calls, HandlerStep(c)
  PROVE  StampInv'
<1> USE DEF StampInv, ServiceTypes
<1>1. CASE RefuseOpen(c)
  BY <1>1, StampInvMove DEF RefuseOpen, Reply, PCs, Answers
<1>2. CASE InsertOpen(c)
  <2> DEFINE r == [by |-> c, state |-> "OPEN", openedAt |-> now, updatedAt |-> now,
                   escalatedAt |-> Never, resolvedAt |-> Never]
  <2>1. r \in DisputeRecords /\ StampsFit(r, now)
    BY OpenedFits
  <2>2. request[c] \in [op : {"open"}, id : Disputes] /\ IdOf(c) \in Disputes
    BY <1>2 DEF InsertOpen, HandlerKnows, IdOf
  <2>3. /\ made' = [made EXCEPT ![c] = r]
        /\ store' = [store EXCEPT ![IdOf(c)] = r]
        /\ Goto(c, "opened")
        /\ UNCHANGED <<own, audit, now, request, seen, batch>>
    BY <1>2 DEF InsertOpen
  <2> HIDE DEF r
  <2> QED BY <2>1, <2>2, <2>3, StampInvWrite
<1>3. CASE FinishOpen(c)
  BY <1>3, StampInvMove DEF FinishOpen, Reply, PCs, Answers
<1>4. CASE RefuseTransition(c)
  <2>1. PICK a \in {"404", "409", "422"} : Reply(c, a)
    BY <1>4 DEF RefuseTransition
  <2> QED BY <1>4, <2>1, StampInvMove DEF RefuseTransition, Reply, PCs, Answers
<1>5. CASE Transition(c)
  <2> DEFINE r == Updated(seen[c], Target(request[c].op), now)
  <2>1. /\ seen[c] \in DisputeRecords /\ StampsFit(seen[c], now)
        /\ Permitted(seen[c].state, request[c].op)
    BY <1>5 DEF Transition, CopiesFit
  <2>2. r \in DisputeRecords /\ StampsFit(r, now)
    BY <2>1, UpdatedFits
  <2>3. request[c] \in [op : Events, id : Disputes] /\ IdOf(c) \in Disputes
    BY <1>5 DEF Transition, HandlerKnows, IdOf
  <2>4. /\ made' = [made EXCEPT ![c] = r]
        /\ store' = [store EXCEPT ![IdOf(c)] = r]
        /\ Goto(c, "persisted")
        /\ UNCHANGED <<own, audit, now, request, seen, batch>>
    BY <1>5 DEF Transition
  <2> HIDE DEF r
  <2> QED BY <2>1, <2>2, <2>3, <2>4, StampInvWrite
<1>6. CASE CheckEntry(c)
  <2>1. PICK l \in {"duplicate", "logging"} : Goto(c, l)
    BY <1>6 DEF CheckEntry
  <2>2. answer' = [answer EXCEPT ![c] = answer[c]] /\ answer[c] \in Answers
    BY <2>1 DEF Goto
  <2>3. /\ l \in PCs /\ pc[c] = "persisted"
        /\ pc' = [pc EXCEPT ![c] = l]
        /\ UNCHANGED <<store, audit, now, request, seen, made, batch>>
        /\ own' \subseteq Entries
    BY <1>6, <2>1 DEF CheckEntry, Goto, PCs, Running
  <2> HIDE DEF StampInv, ServiceTypes
  <2> QED BY <2>2, <2>3, StampInvMove
<1>7. CASE WriteEntry(c)
  <2>1. /\ request[c] \in [op : Events, id : Disputes]
        /\ seen[c] \in DisputeRecords /\ made[c] \in DisputeRecords
    BY <1>7 DEF WriteEntry, HandlerKnows
  <2>2. EntryOf(c) \in Entries
    BY <2>1 DEF EntryOf, Entries, EntryIds, DisputeRecords, IdOf
  <2>3. own' \subseteq Entries
    BY <1>7, <2>2 DEF WriteEntry
  <2>4. answer' = [answer EXCEPT ![c] = answer[c]] /\ answer[c] \in Answers
    BY <1>7 DEF WriteEntry, Goto
  <2> QED BY <1>7, <2>3, <2>4, StampInvMove DEF WriteEntry, Goto, PCs, Running
<1>12. CASE LoseEntry(c)
  <2>1. answer' = [answer EXCEPT ![c] = answer[c]] /\ answer[c] \in Answers
    BY <1>12 DEF LoseEntry, Goto
  <2> QED BY <1>12, <2>1, StampInvMove DEF LoseEntry, Goto, PCs, Running
<1>8. CASE FinishTransition(c)
  BY <1>8, StampInvMove DEF FinishTransition, Reply, PCs, Answers
<1>9. CASE PickBreaches(c)
  <2> DEFINE picked == {x \in batch[c] : Breached(x.dispute, now) /\ ~Alerted(x.id)}
  <2>1. batch' = [batch EXCEPT ![c] =
                    {[b EXCEPT !.elapsed = now - b.dispute.escalatedAt] : b \in picked}]
    BY <1>9 DEF PickBreaches
  <2>2. ASSUME NEW b \in picked
        PROVE  [b EXCEPT !.elapsed = now - b.dispute.escalatedAt]
                 \in [id : Disputes, dispute : DisputeRecords, elapsed : Nat]
    <3>1. /\ b \in [id : Disputes, dispute : DisputeRecords, elapsed : Nat]
          /\ Breached(b.dispute, now)
      OBVIOUS
    <3>2. now - b.dispute.escalatedAt \in Nat
      BY <3>1, BreachCounts
    <3> QED BY <3>1, <3>2
  <2>3. ServiceTypes'
    <3>1. {[b EXCEPT !.elapsed = now - b.dispute.escalatedAt] : b \in picked}
            \subseteq [id : Disputes, dispute : DisputeRecords, elapsed : Nat]
      BY <2>2
    <3>2. batch' \in [Calls -> SUBSET [id : Disputes, dispute : DisputeRecords,
                                       elapsed : Nat]]
      <4> HIDE DEF picked
      <4> QED BY <2>1, <3>1
    <3> QED BY <1>9, <3>2 DEF PickBreaches, Goto, PCs, Running
  <2>4. HandlerKnows' /\ CopiesFit' /\ StampsMatchState'
    BY <1>9 DEF PickBreaches, Goto, HandlerKnows, CopiesFit, StampsMatchState
  <2> QED BY <2>3, <2>4
<1>10. CASE FinishBreaches(c)
  BY <1>10, StampInvMove DEF FinishBreaches, Reply, PCs, Answers
<1>11. ASSUME NEW b \in batch[c], WriteAlert(c, b)
       PROVE  StampInv'
  <2>1. b.id \in Disputes /\ b.elapsed \in Nat
    OBVIOUS
  <2>2. audit' \subseteq [id : {"breach"} \X Disputes, elapsed : Nat]
    BY <1>11, <2>1 DEF WriteAlert, AlertId
  <2>3. ServiceTypes'
    BY <1>11, <2>2 DEF WriteAlert
  <2>4. HandlerKnows' /\ CopiesFit' /\ StampsMatchState'
    BY <1>11 DEF WriteAlert, HandlerKnows, CopiesFit, StampsMatchState
  <2> QED BY <2>3, <2>4
<1>13. ASSUME NEW b \in batch[c], SkipAlert(c, b)
       PROVE  StampInv'
  <2>1. ServiceTypes'
    BY <1>13 DEF SkipAlert
  <2>2. HandlerKnows' /\ CopiesFit' /\ StampsMatchState'
    BY <1>13 DEF SkipAlert, HandlerKnows, CopiesFit, StampsMatchState
  <2> QED BY <2>1, <2>2
<1> QED
  BY <1>1, <1>2, <1>3, <1>4, <1>5, <1>6, <1>7, <1>8, <1>9, <1>10, <1>11, <1>12, <1>13
  DEF HandlerStep

LEMMA StampInvStep == StampInv /\ [Next]_vars => StampInv'
<1> SUFFICES ASSUME StampInv, [Next]_vars PROVE StampInv'
  OBVIOUS
<1> USE DEF StampInv, ServiceTypes
<1>1. ASSUME NEW c \in Calls, RejectPayload(c)
      PROVE  StampInv'
  BY <1>1, StampInvMove DEF RejectPayload, Reply, PCs, Answers
<1>2. ASSUME NEW c \in Calls, NEW op \in {"open"} \cup Events, NEW d \in Disputes,
             Begin(c, op, d)
      PROVE  StampInv'
  <2>1. [op |-> op, id |-> d] \in Requests
    BY DEF Requests
  <2>2. ServiceTypes'
    BY <1>2, <2>1 DEF Begin, Goto, PCs, Running
  <2>3. HandlerKnows'
    BY <1>2 DEF Begin, Goto, HandlerKnows, Events
  <2>4. CopiesFit' /\ StampsMatchState'
    BY <1>2 DEF Begin, CopiesFit, StampsMatchState
  <2> QED BY <2>2, <2>3, <2>4
<1>3. ASSUME NEW c \in Calls, ListEscalated(c)
      PROVE  StampInv'
  <2>1. \A d \in Disputes : Escalated(store[d]) => store[d] \in DisputeRecords
    BY DEF Escalated, NoDispute
  <2>2. batch' \in [Calls -> SUBSET [id : Disputes, dispute : DisputeRecords,
                                     elapsed : Nat]]
    <3> DEFINE listed == {[id |-> d, dispute |-> store[d], elapsed |-> 0] :
                            d \in {x \in Disputes : Escalated(store[x])}}
    <3>1. listed \subseteq [id : Disputes, dispute : DisputeRecords, elapsed : Nat]
      BY <2>1
    <3>2. batch' = [batch EXCEPT ![c] = listed]
      BY <1>3 DEF ListEscalated
    <3> HIDE DEF listed
    <3> QED BY <3>1, <3>2
  <2>3. [op |-> "breaches"] \in Requests
    BY DEF Requests
  <2>4. ServiceTypes'
    BY <1>3, <2>2, <2>3 DEF ListEscalated, Goto, PCs, Running
  <2>5. HandlerKnows' /\ CopiesFit' /\ StampsMatchState'
    BY <1>3 DEF ListEscalated, Goto, HandlerKnows, CopiesFit, StampsMatchState
  <2> QED BY <2>4, <2>5
<1>4. CASE Tick
  <2>1. /\ now' = now + 1 /\ now' \in Nat
        /\ UNCHANGED <<store, own, audit, pc, request, seen, made, batch, answer>>
    BY <1>4 DEF Tick, callVars
  <2>2. ServiceTypes' /\ HandlerKnows'
    BY <2>1 DEF HandlerKnows
  <2>3. CopiesFit' /\ StampsMatchState'
    BY <2>1, StillFits DEF CopiesFit, StampsMatchState
  <2> QED BY <2>2, <2>3
<1>5. CASE Restart
  <2>1. ServiceTypes'
    BY <1>5 DEF Restart, PCs, Answers
  <2>2. HandlerKnows' /\ CopiesFit' /\ StampsMatchState'
    BY <1>5 DEF Restart, HandlerKnows, CopiesFit, StampsMatchState
  <2> QED BY <2>1, <2>2
<1>6. CASE UNCHANGED vars
  BY <1>6 DEF vars, callVars, HandlerKnows, CopiesFit, StampsMatchState
<1> QED
  BY <1>1, <1>2, <1>3, <1>4, <1>5, <1>6, StampInvHandler DEF Next, CallStep
-----------------------------------------------------------------------------
\* Whatever the number of calls, disputes and days, every variable keeps its type.
THEOREM TypeCorrect == Spec => []TypeOK
<1> DEFINE Known == /\ overlapped \subseteq Disputes
                    /\ forgotten \subseteq Calls
                    /\ unlogged \subseteq Entries
<1>1. Init => Known
  BY DEF Init
<1>2. StampInv /\ Known /\ [Next]_vars => Known'
  <2> SUFFICES ASSUME StampInv, Known, [Next]_vars PROVE Known'
    OBVIOUS
  <2>1. overlapped' \subseteq Disputes /\ forgotten' \subseteq Calls
    BY DEF Next, Watch, Restart, vars
  <2>2. unlogged' = unlogged \/ unlogged' = {} \/ \E c \in Calls : LoseEntry(c)
    BY DEF Next, CallStep, RejectPayload, Begin, ListEscalated, HandlerStep, RefuseOpen,
       InsertOpen, FinishOpen, RefuseTransition, Transition, CheckEntry, WriteEntry,
       FinishTransition, PickBreaches, FinishBreaches, WriteAlert, SkipAlert, Tick, Restart, vars
  <2>3. ASSUME NEW c \in Calls, LoseEntry(c) PROVE unlogged' \subseteq Entries
    <3>1. /\ request[c] \in [op : Events, id : Disputes]
          /\ seen[c] \in DisputeRecords /\ made[c] \in DisputeRecords
      BY <2>3 DEF LoseEntry, StampInv, HandlerKnows
    <3>2. EntryOf(c) \in Entries
      BY <3>1 DEF EntryOf, Entries, EntryIds, DisputeRecords, IdOf
    <3> QED BY <2>3, <3>2 DEF LoseEntry
  <2> QED BY <2>1, <2>2, <2>3
<1>3. StampInv /\ Known => TypeOK
  BY DEF StampInv, TypeOK
<1> HIDE DEF Known
<1> QED BY StampInvInit, StampInvStep, <1>1, <1>2, <1>3, PTL DEF Spec

\* However the calls overlap, a dispute in the store carries the stamps of the
\* state it is in, in order: transition overlays whole records only.
THEOREM StampsAgree == Spec => []StampsMatchState
<1>1. StampInv => StampsMatchState
  BY DEF StampInv
<1> QED BY StampInvInit, StampInvStep, <1>1, PTL DEF Spec
-----------------------------------------------------------------------------
(* Where no two calls about a dispute have overlapped *)

\* At most one call works on the dispute, and what it read is still stored.
Undisturbed ==
  /\ \A d \in Disputes \ overlapped :
       \A b, c \in Calls : OnDispute(b, d) /\ OnDispute(c, d) => b = c
  /\ \A c \in Calls :
       pc[c] \in {"opening", "deciding"} /\ IdOf(c) \notin overlapped =>
         seen[c] = store[IdOf(c)]

SerialInv == StampInv /\ Undisturbed

\* Only a call on a dispute writes to it.
WritesOwn(c) ==
  \A d \in Disputes : store'[d] # store[d] => OnDispute(c, d)

LEMMA SerialInvInit == Init => SerialInv
<1> SUFFICES ASSUME Init PROVE SerialInv
  OBVIOUS
<1>1. Undisturbed
  BY DEF Init, Undisturbed, OnDispute, Running
<1> QED BY <1>1, StampInvInit DEF SerialInv

\* A step of a running handler puts no call on a dispute, and the dispute that
\* it writes is its own.
LEMMA HandlerStaysOn ==
  ASSUME StampInv, NEW c \in Calls, HandlerStep(c)
  PROVE  /\ request' = request /\ seen' = seen
         /\ pc' \in [Calls -> PCs]
         /\ \A b \in Calls : b # c => pc'[b] = pc[b]
         /\ pc[c] \in Running
         /\ pc'[c] \notin {"opening", "deciding"}
         /\ WritesOwn(c)
<1> USE DEF StampInv, ServiceTypes
<1>1. pc' \in [Calls -> PCs]
  BY StampInvHandler
<1>2. CASE InsertOpen(c) \/ Transition(c)
  <2>1. /\ pc[c] \in {"opening", "deciding"}
        /\ request' = request /\ seen' = seen
        /\ \E l \in {"opened", "persisted"} : pc' = [pc EXCEPT ![c] = l]
        /\ store' = [store EXCEPT ![IdOf(c)] = made'[c]]
    BY <1>2 DEF InsertOpen, Transition, Goto
  <2>2. request[c].op # "breaches"
    BY <2>1 DEF HandlerKnows, Events
  <2>3. WritesOwn(c)
    BY <2>1, <2>2 DEF WritesOwn, OnDispute, Running
  <2> QED BY <1>1, <2>1, <2>3 DEF Running
<1>3. CASE ~(InsertOpen(c) \/ Transition(c))
  <2>1. store' = store /\ request' = request /\ seen' = seen /\ pc[c] \in Running
    BY <1>3 DEF HandlerStep, RefuseOpen, FinishOpen, RefuseTransition, CheckEntry,
       WriteEntry, LoseEntry, FinishTransition, PickBreaches, FinishBreaches, WriteAlert, SkipAlert, Running
  <2>2. \/ pc' = pc /\ pc[c] = "alerting"
        \/ \E l \in {"done", "duplicate", "logging", "logged", "alerting"} :
             pc' = [pc EXCEPT ![c] = l]
    BY <1>3 DEF HandlerStep, RefuseOpen, FinishOpen, RefuseTransition, CheckEntry,
       WriteEntry, LoseEntry, FinishTransition, PickBreaches, FinishBreaches, WriteAlert, SkipAlert,
       Goto, Reply
  <2> QED BY <1>1, <2>1, <2>2 DEF WritesOwn
<1> QED BY <1>2, <1>3

LEMMA UndisturbedStep == SerialInv /\ [Next]_vars => Undisturbed'
<1> SUFFICES ASSUME SerialInv, [Next]_vars PROVE Undisturbed'
  OBVIOUS
<1> USE DEF SerialInv
<1> DEFINE One == \A d \in Disputes \ overlapped : \A b, c \in Calls :
                    OnDispute(b, d) /\ OnDispute(c, d) => b = c
           Fresh == \A c \in Calls :
                      pc[c] \in {"opening", "deciding"} /\ IdOf(c) \notin overlapped =>
                        seen[c] = store[IdOf(c)]
<1>0. overlapped \subseteq overlapped'
  BY DEF Next, Watch, vars
<1>1. ASSUME NEW c \in Calls, HandlerStep(c)
      PROVE  Undisturbed'
  <2>1. /\ request' = request /\ seen' = seen
        /\ \A b \in Calls : b # c => pc'[b] = pc[b]
        /\ pc[c] \in Running /\ pc'[c] \notin {"opening", "deciding"}
        /\ WritesOwn(c)
    BY <1>1, HandlerStaysOn
  <2>2. One'
    BY <1>0, <2>1 DEF Undisturbed, OnDispute, IdOf
  <2>3. ASSUME NEW b \in Calls, pc'[b] \in {"opening", "deciding"},
               IdOf(b)' \notin overlapped'
        PROVE  seen'[b] = store'[IdOf(b)']
    <3>1. /\ b # c /\ pc[b] = pc'[b] /\ IdOf(b) \notin overlapped
          /\ IdOf(b)' = IdOf(b) /\ seen'[b] = store[IdOf(b)]
      BY <1>0, <2>1, <2>3 DEF Undisturbed, IdOf
    <3>2. IdOf(b) \in Disputes /\ OnDispute(b, IdOf(b))
      BY <2>3, <3>1 DEF StampInv, HandlerKnows, OnDispute, Running, IdOf, Events
    <3>3. ~OnDispute(c, IdOf(b))
      BY <3>1, <3>2 DEF Undisturbed
    <3> QED BY <2>1, <3>1, <3>2, <3>3 DEF WritesOwn
  <2> QED BY <2>2, <2>3 DEF Undisturbed
<1>2. ASSUME NEW c \in Calls, NEW op \in {"open"} \cup Events, NEW d \in Disputes,
             Begin(c, op, d), Watch
      PROVE  Undisturbed'
  <2>1. /\ pc[c] = "idle" /\ store' = store
        /\ request' = [request EXCEPT ![c] = [op |-> op, id |-> d]]
        /\ seen' = [seen EXCEPT ![c] = store[d]]
        /\ pc' = [pc EXCEPT ![c] = IF op = "open" THEN "opening" ELSE "deciding"]
    BY <1>2 DEF Begin, Goto
  <2>2. /\ \A b \in Calls \ {c} : /\ pc'[b] = pc[b] /\ request'[b] = request[b]
                                  /\ seen'[b] = seen[b]
        /\ pc'[c] \in {"opening", "deciding"}
        /\ request'[c].id = d /\ seen'[c] = store[d]
    BY <2>1 DEF StampInv, ServiceTypes
  <2>3. OnDispute(c, d)'
    BY <2>1, <2>2 DEF OnDispute, Running, IdOf, StampInv, ServiceTypes, Events
  <2>4. d \notin overlapped' => \A b \in Calls \ {c} : ~OnDispute(b, d)
    BY <1>2, <2>1, <2>3 DEF Watch
  <2>5. ASSUME NEW x \in Disputes \ overlapped', NEW a \in Calls, NEW b \in Calls,
               OnDispute(a, x)', OnDispute(b, x)'
        PROVE  a = b
    <3>1. \A y \in Calls \ {c} : OnDispute(y, x)' => OnDispute(y, x)
      BY <2>2 DEF OnDispute, IdOf
    <3>2. OnDispute(c, x)' => x = d
      BY <2>2 DEF OnDispute, IdOf
    <3> QED BY <1>0, <2>4, <2>5, <3>1, <3>2 DEF Undisturbed
  <2>6. Fresh'
    BY <1>0, <2>1, <2>2 DEF Undisturbed, IdOf
  <2> QED BY <2>5, <2>6 DEF Undisturbed
<1>3. ASSUME NEW c \in Calls, RejectPayload(c) \/ ListEscalated(c)
      PROVE  Undisturbed'
  <2>1. /\ store' = store /\ seen' = seen
        /\ \A b \in Calls \ {c} : pc'[b] = pc[b] /\ request'[b] = request[b]
        /\ \/ pc'[c] = "done"
           \/ pc'[c] = "listing" /\ request'[c].op = "breaches"
    BY <1>3 DEF RejectPayload, ListEscalated, Reply, Goto, StampInv, ServiceTypes
  <2>2. One'
    BY <1>0, <2>1 DEF Undisturbed, OnDispute, IdOf, Running
  <2>3. Fresh'
    BY <1>0, <2>1 DEF Undisturbed, IdOf
  <2> QED BY <2>2, <2>3 DEF Undisturbed
<1>4. CASE Tick \/ UNCHANGED vars
  BY <1>0, <1>4 DEF Tick, callVars, vars, Undisturbed, OnDispute, IdOf
<1>5. CASE Restart
  BY <1>5 DEF Restart, Undisturbed, OnDispute, Running
<1> QED BY <1>1, <1>2, <1>3, <1>4, <1>5 DEF Next, CallStep

LEMMA SerialInvStep == SerialInv /\ [Next]_vars => SerialInv'
BY StampInvStep, UndisturbedStep DEF SerialInv

LEMMA TableStep ==
  ASSUME SerialInv, [Next]_vars, NEW d \in Disputes \ overlapped', store'[d] # store[d],
         ~Restart
  PROVE  \/ store[d].state = "absent" /\ store'[d].state = "OPEN"
         \/ \E e \in Events :
              <<store[d].state, e, store'[d].state>> \in DISPUTE_TRANSITIONS
<1>0. d \notin overlapped
  BY DEF Next, Watch, vars
<1>1. PICK c \in Calls : InsertOpen(c) \/ Transition(c)
  BY DEF Next, CallStep, RejectPayload, Begin, ListEscalated, HandlerStep,
     RefuseOpen, FinishOpen, RefuseTransition, CheckEntry, WriteEntry, LoseEntry,
     FinishTransition, PickBreaches, FinishBreaches, WriteAlert, SkipAlert, Tick, vars
<1>2. /\ store' = [store EXCEPT ![IdOf(c)] = made'[c]]
      /\ pc[c] \in {"opening", "deciding"}
  BY <1>1 DEF InsertOpen, Transition
<1>3. /\ d = IdOf(c) /\ store'[d] = made'[c] /\ seen[c] = store[d]
  BY <1>0, <1>2 DEF SerialInv, StampInv, ServiceTypes, Undisturbed
<1>4. CASE InsertOpen(c)
  <2>1. made'[c].state = "OPEN"
    BY <1>4 DEF InsertOpen, SerialInv, StampInv, ServiceTypes
  <2> QED BY <1>3, <1>4, <2>1 DEF InsertOpen, NoDispute
<1>5. CASE Transition(c)
  <2>1. /\ seen[c] \in DisputeRecords /\ StampsFit(seen[c], now) /\ now \in Nat
        /\ Permitted(seen[c].state, request[c].op)
        /\ made'[c] = Updated(seen[c], Target(request[c].op), now)
    BY <1>5 DEF Transition, CopiesFit, SerialInv, StampInv, ServiceTypes
  <2>2. made'[c].state = Target(request[c].op) /\ request[c].op \in Events
    BY <2>1, UpdatedFits, TargetIsState
  <2> QED BY <1>3, <2>1, <2>2 DEF Permitted
<1> QED BY <1>1, <1>4, <1>5

\* A stored dispute on which no two calls have overlapped only moves along the
\* edges of DISPUTE_TRANSITIONS: in particular no final state is left.
THEOREM TableFollowed == Spec => FollowsTable
<1> DEFINE Moves ==
      \A d \in Disputes \ overlapped' :
        LET from == store[d].state
            to == store'[d].state
        IN  \/ store'[d] = store[d]
            \/ from = "absent" /\ to = "OPEN"
            \/ \E e \in Events : <<from, e, to>> \in DISPUTE_TRANSITIONS
            \/ \A x \in Disputes : store'[x] = NoDispute
<1>1. SerialInv /\ [Next]_vars => [Moves]_vars
  <2> SUFFICES ASSUME SerialInv, [Next]_vars PROVE Moves
    OBVIOUS
  <2>1. CASE Restart
    BY <2>1 DEF Restart
  <2>2. CASE ~Restart
    BY <2>2, TableStep
  <2> QED BY <2>1, <2>2
<1> QED BY SerialInvInit, SerialInvStep, <1>1, PTL DEF Spec, FollowsTable
-----------------------------------------------------------------------------
(* What a confirmed call, an alert and an audit entry rest on *)

\* A call answers last.
AnswersAreLast == \A c \in Calls : pc[c] # "done" => answer[c] = "none"

\* The call's transition is stored, by the process that is running.
Stored(c) ==
  /\ request[c] \in [op : Events, id : Disputes]
  /\ c \notin forgotten
  /\ pc[c] \in {"persisted", "logging", "duplicate", "logged"} \/ answer[c] = "200"

\* A stamp of an escalation outlives whatever follows it; a final state stays.
StoredHolds ==
  \A c \in Calls : Stored(c) /\ IdOf(c) \notin overlapped =>
    LET r == store[IdOf(c)]
    IN  /\ r \in DisputeRecords
        /\ IF request[c].op = "escalate"
           THEN r.escalatedAt # Never /\ r.escalatedAt = made[c].escalatedAt
           ELSE r.state = Target(request[c].op)

\* A listed dispute has kept the stamp it was listed with.
BatchHolds ==
  \A c \in Calls : \A b \in batch[c] :
    pc[c] \in {"listing", "alerting"} /\ b.id \notin overlapped =>
      LET r == store[b.id]
      IN  /\ r \in DisputeRecords /\ r.escalatedAt # Never
          /\ pc[c] = "listing" => b.dispute.escalatedAt = r.escalatedAt
          /\ pc[c] = "alerting" => /\ b.elapsed > SlaDays * TicksPerDay
                                  /\ b.elapsed <= now - r.escalatedAt

AlertHolds ==
  \A a \in audit : a.id[2] \notin overlapped =>
    LET r == store[a.id[2]]
    IN  /\ r \in DisputeRecords /\ r.escalatedAt # Never
        /\ a.elapsed > SlaDays * TicksPerDay
        /\ a.elapsed <= now - r.escalatedAt

KeptInv == SerialInv /\ AnswersAreLast /\ StoredHolds /\ BatchHolds /\ AlertHolds

\* The stamp of an escalation in an overlaid record.
LEMMA UpdatedStamp ==
  ASSUME NEW r \in DisputeRecords, NEW to, NEW t
  PROVE  Updated(r, to, t).escalatedAt = IF to = "ESCALATED" THEN t ELSE r.escalatedAt
BY DEF Updated, DisputeRecords

\* Where no two calls have overlapped only a restart takes away a stamp of an
\* escalation or a final state.
LEMMA OnlyRestartUndoes ==
  SerialInv /\ [Next]_vars /\ ~Restart =>
    \A d \in Disputes \ overlapped' :
      store[d] \in DisputeRecords =>
        /\ store'[d] \in DisputeRecords
        /\ store[d].escalatedAt # Never => store'[d].escalatedAt = store[d].escalatedAt
        /\ store[d].state \in FINAL_STATES => store'[d] = store[d]
<1> SUFFICES ASSUME SerialInv, [Next]_vars, ~Restart, NEW d \in Disputes \ overlapped',
                    store[d] \in DisputeRecords
             PROVE  /\ store'[d] \in DisputeRecords
                    /\ store[d].escalatedAt # Never => store'[d].escalatedAt = store[d].escalatedAt
                    /\ store[d].state \in FINAL_STATES => store'[d] = store[d]
  OBVIOUS
<1>0. d \notin overlapped
  BY DEF Next, Watch, vars
<1>1. CASE store'[d] = store[d]
  BY <1>1
<1>2. CASE store'[d] # store[d]
  <2>1. PICK c \in Calls : InsertOpen(c) \/ Transition(c)
    BY <1>2 DEF Next, CallStep, RejectPayload, Begin, ListEscalated, HandlerStep,
       RefuseOpen, FinishOpen, RefuseTransition, CheckEntry, WriteEntry, LoseEntry,
       FinishTransition, PickBreaches, FinishBreaches, WriteAlert, SkipAlert, Tick, vars
  <2>2. /\ store' = [store EXCEPT ![IdOf(c)] = made'[c]]
        /\ pc[c] \in {"opening", "deciding"}
    BY <2>1 DEF InsertOpen, Transition
  <2>3. d = IdOf(c) /\ store'[d] = made'[c] /\ seen[c] = store[d]
    BY <1>0, <1>2, <2>2 DEF SerialInv, StampInv, ServiceTypes, Undisturbed
  <2>4. /\ Permitted(seen[c].state, request[c].op) /\ now \in Nat
        /\ seen[c] \in DisputeRecords /\ StampsFit(seen[c], now)
        /\ made'[c] = Updated(seen[c], Target(request[c].op), now)
    BY <2>1, <2>3, Values DEF InsertOpen, Transition, CopiesFit, SerialInv, StampInv,
       ServiceTypes
  <2>5. /\ made'[c] \in DisputeRecords
        /\ made'[c].escalatedAt = IF Target(request[c].op) = "ESCALATED" THEN now
                                  ELSE seen[c].escalatedAt
    BY <2>4, UpdatedFits, UpdatedStamp
  <2>6. /\ seen[c].state \in {"OPEN", "ESCALATED"}
        /\ Target(request[c].op) = "ESCALATED" => seen[c].escalatedAt = Never
    BY <2>4, TargetIsState DEF StampsFit
  <2> QED BY <2>3, <2>5, <2>6 DEF FINAL_STATES
<1> QED BY <1>1, <1>2

\* Between restarts a transition that is stored was stored, or is now.
LEMMA StoredBefore ==
  SerialInv /\ AnswersAreLast /\ [Next]_vars /\ ~Restart =>
    \A c \in Calls : Stored(c)' =>
      \/ Stored(c) /\ request'[c] = request[c] /\ made'[c] = made[c]
      \/ Transition(c)
<1> SUFFICES ASSUME SerialInv, AnswersAreLast, [Next]_vars, ~Restart,
                    NEW c \in Calls, Stored(c)', ~Transition(c)
             PROVE  Stored(c) /\ request'[c] = request[c] /\ made'[c] = made[c]
  OBVIOUS
<1>0. forgotten' = forgotten
  BY DEF Next, vars
<1> USE <1>0 DEF SerialInv, StampInv, ServiceTypes, Stored, AnswersAreLast, Events
<1>1. CASE Tick \/ UNCHANGED vars
  BY <1>1 DEF Tick, vars, callVars
<1>2. ASSUME NEW b \in Calls, NEW op \in {"open"} \cup Events, NEW d \in Disputes,
             Begin(b, op, d)
      PROVE  Stored(c) /\ request'[c] = request[c] /\ made'[c] = made[c]
  BY <1>2 DEF Begin, Goto
<1>3. ASSUME NEW b \in Calls, RejectPayload(b) \/ ListEscalated(b)
      PROVE  Stored(c) /\ request'[c] = request[c] /\ made'[c] = made[c]
  BY <1>3 DEF RejectPayload, ListEscalated, Reply, Goto
<1>4. ASSUME NEW b \in Calls, HandlerStep(b)
      PROVE  Stored(c) /\ request'[c] = request[c] /\ made'[c] = made[c]
  <2>1. request' = request
    BY <1>4, HandlerStaysOn
  <2>2. CASE b # c
    BY <1>4, <2>1, <2>2 DEF HandlerStep, RefuseOpen, InsertOpen, FinishOpen, RefuseTransition,
       Transition, CheckEntry, WriteEntry, LoseEntry, FinishTransition, PickBreaches, FinishBreaches,
       WriteAlert, SkipAlert, Reply, Goto
  <2>3. CASE b = c
    BY <1>4, <2>1, <2>3 DEF HandlerStep, RefuseOpen, InsertOpen, FinishOpen, RefuseTransition,
       CheckEntry, WriteEntry, LoseEntry, FinishTransition, PickBreaches, FinishBreaches,
       WriteAlert, SkipAlert, Reply, Goto, HandlerKnows
  <2> QED BY <2>2, <2>3
<1>5. Tick \/ UNCHANGED vars \/ \E b \in Calls : CallStep(b)
  BY DEF Next
<1> HIDE DEF SerialInv, StampInv, ServiceTypes, Stored, AnswersAreLast, Events
<1> QED BY <1>1, <1>2, <1>3, <1>4, <1>5 DEF CallStep

LEMMA AnswersAreLastStep == SerialInv /\ AnswersAreLast /\ [Next]_vars => AnswersAreLast'
<1> SUFFICES ASSUME SerialInv, AnswersAreLast, [Next]_vars PROVE AnswersAreLast'
  OBVIOUS
<1> USE DEF SerialInv, StampInv, ServiceTypes, AnswersAreLast
<1>1. CASE Tick \/ UNCHANGED vars
  BY <1>1 DEF Tick, vars, callVars
<1>2. CASE Restart
  BY <1>2 DEF Restart, Running
<1>3. ASSUME NEW b \in Calls, CallStep(b)
      PROVE  AnswersAreLast'
  BY <1>3 DEF CallStep, Begin, RejectPayload, ListEscalated, HandlerStep, RefuseOpen, InsertOpen,
     FinishOpen, RefuseTransition, Transition, CheckEntry, WriteEntry, LoseEntry, FinishTransition,
     PickBreaches, FinishBreaches, WriteAlert, SkipAlert, Reply, Goto
<1> QED BY <1>1, <1>2, <1>3 DEF Next

LEMMA StoredHoldsStep == KeptInv /\ [Next]_vars => StoredHolds'
<1> SUFFICES ASSUME KeptInv, [Next]_vars, NEW c \in Calls, Stored(c)', IdOf(c)' \notin overlapped'
             PROVE  LET r == store'[IdOf(c)']
                    IN  /\ r \in DisputeRecords
                        /\ IF request'[c].op = "escalate"
                           THEN r.escalatedAt # Never /\ r.escalatedAt = made'[c].escalatedAt
                           ELSE r.state = Target(request'[c].op)
  BY DEF StoredHolds
<1>1. ~Restart
  BY DEF Restart, Stored, KeptInv, AnswersAreLast, SerialInv, StampInv, ServiceTypes, PCs
<1>2. /\ overlapped \subseteq overlapped'
      /\ IdOf(c)' \in Disputes /\ request'[c].op \in Events
  BY DEF Next, Watch, vars, Stored, IdOf
<1>3. CASE Stored(c) /\ request'[c] = request[c] /\ made'[c] = made[c]
  <2>1. IdOf(c)' = IdOf(c) /\ IdOf(c) \in Disputes \ overlapped'
    BY <1>2, <1>3 DEF IdOf
  <2>2. store[IdOf(c)] \in DisputeRecords
    BY <1>2, <1>3, <2>1 DEF KeptInv, StoredHolds
  <2>3. /\ store'[IdOf(c)] \in DisputeRecords
        /\ store[IdOf(c)].escalatedAt # Never =>
             store'[IdOf(c)].escalatedAt = store[IdOf(c)].escalatedAt
        /\ store[IdOf(c)].state \in FINAL_STATES => store'[IdOf(c)] = store[IdOf(c)]
    BY <1>1, <2>1, <2>2, OnlyRestartUndoes DEF KeptInv
  <2>4. request[c].op # "escalate" => Target(request[c].op) \in FINAL_STATES
    BY <1>2, <1>3 DEF Events, Target, FINAL_STATES
  <2> QED BY <1>2, <1>3, <2>1, <2>3, <2>4 DEF KeptInv, StoredHolds
<1>4. CASE Transition(c)
  <2>1. /\ Permitted(seen[c].state, request[c].op) /\ now \in Nat /\ request' = request
        /\ seen[c] \in DisputeRecords /\ StampsFit(seen[c], now)
        /\ made'[c] = Updated(seen[c], Target(request[c].op), now)
        /\ store'[IdOf(c)] = made'[c]
    BY <1>2, <1>4 DEF Transition, CopiesFit, KeptInv, SerialInv, StampInv, ServiceTypes, IdOf
  <2>2. /\ made'[c] \in DisputeRecords /\ made'[c].state = Target(request[c].op)
        /\ made'[c].escalatedAt = IF Target(request[c].op) = "ESCALATED" THEN now
                                  ELSE seen[c].escalatedAt
    BY <2>1, UpdatedFits, UpdatedStamp
  <2>3. request[c].op = "escalate" => Target(request[c].op) = "ESCALATED"
    BY DEF Target
  <2> QED BY <2>1, <2>2, <2>3 DEF Never, IdOf
<1> QED BY <1>1, <1>3, <1>4, StoredBefore DEF KeptInv

\* What an earlier look at an undisturbed dispute's stamp told is still so.
LEMMA StampOutlives ==
  ASSUME KeptInv, [Next]_vars, ~Restart, NEW d \in Disputes \ overlapped',
         store[d] \in DisputeRecords, store[d].escalatedAt # Never
  PROVE  /\ d \notin overlapped /\ store'[d] \in DisputeRecords
         /\ store'[d].escalatedAt = store[d].escalatedAt
         /\ store[d].escalatedAt \in Nat /\ now \in Nat /\ now' \in {now, now + 1}
<1>1. d \notin overlapped
  BY DEF Next, Watch, vars
<1>2. store'[d] \in DisputeRecords /\ store'[d].escalatedAt = store[d].escalatedAt
  BY OnlyRestartUndoes DEF KeptInv
<1>3. store[d].escalatedAt \in Nat
  BY DEF DisputeRecords, Times
<1>4. now \in Nat /\ now' \in {now, now + 1}
  BY DEF Next, CallStep, RejectPayload, Begin, ListEscalated, HandlerStep, RefuseOpen, InsertOpen,
     FinishOpen, RefuseTransition, Transition, CheckEntry, WriteEntry, LoseEntry, FinishTransition,
     PickBreaches, FinishBreaches, WriteAlert, SkipAlert, Tick, vars, KeptInv, SerialInv, StampInv,
     ServiceTypes
<1> QED BY <1>1, <1>2, <1>3, <1>4

\* A batch is read, or picked, by its call, and otherwise only shrinks.
LEMMA BatchBefore ==
  KeptInv /\ [Next]_vars =>
    \A c \in Calls : pc'[c] \in {"listing", "alerting"} =>
      \/ ListEscalated(c) \/ PickBreaches(c)
      \/ pc[c] = pc'[c] /\ batch'[c] \subseteq batch[c] /\ ~Restart
<1> SUFFICES ASSUME KeptInv, [Next]_vars, NEW c \in Calls, pc'[c] \in {"listing", "alerting"},
                    ~ListEscalated(c), ~PickBreaches(c)
             PROVE  pc[c] = pc'[c] /\ batch'[c] \subseteq batch[c] /\ ~Restart
  OBVIOUS
<1> USE DEF KeptInv, SerialInv, StampInv, ServiceTypes
<1>1. CASE Restart
  BY <1>1 DEF Restart
<1>2. CASE Tick \/ UNCHANGED vars
  <2>1. pc' = pc /\ batch' = batch
    BY <1>2 DEF Tick, vars, callVars
  <2>2. ~Restart
    BY <2>1 DEF Restart
  <2> QED BY <2>1, <2>2
<1>3. ASSUME NEW b \in Calls, CallStep(b)
      PROVE  pc[c] = pc'[c] /\ batch'[c] \subseteq batch[c] /\ ~Restart
  <2>1. pc[c] = pc'[c] /\ batch'[c] \subseteq batch[c]
    BY <1>3 DEF CallStep, Begin, RejectPayload, ListEscalated, HandlerStep, RefuseOpen,
       InsertOpen, FinishOpen, RefuseTransition, Transition, CheckEntry, WriteEntry, LoseEntry,
       FinishTransition, PickBreaches, FinishBreaches, WriteAlert, SkipAlert, Reply, Goto
  <2>2. ~Restart
    BY <2>1 DEF Restart
  <2> QED BY <2>1, <2>2
<1> QED BY <1>1, <1>2, <1>3 DEF Next

LEMMA BatchHoldsStep == KeptInv /\ [Next]_vars => BatchHolds'
<1> DEFINE sla == SlaDays * TicksPerDay
<1> SUFFICES ASSUME KeptInv, [Next]_vars, NEW c \in Calls, NEW b \in batch'[c],
                    pc'[c] \in {"listing", "alerting"}, b.id \notin overlapped'
             PROVE  LET r == store'[b.id]
                    IN  /\ r \in DisputeRecords /\ r.escalatedAt # Never
                        /\ pc'[c] = "listing" => b.dispute.escalatedAt = r.escalatedAt
                        /\ pc'[c] = "alerting" => /\ b.elapsed > sla
                                                 /\ b.elapsed <= now' - r.escalatedAt
  BY DEF BatchHolds
<1>0. sla \in Nat /\ overlapped \subseteq overlapped'
  BY Values DEF Next, Watch, vars
<1>1. CASE ListEscalated(c)
  <2>1. /\ pc'[c] = "listing" /\ store' = store
        /\ \E d \in Disputes : /\ Escalated(store[d])
                               /\ b = [id |-> d, dispute |-> store[d], elapsed |-> 0]
    BY <1>1 DEF ListEscalated, Goto, KeptInv, SerialInv, StampInv, ServiceTypes
  <2>2. PICK d \in Disputes : /\ Escalated(store[d])
                              /\ b = [id |-> d, dispute |-> store[d], elapsed |-> 0]
    BY <2>1
  <2>3. store[d] \in DisputeRecords
    BY <2>2 DEF Escalated, NoDispute, KeptInv, SerialInv, StampInv, ServiceTypes
  <2>4. store[d].escalatedAt # Never
    BY <2>2, <2>3, Values DEF Escalated, StampsMatchState, StampsFit, DisputeRecords, Never,
       KeptInv, SerialInv, StampInv
  <2> QED BY <2>1, <2>2, <2>3, <2>4
<1>2. CASE PickBreaches(c)
  <2>1. /\ pc[c] = "listing" /\ pc'[c] = "alerting" /\ store' = store /\ now' = now
        /\ \E x \in batch[c] : /\ Breached(x.dispute, now)
                               /\ b = [x EXCEPT !.elapsed = now - x.dispute.escalatedAt]
    BY <1>2 DEF PickBreaches, Goto, KeptInv, SerialInv, StampInv, ServiceTypes
  <2>2. PICK x \in batch[c] : /\ Breached(x.dispute, now)
                              /\ b = [x EXCEPT !.elapsed = now - x.dispute.escalatedAt]
    BY <2>1
  <2>3. x \in [id : Disputes, dispute : DisputeRecords, elapsed : Nat]
    BY DEF KeptInv, SerialInv, StampInv, ServiceTypes
  <2>4. b.id = x.id /\ b.elapsed = now - x.dispute.escalatedAt
    BY <2>2, <2>3
  <2>5. /\ store[x.id] \in DisputeRecords /\ store[x.id].escalatedAt # Never
        /\ x.dispute.escalatedAt = store[x.id].escalatedAt
    BY <1>0, <2>1, <2>4 DEF KeptInv, BatchHolds
  <2>6. b.elapsed > sla /\ b.elapsed \in Int
    <3>1. now - x.dispute.escalatedAt > sla
      BY <2>2 DEF Breached
    <3>2. now \in Nat /\ x.dispute.escalatedAt \in Int
      BY <2>5 DEF KeptInv, SerialInv, StampInv, ServiceTypes, DisputeRecords, Times, Never
    <3> HIDE DEF sla
    <3> QED BY <2>4, <3>1, <3>2
  <2>7. b.elapsed <= now' - store'[b.id].escalatedAt
    <3>1. b.elapsed = now' - store'[b.id].escalatedAt
      BY <2>1, <2>4, <2>5
    <3> QED BY <2>6, <3>1
  <2> QED BY <2>1, <2>4, <2>5, <2>6, <2>7
<1>3. CASE pc[c] = pc'[c] /\ batch'[c] \subseteq batch[c] /\ ~Restart
  <2>1. /\ b \in batch[c] /\ b.id \in Disputes \ overlapped'
        /\ b \in [id : Disputes, dispute : DisputeRecords, elapsed : Nat]
    BY <1>3 DEF KeptInv, SerialInv, StampInv, ServiceTypes
  <2>2. /\ store[b.id] \in DisputeRecords /\ store[b.id].escalatedAt # Never
        /\ pc[c] = "listing" => b.dispute.escalatedAt = store[b.id].escalatedAt
        /\ pc[c] = "alerting" => b.elapsed > sla /\ b.elapsed <= now - store[b.id].escalatedAt
    BY <1>0, <1>3, <2>1 DEF KeptInv, BatchHolds
  <2>3. /\ store'[b.id] \in DisputeRecords /\ store'[b.id].escalatedAt = store[b.id].escalatedAt
        /\ store[b.id].escalatedAt \in Nat /\ now \in Nat /\ now' \in {now, now + 1}
    BY <1>3, <2>1, <2>2, StampOutlives
  <2>4. pc[c] = "alerting" => b.elapsed <= now' - store[b.id].escalatedAt
    BY <2>1, <2>2, <2>3
  <2> HIDE DEF sla
  <2> QED BY <1>3, <2>2, <2>3, <2>4
<1> QED BY <1>1, <1>2, <1>3, BatchBefore

LEMMA AlertHoldsStep == KeptInv /\ [Next]_vars => AlertHolds'
<1> DEFINE sla == SlaDays * TicksPerDay
<1> SUFFICES ASSUME KeptInv, [Next]_vars, NEW a \in audit', a.id[2] \notin overlapped'
             PROVE  LET r == store'[a.id[2]]
                    IN  /\ r \in DisputeRecords /\ r.escalatedAt # Never
                        /\ a.elapsed > sla
                        /\ a.elapsed <= now' - r.escalatedAt
  BY DEF AlertHolds
<1>0. overlapped \subseteq overlapped' /\ ~Restart
  BY DEF Next, Watch, Restart, vars
<1>1. \/ a \in audit
      \/ \E c \in Calls : \E b \in batch[c] :
           WriteAlert(c, b) /\ a = [id |-> AlertId(b.id), elapsed |-> b.elapsed]
  BY <1>0 DEF Next, CallStep, RejectPayload, Begin, ListEscalated, HandlerStep, RefuseOpen,
     InsertOpen, FinishOpen, RefuseTransition, Transition, CheckEntry, WriteEntry, LoseEntry,
     FinishTransition, PickBreaches, FinishBreaches, WriteAlert, SkipAlert, Tick, vars
<1>2. CASE a \in audit
  <2>1. a.id[2] \in Disputes \ overlapped' /\ a.elapsed \in Nat
    BY <1>2 DEF KeptInv, SerialInv, StampInv, ServiceTypes
  <2>2. /\ store[a.id[2]] \in DisputeRecords /\ store[a.id[2]].escalatedAt # Never
        /\ a.elapsed > sla /\ a.elapsed <= now - store[a.id[2]].escalatedAt
    BY <1>0, <1>2, <2>1 DEF KeptInv, AlertHolds
  <2>3. /\ store'[a.id[2]] \in DisputeRecords
        /\ store'[a.id[2]].escalatedAt = store[a.id[2]].escalatedAt
        /\ store[a.id[2]].escalatedAt \in Nat /\ now \in Nat /\ now' \in {now, now + 1}
    BY <1>0, <2>1, <2>2, StampOutlives
  <2>4. a.elapsed <= now' - store[a.id[2]].escalatedAt
    BY <2>1, <2>2, <2>3
  <2> HIDE DEF sla
  <2> QED BY <2>2, <2>3, <2>4
<1>3. ASSUME NEW c \in Calls, NEW b \in batch[c], WriteAlert(c, b),
             a = [id |-> AlertId(b.id), elapsed |-> b.elapsed]
      PROVE  LET r == store'[a.id[2]]
             IN  /\ r \in DisputeRecords /\ r.escalatedAt # Never
                 /\ a.elapsed > sla
                 /\ a.elapsed <= now' - r.escalatedAt
  <2>1. a.id[2] = b.id /\ a.elapsed = b.elapsed
    BY <1>3 DEF AlertId
  <2>2. pc[c] = "alerting" /\ store' = store /\ now' = now
    BY <1>3 DEF WriteAlert
  <2>3. /\ store[b.id] \in DisputeRecords /\ store[b.id].escalatedAt # Never
        /\ b.elapsed > sla /\ b.elapsed <= now - store[b.id].escalatedAt
    BY <1>0, <2>1, <2>2 DEF KeptInv, BatchHolds
  <2> HIDE DEF sla
  <2> QED BY <2>1, <2>2, <2>3
<1> QED BY <1>1, <1>2, <1>3

LEMMA KeptInvariant == Spec => []KeptInv
<1>1. Init => KeptInv
  BY SerialInvInit DEF Init, KeptInv, AnswersAreLast, StoredHolds, Stored, BatchHolds, AlertHolds,
     NoRequest
<1>2. KeptInv /\ [Next]_vars => KeptInv'
  BY SerialInvStep, AnswersAreLastStep, StoredHoldsStep, BatchHoldsStep, AlertHoldsStep DEF KeptInv
<1> QED BY <1>1, <1>2, PTL DEF Spec

\* Where no two calls have overlapped, what a confirmed transition made is in
\* force, or a later transition left it.
THEOREM ConfirmedHolds == Spec => []ConfirmedInForce
<1>1. KeptInv => ConfirmedInForce
  <2> SUFFICES ASSUME KeptInv, NEW c \in Calls, Confirmed(c), IdOf(c) \notin overlapped
               PROVE  \/ store[IdOf(c)].state = Target(request[c].op)
                      \/ /\ request[c].op = "escalate"
                         /\ store[IdOf(c)].escalatedAt = made[c].escalatedAt
    BY DEF ConfirmedInForce
  <2>1. Stored(c)
    BY DEF Confirmed, Stored, KeptInv, SerialInv, StampInv, ServiceTypes, Requests, NoRequest,
       Events
  <2> QED BY <2>1 DEF KeptInv, StoredHolds
<1> QED BY <1>1, KeptInvariant, PTL

\* Where no two calls about the dispute have overlapped, an SLA alert counts from
\* the stamp of an escalation the dispute still has.
THEOREM AlertsAreJustified == Spec => []AlertIsJustified
<1>1. KeptInv => AlertIsJustified
  BY DEF KeptInv, AlertHolds, AlertIsJustified
<1> QED BY <1>1, KeptInvariant, PTL

-----------------------------------------------------------------------------
(* The audit trail of an undisturbed dispute *)

\* The steps that the log shows and those that it should show as well.
Steps(d) == EdgesOf(own, d) \cup EdgesOf(unlogged, d)

\* The call has stored a transition of d and is about to write its entry.
AtEntry(c, d) == pc[c] \in {"persisted", "logging"} /\ IdOf(c) = d

\* Between transitions the steps are the path; a call at its entry has made one
\* more, from the record it read.
TrailOf(d) ==
  /\ EdgesOf(own, d) \cap EdgesOf(unlogged, d) = {}
  /\ store[d] = NoDispute => Steps(d) = {}
  /\ store[d] # NoDispute /\ (\A c \in Calls : ~AtEntry(c, d)) => Steps(d) = PathOf(store[d])
  /\ \A c \in Calls : AtEntry(c, d) =>
       /\ store[d] = made[c] /\ seen[c] \in DisputeRecords
       /\ Permitted(seen[c].state, request[c].op)
       /\ made[c].state = Target(request[c].op)
       /\ IF request[c].op = "escalate" THEN made[c].escalatedAt # Never
          ELSE made[c].escalatedAt = seen[c].escalatedAt
       /\ Steps(d) = PathOf(seen[c])

TrailInv == SerialInv /\ \A d \in Disputes \ overlapped : TrailOf(d)

\* A transition makes the path longer by its own edge, which is not on it yet.
LEMMA PathGrows ==
  ASSUME NEW r \in DisputeRecords, NEW t \in Nat, StampsFit(r, t), NEW e, Permitted(r.state, e),
         NEW u, u.state = Target(e),
         IF e = "escalate" THEN u.escalatedAt # Never ELSE u.escalatedAt = r.escalatedAt
  PROVE  /\ PathOf(u) = PathOf(r) \cup {<<r.state, Target(e)>>}
         /\ \A x \in PathOf(r) : x[2] # Target(e)
<1>1. /\ r.state \in {"OPEN", "ESCALATED"} /\ e \in Events
      /\ Target(e) = "ESCALATED" => r.state = "OPEN"
  BY TargetIsState
<1>2. /\ r.state = "OPEN" => r.escalatedAt = Never
      /\ r.state = "ESCALATED" => r.escalatedAt # Never
  BY DEF StampsFit, DisputeRecords, Never
<1>3. /\ e = "escalate" => Target(e) = "ESCALATED"
      /\ e # "escalate" => Target(e) \in FINAL_STATES
  BY <1>1 DEF Target, Events, FINAL_STATES
<1>4. CASE e = "escalate"
  <2>1. PathOf(r) = {} /\ PathOf(u) = {<<"OPEN", "ESCALATED">>} /\ r.state = "OPEN"
    BY <1>1, <1>2, <1>3, <1>4 DEF PathOf, FINAL_STATES
  <2> QED BY <1>3, <1>4, <2>1
<1>5. CASE e # "escalate" /\ r.state = "OPEN"
  <2>1. PathOf(r) = {} /\ PathOf(u) = {<<"OPEN", u.state>>}
    BY <1>2, <1>3, <1>5 DEF PathOf, FINAL_STATES
  <2> QED BY <1>5, <2>1
<1>6. CASE e # "escalate" /\ r.state = "ESCALATED"
  <2>1. /\ PathOf(r) = {<<"OPEN", "ESCALATED">>}
        /\ PathOf(u) = {<<"OPEN", "ESCALATED">>, <<"ESCALATED", u.state>>}
    BY <1>2, <1>3, <1>6 DEF PathOf, FINAL_STATES
  <2>2. Target(e) # "ESCALATED"
    BY <1>3, <1>6 DEF FINAL_STATES
  <2> QED BY <1>6, <2>1, <2>2
<1> QED BY <1>1, <1>4, <1>5, <1>6

\* An entry about another dispute leaves what a log shows of this one alone.
LEMMA OtherEntry ==
  ASSUME NEW log, NEW new, NEW d, NEW e, e.id[2] # d,
         new = {x \in log : x.id # e.id} \cup {e} \/ new = log \cup {e}
  PROVE  EdgesOf(new, d) = EdgesOf(log, d)
<1>1. {x \in new : x.id[2] = d} = {x \in log : x.id[2] = d}
  OBVIOUS
<1> QED BY <1>1 DEF EdgesOf

\* An entry adds its edge.
LEMMA NewEntry ==
  ASSUME NEW log, NEW d, NEW e, e.id[2] = d
  PROVE  EdgesOf(log \cup {e}, d) = EdgesOf(log, d) \cup {<<e.from, Target(e.id[1])>>}
<1>1. {x \in log \cup {e} : x.id[2] = d} = {x \in log : x.id[2] = d} \cup {e}
  OBVIOUS
<1> QED BY <1>1 DEF EdgesOf

\* A step that touches neither log, nor the stored dispute, nor a call at its
\* entry, leaves the trail as it is.
LEMMA TrailUntouched ==
  ASSUME NEW d \in Disputes, TrailOf(d), store'[d] = store[d],
         EdgesOf(own', d) = EdgesOf(own, d), EdgesOf(unlogged', d) = EdgesOf(unlogged, d),
         \A c \in Calls :
           /\ AtEntry(c, d)' <=> AtEntry(c, d)
           /\ AtEntry(c, d) => /\ made'[c] = made[c] /\ seen'[c] = seen[c]
                               /\ request'[c] = request[c]
  PROVE  TrailOf(d)'
<1>1. Steps(d)' = Steps(d) /\ (EdgesOf(own, d) \cap EdgesOf(unlogged, d))' = {}
  BY DEF Steps, TrailOf
<1>2. PathOf(store[d])' = PathOf(store[d])
  BY DEF PathOf
<1>3. \A c \in Calls : AtEntry(c, d) => PathOf(seen[c])' = PathOf(seen[c])
  BY DEF PathOf
<1> QED BY <1>1, <1>2, <1>3 DEF TrailOf

LEMMA TrailHandler ==
  ASSUME TrailInv, NEW c \in Calls, HandlerStep(c), NEW d \in Disputes \ overlapped
  PROVE  TrailOf(d)'
<1> USE DEF TrailInv, SerialInv, StampInv, ServiceTypes
<1>1. /\ request' = request /\ seen' = seen
      /\ \A b \in Calls : b # c => pc'[b] = pc[b]
      /\ pc[c] \in Running
      /\ WritesOwn(c)
  BY HandlerStaysOn
<1>2. \A b \in Calls : b # c => (AtEntry(b, d)' <=> AtEntry(b, d)) /\ made'[b] = made[b]
  BY <1>1 DEF AtEntry, IdOf, HandlerStep, RefuseOpen, InsertOpen, FinishOpen, RefuseTransition,
     Transition, CheckEntry, WriteEntry, LoseEntry, FinishTransition, PickBreaches, FinishBreaches,
     WriteAlert, SkipAlert
<1>3. \A b \in Calls : AtEntry(b, d) => OnDispute(b, d)
  BY DEF AtEntry, OnDispute, Running, HandlerKnows, Events
<1>4. CASE InsertOpen(c) /\ IdOf(c) = d
  <2>1. OnDispute(c, d) /\ ~AtEntry(c, d) /\ ~AtEntry(c, d)'
    BY <1>1, <1>4 DEF InsertOpen, OnDispute, AtEntry, Goto, HandlerKnows
  <2>2. \A b \in Calls : ~AtEntry(b, d) /\ ~AtEntry(b, d)'
    BY <1>2, <1>3, <2>1 DEF Undisturbed
  <2>3. Steps(d) = {}
    BY <1>4 DEF InsertOpen, Undisturbed, TrailOf
  <2>4. /\ store'[d].state = "OPEN" /\ store'[d].escalatedAt = Never
        /\ own' = own /\ unlogged' = unlogged
    BY <1>4 DEF InsertOpen
  <2>5. PathOf(store[d])' = {}
    BY <2>4 DEF PathOf, FINAL_STATES
  <2>6. Steps(d)' = {} /\ (EdgesOf(own, d) \cap EdgesOf(unlogged, d))' = {}
    BY <2>3, <2>4 DEF Steps, EdgesOf
  <2>7. store'[d] # NoDispute
    BY <2>4 DEF NoDispute
  <2> QED BY <2>2, <2>5, <2>6, <2>7 DEF TrailOf
<1>5. CASE Transition(c) /\ IdOf(c) = d
  <2>1. OnDispute(c, d) /\ ~AtEntry(c, d) /\ AtEntry(c, d)'
    BY <1>1, <1>5 DEF Transition, OnDispute, AtEntry, Goto, HandlerKnows, IdOf, Events
  <2>2. \A b \in Calls : ~AtEntry(b, d) /\ (b # c => ~AtEntry(b, d)')
    BY <1>2, <1>3, <2>1 DEF Undisturbed
  <2>3. seen[c] = store[d] /\ Steps(d) = PathOf(seen[c])
    BY <1>5, <2>2 DEF Transition, Undisturbed, TrailOf
  <2>4. /\ Permitted(seen[c].state, request[c].op) /\ now \in Nat
        /\ seen[c] \in DisputeRecords /\ StampsFit(seen[c], now)
        /\ made'[c] = Updated(seen[c], Target(request[c].op), now)
        /\ store'[d] = made'[c] /\ own' = own /\ unlogged' = unlogged
    BY <1>5 DEF Transition, CopiesFit
  <2>5. /\ made'[c] \in DisputeRecords /\ made'[c].state = Target(request[c].op)
        /\ made'[c].escalatedAt = IF Target(request[c].op) = "ESCALATED" THEN now
                                  ELSE seen[c].escalatedAt
    BY <2>4, UpdatedFits, UpdatedStamp
  <2>6. request[c].op = "escalate" <=> Target(request[c].op) = "ESCALATED"
    BY <2>4, TargetIsState DEF Target
  <2>7. /\ Steps(d)' = Steps(d) /\ PathOf(seen[c])' = PathOf(seen[c])
        /\ (EdgesOf(own, d) \cap EdgesOf(unlogged, d))' = {}
    BY <1>1, <2>4 DEF Steps, EdgesOf, PathOf, TrailOf
  <2>8. store'[d] # NoDispute
    BY <2>4, <2>5, Values
  <2> QED BY <1>1, <2>1, <2>2, <2>3, <2>4, <2>5, <2>6, <2>7, <2>8 DEF TrailOf, Never
<1>6. CASE (CheckEntry(c) \/ WriteEntry(c) \/ LoseEntry(c)) /\ IdOf(c) = d
  <2> DEFINE entry == EntryOf(c)
             edge == <<seen[c].state, Target(request[c].op)>>
  <2>1. OnDispute(c, d) /\ AtEntry(c, d) /\ store' = store /\ made' = made
    BY <1>1, <1>6 DEF CheckEntry, WriteEntry, LoseEntry, OnDispute, AtEntry, HandlerKnows, Events
  <2>2. \A b \in Calls : b # c => ~AtEntry(b, d) /\ ~AtEntry(b, d)'
    BY <1>2, <1>3, <2>1 DEF Undisturbed
  <2>3. /\ store[d] = made[c] /\ seen[c] \in DisputeRecords /\ made[c] \in DisputeRecords
        /\ Permitted(seen[c].state, request[c].op)
        /\ made[c].state = Target(request[c].op)
        /\ IF request[c].op = "escalate" THEN made[c].escalatedAt # Never
           ELSE made[c].escalatedAt = seen[c].escalatedAt
        /\ Steps(d) = PathOf(seen[c])
        /\ EdgesOf(own, d) \cap EdgesOf(unlogged, d) = {}
        /\ now \in Nat /\ StampsFit(seen[c], now)
    BY <2>1, Values DEF TrailOf, CopiesFit, HandlerKnows, AtEntry
  <2>4. PathOf(made[c]) = Steps(d) \cup {edge} /\ edge \notin Steps(d)
    <3>1. /\ PathOf(made[c]) = PathOf(seen[c]) \cup {edge}
          /\ \A x \in PathOf(seen[c]) : x[2] # Target(request[c].op)
      BY <2>3, PathGrows
    <3> QED BY <2>3, <3>1
  <2>5. entry.id[2] = d /\ entry.id[1] = request[c].op /\ entry.from = seen[c].state
    BY <1>6 DEF EntryOf
  <2>6. \A x \in own : x.id # entry.id
    <3>1. SUFFICES ASSUME NEW x \in own, x.id = entry.id PROVE FALSE
      OBVIOUS
    <3>2. <<x.from, Target(x.id[1])>> \in EdgesOf(own, d)
      BY <2>5, <3>1 DEF EdgesOf
    <3>3. <<x.from, Target(request[c].op)>> \in PathOf(seen[c])
      BY <2>3, <2>5, <3>1, <3>2 DEF Steps
    <3>4. \A y \in PathOf(seen[c]) : y[2] # Target(request[c].op)
      BY <2>3, PathGrows
    <3> QED BY <3>3, <3>4
  <2>7. CASE CheckEntry(c)
    <3>1. pc'[c] = "logging" /\ own' = own /\ unlogged' = unlogged /\ AtEntry(c, d)'
      BY <1>1, <2>1, <2>6, <2>7 DEF CheckEntry, Goto, AtEntry, IdOf
    <3> QED BY <1>1, <2>1, <2>2, <3>1, TrailUntouched
  <2>8. CASE WriteEntry(c) \/ LoseEntry(c)
    <3>1. /\ ~AtEntry(c, d)'
          /\ \/ own' = {x \in own : x.id # entry.id} \cup {entry} /\ unlogged' = unlogged
             \/ own' = own /\ unlogged' = unlogged \cup {entry}
      BY <2>8 DEF WriteEntry, LoseEntry, Goto, AtEntry
    <3> HIDE DEF entry
    <3>2. \/ own' = own \cup {entry} /\ unlogged' = unlogged
          \/ own' = own /\ unlogged' = unlogged \cup {entry}
      BY <2>6, <3>1
    <3>3. /\ EdgesOf(own \cup {entry}, d) = EdgesOf(own, d) \cup {edge}
          /\ EdgesOf(unlogged \cup {entry}, d) = EdgesOf(unlogged, d) \cup {edge}
      <4>1. edge = <<entry.from, Target(entry.id[1])>>
        BY <2>5
      <4>2. PICK e : e = entry
        OBVIOUS
      <4>3. e.id[2] = d
        BY <2>5, <4>2
      <4>4. \A log : EdgesOf(log \cup {e}, d)
                        = EdgesOf(log, d) \cup {<<e.from, Target(e.id[1])>>}
        BY <4>3, NewEntry
      <4> HIDE DEF edge
      <4> QED BY <4>1, <4>2, <4>4
    <3> HIDE DEF edge
    <3>4. /\ EdgesOf(own', d) \cup EdgesOf(unlogged', d) = Steps(d) \cup {edge}
          /\ EdgesOf(own', d) \cap EdgesOf(unlogged', d) = {}
      BY <2>3, <2>4, <3>2, <3>3, ZenonT(60) DEF Steps
    <3>5. PathOf(store[d])' = PathOf(made[c])
      BY <2>1, <2>3 DEF PathOf
    <3>6. Steps(d)' = PathOf(store[d])' /\ (EdgesOf(own, d) \cap EdgesOf(unlogged, d))' = {}
      BY <2>4, <3>4, <3>5 DEF Steps
    <3>7. store'[d] # NoDispute
      BY <2>1, <2>3, Values
    <3> QED BY <2>2, <3>1, <3>6, <3>7 DEF TrailOf
  <2> QED BY <1>6, <2>7, <2>8
<1>7. CASE (WriteEntry(c) \/ LoseEntry(c)) /\ IdOf(c) # d
  <2> DEFINE entry == EntryOf(c)
  <2>1. /\ \/ own' = {x \in own : x.id # entry.id} \cup {entry} /\ unlogged' = unlogged
           \/ own' = own /\ unlogged' = unlogged \cup {entry}
        /\ store' = store /\ made' = made /\ ~AtEntry(c, d) /\ ~AtEntry(c, d)'
    BY <1>1, <1>7 DEF WriteEntry, LoseEntry, AtEntry, IdOf
  <2>2. entry.id[2] # d
    BY <1>7 DEF EntryOf
  <2> HIDE DEF entry
  <2>3. EdgesOf(own', d) = EdgesOf(own, d) /\ EdgesOf(unlogged', d) = EdgesOf(unlogged, d)
    <3>1. own' = own \/ own' = {x \in own : x.id # entry.id} \cup {entry}
      BY <2>1
    <3>2. unlogged' = unlogged \/ unlogged' = unlogged \cup {entry}
      BY <2>1
    <3>3. EdgesOf(own', d) = EdgesOf(own, d)
      BY <2>2, <3>1, OtherEntry
    <3>4. EdgesOf(unlogged', d) = EdgesOf(unlogged, d)
      BY <2>2, <3>2, OtherEntry
    <3> QED BY <3>3, <3>4
  <2> QED BY <1>1, <1>2, <2>1, <2>3, TrailUntouched
<1>8. CASE /\ ~((InsertOpen(c) \/ Transition(c) \/ CheckEntry(c)) /\ IdOf(c) = d)
           /\ ~WriteEntry(c) /\ ~LoseEntry(c)
  <2>1. own' = own /\ unlogged' = unlogged /\ (AtEntry(c, d) => made'[c] = made[c])
    BY <1>8 DEF HandlerStep, RefuseOpen, InsertOpen, FinishOpen, RefuseTransition, Transition,
       CheckEntry, FinishTransition, PickBreaches, FinishBreaches, WriteAlert, SkipAlert, AtEntry
  <2>2. AtEntry(c, d)' <=> AtEntry(c, d)
    BY <1>1, <1>8 DEF HandlerStep, RefuseOpen, InsertOpen, FinishOpen, RefuseTransition, Transition,
       CheckEntry, FinishTransition, PickBreaches, FinishBreaches, WriteAlert, SkipAlert, AtEntry, Reply,
       Goto, IdOf
  <2>3. store'[d] = store[d]
    BY <1>8 DEF HandlerStep, RefuseOpen, InsertOpen, FinishOpen, RefuseTransition, Transition,
       CheckEntry, FinishTransition, PickBreaches, FinishBreaches, WriteAlert, SkipAlert
  <2> QED BY <1>1, <1>2, <2>1, <2>2, <2>3, TrailUntouched
<1> QED BY <1>4, <1>5, <1>6, <1>7, <1>8

LEMMA TrailStep == TrailInv /\ [Next]_vars => TrailInv'
<1> SUFFICES ASSUME TrailInv, [Next]_vars, NEW d \in Disputes, d \notin overlapped'
             PROVE  TrailOf(d)'
  BY SerialInvStep DEF TrailInv
<1> USE DEF TrailInv, SerialInv, StampInv, ServiceTypes
<1>0. d \in Disputes \ overlapped /\ TrailOf(d)
  BY DEF Next, Watch, vars
<1>1. ASSUME NEW c \in Calls, HandlerStep(c) PROVE TrailOf(d)'
  BY <1>0, <1>1, TrailHandler
<1>2. CASE Restart
  <2>1. /\ store'[d] = NoDispute /\ Steps(d)' = {}
        /\ (EdgesOf(own, d) \cap EdgesOf(unlogged, d))' = {}
    BY <1>2 DEF Restart, Steps, EdgesOf
  <2>2. \A c \in Calls : ~AtEntry(c, d)'
    BY <1>2 DEF Restart, AtEntry
  <2> QED BY <2>1, <2>2 DEF TrailOf
<1>3. ASSUME NEW c \in Calls,
             \/ RejectPayload(c)
             \/ \E op \in {"open"} \cup Events, x \in Disputes : Begin(c, op, x)
             \/ ListEscalated(c)
      PROVE  TrailOf(d)'
  <2>1. /\ own' = own /\ unlogged' = unlogged /\ store' = store /\ made' = made
        /\ pc[c] = "idle" /\ pc'[c] \in {"opening", "deciding", "listing", "done"}
        /\ \A b \in Calls : b # c => /\ pc'[b] = pc[b] /\ seen'[b] = seen[b]
                                     /\ request'[b] = request[b]
    BY <1>3 DEF RejectPayload, Begin, ListEscalated, Goto, Reply
  <2>2. ~AtEntry(c, d) /\ ~AtEntry(c, d)'
    BY <2>1 DEF AtEntry
  <2>3. \A b \in Calls :
          /\ AtEntry(b, d)' <=> AtEntry(b, d)
          /\ AtEntry(b, d) => /\ made'[b] = made[b] /\ seen'[b] = seen[b]
                              /\ request'[b] = request[b]
    BY <2>1, <2>2 DEF AtEntry, IdOf
  <2> QED BY <1>0, <2>1, <2>3, TrailUntouched
<1>4. CASE Tick \/ UNCHANGED vars
  <2>1. /\ own' = own /\ unlogged' = unlogged /\ store' = store /\ made' = made /\ seen' = seen
        /\ request' = request /\ pc' = pc
    BY <1>4 DEF Tick, callVars, vars
  <2>2. \A b \in Calls : AtEntry(b, d)' <=> AtEntry(b, d)
    BY <2>1 DEF AtEntry, IdOf
  <2> QED BY <1>0, <2>1, <2>2, TrailUntouched
<1> QED BY <1>1, <1>2, <1>3, <1>4 DEF Next, CallStep

LEMMA TrailInvariant == Spec => []TrailInv
<1>1. Init => TrailInv
  BY SerialInvInit DEF Init, TrailInv, TrailOf, AtEntry, Steps, EdgesOf
<1> QED BY <1>1, TrailStep, PTL DEF Spec

\* Of a dispute on which no two calls have overlapped, and on which nobody works,
\* every step has its entry or had an append that failed, and no entry shows more.
THEOREM TrailReplayed == Spec => []TrailReplays
<1>1. TrailInv => TrailReplays
  <2> SUFFICES ASSUME TrailInv, NEW d \in Disputes \ overlapped, store[d] # NoDispute,
                      \A c \in Calls : ~OnDispute(c, d)
               PROVE  /\ Steps(d) = PathOf(store[d])
                      /\ EdgesOf(own, d) \cap EdgesOf(unlogged, d) = {}
    BY DEF TrailReplays, Steps
  <2>1. \A c \in Calls : ~AtEntry(c, d)
    BY DEF AtEntry, OnDispute, Running, TrailInv, SerialInv, StampInv, HandlerKnows, Events
  <2> QED BY <2>1 DEF TrailInv, TrailOf
<1> QED BY <1>1, TrailInvariant, PTL
=============================================================================
