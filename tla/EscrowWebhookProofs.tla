-------------------------- MODULE EscrowWebhookProofs --------------------------
(***************************************************************************)
(* What holds of EscrowWebhook for all values of its constants.            *)
(***************************************************************************)
EXTENDS EscrowWebhook, FiniteSetTheorems, TLAPS

\* The part of the type invariant that the argument needs.
Shape ==
  /\ pc \in [Slots -> {"idle", "updating", "updated", "marked", "notified"}]
  /\ job \in [Slots -> [event : Events, began : Int] \cup {NoJob}]
  /\ \A s \in Slots : pc[s] # "idle" => job[s] # NoJob
  /\ pending \subseteq Events
  /\ now \in Int

\* A handler past its mutation has seen it run.
PastWriteIsReached ==
  \A s \in Slots : pc[s] \in {"updated", "marked", "notified"} => job[s].event \in Reached

\* AppliedOrUnmatched alone is not inductive: a 200 is given to a duplicate
\* because of the cache, and the cache is filled because of the program counter.
IInv ==
  /\ Shape
  /\ PastWriteIsReached
  /\ Ids(kept) \subseteq Reached
  /\ AppliedOrUnmatched

-----------------------------------------------------------------------------
\* Pruning and ranking bring nothing new into the cache, and marking one id.
LEMMA CacheIds ==
  ASSUME NEW cache, NEW e, NEW t
  PROVE  /\ Ids(Ranked(Pruned(cache, t))) \subseteq Ids(cache)
         /\ Ids(Marked(cache, e, t)) \subseteq Ids(cache) \cup {e}
<1>1. ASSUME NEW k \in Ranked(Pruned(cache, t)) PROVE k.id \in Ids(cache)
  <2>1. Pruned(cache, t) \subseteq cache
    BY DEF Pruned
  <2> DEFINE rank(j) == Cardinality({i \in Pruned(cache, t) : i.nth < j.nth})
  <2>2. \E j \in Pruned(cache, t) : k = [id |-> j.id, at |-> j.at, nth |-> rank(j)]
    BY Zenon DEF Ranked
  <2> HIDE DEF rank
  <2>3. PICK j \in Pruned(cache, t) : k = [id |-> j.id, at |-> j.at, nth |-> rank(j)]
    BY <2>2
  <2>4. k.id = j.id
    BY <2>3
  <2> QED BY <2>1, <2>4 DEF Ids
<1>2. \A k \in Marked(cache, e, t) : k.id \in Ids(cache) \cup {e}
  BY DEF Ids, Marked
<1> QED BY <1>1, <1>2 DEF Ids

LEMMA InitInv == Init => IInv
<1> SUFFICES ASSUME Init PROVE IInv
  OBVIOUS
<1> USE DEF Init, Reached
<1>1. Shape
  BY DEF Shape
<1>2. PastWriteIsReached
  BY DEF PastWriteIsReached
<1>3. Ids(kept) \subseteq Reached
  BY DEF Ids
<1>4. AppliedOrUnmatched
  BY DEF AppliedOrUnmatched
<1> QED BY <1>1, <1>2, <1>3, <1>4 DEF IInv
-----------------------------------------------------------------------------
\* Every step keeps the invariant: what was reached stays so, only Mark lets an
\* event into the cache, and only the two answers end the retries.
LEMMA StepInv == IInv /\ [Next]_vars => IInv'
<1> SUFFICES ASSUME IInv, [Next]_vars PROVE IInv'
  OBVIOUS
<1> USE DEF IInv, Reached
<1>1. ASSUME NEW s \in Slots, NEW e \in Events, IgnoreDuplicate(s, e) PROVE IInv'
  <2> USE <1>1 DEF IgnoreDuplicate
  <2>1. Shape'
    BY DEF Shape, Acknowledged
  <2>2. PastWriteIsReached'
    BY DEF PastWriteIsReached
  <2>3. Ids(kept') \subseteq Reached
    BY CacheIds
  <2>4. AppliedOrUnmatched'
    BY <2>3 DEF AppliedOrUnmatched, Acknowledged
  <2> QED BY <2>1, <2>2, <2>3, <2>4 DEF Ids
<1>2. ASSUME NEW s \in Slots, NEW e \in Events, StartUpdate(s, e) PROVE IInv'
  <2> USE <1>2 DEF StartUpdate, Goto
  <2>1. Shape'
    BY DEF Shape, NoJob
  <2>2. PastWriteIsReached'
    BY DEF PastWriteIsReached, Shape
  <2>3. Ids(kept') \subseteq Reached
    BY CacheIds
  <2>4. AppliedOrUnmatched'
    BY DEF AppliedOrUnmatched
  <2> QED BY <2>1, <2>2, <2>3, <2>4 DEF Ids
<1>3. ASSUME NEW s \in Slots, UpdateRow(s) PROVE IInv'
  <2> USE <1>3 DEF UpdateRow, Mutation, Write, MatchNothing, Goto
  <2>1. Shape'
    BY DEF Shape, NoJob
  <2>2. PastWriteIsReached'
    BY DEF PastWriteIsReached, Shape, NoJob
  <2>3. AppliedOrUnmatched'
    BY DEF AppliedOrUnmatched
  <2> QED BY <2>1, <2>2, <2>3 DEF Ids
<1>4. ASSUME NEW e \in late, LateUpdate(e) PROVE IInv'
  BY <1>4 DEF LateUpdate, Mutation, Write, MatchNothing, Shape, PastWriteIsReached, AppliedOrUnmatched, Ids
<1>5. ASSUME NEW s \in Slots, FailUpdate(s) PROVE IInv'
  BY <1>5 DEF FailUpdate, Finish, Shape, PastWriteIsReached, AppliedOrUnmatched, Ids
<1>6. ASSUME NEW s \in Slots, Mark(s) PROVE IInv'
  <2> USE <1>6 DEF Mark, Goto
  <2>1. Shape'
    BY DEF Shape
  <2>2. PastWriteIsReached'
    BY DEF PastWriteIsReached, Shape
  <2>3. Ids(kept') \subseteq Reached
    <3>1. job[s].event \in Reached
      BY DEF PastWriteIsReached
    <3>2. Ids(kept') \subseteq Ids(kept) \cup {job[s].event}
      BY CacheIds
    <3> QED BY <3>1, <3>2
  <2>4. AppliedOrUnmatched'
    BY DEF AppliedOrUnmatched
  <2> QED BY <2>1, <2>2, <2>3, <2>4 DEF Ids
<1>7. ASSUME NEW s \in Slots, Notify(s) \/ SkipNotify(s) PROVE IInv'
  BY <1>7 DEF Notify, SkipNotify, Goto, Shape, PastWriteIsReached, AppliedOrUnmatched, Ids
<1>8. ASSUME NEW s \in Slots, Acknowledge(s) PROVE IInv'
  <2> USE <1>8 DEF Acknowledge, Acknowledged, Finish
  <2>1. Shape'
    BY DEF Shape
  <2>2. PastWriteIsReached'
    BY DEF PastWriteIsReached, Shape
  <2>3. AppliedOrUnmatched'
    <3>1. job[s].event \in Reached
      BY DEF PastWriteIsReached
    <3> QED BY <3>1 DEF AppliedOrUnmatched
  <2> QED BY <2>1, <2>2, <2>3 DEF Ids
<1>9. ASSUME Tick \/ UNCHANGED vars \/ \E c \in Contracts : InsertRow(c) PROVE IInv'
  BY <1>9 DEF Tick, InsertRow, vars, serviceVars, Shape, PastWriteIsReached, AppliedOrUnmatched, Ids
<1>10. ASSUME Restart PROVE IInv'
  BY <1>10 DEF Restart, Shape, PastWriteIsReached, AppliedOrUnmatched, Ids
<1> QED
  BY <1>1, <1>2, <1>3, <1>4, <1>5, <1>6, <1>7, <1>8, <1>9, <1>10
  DEF Next, Running, HandlerStep, Deliver

LEMMA Invariant == Spec => []IInv
BY InitInv, StepInv, PTL DEF Spec

\* Whatever is lost, delivered twice, evicted or restarted, the status of an event
\* that is no longer delivered has been written, or its mutation ran and found no
\* row of its contract: AppliedOrUnmatched.
THEOREM NoMutationLost == Spec => []AppliedOrUnmatched
<1>1. IInv => AppliedOrUnmatched
  BY DEF IInv
<1> QED BY Invariant, <1>1, PTL
-----------------------------------------------------------------------------
(* One notification: what the duplicate check does for an event that is not *)
(* excused                                                                   *)

Counts ==
  /\ notified \in [Events -> Nat]
  /\ \A s \in Slots : pc[s] = "idle" <=> job[s] = NoJob

\* One handler at most works on the event; until it notifies nobody has, and
\* from the mark on the cache knows.
OnceInv ==
  \A e \in Events \ excused :
    /\ notified[e] <= 1
    /\ notified[e] # 0 => e \in Ids(kept)
    /\ \A s, t \in Slots :
         /\ pc[s] # "idle" /\ job[s].event = e
         /\ pc[t] # "idle" /\ job[t].event = e
         => s = t
    /\ \A s \in Slots :
         pc[s] # "idle" /\ job[s].event = e =>
           /\ pc[s] # "notified" => notified[e] = 0
           /\ pc[s] \in {"marked", "notified"} => e \in Ids(kept)

\* What may not be dropped is not dropped ...
LEMMA CacheKeeps ==
  ASSUME NEW k \in kept, ~Droppable(k)
  PROVE  k.id \in Ids(Ranked(Pruned(kept, now)))
<1> DEFINE fresh == {x \in kept : now - x.at <= TTL}
           newer(x) == Cardinality({j \in fresh : j.nth > x.nth})
           rank(x) == Cardinality({j \in Pruned(kept, now) : j.nth < x.nth})
<1>1. k \in fresh /\ newer(k) < MaxKept
  <2>1. now - k.at <= TTL
    BY DEF Droppable
  <2>2. Droppable(k) <=> ~(now - k.at <= TTL) \/ ~(newer(k) < MaxKept)
    BY DEF Droppable
  <2> HIDE DEF newer
  <2> QED BY <2>1, <2>2
<1>2. k \in Pruned(kept, now)
  <2>1. Pruned(kept, now) = {x \in fresh : newer(x) < MaxKept}
    BY Zenon DEF Pruned
  <2> HIDE DEF fresh, newer
  <2> QED BY <1>1, <2>1
<1>3. [id |-> k.id, at |-> k.at, nth |-> rank(k)] \in Ranked(Pruned(kept, now))
  BY <1>2, Zenon DEF Ranked
<1> HIDE DEF rank
<1> QED BY <1>3 DEF Ids

\* ... and marking drops nothing.
LEMMA MarkedKeeps ==
  ASSUME NEW e, NEW t
  PROVE  Ids(kept) \cup {e} \subseteq Ids(Marked(kept, e, t))
<1> DEFINE n == Cardinality(kept)
           new == [id |-> e, at |-> t, nth |-> n]
           again(k) == [id |-> e, at |-> t, nth |-> k.nth]
<1>1. CASE e \in Ids(kept)
  <2>1. Marked(kept, e, t) = {IF k.id = e THEN again(k) ELSE k : k \in kept}
    BY <1>1 DEF Marked
  <2>2. ASSUME NEW k \in kept PROVE k.id \in Ids(Marked(kept, e, t))
    <3>1. (IF k.id = e THEN again(k) ELSE k) \in Marked(kept, e, t)
      BY <2>1
    <3>2. (IF k.id = e THEN again(k) ELSE k).id = k.id
      OBVIOUS
    <3> QED BY <3>1, <3>2, Zenon DEF Ids
  <2>3. \A x \in Ids(kept) : \E k \in kept : x = k.id
    BY DEF Ids
  <2> QED BY <1>1, <2>2, <2>3
<1>2. CASE e \notin Ids(kept)
  <2>1. Marked(kept, e, t) = kept \cup {new}
    BY <1>2 DEF Marked
  <2> HIDE DEF n
  <2>2. new.id = e
    OBVIOUS
  <2> QED BY <2>1, <2>2 DEF Ids
<1> QED BY <1>1, <1>2

LEMMA OnceInit == Init => Shape /\ Counts /\ OnceInv
<1>1. Init => Shape
  BY InitInv DEF IInv
<1> QED BY <1>1 DEF Init, Counts, OnceInv

LEMMA CountsStep == Shape /\ Counts /\ [Next]_vars => Counts'
<1> SUFFICES ASSUME Shape, Counts, [Next]_vars PROVE Counts'
  OBVIOUS
<1>1. ASSUME NEW s \in Slots, HandlerStep(s) PROVE Counts'
  BY <1>1, WebhookAssumption
  DEF HandlerStep, UpdateRow, FailUpdate, Mark, Notify, SkipNotify, Acknowledge, Finish,
      Goto, Counts, Shape
<1>2. ASSUME NEW s \in Slots, NEW e \in Events, Deliver(s, e) PROVE Counts'
  <2>1. [event |-> e, began |-> now] # NoJob
    BY DEF NoJob
  <2> QED BY <1>2, <2>1 DEF Deliver, IgnoreDuplicate, StartUpdate, Goto, Counts, Shape
<1>3. CASE \/ Tick \/ Restart \/ UNCHANGED vars
           \/ \E e \in late : LateUpdate(e)
           \/ \E c \in Contracts : InsertRow(c)
  BY <1>3 DEF Tick, Restart, vars, serviceVars, LateUpdate, InsertRow, Counts
<1> QED BY <1>1, <1>2, <1>3 DEF Next, Running

LEMMA OnceStep == Shape /\ Counts /\ OnceInv /\ [Next]_vars => OnceInv'
<1> SUFFICES ASSUME Shape, Counts, OnceInv, [Next]_vars PROVE OnceInv'
  OBVIOUS
<1>1. CASE Running /\ Watch
  <2>1. /\ excused \subseteq excused'
        /\ \A e \in Events \ excused' : \A s, t \in Slots :
             job'[s].event = e /\ job'[t].event = e => s = t
        /\ \A k \in kept : k.id \notin excused' => ~Droppable(k)
    BY <1>1 DEF Watch, Ids
  <2>2. ASSUME NEW s \in Slots, UpdateRow(s) \/ FailUpdate(s) \/ SkipNotify(s)
                                  \/ Acknowledge(s)
        PROVE  OnceInv'
    BY <2>1, <2>2 DEF UpdateRow, FailUpdate, SkipNotify, Acknowledge, Finish, Goto,
                      OnceInv, Shape
  <2>3. ASSUME NEW s \in Slots, Mark(s)
        PROVE  OnceInv'
    <3>1. Ids(kept) \cup {job[s].event} \subseteq Ids(kept')
      BY <2>3, MarkedKeeps DEF Mark
    <3>2. /\ pc[s] = "updated" /\ pc' = [pc EXCEPT ![s] = "marked"]
          /\ job' = job /\ notified' = notified
      BY <2>3 DEF Mark, Goto
    <3>3. Ids(kept)' = Ids(kept')
      BY DEF Ids
    <3> HIDE DEF Ids
    <3> QED BY <2>1, <3>1, <3>2, <3>3 DEF OnceInv, Shape
  <2>4. ASSUME NEW s \in Slots, Notify(s)
        PROVE  OnceInv'
    <3> DEFINE e == job[s].event
    <3>1. e \in Events /\ pc[s] = "marked" /\ kept' = kept /\ job' = job
      BY <2>4 DEF Notify, Shape
    <3>2. /\ pc' = [pc EXCEPT ![s] = "notified"]
          /\ \A x \in Events : x # e => notified'[x] = notified[x]
          /\ notified'[e] \in {notified[e], notified[e] + 1}
      BY <2>4 DEF Notify, Goto, Counts
    <3>3. e \notin excused => notified[e] = 0 /\ e \in Ids(kept)
      BY <3>1 DEF OnceInv
    <3>4. ASSUME NEW x \in Events \ excused'
          PROVE  notified'[x] <= 1 /\ (notified'[x] # 0 => x \in Ids(kept))
      BY <2>1, <3>2, <3>3 DEF OnceInv
    <3>5. ASSUME NEW x \in Events \ excused', NEW t \in Slots,
                 pc'[t] # "idle", job[t].event = x
          PROVE  /\ pc'[t] # "notified" => notified'[x] = 0
                 /\ pc'[t] \in {"marked", "notified"} => x \in Ids(kept)
      <4>1. CASE t = s
        BY <2>1, <3>1, <3>2, <3>3, <3>5, <4>1 DEF Shape
      <4>2. CASE t # s
        <5>1. pc'[t] = pc[t] /\ x \notin excused
          BY <2>1, <3>2, <4>2 DEF Shape
        <5>2. x # e
          BY <3>1, <3>5, <4>2, <5>1 DEF OnceInv
        <5> QED BY <3>2, <3>5, <5>1, <5>2 DEF OnceInv
      <4> QED BY <4>1, <4>2
    <3>6. \A x \in Events \ excused' : \A t, u \in Slots :
            job'[t].event = x /\ job'[u].event = x => t = u
      BY <2>1
    <3> QED BY <3>1, <3>4, <3>5, <3>6 DEF OnceInv, Ids
  <2>5. ASSUME NEW s \in Slots, NEW e \in Events, Deliver(s, e)
        PROVE  OnceInv'
    <3>1. kept' = Ranked(Pruned(kept, now)) /\ notified' = notified
      BY <2>5 DEF Deliver, IgnoreDuplicate, StartUpdate
    <3>2. \A x \in Ids(kept) \ excused' : x \in Ids(kept')
      BY <2>1, <3>1, CacheKeeps DEF Ids
    <3>3. CASE pc' = pc /\ job' = job
      BY <2>1, <3>1, <3>2, <3>3 DEF OnceInv, Ids
    <3>4. CASE StartUpdate(s, e)
      <4>1. /\ e \notin Ids(kept')
            /\ pc[s] = "idle" /\ pc' = [pc EXCEPT ![s] = "updating"]
            /\ job' = [job EXCEPT ![s] = [event |-> e, began |-> now]]
        BY <3>4 DEF StartUpdate, Goto
      <4>2. e \notin excused' => notified[e] = 0
        BY <2>1, <3>2, <4>1 DEF OnceInv
      <4>3. /\ pc'[s] = "updating" /\ job'[s].event = e
            /\ \A t \in Slots \ {s} : pc'[t] = pc[t] /\ job'[t] = job[t]
        BY <4>1 DEF Shape
      <4>4. Ids(kept)' = Ids(kept')
        BY DEF Ids
      <4> HIDE DEF Ids
      <4>5. ASSUME NEW x \in Events \ excused'
            PROVE  /\ notified'[x] <= 1
                   /\ notified'[x] # 0 => x \in Ids(kept')
                   /\ \A t \in Slots :
                        pc'[t] # "idle" /\ job'[t].event = x =>
                          /\ pc'[t] # "notified" => notified'[x] = 0
                          /\ pc'[t] \in {"marked", "notified"} => x \in Ids(kept')
        BY <2>1, <3>1, <3>2, <4>2, <4>3 DEF OnceInv
      <4> QED BY <2>1, <4>4, <4>5 DEF OnceInv
    <3> QED BY <2>5, <3>3, <3>4 DEF Deliver, IgnoreDuplicate
  <2>6. CASE Tick \/ (\E e \in late : LateUpdate(e)) \/ \E c \in Contracts : InsertRow(c)
    BY <2>1, <2>6 DEF Tick, LateUpdate, InsertRow, OnceInv, Ids
  <2> QED BY <1>1, <2>2, <2>3, <2>4, <2>5, <2>6 DEF Running, HandlerStep
<1>2. CASE Restart /\ excused' = excused \cup Ids(kept)
  BY <1>2 DEF Restart, OnceInv, Counts
<1>3. CASE UNCHANGED vars
  BY <1>3 DEF vars, serviceVars, OnceInv, Ids
<1> QED BY <1>1, <1>2, <1>3 DEF Next

\* However deliveries, losses and restarts interleave, an event that no second
\* handler worked on and that the process was not made to forget is notified at
\* most once: NotifiedOnce.
THEOREM NoSecondNotice == Spec => []NotifiedOnce
<1>1. IInv => Shape
  BY DEF IInv
<1>2. OnceInv => NotifiedOnce
  BY DEF OnceInv, NotifiedOnce
<1> QED BY Invariant, OnceInit, <1>1, <1>2, CountsStep, OnceStep, PTL DEF Spec
-----------------------------------------------------------------------------
(* The cache: what pruning, ranking and marking make of it *)

\* Entries with ids and ranks of their own ...
Orderly(S) ==
  /\ IsFiniteSet(S)
  /\ S \subseteq [id : Events, at : Int, nth : Nat]
  /\ \A j, k \in S : j.id = k.id \/ j.nth = k.nth => j = k

\* ... and no gap below the next rank.
Compact(S) == \A k \in S : k.nth < Cardinality(S)

LEMMA Larger ==
  ASSUME NEW B, IsFiniteSet(B), NEW A \in SUBSET B, NEW x \in B, x \notin A
  PROVE  Cardinality(A) \in Nat /\ Cardinality(B) \in Nat /\ Cardinality(A) < Cardinality(B)
<1>1. IsFiniteSet(A)
  BY FS_Subset
<1>2. Cardinality(A \cup {x}) = Cardinality(A) + 1
  BY <1>1, FS_AddElement
<1>3. Cardinality(A \cup {x}) <= Cardinality(B)
  BY FS_Subset
<1> QED BY <1>1, <1>2, <1>3, FS_CardinalityType

\* Of two entries the later one has more before it and fewer behind it.
LEMMA Ranks ==
  ASSUME NEW S, Orderly(S), NEW j \in S, NEW k \in S
  PROVE  LET before(x) == Cardinality({i \in S : i.nth < x.nth})
             behind(x) == Cardinality({i \in S : i.nth > x.nth})
         IN  /\ before(j) \in Nat /\ behind(j) \in Nat
             /\ before(j) < Cardinality(S)
             /\ j.nth < k.nth => before(j) < before(k) /\ behind(k) < behind(j)
<1> DEFINE Before(x) == {i \in S : i.nth < x.nth}
           Behind(x) == {i \in S : i.nth > x.nth}
<1>1. IsFiniteSet(S) /\ \A i \in S : i.nth \in Nat
  BY DEF Orderly
<1>2. /\ IsFiniteSet(Before(j)) /\ IsFiniteSet(Before(k))
      /\ IsFiniteSet(Behind(j)) /\ IsFiniteSet(Behind(k))
  BY <1>1, FS_Subset
<1>3. Before(j) \in SUBSET S /\ j \notin Before(j) /\ k \notin Behind(k)
  BY <1>1
<1>4. j.nth < k.nth => /\ Before(j) \in SUBSET Before(k) /\ j \in Before(k)
                       /\ Behind(k) \in SUBSET Behind(j) /\ k \in Behind(j)
  BY <1>1
<1> HIDE DEF Before, Behind
<1>5. Cardinality(Before(j)) < Cardinality(S)
  BY <1>1, <1>3, Larger
<1>6. j.nth < k.nth => Cardinality(Before(j)) < Cardinality(Before(k))
  BY <1>2, <1>3, <1>4, Larger
<1>7. j.nth < k.nth => Cardinality(Behind(k)) < Cardinality(Behind(j))
  BY <1>2, <1>3, <1>4, Larger
<1>8. Cardinality(Before(j)) \in Nat /\ Cardinality(Behind(j)) \in Nat
  BY <1>2, FS_CardinalityType
<1> QED BY <1>5, <1>6, <1>7, <1>8 DEF Before, Behind

\* Ranking renames the ranks and loses no entry.
LEMMA RankedIs ==
  ASSUME NEW S, Orderly(S)
  PROVE  /\ Orderly(Ranked(S)) /\ Compact(Ranked(S))
         /\ Cardinality(Ranked(S)) = Cardinality(S)
         /\ \A k \in Ranked(S) : \E j \in S : k.id = j.id /\ k.at = j.at
<1> DEFINE before(x) == Cardinality({i \in S : i.nth < x.nth})
           moved(x) == [id |-> x.id, at |-> x.at, nth |-> before(x)]
<1>1. \A j, k \in S : /\ before(j) \in Nat /\ before(j) < Cardinality(S)
                      /\ j.nth < k.nth => before(j) < before(k)
  BY Ranks
<1>2. Ranked(S) = {moved(k) : k \in S}
  BY DEF Ranked
<1>3. /\ IsFiniteSet(S) /\ S \subseteq [id : Events, at : Int, nth : Nat]
      /\ \A j, k \in S : j.id = k.id \/ j.nth = k.nth => j = k
  BY DEF Orderly
<1> HIDE DEF before
<1>4. \A j, k \in S : before(j) = before(k) => j = k
  <2>1. SUFFICES ASSUME NEW j \in S, NEW k \in S, before(j) = before(k), j # k PROVE FALSE
    OBVIOUS
  <2>2. j.nth \in Nat /\ k.nth \in Nat /\ j.nth # k.nth
    BY <1>3, <2>1
  <2>3. j.nth < k.nth \/ k.nth < j.nth
    BY <2>2
  <2>4. before(j) \in Nat /\ before(k) \in Nat /\ (before(j) < before(k) \/ before(k) < before(j))
    BY <1>1, <2>3
  <2> QED BY <2>1, <2>4
<1>5. ASSUME NEW k \in S
      PROVE  /\ moved(k).id = k.id /\ moved(k).at = k.at /\ moved(k).nth = before(k)
             /\ moved(k) \in [id : Events, at : Int, nth : Nat]
  <2>1. before(k) \in Nat /\ k.id \in Events /\ k.at \in Int
    BY <1>1, <1>3
  <2> QED BY <2>1
<1> HIDE DEF moved
<1>6. /\ IsFiniteSet(Ranked(S)) /\ Cardinality(Ranked(S)) = Cardinality(S)
  <2> DEFINE f == [k \in S |-> moved(k)]
  <2>1. f \in Bijection(S, Ranked(S))
    <3>1. f \in [S -> Ranked(S)] /\ \A t \in Ranked(S) : \E k \in S : f[k] = t
      BY <1>2
    <3>2. \A j, k \in S : f[j] = f[k] => j = k
      BY <1>3, <1>5
    <3> HIDE DEF f
    <3> QED BY <3>1, <3>2 DEF Bijection, Injection, Surjection, IsInjective
  <2>2. ExistsBijection(S, Ranked(S))
    BY <2>1 DEF ExistsBijection
  <2> QED BY <1>3, <2>2, FS_Bijection
<1>7. Orderly(Ranked(S))
  BY <1>2, <1>3, <1>4, <1>5, <1>6 DEF Orderly
<1>8. Compact(Ranked(S))
  BY <1>1, <1>2, <1>5, <1>6 DEF Compact
<1> QED BY <1>2, <1>5, <1>6, <1>7, <1>8

\* Pruning leaves no more than MaxKept.
LEMMA PrunedIs ==
  ASSUME NEW S, Orderly(S), NEW t
  PROVE  /\ Orderly(Pruned(S, t)) /\ Pruned(S, t) \subseteq S
         /\ Cardinality(Pruned(S, t)) <= MaxKept
<1> DEFINE fresh == {k \in S : t - k.at <= TTL}
           behind(x) == Cardinality({i \in fresh : i.nth > x.nth})
<1>1. Pruned(S, t) = {k \in fresh : behind(k) < MaxKept}
  BY DEF Pruned
<1>2. IsFiniteSet(fresh) /\ fresh \subseteq S
  BY FS_Subset DEF Orderly
<1> HIDE DEF fresh
<1>3. Orderly(fresh)
  BY <1>2 DEF Orderly
<1>4. \A j, k \in fresh : behind(j) \in Nat /\ (j.nth < k.nth => behind(k) < behind(j))
  BY <1>3, Ranks
<1> HIDE DEF behind
<1> DEFINE P == {k \in fresh : behind(k) < MaxKept}
<1>5. IsFiniteSet(P) /\ P \subseteq fresh
  BY <1>2, FS_Subset
<1>6. Orderly(P)
  BY <1>3, <1>5 DEF Orderly
<1>7. Cardinality(P) <= MaxKept
  <2> DEFINE f == [k \in P |-> behind(k)]
  <2>1. f \in [P -> 0 .. MaxKept - 1]
    BY <1>4, WebhookAssumption
  <2>2. \A j, k \in P : f[j] = f[k] => j = k
    <3>1. SUFFICES ASSUME NEW j \in P, NEW k \in P, behind(j) = behind(k), j # k PROVE FALSE
      OBVIOUS
    <3>2. j.nth \in Nat /\ k.nth \in Nat /\ j.nth # k.nth
      BY <1>6, <3>1 DEF Orderly
    <3>3. j.nth < k.nth \/ k.nth < j.nth
      BY <3>2
    <3> QED BY <1>4, <3>1, <3>3
  <2> HIDE DEF f, P
  <2>3. f \in Injection(P, 0 .. MaxKept - 1)
    BY <2>1, <2>2 DEF Injection, IsInjective
  <2>4. IsFiniteSet(0 .. MaxKept - 1) /\ Cardinality(0 .. MaxKept - 1) = MaxKept
    BY FS_Interval, WebhookAssumption
  <2> QED BY <2>3, <2>4, FS_Injection
<1> QED BY <1>1, <1>2, <1>5, <1>6, <1>7

\* Marking adds one entry at most, behind all others.
LEMMA MarkedIs ==
  ASSUME NEW S, Orderly(S), Compact(S), NEW e \in Events, NEW t \in Int
  PROVE  /\ Orderly(Marked(S, e, t)) /\ Compact(Marked(S, e, t))
         /\ Cardinality(Marked(S, e, t)) <= Cardinality(S) + 1
         /\ \A k \in Marked(S, e, t) : k.at = t \/ \E j \in S : k.at = j.at
<1> DEFINE M == Marked(S, e, t)
           again(k) == IF k.id = e THEN [id |-> e, at |-> t, nth |-> k.nth] ELSE k
           new == [id |-> e, at |-> t, nth |-> Cardinality(S)]
<1>1. /\ IsFiniteSet(S) /\ S \subseteq [id : Events, at : Int, nth : Nat]
      /\ \A j, k \in S : j.id = k.id \/ j.nth = k.nth => j = k
      /\ \A k \in S : k.nth < Cardinality(S)
      /\ Cardinality(S) \in Nat
  BY FS_CardinalityType DEF Orderly, Compact
<1>2. CASE e \in Ids(S)
  <2>1. M = {again(k) : k \in S}
    BY <1>2 DEF Marked
  <2>2. ASSUME NEW k \in S
        PROVE  /\ again(k).id = k.id /\ again(k).nth = k.nth /\ again(k).at \in {k.at, t}
               /\ again(k) \in [id : Events, at : Int, nth : Nat]
    BY <1>1
  <2> HIDE DEF M, again
  <2>3. IsFiniteSet(M) /\ Cardinality(M) = Cardinality(S)
    <3> DEFINE f == [k \in S |-> again(k)]
    <3>1. f \in [S -> M] /\ \A m \in M : \E k \in S : f[k] = m
      BY <2>1
    <3>2. \A j, k \in S : f[j] = f[k] => j = k
      BY <1>1, <2>2
    <3> HIDE DEF f
    <3>3. f \in Bijection(S, M)
      BY <3>1, <3>2 DEF Bijection, Injection, Surjection, IsInjective
    <3>4. ExistsBijection(S, M)
      BY <3>3 DEF ExistsBijection
    <3> QED BY <1>1, <3>4, FS_Bijection
  <2>4. /\ M \subseteq [id : Events, at : Int, nth : Nat]
        /\ \A j, k \in M : j.id = k.id \/ j.nth = k.nth => j = k
        /\ \A k \in M : k.nth < Cardinality(M)
        /\ \A k \in M : k.at = t \/ \E j \in S : k.at = j.at
    BY <1>1, <2>1, <2>2, <2>3
  <2> QED BY <1>1, <2>3, <2>4 DEF M, Orderly, Compact
<1>3. CASE e \notin Ids(S)
  <2>1. M = S \cup {new} /\ \A k \in S : k.id # e
    BY <1>3 DEF Marked, Ids
  <2>2. /\ new.id = e /\ new.nth = Cardinality(S) /\ new.at = t
        /\ new \in [id : Events, at : Int, nth : Nat]
    BY <1>1
  <2> HIDE DEF M, new
  <2>3. IsFiniteSet(M) /\ Cardinality(M) = Cardinality(S) + 1
    BY <1>1, <2>1, <2>2, FS_AddElement
  <2>4. /\ M \subseteq [id : Events, at : Int, nth : Nat]
        /\ \A j, k \in M : j.id = k.id \/ j.nth = k.nth => j = k
        /\ \A k \in M : k.nth < Cardinality(M)
        /\ \A k \in M : k.at = t \/ \E j \in S : k.at = j.at
    BY <1>1, <2>1, <2>2, <2>3
  <2> QED BY <1>1, <2>3, <2>4 DEF M, Orderly, Compact
<1> QED BY <1>2, <1>3

\* The handlers that may still mark an event.
Marking == {s \in Slots : pc[s] \in {"updating", "updated"}}

\* The bound alone is not inductive: what may still be added counts with what is
\* there.  Nor are the ranks distinct, but for there being no gap below the next.
CacheInv ==
  /\ Orderly(kept) /\ Compact(kept)
  /\ now \in Nat
  /\ \A k \in kept : k.at \in 0 .. now
  /\ \A s \in Slots : pc[s] # "idle" => job[s].event \in Events /\ job[s].began \in 0 .. now
  /\ Cardinality(kept) + Cardinality(Marking) <= MaxKept + Cardinality(Slots)

LEMMA Counting ==
  ASSUME Orderly(kept)
  PROVE  /\ Cardinality(kept) \in Nat
         /\ Cardinality(Marking) \in Nat /\ Cardinality(Marking) <= Cardinality(Slots)
         /\ Cardinality(Slots) \in Nat /\ IsFiniteSet(Marking)
<1>1. Marking \in SUBSET Slots
  BY DEF Marking
<1>2. IsFiniteSet(Marking) /\ Cardinality(Marking) <= Cardinality(Slots)
  BY <1>1, FS_Subset, WebhookAssumption
<1> QED BY <1>2, FS_CardinalityType, WebhookAssumption DEF Orderly

LEMMA CacheInitial == Init => CacheInv
<1> SUFFICES ASSUME Init PROVE CacheInv
  OBVIOUS
<1>1. kept = {} /\ Cardinality(kept) = 0 /\ Orderly(kept) /\ Compact(kept)
  BY FS_EmptySet DEF Init, Orderly, Compact
<1>2. now = 0 /\ \A s \in Slots : pc[s] = "idle"
  BY DEF Init
<1>3. Cardinality(kept) + Cardinality(Marking) <= MaxKept + Cardinality(Slots)
  BY <1>1, Counting, WebhookAssumption
<1> QED BY <1>1, <1>2, <1>3 DEF CacheInv

\* A delivery prunes the cache to its maximum.
LEMMA CacheDelivered ==
  ASSUME CacheInv, kept' = Ranked(Pruned(kept, now))
  PROVE  /\ Orderly(kept') /\ Compact(kept') /\ Cardinality(kept') <= MaxKept
         /\ \A k \in kept' : k.at \in 0 .. now
<1>1. Orderly(kept)
  BY DEF CacheInv
<1>2. /\ Orderly(Pruned(kept, now)) /\ Pruned(kept, now) \subseteq kept
      /\ Cardinality(Pruned(kept, now)) <= MaxKept
  BY <1>1, PrunedIs
<1>3. /\ Orderly(kept') /\ Compact(kept') /\ Cardinality(kept') <= MaxKept
      /\ \A k \in kept' : \E j \in Pruned(kept, now) : k.at = j.at
  BY <1>2, RankedIs
<1> QED BY <1>2, <1>3 DEF CacheInv

\* A step that leaves the cache alone, and has no more handlers about to mark.
LEMMA CacheKept ==
  ASSUME CacheInv, kept' = kept, Marking' \subseteq Marking, now' \in {now, now + 1},
         \A s \in Slots : pc'[s] # "idle" => pc[s] # "idle" /\ job'[s] = job[s]
  PROVE  CacheInv'
<1>1. /\ Cardinality(kept) \in Nat /\ Cardinality(Marking) \in Nat
      /\ Cardinality(Slots) \in Nat /\ IsFiniteSet(Marking)
  BY Counting DEF CacheInv
<1>2. Cardinality(Marking') <= Cardinality(Marking) /\ Cardinality(Marking') \in Nat
  BY <1>1, FS_Subset, FS_CardinalityType
<1>3. Cardinality(kept) + Cardinality(Marking') <= MaxKept + Cardinality(Slots)
  BY <1>1, <1>2, WebhookAssumption DEF CacheInv
<1>4. now' \in Nat /\ 0 .. now \subseteq 0 .. now'
  BY DEF CacheInv
<1>5. \A k \in kept' : k.at \in 0 .. now'
  BY <1>4 DEF CacheInv
<1>6. \A s \in Slots : pc'[s] # "idle" => job'[s].event \in Events /\ job'[s].began \in 0 .. now'
  BY <1>4 DEF CacheInv
<1>7. Orderly(kept)' /\ Compact(kept)'
  BY DEF CacheInv, Orderly, Compact
<1> QED BY <1>3, <1>4, <1>5, <1>6, <1>7 DEF CacheInv

LEMMA CacheStep == Shape /\ CacheInv /\ [Next]_vars => CacheInv'
<1> SUFFICES ASSUME Shape, CacheInv, [Next]_vars PROVE CacheInv'
  OBVIOUS
<1>0. /\ Cardinality(kept) \in Nat /\ Cardinality(Slots) \in Nat
      /\ now \in Nat /\ MaxKept \in Nat
  BY Counting, WebhookAssumption DEF CacheInv
<1>1. ASSUME NEW s \in Slots, NEW e \in Events, Deliver(s, e) PROVE CacheInv'
  <2>1. kept' = Ranked(Pruned(kept, now)) /\ now' = now
    BY <1>1 DEF Deliver, IgnoreDuplicate, StartUpdate
  <2>2. /\ Orderly(kept') /\ Compact(kept') /\ Cardinality(kept') <= MaxKept
        /\ \A k \in kept' : k.at \in 0 .. now
    BY <2>1, CacheDelivered
  <2>3. \A t \in Slots : pc'[t] # "idle" => job'[t].event \in Events /\ job'[t].began \in 0 .. now
    <3>1. CASE pc' = pc /\ job' = job
      BY <3>1 DEF CacheInv
    <3>2. CASE /\ pc' = [pc EXCEPT ![s] = "updating"]
               /\ job' = [job EXCEPT ![s] = [event |-> e, began |-> now]]
      BY <1>0, <3>2 DEF CacheInv, Shape
    <3> QED BY <1>1, <3>1, <3>2 DEF Deliver, IgnoreDuplicate, StartUpdate, Goto
  <2>4. Cardinality(Marking') <= Cardinality(Slots) /\ Cardinality(Marking') \in Nat
    <3>1. Marking' \in SUBSET Slots
      BY DEF Marking
    <3> QED BY <3>1, FS_Subset, FS_CardinalityType, WebhookAssumption
  <2>5. Cardinality(kept') \in Nat
    BY <2>2, FS_CardinalityType DEF Orderly
  <2>6. Cardinality(kept') + Cardinality(Marking') <= MaxKept + Cardinality(Slots)
    BY <1>0, <2>2, <2>4, <2>5
  <2>7. Orderly(kept)' /\ Compact(kept)'
    BY <2>2 DEF Orderly, Compact
  <2> QED BY <1>0, <2>1, <2>2, <2>3, <2>6, <2>7 DEF CacheInv
<1>2. ASSUME NEW s \in Slots, Mark(s) PROVE CacheInv'
  <2> DEFINE e == job[s].event
             t == job[s].began
  <2>1. /\ pc[s] = "updated" /\ pc' = [pc EXCEPT ![s] = "marked"]
        /\ kept' = Marked(kept, e, t) /\ now' = now /\ job' = job
    BY <1>2 DEF Mark, Goto
  <2>2. e \in Events /\ t \in 0 .. now /\ t \in Int
    BY <2>1 DEF CacheInv
  <2>3. /\ Orderly(kept') /\ Compact(kept') /\ Cardinality(kept') <= Cardinality(kept) + 1
        /\ \A k \in kept' : k.at = t \/ \E j \in kept : k.at = j.at
    BY <2>1, <2>2, MarkedIs DEF CacheInv
  <2> HIDE DEF e, t
  <2>4. Marking' = Marking \ {s} /\ s \in Marking
    BY <2>1 DEF Marking, Shape
  <2>5. Cardinality(Marking') = Cardinality(Marking) - 1 /\ Cardinality(Marking) \in Nat
    BY <2>4, FS_RemoveElement, Counting DEF CacheInv
  <2>6. Cardinality(kept') \in Nat
    BY <2>3, FS_CardinalityType DEF Orderly
  <2>7. Cardinality(kept') + Cardinality(Marking') <= MaxKept + Cardinality(Slots)
    BY <1>0, <2>3, <2>5, <2>6 DEF CacheInv
  <2>8. \A k \in kept' : k.at \in 0 .. now
    BY <2>2, <2>3 DEF CacheInv
  <2>9. \A r \in Slots : pc'[r] # "idle" => job[r].event \in Events /\ job[r].began \in 0 .. now
    BY <2>1 DEF CacheInv, Shape
  <2>10. Orderly(kept)' /\ Compact(kept)'
    BY <2>3 DEF Orderly, Compact
  <2> QED BY <1>0, <2>1, <2>7, <2>8, <2>9, <2>10 DEF CacheInv
<1>3. ASSUME NEW s \in Slots,
             \/ UpdateRow(s) \/ FailUpdate(s) \/ Notify(s) \/ SkipNotify(s) \/ Acknowledge(s)
      PROVE  CacheInv'
  <2>1. /\ kept' = kept /\ now' = now
        /\ \/ /\ pc[s] = "updating" /\ pc' = [pc EXCEPT ![s] = "updated"] /\ job' = job
           \/ /\ pc[s] = "marked" /\ pc' = [pc EXCEPT ![s] = "notified"] /\ job' = job
           \/ /\ pc' = [pc EXCEPT ![s] = "idle"] /\ job' = [job EXCEPT ![s] = NoJob]
    BY <1>3 DEF UpdateRow, FailUpdate, Notify, SkipNotify, Acknowledge, Finish, Goto
  <2>2. /\ Marking' \subseteq Marking
        /\ \A r \in Slots : pc'[r] # "idle" => pc[r] # "idle" /\ job'[r] = job[r]
    BY <2>1 DEF Marking, Shape
  <2> QED BY <2>1, <2>2, CacheKept
<1>4. CASE \/ Tick \/ UNCHANGED vars
           \/ \E e \in late : LateUpdate(e)
           \/ \E c \in Contracts : InsertRow(c)
  <2>1. kept' = kept /\ pc' = pc /\ job' = job /\ now' \in {now, now + 1}
    BY <1>4 DEF Tick, LateUpdate, InsertRow, vars, serviceVars
  <2>2. Marking' \subseteq Marking
    BY <2>1 DEF Marking
  <2> QED BY <2>1, <2>2, CacheKept
<1>5. CASE Restart
  <2>1. kept' = {} /\ now' = now /\ \A s \in Slots : pc'[s] = "idle"
    BY <1>5 DEF Restart
  <2>2. Cardinality(kept') = 0 /\ Orderly(kept)' /\ Compact(kept)'
    BY <2>1, FS_EmptySet DEF Orderly, Compact
  <2>3. Marking' = {} /\ Cardinality(Marking') = 0
    BY <2>1, FS_EmptySet DEF Marking
  <2>4. Cardinality(kept') + Cardinality(Marking') <= MaxKept + Cardinality(Slots)
    BY <1>0, <2>2, <2>3
  <2> QED BY <1>0, <2>1, <2>2, <2>4 DEF CacheInv
<1> QED BY <1>1, <1>2, <1>3, <1>4, <1>5 DEF Next, Running, HandlerStep

LEMMA CacheInvariant == Spec => []CacheInv
<1>1. IInv => Shape
  BY DEF IInv
<1> QED BY Invariant, CacheInitial, CacheStep, <1>1, PTL DEF Spec

\* However deliveries race, are pruned and marked anew, an event is in the cache
\* once, at a place of its own, and its mutation was answered.
THEOREM CacheSound == Spec => []CacheIsSound
<1>1. IInv /\ CacheInv => CacheIsSound
  BY DEF IInv, CacheInv, Orderly, CacheIsSound
<1> QED BY Invariant, CacheInvariant, <1>1, PTL

\* The cache holds no more than its maximum and the deliveries handled at once.
THEOREM CacheBounded == Spec => []CacheIsBounded
<1>1. CacheInv => CacheIsBounded
  <2> SUFFICES ASSUME CacheInv PROVE CacheIsBounded
    OBVIOUS
  <2>1. /\ Cardinality(kept) \in Nat /\ Cardinality(Marking) \in Nat
        /\ Cardinality(Slots) \in Nat
    BY Counting DEF CacheInv
  <2> QED BY <2>1, WebhookAssumption DEF CacheInv, CacheIsBounded
<1> QED BY CacheInvariant, <1>1, PTL
-----------------------------------------------------------------------------
(* The types *)

\* What neither Shape nor CacheInv says.
Typed ==
  /\ row \in [Contracts -> {"none"} \cup Statuses]
  /\ late \subseteq Events
  /\ applied \subseteq Events
  /\ unmatched \subseteq Events
  /\ notified \in [Events -> 0 .. MaxNotices]
  /\ excused \subseteq Events

LEMMA StatusStored ==
  ASSUME NEW e \in Events
  PROVE  Stored(e) \in Statuses /\ ContractOf[e] \in Contracts
<1>1. StatusOf[e] \in DOMAIN STATUS_MAP
  BY WebhookAssumption
<1>2. \A s \in DOMAIN STATUS_MAP : STATUS_MAP[s] \in Statuses
  BY DEF STATUS_MAP, Statuses
<1> QED BY <1>1, <1>2 DEF Stored, Contracts

LEMMA TypedStep == Shape /\ Counts /\ CacheInv /\ Typed /\ [Next]_vars => Typed'
<1> SUFFICES ASSUME Shape, Counts, CacheInv, Typed, [Next]_vars PROVE Typed'
  OBVIOUS
<1>1. ASSUME NEW S \in SUBSET kept PROVE Ids(S) \subseteq Events
  BY <1>1 DEF CacheInv, Orderly, Ids
<1>2. excused' \subseteq Events
  <2>1. Ids(kept) \subseteq Events /\ Ids({k \in kept : Droppable(k)}) \subseteq Events
    BY <1>1
  <2> QED BY <2>1 DEF Next, Watch, Typed, vars
<1>3. ASSUME NEW e \in Events, Mutation(e)
      PROVE  /\ row' \in [Contracts -> {"none"} \cup Statuses]
             /\ applied' \subseteq Events /\ unmatched' \subseteq Events
  BY <1>3, StatusStored DEF Mutation, Write, MatchNothing, Typed
<1>4. ASSUME NEW s \in Slots, UpdateRow(s) PROVE Typed'
  <2>1. job[s].event \in Events
    BY <1>4 DEF UpdateRow, CacheInv
  <2> QED BY <1>2, <1>3, <1>4, <2>1 DEF UpdateRow, Typed
<1>5. ASSUME NEW e \in late, LateUpdate(e) PROVE Typed'
  BY <1>2, <1>3, <1>5 DEF LateUpdate, Typed
<1>6. ASSUME NEW s \in Slots, FailUpdate(s) PROVE Typed'
  BY <1>2, <1>6 DEF FailUpdate, Typed, CacheInv
<1>7. ASSUME NEW s \in Slots, Notify(s) PROVE Typed'
  <2> DEFINE e == job[s].event
  <2>1. /\ row' = row /\ late' = late /\ applied' = applied /\ unmatched' = unmatched
        /\ notified' = [notified EXCEPT ![e] = IF @ < MaxNotices THEN @ + 1 ELSE @]
    BY <1>7 DEF Notify
  <2> HIDE DEF e
  <2>2. \A n \in 0 .. MaxNotices : (IF n < MaxNotices THEN n + 1 ELSE n) \in 0 .. MaxNotices
    BY WebhookAssumption
  <2>3. notified' \in [Events -> 0 .. MaxNotices]
    BY <2>1, <2>2 DEF Typed
  <2> QED BY <1>2, <2>1, <2>3 DEF Typed
<1>8. CASE \/ \E s \in Slots : Mark(s) \/ SkipNotify(s) \/ Acknowledge(s) \/ \E e \in Events : Deliver(s, e)
           \/ Tick \/ UNCHANGED vars
  BY <1>2, <1>8
  DEF Mark, SkipNotify, Acknowledge, Deliver, IgnoreDuplicate, StartUpdate, Tick, vars, serviceVars, Typed
<1>9. ASSUME NEW c \in Contracts, InsertRow(c) PROVE Typed'
  <2>1. "pending" \in Statuses
    BY DEF Statuses
  <2> QED BY <1>2, <1>9, <2>1 DEF InsertRow, Typed
<1>10. CASE Restart
  <2>1. \A s \in Slots : pc[s] = "updating" => job[s].event \in Events
    BY DEF CacheInv
  <2> QED BY <1>2, <1>10, <2>1 DEF Restart, Typed
<1> QED BY <1>4, <1>5, <1>6, <1>7, <1>8, <1>9, <1>10 DEF Next, Running, HandlerStep

\* Ids are events and no id is there twice, so ranks stay below their number.
LEMMA RanksBounded == CacheInv => kept \subseteq Entries
<1> SUFFICES ASSUME CacheInv PROVE kept \subseteq Entries
  OBVIOUS
<1>1. /\ kept \subseteq [id : Events, at : Int, nth : Nat]
      /\ \A j, k \in kept : j.id = k.id => j = k
      /\ \A k \in kept : k.nth < Cardinality(kept) /\ k.at \in 0 .. now
  BY DEF CacheInv, Orderly, Compact
<1>2. Cardinality(kept) <= Cardinality(Events) /\ Cardinality(Events) \in Nat
  <2> DEFINE f == [k \in kept |-> k.id]
  <2>1. f \in [kept -> Events] /\ \A j, k \in kept : f[j] = f[k] => j = k
    BY <1>1
  <2> HIDE DEF f
  <2>2. f \in Injection(kept, Events)
    BY <2>1 DEF Injection, IsInjective
  <2> QED BY <2>2, FS_Injection, FS_CardinalityType, WebhookAssumption
<1>3. Cardinality(kept) \in Nat
  BY Counting DEF CacheInv
<1>4. \A k \in kept : k.nth \in 0 .. Cardinality(Events)
  BY <1>1, <1>2, <1>3
<1> QED BY <1>1, <1>4 DEF Entries

\* Every variable keeps its type: what is cached and worked on are events, with
\* times that have been and ranks there are events for.
THEOREM TypeCorrect == Spec => []TypeOK
<1>1. Init => Typed
  BY WebhookAssumption DEF Init, Typed
<1>2. Shape /\ Counts /\ CacheInv /\ Typed => TypeOK
  <2> SUFFICES ASSUME Shape, Counts, CacheInv, Typed PROVE TypeOK
    OBVIOUS
  <2>1. job \in [Slots -> Jobs \cup {NoJob}]
    BY DEF Shape, Counts, CacheInv, Jobs
  <2>2. kept \subseteq Entries
    BY RanksBounded
  <2> QED BY <2>1, <2>2 DEF Shape, CacheInv, Typed, TypeOK
<1>3. IInv => Shape
  BY DEF IInv
<1> QED
  BY Invariant, CacheInvariant, OnceInit, CountsStep, TypedStep, <1>1, <1>2, <1>3, PTL DEF Spec
=============================================================================
