----------------------- MODULE OwnershipTransferProofs -----------------------
(***************************************************************************)
(* Proofs about OwnershipTransfer: its mutex, its finality, and that it    *)
(* implements AtomicTransfer.                                              *)
(***************************************************************************)
EXTENDS OwnershipTransfer, TLAPS

-----------------------------------------------------------------------------
(* The inductive invariant of the locks *)

\* A running call has a request, and is where that request can be.
RequestKnown ==
  \A c \in Calls :
    /\ pc[c] # "idle" /\ answer[c] \notin {"400", "lost"} => request[c] \in Requests
    /\ pc[c] \in {"inserted", "conflict"} => Initiating(c)
    /\ pc[c] \in {"read", "written"} => Finalizing(c)
    /\ pc[c] # "done" => answer[c] = "none" /\ c \notin bygone

LockInv ==
  /\ TypeOK
  /\ RequestKnown
  /\ MutualExclusion
  /\ QueueIsWaiters

LEMMA InitLockInv == Init => LockInv
  BY DEF Init, LockInv, TypeOK, RequestKnown, MutualExclusion, QueueIsWaiters, Holds,
         PCs, Running, Holding, Answers

\* A running call's transferId is one.
LEMMA RunningId ==
  ASSUME LockInv, NEW c \in Calls, pc[c] \in Running
  PROVE  /\ IdOf(c) \in TransferIds /\ request[c] \in Requests
         /\ answer[c] = "none" /\ c \notin bygone
  BY DEF LockInv, TypeOK, RequestKnown, Running, Holding, Requests, IdOf

LEMMA AcquireLockInv ==
  ASSUME LockInv, NEW c \in Calls, NEW q \in Requests, Acquire(c, q)
  PROVE  LockInv'
<1>1. q.id \in TransferIds /\ pc[c] = "idle" /\ answer[c] = "none"
  BY DEF Acquire, Requests, LockInv, RequestKnown
<1>2. TypeOK'
  <2>1. locked' \in [TransferIds -> BOOLEAN] /\ queue' \in [TransferIds -> Seq(Calls)]
    <3>1. /\ locked \in [TransferIds -> BOOLEAN] /\ queue \in [TransferIds -> Seq(Calls)]
          /\ \/ locked' = [locked EXCEPT ![q.id] = TRUE]
             \/ locked' = locked
          /\ \/ queue' = [queue EXCEPT ![q.id] = Append(@, c)]
             \/ queue' = queue
      BY DEF LockInv, TypeOK, Acquire
    <3>2. locked' \in [TransferIds -> BOOLEAN]
      BY <3>1
    <3>3. Append(queue[q.id], c) \in Seq(Calls)
      BY <1>1, <3>1
    <3>4. queue' \in [TransferIds -> Seq(Calls)]
      BY <3>1, <3>3
    <3>. QED
      BY <3>2, <3>4
  <2>2. pc' \in [Calls -> PCs] /\ request' \in [Calls -> Requests \cup {NoRequest}]
    BY DEF LockInv, TypeOK, Acquire, PCs, Running, Holding
  <2>. QED
    BY <2>1, <2>2 DEF LockInv, TypeOK, Acquire
<1>3. RequestKnown'
  BY <1>1 DEF LockInv, TypeOK, RequestKnown, Acquire, Initiating, Finalizing
<1>4. \A d \in Calls : d # c => pc'[d] = pc[d] /\ request'[d] = request[d]
  BY DEF Acquire, LockInv, TypeOK
<1>5. \A k \in 1..Len(queue[q.id]) : queue[q.id][k] # c
  BY <1>1 DEF LockInv, QueueIsWaiters, TypeOK
<1>6. CASE Free(q.id) /\ locked' = [locked EXCEPT ![q.id] = TRUE]
           /\ pc' = [pc EXCEPT ![c] = "granted"] /\ UNCHANGED queue
  <2>1. pc'[c] = "granted" /\ request'[c] = q
    BY <1>1, <1>6 DEF Acquire, LockInv, TypeOK
  <2>2. MutualExclusion'
    <3>1. /\ MutualExclusion /\ ~locked[q.id] /\ locked'[q.id]
          /\ \A i \in TransferIds : i # q.id => locked'[i] = locked[i]
      BY <1>1, <1>6 DEF LockInv, TypeOK, Free
    <3>2. /\ ~Holds(c) /\ Holds(c)' /\ IdOf(c)' = q.id
          /\ \A d \in Calls : d # c => Holds(d)' = Holds(d) /\ IdOf(d)' = IdOf(d)
      BY <1>1, <1>4, <2>1 DEF Holds, Holding, IdOf
    <3> HIDE DEF Holds, IdOf
    <3>. QED
      BY <1>1, <3>1, <3>2 DEF MutualExclusion
  <2>3. QueueIsWaiters'
    <3>1. QueueIsWaiters /\ pc[c] # "waiting" /\ pc'[c] # "waiting" /\ queue' = queue
      BY <1>1, <1>6, <2>1 DEF LockInv
    <3>2. \A d \in Calls, i \in TransferIds :
            pc'[d] = "waiting" /\ IdOf(d)' = i <=> pc[d] = "waiting" /\ IdOf(d) = i
      BY <1>4, <3>1 DEF IdOf
    <3> HIDE DEF IdOf
    <3>. QED
      BY <3>1, <3>2 DEF QueueIsWaiters
  <2>. QED
    BY <1>2, <1>3, <2>2, <2>3 DEF LockInv
<1>7. CASE ~Free(q.id) /\ queue' = [queue EXCEPT ![q.id] = Append(@, c)]
           /\ pc' = [pc EXCEPT ![c] = "waiting"] /\ UNCHANGED locked
  <2>1. pc'[c] = "waiting" /\ request'[c] = q /\ queue'[q.id] = Append(queue[q.id], c)
    BY <1>1, <1>7 DEF Acquire, LockInv, TypeOK
  <2>2. MutualExclusion'
    BY <1>1, <1>4, <1>7, <2>1 DEF LockInv, MutualExclusion, Holds, Holding, IdOf, Free, Acquire
  <2>3. QueueIsWaiters'
    <3> SUFFICES ASSUME NEW i \in TransferIds
                 PROVE  /\ \A d \in Calls :
                             pc'[d] = "waiting" /\ request'[d].id = i <=>
                               \E k \in 1..Len(queue'[i]) : queue'[i][k] = d
                        /\ \A k, l \in 1..Len(queue'[i]) : queue'[i][k] = queue'[i][l] => k = l
      BY DEF QueueIsWaiters, IdOf
    <3>1. queue[i] \in Seq(Calls)
      BY DEF LockInv, TypeOK
    <3>2. CASE i # q.id
      <4>1. queue'[i] = queue[i] /\ pc[c] # "waiting"
        BY <1>1, <1>7, <3>2 DEF LockInv, TypeOK
      <4>2. \A d \in Calls :
              pc'[d] = "waiting" /\ request'[d].id = i <=> pc[d] = "waiting" /\ IdOf(d) = i
        BY <1>4, <2>1, <3>2, <4>1 DEF IdOf
      <4>. QED
        BY <4>1, <4>2 DEF LockInv, QueueIsWaiters
    <3>3. CASE i = q.id
      <4> DEFINE n == Len(queue[i])
      <4>a. queue'[i] = Append(queue[i], c) /\ n \in Nat
        BY <2>1, <3>1, <3>3
      <4>1. /\ n \in Nat /\ Len(queue'[i]) = n + 1 /\ queue'[i][n + 1] = c
            /\ \A k \in 1..n : queue'[i][k] = queue[i][k]
        <5> DEFINE old == queue[i]
        <5>1. old \in Seq(Calls) /\ queue'[i] = Append(old, c)
          BY <3>1, <4>a
        <5> HIDE DEF old
        <5>2. /\ Len(queue'[i]) = Len(old) + 1 /\ queue'[i][Len(old) + 1] = c
              /\ \A k \in 1..Len(old) : queue'[i][k] = old[k]
          BY <5>1
        <5>. QED
          BY <4>a, <5>2 DEF old
      <4>2. /\ \A d \in Calls : pc[d] = "waiting" /\ request[d].id = i <=>
                                  \E k \in 1..n : queue[i][k] = d
            /\ \A k, l \in 1..n : queue[i][k] = queue[i][l] => k = l
        BY DEF LockInv, QueueIsWaiters, IdOf
      <4>3. \A k \in 1..n : queue[i][k] # c
        BY <1>5, <3>3
      <4> HIDE DEF n
      <4>4. 1..(n + 1) = 1..n \cup {n + 1}
        BY <4>1
      <4>5. \A d \in Calls : pc'[d] = "waiting" /\ request'[d].id = i <=>
                               \E k \in 1..(n + 1) : queue'[i][k] = d
        BY <1>4, <2>1, <3>3, <4>1, <4>2, <4>3, <4>4
      <4>6. \A k, l \in 1..(n + 1) : queue'[i][k] = queue'[i][l] => k = l
        BY <4>1, <4>2, <4>3, <4>4
      <4>. QED
        BY <4>1, <4>5, <4>6
    <3>. QED
      BY <3>2, <3>3
  <2>. QED
    BY <1>2, <1>3, <2>2, <2>3 DEF LockInv
<1>. QED
  BY <1>6, <1>7 DEF Acquire

\* Steps that move a call inside the critical section and touch no lock.
LEMMA InsideLockInv ==
  ASSUME LockInv, NEW c \in Calls, Insert(c) \/ Read(c) \/ Write(c)
  PROVE  LockInv'
<1>1. pc[c] \in Holding /\ UNCHANGED <<locked, queue, request, answer, bygone>>
  BY DEF Insert, Read, Write, Holding, lockVars
<1>2. PICK p \in Holding : pc' = [pc EXCEPT ![c] = p]
  BY DEF Insert, Read, Write, Holding
<1>3. TypeOK'
  <2>1. IdOf(c) \in TransferIds
    BY <1>1, RunningId DEF Running
  <2>2. CASE Insert(c)
    <3>1. request[c] \in Requests /\ request[c].op = "initiate"
      BY <1>1, <2>2, RunningId DEF Insert, Initiating, Running
    <3>2. [deal |-> request[c].deal, state |-> "PENDING"] \in Transfers
      BY <3>1 DEF Requests, Transfers, Finals
    <3>3. store' \in [TransferIds -> Transfers \cup {NoTransfer}]
      BY <2>1, <2>2, <3>2 DEF Insert, LockInv, TypeOK
    <3>. QED
      BY <1>1, <1>2, <2>2, <3>3 DEF Insert, LockInv, TypeOK, PCs, Running
  <2>3. CASE Read(c)
    BY <1>1, <1>2, <2>1, <2>3 DEF Read, LockInv, TypeOK, PCs, Running
  <2>4. CASE Write(c)
    BY <1>1, <1>2, <2>1, <2>4
       DEF Write, LockInv, TypeOK, PCs, Running, Transfers, NoTransfer, Pending,
           RequestKnown, Finalizing
  <2>. QED
    BY <2>2, <2>3, <2>4
<1>4. RequestKnown'
  BY <1>1 DEF LockInv, RequestKnown, TypeOK, Insert, Read, Write, Initiating, Finalizing, Holding
<1>5. MutualExclusion'
  BY <1>1, <1>2 DEF LockInv, TypeOK, MutualExclusion, Holds, IdOf
<1>6. QueueIsWaiters'
  BY <1>1, <1>2 DEF LockInv, TypeOK, QueueIsWaiters, IdOf, Holding
<1>. QED
  BY <1>3, <1>4, <1>5, <1>6 DEF LockInv

\* The hand-over: whoever is resumed waited for this mutex and is alone in it.
LEMMA ReleaseLockInv ==
  ASSUME LockInv, NEW c \in Calls, Holds(c), NEW s \in Answers,
         ReleaseAndReply(c, s), UNCHANGED <<store, request, seen, bygone>>
  PROVE  LockInv'
<1> DEFINE i == IdOf(c)
<1>1. i \in TransferIds /\ answer[c] = "none" /\ request[c] \in Requests
  BY RunningId DEF Holds, Running
<1>2. queue[i] \in Seq(Calls) /\ pc[c] # "idle"
  BY <1>1 DEF LockInv, TypeOK, Holds, Holding
<1>3. CASE queue[i] # <<>>
  <2> DEFINE h == Head(queue[i])
  <2>1. h \in Calls /\ queue[i][1] = h /\ 1 \in 1..Len(queue[i])
    BY <1>2, <1>3
  <2>2. pc[h] = "waiting" /\ IdOf(h) = i /\ h # c
    BY <1>1, <2>1 DEF LockInv, QueueIsWaiters, Holds, Holding
  <2>3. /\ queue' = [queue EXCEPT ![i] = Tail(@)] /\ UNCHANGED locked
        /\ pc' = [pc EXCEPT ![c] = "done", ![h] = "granted"]
        /\ answer' = [answer EXCEPT ![c] = s]
    BY <1>3 DEF ReleaseAndReply, Oldest
  <2> HIDE DEF h, i
  <2>4. /\ pc'[c] = "done" /\ pc'[h] = "granted"
        /\ \A d \in Calls : d # c /\ d # h => pc'[d] = pc[d]
        /\ queue'[i] = Tail(queue[i])
        /\ \A j \in TransferIds : j # i => queue'[j] = queue[j]
    BY <1>1, <2>1, <2>2, <2>3 DEF LockInv, TypeOK
  <2>5. TypeOK'
    BY <1>1, <1>2, <1>3, <2>1, <2>3, SMTT(30) DEF LockInv, TypeOK, PCs, Running, Holding
  <2>6. RequestKnown'
    BY <1>1, <1>2, <2>2, <2>3, <2>4
       DEF LockInv, TypeOK, RequestKnown, Initiating, Finalizing, Answers
  <2>7. MutualExclusion'
    <3>1. \A d \in Calls : Holds(d)' <=> d = h \/ (d # c /\ Holds(d))
      BY <2>1, <2>2, <2>4 DEF Holds, Holding
    <3>2. \A d \in Calls : IdOf(d)' = IdOf(d)
      BY DEF IdOf
    <3>3. Holds(c) /\ IdOf(c) = i
      BY DEF i
    <3>. QED
      BY <1>1, <2>1, <2>2, <2>3, <3>1, <3>2, <3>3 DEF LockInv, MutualExclusion
  <2>8. QueueIsWaiters'
    <3> SUFFICES ASSUME NEW j \in TransferIds
                 PROVE  /\ \A d \in Calls :
                             pc'[d] = "waiting" /\ IdOf(d) = j <=>
                               \E k \in 1..Len(queue'[j]) : queue'[j][k] = d
                        /\ \A k, l \in 1..Len(queue'[j]) : queue'[j][k] = queue'[j][l] => k = l
      BY DEF QueueIsWaiters, IdOf
    <3>1. pc[c] # "waiting" /\ pc'[c] # "waiting" /\ pc'[h] # "waiting"
      BY <2>4 DEF Holds, Holding
    <3>2. CASE j # i
      BY <2>1, <2>2, <2>4, <3>1, <3>2 DEF LockInv, QueueIsWaiters
    <3>3. CASE j = i
      <4>1. /\ Len(queue'[i]) = Len(queue[i]) - 1
            /\ \A k \in 1..Len(queue'[i]) : queue'[i][k] = queue[i][k + 1]
        BY <1>2, <1>3, <2>4
      <4>2. Len(queue[i]) \in Nat
        BY <1>2
      <4>3. \A k \in 2..Len(queue[i]) : k - 1 \in 1..Len(queue'[i]) /\ queue'[i][k - 1] = queue[i][k]
        BY <4>1, <4>2
      <4>4. \A k, l \in 1..Len(queue'[i]) : queue'[i][k] = queue'[i][l] => k = l
        BY <1>1, <4>1, <4>2 DEF LockInv, QueueIsWaiters
      <4>5. ASSUME NEW d \in Calls, pc'[d] = "waiting", IdOf(d) = i
            PROVE  \E k \in 1..Len(queue'[i]) : queue'[i][k] = d
        <5>1. d # h /\ pc[d] = "waiting"
          BY <2>4, <3>1, <4>5
        <5>2. PICK k \in 1..Len(queue[i]) : queue[i][k] = d
          BY <1>1, <4>5, <5>1 DEF LockInv, QueueIsWaiters
        <5>3. k \in 2..Len(queue[i])
          BY <2>1, <4>2, <5>1, <5>2
        <5>. QED
          BY <4>3, <5>2, <5>3
      <4>6. ASSUME NEW k \in 1..Len(queue'[i])
            PROVE  /\ queue'[i][k] \in Calls
                   /\ pc'[queue'[i][k]] = "waiting" /\ IdOf(queue'[i][k]) = i
        <5>1. k + 1 \in 1..Len(queue[i]) /\ queue'[i][k] = queue[i][k + 1] /\ k + 1 # 1
          BY <4>1, <4>2
        <5>2. queue[i][k + 1] \in Calls /\ queue[i][k + 1] # h
          BY <1>1, <1>2, <2>1, <5>1 DEF LockInv, QueueIsWaiters
        <5>3. pc[queue[i][k + 1]] = "waiting" /\ IdOf(queue[i][k + 1]) = i
          BY <1>1, <5>1, <5>2 DEF LockInv, QueueIsWaiters
        <5>. QED
          BY <2>4, <3>1, <5>1, <5>2, <5>3
      <4>. QED
        BY <3>3, <4>4, <4>5, <4>6
    <3>. QED
      BY <3>2, <3>3
  <2>. QED
    BY <2>5, <2>6, <2>7, <2>8 DEF LockInv
<1>4. CASE queue[i] = <<>>
  <2>1. /\ locked' = [locked EXCEPT ![i] = FALSE] /\ UNCHANGED queue
        /\ pc' = [pc EXCEPT ![c] = "done"] /\ answer' = [answer EXCEPT ![c] = s]
    BY <1>4 DEF ReleaseAndReply
  <2>2. TypeOK'
    BY <1>1, <2>1 DEF LockInv, TypeOK, PCs
  <2>3. RequestKnown'
    BY <1>1, <1>2, <2>1 DEF LockInv, TypeOK, RequestKnown, Initiating, Finalizing
  <2>4. MutualExclusion'
    BY <1>1, <2>1 DEF LockInv, TypeOK, MutualExclusion, Holds, Holding, IdOf
  <2>5. QueueIsWaiters'
    BY <1>1, <2>1 DEF LockInv, TypeOK, QueueIsWaiters, IdOf, Holds, Holding
  <2>. QED
    BY <2>2, <2>3, <2>4, <2>5 DEF LockInv
<1>. QED
  BY <1>3, <1>4

LEMMA HandlerReleases ==
  ASSUME LockInv, NEW c \in Calls,
         FinishInitiate(c) \/ RefuseMissing(c) \/ RefuseFinalized(c) \/ FinishFinalize(c)
  PROVE  /\ Holds(c) /\ UNCHANGED <<store, request, seen, bygone>>
         /\ \E s \in Answers \ {"none", "lost", "400"} : ReleaseAndReply(c, s)
  BY DEF FinishInitiate, InitiateAnswer, RefuseMissing, RefuseFinalized, FinishFinalize,
         Holds, Holding, Answers

LEMMA StepLockInv ==
  ASSUME LockInv, [Next]_vars
  PROVE  LockInv'
<1>1. ASSUME NEW c \in Calls, RejectPayload(c)
      PROVE  LockInv'
  <2>1. /\ pc[c] = "idle" /\ pc' = [pc EXCEPT ![c] = "done"]
        /\ answer' = [answer EXCEPT ![c] = "400"]
        /\ store' = store /\ locked' = locked /\ queue' = queue
        /\ request' = request /\ seen' = seen /\ bygone' = bygone
    BY <1>1 DEF RejectPayload, lockVars
  <2>2. TypeOK'
    BY <2>1 DEF LockInv, TypeOK, PCs, Answers
  <2>3. RequestKnown'
    BY <2>1 DEF LockInv, TypeOK, RequestKnown, Initiating, Finalizing
  <2>4. MutualExclusion'
    <3>1. \A d \in Calls : (Holds(d)' <=> Holds(d)) /\ IdOf(d)' = IdOf(d)
      BY <2>1 DEF LockInv, TypeOK, Holds, Holding, IdOf
    <3>2. MutualExclusion
      BY DEF LockInv
    <3> HIDE DEF Holds, IdOf
    <3>. QED
      BY <2>1, <3>1, <3>2 DEF MutualExclusion
  <2>5. QueueIsWaiters'
    <3>1. /\ \A d \in Calls : (pc'[d] = "waiting" <=> pc[d] = "waiting") /\ IdOf(d)' = IdOf(d)
      BY <2>1 DEF LockInv, TypeOK, IdOf
    <3>2. QueueIsWaiters
      BY DEF LockInv
    <3>. QED
      BY <2>1, <3>1, <3>2 DEF QueueIsWaiters
  <2>. QED
    BY <2>2, <2>3, <2>4, <2>5 DEF LockInv
<1>2. ASSUME NEW c \in Calls, NEW q \in Requests, Acquire(c, q)
      PROVE  LockInv'
  BY <1>2, AcquireLockInv
<1>3. ASSUME NEW c \in Calls, HandlerStep(c)
      PROVE  LockInv'
  BY <1>3, InsideLockInv, HandlerReleases, ReleaseLockInv DEF HandlerStep
<1>4. CASE Restart
  <2>1. TypeOK' /\ RequestKnown'
    BY <1>4 DEF Restart, LockInv, TypeOK, RequestKnown, PCs, Running, Holding, Answers
  <2>2. MutualExclusion' /\ QueueIsWaiters'
    BY <1>4 DEF Restart, MutualExclusion, QueueIsWaiters, Holds, Holding
  <2>. QED
    BY <2>1, <2>2 DEF LockInv
<1>5. CASE UNCHANGED vars
  BY <1>5 DEF vars, LockInv, TypeOK, RequestKnown, MutualExclusion, QueueIsWaiters, Holds,
              IdOf, Initiating, Finalizing
<1>. QED
  BY <1>1, <1>2, <1>3, <1>4, <1>5 DEF Next

\* Every step preserves the invariant of the locks.
THEOREM LockInvariant == Spec => []LockInv
  BY InitLockInv, StepLockInv, PTL DEF Spec

\* Every variable keeps its type.
THEOREM TypeCorrect == Spec => []TypeOK
  BY LockInvariant, PTL DEF LockInv

\* The mutex of a transferId has at most one call inside, and is locked
\* exactly while one is.
THEOREM MutexExcludes == Spec => []MutualExclusion
  BY LockInvariant, PTL DEF LockInv

\* No waiting call is forgotten by the queue of its mutex.
THEOREM NobodyForgotten == Spec => []QueueIsWaiters
  BY LockInvariant, PTL DEF LockInv

\* A mutex is opened only when nobody waits for it, and nobody queues at an open one.
WaitersFindItLocked == \A c \in Calls : pc[c] = "waiting" => locked[IdOf(c)]

LEMMA ReleaseKeepsLocked ==
  ASSUME LockInv, WaitersFindItLocked, NEW c \in Calls, Holds(c), NEW s \in Answers,
         ReleaseAndReply(c, s), UNCHANGED <<store, request, seen, bygone>>
  PROVE  WaitersFindItLocked'
<1> DEFINE i == IdOf(c)
<1>1. i \in TransferIds /\ queue[i] \in Seq(Calls) /\ pc[c] # "waiting"
  BY RunningId DEF Holds, Running, Holding, LockInv, TypeOK
<1>2. ASSUME NEW d \in Calls, pc'[d] = "waiting"
      PROVE  pc[d] = "waiting" /\ IdOf(d) \in TransferIds /\ IdOf(d)' = IdOf(d)
  <2>1. pc[d] = "waiting"
    BY <1>2 DEF ReleaseAndReply, LockInv, TypeOK
  <2> QED BY <2>1, RunningId DEF Running, IdOf
<1>3. CASE queue[i] # <<>>
  BY <1>2, <1>3 DEF ReleaseAndReply, WaitersFindItLocked
<1>4. CASE queue[i] = <<>>
  <2>1. locked' = [locked EXCEPT ![i] = FALSE]
    BY <1>4 DEF ReleaseAndReply
  <2>2. \A d \in Calls : pc[d] = "waiting" => IdOf(d) # i
    BY <1>1, <1>4 DEF LockInv, QueueIsWaiters
  <2> QED BY <1>2, <2>1, <2>2 DEF WaitersFindItLocked, LockInv, TypeOK
<1> QED BY <1>3, <1>4

\* While a call waits for a mutex some call is inside: no wake-up is ever lost.
THEOREM NobodyWaitsForNobody == Spec => []WaitersHaveHolder
<1>1. Init => WaitersFindItLocked
  BY DEF Init, WaitersFindItLocked
<1>2. ASSUME LockInv, WaitersFindItLocked, [Next]_vars PROVE WaitersFindItLocked'
  <2>1. ASSUME NEW c \in Calls, RejectPayload(c) PROVE WaitersFindItLocked'
    BY <1>2, <2>1 DEF RejectPayload, WaitersFindItLocked, LockInv, TypeOK, lockVars, IdOf
  <2>2. ASSUME NEW c \in Calls, NEW q \in Requests, Acquire(c, q) PROVE WaitersFindItLocked'
    <3>1. /\ q.id \in TransferIds /\ pc[c] = "idle"
          /\ request'[c] = q /\ \A d \in Calls \ {c} : request'[d] = request[d] /\ pc'[d] = pc[d]
      BY <1>2, <2>2 DEF Acquire, Requests, LockInv, TypeOK
    <3>2. /\ \A j \in TransferIds : locked[j] => locked'[j]
          /\ pc'[c] = "waiting" => locked'[q.id]
      BY <1>2, <2>2, <3>1 DEF Acquire, Free, LockInv, TypeOK
    <3>3. \A d \in Calls \ {c} : pc[d] = "waiting" => IdOf(d) \in TransferIds
      BY <1>2, RunningId DEF Running
    <3> QED BY <1>2, <3>1, <3>2, <3>3 DEF WaitersFindItLocked, IdOf
  <2>3. ASSUME NEW c \in Calls, Insert(c) \/ Read(c) \/ Write(c) PROVE WaitersFindItLocked'
    BY <1>2, <2>3 DEF Insert, Read, Write, WaitersFindItLocked, LockInv, TypeOK, lockVars, IdOf
  <2>4. ASSUME NEW c \in Calls,
               FinishInitiate(c) \/ RefuseMissing(c) \/ RefuseFinalized(c) \/ FinishFinalize(c)
        PROVE  WaitersFindItLocked'
    BY <1>2, <2>4, HandlerReleases, ReleaseKeepsLocked
  <2>5. CASE Restart
    BY <2>5 DEF Restart, WaitersFindItLocked
  <2>6. CASE UNCHANGED vars
    BY <1>2, <2>6 DEF vars, WaitersFindItLocked, IdOf
  <2> QED BY <1>2, <2>1, <2>2, <2>3, <2>4, <2>5, <2>6 DEF Next, HandlerStep
<1>3. LockInv /\ WaitersFindItLocked => WaitersHaveHolder
  <2> SUFFICES ASSUME LockInv, WaitersFindItLocked, NEW c \in Calls, pc[c] = "waiting"
               PROVE  \E d \in Calls : Holds(d) /\ IdOf(d) = IdOf(c)
    BY DEF WaitersHaveHolder
  <2>1. IdOf(c) \in TransferIds /\ locked[IdOf(c)]
    BY RunningId DEF Running, WaitersFindItLocked
  <2> QED BY <2>1 DEF LockInv, MutualExclusion
<1> QED BY <1>1, <1>2, <1>3, LockInvariant, PTL DEF Spec
-----------------------------------------------------------------------------
(* The inductive invariant of the transfers *)

\* What finalize read under the mutex is what the store still holds.
SeenIsCurrent ==
  \A c \in Calls : pc[c] = "read" => seen[c] = store[IdOf(c)]

\* A success was answered to a call of the right kind.
AnsweredInKind ==
  \A c \in Calls :
    /\ answer[c] = "201" => Initiating(c)
    /\ answer[c] = "200" => Finalizing(c)

DataInv ==
  /\ SeenIsCurrent
  /\ AnsweredInKind
  /\ OneWinner
  /\ WinnerIsStored

LEMMA InitDataInv == Init => DataInv
  BY DEF Init, DataInv, SeenIsCurrent, AnsweredInKind, OneWinner, WinnerIsStored, Created,
         Finalized

\* A call that created or finalised a transfer has a request of that kind.
LEMMA WinnerKind ==
  ASSUME LockInv, DataInv, NEW c \in Calls
  PROVE  /\ Created(c) => Initiating(c) /\ request[c] \in Requests
         /\ Finalized(c) => Finalizing(c) /\ request[c] \in Requests
  BY DEF LockInv, RequestKnown, DataInv, AnsweredInKind, Created, Finalized

LEMMA InsertDataInv ==
  ASSUME LockInv, DataInv, NEW c \in Calls, Insert(c)
  PROVE  DataInv'
<1>1. /\ pc[c] = "granted" /\ answer[c] = "none" /\ c \notin bygone /\ Holds(c) /\ Initiating(c)
      /\ IdOf(c) \in TransferIds /\ UNCHANGED <<request, seen, answer, bygone>>
  BY RunningId DEF Insert, Running, Holding, Holds
<1>2. CASE store[IdOf(c)] = NoTransfer
  <2>1. /\ store' = [store EXCEPT ![IdOf(c)] = [deal |-> request[c].deal, state |-> "PENDING"]]
        /\ pc' = [pc EXCEPT ![c] = "inserted"]
    BY <1>2 DEF Insert
  <2>2. \A d \in Calls : IdOf(d) = IdOf(c) => ~Created(d) /\ ~Finalized(d)
    BY <1>2, WinnerKind DEF DataInv, WinnerIsStored, Finalizing, Finals, NoTransfer
  <2>3. \A d \in Calls : /\ IdOf(d)' = IdOf(d)
                         /\ Created(d)' <=> d = c \/ Created(d)
                         /\ Finalized(d)' <=> Finalized(d)
    BY <1>1, <2>1 DEF LockInv, TypeOK, Created, Finalized, IdOf
  <2>4. SeenIsCurrent'
    BY <1>1, <2>1
       DEF DataInv, SeenIsCurrent, LockInv, TypeOK, MutualExclusion, Holds, Holding, IdOf
  <2>5. AnsweredInKind'
    BY <1>1 DEF DataInv, AnsweredInKind, Initiating, Finalizing
  <2>6. OneWinner'
    BY <2>2, <2>3 DEF DataInv, OneWinner
  <2>7. WinnerIsStored'
    <3> SUFFICES ASSUME NEW d \in Calls
                 PROVE  /\ Created(d)' => /\ store'[IdOf(d)] # NoTransfer
                                          /\ store'[IdOf(d)].deal = request[d].deal
                        /\ Finalized(d)' => store'[IdOf(d)].state = request[d].op
      BY <1>1 DEF WinnerIsStored, IdOf
    <3>1. CASE d = c
      BY <1>1, <2>1, <2>2, <2>3, <3>1 DEF LockInv, TypeOK, NoTransfer
    <3>2. CASE d # c /\ (Created(d) \/ Finalized(d))
      <4>1. IdOf(d) # IdOf(c)
        BY <2>2, <3>2
      <4>2. store'[IdOf(d)] = store[IdOf(d)]
        BY <2>1, <4>1, <3>2, WinnerKind DEF LockInv, TypeOK, IdOf, Requests
      <4>. QED
        BY <2>3, <3>2, <4>2 DEF DataInv, WinnerIsStored
    <3>. QED
      BY <2>3, <3>1, <3>2
  <2>. QED
    BY <2>4, <2>5, <2>6, <2>7 DEF DataInv
<1>3. CASE store[IdOf(c)] # NoTransfer
  BY <1>1, <1>3, SMTT(30)
     DEF Insert, LockInv, TypeOK, DataInv, SeenIsCurrent, AnsweredInKind, OneWinner,
         WinnerIsStored, Created, Finalized, IdOf, Initiating, Finalizing
<1>. QED
  BY <1>2, <1>3

LEMMA WriteDataInv ==
  ASSUME LockInv, DataInv, NEW c \in Calls, Write(c)
  PROVE  DataInv'
<1>1. /\ pc[c] = "read" /\ answer[c] = "none" /\ c \notin bygone /\ Holds(c) /\ Finalizing(c)
      /\ IdOf(c) \in TransferIds /\ UNCHANGED <<request, seen, answer, bygone>>
      /\ request[c] \in Requests
  BY RunningId DEF Write, Running, Holding, Holds, LockInv, RequestKnown
<1>2. /\ store' = [store EXCEPT ![IdOf(c)] = [deal |-> seen[c].deal, state |-> request[c].op]]
      /\ pc' = [pc EXCEPT ![c] = "written"]
  BY DEF Write
<1>3. store[IdOf(c)] = seen[c] /\ seen[c].state = "PENDING"
  BY <1>1 DEF DataInv, SeenIsCurrent, Write, Pending
<1>4. \A d \in Calls : IdOf(d) = IdOf(c) => ~Finalized(d)
  BY <1>3, WinnerKind DEF DataInv, WinnerIsStored, Finalizing, Finals
<1>5. \A d \in Calls : /\ IdOf(d)' = IdOf(d)
                       /\ Finalized(d)' <=> d = c \/ Finalized(d)
                       /\ Created(d)' <=> Created(d)
  BY <1>1, <1>2 DEF LockInv, TypeOK, Created, Finalized, IdOf
<1>6. SeenIsCurrent'
  BY <1>1, <1>2
     DEF DataInv, SeenIsCurrent, LockInv, TypeOK, MutualExclusion, Holds, Holding, IdOf
<1>7. AnsweredInKind'
  BY <1>1 DEF DataInv, AnsweredInKind, Initiating, Finalizing
<1>8. OneWinner'
  BY <1>4, <1>5 DEF DataInv, OneWinner
<1>9. WinnerIsStored'
  <2> SUFFICES ASSUME NEW d \in Calls
               PROVE  /\ Created(d)' => /\ store'[IdOf(d)] # NoTransfer
                                        /\ store'[IdOf(d)].deal = request[d].deal
                      /\ Finalized(d)' => store'[IdOf(d)].state = request[d].op
    BY <1>1 DEF WinnerIsStored, IdOf
  <2>1. /\ store'[IdOf(c)].deal = store[IdOf(c)].deal
        /\ store'[IdOf(c)].state = request[c].op /\ store'[IdOf(c)].state \in Finals
    BY <1>1, <1>2, <1>3 DEF LockInv, TypeOK, Finalizing
  <2>2. store'[IdOf(c)] # NoTransfer
    BY <2>1 DEF NoTransfer, Finals
  <2>3. CASE IdOf(d) = IdOf(c)
    BY <1>4, <1>5, <2>1, <2>2, <2>3 DEF DataInv, WinnerIsStored
  <2>4. CASE IdOf(d) # IdOf(c) /\ (Created(d) \/ Finalized(d))
    <3>1. store'[IdOf(d)] = store[IdOf(d)]
      BY <1>2, <2>4, WinnerKind DEF LockInv, TypeOK, IdOf, Requests
    <3>. QED
      BY <1>5, <2>4, <3>1 DEF DataInv, WinnerIsStored
  <2>. QED
    BY <1>5, <2>3, <2>4
<1>. QED
  BY <1>6, <1>7, <1>8, <1>9 DEF DataInv

\* The outcome of each call, without the CASE.
LEMMA OutcomeOf ==
  ASSUME NEW c \in Calls
  PROVE  /\ pc[c] = "inserted" => Outcome(c) = "201"
         /\ pc[c] = "conflict" => Outcome(c) = "409"
         /\ pc[c] = "read" /\ seen[c] = NoTransfer => Outcome(c) = "404"
         /\ pc[c] = "read" /\ seen[c].state \in Finals => Outcome(c) \in {"404", "409"}
         /\ pc[c] = "read" /\ seen[c] # NoTransfer /\ seen[c].state \in Finals => Outcome(c) = "409"
         /\ pc[c] = "read" /\ seen[c].state = "PENDING" => Outcome(c) = answer[c]
         /\ pc[c] = "written" => Outcome(c) = "200"
         /\ pc[c] \notin {"inserted", "conflict", "read", "written"} => Outcome(c) = answer[c]
  BY DEF Outcome, NoTransfer, Finals

\* What a release changes: the call is answered, one waiter is let in.
LEMMA ReleaseShape ==
  ASSUME LockInv, NEW c \in Calls,
         FinishInitiate(c) \/ RefuseMissing(c) \/ RefuseFinalized(c) \/ FinishFinalize(c)
  PROVE  /\ UNCHANGED <<store, request, seen, bygone>> /\ pc'[c] = "done"
         /\ Outcome(c) = answer'[c]
         /\ answer'[c] = "201" <=> pc[c] = "inserted"
         /\ answer'[c] = "200" <=> pc[c] = "written"
         /\ \A d \in Calls : d # c =>
              /\ answer'[d] = answer[d]
              /\ pc'[d] = pc[d] \/ (pc[d] = "waiting" /\ pc'[d] = "granted")
<1>1. /\ UNCHANGED <<store, request, seen, bygone>> /\ Holds(c) /\ answer[c] = "none"
      /\ IdOf(c) \in TransferIds
  BY HandlerReleases, RunningId DEF Holds, Running
<1>2. PICK s \in Answers : ReleaseAndReply(c, s)
  BY HandlerReleases
<1>3. /\ s = "201" <=> pc[c] = "inserted"
      /\ s = "200" <=> pc[c] = "written"
      /\ Outcome(c) = s
  BY <1>1, <1>2, OutcomeOf
     DEF ReleaseAndReply, FinishInitiate, InitiateAnswer, RefuseMissing, RefuseFinalized,
         FinishFinalize, LockInv, TypeOK, Pending, Transfers
<1>4. /\ answer' = [answer EXCEPT ![c] = s] /\ pc'[c] = "done"
      /\ \A d \in Calls : d # c => pc'[d] = pc[d] \/ (pc[d] = "waiting" /\ pc'[d] = "granted")
  <2>1. CASE queue[IdOf(c)] # <<>>
    <3>1. Oldest(queue[IdOf(c)]) \in Calls /\ queue[IdOf(c)][1] = Oldest(queue[IdOf(c)])
          /\ 1 \in 1..Len(queue[IdOf(c)])
      BY <1>1, <2>1 DEF Oldest, LockInv, TypeOK
    <3>2. pc[Oldest(queue[IdOf(c)])] = "waiting" /\ Oldest(queue[IdOf(c)]) # c
      BY <1>1, <3>1 DEF LockInv, QueueIsWaiters, Holds, Holding
    <3>. QED
      BY <1>2, <2>1, <3>1, <3>2 DEF ReleaseAndReply, LockInv, TypeOK
  <2>2. CASE queue[IdOf(c)] = <<>>
    BY <1>2, <2>2 DEF ReleaseAndReply, LockInv, TypeOK
  <2>. QED
    BY <2>1, <2>2
<1>. QED
  BY <1>1, <1>3, <1>4 DEF LockInv, TypeOK

\* Releasing the mutex tells the winner what it already is.
LEMMA ReleaseDataInv ==
  ASSUME LockInv, DataInv, NEW c \in Calls,
         FinishInitiate(c) \/ RefuseMissing(c) \/ RefuseFinalized(c) \/ FinishFinalize(c)
  PROVE  DataInv'
<1>1. pc[c] \in Running
  BY HandlerReleases DEF Holds, Running
<1>2. answer[c] = "none" /\ c \notin bygone
  BY <1>1, RunningId
<1>3. \A d \in Calls : (Created(d)' <=> Created(d)) /\ (Finalized(d)' <=> Finalized(d))
  BY <1>2, ReleaseShape DEF Created, Finalized
<1>4. SeenIsCurrent'
  BY ReleaseShape DEF DataInv, SeenIsCurrent, IdOf
<1>5. AnsweredInKind'
  BY ReleaseShape DEF DataInv, AnsweredInKind, LockInv, RequestKnown, Initiating, Finalizing
<1>6. OneWinner' /\ WinnerIsStored'
  BY ReleaseShape, <1>3 DEF DataInv, OneWinner, WinnerIsStored, IdOf
<1>. QED
  BY <1>4, <1>5, <1>6 DEF DataInv

LEMMA StepDataInv ==
  ASSUME LockInv, DataInv, [Next]_vars
  PROVE  DataInv'
<1> USE DEF DataInv, SeenIsCurrent, AnsweredInKind, OneWinner, WinnerIsStored, Created,
         Finalized, IdOf, Initiating, Finalizing, LockInv, TypeOK, RequestKnown
<1>1. ASSUME NEW c \in Calls, RejectPayload(c)
      PROVE  DataInv'
  BY <1>1 DEF RejectPayload
<1>2. ASSUME NEW c \in Calls, NEW q \in Requests, Acquire(c, q)
      PROVE  DataInv'
  <2>1. /\ pc[c] = "idle" /\ answer[c] = "none" /\ pc'[c] \in {"granted", "waiting"}
        /\ UNCHANGED <<store, seen, answer, bygone>>
        /\ \A d \in Calls : d # c => pc'[d] = pc[d] /\ request'[d] = request[d]
    BY <1>2 DEF Acquire
  <2>2. SeenIsCurrent' /\ AnsweredInKind'
    <3> HIDE DEF LockInv, TypeOK, RequestKnown, OneWinner, WinnerIsStored, Created, Finalized
    <3>1. SeenIsCurrent'
      BY <2>1
    <3>2. AnsweredInKind'
      BY <2>1
    <3>. QED
      BY <3>1, <3>2
  <2>3. /\ ~Created(c) /\ ~Finalized(c) /\ ~Created(c)' /\ ~Finalized(c)'
        /\ \A d \in Calls : d # c => (Created(d)' <=> Created(d)) /\ (Finalized(d)' <=> Finalized(d))
    BY <2>1
  <2>4. OneWinner' /\ WinnerIsStored'
    <3> HIDE DEF Created, Finalized, LockInv, TypeOK, RequestKnown
    <3>1. OneWinner'
      BY <2>1, <2>3
    <3>2. WinnerIsStored'
      BY <2>1, <2>3
    <3>. QED
      BY <3>1, <3>2
  <2>. QED
    BY <2>2, <2>4
<1>3. ASSUME NEW c \in Calls, HandlerStep(c)
      PROVE  DataInv'
  <2>1. CASE Read(c)
    <3>1. /\ pc[c] = "granted" /\ seen' = [seen EXCEPT ![c] = store[IdOf(c)]]
          /\ pc' = [pc EXCEPT ![c] = "read"]
          /\ UNCHANGED <<store, request, answer, bygone>>
      BY <2>1 DEF Read
    <3>2. SeenIsCurrent'
      BY <3>1
    <3>3. AnsweredInKind'
      BY <3>1
    <3>4. \A d \in Calls : (Created(d)' => Created(d)) /\ (Finalized(d)' => Finalized(d))
      BY <3>1
    <3>5. OneWinner' /\ WinnerIsStored'
      <4> HIDE DEF Created, Finalized
      <4>. QED
        BY <3>1, <3>4
    <3>. QED
      BY <3>2, <3>3, <3>5
  <2>. QED
    BY <1>3, <2>1, InsertDataInv, WriteDataInv, ReleaseDataInv DEF HandlerStep
<1>4. CASE Restart
  BY <1>4 DEF Restart
<1>5. CASE UNCHANGED vars
  BY <1>5 DEF vars
<1>. QED
  BY <1>1, <1>2, <1>3, <1>4, <1>5 DEF Next

\* Every step preserves the invariant of the transfers.
THEOREM DataInvariant == Spec => [](LockInv /\ DataInv)
<1>1. LockInv /\ DataInv /\ [Next]_vars => DataInv'
  BY StepDataInv
<1>. QED
  BY <1>1, InitDataInv, LockInvariant, PTL DEF Spec

\* At most one call creates a transfer and at most one finalises it.
THEOREM OneCallWins == Spec => []OneWinner
  BY DataInvariant, PTL DEF DataInv

\* The outcome the winner was told is the one that is stored.
THEOREM WinnersAreStored == Spec => []WinnerIsStored
  BY DataInvariant, PTL DEF DataInv
-----------------------------------------------------------------------------
(* Finality and order *)

\* A final transfer, and whom a transfer is between, stay until a restart.
THEOREM FinalStaysFinal == Spec => FinalityUntilRestart
<1>1. ASSUME LockInv, DataInv, [Next]_vars, NEW i \in TransferIds
      PROVE  \/ store[i] = NoTransfer
             \/ \A j \in TransferIds : store'[j] = NoTransfer
             \/ /\ store'[i] # NoTransfer
                /\ store'[i].deal = store[i].deal
                /\ store[i].state \in Finals => store'[i] = store[i]
  <2>1. ASSUME NEW c \in Calls, Insert(c)
        PROVE  store[i] = NoTransfer \/ store'[i] = store[i]
    BY <1>1, <2>1 DEF Insert, LockInv, TypeOK
  <2>2. ASSUME NEW c \in Calls, Write(c)
        PROVE  /\ store'[i].state # "absent"
               /\ store'[i].deal = store[i].deal
               /\ store[i].state \in Finals => store'[i] = store[i]
               \/ store'[i] = store[i]
    <3>1. seen[c] = store[IdOf(c)] /\ seen[c].state = "PENDING"
      BY <1>1, <2>2 DEF Write, Pending, DataInv, SeenIsCurrent
    <3>2. request[c].op \in Finals
      BY <1>1, <2>2 DEF Write, LockInv, RequestKnown, Finalizing
    <3>. QED
      BY <1>1, <2>2, <3>1, <3>2 DEF Write, LockInv, TypeOK, Finals
  <2>3. ASSUME NEW c \in Calls, HandlerStep(c), ~Insert(c), ~Write(c)
        PROVE  store' = store
    BY <1>1, <2>3, HandlerReleases DEF HandlerStep, Read
  <2>4. ASSUME NEW c \in Calls,
               RejectPayload(c) \/ (\E q \in Requests : Acquire(c, q)) \/ UNCHANGED vars
        PROVE  store' = store
    BY <2>4 DEF RejectPayload, Acquire, vars
  <2>5. CASE Restart
    BY <2>5 DEF Restart
  <2>6. CASE UNCHANGED vars
    BY <2>6 DEF vars
  <2>. QED
    BY <1>1, <2>1, <2>2, <2>3, <2>4, <2>5, <2>6 DEF Next, NoTransfer
<1>2. LockInv /\ DataInv /\ [Next]_vars =>
        [\A i \in TransferIds :
           \/ store[i] = NoTransfer
           \/ \A j \in TransferIds : store'[j] = NoTransfer
           \/ /\ store'[i] # NoTransfer
              /\ store'[i].deal = store[i].deal
              /\ store[i].state \in Finals => store'[i] = store[i]]_vars
  BY <1>1
<1>. QED
  BY <1>2, DataInvariant, PTL DEF Spec, FinalityUntilRestart

\* The call a release lets in is the one that has waited longest.
THEOREM NobodyOvertakes == Spec => Fifo
<1>1. ASSUME LockInv, [Next]_vars, NEW i \in TransferIds,
             NEW k \in 1..Len(queue[i]), NEW l \in 1..Len(queue[i]),
             k < l, pc'[queue[i][l]] = "granted"
      PROVE  pc'[queue[i][k]] # "waiting"
  <2>1. /\ queue[i] \in Seq(Calls) /\ queue[i][k] \in Calls /\ queue[i][l] \in Calls
        /\ pc[queue[i][l]] = "waiting" /\ IdOf(queue[i][l]) = i
    BY <1>1 DEF LockInv, TypeOK, QueueIsWaiters
  <2>2. ASSUME NEW c \in Calls,
               FinishInitiate(c) \/ RefuseMissing(c) \/ RefuseFinalized(c) \/ FinishFinalize(c)
        PROVE  FALSE
    <3>1. PICK s \in Answers : ReleaseAndReply(c, s)
      BY <1>1, <2>2, HandlerReleases
    <3>2. IdOf(c) \in TransferIds /\ pc[c] # "waiting"
      BY <1>1, <2>2, HandlerReleases, RunningId DEF Holds, Running, Holding
    <3>3. queue[IdOf(c)] # <<>> /\ queue[i][l] = Head(queue[IdOf(c)])
      BY <1>1, <2>1, <3>1, <3>2 DEF ReleaseAndReply, Oldest, LockInv, TypeOK
    <3>4. queue[IdOf(c)] \in Seq(Calls)
      BY <1>1, <3>2 DEF LockInv, TypeOK
    <3>5. 1 \in 1..Len(queue[IdOf(c)]) /\ queue[IdOf(c)][1] = queue[i][l]
      BY <3>3, <3>4
    <3>6. IdOf(c) = i
      BY <1>1, <2>1, <3>2, <3>5 DEF LockInv, QueueIsWaiters
    <3>7. l = 1
      BY <1>1, <3>5, <3>6 DEF LockInv, QueueIsWaiters
    <3>. QED
      BY <1>1, <3>7
  <2>3. ASSUME NEW c \in Calls, NEW q \in Requests, Acquire(c, q)
        PROVE  FALSE
    <3>1. pc[c] = "idle" /\ \A d \in Calls : d # c => pc'[d] = pc[d]
      BY <1>1, <2>3 DEF Acquire, LockInv, TypeOK
    <3>. QED
      BY <1>1, <2>1, <3>1
  <2>4. ASSUME NEW c \in Calls, RejectPayload(c) \/ Insert(c) \/ Read(c) \/ Write(c)
        PROVE  FALSE
    <3>1. pc'[queue[i][l]] \in {"done", "inserted", "conflict", "read", "written", "waiting"}
      BY <1>1, <2>1, <2>4 DEF RejectPayload, Insert, Read, Write, LockInv, TypeOK
    <3>. QED
      BY <1>1, <3>1
  <2>5. CASE Restart \/ UNCHANGED vars
    BY <1>1, <2>1, <2>5 DEF Restart, vars, LockInv, TypeOK
  <2>. QED
    BY <1>1, <2>2, <2>3, <2>4, <2>5 DEF Next, HandlerStep
<1>2. LockInv /\ [Next]_vars =>
        [\A i \in TransferIds : \A k, l \in 1..Len(queue[i]) :
           k < l /\ pc'[queue[i][l]] = "granted" => pc'[queue[i][k]] # "waiting"]_vars
  BY <1>1
<1>. QED
  BY <1>2, LockInvariant, PTL DEF Spec, Fifo
-----------------------------------------------------------------------------
(* The service implements AtomicTransfer *)

stateBar == [i \in TransferIds |-> store[i].state]
outcomeBar == [c \in Calls |-> Outcome(c)]

LEMMA InitRefines == Init => Atomic!TransferInit
  BY DEF Init, Atomic!TransferInit, Outcome, NoTransfer

LEMMA OutcomeOfPrimed ==
  ASSUME NEW c \in Calls
  PROVE  /\ pc'[c] = "inserted" => Outcome(c)' = "201"
         /\ pc'[c] = "conflict" => Outcome(c)' = "409"
         /\ pc'[c] = "read" /\ seen'[c] = NoTransfer => Outcome(c)' = "404"
         /\ pc'[c] = "read" /\ seen'[c] # NoTransfer /\ seen'[c].state \in Finals => Outcome(c)' = "409"
         /\ pc'[c] = "read" /\ seen'[c].state = "PENDING" => Outcome(c)' = answer'[c]
         /\ pc'[c] = "written" => Outcome(c)' = "200"
         /\ pc'[c] \notin {"inserted", "conflict", "read", "written"} => Outcome(c)' = answer'[c]
  BY DEF Outcome, NoTransfer, Finals

\* A step that changes no record and no outcome is a stutter.
LEMMA QuietStep ==
  ASSUME UNCHANGED store, \A d \in Calls : Outcome(d)' = Outcome(d)
  PROVE  UNCHANGED Atomic!transferVars
<1>1. stateBar' = stateBar /\ outcomeBar' = outcomeBar
  BY DEF stateBar, outcomeBar
<1>. QED
  BY <1>1 DEF stateBar, outcomeBar, Atomic!transferVars

\* A step that decides one call's outcome and leaves the records is a refusal.
LEMMA Refusal ==
  ASSUME NEW c \in Calls, NEW s, Outcome(c) = "none", Outcome(c)' = s,
         \A d \in Calls : d # c => Outcome(d)' = Outcome(d), UNCHANGED store
  PROVE  Atomic!Refuse(c, s)
<1>1. outcomeBar[c] = "none" /\ outcomeBar' = [outcomeBar EXCEPT ![c] = s]
  BY DEF outcomeBar
<1>2. stateBar' = stateBar
  BY DEF stateBar
<1>. QED
  BY <1>1, <1>2 DEF Atomic!Refuse, Atomic!Settle, outcomeBar, stateBar

\* The outcome of a call nobody touches stays.
LEMMA Untouched ==
  ASSUME NEW c \in Calls, pc'[c] = pc[c], seen'[c] = seen[c], answer'[c] = answer[c]
  PROVE  Outcome(c)' = Outcome(c)
  BY DEF Outcome

LEMMA InsertRefines ==
  ASSUME LockInv, NEW c \in Calls, Insert(c)
  PROVE  Atomic!TransferNext
<1>1. /\ pc[c] = "granted" /\ answer[c] = "none" /\ IdOf(c) \in TransferIds
      /\ UNCHANGED <<seen, answer, bygone>>
  BY RunningId DEF Insert, Running, Holding
<1>2. Outcome(c) = "none"
  BY <1>1, OutcomeOf
<1>3. \A d \in Calls : d # c => Outcome(d)' = Outcome(d)
  BY <1>1, Untouched DEF Insert, LockInv, TypeOK
<1>4. CASE store[IdOf(c)] = NoTransfer
  <2>0. pc'[c] = "inserted" /\ store[IdOf(c)].state = "absent"
        /\ store' = [store EXCEPT ![IdOf(c)] = [deal |-> request[c].deal, state |-> "PENDING"]]
    BY <1>1, <1>4 DEF Insert, LockInv, TypeOK, NoTransfer
  <2>1. pc'[c] = "inserted" /\ stateBar[IdOf(c)] = "absent"
        /\ stateBar' = [stateBar EXCEPT ![IdOf(c)] = "PENDING"]
    BY <1>1, <2>0 DEF LockInv, TypeOK, stateBar
  <2>2. outcomeBar[c] = "none" /\ outcomeBar' = [outcomeBar EXCEPT ![c] = "201"]
    BY <1>2, <1>3, <2>1, OutcomeOfPrimed DEF outcomeBar
  <2>3. PICK i \in TransferIds : IdOf(c) = i
    BY <1>1
  <2>4. Atomic!Create(c, i)
    BY <2>1, <2>2, <2>3 DEF Atomic!Create, Atomic!Settle, stateBar, outcomeBar
  <2>. QED
    BY <2>4 DEF Atomic!TransferNext, Atomic!CallStep
<1>5. CASE store[IdOf(c)] # NoTransfer
  <2>1. pc'[c] = "conflict" /\ UNCHANGED store
    BY <1>5 DEF Insert, LockInv, TypeOK
  <2>2. stateBar[IdOf(c)] # "absent"
    BY <1>1, <1>5 DEF LockInv, TypeOK, Transfers, Finals, stateBar
  <2>3. Atomic!Refuse(c, "409")
    BY <1>2, <1>3, <2>1, OutcomeOfPrimed, Refusal
  <2>. QED
    BY <1>1, <2>2, <2>3 DEF Atomic!TransferNext, Atomic!CallStep, stateBar
<1>. QED
  BY <1>4, <1>5

LEMMA ReadRefines ==
  ASSUME LockInv, NEW c \in Calls, Read(c)
  PROVE  [Atomic!TransferNext]_(Atomic!transferVars)
<1>1. /\ pc[c] = "granted" /\ answer[c] = "none" /\ IdOf(c) \in TransferIds
      /\ pc'[c] = "read" /\ seen'[c] = store[IdOf(c)] /\ UNCHANGED <<store, answer, bygone>>
  BY RunningId DEF Read, Running, Holding, LockInv, TypeOK
<1>2. Outcome(c) = "none"
  BY <1>1, OutcomeOf
<1>3. \A d \in Calls : d # c => Outcome(d)' = Outcome(d)
  BY <1>1, Untouched DEF Read, LockInv, TypeOK
<1>4. CASE store[IdOf(c)] = NoTransfer
  <2>1. Atomic!Refuse(c, "404")
    BY <1>1, <1>2, <1>3, <1>4, OutcomeOfPrimed, Refusal
  <2>2. stateBar[IdOf(c)] = "absent"
    BY <1>1, <1>4 DEF stateBar, NoTransfer
  <2>. QED
    BY <1>1, <2>1, <2>2 DEF Atomic!TransferNext, Atomic!CallStep, stateBar
<1>5. CASE store[IdOf(c)] # NoTransfer /\ store[IdOf(c)].state \in Finals
  <2>1. Atomic!Refuse(c, "409")
    BY <1>1, <1>2, <1>3, <1>5, OutcomeOfPrimed, Refusal
  <2>2. stateBar[IdOf(c)] # "absent"
    BY <1>1, <1>5 DEF stateBar, Finals
  <2>. QED
    BY <1>1, <2>1, <2>2 DEF Atomic!TransferNext, Atomic!CallStep, stateBar
<1>6. CASE store[IdOf(c)].state = "PENDING"
  BY <1>1, <1>2, <1>3, <1>6, OutcomeOfPrimed, QuietStep
<1>7. store[IdOf(c)] \in Transfers \cup {NoTransfer}
  BY <1>1 DEF LockInv, TypeOK
<1>. QED
  BY <1>4, <1>5, <1>6, <1>7 DEF Transfers

LEMMA WriteRefines ==
  ASSUME LockInv, DataInv, NEW c \in Calls, Write(c)
  PROVE  Atomic!TransferNext
<1>1. /\ pc[c] = "read" /\ answer[c] = "none" /\ IdOf(c) \in TransferIds
      /\ pc'[c] = "written" /\ request[c].op \in Finals /\ UNCHANGED <<seen, answer, bygone>>
      /\ seen[c].state = "PENDING" /\ seen[c] = store[IdOf(c)]
  BY RunningId DEF Write, Running, Holding, LockInv, TypeOK, RequestKnown, Finalizing, Pending,
                   DataInv, SeenIsCurrent
<1>2. Outcome(c) = "none" /\ Outcome(c)' = "200"
  BY <1>1, OutcomeOf, OutcomeOfPrimed
<1>3. \A d \in Calls : d # c => Outcome(d)' = Outcome(d)
  BY <1>1, Untouched DEF Write, LockInv, TypeOK
<1>4. outcomeBar[c] = "none" /\ outcomeBar' = [outcomeBar EXCEPT ![c] = "200"]
  BY <1>2, <1>3 DEF outcomeBar
<1>5. stateBar[IdOf(c)] = "PENDING" /\ stateBar' = [stateBar EXCEPT ![IdOf(c)] = request[c].op]
  BY <1>1 DEF Write, LockInv, TypeOK, stateBar
<1>6. PICK i \in TransferIds, final \in {"ACCEPTED", "CANCELLED"} :
        IdOf(c) = i /\ request[c].op = final
  BY <1>1 DEF Finals
<1>7. Atomic!Finalize(c, i, final)
  BY <1>4, <1>5, <1>6 DEF Atomic!Finalize, Atomic!Settle, stateBar, outcomeBar
<1>. QED
  BY <1>7 DEF Atomic!TransferNext, Atomic!CallStep

LEMMA RestartRefines ==
  ASSUME LockInv, Restart
  PROVE  Atomic!TransferNext
<1> DEFINE untold == {c \in Calls : pc[c] \in Running}
<1>1. ASSUME NEW c \in Calls
      PROVE  Outcome(c)' = IF pc[c] \in Running THEN "lost" ELSE Outcome(c)
  <2>1. pc[c] \in Running \cup {"idle", "done"} /\ pc'[c] \in {"idle", "done"}
    BY DEF LockInv, TypeOK, PCs, Restart
  <2>2. Outcome(c)' = answer'[c]
    BY <2>1, OutcomeOfPrimed
  <2>3. pc[c] \notin Running => Outcome(c) = answer[c]
    BY <2>1, OutcomeOf
  <2>4. answer'[c] = IF pc[c] \in Running THEN "lost" ELSE answer[c]
    BY DEF Restart
  <2>. QED
    BY <2>2, <2>3, <2>4
<1>2. stateBar' = [i \in TransferIds |-> "absent"]
  BY DEF Restart, stateBar, NoTransfer
<1>3. outcomeBar' = [c \in Calls |-> IF c \in untold THEN "lost" ELSE outcomeBar[c]]
  BY <1>1 DEF outcomeBar
<1>4. untold \in SUBSET Calls
  OBVIOUS
<1> HIDE DEF untold
<1>5. Atomic!Forget
  BY <1>2, <1>3, <1>4 DEF Atomic!Forget, stateBar, outcomeBar
<1>. QED
  BY <1>5 DEF Atomic!TransferNext

LEMMA StepRefines ==
  ASSUME LockInv, DataInv, [Next]_vars
  PROVE  [Atomic!TransferNext]_(Atomic!transferVars)
<1>1. ASSUME NEW c \in Calls, RejectPayload(c)
      PROVE  Atomic!TransferNext
  <2>1. Outcome(c) = "none" /\ Outcome(c)' = "400"
    BY <1>1, OutcomeOf, OutcomeOfPrimed DEF RejectPayload, LockInv, TypeOK, RequestKnown
  <2>2. \A d \in Calls : d # c => Outcome(d)' = Outcome(d)
    BY <1>1, Untouched DEF RejectPayload, LockInv, TypeOK
  <2>3. Atomic!Refuse(c, "400")
    BY <1>1, <2>1, <2>2, Refusal DEF RejectPayload
  <2>. QED
    BY <2>3 DEF Atomic!TransferNext, Atomic!CallStep
<1>2. ASSUME NEW c \in Calls, NEW q \in Requests, Acquire(c, q)
      PROVE  UNCHANGED Atomic!transferVars
  <2>1. pc[c] = "idle" /\ pc'[c] \in {"granted", "waiting"} /\ UNCHANGED <<store, seen, answer, bygone>>
        /\ \A d \in Calls : d # c => pc'[d] = pc[d]
    BY <1>2 DEF Acquire, LockInv, TypeOK
  <2>2. \A d \in Calls : Outcome(d)' = Outcome(d)
    BY <2>1, Untouched, OutcomeOf, OutcomeOfPrimed
  <2>. QED
    BY <2>1, <2>2, QuietStep
<1>3. ASSUME NEW c \in Calls,
             FinishInitiate(c) \/ RefuseMissing(c) \/ RefuseFinalized(c) \/ FinishFinalize(c)
      PROVE  UNCHANGED Atomic!transferVars
  <2>1. /\ UNCHANGED <<store, request, seen, bygone>> /\ pc'[c] = "done" /\ Outcome(c) = answer'[c]
        /\ \A d \in Calls : d # c =>
             /\ answer'[d] = answer[d]
             /\ pc'[d] = pc[d] \/ (pc[d] = "waiting" /\ pc'[d] = "granted")
    BY <1>3, ReleaseShape
  <2>2. \A d \in Calls : Outcome(d)' = Outcome(d)
    BY <2>1, Untouched, OutcomeOf, OutcomeOfPrimed
  <2>. QED
    BY <2>1, <2>2, QuietStep
<1>4. ASSUME NEW c \in Calls, HandlerStep(c)
      PROVE  [Atomic!TransferNext]_(Atomic!transferVars)
  BY <1>3, <1>4, InsertRefines, ReadRefines, WriteRefines DEF HandlerStep
<1>5. CASE UNCHANGED vars
  BY <1>5, Untouched, QuietStep DEF vars
<1>. QED
  BY <1>1, <1>2, <1>4, <1>5, RestartRefines DEF Next

\* The service implements the atomic transfer.
THEOREM TransferIsAtomic == Spec => ImplementsAtomicTransfer
<1>1. LockInv /\ DataInv /\ [Next]_vars => [Atomic!TransferNext]_(Atomic!transferVars)
  BY StepRefines
<1>. QED
  BY <1>1, InitRefines, DataInvariant, PTL
     DEF Spec, ImplementsAtomicTransfer, Atomic!TransferSpec
=============================================================================
