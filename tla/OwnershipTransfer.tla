-------------------------- MODULE OwnershipTransfer --------------------------
(***************************************************************************)
(* OwnershipTransferService (services/ownership-transfer.service.ts) and   *)
(* the three POST routes that call it (routes/transfers.ts).               *)
(*                                                                         *)
(* One action is one run of a handler between two awaits.  A call is one   *)
(* HTTP request.  The mutex of a transferId is a flag and a FIFO queue; it *)
(* is handed over without being unlocked.                                  *)
(***************************************************************************)
EXTENDS Naturals, Sequences

CONSTANTS
  Calls,        \* HTTP requests
  TransferIds,  \* chosen by the clients
  Deals         \* what an initiate call asks for: [escrowId, fromOwner, toOwner]

VARIABLES
  store,     \* InMemoryOwnershipStore: transferId -> OwnershipTransfer
  locked,    \* Lock.locked of each transferId
  queue,     \* Lock.queue of each transferId: the calls waiting for it
  pc,        \* where each call's handler is suspended
  request,   \* what each call asks for
  seen,      \* the transfer read by finalize, held across an await
  answer,    \* the HTTP status each call got, or that it was lost
  bygone     \* history: the calls that began before the last restart

lockVars == <<locked, queue>>
vars == <<store, locked, queue, pc, request, seen, answer, bygone>>
-----------------------------------------------------------------------------
(* Values *)

Finals == {"ACCEPTED", "CANCELLED"}
Transfers == [deal : Deals, state : {"PENDING"} \cup Finals]
NoTransfer == [state |-> "absent"]

Requests == [op : {"initiate"}, id : TransferIds, deal : Deals]
              \cup [op : Finals, id : TransferIds]
NoRequest == [op |-> "none"]

\* Inside the critical section of a transferId.
Holding == {"granted", "inserted", "conflict", "read", "written"}
Running == Holding \cup {"waiting"}
PCs == Running \cup {"idle", "done"}
Answers == {"none", "200", "201", "400", "404", "409", "lost"}

IdOf(c) == request[c].id
Initiating(c) == request[c].op = "initiate"
Finalizing(c) == request[c].op \in Finals
Holds(c) == pc[c] \in Holding
-----------------------------------------------------------------------------
Init ==
  /\ store = [i \in TransferIds |-> NoTransfer]
  /\ locked = [i \in TransferIds |-> FALSE]
  /\ queue = [i \in TransferIds |-> <<>>]
  /\ pc = [c \in Calls |-> "idle"]
  /\ request = [c \in Calls |-> NoRequest]
  /\ seen = [c \in Calls |-> NoTransfer]
  /\ answer = [c \in Calls |-> "none"]
  /\ bygone = {}

\* No verified user, or an incomplete payload: the mutex is never touched.
RejectPayload(c) ==
  /\ pc[c] = "idle"
  /\ pc' = [pc EXCEPT ![c] = "done"]
  /\ answer' = [answer EXCEPT ![c] = "400"]
  /\ UNCHANGED <<store, lockVars, request, seen, bygone>>
-----------------------------------------------------------------------------
(* The mutex *)

\* Variant: the flag is not looked at.
EnterAnyway(i) == TRUE

Free(i) == ~locked[i]

\* getLock and acquire run at once: the call takes the mutex or queues up.
Acquire(c, q) ==
  /\ pc[c] = "idle"
  /\ request' = [request EXCEPT ![c] = q]
  /\ \/ /\ Free(q.id)
        /\ locked' = [locked EXCEPT ![q.id] = TRUE]
        /\ pc' = [pc EXCEPT ![c] = "granted"]
        /\ UNCHANGED queue
     \/ /\ ~Free(q.id)
        /\ queue' = [queue EXCEPT ![q.id] = Append(@, c)]
        /\ pc' = [pc EXCEPT ![c] = "waiting"]
        /\ UNCHANGED locked
  /\ UNCHANGED <<store, seen, answer, bygone>>

\* Variant: the waiter that came last is served.
Newest(waiters) == waiters[Len(waiters)]

\* queue.shift()
Oldest(waiters) == Head(waiters)

\* Variant: the mutex is opened although calls are waiting for it.
ReleaseAndForget(c, status) ==
  /\ locked' = [locked EXCEPT ![IdOf(c)] = FALSE]
  /\ pc' = [pc EXCEPT ![c] = "done"]
  /\ answer' = [answer EXCEPT ![c] = status]
  /\ UNCHANGED queue

\* finally release(): the oldest waiter is resumed inside the mutex, which is
\* opened only if there is none.  The route answers.
ReleaseAndReply(c, status) ==
  /\ answer' = [answer EXCEPT ![c] = status]
  /\ \/ /\ queue[IdOf(c)] # <<>>
        /\ queue' = [queue EXCEPT ![IdOf(c)] = Tail(@)]
        /\ pc' = [pc EXCEPT ![c] = "done", ![Oldest(queue[IdOf(c)])] = "granted"]
        /\ UNCHANGED locked
     \/ /\ queue[IdOf(c)] = <<>>
        /\ locked' = [locked EXCEPT ![IdOf(c)] = FALSE]
        /\ pc' = [pc EXCEPT ![c] = "done"]
        /\ UNCHANGED queue
-----------------------------------------------------------------------------
(* initiateTransfer *)

\* insertIfAbsent tests and writes in one run.
Insert(c) ==
  /\ pc[c] = "granted"
  /\ Initiating(c)
  /\ \/ /\ store[IdOf(c)] = NoTransfer
        /\ store' = [store EXCEPT ![IdOf(c)] =
                       [deal |-> request[c].deal, state |-> "PENDING"]]
        /\ pc' = [pc EXCEPT ![c] = "inserted"]
     \/ /\ store[IdOf(c)] # NoTransfer
        /\ pc' = [pc EXCEPT ![c] = "conflict"]
        /\ UNCHANGED store
  /\ UNCHANGED <<lockVars, request, seen, answer, bygone>>

InitiateAnswer(c) == IF pc[c] = "inserted" THEN "201" ELSE "409"

FinishInitiate(c) ==
  /\ pc[c] \in {"inserted", "conflict"}
  /\ ReleaseAndReply(c, InitiateAnswer(c))
  /\ UNCHANGED <<store, request, seen, bygone>>
-----------------------------------------------------------------------------
(* finalize, for acceptTransfer and cancelTransfer *)

Read(c) ==
  /\ pc[c] = "granted"
  /\ Finalizing(c)
  /\ seen' = [seen EXCEPT ![c] = store[IdOf(c)]]
  /\ pc' = [pc EXCEPT ![c] = "read"]
  /\ UNCHANGED <<store, lockVars, request, answer, bygone>>

RefuseMissing(c) ==
  /\ pc[c] = "read"
  /\ seen[c] = NoTransfer
  /\ ReleaseAndReply(c, "404")
  /\ UNCHANGED <<store, request, seen, bygone>>

\* Variant: a transfer that is not there is refused, a final one is not.
Existing(t) == t # NoTransfer

Pending(t) == t.state = "PENDING"

RefuseFinalized(c) ==
  /\ pc[c] = "read"
  /\ seen[c] # NoTransfer
  /\ ~Pending(seen[c])
  /\ ReleaseAndReply(c, "409")
  /\ UNCHANGED <<store, request, seen, bygone>>

\* The record that was read, with its new state, is written back.
Write(c) ==
  /\ pc[c] = "read"
  /\ Pending(seen[c])
  /\ store' = [store EXCEPT ![IdOf(c)] =
                 [deal |-> seen[c].deal, state |-> request[c].op]]
  /\ pc' = [pc EXCEPT ![c] = "written"]
  /\ UNCHANGED <<lockVars, request, seen, answer, bygone>>

FinishFinalize(c) ==
  /\ pc[c] = "written"
  /\ ReleaseAndReply(c, "200")
  /\ UNCHANGED <<store, request, seen, bygone>>
-----------------------------------------------------------------------------
\* The store, the locks and every handler live in the process.  What finished
\* calls were told stays told, of a store that is gone.
Restart ==
  /\ store' = [i \in TransferIds |-> NoTransfer]
  /\ locked' = [i \in TransferIds |-> FALSE]
  /\ queue' = [i \in TransferIds |-> <<>>]
  /\ pc' = [c \in Calls |-> IF pc[c] = "idle" THEN "idle" ELSE "done"]
  /\ answer' = [c \in Calls |-> IF pc[c] \in Running THEN "lost" ELSE answer[c]]
  /\ bygone' = {c \in Calls : pc[c] # "idle"}
  /\ UNCHANGED <<request, seen>>

HandlerStep(c) ==
  \/ Insert(c) \/ FinishInitiate(c)
  \/ Read(c) \/ RefuseMissing(c) \/ RefuseFinalized(c)
  \/ Write(c) \/ FinishFinalize(c)

Next ==
  \/ \E c \in Calls :
       \/ RejectPayload(c)
       \/ \E q \in Requests : Acquire(c, q)
       \/ HandlerStep(c)
  \/ Restart

Spec == Init /\ [][Next]_vars

\* A handler that is resumed runs on: the event loop starves no continuation.
\* A waiting call has no step of its own; whether it is resumed is up to the
\* calls before it.
FairSpec == Spec /\ \A c \in Calls : WF_vars(HandlerStep(c))
-----------------------------------------------------------------------------
(* Properties *)

TypeOK ==
  /\ store \in [TransferIds -> Transfers \cup {NoTransfer}]
  /\ locked \in [TransferIds -> BOOLEAN]
  /\ queue \in [TransferIds -> Seq(Calls)]
  /\ pc \in [Calls -> PCs]
  /\ request \in [Calls -> Requests \cup {NoRequest}]
  /\ seen \in [Calls -> Transfers \cup {NoTransfer}]
  /\ answer \in [Calls -> Answers]
  /\ bygone \subseteq Calls

\* The mutex of a transferId, handed over while it stays locked, never has
\* two calls inside, and it is locked exactly while one is.
MutualExclusion ==
  \A i \in TransferIds :
    /\ locked[i] <=> \E c \in Calls : Holds(c) /\ IdOf(c) = i
    /\ \A c, d \in Calls : Holds(c) /\ IdOf(c) = i /\ Holds(d) /\ IdOf(d) = i => c = d

\* The queue of a mutex holds exactly the calls that wait for it, each once:
\* no call waits where no release will find it.
QueueIsWaiters ==
  \A i \in TransferIds :
    /\ \A c \in Calls :
         pc[c] = "waiting" /\ IdOf(c) = i <=> \E k \in 1..Len(queue[i]) : queue[i][k] = c
    /\ \A k, l \in 1..Len(queue[i]) : queue[i][k] = queue[i][l] => k = l

\* Nobody waits for nobody: while a call waits for a mutex some call is inside, who
\* will hand it on.
WaitersHaveHolder ==
  \A c \in Calls : pc[c] = "waiting" => \E d \in Calls : Holds(d) /\ IdOf(d) = IdOf(c)

\* No overtaking: a call is not let in while an older one still waits.
Fifo ==
  [][\A i \in TransferIds : \A k, l \in 1..Len(queue[i]) :
       k < l /\ pc'[queue[i][l]] = "granted" => pc'[queue[i][k]] # "waiting"]_vars

Created(c) == c \notin bygone /\ (pc[c] = "inserted" \/ answer[c] = "201")
Finalized(c) == c \notin bygone /\ (pc[c] = "written" \/ answer[c] = "200")

\* Of all the calls about one transfer that one process gets, at most one creates
\* it and at most one finalises it: accept and cancel never both succeed, nor
\* accept twice.
OneWinner ==
  \A c, d \in Calls :
    /\ \/ Created(c) /\ Created(d)
       \/ Finalized(c) /\ Finalized(d)
    /\ IdOf(c) = IdOf(d)
    => c = d

\* The winner's outcome is the one that is stored, and it stays stored.
WinnerIsStored ==
  \A c \in Calls :
    /\ Created(c) => store[IdOf(c)] # NoTransfer /\ store[IdOf(c)].deal = request[c].deal
    /\ Finalized(c) => store[IdOf(c)].state = request[c].op

\* Once ACCEPTED or CANCELLED, a transfer does not change until the process
\* stops, and whoever it is between does not change once it is created.
FinalityUntilRestart ==
  [][\A i \in TransferIds :
       \/ store[i] = NoTransfer
       \/ \A j \in TransferIds : store'[j] = NoTransfer
       \/ /\ store'[i] # NoTransfer
          /\ store'[i].deal = store[i].deal
          /\ store[i].state \in Finals => store'[i] = store[i]]_vars

\* Every call is answered, or lost to a restart: nobody waits forever.
EveryCallAnswered == \A c \in Calls : pc[c] \in Running ~> pc[c] = "done"

\* What a call's own step did, from the moment it was decided.
Outcome(c) ==
  CASE pc[c] = "inserted" -> "201"
    [] pc[c] = "conflict" -> "409"
    [] pc[c] = "read" /\ seen[c] = NoTransfer -> "404"
    [] pc[c] = "read" /\ seen[c].state \in Finals -> "409"
    [] pc[c] = "written" -> "200"
    [] OTHER -> answer[c]

Atomic == INSTANCE AtomicTransfer WITH
  state <- [i \in TransferIds |-> store[i].state],
  outcome <- [c \in Calls |-> Outcome(c)]

\* With its locks, queues and awaits the service implements AtomicTransfer.
ImplementsAtomicTransfer == Atomic!TransferSpec
=============================================================================
