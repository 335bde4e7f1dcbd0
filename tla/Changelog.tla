------------------------------- MODULE Changelog -------------------------------
(***************************************************************************)
(* ChangelogService (services/changelog.service.ts) and its routes         *)
(* (routes/changelog.ts): the write-once audit log of one resource.        *)
(*                                                                         *)
(* One action is one run of a handler between two awaits.  An entry is its *)
(* author and its rank in the order of the service's timestamps, which is  *)
(* the order listings are in.                                              *)
(***************************************************************************)
EXTENDS Integers, FiniteSets

CONSTANTS
  LogCalls,   \* HTTP requests
  EntryIds,   \* entryIds
  PageLimit,  \* the limit of a listing
  Offsets     \* the offsets asked for

ASSUME ChangelogAssumption == PageLimit \in Nat \ {0} /\ Offsets \subseteq Nat

VARIABLES
  entries,    \* InMemoryChangelogStore: entryId -> entry
  stamped,    \* how many timestamps were given
  news,       \* the last event emitted about each id
  logPc,      \* where each call's handler is suspended
  logRequest, \* what each call asks for
  logSeen,    \* what each call read, held across awaits
  logMade,    \* the entry each call stored
  logAnswer,  \* what each call was answered
  listing,    \* the length of the page each listing read; history: the entries
              \* beyond it, and how many others were removed since
  contended,  \* history: ids that two calls have worked on at once
  bygone      \* history: calls that began before the last restart

logVars == <<entries, stamped, news, logPc, logRequest, logSeen, logMade, logAnswer,
             listing, contended, bygone>>

NoEntry == [by |-> "none"]
LogEntries == [by : LogCalls, rank : Nat]
NoNews == [type |-> "none"]

LogRequests == [op : {"append", "record", "remove"}, id : EntryIds]
                 \cup [op : {"list"}, offset : Offsets]
NoLogRequest == [op |-> "none"]
AtWork == {"recording", "appending", "stored", "removing", "deleted"}

Present(log) == {i \in EntryIds : log[i] # NoEntry}

LogId(c) == logRequest[c].id
OnId(c, i) == logPc[c] \in AtWork /\ LogId(c) = i

ChangelogInit ==
  /\ entries = [i \in EntryIds |-> NoEntry]
  /\ stamped = 0
  /\ news = [i \in EntryIds |-> NoNews]
  /\ logPc = [c \in LogCalls |-> "idle"]
  /\ logRequest = [c \in LogCalls |-> NoLogRequest]
  /\ logSeen = [c \in LogCalls |-> NoEntry]
  /\ logMade = [c \in LogCalls |-> NoEntry]
  /\ logAnswer = [c \in LogCalls |-> "none"]
  /\ contended = {}
  /\ bygone = {}
  /\ listing = [c \in LogCalls |-> [length |-> 0, left |-> {}, removed |-> 0]]

LogReply(c, status) ==
  /\ logPc' = [logPc EXCEPT ![c] = "done"]
  /\ logAnswer' = [logAnswer EXCEPT ![c] = status]

LogGoto(c, l) ==
  /\ logPc' = [logPc EXCEPT ![c] = l]
  /\ UNCHANGED logAnswer

\* An invalid payload is refused before anything is read, an update always is.
RefuseAtOnce(c) ==
  /\ logPc[c] = "idle"
  /\ LogReply(c, "400") \/ LogReply(c, "409")
  /\ UNCHANGED <<entries, stamped, news, logRequest, logSeen, logMade, listing>>

\* The first run of append, record and remove looks the id up.
BeginOnId(c, op, i) ==
  /\ logPc[c] = "idle"
  /\ logRequest' = [logRequest EXCEPT ![c] = [op |-> op, id |-> i]]
  /\ logSeen' = [logSeen EXCEPT ![c] = entries[i]]
  /\ LogGoto(c, CASE op = "append" -> "appending"
                  [] op = "record" -> "recording"
                  [] OTHER -> "removing")
  /\ UNCHANGED <<entries, stamped, news, logMade, listing>>
-----------------------------------------------------------------------------
(* appendEntry and recordMoneyMovement *)

\* recordMoneyMovement hands out the entry it found, or appends one.
ReturnRecorded(c) ==
  /\ logPc[c] = "recording"
  /\ logSeen[c] # NoEntry
  /\ LogReply(c, "200")
  /\ UNCHANGED <<entries, stamped, news, logRequest, logSeen, logMade, listing>>

AppendRecord(c) ==
  /\ logPc[c] = "recording"
  /\ logSeen[c] = NoEntry
  /\ logSeen' = [logSeen EXCEPT ![c] = entries[LogId(c)]]
  /\ LogGoto(c, "appending")
  /\ UNCHANGED <<entries, stamped, news, logRequest, logMade, listing>>

RefuseDuplicateEntry(c) ==
  /\ logPc[c] = "appending"
  /\ logSeen[c] # NoEntry
  /\ LogReply(c, "409")
  /\ UNCHANGED <<entries, stamped, news, logRequest, logSeen, logMade, listing>>

\* Variant: the duplicate check is left out.
StoreOverwriting(c) ==
  /\ logPc[c] = "appending"
  /\ stamped' = stamped + 1
  /\ logMade' = [logMade EXCEPT ![c] = [by |-> c, rank |-> stamped']]
  /\ entries' = [entries EXCEPT ![LogId(c)] = logMade'[c]]
  /\ LogGoto(c, "stored")
  /\ UNCHANGED <<news, logRequest, logSeen, listing>>

StoreEntry(c) ==
  /\ logPc[c] = "appending"
  /\ logSeen[c] = NoEntry
  /\ stamped' = stamped + 1
  /\ logMade' = [logMade EXCEPT ![c] = [by |-> c, rank |-> stamped']]
  /\ entries' = [entries EXCEPT ![LogId(c)] = logMade'[c]]
  /\ LogGoto(c, "stored")
  /\ UNCHANGED <<news, logRequest, logSeen, listing>>

EmitAppended(c) ==
  /\ logPc[c] = "stored"
  /\ news' = [news EXCEPT ![LogId(c)] =
                [type |-> "ENTRY_APPENDED", entry |-> logMade[c]]]
  /\ LogReply(c, "201")
  /\ UNCHANGED <<entries, stamped, logRequest, logSeen, logMade, listing>>
-----------------------------------------------------------------------------
(* removeEntry *)

RefuseMissing(c) ==
  /\ logPc[c] = "removing"
  /\ logSeen[c] = NoEntry
  /\ LogReply(c, "404")
  /\ UNCHANGED <<entries, stamped, news, logRequest, logSeen, logMade, listing>>

\* Whatever the id holds by now is deleted.
DeleteEntry(c) ==
  /\ logPc[c] = "removing"
  /\ logSeen[c] # NoEntry
  /\ entries' = [entries EXCEPT ![LogId(c)] = NoEntry]
  /\ listing' = [x \in LogCalls |->
       IF logPc[x] # "counting" THEN listing[x]
       ELSE [length |-> listing[x].length,
             left |-> listing[x].left \ {LogId(c)},
             removed |-> listing[x].removed
               + (IF LogId(c) \in Present(entries) \ listing[x].left THEN 1 ELSE 0)]]
  /\ LogGoto(c, "deleted")
  /\ UNCHANGED <<stamped, news, logRequest, logSeen, logMade>>

\* What was read is announced as removed.
EmitRemoved(c) ==
  /\ logPc[c] = "deleted"
  /\ news' = [news EXCEPT ![LogId(c)] =
                [type |-> "ENTRY_REMOVED", entry |-> logSeen[c]]]
  /\ LogReply(c, "200")
  /\ UNCHANGED <<entries, stamped, logRequest, logSeen, logMade, listing>>
-----------------------------------------------------------------------------
(* GET /resource/:resourceId: a page, then a second listing for the total *)

Before(log, i) == {j \in Present(log) : log[j].rank < log[i].rank}

\* What a reader who has come to the end of this page has been shown.
ReadSoFar(log, offset) ==
  {i \in Present(log) : Cardinality(Before(log, i)) < offset + PageLimit}

ReadPage(c, offset) ==
  LET read == ReadSoFar(entries, offset)
  IN  /\ logPc[c] = "idle"
      /\ logRequest' = [logRequest EXCEPT ![c] = [op |-> "list", offset |-> offset]]
      /\ listing' = [listing EXCEPT ![c] =
           [length |-> Cardinality({i \in read : Cardinality(Before(entries, i)) >= offset}),
            left |-> Present(entries) \ read,
            removed |-> 0]]
      /\ LogGoto(c, "counting")
      /\ UNCHANGED <<entries, stamped, news, logSeen, logMade>>

\* Variant: there is more from two entries on.
HasTwoMore(offset, length, total) == offset + length + 1 < total

HasMore(offset, length, total) == offset + length < total

AnswerPage(c) ==
  /\ logPc[c] = "counting"
  /\ LogReply(c, IF HasMore(logRequest[c].offset, listing[c].length,
                            Cardinality(Present(entries)))
                 THEN "more" ELSE "end")
  /\ UNCHANGED <<entries, stamped, news, logRequest, logSeen, logMade, listing>>
-----------------------------------------------------------------------------
\* The log lives in the process; a call that was being handled loses its
\* connection, one that was answered keeps its answer.
LogRestart ==
  /\ entries' = [i \in EntryIds |-> NoEntry]
  /\ news' = [i \in EntryIds |-> NoNews]
  /\ logPc' = [c \in LogCalls |-> IF logPc[c] = "idle" THEN "idle" ELSE "done"]
  /\ logAnswer' = [c \in LogCalls |-> IF logPc[c] \in AtWork \cup {"counting"}
                                      THEN "lost" ELSE logAnswer[c]]
  /\ contended' = {}
  /\ bygone' = {c \in LogCalls : logPc[c] # "idle"}
  /\ UNCHANGED <<stamped, logRequest, logSeen, logMade, listing>>

LogStep(c) ==
  \/ RefuseAtOnce(c)
  \/ \E op \in {"append", "record", "remove"}, i \in EntryIds : BeginOnId(c, op, i)
  \/ ReturnRecorded(c) \/ AppendRecord(c) \/ RefuseDuplicateEntry(c) \/ StoreEntry(c)
  \/ EmitAppended(c) \/ RefuseMissing(c) \/ DeleteEntry(c) \/ EmitRemoved(c)
  \/ \E o \in Offsets : ReadPage(c, o)
  \/ AnswerPage(c)

\* The history is kept beside every step: a call that begins on an id while
\* another is at work on it contends for it.
WatchIds ==
  contended' = contended \cup
    {i \in EntryIds : \E b, c \in LogCalls :
       logPc[c] = "idle" /\ OnId(c, i)' /\ b # c /\ OnId(b, i)}

ChangelogNext ==
  \/ (\E c \in LogCalls : LogStep(c)) /\ WatchIds /\ UNCHANGED bygone
  \/ LogRestart

ChangelogSpec == ChangelogInit /\ [][ChangelogNext]_logVars
-----------------------------------------------------------------------------
(* Properties *)

LogTypes ==
  /\ entries \in [EntryIds -> LogEntries \cup {NoEntry}]
  /\ stamped \in Nat
  /\ news \in [EntryIds -> [type : {"ENTRY_APPENDED", "ENTRY_REMOVED"},
                            entry : LogEntries] \cup {NoNews}]
  /\ logPc \in [LogCalls -> AtWork \cup {"idle", "counting", "done"}]
  /\ logRequest \in [LogCalls -> LogRequests \cup {NoLogRequest}]
  /\ logSeen \in [LogCalls -> LogEntries \cup {NoEntry}]
  /\ logMade \in [LogCalls -> LogEntries \cup {NoEntry}]
  /\ logAnswer \in [LogCalls -> {"none", "200", "201", "400", "404", "409", "more",
                                 "end", "lost"}]

ChangelogTypeOK ==
  /\ LogTypes
  /\ listing \in [LogCalls -> [length : Nat, left : SUBSET EntryIds, removed : Nat]]
  /\ contended \subseteq EntryIds
  /\ bygone \subseteq LogCalls

\* What WriteOnceLog promises, an id that was contended for given up.
GivenUp == [type |-> "given up"]

Promise == INSTANCE WriteOnceLog
  WITH log <- [i \in EntryIds |-> IF i \in contended THEN NoEntry ELSE entries[i]],
       told <- [i \in EntryIds |-> IF i \in contended THEN GivenUp ELSE news[i]]

\* The service, between whose awaits other calls run, implements the write-once
\* log wherever no two calls worked on one id: no entry is replaced, each change
\* is announced as what it was, and in the order it was made.
ImplementsWriteOnceLog == Promise!LogSpec

\* Where no two calls worked on one id, an entry its author was told is stored
\* (201) is what the id holds, until a removal that read this very entry or a
\* restart, which loses the whole log.
ToldIsKept ==
  \A c \in LogCalls :
    logAnswer[c] = "201" /\ c \notin bygone /\ LogId(c) \notin contended =>
      \/ entries[LogId(c)] = logMade[c]
      \/ \E d \in LogCalls :
           logRequest[d] = [op |-> "remove", id |-> LogId(c)] /\ logSeen[d] = logMade[c]

\* A reader whose last page says there is no more has missed at most as many
\* entries as were removed while it was made, whatever was appended or removed
\* between the two listings the page and the total come from.
EndMissesOnlyRemovals ==
  \A c \in LogCalls :
    logAnswer[c] = "end" => Cardinality(listing[c].left) <= listing[c].removed
=============================================================================
