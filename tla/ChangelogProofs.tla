---------------------------- MODULE ChangelogProofs ----------------------------
(***************************************************************************)
(* What holds of Changelog for all values of its constants: that it        *)
(* implements WriteOnceLog, and that what a caller was told is kept.       *)
(***************************************************************************)
EXTENDS Changelog, FiniteSetTheorems, WellFoundedInduction, TLAPS

\* What a handler holds where it is suspended.
Holding ==
  \A c \in LogCalls :
    /\ logPc[c] = "idle" => logRequest[c] = NoLogRequest
    /\ logPc[c] \in {"recording", "appending", "stored"} =>
         logRequest[c] \in [op : {"append", "record"}, id : EntryIds]
    /\ logPc[c] \in {"removing", "deleted"} =>
         logRequest[c] \in [op : {"remove"}, id : EntryIds]
    /\ logPc[c] = "stored" => logMade[c] \in LogEntries
    /\ logPc[c] = "deleted" => logSeen[c] \in LogEntries
    /\ logAnswer[c] = "201" =>
         /\ logPc[c] = "done" /\ logMade[c] \in LogEntries
         /\ logRequest[c] \in [op : {"append", "record"}, id : EntryIds]

Held == LogTypes /\ Holding

ShownNow(i) == Promise!Shown(news[i])

\* How the log and the last announcement stand to what call c is doing to id i.
InHand(c, i) ==
  /\ logPc[c] \in {"recording", "appending", "removing"} =>
       logSeen[c] = entries[i] /\ ShownNow(i) = entries[i]
  /\ logPc[c] = "stored" => entries[i] = logMade[c] /\ ShownNow(i) = NoEntry
  /\ logPc[c] = "deleted" => entries[i] = NoEntry /\ ShownNow(i) = logSeen[c]

\* At most one call works on an id that was not contended for, and when none
\* does the last announcement tells what the log holds.
Orderly ==
  \A i \in EntryIds \ contended :
    /\ \A b, c \in LogCalls : OnId(b, i) /\ OnId(c, i) => b = c
    /\ \A c \in LogCalls : OnId(c, i) => InHand(c, i)
    /\ (\A c \in LogCalls : ~OnId(c, i)) => ShownNow(i) = entries[i]

LogInv == Held /\ Orderly /\ ToldIsKept
-----------------------------------------------------------------------------
LEMMA LogValues ==
  /\ NoEntry \notin LogEntries
  /\ \A x : Promise!Shown(x) = IF x.type = "ENTRY_APPENDED" THEN x.entry ELSE NoEntry
  /\ NoNews.type # "ENTRY_APPENDED" /\ Promise!Shown(NoNews) = NoEntry
  /\ \A e : /\ Promise!Shown([type |-> "ENTRY_APPENDED", entry |-> e]) = e
            /\ Promise!Shown([type |-> "ENTRY_REMOVED", entry |-> e]) = NoEntry
<1>1. NoEntry \notin LogEntries
  BY DEF NoEntry, LogEntries
<1> QED BY <1>1 DEF Promise!Shown, NoNews

LEMMA LogInvInit == ChangelogInit => LogInv
<1> SUFFICES ASSUME ChangelogInit PROVE LogInv
  OBVIOUS
<1> USE DEF ChangelogInit
<1>1. Held
  BY DEF Held, LogTypes, Holding
<1>2. Orderly
  BY LogValues DEF Orderly, OnId, AtWork, ShownNow
<1>3. ToldIsKept
  BY DEF ToldIsKept
<1> QED BY <1>1, <1>2, <1>3 DEF LogInv

\* The steps of a handler that is under way, and what each does to its id.
Handles(c) ==
  \/ ReturnRecorded(c) \/ AppendRecord(c) \/ RefuseDuplicateEntry(c) \/ StoreEntry(c)
  \/ EmitAppended(c) \/ RefuseMissing(c) \/ DeleteEntry(c) \/ EmitRemoved(c)

LEMMA HeldStep == Held /\ [ChangelogNext]_logVars => Held'
<1> SUFFICES ASSUME Held, [ChangelogNext]_logVars PROVE Held'
  OBVIOUS
<1> USE DEF Held, LogTypes, Holding
<1>1. ASSUME NEW c \in LogCalls, RefuseAtOnce(c) PROVE Held'
  BY <1>1 DEF RefuseAtOnce, LogReply
<1>2. ASSUME NEW c \in LogCalls, NEW op \in {"append", "record", "remove"},
             NEW i \in EntryIds, BeginOnId(c, op, i)
      PROVE  Held'
  <2> DEFINE l == CASE op = "append" -> "appending"
                    [] op = "record" -> "recording"
                    [] OTHER -> "removing"
  <2>1. /\ op = "append" => l = "appending"
        /\ op = "record" => l = "recording"
        /\ op = "remove" => l = "removing"
    OBVIOUS
  <2>2. /\ logRequest' = [logRequest EXCEPT ![c] = [op |-> op, id |-> i]]
        /\ logSeen' = [logSeen EXCEPT ![c] = entries[i]]
        /\ logPc' = [logPc EXCEPT ![c] = l] /\ logPc[c] = "idle"
        /\ UNCHANGED <<entries, stamped, news, logMade, logAnswer>>
    BY <1>2 DEF BeginOnId, LogGoto
  <2>3. [op |-> op, id |-> i] \in LogRequests
    BY DEF LogRequests
  <2> HIDE DEF l
  <2> QED BY <2>1, <2>2, <2>3 DEF AtWork
<1>3. ASSUME NEW c \in LogCalls, Handles(c) PROVE Held'
  <2>1. CASE ReturnRecorded(c) \/ RefuseDuplicateEntry(c) \/ RefuseMissing(c)
    BY <2>1 DEF ReturnRecorded, RefuseDuplicateEntry, RefuseMissing, LogReply
  <2>2. CASE AppendRecord(c)
    <3>1. logPc[c] = "recording" /\ logRequest[c] \in [op : {"append", "record"}, id : EntryIds]
      BY <2>2 DEF AppendRecord
    <3>2. entries[LogId(c)] \in LogEntries \cup {NoEntry}
      BY <3>1 DEF LogId
    <3> QED BY <2>2, <3>1, <3>2 DEF AppendRecord, LogGoto, AtWork
  <2>3. CASE StoreEntry(c)
    <3>1. [by |-> c, rank |-> stamped + 1] \in LogEntries
      BY DEF LogEntries
    <3> DEFINE new == [by |-> c, rank |-> stamped + 1]
    <3>2. /\ logPc[c] = "appending" /\ stamped' = stamped + 1
          /\ logMade' = [logMade EXCEPT ![c] = new]
          /\ logPc' = [logPc EXCEPT ![c] = "stored"]
          /\ entries' = [entries EXCEPT ![LogId(c)] = new]
          /\ UNCHANGED <<news, logRequest, logSeen, logAnswer>>
      BY <2>3 DEF StoreEntry, LogGoto
    <3> HIDE DEF new
    <3>3. new \in LogEntries
      BY <3>1 DEF new
    <3>4. LogTypes'
      <4>1. entries' \in [EntryIds -> LogEntries \cup {NoEntry}]
        BY <3>2, <3>3
      <4>2. logMade' \in [LogCalls -> LogEntries \cup {NoEntry}]
        BY <3>2, <3>3
      <4>3. stamped' \in Nat
        BY <3>2
      <4>4. logPc' \in [LogCalls -> AtWork \cup {"idle", "counting", "done"}]
        BY <3>2 DEF AtWork
      <4> QED BY <3>2, <4>1, <4>2, <4>3, <4>4
    <3>5. Holding'
      BY <3>2, <3>3
    <3> QED BY <3>4, <3>5
  <2>4. CASE EmitAppended(c)
    BY <2>4 DEF EmitAppended, LogReply
  <2>5. CASE DeleteEntry(c)
    BY <2>5 DEF DeleteEntry, LogGoto, AtWork
  <2>6. CASE EmitRemoved(c)
    BY <2>6 DEF EmitRemoved, LogReply
  <2> QED BY <1>3, <2>1, <2>2, <2>3, <2>4, <2>5, <2>6 DEF Handles
<1>4. ASSUME NEW c \in LogCalls, NEW o \in Offsets, ReadPage(c, o) PROVE Held'
  <2>1. [op |-> "list", offset |-> o] \in LogRequests
    BY DEF LogRequests
  <2>2. /\ logRequest' = [logRequest EXCEPT ![c] = [op |-> "list", offset |-> o]]
        /\ logPc' = [logPc EXCEPT ![c] = "counting"] /\ logPc[c] = "idle"
        /\ UNCHANGED <<entries, stamped, news, logSeen, logMade, logAnswer>>
    BY <1>4 DEF ReadPage, LogGoto
  <2> QED BY <2>1, <2>2
<1>5. ASSUME NEW c \in LogCalls, AnswerPage(c) PROVE Held'
  <2>1. \E a \in {"more", "end"} : LogReply(c, a)
    BY <1>5 DEF AnswerPage
  <2>2. logPc[c] = "counting"
        /\ UNCHANGED <<entries, stamped, news, logRequest, logSeen, logMade>>
    BY <1>5 DEF AnswerPage
  <2> QED BY <2>1, <2>2 DEF LogReply
<1>6. CASE LogRestart
  BY <1>6 DEF LogRestart
<1>7. CASE UNCHANGED logVars
  BY <1>7 DEF logVars
<1> QED BY <1>1, <1>2, <1>3, <1>4, <1>5, <1>6, <1>7 DEF ChangelogNext, LogStep, Handles
-----------------------------------------------------------------------------
\* A handler's step stays within its own id, and contends for none.
LEMMA HandlerStep ==
  ASSUME Held, NEW c \in LogCalls, Handles(c), WatchIds
  PROVE  /\ OnId(c, LogId(c)) /\ LogId(c) \in EntryIds
         /\ contended' = contended /\ logRequest' = logRequest
         /\ \A x \in LogCalls \ {c} :
              /\ logPc'[x] = logPc[x] /\ logSeen'[x] = logSeen[x]
              /\ logMade'[x] = logMade[x] /\ logAnswer'[x] = logAnswer[x]
         /\ \A i \in EntryIds \ {LogId(c)} : entries'[i] = entries[i] /\ news'[i] = news[i]
<1> USE DEF Held, LogTypes
<1>1. logPc[c] \in AtWork /\ logRequest' = logRequest
  BY DEF Handles, ReturnRecorded, AppendRecord, RefuseDuplicateEntry, StoreEntry,
         EmitAppended, RefuseMissing, DeleteEntry, EmitRemoved, AtWork
<1>2. LogId(c) \in EntryIds /\ OnId(c, LogId(c))
  BY <1>1 DEF Holding, LogId, OnId, AtWork
<1>3. \A x \in LogCalls \ {c} :
        /\ logPc'[x] = logPc[x] /\ logSeen'[x] = logSeen[x]
        /\ logMade'[x] = logMade[x] /\ logAnswer'[x] = logAnswer[x]
  BY DEF Handles, ReturnRecorded, AppendRecord, RefuseDuplicateEntry, StoreEntry,
         EmitAppended, RefuseMissing, DeleteEntry, EmitRemoved, LogReply, LogGoto
<1>4. \A i \in EntryIds \ {LogId(c)} : entries'[i] = entries[i] /\ news'[i] = news[i]
  BY <1>2 DEF Handles, ReturnRecorded, AppendRecord, RefuseDuplicateEntry, StoreEntry,
         EmitAppended, RefuseMissing, DeleteEntry, EmitRemoved
<1>5. contended' = contended
  <2>1. ASSUME NEW x \in LogCalls, NEW i \in EntryIds, logPc[x] = "idle", OnId(x, i)'
        PROVE  FALSE
    BY <1>1, <1>3, <2>1 DEF OnId, AtWork
  <2> QED BY <2>1 DEF WatchIds
<1> QED BY <1>1, <1>2, <1>3, <1>4, <1>5

\* What a handler's step leaves of the id it works on.
LEMMA HandOver ==
  ASSUME Held, Orderly, NEW c \in LogCalls, Handles(c), LogId(c) \in EntryIds,
         LogId(c) \notin contended, OnId(c, LogId(c)), logRequest' = logRequest
  PROVE  /\ OnId(c, LogId(c))' => InHand(c, LogId(c))'
         /\ ~OnId(c, LogId(c))' => ShownNow(LogId(c))' = entries'[LogId(c)]
<1> DEFINE i == LogId(c)
<1>0. InHand(c, i) /\ i \in EntryIds /\ i' = i
  BY DEF Orderly, LogId
<1> USE DEF Held, LogTypes, ShownNow, InHand, AtWork
<1>1. CASE ReturnRecorded(c) \/ RefuseDuplicateEntry(c) \/ RefuseMissing(c)
  BY <1>0, <1>1 DEF ReturnRecorded, RefuseDuplicateEntry, RefuseMissing, LogReply, OnId
<1>2. CASE AppendRecord(c)
  BY <1>0, <1>2 DEF AppendRecord, LogGoto, OnId
<1>3. CASE StoreEntry(c)
  BY <1>0, <1>3 DEF StoreEntry, LogGoto, OnId
<1>4. CASE EmitAppended(c)
  BY <1>0, <1>4, LogValues DEF EmitAppended, LogReply, OnId
<1>5. CASE DeleteEntry(c)
  BY <1>0, <1>5 DEF DeleteEntry, LogGoto, OnId
<1>6. CASE EmitRemoved(c)
  BY <1>0, <1>6, LogValues DEF EmitRemoved, LogReply, OnId
<1> QED BY <1>1, <1>2, <1>3, <1>4, <1>5, <1>6 DEF Handles

\* A call that begins on an id finds it free, or the id is given up.
LEMMA BeginStep ==
  ASSUME Held, Orderly, NEW c \in LogCalls, NEW op \in {"append", "record", "remove"},
         NEW k \in EntryIds, BeginOnId(c, op, k), WatchIds
  PROVE  /\ contended \subseteq contended' /\ contended' \subseteq contended \cup {k}
         /\ k \notin contended' => \A x \in LogCalls : ~OnId(x, k)
         /\ OnId(c, k)' /\ logPc[c] = "idle"
         /\ logPc'[c] \in {"recording", "appending", "removing"}
         /\ logSeen'[c] = entries[k]
         /\ \A i : i # k => ~OnId(c, i)'
         /\ entries' = entries /\ news' = news
         /\ \A x \in LogCalls \ {c} :
              /\ logPc'[x] = logPc[x] /\ logSeen'[x] = logSeen[x]
              /\ logMade'[x] = logMade[x] /\ logRequest'[x] = logRequest[x]
<1> USE DEF Held, LogTypes
<1> DEFINE l == CASE op = "append" -> "appending"
                  [] op = "record" -> "recording"
                  [] OTHER -> "removing"
<1>1. l \in {"recording", "appending", "removing"}
  OBVIOUS
<1>2. /\ logRequest' = [logRequest EXCEPT ![c] = [op |-> op, id |-> k]]
      /\ logSeen' = [logSeen EXCEPT ![c] = entries[k]]
      /\ logPc' = [logPc EXCEPT ![c] = l] /\ logPc[c] = "idle"
      /\ UNCHANGED <<entries, news, logMade>>
  BY DEF BeginOnId, LogGoto
<1> HIDE DEF l
<1>3. logPc'[c] = l /\ logRequest'[c].id = k
  BY <1>2
<1>4. OnId(c, k)' /\ \A i : i # k => ~OnId(c, i)'
  BY <1>1, <1>3 DEF OnId, LogId, AtWork
<1>5. \A x \in LogCalls \ {c} :
        /\ logPc'[x] = logPc[x] /\ logSeen'[x] = logSeen[x]
        /\ logMade'[x] = logMade[x] /\ logRequest'[x] = logRequest[x]
  BY <1>2
<1>6. ASSUME NEW i \in EntryIds, NEW x \in LogCalls, logPc[x] = "idle", OnId(x, i)'
      PROVE  i = k
  BY <1>4, <1>5, <1>6 DEF OnId, AtWork
<1>7. contended \subseteq contended' /\ contended' \subseteq contended \cup {k}
  BY <1>6 DEF WatchIds
<1>8. ASSUME k \notin contended', NEW x \in LogCalls PROVE ~OnId(x, k)
  <2>1. ~OnId(c, k)
    BY <1>2 DEF OnId, AtWork
  <2> QED BY <1>2, <1>4, <1>8, <2>1 DEF WatchIds
<1> QED BY <1>1, <1>2, <1>3, <1>4, <1>5, <1>7, <1>8

\* The steps that neither touch an id nor begin on one.
LEMMA IdleStep ==
  ASSUME Held, NEW c \in LogCalls, WatchIds,
         \/ RefuseAtOnce(c) \/ AnswerPage(c) \/ \E o \in Offsets : ReadPage(c, o)
  PROVE  /\ UNCHANGED <<entries, news, contended, logSeen, logMade>>
         /\ \A x \in LogCalls \ {c} : logPc'[x] = logPc[x] /\ logRequest'[x] = logRequest[x]
         /\ logPc[c] \notin AtWork \cup {"done"} /\ logPc'[c] \notin AtWork
         /\ logAnswer'[c] # "201"
         /\ \A x \in LogCalls \ {c} : logAnswer'[x] = logAnswer[x]
<1> USE DEF Held, LogTypes
<1>1. /\ UNCHANGED <<entries, news, logSeen, logMade>>
      /\ \A x \in LogCalls \ {c} : logPc'[x] = logPc[x] /\ logRequest'[x] = logRequest[x]
      /\ logPc[c] \notin AtWork \cup {"done"} /\ logPc'[c] \notin AtWork
  <2>1. CASE RefuseAtOnce(c) \/ AnswerPage(c)
    BY <2>1 DEF RefuseAtOnce, AnswerPage, LogReply, AtWork
  <2>2. CASE \E o \in Offsets : ReadPage(c, o)
    BY <2>2 DEF ReadPage, LogGoto, AtWork
  <2> QED BY <2>1, <2>2
<1>2. /\ logAnswer'[c] # "201"
      /\ \A x \in LogCalls \ {c} : logAnswer'[x] = logAnswer[x]
  <2>1. CASE RefuseAtOnce(c)
    BY <2>1 DEF RefuseAtOnce, LogReply
  <2>2. CASE AnswerPage(c)
    <3>1. \E a \in {"more", "end"} : LogReply(c, a)
      BY <2>2 DEF AnswerPage
    <3> QED BY <3>1 DEF LogReply
  <2>3. CASE \E o \in Offsets : ReadPage(c, o)
    BY <1>1, <2>3 DEF ReadPage, LogGoto, Holding
  <2> QED BY <2>1, <2>2, <2>3
<1>3. contended' = contended
  <2>1. ASSUME NEW x \in LogCalls, NEW i, logPc[x] = "idle", OnId(x, i)' PROVE FALSE
    BY <1>1, <2>1 DEF OnId, AtWork
  <2> QED BY <2>1 DEF WatchIds
<1> QED BY <1>1, <1>2, <1>3

LEMMA OrderlyStep == Held /\ Orderly /\ [ChangelogNext]_logVars => Orderly'
<1> SUFFICES ASSUME Held, Orderly, [ChangelogNext]_logVars PROVE Orderly'
  OBVIOUS
<1> DEFINE At(i) == /\ \A b, x \in LogCalls : OnId(b, i) /\ OnId(x, i) => b = x
                    /\ \A x \in LogCalls : OnId(x, i) => InHand(x, i)
                    /\ (\A x \in LogCalls : ~OnId(x, i)) => ShownNow(i) = entries[i]
<1>1. ASSUME NEW c \in LogCalls, Handles(c), WatchIds,
             NEW i \in EntryIds \ contended'
      PROVE  At(i)'
  <2>1. /\ OnId(c, LogId(c)) /\ LogId(c) \in EntryIds
        /\ contended' = contended /\ logRequest' = logRequest
        /\ \A x \in LogCalls \ {c} :
             /\ logPc'[x] = logPc[x] /\ logSeen'[x] = logSeen[x]
             /\ logMade'[x] = logMade[x]
        /\ \A j \in EntryIds \ {LogId(c)} : entries'[j] = entries[j] /\ news'[j] = news[j]
    BY <1>1, HandlerStep
  <2>2. At(i)
    BY <1>1, <2>1 DEF Orderly
  <2>3. \A x \in LogCalls \ {c} : OnId(x, i)' <=> OnId(x, i)
    BY <2>1 DEF OnId, LogId
  <2>4. CASE LogId(c) = i
    <3>1. \A x \in LogCalls \ {c} : ~OnId(x, i)'
      BY <2>1, <2>2, <2>3, <2>4
    <3>2. /\ OnId(c, i)' => InHand(c, i)'
          /\ ~OnId(c, i)' => ShownNow(i)' = entries'[i]
      BY <1>1, <2>1, <2>4, HandOver DEF LogId
    <3> QED BY <3>1, <3>2
  <2>5. CASE LogId(c) # i
    <3>1. ~OnId(c, i) /\ ~OnId(c, i)'
      BY <2>1, <2>5 DEF OnId, LogId
    <3>2. ShownNow(i)' = ShownNow(i) /\ entries'[i] = entries[i]
      BY <1>1, <2>1, <2>5 DEF ShownNow
    <3>3. \A x \in LogCalls \ {c} : InHand(x, i) => InHand(x, i)'
      BY <2>1, <3>2 DEF InHand
    <3> QED BY <2>2, <2>3, <3>1, <3>2, <3>3
  <2> QED BY <2>4, <2>5
<1>2. ASSUME NEW c \in LogCalls, NEW op \in {"append", "record", "remove"},
             NEW k \in EntryIds, BeginOnId(c, op, k), WatchIds,
             NEW i \in EntryIds \ contended'
      PROVE  At(i)'
  <2>1. /\ contended \subseteq contended'
        /\ k \notin contended' => \A x \in LogCalls : ~OnId(x, k)
        /\ OnId(c, k)' /\ logPc[c] = "idle"
        /\ logPc'[c] \in {"recording", "appending", "removing"}
        /\ logSeen'[c] = entries[k]
        /\ \A j : j # k => ~OnId(c, j)'
        /\ entries' = entries /\ news' = news
        /\ \A x \in LogCalls \ {c} :
             /\ logPc'[x] = logPc[x] /\ logSeen'[x] = logSeen[x]
             /\ logMade'[x] = logMade[x] /\ logRequest'[x] = logRequest[x]
    BY <1>2, BeginStep
  <2>2. At(i) /\ ~OnId(c, i)
    BY <1>2, <2>1 DEF Orderly, OnId, AtWork
  <2>3. \A x \in LogCalls \ {c} : OnId(x, i)' <=> OnId(x, i)
    BY <2>1 DEF OnId, LogId
  <2>4. ShownNow(i)' = ShownNow(i) /\ entries'[i] = entries[i]
    BY <2>1 DEF ShownNow
  <2>5. \A x \in LogCalls \ {c} : InHand(x, i) => InHand(x, i)'
    BY <2>1, <2>4 DEF InHand
  <2>6. CASE i = k
    <3>1. ShownNow(i) = entries[i] /\ \A x \in LogCalls : ~OnId(x, i)
      BY <1>2, <2>1, <2>2, <2>6
    <3>2. InHand(c, i)'
      BY <2>1, <2>4, <2>6, <3>1 DEF InHand
    <3> QED BY <2>1, <2>3, <2>6, <3>1, <3>2
  <2>7. CASE i # k
    BY <2>1, <2>2, <2>3, <2>4, <2>5, <2>7
  <2> QED BY <2>6, <2>7
<1>3. ASSUME NEW c \in LogCalls, WatchIds, NEW i \in EntryIds \ contended',
             \/ RefuseAtOnce(c) \/ AnswerPage(c) \/ \E o \in Offsets : ReadPage(c, o)
      PROVE  At(i)'
  <2>1. /\ UNCHANGED <<entries, news, contended, logSeen, logMade>>
        /\ \A x \in LogCalls \ {c} : logPc'[x] = logPc[x] /\ logRequest'[x] = logRequest[x]
        /\ logPc[c] \notin AtWork /\ logPc'[c] \notin AtWork
    BY <1>3, IdleStep
  <2>2. At(i)
    BY <1>3, <2>1 DEF Orderly
  <2>3. \A x \in LogCalls : OnId(x, i)' <=> OnId(x, i)
    BY <2>1 DEF OnId, LogId
  <2>4. \A x \in LogCalls : OnId(x, i) /\ InHand(x, i) => InHand(x, i)'
    BY <2>1 DEF InHand, ShownNow, OnId
  <2> QED BY <2>1, <2>2, <2>3, <2>4 DEF ShownNow
<1>4. CASE LogRestart
  BY <1>4, LogValues DEF LogRestart, Held, LogTypes, Orderly, OnId, AtWork, ShownNow
<1>5. CASE UNCHANGED logVars
  BY <1>5 DEF logVars, Orderly, OnId, LogId, InHand, ShownNow
<1> HIDE DEF At
<1>6. (\A i \in EntryIds \ contended' : At(i)') => Orderly'
  BY DEF Orderly, At
<1> QED
  BY <1>1, <1>2, <1>3, <1>4, <1>5, <1>6 DEF ChangelogNext, LogStep, Handles
-----------------------------------------------------------------------------
(* What a caller was told is kept *)

\* That a removal read the entry m of id i.
ReadToRemove(i, m) ==
  \E d \in LogCalls : logRequest[d] = [op |-> "remove", id |-> i] /\ logSeen[d] = m

LEMMA ReadStays ==
  ASSUME Held, [ChangelogNext]_logVars, NEW i \in EntryIds, NEW m, ReadToRemove(i, m)
  PROVE  ReadToRemove(i, m)'
<1> USE DEF Held, LogTypes
<1>0. PICK d \in LogCalls : logRequest[d] = [op |-> "remove", id |-> i] /\ logSeen[d] = m
  BY DEF ReadToRemove
<1>1. logPc[d] # "idle" /\ logPc[d] \notin {"recording", "appending", "stored"}
  BY <1>0 DEF Holding, NoLogRequest
<1> SUFFICES logRequest'[d] = logRequest[d] /\ logSeen'[d] = logSeen[d]
  BY <1>0 DEF ReadToRemove
<1>2. ASSUME NEW c \in LogCalls, LogStep(c)
      PROVE  logRequest'[d] = logRequest[d] /\ logSeen'[d] = logSeen[d]
  BY <1>1, <1>2 DEF LogStep, RefuseAtOnce, BeginOnId, ReturnRecorded, AppendRecord,
     RefuseDuplicateEntry, StoreEntry, EmitAppended, RefuseMissing, DeleteEntry,
     EmitRemoved, ReadPage, AnswerPage
<1>3. CASE LogRestart
  BY <1>3 DEF LogRestart
<1>4. CASE UNCHANGED logVars
  BY <1>4 DEF logVars
<1> QED BY <1>2, <1>3, <1>4 DEF ChangelogNext

\* What the log does with an entry its author was told of.
LEMMA KeptStep ==
  ASSUME Held, Orderly, [ChangelogNext]_logVars, ~LogRestart, NEW x \in LogCalls,
         logAnswer[x] = "201", logAnswer'[x] = "201", LogId(x) \notin contended',
         LogId(x) \notin contended, entries[LogId(x)] = logMade[x]
  PROVE  \/ entries'[LogId(x)] = logMade[x]
         \/ ReadToRemove(LogId(x), logMade[x])
<1> USE DEF Held, LogTypes
<1> DEFINE i == LogId(x)
<1>0. i \in EntryIds /\ logMade[x] \in LogEntries /\ logMade[x] # NoEntry
  BY LogValues DEF Holding, LogId
<1>1. ASSUME NEW c \in LogCalls, Handles(c), WatchIds
      PROVE  entries'[i] = logMade[x] \/ ReadToRemove(i, logMade[x])
  <2>1. /\ OnId(c, LogId(c))
        /\ \A j \in EntryIds \ {LogId(c)} : entries'[j] = entries[j]
    BY <1>1, HandlerStep
  <2>2. CASE LogId(c) # i
    BY <1>0, <2>1, <2>2
  <2>3. CASE LogId(c) = i
    <3>1. InHand(c, i)
      BY <1>0, <2>1, <2>3 DEF Orderly
    <3>2. CASE DeleteEntry(c)
      <4>1. logSeen[c] = logMade[x] /\ logPc[c] = "removing"
        BY <3>1, <3>2 DEF DeleteEntry, InHand
      <4>2. logRequest[c] = [op |-> "remove", id |-> i]
        BY <2>3, <4>1 DEF Holding, LogId
      <4> QED BY <4>1, <4>2 DEF ReadToRemove
    <3>3. ~StoreEntry(c)
      BY <1>0, <3>1 DEF StoreEntry, InHand
    <3> QED
      BY <1>1, <3>2, <3>3 DEF Handles, ReturnRecorded, AppendRecord,
         RefuseDuplicateEntry, EmitAppended, RefuseMissing, EmitRemoved
  <2> QED BY <2>2, <2>3
<1>2. ASSUME NEW c \in LogCalls, NEW op \in {"append", "record", "remove"},
             NEW k \in EntryIds, BeginOnId(c, op, k)
      PROVE  entries'[i] = logMade[x]
  BY <1>2 DEF BeginOnId
<1>3. ASSUME NEW c \in LogCalls,
             \/ RefuseAtOnce(c) \/ AnswerPage(c) \/ \E o \in Offsets : ReadPage(c, o)
      PROVE  entries'[i] = logMade[x]
  BY <1>3 DEF RefuseAtOnce, AnswerPage, ReadPage
<1>4. CASE UNCHANGED logVars
  BY <1>4 DEF logVars
<1> QED BY <1>1, <1>2, <1>3, <1>4 DEF ChangelogNext, LogStep, Handles

\* Which callers are told that their entry is stored.
LEMMA TellStep ==
  ASSUME Held, [ChangelogNext]_logVars, NEW x \in LogCalls, logAnswer'[x] = "201",
         x \notin bygone'
  PROVE  /\ x \notin bygone /\ ~LogRestart
         /\ logRequest'[x] = logRequest[x] /\ logMade'[x] = logMade[x]
         /\ \/ logAnswer[x] = "201"
            \/ logPc[x] = "stored" /\ EmitAppended(x)
<1> USE DEF Held, LogTypes
<1>1. ASSUME NEW c \in LogCalls, Handles(c), WatchIds
      PROVE  /\ logRequest'[x] = logRequest[x] /\ logMade'[x] = logMade[x]
             /\ \/ logAnswer[x] = "201"
                \/ /\ logPc[x] = "stored" /\ EmitAppended(x)
  <2>1. CASE EmitAppended(c)
    BY <2>1 DEF EmitAppended, LogReply
  <2>2. CASE ReturnRecorded(c) \/ RefuseDuplicateEntry(c) \/ RefuseMissing(c) \/ EmitRemoved(c)
    BY <2>2 DEF ReturnRecorded, RefuseDuplicateEntry, RefuseMissing, EmitRemoved, LogReply
  <2>3. CASE AppendRecord(c) \/ DeleteEntry(c)
    BY <2>3 DEF AppendRecord, DeleteEntry, LogGoto
  <2>4. CASE StoreEntry(c)
    BY <2>4 DEF StoreEntry, LogGoto, Holding
  <2> QED BY <1>1, <2>1, <2>2, <2>3, <2>4 DEF Handles
<1>2. ASSUME NEW c \in LogCalls, NEW op \in {"append", "record", "remove"},
             NEW k \in EntryIds, BeginOnId(c, op, k)
      PROVE  /\ logRequest'[x] = logRequest[x] /\ logMade'[x] = logMade[x]
             /\ logAnswer[x] = "201"
  BY <1>2 DEF BeginOnId, LogGoto, Holding
<1>3. ASSUME NEW c \in LogCalls, WatchIds,
             \/ RefuseAtOnce(c) \/ AnswerPage(c) \/ \E o \in Offsets : ReadPage(c, o)
      PROVE  /\ logRequest'[x] = logRequest[x] /\ logMade'[x] = logMade[x]
             /\ logAnswer[x] = "201"
  BY <1>3, IdleStep
<1>4. ~LogRestart
  BY DEF LogRestart, Holding
<1>5. x \notin bygone
  BY <1>4 DEF ChangelogNext, logVars
<1>6. CASE UNCHANGED logVars
  BY <1>4, <1>5, <1>6 DEF logVars
<1>7. UNCHANGED logVars \/ \E c \in LogCalls : LogStep(c) /\ WatchIds
  BY <1>4 DEF ChangelogNext
<1> HIDE DEF Held, LogTypes
<1> QED BY <1>1, <1>2, <1>3, <1>4, <1>5, <1>6, <1>7 DEF LogStep, Handles

LEMMA ToldStep == LogInv /\ [ChangelogNext]_logVars => ToldIsKept'
<1> SUFFICES ASSUME LogInv, [ChangelogNext]_logVars, NEW x \in LogCalls,
                    logAnswer'[x] = "201", x \notin bygone', LogId(x)' \notin contended'
             PROVE  \/ entries'[LogId(x)'] = logMade'[x]
                    \/ ReadToRemove(LogId(x), logMade[x])'
  BY DEF ToldIsKept, ReadToRemove
<1> USE DEF LogInv
<1>1. /\ logRequest'[x] = logRequest[x] /\ logMade'[x] = logMade[x]
      /\ x \notin bygone /\ ~LogRestart
  BY TellStep
<1>2. LogId(x)' = LogId(x)
  BY <1>1 DEF LogId
<1>3. contended \subseteq contended'
  BY <1>1 DEF ChangelogNext, WatchIds, logVars
<1>4. CASE logAnswer[x] = "201"
  <2>1. LogId(x) \in EntryIds
    BY <1>4 DEF Held, Holding, LogId
  <2>2. entries[LogId(x)] = logMade[x] \/ ReadToRemove(LogId(x), logMade[x])
    BY <1>1, <1>2, <1>3, <1>4 DEF ToldIsKept, ReadToRemove
  <2>3. entries'[LogId(x)] = logMade[x] \/ ReadToRemove(LogId(x), logMade[x])
    BY <1>1, <1>2, <1>3, <1>4, <2>2, KeptStep
  <2>4. PICK i \in EntryIds : i = LogId(x) /\ i = LogId(x)'
    BY <1>2, <2>1
  <2>5. PICK e : e = logMade[x] /\ e = logMade'[x]
    BY <1>1
  <2>6. ReadToRemove(i, e) => ReadToRemove(i, e)'
    BY ReadStays
  <2> QED BY <2>3, <2>4, <2>5, <2>6 DEF ReadToRemove
<1>5. CASE logPc[x] = "stored" /\ EmitAppended(x)
  <2>1. entries[LogId(x)] = logMade[x] /\ entries' = entries
    <3>1. LogId(x) \in EntryIds /\ OnId(x, LogId(x))
      BY <1>5 DEF Held, Holding, LogId, OnId, AtWork
    <3> QED BY <1>2, <1>3, <1>5, <3>1 DEF Orderly, InHand, EmitAppended
  <2> QED BY <1>1, <1>2, <2>1
<1> QED BY <1>4, <1>5, TellStep

LEMMA LogInvariant == ChangelogSpec => []LogInv
<1>1. LogInv /\ [ChangelogNext]_logVars => LogInv'
  BY HeldStep, OrderlyStep, ToldStep DEF LogInv
<1> QED BY LogInvInit, <1>1, PTL DEF ChangelogSpec

\* Where no two calls worked on one id, an entry whose author was answered 201
\* stays until a removal that read this very entry or a restart: appendEntry and removeEntry
\* may be suspended at any await, between any other calls.
THEOREM ToldKept == ChangelogSpec => []ToldIsKept
<1>1. LogInv => ToldIsKept
  BY DEF LogInv
<1> QED BY LogInvariant, <1>1, PTL
-----------------------------------------------------------------------------
(* The service implements the write-once log *)

LogNow == [i \in EntryIds |-> IF i \in contended THEN NoEntry ELSE entries[i]]
ToldNow == [i \in EntryIds |-> IF i \in contended THEN GivenUp ELSE news[i]]

LEMMA GivenUpValue ==
  /\ GivenUp = Promise!GivenUp /\ NoNews = Promise!NoNews /\ GivenUp # NoNews
  /\ \A t, e : GivenUp # [type |-> t, entry |-> e]
BY DEF GivenUp, NoNews, Promise!GivenUp, Promise!NoNews

LEMMA PromiseInit == ChangelogInit => Promise!LogInit
BY GivenUpValue DEF ChangelogInit, Promise!LogInit

\* A handler's step writes, removes or announces, or changes nothing that shows.
LEMMA HandlerKeepsPromise ==
  ASSUME LogInv, NEW c \in LogCalls, Handles(c), WatchIds
  PROVE  [Promise!LogNext]_<<LogNow, ToldNow>>
<1> USE DEF LogInv
<1>1. PICK i \in EntryIds : i = LogId(c)
  BY HandlerStep
<1>2. /\ OnId(c, i) /\ contended' = contended
      /\ \A j \in EntryIds \ {i} : entries'[j] = entries[j] /\ news'[j] = news[j]
  BY <1>1, HandlerStep
<1> USE DEF Held, LogTypes, LogNow, ToldNow
<1>3. CASE i \in contended
  BY <1>2, <1>3
<1>4. CASE i \notin contended
  <2>1. InHand(c, i)
    BY <1>2, <1>4 DEF Orderly
  <2>2. LogNow[i] = entries[i] /\ ToldNow[i] = news[i]
    BY <1>4
  <2>3. news[i] # GivenUp
    BY GivenUpValue
  <2>4. CASE StoreEntry(c)
    <3>1. entries[i] = NoEntry /\ Promise!Shown(news[i]) = NoEntry
      BY <2>1, <2>4 DEF StoreEntry, InHand, ShownNow
    <3>2. LogNow' = [LogNow EXCEPT ![i] = LogNow'[i]] /\ ToldNow' = ToldNow
      <4>1. \A j \in EntryIds : j # i => LogNow'[j] = LogNow[j]
        BY <1>2
      <4>2. news' = news
        BY <2>4 DEF StoreEntry
      <4>3. DOMAIN LogNow = EntryIds /\ DOMAIN LogNow' = EntryIds
        OBVIOUS
      <4> QED BY <1>2, <4>1, <4>2, <4>3
    <3>3. LogNow'[i] \in LogEntries
      <4>1. [by |-> c, rank |-> stamped + 1] \in LogEntries
        BY DEF LogEntries
      <4> QED BY <1>1, <1>2, <1>4, <2>4, <4>1 DEF StoreEntry
    <3>4. Promise!Write(i)
      BY <2>2, <2>3, <3>1, <3>2, <3>3, GivenUpValue DEF Promise!Write
    <3> QED BY <3>4 DEF Promise!LogNext
  <2>5. CASE DeleteEntry(c)
    <3>1. entries[i] # NoEntry /\ Promise!Shown(news[i]) = entries[i]
      BY <2>1, <2>5 DEF DeleteEntry, InHand, ShownNow
    <3>2. LogNow' = [LogNow EXCEPT ![i] = NoEntry] /\ ToldNow' = ToldNow
      BY <1>1, <1>2, <1>4, <2>5 DEF DeleteEntry
    <3>3. Promise!Remove(i)
      BY <2>2, <3>1, <3>2 DEF Promise!Remove
    <3> QED BY <3>3 DEF Promise!LogNext
  <2>6. CASE EmitAppended(c)
    <3>1. /\ entries[i] = logMade[c] /\ logMade[c] \in LogEntries
          /\ Promise!Shown(news[i]) = NoEntry
      BY <2>1, <2>6 DEF EmitAppended, InHand, ShownNow, Holding
    <3>2. /\ ToldNow' = [ToldNow EXCEPT ![i] = [type |-> "ENTRY_APPENDED", entry |-> entries[i]]]
          /\ LogNow' = LogNow
      BY <1>1, <1>2, <1>4, <2>6, <3>1 DEF EmitAppended
    <3>3. Promise!Announce(i)
      BY <2>2, <2>3, <3>1, <3>2, LogValues, GivenUpValue DEF Promise!Announce
    <3> QED BY <3>3 DEF Promise!LogNext
  <2>7. CASE EmitRemoved(c)
    <3>1. /\ entries[i] = NoEntry /\ logSeen[c] \in LogEntries
          /\ Promise!Shown(news[i]) = logSeen[c]
      BY <2>1, <2>7 DEF EmitRemoved, InHand, ShownNow, Holding
    <3>2. /\ ToldNow' = [ToldNow EXCEPT ![i] =
                           [type |-> "ENTRY_REMOVED", entry |-> Promise!Shown(news[i])]]
          /\ LogNow' = LogNow
      BY <1>1, <1>2, <1>4, <2>7, <3>1 DEF EmitRemoved
    <3>3. Promise!Announce(i)
      BY <2>2, <2>3, <3>1, <3>2, LogValues, GivenUpValue DEF Promise!Announce
    <3> QED BY <3>3 DEF Promise!LogNext
  <2>8. CASE ReturnRecorded(c) \/ AppendRecord(c) \/ RefuseDuplicateEntry(c) \/ RefuseMissing(c)
    BY <1>2, <2>8 DEF ReturnRecorded, AppendRecord, RefuseDuplicateEntry, RefuseMissing
  <2> QED BY <2>4, <2>5, <2>6, <2>7, <2>8 DEF Handles
<1> QED BY <1>3, <1>4

LEMMA PromiseStep ==
  LogInv /\ [ChangelogNext]_logVars => [Promise!LogNext]_<<LogNow, ToldNow>>
<1> SUFFICES ASSUME LogInv, [ChangelogNext]_logVars
             PROVE  [Promise!LogNext]_<<LogNow, ToldNow>>
  OBVIOUS
<1> USE DEF LogInv, LogNow, ToldNow
<1>1. ASSUME NEW c \in LogCalls, NEW op \in {"append", "record", "remove"},
             NEW k \in EntryIds, BeginOnId(c, op, k), WatchIds
      PROVE  [Promise!LogNext]_<<LogNow, ToldNow>>
  <2>1. /\ contended \subseteq contended' /\ contended' \subseteq contended \cup {k}
        /\ entries' = entries /\ news' = news
    BY <1>1, BeginStep
  <2>2. CASE k \in contended \/ k \notin contended'
    BY <2>1, <2>2
  <2>3. CASE k \notin contended /\ k \in contended'
    <3>1. /\ LogNow' = [LogNow EXCEPT ![k] = NoEntry]
          /\ ToldNow' = [ToldNow EXCEPT ![k] = GivenUp]
      BY <2>1, <2>3
    <3>2. Promise!GiveUp(k)
      BY <3>1, GivenUpValue DEF Promise!GiveUp
    <3> QED BY <3>2 DEF Promise!LogNext
  <2> QED BY <2>2, <2>3
<1>2. ASSUME NEW c \in LogCalls, WatchIds,
             \/ RefuseAtOnce(c) \/ AnswerPage(c) \/ \E o \in Offsets : ReadPage(c, o)
      PROVE  <<LogNow, ToldNow>>' = <<LogNow, ToldNow>>
  BY <1>2, IdleStep
<1>3. CASE LogRestart
  <2>1. LogNow' = [i \in EntryIds |-> NoEntry] /\ ToldNow' = [i \in EntryIds |-> NoNews]
    BY <1>3 DEF LogRestart
  <2> QED BY <2>1, GivenUpValue DEF Promise!LogNext, Promise!Forget
<1>4. CASE UNCHANGED logVars
  BY <1>4 DEF logVars
<1> QED
  BY <1>1, <1>2, <1>3, <1>4, HandlerKeepsPromise DEF ChangelogNext, LogStep, Handles

\* Between whose awaits other calls run, the service implements the write-once
\* log: where no two calls worked on one id, no entry is ever replaced, and each
\* change is announced as what it was, before the next one is made.
THEOREM WriteOnce == ChangelogSpec => ImplementsWriteOnceLog
<1>1. LogInv /\ [ChangelogNext]_logVars => [Promise!LogNext]_(Promise!promiseVars)
  BY PromiseStep DEF Promise!promiseVars, LogNow, ToldNow
<1> QED
  BY PromiseInit, LogInvariant, <1>1, PTL
  DEF ChangelogSpec, ImplementsWriteOnceLog, Promise!LogSpec
-----------------------------------------------------------------------------
(* Listings: what a reader may miss between a page and its total *)

LEMMA LeastRank ==
  ASSUME NEW T \in SUBSET Nat, T # {}
  PROVE  \E x \in T : \A y \in T : x <= y
<1> DEFINE less == {ss \in Nat \X Nat : ss[1] < ss[2]}
<1>1. IsWellFoundedOn(less, Nat)
  BY NatLessThanWellFounded DEF OpToRel
<1>2. \A x, y \in Nat : <<y, x>> \in less <=> y < x
  OBVIOUS
<1> HIDE DEF less
<1>3. PICK x \in T : \A y \in T : <<y, x>> \notin less
  BY <1>1, WFMin
<1>4. ASSUME NEW y \in T PROVE x <= y
  <2>1. x \in Nat /\ y \in Nat
    OBVIOUS
  <2>2. ~(y < x)
    BY <1>2, <1>3, <2>1, Zenon
  <2> QED BY <2>1, <2>2
<1> QED BY <1>4

\* The page and what is before it, when something is left to be read.
LEMMA PageRead ==
  ASSUME NEW log \in [EntryIds -> LogEntries \cup {NoEntry}], IsFiniteSet(Present(log)),
         NEW o \in Nat, Present(log) \ ReadSoFar(log, o) # {}
  PROVE  o + Cardinality({i \in ReadSoFar(log, o) : Cardinality(Before(log, i)) >= o})
           <= Cardinality(ReadSoFar(log, o))
<1> DEFINE n(i) == Cardinality(Before(log, i))
           R == ReadSoFar(log, o)
           page == {i \in R : n(i) >= o}
           A == {i \in R : ~(n(i) >= o)}
<1>1. \A i : Before(log, i) \in SUBSET Present(log)
  BY DEF Before
<1>2. \A i : IsFiniteSet(Before(log, i)) /\ n(i) \in Nat
  BY <1>1, FS_Subset, FS_CardinalityType
<1>3. /\ R \in SUBSET Present(log)
      /\ \A i \in Present(log) : i \in R <=> n(i) < o + PageLimit
  BY DEF ReadSoFar
<1>4. \A i \in Present(log) : log[i].rank \in Nat
  BY LogValues DEF Present, LogEntries
<1>5. \A i, j \in Present(log) : j \in Before(log, i) <=> log[j].rank < log[i].rank
  BY DEF Before
<1>6. /\ IsFiniteSet(R) /\ IsFiniteSet(page) /\ IsFiniteSet(A)
      /\ Cardinality(page) \in Nat /\ Cardinality(A) \in Nat
  <2>1. IsFiniteSet(R)
    BY <1>3, FS_Subset
  <2>2. page \in SUBSET R /\ A \in SUBSET R
    OBVIOUS
  <2> QED BY <2>1, <2>2, FS_Subset, FS_CardinalityType
<1>7. Cardinality(R) = Cardinality(page) + Cardinality(A)
  <2>1. R = page \cup A /\ page \cap A = {}
    OBVIOUS
  <2> HIDE DEF page, A, R
  <2>2. Cardinality(page \cap A) = 0
    BY <2>1, FS_EmptySet
  <2> QED BY <1>6, <2>1, <2>2, FS_Union
<1> HIDE DEF n
<1>8. o <= Cardinality(A)
  <2>1. SUFFICES ASSUME Cardinality(A) < o PROVE FALSE
    BY <1>6
  <2> DEFINE ranks == {log[i].rank : i \in Present(log) \ A}
  <2>2. Present(log) \ R # {} /\ A \subseteq R
    OBVIOUS
  <2>3. ranks \in SUBSET Nat /\ ranks # {}
    BY <1>4, <2>2
  <2>4. PICK r \in ranks : \A q \in ranks : r <= q
    BY <2>3, LeastRank
  <2>5. PICK m \in Present(log) \ A : log[m].rank = r
    OBVIOUS
  <2>6. \A j \in Present(log) \ A : log[m].rank <= log[j].rank
    BY <2>4, <2>5
  <2>7. Before(log, m) \in SUBSET A
    <3>1. ASSUME NEW j \in Before(log, m), j \notin A PROVE FALSE
      <4>1. j \in Present(log) /\ log[j].rank < log[m].rank
        BY <1>1, <1>5, <2>5, <3>1
      <4>2. log[m].rank <= log[j].rank /\ log[j].rank \in Nat /\ log[m].rank \in Nat
        BY <1>4, <2>5, <2>6, <3>1, <4>1
      <4> QED BY <4>1, <4>2
    <3> QED BY <3>1
  <2>8. n(m) <= Cardinality(A)
    BY <1>6, <2>7, FS_Subset DEF n
  <2>9. n(m) < o /\ n(m) \in Nat
    BY <1>2, <1>6, <2>1, <2>8 DEF n
  <2>10. m \in R
    BY <1>3, <2>5, <2>9, ChangelogAssumption
  <2> QED BY <2>5, <2>9, <2>10
<1>9. Cardinality(page) = Cardinality({i \in ReadSoFar(log, o) : Cardinality(Before(log, i)) >= o})
  BY DEF n
<1> HIDE DEF page, A, R
<1>10. o + Cardinality(page) <= Cardinality(R)
  BY <1>6, <1>7, <1>8
<1> QED BY <1>9, <1>10 DEF R

\* What is left to a reader is still there, and what is not left makes up, with
\* what was removed of it, for all that was read.
Reading(l, o, present) ==
  /\ l.left \subseteq present
  /\ l.left # {} => o + l.length <= Cardinality(present \ l.left) + l.removed

ListingTypes == listing \in [LogCalls -> [length : Nat, left : SUBSET EntryIds, removed : Nat]]

PageInv ==
  /\ IsFiniteSet(Present(entries))
  /\ ListingTypes
  /\ \A c \in LogCalls :
       /\ logPc[c] = "counting" =>
            /\ logRequest[c] \in [op : {"list"}, offset : Offsets]
            /\ Reading(listing[c], logRequest[c].offset, Present(entries))
       /\ logAnswer[c] = "end" =>
            logPc[c] = "done" /\ Cardinality(listing[c].left) <= listing[c].removed

\* An append takes nothing from a reader.
LEMMA ReadingGrows ==
  ASSUME NEW l \in [length : Nat, left : SUBSET EntryIds, removed : Nat], NEW o \in Nat,
         NEW p, NEW q, IsFiniteSet(q), p \subseteq q, Reading(l, o, p)
  PROVE  Reading(l, o, q)
<1> DEFINE n == Cardinality(p \ l.left)
           m == Cardinality(q \ l.left)
<1>1. (p \ l.left) \in SUBSET (q \ l.left) /\ (q \ l.left) \in SUBSET q
  OBVIOUS
<1>2. n \in Nat /\ m \in Nat /\ n <= m
  BY <1>1, FS_Subset, FS_CardinalityType
<1>3. l.left \subseteq q
  BY DEF Reading
<1>4. l.left # {} => o + l.length <= n + l.removed
  BY DEF Reading
<1> HIDE DEF n, m
<1>5. l.left # {} => o + l.length <= m + l.removed
  BY <1>2, <1>4
<1> QED BY <1>3, <1>5 DEF Reading, m

\* A removal takes one entry from those left, or is counted.
LEMMA ReadingShrinks ==
  ASSUME NEW l \in [length : Nat, left : SUBSET EntryIds, removed : Nat], NEW o \in Nat,
         NEW p, IsFiniteSet(p), NEW i, Reading(l, o, p)
  PROVE  Reading([length |-> l.length, left |-> l.left \ {i},
                  removed |-> l.removed + (IF i \in p \ l.left THEN 1 ELSE 0)], o, p \ {i})
<1> DEFINE K == p \ l.left
           J == (p \ {i}) \ (l.left \ {i})
           d == IF i \in p \ l.left THEN 1 ELSE 0
           new == [length |-> l.length, left |-> l.left \ {i}, removed |-> l.removed + d]
<1>1. K \in SUBSET p /\ IsFiniteSet(K) /\ Cardinality(K) \in Nat
  BY FS_Subset, FS_CardinalityType
<1>2. J = K \ {i} /\ (i \in K <=> i \in p \ l.left)
  OBVIOUS
<1>3. l.left # {} => o + l.length <= Cardinality(K) + l.removed
  BY DEF Reading
<1> HIDE DEF K, J
<1>4. Cardinality(J) = Cardinality(K) - d
  <2>1. Cardinality(K \ {i}) = IF i \in K THEN Cardinality(K) - 1 ELSE Cardinality(K)
    BY <1>1, FS_RemoveElement, Zenon
  <2>2. d = IF i \in K THEN 1 ELSE 0
    BY <1>2
  <2> HIDE DEF d
  <2> QED BY <1>1, <1>2, <2>1, <2>2
<1>5. d \in {0, 1}
  OBVIOUS
<1> HIDE DEF d
<1>6. l.left # {} => o + l.length <= Cardinality(J) + (l.removed + d)
  BY <1>1, <1>3, <1>4, <1>5
<1>7. /\ new.length = l.length /\ new.left = l.left \ {i} /\ new.removed = l.removed + d
  OBVIOUS
<1> HIDE DEF new
<1>8. new.left \subseteq p \ {i}
  BY <1>7 DEF Reading
<1>9. J = (p \ {i}) \ new.left
  BY <1>7 DEF J
<1>10. new.left # {} => o + new.length <= Cardinality((p \ {i}) \ new.left) + new.removed
  BY <1>6, <1>7, <1>9
<1>11. Reading(new, o, p \ {i})
  BY <1>8, <1>10 DEF Reading
<1> QED BY <1>11 DEF new, d

\* A step that leaves the log and the listings alone, and answers no listing.
LEMMA PageKept ==
  ASSUME PageInv, entries' = entries, listing' = listing,
         \A c \in LogCalls :
           /\ logPc'[c] = "counting" => logPc[c] = "counting" /\ logRequest'[c] = logRequest[c]
           /\ logAnswer'[c] = "end" => logAnswer[c] = "end"
           /\ logPc[c] = "done" => logPc'[c] = "done"
  PROVE  PageInv'
<1>1. Present(entries)' = Present(entries)
  BY DEF Present
<1>2. ListingTypes'
  BY DEF PageInv, ListingTypes
<1>3. ASSUME NEW c \in LogCalls, logPc'[c] = "counting"
      PROVE  /\ logRequest'[c] \in [op : {"list"}, offset : Offsets]
             /\ Reading(listing'[c], logRequest'[c].offset, Present(entries))
  <2>1. /\ logPc[c] = "counting" /\ logRequest'[c] = logRequest[c] /\ listing'[c] = listing[c]
    BY <1>3
  <2> QED BY <2>1 DEF PageInv
<1>4. ASSUME NEW c \in LogCalls, logAnswer'[c] = "end"
      PROVE  logPc'[c] = "done" /\ Cardinality(listing'[c].left) <= listing'[c].removed
  BY <1>4 DEF PageInv
<1> QED BY <1>1, <1>2, <1>3, <1>4 DEF PageInv

LEMMA PageStep == Held /\ PageInv /\ [ChangelogNext]_logVars => PageInv'
<1> SUFFICES ASSUME Held, PageInv, [ChangelogNext]_logVars PROVE PageInv'
  OBVIOUS
<1>1. ASSUME NEW c \in LogCalls, NEW a, LogReply(c, a), a # "end", logPc[c] # "done",
             UNCHANGED <<entries, logRequest, listing>>
      PROVE  PageInv'
  <2>1. \A x \in LogCalls :
          /\ logPc'[x] = IF x = c THEN "done" ELSE logPc[x]
          /\ logAnswer'[x] = IF x = c THEN a ELSE logAnswer[x]
    BY <1>1 DEF LogReply, Held, LogTypes
  <2>2. \A x \in LogCalls :
          /\ logPc'[x] = "counting" => logPc[x] = "counting" /\ logRequest'[x] = logRequest[x]
          /\ logAnswer'[x] = "end" => logAnswer[x] = "end"
          /\ logPc[x] = "done" => logPc'[x] = "done"
    BY <1>1, <2>1
  <2> QED BY <1>1, <2>2, PageKept
<1>2. ASSUME NEW c \in LogCalls, NEW l, LogGoto(c, l), l # "counting", logPc[c] # "done",
             entries' = entries, listing' = listing,
             \A x \in LogCalls \ {c} : logRequest'[x] = logRequest[x]
      PROVE  PageInv'
  <2>1. \A x \in LogCalls :
          /\ logPc'[x] = IF x = c THEN l ELSE logPc[x]
          /\ logAnswer'[x] = logAnswer[x]
    BY <1>2 DEF LogGoto, Held, LogTypes
  <2>2. \A x \in LogCalls :
          /\ logPc'[x] = "counting" => logPc[x] = "counting" /\ logRequest'[x] = logRequest[x]
          /\ logAnswer'[x] = "end" => logAnswer[x] = "end"
          /\ logPc[x] = "done" => logPc'[x] = "done"
    BY <1>2, <2>1
  <2> QED BY <1>2, <2>2, PageKept
<1>3. ASSUME NEW c \in LogCalls, RefuseAtOnce(c) PROVE PageInv'
  BY <1>1, <1>3 DEF RefuseAtOnce
<1>4. ASSUME NEW c \in LogCalls, NEW op, NEW i, BeginOnId(c, op, i) PROVE PageInv'
  <2>1. \E l \in {"appending", "recording", "removing"} : LogGoto(c, l)
    BY <1>4 DEF BeginOnId
  <2>2. /\ logPc[c] = "idle" /\ entries' = entries /\ listing' = listing
        /\ \A x \in LogCalls \ {c} : logRequest'[x] = logRequest[x]
    BY <1>4 DEF BeginOnId, Held, LogTypes
  <2> QED BY <1>2, <2>1, <2>2
<1>5. ASSUME NEW c \in LogCalls,
             \/ ReturnRecorded(c) \/ RefuseDuplicateEntry(c) \/ EmitAppended(c)
             \/ RefuseMissing(c) \/ EmitRemoved(c)
      PROVE  PageInv'
  <2>1. /\ \E a \in {"200", "409", "201", "404"} : LogReply(c, a)
        /\ logPc[c] # "done" /\ UNCHANGED <<entries, logRequest, listing>>
    BY <1>5 DEF ReturnRecorded, RefuseDuplicateEntry, EmitAppended, RefuseMissing, EmitRemoved
  <2> QED BY <1>1, <2>1
<1>6. ASSUME NEW c \in LogCalls, AppendRecord(c) PROVE PageInv'
  BY <1>2, <1>6 DEF AppendRecord
<1>7. ASSUME NEW c \in LogCalls, StoreEntry(c) PROVE PageInv'
  <2> DEFINE i == LogId(c)
             q == Present(entries)'
  <2>1. /\ logPc[c] = "appending" /\ logPc' = [logPc EXCEPT ![c] = "stored"]
        /\ logAnswer' = logAnswer /\ logRequest' = logRequest /\ listing' = listing
        /\ \A j \in EntryIds \ {i} : entries'[j] = entries[j]
        /\ entries'[i] = [by |-> c, rank |-> stamped + 1] \/ i \notin EntryIds
    BY <1>7 DEF StoreEntry, LogGoto, Held, LogTypes
  <2>2. [by |-> c, rank |-> stamped + 1] # NoEntry
    BY DEF NoEntry
  <2> HIDE DEF i
  <2>3. Present(entries) \subseteq q /\ q \in SUBSET (Present(entries) \cup {i})
    BY <2>1, <2>2 DEF Present
  <2>4. IsFiniteSet(q)
    <3>1. IsFiniteSet(Present(entries) \cup {i})
      BY FS_AddElement DEF PageInv
    <3> QED BY <2>3, <3>1, FS_Subset
  <2>5. ASSUME NEW x \in LogCalls, logPc'[x] = "counting"
        PROVE  /\ logRequest'[x] \in [op : {"list"}, offset : Offsets]
               /\ Reading(listing'[x], logRequest'[x].offset, q)
    <3>1. logPc[x] = "counting"
      BY <2>1, <2>5 DEF Held, LogTypes
    <3>2. /\ logRequest[x] \in [op : {"list"}, offset : Offsets]
          /\ Reading(listing[x], logRequest[x].offset, Present(entries))
          /\ listing[x] \in [length : Nat, left : SUBSET EntryIds, removed : Nat]
      BY <3>1 DEF PageInv, ListingTypes
    <3>3. logRequest[x].offset \in Nat
      BY <3>2, ChangelogAssumption
    <3> HIDE DEF q
    <3> QED BY <2>1, <2>3, <2>4, <3>2, <3>3, ReadingGrows
  <2>6. \A x \in LogCalls : logAnswer'[x] = "end" =>
          logPc'[x] = "done" /\ Cardinality(listing'[x].left) <= listing'[x].removed
    BY <2>1 DEF PageInv, Held, LogTypes
  <2>7. ListingTypes'
    BY <2>1 DEF PageInv, ListingTypes
  <2> QED BY <2>4, <2>5, <2>6, <2>7 DEF PageInv
<1>8. ASSUME NEW c \in LogCalls, DeleteEntry(c) PROVE PageInv'
  <2> DEFINE i == LogId(c)
             p == Present(entries)
             counted(x) == [length |-> listing[x].length, left |-> listing[x].left \ {i},
                            removed |-> listing[x].removed
                              + (IF i \in p \ listing[x].left THEN 1 ELSE 0)]
  <2>1. /\ logPc[c] = "removing" /\ logPc' = [logPc EXCEPT ![c] = "deleted"]
        /\ logAnswer' = logAnswer /\ logRequest' = logRequest
        /\ entries' = [entries EXCEPT ![i] = NoEntry]
    BY <1>8 DEF DeleteEntry, LogGoto
  <2>2. listing' = [x \in LogCalls |-> IF logPc[x] # "counting" THEN listing[x] ELSE counted(x)]
    BY <1>8 DEF DeleteEntry
  <2>3. Present(entries)' = p \ {i}
    BY <2>1 DEF Present, Held, LogTypes
  <2>4. IsFiniteSet(p) /\ IsFiniteSet(p \ {i})
    BY FS_RemoveElement DEF PageInv
  <2>5. ASSUME NEW x \in LogCalls
        PROVE  counted(x) \in [length : Nat, left : SUBSET EntryIds, removed : Nat]
    BY DEF PageInv, ListingTypes
  <2>6. ASSUME NEW x \in LogCalls, logPc[x] = "counting"
        PROVE  /\ logRequest[x] \in [op : {"list"}, offset : Offsets]
               /\ Reading(counted(x), logRequest[x].offset, p \ {i})
    <3>1. /\ logRequest[x] \in [op : {"list"}, offset : Offsets]
          /\ Reading(listing[x], logRequest[x].offset, p)
          /\ listing[x] \in [length : Nat, left : SUBSET EntryIds, removed : Nat]
      BY <2>6 DEF PageInv, ListingTypes
    <3>2. logRequest[x].offset \in Nat
      BY <3>1, ChangelogAssumption
    <3> HIDE DEF i, p
    <3> QED BY <2>4, <3>1, <3>2, ReadingShrinks
  <2> HIDE DEF counted, p, i
  <2>7. ListingTypes'
    BY <2>2, <2>5 DEF PageInv, ListingTypes
  <2>8. ASSUME NEW x \in LogCalls, logPc'[x] = "counting"
        PROVE  /\ logRequest'[x] \in [op : {"list"}, offset : Offsets]
               /\ Reading(listing'[x], logRequest'[x].offset, p \ {i})
    <3>1. logPc[x] = "counting"
      BY <2>1, <2>8 DEF Held, LogTypes
    <3>2. listing'[x] = counted(x)
      BY <2>2, <3>1
    <3> QED BY <2>1, <2>6, <3>1, <3>2
  <2>9. ASSUME NEW x \in LogCalls, logAnswer'[x] = "end"
        PROVE  logPc'[x] = "done" /\ Cardinality(listing'[x].left) <= listing'[x].removed
    <3>1. logPc[x] = "done" /\ Cardinality(listing[x].left) <= listing[x].removed
      BY <2>1, <2>9 DEF PageInv
    <3>2. listing'[x] = listing[x] /\ logPc'[x] = "done"
      BY <2>1, <2>2, <3>1 DEF Held, LogTypes
    <3> QED BY <3>1, <3>2
  <2> QED BY <2>3, <2>4, <2>7, <2>8, <2>9 DEF PageInv
<1>9. ASSUME NEW c \in LogCalls, NEW o \in Offsets, ReadPage(c, o) PROVE PageInv'
  <2> DEFINE read == ReadSoFar(entries, o)
             len == Cardinality({i \in read : Cardinality(Before(entries, i)) >= o})
             new == [length |-> len, left |-> Present(entries) \ read, removed |-> 0]
  <2>1. /\ logPc[c] = "idle" /\ logPc' = [logPc EXCEPT ![c] = "counting"]
        /\ logRequest' = [logRequest EXCEPT ![c] = [op |-> "list", offset |-> o]]
        /\ listing' = [listing EXCEPT ![c] = new]
        /\ entries' = entries /\ logAnswer' = logAnswer
    BY <1>9 DEF ReadPage, LogGoto
  <2>2. o \in Nat
    BY ChangelogAssumption
  <2>3. /\ read \in SUBSET Present(entries)
        /\ {i \in read : Cardinality(Before(entries, i)) >= o} \in SUBSET read
    BY DEF ReadSoFar
  <2>4. IsFiniteSet(read) /\ len \in Nat
    <3>1. IsFiniteSet(read)
      BY <2>3, FS_Subset DEF PageInv
    <3> QED BY <2>3, <3>1, FS_Subset, FS_CardinalityType
  <2>5. Present(entries) \ read # {} => o + len <= Cardinality(read)
    <3>1. entries \in [EntryIds -> LogEntries \cup {NoEntry}] /\ IsFiniteSet(Present(entries))
      BY DEF Held, LogTypes, PageInv
    <3> QED BY <2>2, <3>1, PageRead
  <2>6. Present(entries) \ (Present(entries) \ read) = read /\ Cardinality(read) \in Nat
    BY <2>3, <2>4, FS_CardinalityType
  <2> HIDE DEF read, len
  <2>7. /\ new.length = len /\ new.left = Present(entries) \ read /\ new.removed = 0
        /\ new \in [length : Nat, left : SUBSET EntryIds, removed : Nat]
    BY <2>4 DEF Present
  <2> HIDE DEF new
  <2>8. Reading(new, o, Present(entries))
    <3>1. Present(entries) \ new.left = read
      BY <2>6, <2>7
    <3>2. new.left # {} => o + new.length <= Cardinality(read) + new.removed
      BY <2>5, <2>6, <2>7
    <3> QED BY <2>7, <3>1, <3>2 DEF Reading
  <2>9. ListingTypes'
    BY <2>1, <2>7 DEF PageInv, ListingTypes
  <2>10. ASSUME NEW x \in LogCalls, logPc'[x] = "counting"
         PROVE  /\ logRequest'[x] \in [op : {"list"}, offset : Offsets]
                /\ Reading(listing'[x], logRequest'[x].offset, Present(entries))
    <3>1. CASE x = c
      <4>1. logRequest'[x] = [op |-> "list", offset |-> o] /\ listing'[x] = new
        BY <2>1, <3>1 DEF Held, LogTypes, PageInv, ListingTypes
      <4> QED BY <2>8, <4>1
    <3>2. CASE x # c
      <4>1. /\ logPc[x] = "counting" /\ logRequest'[x] = logRequest[x] /\ listing'[x] = listing[x]
        BY <2>1, <2>10, <3>2 DEF Held, LogTypes, PageInv, ListingTypes
      <4> QED BY <4>1 DEF PageInv
    <3> QED BY <3>1, <3>2
  <2>11. ASSUME NEW x \in LogCalls, logAnswer'[x] = "end"
         PROVE  logPc'[x] = "done" /\ Cardinality(listing'[x].left) <= listing'[x].removed
    <3>1. logPc[x] = "done" /\ Cardinality(listing[x].left) <= listing[x].removed
      BY <2>1, <2>11 DEF PageInv
    <3>2. listing'[x] = listing[x] /\ logPc'[x] = "done"
      BY <2>1, <3>1 DEF Held, LogTypes, PageInv, ListingTypes
    <3> QED BY <3>1, <3>2
  <2>12. Present(entries)' = Present(entries) /\ IsFiniteSet(Present(entries))
    BY <2>1 DEF Present, PageInv
  <2> QED BY <2>9, <2>10, <2>11, <2>12 DEF PageInv
<1>10. ASSUME NEW c \in LogCalls, AnswerPage(c) PROVE PageInv'
  <2> DEFINE l == listing[c]
             o == logRequest[c].offset
             p == Present(entries)
             total == Cardinality(p)
  <2>1. /\ logPc[c] = "counting" /\ logPc' = [logPc EXCEPT ![c] = "done"]
        /\ UNCHANGED <<entries, logRequest, listing>>
    BY <1>10 DEF AnswerPage, LogReply
  <2>2. logAnswer' = [logAnswer EXCEPT ![c] = IF o + l.length < total THEN "more" ELSE "end"]
    BY <1>10 DEF AnswerPage, LogReply, HasMore
  <2>3. /\ l.left \in SUBSET p /\ IsFiniteSet(p) /\ l.length \in Nat /\ l.removed \in Nat
        /\ o \in Nat
        /\ l.left # {} => o + l.length <= Cardinality(p \ l.left) + l.removed
    BY <2>1, ChangelogAssumption DEF PageInv, ListingTypes, Reading
  <2>4. IsFiniteSet(l.left) /\ Cardinality(l.left) \in Nat /\ total \in Nat
    BY <2>3, FS_Subset, FS_CardinalityType
  <2>5. /\ Cardinality(p \ l.left) = total - Cardinality(p \cap l.left)
        /\ p \cap l.left = l.left
    BY <2>3, FS_Difference
  <2>6. l.left = {} => Cardinality(l.left) = 0
    BY FS_EmptySet
  <2>7. Cardinality(p \ l.left) = total - Cardinality(l.left)
    BY <2>5
  <2> HIDE DEF l, o, p, total
  <2>8. ~(o + l.length < total) => Cardinality(l.left) <= l.removed
    BY <2>3, <2>4, <2>6, <2>7
  <2>9. ASSUME NEW x \in LogCalls, logAnswer'[x] = "end"
        PROVE  logPc'[x] = "done" /\ Cardinality(listing'[x].left) <= listing'[x].removed
    <3>1. CASE x = c
      <4>1. ~(o + l.length < total) /\ logPc'[c] = "done"
        BY <2>1, <2>2, <2>9, <3>1 DEF Held, LogTypes
      <4>2. listing'[x] = l
        BY <2>1, <3>1 DEF l
      <4> QED BY <2>8, <3>1, <4>1, <4>2
    <3>2. CASE x # c
      <4>1. logAnswer'[x] = logAnswer[x] /\ logPc'[x] = logPc[x] /\ listing'[x] = listing[x]
        BY <2>1, <2>2, <3>2 DEF Held, LogTypes
      <4> QED BY <2>9, <4>1 DEF PageInv
    <3> QED BY <3>1, <3>2
  <2>10. ASSUME NEW x \in LogCalls, logPc'[x] = "counting"
         PROVE  /\ logRequest'[x] \in [op : {"list"}, offset : Offsets]
                /\ Reading(listing'[x], logRequest'[x].offset, Present(entries))
    <3>1. /\ logPc[x] = "counting" /\ logRequest'[x] = logRequest[x] /\ listing'[x] = listing[x]
      BY <2>1, <2>10 DEF Held, LogTypes
    <3> QED BY <3>1 DEF PageInv
  <2>11. /\ Present(entries)' = Present(entries) /\ IsFiniteSet(Present(entries))
         /\ ListingTypes'
    BY <2>1 DEF Present, PageInv, ListingTypes
  <2> QED BY <2>9, <2>10, <2>11 DEF PageInv
<1>11. CASE LogRestart
  <2>1. /\ \A x \in LogCalls : /\ logPc'[x] # "counting"
                               /\ logAnswer'[x] = "end" => logAnswer[x] = "end"
                               /\ logPc[x] = "done" => logPc'[x] = "done"
        /\ listing' = listing
    BY <1>11 DEF LogRestart
  <2>2. Present(entries)' = {}
    BY <1>11 DEF LogRestart, Present
  <2>3. IsFiniteSet(Present(entries))'
    BY <2>2, FS_EmptySet
  <2>4. ListingTypes'
    BY <2>1 DEF PageInv, ListingTypes
  <2>5. ASSUME NEW x \in LogCalls, logAnswer'[x] = "end"
        PROVE  logPc'[x] = "done" /\ Cardinality(listing'[x].left) <= listing'[x].removed
    <3>1. logPc[x] = "done" /\ Cardinality(listing[x].left) <= listing[x].removed
      BY <2>1, <2>5 DEF PageInv
    <3> QED BY <2>1, <3>1
  <2> QED BY <2>1, <2>3, <2>4, <2>5 DEF PageInv
<1>12. CASE UNCHANGED logVars
  <2>1. /\ entries' = entries /\ listing' = listing /\ logPc' = logPc
        /\ logRequest' = logRequest /\ logAnswer' = logAnswer
    BY <1>12 DEF logVars
  <2> QED BY <2>1, PageKept
<1> QED
  BY <1>3, <1>4, <1>5, <1>6, <1>7, <1>8, <1>9, <1>10, <1>11, <1>12 DEF ChangelogNext, LogStep

LEMMA PageInvariant == ChangelogSpec => []PageInv
<1>1. ChangelogInit => PageInv
  <2> SUFFICES ASSUME ChangelogInit PROVE PageInv
    OBVIOUS
  <2>1. Present(entries) = {} /\ IsFiniteSet(Present(entries))
    BY FS_EmptySet DEF ChangelogInit, Present
  <2>2. ListingTypes
    BY DEF ChangelogInit, ListingTypes
  <2>3. \A c \in LogCalls : logPc[c] = "idle" /\ logAnswer[c] = "none"
    BY DEF ChangelogInit
  <2> QED BY <2>1, <2>2, <2>3 DEF PageInv
<1>2. LogInv => Held
  BY DEF LogInv
<1> QED BY LogInvariant, PageStep, <1>1, <1>2, PTL DEF ChangelogSpec

\* Whatever is appended and removed between a page and its total, a reader who is
\* told there is no more has missed no more entries than were removed meanwhile.
THEOREM EndIsHonest == ChangelogSpec => []EndMissesOnlyRemovals
<1>1. PageInv => EndMissesOnlyRemovals
  BY DEF PageInv, EndMissesOnlyRemovals
<1> QED BY PageInvariant, <1>1, PTL

\* Every variable keeps its type, for any number of calls, ids and offsets.
THEOREM TypeCorrect == ChangelogSpec => []ChangelogTypeOK
<1> DEFINE Known == contended \subseteq EntryIds /\ bygone \subseteq LogCalls
<1>1. ChangelogInit => Known
  BY DEF ChangelogInit
<1>2. Known /\ [ChangelogNext]_logVars => Known'
  BY DEF ChangelogNext, WatchIds, LogRestart, logVars
<1>3. LogInv /\ PageInv /\ Known => ChangelogTypeOK
  BY DEF LogInv, Held, PageInv, ListingTypes, ChangelogTypeOK
<1> QED BY LogInvariant, PageInvariant, <1>1, <1>2, <1>3, PTL DEF ChangelogSpec
=============================================================================
