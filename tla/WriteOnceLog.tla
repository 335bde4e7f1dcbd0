----------------------------- MODULE WriteOnceLog -----------------------------
(***************************************************************************)
(* What the changelog promises about each entryId: an entry is written     *)
(* where there is none and may be removed, never replaced, and each change *)
(* is announced, as what it was, before the next one is made: the last     *)
(* announcement always tells what the log holds, or held one change ago.   *)
(* An id that two calls worked on at once is given up: nothing is promised *)
(* of it until the next restart.  Changelog implements this specification. *)
(***************************************************************************)
CONSTANTS EntryIds, LogEntries, NoEntry

VARIABLES
  log,    \* the entry each id holds
  told    \* the last announcement about each id

promiseVars == <<log, told>>

NoNews == [type |-> "none"]
GivenUp == [type |-> "given up"]

Shown(news) == IF news.type = "ENTRY_APPENDED" THEN news.entry ELSE NoEntry

LogInit ==
  /\ log = [i \in EntryIds |-> NoEntry]
  /\ told = [i \in EntryIds |-> NoNews]

Write(i) ==
  /\ log[i] = NoEntry /\ Shown(told[i]) = NoEntry /\ told[i] # GivenUp
  /\ log'[i] \in LogEntries
  /\ log' = [log EXCEPT ![i] = log'[i]]
  /\ UNCHANGED told

Remove(i) ==
  /\ log[i] # NoEntry /\ Shown(told[i]) = log[i]
  /\ log' = [log EXCEPT ![i] = NoEntry]
  /\ UNCHANGED told

Announce(i) ==
  /\ Shown(told[i]) # log[i] /\ told[i] # GivenUp
  /\ told' = [told EXCEPT ![i] =
                IF log[i] = NoEntry
                THEN [type |-> "ENTRY_REMOVED", entry |-> Shown(told[i])]
                ELSE [type |-> "ENTRY_APPENDED", entry |-> log[i]]]
  /\ UNCHANGED log

GiveUp(i) ==
  /\ log' = [log EXCEPT ![i] = NoEntry]
  /\ told' = [told EXCEPT ![i] = GivenUp]

Forget == log' = [i \in EntryIds |-> NoEntry] /\ told' = [i \in EntryIds |-> NoNews]

LogNext ==
  \/ \E i \in EntryIds : Write(i) \/ Remove(i) \/ Announce(i) \/ GiveUp(i)
  \/ Forget

LogSpec == LogInit /\ [][LogNext]_promiseVars
=============================================================================
