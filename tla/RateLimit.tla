------------------------------- MODULE RateLimit -------------------------------
(***************************************************************************)
(* The rate limiter in front of the auth proxy routes (lib/rate-limit.ts): *)
(* a fixed window per key, in a Map of bounded size.  A key is a client's  *)
(* address and a path.  checkRateLimit runs to its end in one go.  Time is *)
(* counted in ticks, a second of the Retry-After header is Second of them. *)
(***************************************************************************)
EXTENDS Integers, Sequences, FiniteSets

CONSTANTS
  Keys,       \* clients, each on one path
  LimitOf,    \* requests allowed in a window, by the rule of the path
  Window,     \* its length, the same in every rule
  MaxTracked, \* MAX_TRACKED_KEYS
  Second,     \* ticks in a second
  MaxTime     \* bound: the clock stops here

ASSUME RateLimitAssumption ==
  /\ LimitOf \in [Keys -> Nat \ {0}]
  /\ {Window, MaxTracked, Second} \subseteq Nat \ {0} /\ MaxTime \in Nat

VARIABLES
  now,        \* Date.now()
  hits,       \* the Map: its entries in the order their keys were inserted
  comeBack,   \* history: when each key, refused, was told to come back (0: not)
  refusedYet, \* history: keys refused by their first request after that time
  admitted    \* history: when each key was let through the last times, none of them
              \* before a window of its was dropped for want of room

limitVars == <<now, hits, comeBack, refusedYet, admitted>>

RateLimitInit ==
  /\ now = 1 /\ hits = <<>>
  /\ comeBack = [k \in Keys |-> 0] /\ refusedYet = {}
  /\ admitted = [k \in Keys |-> <<>>]

Ended(e) == e.resetAt <= now
At(map, k) == {i \in DOMAIN map : map[i].key = k}

\* The entries at some positions of the Map, in their order.
Entries(map, at) ==
  [n \in 1 .. Cardinality(at) |->
     map[CHOOSE i \in at : Cardinality({j \in at : j < i}) = n - 1]]

\* Variant: no room is made for the entry about to be inserted.
PrunedToFull(map) ==
  LET live   == {i \in DOMAIN map : ~Ended(map[i])}
      excess == Cardinality(live) - MaxTracked
  IN  Entries(map, {i \in live : Cardinality({j \in live : j < i}) >= excess})

\* prune: the entries whose window has ended go, and when that is not enough the
\* first ones, until one more fits.
Pruned(map) ==
  LET live   == {i \in DOMAIN map : ~Ended(map[i])}
      excess == Cardinality(live) - MaxTracked + 1
  IN  Entries(map, {i \in live : Cardinality({j \in live : j < i}) >= excess})

\* The Map as a request leaves it, its own count aside: a window that has ended is
\* replaced where it stands, a new one goes to the end.
Opened(k) ==
  LET fresh == [key |-> k, count |-> 0, resetAt |-> now + Window]
      kept  == IF Len(hits) >= MaxTracked THEN Pruned(hits) ELSE hits
  IN  IF At(hits, k) = {} THEN Append(kept, fresh)
      ELSE [i \in DOMAIN hits |->
              IF hits[i].key = k /\ Ended(hits[i]) THEN fresh ELSE hits[i]]

\* Variant: a client that was refused is counted anew.
CountedAnew(map, k) ==
  [i \in DOMAIN map |->
     IF map[i].key = k
     THEN [map[i] EXCEPT !.count = IF @ > LimitOf[k] THEN 1 ELSE @ + 1] ELSE map[i]]

\* By how much the limit is exceeded makes no difference.
Counted(map, k) ==
  [i \in DOMAIN map |->
     IF map[i].key = k
     THEN [map[i] EXCEPT !.count = IF @ > LimitOf[k] THEN @ ELSE @ + 1] ELSE map[i]]

\* Variant: the seconds are rounded down.
RetryAfterFloor(e) == IF e.resetAt - now < Second THEN 1 ELSE (e.resetAt - now) \div Second

\* The Retry-After header: the rest of the window, in seconds, rounded up.
RetryAfter(e) == (e.resetAt - now + Second - 1) \div Second

\* The last of the times suffice, one more than may fall into two windows.
Admission(times, limit) ==
  LET all == Append(times, now) IN IF Len(all) > 2 * limit + 1 THEN Tail(all) ELSE all

DroppedLive(k) ==
  At(hits', k) = {} /\ \E i \in At(hits, k) : ~Ended(hits[i])

CheckRateLimit(k) ==
  /\ hits' = Counted(Opened(k), k)
  /\ \E i \in At(hits', k) :
       LET allowed == hits'[i].count <= LimitOf[k]
           promised == comeBack[k] # 0 /\ comeBack[k] <= now
       IN  /\ admitted' = [x \in Keys |->
                IF x = k /\ allowed THEN Admission(admitted[x], LimitOf[x])
                ELSE IF DroppedLive(x) THEN <<>> ELSE admitted[x]]
           /\ refusedYet' = refusedYet \cup {x \in {k} : promised /\ ~allowed}
           /\ comeBack' = [comeBack EXCEPT ![k] =
                IF allowed THEN 0 ELSE now + RetryAfter(hits'[i]) * Second]
  /\ UNCHANGED now

TimePasses == now < MaxTime /\ now' = now + 1
                /\ UNCHANGED <<hits, comeBack, refusedYet, admitted>>

RateLimitNext == (\E k \in Keys : CheckRateLimit(k)) \/ TimePasses

RateLimitSpec == RateLimitInit /\ [][RateLimitNext]_limitVars
-----------------------------------------------------------------------------
(* Properties *)

\* The Map never holds more keys than it may, and none of them twice, however many
\* clients come and whichever windows have ended.
TableIsBounded ==
  /\ Len(hits) <= MaxTracked
  /\ \A i, j \in DOMAIN hits : hits[i].key = hits[j].key => i = j

\* In any stretch of time as long as a window a key is let through at most twice
\* the limit, wherever its windows begin and end, unless one was dropped for want
\* of room.
AtMostTwiceTheLimit ==
  \A k \in Keys :
    LET all == admitted[k]
    IN  Len(all) = 2 * LimitOf[k] + 1 => all[Len(all)] - all[1] >= Window

\* A key is refused only when its limit was spent in the window that is still open:
\* less than a window ago, as far as none of its windows was dropped since.
RefusedOnlyWhenSpent ==
  [][\A k \in Keys : CheckRateLimit(k) /\ comeBack'[k] # 0 =>
       LET times == admitted[k]
       IN  /\ Len(times) >= LimitOf[k]
           /\ times[Len(times) - LimitOf[k] + 1] > now - Window]_limitVars

\* A client that was refused and came back when Retry-After told it to is let in.
RetryAfterIsHonest == refusedYet = {}
=============================================================================
