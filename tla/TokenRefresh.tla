------------------------------ MODULE TokenRefresh -----------------------------
(***************************************************************************)
(* startAuthTokenRefresh (lib/authTokenRefresh.ts): a timer that refreshes *)
(* the Firebase token of the signed-in user shortly before it expires, and *)
(* the refresh Apollo's errorLink forces on an auth error                  *)
(* (config/apollo.ts).  Firebase is external: it tells the listener of     *)
(* every sign-in, sign-out and new token, and may fail to refresh one.     *)
(* A user who signs in again is another user here.                         *)
(***************************************************************************)
EXTENDS Integers, FiniteSets

CONSTANTS
  Users,      \* sign-ins
  NoUser,
  MaxTimers   \* bound: how often a refresh is scheduled

ASSUME TokenRefreshAssumption == NoUser \notin Users /\ MaxTimers \in Nat

VARIABLES
  user,        \* auth.currentUser
  gone,        \* the sign-ins that have ended
  listening,   \* the listener is subscribed
  scheduling,  \* scheduleRefresh calls that await the token's expiry: number and user
  scheduledNo, \* how many there were
  running,     \* timers that run: number and user
  refreshTimer,\* the timer the module knows, run out or not (0: none)
  refreshing,  \* refreshes under way: for whom, and who asked, "timer" or "apollo"
  uncovered,   \* history: users whose scheduling or refresh failed
  overtaken    \* history: users who left, or were not listened to any more, while a
               \* scheduling of theirs was under way

tokenVars == <<user, gone, listening, scheduling, scheduledNo, running, refreshTimer,
               refreshing, uncovered, overtaken>>

TokenInit ==
  /\ user = NoUser /\ gone = {} /\ listening = TRUE
  /\ scheduling = {} /\ scheduledNo = 0
  /\ running = {} /\ refreshTimer = 0 /\ refreshing = {}
  /\ uncovered = {} /\ overtaken = {}

\* clearTimer.
Cleared == {t \in running : t.no # refreshTimer}

\* Variant: the timer is cleared only where another one will be set.
ListenerOnSignIn(u) ==
  IF ~listening \/ u = NoUser THEN UNCHANGED <<scheduling, scheduledNo, running, refreshTimer>>
  ELSE /\ scheduledNo < MaxTimers
       /\ running' = Cleared /\ refreshTimer' = 0
       /\ scheduledNo' = scheduledNo + 1
       /\ scheduling' = scheduling \cup {[no |-> scheduledNo', for |-> u]}

\* The listener: whatever was scheduled is cleared, and a refresh for the user who
\* is signed in now is scheduled.
Listener(u) ==
  IF ~listening THEN UNCHANGED <<scheduling, scheduledNo, running, refreshTimer>>
  ELSE /\ running' = Cleared /\ refreshTimer' = 0
       /\ IF u = NoUser THEN UNCHANGED <<scheduling, scheduledNo>>
          ELSE /\ scheduledNo < MaxTimers
               /\ scheduledNo' = scheduledNo + 1
               /\ scheduling' = scheduling \cup {[no |-> scheduledNo', for |-> u]}

Overtaken == {s.for : s \in scheduling}
-----------------------------------------------------------------------------
SignIn(u) ==
  /\ user = NoUser /\ u \notin gone
  /\ user' = u
  /\ Listener(u)
  /\ UNCHANGED <<gone, listening, refreshing, uncovered, overtaken>>

SignOut ==
  /\ user # NoUser
  /\ user' = NoUser /\ gone' = gone \cup {user}
  /\ Listener(NoUser)
  /\ overtaken' = overtaken \cup Overtaken
  /\ UNCHANGED <<listening, refreshing, uncovered>>

\* Variant: the timer set by another scheduling is left to run.
SetWithoutClearing(s) ==
  /\ s \in scheduling
  /\ scheduling' = scheduling \ {s}
  /\ \/ /\ running' = running \cup {s} /\ refreshTimer' = s.no
        /\ UNCHANGED uncovered
     \/ uncovered' = uncovered \cup {s.for} /\ UNCHANGED <<running, refreshTimer>>
  /\ UNCHANGED <<user, gone, listening, scheduledNo, refreshing, overtaken>>

\* The expiry is known: the timer is set, for the user scheduleRefresh was called
\* with.  Or the expiry could not be had, and nothing is set.
SetTimer(s) ==
  /\ s \in scheduling
  /\ scheduling' = scheduling \ {s}
  /\ \/ /\ running' = Cleared \cup {s} /\ refreshTimer' = s.no
        /\ UNCHANGED uncovered
     \/ uncovered' = uncovered \cup {s.for} /\ UNCHANGED <<running, refreshTimer>>
  /\ UNCHANGED <<user, gone, listening, scheduledNo, refreshing, overtaken>>

TimerRunsOut(t) ==
  /\ t \in running
  /\ running' = running \ {t}
  /\ refreshing' = refreshing \cup {[for |-> t.for, by |-> "timer"]}
  /\ UNCHANGED <<user, gone, listening, scheduling, scheduledNo, refreshTimer, uncovered,
                 overtaken>>

\* A GraphQL auth error forces a refresh, at any time.
AuthError ==
  /\ user # NoUser
  /\ refreshing' = refreshing \cup {[for |-> user, by |-> "apollo"]}
  /\ UNCHANGED <<user, gone, listening, scheduling, scheduledNo, running, refreshTimer,
                 uncovered, overtaken>>

\* Variant: the listener is only told who is signed in (onAuthStateChanged).
RefreshedUnheard(r) ==
  /\ r \in refreshing
  /\ refreshing' = refreshing \ {r}
  /\ UNCHANGED <<user, gone, listening, scheduling, scheduledNo, running, refreshTimer,
                 uncovered, overtaken>>

\* A new token is announced, to the listener of the user who is still signed in.
Refreshed(r) ==
  /\ r \in refreshing
  /\ refreshing' = refreshing \ {r}
  /\ IF r.for = user THEN Listener(user)
     ELSE UNCHANGED <<scheduling, scheduledNo, running, refreshTimer>>
  /\ UNCHANGED <<user, gone, listening, uncovered, overtaken>>

\* A failure of the timer's refresh is logged.
RefreshFails(r) ==
  /\ r \in refreshing /\ r.by = "timer"
  /\ refreshing' = refreshing \ {r}
  /\ uncovered' = uncovered \cup {r.for}
  /\ UNCHANGED <<user, gone, listening, scheduling, scheduledNo, running, refreshTimer,
                 overtaken>>

\* A failure of Apollo's loads the login page: everything starts anew, with the user
\* Firebase remembers.
Relogin(r) ==
  /\ r \in refreshing /\ r.by = "apollo"
  /\ scheduledNo < MaxTimers
  /\ listening' = TRUE /\ running' = {} /\ refreshTimer' = 0 /\ refreshing' = {}
  /\ scheduledNo' = scheduledNo + 1
  /\ scheduling' = {[no |-> scheduledNo', for |-> user] : x \in {user} \ {NoUser}}
  /\ uncovered' = {} /\ overtaken' = {}
  /\ UNCHANGED <<user, gone>>

\* The provider is unmounted.
StopListening ==
  /\ listening
  /\ listening' = FALSE
  /\ running' = Cleared /\ refreshTimer' = 0
  /\ overtaken' = overtaken \cup Overtaken
  /\ UNCHANGED <<user, gone, scheduling, scheduledNo, refreshing, uncovered>>

TokenNext ==
  \/ \E u \in Users : SignIn(u)
  \/ SignOut \/ AuthError \/ StopListening
  \/ \E s \in scheduling : SetTimer(s)
  \/ \E t \in running : TimerRunsOut(t)
  \/ \E r \in refreshing : Refreshed(r) \/ RefreshFails(r) \/ Relogin(r)

TokenSpec == TokenInit /\ [][TokenNext]_tokenVars
-----------------------------------------------------------------------------
(* Properties *)

\* No timer runs that the module cannot clear, whichever schedulings overlap.
TimerIsInReach == \A t \in running : t.no = refreshTimer

\* A timer runs for the user who is signed in and listened to, or for one whose
\* scheduling was under way when they left.
TimerIsForTheUser ==
  \A t \in running : (listening /\ t.for = user) \/ t.for \in overtaken

\* A signed-in user has a timer running, a scheduling or a refresh under way, unless
\* one of theirs failed, or the late scheduling of a user who had left took its place.
SessionIsCovered ==
  listening /\ user # NoUser =>
    \/ \E t \in running : t.for = user
    \/ \E s \in scheduling : s.for = user
    \/ \E r \in refreshing : r.for = user
    \/ user \in uncovered \/ overtaken # {}
=============================================================================
