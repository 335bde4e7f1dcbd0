----------------------------- MODULE FrontendProofs -----------------------------
(***************************************************************************)
(* What holds of three parts of the frontend for all values of their       *)
(* constants.  The token refresher: one timer within reach, for the user   *)
(* who is there, and no session left without one.  The escrow forms: the   *)
(* local copy of an escrow is never ahead of the contract, keeps up with   *)
(* what the user was told, a form deploys one contract, or was answered    *)
(* with a failure of what took effect, and what was paid adds up.  The     *)
(* limiter: a bounded table, no more than twice the limit in any stretch   *)
(* of time, no refusal before the limit is spent or after the wait it      *)
(* asked for.                                                              *)
(***************************************************************************)
EXTENDS EscrowClient, RateLimit, TokenRefresh, FiniteSetTheorems, TLAPS

-----------------------------------------------------------------------------
(* The token refresher *)

TokenTypes ==
  /\ user \in Users \cup {NoUser} /\ gone \subseteq Users
  /\ listening \in BOOLEAN
  /\ scheduling \subseteq [no : Nat, for : Users]
  /\ running \subseteq [no : Nat, for : Users]
  /\ refreshing \subseteq [for : Users, by : {"timer", "apollo"}]
  /\ scheduledNo \in Nat /\ refreshTimer \in Nat
  /\ uncovered \subseteq Users /\ overtaken \subseteq Users

\* A scheduling is the current user's, or its user is known to have left.
SchedulingIsForTheUser ==
  \A s \in scheduling : (listening /\ s.for = user) \/ s.for \in overtaken

\* A timer is what a scheduling turns into, and a late scheduling is what takes a
\* session's timer away: the three properties need each other and the schedulings.
TokenInv ==
  /\ TokenTypes
  /\ TimerIsInReach
  /\ SchedulingIsForTheUser
  /\ TimerIsForTheUser
  /\ SessionIsCovered

LEMMA TokenInitial == TokenInit => TokenInv
BY TokenRefreshAssumption
   DEF TokenInit, TokenInv, TokenTypes, TimerIsInReach, SchedulingIsForTheUser,
       TimerIsForTheUser, SessionIsCovered

\* With every timer in reach, clearTimer leaves none.
LEMMA NothingCleared == TimerIsInReach => Cleared = {}
BY DEF TimerIsInReach, Cleared

LEMMA TokenStep == TokenInv /\ [TokenNext]_tokenVars => TokenInv'
<1> SUFFICES ASSUME TokenInv, [TokenNext]_tokenVars PROVE TokenInv'
  OBVIOUS
<1> USE TokenRefreshAssumption
        DEF TokenInv, TokenTypes, TimerIsInReach, SchedulingIsForTheUser,
            TimerIsForTheUser, SessionIsCovered
<1>0. Cleared = {}
  BY NothingCleared
<1>1. ASSUME NEW u \in Users, SignIn(u) PROVE TokenInv'
  <2>1. TokenTypes'
    BY <1>0, <1>1 DEF SignIn, Listener
  <2>2. TimerIsInReach'
    BY <1>0, <1>1 DEF SignIn, Listener
  <2>3. SchedulingIsForTheUser'
    BY <1>0, <1>1 DEF SignIn, Listener
  <2>4. TimerIsForTheUser'
    BY <1>0, <1>1 DEF SignIn, Listener
  <2>5. SessionIsCovered'
    <3>1. CASE listening
      <4>1. [no |-> scheduledNo', for |-> u] \in scheduling' /\ user' = u
        BY <1>1, <3>1 DEF SignIn, Listener
      <4> QED
        BY <4>1
    <3>2. CASE ~listening
      BY <1>1, <3>2 DEF SignIn
    <3> QED
      BY <3>1, <3>2
  <2> QED
    BY <2>1, <2>2, <2>3, <2>4, <2>5
<1>2. ASSUME SignOut PROVE TokenInv'
  BY <1>0, <1>2 DEF SignOut, Listener, Overtaken
<1>3. ASSUME AuthError PROVE TokenInv'
  BY <1>3 DEF AuthError
<1>4. ASSUME StopListening PROVE TokenInv'
  BY <1>0, <1>4 DEF StopListening, Overtaken
<1>5. ASSUME NEW s \in scheduling, SetTimer(s) PROVE TokenInv'
  BY <1>0, <1>5 DEF SetTimer
<1>6. ASSUME NEW t \in running, TimerRunsOut(t) PROVE TokenInv'
  <2>1. TokenTypes'
    BY <1>6 DEF TimerRunsOut
  <2>2. TimerIsInReach'
    BY <1>6 DEF TimerRunsOut
  <2>3. SchedulingIsForTheUser'
    BY <1>6 DEF TimerRunsOut
  <2>4. TimerIsForTheUser'
    BY <1>6 DEF TimerRunsOut
  <2>5. SessionIsCovered'
    <3>1. \E r \in refreshing' : r.for = t.for
      <4>1. [for |-> t.for, by |-> "timer"] \in refreshing'
        BY <1>6 DEF TimerRunsOut
      <4> QED
        BY <4>1
    <3>2. \A x \in running : x = t \/ x \in running'
      BY <1>6 DEF TimerRunsOut
    <3>3. refreshing \subseteq refreshing'
      BY <1>6 DEF TimerRunsOut
    <3> QED
      BY <1>6, <3>1, <3>2, <3>3 DEF TimerRunsOut
  <2> QED
    BY <2>1, <2>2, <2>3, <2>4, <2>5
<1>7. ASSUME NEW r \in refreshing, Refreshed(r) PROVE TokenInv'
  <2>1. TokenTypes'
    <3>1. refreshing' = refreshing \ {r} /\ UNCHANGED <<user, gone, listening, uncovered, overtaken>>
      BY <1>7 DEF Refreshed
    <3>2. running' \subseteq running /\ refreshTimer' \in {0, refreshTimer}
      BY <1>7 DEF Refreshed, Listener, Cleared
    <3>3. CASE scheduledNo' = scheduledNo /\ scheduling' = scheduling
      BY <3>1, <3>2, <3>3
    <3>4. CASE /\ scheduledNo' = scheduledNo + 1 /\ user # NoUser
               /\ scheduling' = scheduling \cup {[no |-> scheduledNo', for |-> user]}
      <4>1. scheduling' \subseteq [no : Nat, for : Users] /\ scheduledNo' \in Nat
        BY <3>4
      <4> QED
        BY <3>1, <3>2, <4>1
    <3> QED
      BY <1>7, <3>3, <3>4 DEF Refreshed, Listener
  <2>2. TimerIsInReach'
    BY <1>0, <1>7 DEF Refreshed, Listener
  <2>3. SchedulingIsForTheUser'
    BY <1>0, <1>7 DEF Refreshed, Listener
  <2>4. TimerIsForTheUser'
    BY <1>0, <1>7 DEF Refreshed, Listener
  <2>5. SessionIsCovered'
    BY <1>0, <1>7 DEF Refreshed, Listener
  <2> QED
    BY <2>1, <2>2, <2>3, <2>4, <2>5
<1>8. ASSUME NEW r \in refreshing, RefreshFails(r) PROVE TokenInv'
  BY <1>8 DEF RefreshFails
<1>9. ASSUME NEW r \in refreshing, Relogin(r) PROVE TokenInv'
  <2>1. TokenTypes'
    BY <1>9 DEF Relogin
  <2>2. TimerIsInReach'
    BY <1>9 DEF Relogin
  <2>3. SchedulingIsForTheUser'
    BY <1>9 DEF Relogin
  <2>4. TimerIsForTheUser'
    BY <1>9 DEF Relogin
  <2>5. SessionIsCovered'
    <3>1. user # NoUser => [no |-> scheduledNo', for |-> user] \in scheduling'
      BY <1>9 DEF Relogin
    <3> QED
      BY <1>9, <3>1 DEF Relogin
  <2> QED
    BY <2>1, <2>2, <2>3, <2>4, <2>5
<1>10. ASSUME UNCHANGED tokenVars PROVE TokenInv'
  BY <1>10 DEF tokenVars
<1> QED
  BY <1>1, <1>2, <1>3, <1>4, <1>5, <1>6, <1>7, <1>8, <1>9, <1>10 DEF TokenNext

LEMMA TokenInvariant == TokenSpec => []TokenInv
BY TokenInitial, TokenStep, PTL DEF TokenSpec

\* Whichever schedulings overlap, clearTimer reaches every timer that runs.
THEOREM OneTimerInReach == TokenSpec => []TimerIsInReach
<1>1. TokenInv => TimerIsInReach
  BY DEF TokenInv
<1> QED
  BY <1>1, TokenInvariant, PTL

\* A timer runs for the user who is there, or for one who left while scheduled.
THEOREM TimerForTheUser == TokenSpec => []TimerIsForTheUser
<1>1. TokenInv => TimerIsForTheUser
  BY DEF TokenInv
<1> QED
  BY <1>1, TokenInvariant, PTL

\* Every variable of the refresher keeps its type.
THEOREM TokenTypeCorrect == TokenSpec => []TokenTypes
<1>1. TokenInv => TokenTypes
  BY DEF TokenInv
<1> QED
  BY <1>1, TokenInvariant, PTL

\* A signed-in user's token will be refreshed, unless that failed for them or an
\* earlier user's late scheduling took the timer away.
THEOREM SessionCovered == TokenSpec => []SessionIsCovered
<1>1. TokenInv => SessionIsCovered
  BY DEF TokenInv
<1> QED
  BY <1>1, TokenInvariant, PTL

-----------------------------------------------------------------------------
(* The escrow forms *)

Escrows == [contract : Contracts, balance : Nat \cup {-1}, flags : SUBSET Flags]
Ops == {"deploy", "fund"} \cup Flags
Forms == [op : Ops, seen : Escrows \cup {NoEscrow}]
OnChain == [paid : Nat, flags : SUBSET Flags]

ClientTypes ==
  /\ chain \in [Contracts -> OnChain \cup {NotDeployed}]
  /\ selected \in Escrows \cup {NoEscrow} /\ stored \in Escrows \cup {NoEscrow}
  /\ formPc \in [Submits -> {"idle", "checking", "fetching", "sending", "sent",
                             "waiting", "done"}]
  /\ form \in [Submits -> Forms \cup {NoForm}]
  /\ tries \in [Submits -> Nat]
  /\ outcome \in [Submits -> {"none", "success", "error", "lost"}]
  /\ deployed \in [Submits -> Seq(Contracts)]
  /\ afloat \subseteq Submits \X Nat
  /\ doubtful \subseteq Submits /\ crossed \subseteq Submits

\* What each stage of a submission may rely on.
Stages ==
  \A s \in Submits :
    /\ formPc[s] # "idle" => form[s] \in Forms
    /\ formPc[s] = "idle" => deployed[s] = <<>> /\ s \notin crossed
    /\ formPc[s] \in {"sending", "sent"} /\ form[s].op # "deploy" => form[s].seen \in Escrows
    /\ formPc[s] = "sent" /\ form[s].op = "deploy" => Len(deployed[s]) > 0
    /\ formPc[s] = "waiting" => form[s].op = "deploy"

\* A transaction given up on was sent; another than a deployment, once and at the end.
OnTheWay ==
  \A s \in Submits, t \in Nat : <<s, t>> \in afloat =>
    /\ formPc[s] # "idle"
    /\ form[s].op # "deploy" =>
         form[s].seen \in Escrows /\ formPc[s] = "done" /\ t = tries[s]

\* The transactions that may be on their way.
LEMMA SentIs ==
  ASSUME ClientTypes, NEW given \in SUBSET Submits
  PROVE  /\ Sent(given) \subseteq Submits \X Nat
         /\ \A x \in Submits, t \in Nat :
              <<x, t>> \in Sent(given) <=> x \in given /\ formPc[x] = "sending" /\ t = tries[x]
BY DEF Sent, ClientTypes

LEMMA ClientKinds ==
  /\ NoEscrow \notin Escrows /\ NoForm \notin Forms /\ NotDeployed \notin OnChain
  /\ \A k \in Contracts : Fresh(k) \in Escrows
<1>1. NoEscrow \notin Escrows
  <2>1. \A e \in Escrows : DOMAIN e = {"contract", "balance", "flags"}
    BY DEF Escrows
  <2>2. DOMAIN NoEscrow = {"contract"} /\ "flags" # "contract"
    BY DEF NoEscrow
  <2> QED BY <2>1, <2>2
<1>2. NoForm \notin Forms
  <2>1. \A f \in Forms : DOMAIN f = {"op", "seen"}
    BY DEF Forms
  <2>2. DOMAIN NoForm = {"op"} /\ "seen" # "op"
    BY DEF NoForm
  <2> QED BY <2>1, <2>2
<1>3. NotDeployed \notin OnChain
  BY DEF NotDeployed, OnChain
<1>4. \A k \in Contracts : Fresh(k) \in Escrows
  BY DEF Fresh, Escrows
<1> QED BY <1>1, <1>2, <1>3, <1>4

\* What a form applies is an escrow again, about the same contract.
LEMMA AppliedIs ==
  ASSUME NEW f \in Forms, f.seen \in Escrows
  PROVE  /\ Applied(f) \in Escrows
         /\ Applied(f).contract = f.seen.contract
         /\ Applied(f).flags = f.seen.flags \cup (Flags \cap {f.op})
         /\ Applied(f).balance = IF f.op = "fund" THEN Balance(f.seen) + 1 ELSE f.seen.balance
         /\ Balance(f.seen) \in Nat
<1> DEFINE b == IF f.op = "fund" THEN Balance(f.seen) + 1 ELSE f.seen.balance
           g == f.seen.flags \cup (Flags \cap {f.op})
<1>1. Balance(f.seen) \in Nat /\ b \in Nat \cup {-1} /\ g \in SUBSET Flags
  BY DEF Escrows, Balance
<1>2. Applied(f) = [[f.seen EXCEPT !.balance = b] EXCEPT !.flags = g]
  BY DEF Applied, Escrows
<1> HIDE DEF b, g
<1>3. Applied(f) \in Escrows /\ Applied(f).contract = f.seen.contract
      /\ Applied(f).flags = g /\ Applied(f).balance = b
  BY <1>1, <1>2 DEF Escrows
<1> QED BY <1>1, <1>3 DEF b, g

\* Whatever the browser knows of is on the chain.
OnTheChain ==
  /\ \A e \in Known : chain[e.contract] \in OnChain
  /\ \A s \in Submits :
       /\ form[s] \in Forms /\ form[s].seen \in Escrows =>
            chain[form[s].seen.contract] \in OnChain
       /\ \A i \in 1 .. Len(deployed[s]) : chain[deployed[s][i]] \in OnChain

ShapeInv == ClientTypes /\ Stages /\ OnTheWay /\ OnTheChain

\* A sequence with one more element somewhere.
OneMore(old, longer, k) ==
  /\ Len(old) \in Nat /\ Len(longer) = Len(old) + 1
  /\ \A i \in 1 .. Len(longer) : longer[i] = k \/ \E j \in 1 .. Len(old) : longer[i] = old[j]

LEMMA Longer ==
  ASSUME NEW S, NEW q \in Seq(S), NEW k \in S
  PROVE  /\ Append(q, k) \in Seq(S) /\ OneMore(q, Append(q, k), k)
         /\ <<k>> \o q \in Seq(S) /\ OneMore(q, <<k>> \o q, k)
<1>1. Append(q, k) \in Seq(S) /\ OneMore(q, Append(q, k), k)
  BY DEF OneMore
<1>2. /\ <<k>> \o q \in Seq(S) /\ Len(q) \in Nat /\ Len(<<k>> \o q) = Len(q) + 1
      /\ \A i \in 1 .. Len(<<k>> \o q) : (<<k>> \o q)[i] = IF i = 1 THEN k ELSE q[i - 1]
  OBVIOUS
<1>3. \A i \in 1 .. Len(q) + 1 : i = 1 \/ i - 1 \in 1 .. Len(q)
  BY <1>2
<1> QED BY <1>1, <1>2, <1>3 DEF OneMore

\* A transaction takes effect on one contract, and what was done to a contract stays.
LEMMA Effect ==
  ASSUME ShapeInv, NEW s \in Submits, Send(s) \/ Land(s)
  PROVE  /\ form[s].op = "deploy" =>
              \E k \in Contracts, longer \in Seq(Contracts) :
                /\ chain[k] = NotDeployed
                /\ chain' = [chain EXCEPT ![k] = [paid |-> 0, flags |-> {}]]
                /\ deployed' = [deployed EXCEPT ![s] = longer]
                /\ OneMore(deployed[s], longer, k)
         /\ form[s].op # "deploy" =>
              LET k == form[s].seen.contract
              IN  /\ k \in Contracts /\ chain[k] \in OnChain /\ deployed' = deployed
                  /\ \A j \in Contracts \ {k} : chain'[j] = chain[j]
                  /\ chain'[k].paid = chain[k].paid + (IF form[s].op = "fund" THEN 1 ELSE 0)
                  /\ chain'[k].flags = chain[k].flags \cup (Flags \cap {form[s].op})
         /\ chain' \in [Contracts -> OnChain \cup {NotDeployed}]
         /\ \A k \in Contracts : chain[k] \in OnChain =>
              /\ chain'[k] \in OnChain /\ chain[k].flags \subseteq chain'[k].flags
              /\ chain[k].paid <= chain'[k].paid
<1> USE ClientKinds DEF ShapeInv, ClientTypes, Stages, OnTheChain
<1>a. form[s] \in Forms /\ (form[s].op # "deploy" => form[s].seen \in Escrows)
  BY DEF Send, Land, OnTheWay
<1>b. PICK late \in BOOLEAN : TakesEffect(s, late)
  BY DEF Send, Land
<1>1. CASE form[s].op = "deploy"
  <2>1. PICK k \in Contracts :
          /\ chain[k] = NotDeployed
          /\ chain' = [chain EXCEPT ![k] = [paid |-> 0, flags |-> {}]]
          /\ deployed' = [deployed EXCEPT ![s] = IF late THEN <<k>> \o @ ELSE Append(@, k)]
    BY <1>1, <1>b DEF TakesEffect
  <2> DEFINE longer == IF late THEN <<k>> \o deployed[s] ELSE Append(deployed[s], k)
  <2>2. longer \in Seq(Contracts) /\ OneMore(deployed[s], longer, k)
    BY Longer
  <2>3. deployed' = [deployed EXCEPT ![s] = longer]
    BY <2>1
  <2> HIDE DEF longer
  <2>4. [paid |-> 0, flags |-> {}] \in OnChain
    BY DEF OnChain
  <2>5. \A j \in Contracts : chain[j] \in OnChain => chain'[j] = chain[j]
    BY <2>1
  <2>6. \A j \in Contracts : chain[j] \in OnChain => chain[j].paid <= chain[j].paid
    BY DEF OnChain
  <2>7. chain' \in [Contracts -> OnChain \cup {NotDeployed}]
    BY <2>1, <2>4
  <2> QED BY <1>1, <2>1, <2>2, <2>3, <2>5, <2>6, <2>7
<1>2. CASE form[s].op # "deploy"
  <2> DEFINE k == form[s].seen.contract
             r == [paid |-> chain[k].paid + (IF form[s].op = "fund" THEN 1 ELSE 0),
                   flags |-> chain[k].flags \cup (Flags \cap {form[s].op})]
  <2>1. form[s] \in Forms /\ form[s].seen \in Escrows
    BY <1>2, <1>a
  <2>2. k \in Contracts /\ chain[k] \in OnChain
    BY <2>1 DEF Escrows
  <2>3. chain' = [chain EXCEPT ![k] = r] /\ deployed' = deployed
    BY <1>2, <1>b DEF TakesEffect
  <2>4. /\ r \in OnChain /\ chain[k].flags \subseteq r.flags /\ chain[k].paid <= r.paid
        /\ r.paid = chain[k].paid + (IF form[s].op = "fund" THEN 1 ELSE 0)
        /\ r.flags = chain[k].flags \cup (Flags \cap {form[s].op})
    BY <2>2 DEF OnChain
  <2> HIDE DEF r, k
  <2>5. /\ chain'[k] = r /\ \A j \in Contracts \ {k} : chain'[j] = chain[j]
        /\ chain' \in [Contracts -> OnChain \cup {NotDeployed}]
    BY <2>2, <2>3, <2>4
  <2>6. \A j \in Contracts : chain[j] \in OnChain => chain[j].paid <= chain[j].paid
    BY DEF OnChain
  <2> QED BY <1>2, <2>2, <2>3, <2>4, <2>5, <2>6 DEF k
<1> QED BY <1>1, <1>2

\* What a success does to the local copy.
LEMMA Local ==
  ASSUME ShapeInv, NEW s \in Submits, Succeed(s)
  PROVE  /\ form[s].op = "deploy" =>
              LET k == deployed[s][Len(deployed[s])]
              IN  /\ Len(deployed[s]) \in 1 .. Len(deployed[s])
                  /\ k \in Contracts /\ chain[k] \in OnChain
                  /\ selected' = Fresh(k) /\ stored' = stored
         /\ form[s].op # "deploy" =>
              LET f == form[s]
              IN  /\ f \in Forms /\ f.seen \in Escrows /\ chain[f.seen.contract] \in OnChain
                  /\ selected = NoEscrow => selected' = selected /\ stored' = stored
                  /\ selected # NoEscrow =>
                       /\ selected' \in Escrows /\ stored' = selected'
                       /\ selected'.contract = f.seen.contract
                       /\ selected'.flags = f.seen.flags \cup (Flags \cap {f.op})
                       /\ selected'.balance =
                            IF Applied(f).balance = -1 THEN selected.balance
                            ELSE Applied(f).balance
<1> USE ClientKinds DEF ShapeInv, ClientTypes, Stages, OnTheChain
<1>1. CASE form[s].op = "deploy"
  <2>1. Len(deployed[s]) > 0 /\ deployed[s] \in Seq(Contracts)
    BY <1>1 DEF Succeed
  <2>2. Len(deployed[s]) \in 1 .. Len(deployed[s])
    BY <2>1
  <2>3. selected' = Fresh(deployed[s][Len(deployed[s])]) /\ stored' = stored
    BY <1>1 DEF Succeed, ApplyLocally, Last
  <2> QED BY <1>1, <2>1, <2>2, <2>3
<1>2. CASE form[s].op # "deploy"
  <2> DEFINE f == form[s]
             a == Applied(f)
             b == IF a.balance = -1 THEN selected.balance ELSE a.balance
  <2>1. f \in Forms /\ f.seen \in Escrows /\ chain[f.seen.contract] \in OnChain
    BY <1>2 DEF Succeed
  <2>2. /\ a \in Escrows /\ a.contract = f.seen.contract
        /\ a.flags = f.seen.flags \cup (Flags \cap {f.op})
    BY <2>1, AppliedIs
  <2>3. Update(a)
    BY <1>2 DEF Succeed, ApplyLocally
  <2> HIDE DEF f, a
  <2>4. CASE selected = NoEscrow
    BY <1>2, <2>1, <2>3, <2>4 DEF Update, f
  <2>5. CASE selected # NoEscrow
    <3>1. selected' = [contract |-> a.contract, flags |-> a.flags, balance |-> b]
          /\ stored' = selected'
      BY <2>3, <2>5 DEF Update
    <3>2. a.contract \in Contracts /\ a.flags \in SUBSET Flags /\ b \in Nat \cup {-1}
      BY <2>2, <2>5 DEF Escrows
    <3> HIDE DEF b
    <3>3. /\ selected' \in Escrows /\ selected'.contract = a.contract
          /\ selected'.flags = a.flags /\ selected'.balance = b
      BY <3>1, <3>2 DEF Escrows
    <3> QED BY <1>2, <2>1, <2>2, <2>5, <3>1, <3>3 DEF b, f, a
  <2> QED BY <2>4, <2>5
<1> QED BY <1>1, <1>2

LEMMA ShapeStep == ShapeInv /\ [ClientNext]_clientVars => ShapeInv'
<1> SUFFICES ASSUME ShapeInv, [ClientNext]_clientVars PROVE ShapeInv'
  OBVIOUS
<1> USE ClientKinds DEF ShapeInv, ClientTypes, Stages, OnTheChain
<1>1. ASSUME NEW s \in Submits, NEW op \in Ops, SubmitForm(s, [op |-> op, seen |-> selected])
      PROVE  ShapeInv'
  <2> DEFINE f == [op |-> op, seen |-> selected]
  <2>1. f \in Forms /\ f.seen = selected
    BY DEF Forms
  <2> HIDE DEF f
  <2>2. SubmitForm(s, f)
    BY <1>1 DEF f
  <2>3. ClientTypes'
    BY <2>1, <2>2 DEF SubmitForm, Underway, FormGoto
  <2>4. Stages'
    BY <2>1, <2>2 DEF SubmitForm, Underway, FormGoto
  <2>5. OnTheWay'
    <3>1. /\ UNCHANGED afloat /\ formPc[s] = "idle"
          /\ \A x \in Submits \ {s} : formPc'[x] = formPc[x] /\ form'[x] = form[x]
                                      /\ tries'[x] = tries[x]
      BY <2>2 DEF SubmitForm, FormGoto
    <3> QED BY <3>1 DEF OnTheWay
  <2>6. OnTheChain'
    BY <2>1, <2>2 DEF SubmitForm, Known
  <2> QED BY <2>3, <2>4, <2>5, <2>6
<1>2. ASSUME NEW s \in Submits, EnsureTrustline(s) \/ FetchAndSign(s) \/ TryAgain(s) \/ Fail(s)
      PROVE  ShapeInv'
  <2>1. CASE EnsureTrustline(s)
    <3>1. ClientTypes' /\ Stages' /\ OnTheChain'
      BY <2>1 DEF EnsureTrustline, FormGoto, Show, Known
    <3>2. /\ UNCHANGED <<afloat, form, tries>> /\ formPc[s] = "checking"
          /\ formPc'[s] # "idle" /\ \A x \in Submits \ {s} : formPc'[x] = formPc[x]
      BY <2>1 DEF EnsureTrustline, FormGoto, Show
    <3> QED BY <3>1, <3>2 DEF OnTheWay
  <2>2. CASE FetchAndSign(s)
    <3>1. ClientTypes' /\ Stages' /\ OnTheChain'
      BY <2>2 DEF FetchAndSign, FormGoto, Forms, Known
    <3>2. /\ UNCHANGED <<afloat, form, tries>> /\ formPc[s] = "fetching"
          /\ formPc'[s] # "idle" /\ \A x \in Submits \ {s} : formPc'[x] = formPc[x]
      BY <2>2 DEF FetchAndSign, FormGoto
    <3> QED BY <3>1, <3>2 DEF OnTheWay
  <2>3. CASE TryAgain(s)
    <3>1. ClientTypes' /\ Stages' /\ OnTheChain'
      <4>1. ClientTypes'
        BY <2>3 DEF TryAgain, FormGoto
      <4>2. Stages'
        BY <2>3 DEF TryAgain, FormGoto
      <4>3. OnTheChain'
        BY <2>3 DEF TryAgain, Known
      <4> QED BY <4>1, <4>2, <4>3
    <3>2. /\ UNCHANGED <<afloat, form>> /\ formPc[s] = "waiting"
          /\ formPc'[s] # "idle" /\ form[s].op = "deploy"
          /\ \A x \in Submits \ {s} : formPc'[x] = formPc[x] /\ tries'[x] = tries[x]
      BY <2>3 DEF TryAgain, FormGoto
    <3>3. OnTheWay'
      BY <3>2 DEF OnTheWay
    <3> QED BY <3>1, <3>3
  <2>4. CASE Fail(s)
    <3>1. \E l \in {"waiting", "done"} : formPc' = [formPc EXCEPT ![s] = l]
      BY <2>4 DEF Fail, FormGoto, Show
    <3>2. outcome' \in {outcome, [outcome EXCEPT ![s] = "error"]}
      BY <2>4 DEF Fail, Show
    <3>3. /\ afloat' = afloat \cup Sent({s}) /\ Sent({s}) \subseteq Submits \X Nat
          /\ \A x \in Submits, t \in Nat :
               <<x, t>> \in Sent({s}) <=> x = s /\ formPc[x] = "sending" /\ t = tries[x]
      <4>1. {s} \in SUBSET Submits
        OBVIOUS
      <4>2. afloat' = afloat \cup Sent({s})
        BY <2>4 DEF Fail
      <4> HIDE DEF ShapeInv, ClientTypes, Stages, OnTheChain
      <4>3. ClientTypes
        BY DEF ShapeInv
      <4> QED BY <4>1, <4>2, <4>3, SentIs
    <3>4. form[s].op # "deploy" => formPc' = [formPc EXCEPT ![s] = "done"]
      BY <2>4 DEF Fail, Show, FormGoto, CanRetry
    <3>5. ClientTypes'
      BY <2>4, <3>1, <3>2, <3>3, ZenonT(60) DEF Fail
    <3>6. Stages'
      <4>1. /\ UNCHANGED <<form, deployed, crossed>> /\ formPc[s] # "idle"
            /\ formPc'[s] \in {"waiting", "done"}
            /\ \A x \in Submits \ {s} : formPc'[x] = formPc[x]
            /\ formPc'[s] = "waiting" => form[s].op = "deploy"
        BY <2>4, <3>1, <3>4 DEF Fail
      <4> QED BY <4>1
    <3>7. OnTheWay'
      <4>1. /\ UNCHANGED <<form, tries>> /\ formPc'[s] \in {"waiting", "done"}
            /\ \A x \in Submits \ {s} : formPc'[x] = formPc[x]
            /\ form[s].op # "deploy" => formPc'[s] = "done"
        BY <2>4, <3>1, <3>4 DEF Fail
      <4> QED BY <3>3, <4>1 DEF OnTheWay
    <3>8. OnTheChain'
      BY <2>4 DEF Fail, Known
    <3> QED BY <3>5, <3>6, <3>7, <3>8
  <2> QED BY <1>2, <2>1, <2>2, <2>3, <2>4
<1>3. ASSUME NEW s \in Submits, Send(s) \/ Land(s)
      PROVE  ShapeInv'
  <2>1. /\ UNCHANGED <<selected, stored, form, tries, outcome, crossed>>
        /\ afloat' \subseteq afloat /\ doubtful' \subseteq doubtful \cup {s}
        /\ form[s] \in Forms
        /\ \/ /\ formPc[s] = "sending" /\ formPc' = [formPc EXCEPT ![s] = "sent"]
              /\ form[s].op # "deploy" => form[s].seen \in Escrows
           \/ formPc' = formPc /\ formPc[s] # "idle"
    <3>1. CASE Send(s)
      BY <3>1 DEF Send, FormGoto
    <3>2. CASE Land(s)
      BY <3>2 DEF Land, OnTheWay
    <3> QED BY <1>3, <3>1, <3>2
  <2>2. /\ chain' \in [Contracts -> OnChain \cup {NotDeployed}]
        /\ \A k \in Contracts : chain[k] \in OnChain => chain'[k] \in OnChain
    BY <1>3, Effect
  <2>a. OnTheWay'
    <3>1. /\ UNCHANGED <<form, tries>> /\ afloat' \subseteq afloat
      BY <2>1
    <3>2. CASE formPc' = formPc
      BY <3>1, <3>2 DEF OnTheWay
    <3>3. CASE formPc[s] = "sending" /\ formPc' = [formPc EXCEPT ![s] = "sent"]
      <4>1. formPc'[s] = "sent" /\ \A x \in Submits \ {s} : formPc'[x] = formPc[x]
        BY <3>3
      <4> QED BY <3>1, <3>3, <4>1 DEF OnTheWay
    <3> QED BY <2>1, <3>2, <3>3
  <2>3. CASE form[s].op = "deploy"
    <3>1. PICK k \in Contracts, longer \in Seq(Contracts) :
            /\ chain' = [chain EXCEPT ![k] = [paid |-> 0, flags |-> {}]]
            /\ deployed' = [deployed EXCEPT ![s] = longer]
            /\ OneMore(deployed[s], longer, k)
      BY <1>3, <2>3, Effect
    <3>2. Len(longer) > 0
      BY <3>1 DEF OneMore
    <3>3. ClientTypes'
      BY <2>1, <2>2, <3>1
    <3>4. Stages'
      BY <2>1, <2>3, <3>1, <3>2
    <3>5. chain'[k] \in OnChain
      BY <3>1 DEF OnChain
    <3>6. \A i \in 1 .. Len(longer) : chain'[longer[i]] \in OnChain
      <4>1. \A i \in 1 .. Len(deployed[s]) :
              deployed[s][i] \in Contracts /\ chain'[deployed[s][i]] \in OnChain
        BY <2>2
      <4> QED BY <3>1, <3>5, <4>1 DEF OneMore
    <3>7. OnTheChain'
      BY <2>1, <2>2, <3>1, <3>6 DEF Known, Escrows
    <3> QED BY <2>a, <3>3, <3>4, <3>7
  <2>4. CASE form[s].op # "deploy"
    <3>1. deployed' = deployed
      BY <1>3, <2>4, Effect
    <3>2. ClientTypes' /\ Stages'
      BY <2>1, <2>2, <2>4, <3>1
    <3>3. OnTheChain'
      BY <2>1, <2>2, <3>1 DEF Known, Escrows
    <3> QED BY <2>a, <3>2, <3>3
  <2> QED BY <2>3, <2>4
<1>4. ASSUME NEW s \in Submits, Succeed(s)
      PROVE  ShapeInv'
  <2>1. /\ formPc' = [formPc EXCEPT ![s] = "done"] /\ outcome' = [outcome EXCEPT ![s] = "success"]
        /\ UNCHANGED <<chain, form, tries, deployed, afloat, doubtful, crossed>>
        /\ formPc[s] = "sent"
    BY <1>4 DEF Succeed, Show, FormGoto
  <2>2. /\ selected' \in Escrows \cup {NoEscrow} /\ stored' \in {stored, selected'}
        /\ selected' # NoEscrow => chain[selected'.contract] \in OnChain
    <3>1. CASE form[s].op = "deploy"
      BY <1>4, <3>1, Local DEF Fresh
    <3>2. CASE form[s].op # "deploy"
      BY <1>4, <3>2, Local
    <3> QED BY <3>1, <3>2
  <2>3. ClientTypes' /\ Stages'
    BY <2>1, <2>2
  <2>4. OnTheWay'
    <3>1. /\ UNCHANGED <<form, tries, afloat>> /\ formPc[s] = "sent" /\ formPc'[s] = "done"
          /\ \A x \in Submits \ {s} : formPc'[x] = formPc[x]
      BY <2>1
    <3> QED BY <3>1 DEF OnTheWay
  <2>5. OnTheChain'
    BY <2>1, <2>2 DEF Known
  <2> QED BY <2>3, <2>4, <2>5
<1>5. CASE Reload
  <2>1. /\ afloat' = afloat \cup Sent(Underway) /\ Sent(Underway) \subseteq Submits \X Nat
        /\ \A x \in Submits, t \in Nat :
             <<x, t>> \in Sent(Underway) <=> formPc[x] = "sending" /\ t = tries[x]
    <3>1. /\ Underway \in SUBSET Submits
          /\ \A x \in Submits : formPc[x] = "sending" => x \in Underway
      BY DEF Underway
    <3>2. afloat' = afloat \cup Sent(Underway)
      BY <1>5 DEF Reload
    <3> HIDE DEF ShapeInv, ClientTypes, Stages, OnTheChain
    <3>3. ClientTypes
      BY DEF ShapeInv
    <3> QED BY <3>1, <3>2, <3>3, SentIs
  <2>2. ClientTypes'
    BY <1>5, <2>1 DEF Reload, Underway
  <2>3. Stages'
    BY <1>5 DEF Reload, Underway
  <2>4. OnTheWay'
    <3>1. /\ UNCHANGED <<form, tries>>
          /\ \A x \in Submits : IF formPc[x] \in {"idle", "done"} THEN formPc'[x] = formPc[x]
                                ELSE formPc'[x] = "done"
      BY <1>5 DEF Reload, Underway
    <3> QED BY <2>1, <3>1 DEF OnTheWay
  <2>5. OnTheChain'
    BY <1>5 DEF Reload, Known
  <2> QED BY <2>2, <2>3, <2>4, <2>5
<1>6. CASE UNCHANGED clientVars
  BY <1>6 DEF clientVars, Known, OnTheWay
<1> QED BY <1>1, <1>2, <1>3, <1>4, <1>5, <1>6 DEF ClientNext, ClientStep, Ops

LEMMA ShapeInitial == ClientInit => ShapeInv
BY ClientKinds DEF ClientInit, ShapeInv, ClientTypes, Stages, OnTheWay, OnTheChain, Known

LEMMA ShapeInvariant == ClientSpec => []ShapeInv
BY ShapeInitial, ShapeStep, PTL DEF ClientSpec

\* Every variable of the forms keeps its type.
THEOREM ClientTypeCorrect == ClientSpec => []ClientTypes
<1>1. ShapeInv => ClientTypes
  BY DEF ShapeInv
<1> QED BY <1>1, ShapeInvariant, PTL

\* The attempts of a submission that may still take effect.
Pending(s) == {t \in 1 .. MaxAttempts : <<s, t>> \in afloat}

\* Each attempt deploys once at most, now or later; what an earlier attempt
\* deployed was not answered as a success.
Deploys(s) ==
  /\ formPc[s] # "idle" => tries[s] \in 1 .. MaxAttempts
  /\ formPc[s] = "idle" => Pending(s) = {}
  /\ formPc[s] = "waiting" => tries[s] < MaxAttempts
  /\ \A t \in Pending(s) :
       t <= tries[s] /\ (formPc[s] \in {"checking", "fetching", "sending", "sent"} => t < tries[s])
  /\ Len(deployed[s]) + Cardinality(Pending(s)) <= tries[s]
  /\ formPc[s] \in {"checking", "fetching", "sending"} =>
       Len(deployed[s]) + Cardinality(Pending(s)) < tries[s]
  /\ formPc[s] \in {"checking", "fetching", "sending", "waiting"} /\ Len(deployed[s]) > 0 =>
       s \in doubtful
  /\ Len(deployed[s]) > 1 => s \in doubtful

DeployInv == afloat \subseteq Submits \X (1 .. MaxAttempts) /\ \A s \in Submits : Deploys(s)

LEMMA PendingCount ==
  ASSUME NEW s \in Submits
  PROVE  IsFiniteSet(Pending(s)) /\ Cardinality(Pending(s)) \in Nat
<1>1. IsFiniteSet(1 .. MaxAttempts)
  BY EscrowClientAssumption, FS_Interval
<1>2. Pending(s) \subseteq 1 .. MaxAttempts
  BY DEF Pending
<1> QED BY <1>1, <1>2, FS_Subset, FS_CardinalityType

LEMMA PendingMore ==
  ASSUME NEW r \in Submits, NEW more, afloat' = afloat \cup more
  PROVE  Pending(r)' = Pending(r) \cup {t \in 1 .. MaxAttempts : <<r, t>> \in more}
BY DEF Pending

\* A step that moves a submission on, gives up nothing that was sent and deploys nothing.
LEMMA DeployMoves ==
  ASSUME ShapeInv, DeployInv, NEW s \in Submits, formPc[s] # "idle",
         NEW l \in {"fetching", "sending", "waiting", "done"},
         formPc' = [formPc EXCEPT ![s] = l],
         l \in {"fetching", "sending"} => formPc[s] \in {"checking", "fetching", "sending"},
         l = "waiting" => tries[s] < MaxAttempts /\ (Len(deployed[s]) > 0 => s \in doubtful'),
         UNCHANGED <<tries, deployed, afloat>>, doubtful \subseteq doubtful'
  PROVE  DeployInv'
<1>1. \A r \in Submits : Pending(r)' = Pending(r)
  BY DEF Pending
<1>2. \A r \in Submits \ {s} : formPc'[r] = formPc[r]
  BY DEF ShapeInv, ClientTypes
<1>3. formPc'[s] = l
  BY DEF ShapeInv, ClientTypes
<1>4. ASSUME NEW r \in Submits \ {s} PROVE Deploys(r)'
  BY <1>1, <1>2, <1>4 DEF DeployInv, Deploys
<1>5. Deploys(s)'
  <2>1. Deploys(s) /\ Pending(s)' = Pending(s)
    BY <1>1 DEF DeployInv
  <2> QED BY <1>3, <2>1 DEF Deploys
<1> QED BY <1>4, <1>5 DEF DeployInv

\* The attempt that was sent and is given up on joins those that may take effect.
LEMMA DeployGivesUp ==
  ASSUME ShapeInv, DeployInv, NEW s \in Submits, formPc[s] = "sending",
         Pending(s)' = Pending(s) \cup {tries[s]},
         formPc'[s] = "done" \/ (formPc'[s] = "waiting" /\ tries[s] < MaxAttempts),
         tries' = tries, deployed' = deployed, doubtful' = doubtful
  PROVE  Deploys(s)'
<1>1. /\ Len(deployed[s]) \in Nat /\ tries[s] \in Nat
      /\ IsFiniteSet(Pending(s)) /\ Cardinality(Pending(s)) \in Nat
  BY PendingCount DEF ShapeInv, ClientTypes
<1>2. /\ tries[s] \notin Pending(s) /\ \A t \in Pending(s) : t \in Nat /\ t < tries[s]
      /\ Len(deployed[s]) + Cardinality(Pending(s)) < tries[s]
      /\ tries[s] \in 1 .. MaxAttempts /\ (Len(deployed[s]) > 0 => s \in doubtful)
  <2>1. \A t \in Pending(s) : t \in Nat /\ t < tries[s]
    <3>1. \A t \in Pending(s) : t \in Nat
      BY EscrowClientAssumption DEF Pending
    <3>2. \A t \in Pending(s) : t < tries[s]
      BY DEF DeployInv, Deploys
    <3> QED BY <3>1, <3>2
  <2>2. tries[s] \notin Pending(s)
    BY <1>1, <2>1
  <2>3. /\ Len(deployed[s]) + Cardinality(Pending(s)) < tries[s]
        /\ tries[s] \in 1 .. MaxAttempts /\ (Len(deployed[s]) > 0 => s \in doubtful)
    BY DEF DeployInv, Deploys
  <2> QED BY <2>1, <2>2, <2>3
<1>3. Cardinality(Pending(s)') = Cardinality(Pending(s)) + 1
  BY <1>1, <1>2, FS_AddElement
<1>4. \A t \in Pending(s)' : t <= tries[s]
  BY <1>1, <1>2
<1>5. Len(deployed[s]) + Cardinality(Pending(s)') <= tries[s]
  BY <1>1, <1>2, <1>3, EscrowClientAssumption
<1> QED BY <1>2, <1>4, <1>5 DEF Deploys

LEMMA DeployStep == ShapeInv /\ DeployInv /\ [ClientNext]_clientVars => DeployInv'
<1> SUFFICES ASSUME ShapeInv, DeployInv, [ClientNext]_clientVars PROVE DeployInv'
  OBVIOUS
<1> USE EscrowClientAssumption
<1>0. /\ \A s \in Submits : /\ Len(deployed[s]) \in Nat /\ tries[s] \in Nat /\ Deploys(s)
                            /\ IsFiniteSet(Pending(s)) /\ Cardinality(Pending(s)) \in Nat
      /\ afloat \subseteq Submits \X (1 .. MaxAttempts)
      /\ formPc \in [Submits -> {"idle", "checking", "fetching", "sending", "sent",
                                 "waiting", "done"}]
      /\ tries \in [Submits -> Nat] /\ DOMAIN deployed = Submits
  BY PendingCount DEF DeployInv, ShapeInv, ClientTypes
<1>1. ASSUME NEW s \in Submits, NEW op \in Ops, SubmitForm(s, [op |-> op, seen |-> selected])
      PROVE  DeployInv'
  <2>1. deployed[s] = <<>> /\ Len(deployed[s]) = 0 /\ 1 \in 1 .. MaxAttempts
    BY <1>1 DEF SubmitForm, ShapeInv, Stages
  <2>2. /\ \E l \in {"checking", "fetching"} : formPc' = [formPc EXCEPT ![s] = l]
        /\ tries' = [tries EXCEPT ![s] = 1] /\ deployed' = deployed /\ doubtful' = doubtful
        /\ afloat' = afloat /\ formPc[s] = "idle"
    BY <1>1 DEF SubmitForm, FormGoto
  <2>3. /\ \A r \in Submits : Pending(r)' = Pending(r)
        /\ \A r \in Submits \ {s} : formPc'[r] = formPc[r] /\ tries'[r] = tries[r]
        /\ tries'[s] = 1 /\ formPc'[s] \in {"checking", "fetching"}
    BY <1>0, <2>2 DEF Pending
  <2>4. Pending(s) = {} /\ Cardinality(Pending(s)) = 0
    BY <1>0, <2>2, FS_EmptySet DEF Deploys
  <2>5. Deploys(s)'
    BY <2>1, <2>2, <2>3, <2>4 DEF Deploys
  <2>6. ASSUME NEW r \in Submits \ {s} PROVE Deploys(r)'
    <3>1. Deploys(r)
      BY <1>0
    <3> QED BY <2>2, <2>3, <3>1 DEF Deploys
  <2> QED BY <1>0, <2>2, <2>5, <2>6 DEF DeployInv
<1>2. ASSUME NEW s \in Submits, EnsureTrustline(s) \/ FetchAndSign(s) \/ Succeed(s)
      PROVE  DeployInv'
  <2>1. /\ UNCHANGED <<tries, deployed, afloat, doubtful>>
        /\ \/ formPc[s] = "checking" /\ formPc' = [formPc EXCEPT ![s] = "fetching"]
           \/ formPc[s] = "fetching" /\ formPc' = [formPc EXCEPT ![s] = "sending"]
           \/ formPc[s] # "idle" /\ formPc' = [formPc EXCEPT ![s] = "done"]
    BY <1>2 DEF EnsureTrustline, FetchAndSign, Succeed, FormGoto, Show
  <2> QED BY <2>1, DeployMoves
<1>3. ASSUME NEW s \in Submits, Fail(s)
      PROVE  DeployInv'
  <2>1. /\ tries' = tries /\ deployed' = deployed
        /\ doubtful' = doubtful \cup {x \in {s} : formPc[s] = "sent"}
        /\ afloat' = afloat \cup Sent({s})
        /\ formPc[s] \in {"fetching", "sending", "sent"}
        /\ \/ tries[s] < MaxAttempts /\ formPc' = [formPc EXCEPT ![s] = "waiting"]
           \/ formPc' = [formPc EXCEPT ![s] = "done"]
    BY <1>3 DEF Fail, FormGoto, Show, CanRetry
  <2>2. CASE formPc[s] # "sending"
    <3>1. afloat' = afloat
      BY <2>1, <2>2 DEF Sent
    <3>2. doubtful \subseteq doubtful' /\ (Len(deployed[s]) > 0 => s \in doubtful')
      BY <1>0, <2>1, <2>2 DEF Deploys
    <3> QED BY <2>1, <3>1, <3>2, DeployMoves
  <2>3. CASE formPc[s] = "sending"
    <3>1. Sent({s}) = {<<s, tries[s]>>}
      BY <2>3 DEF Sent
    <3>2. tries[s] \in 1 .. MaxAttempts
      BY <1>0, <2>3 DEF Deploys
    <3>3. /\ Pending(s)' = Pending(s) \cup {tries[s]}
          /\ \A r \in Submits \ {s} : Pending(r)' = Pending(r)
          /\ afloat' \subseteq Submits \X (1 .. MaxAttempts)
      <4>1. \A r \in Submits : Pending(r)' = Pending(r) \cup
              {t \in 1 .. MaxAttempts : <<r, t>> \in Sent({s})}
        BY <2>1, PendingMore
      <4>2. {t \in 1 .. MaxAttempts : <<s, t>> \in Sent({s})} = {tries[s]}
        BY <3>1, <3>2
      <4>3. \A r \in Submits \ {s} : {t \in 1 .. MaxAttempts : <<r, t>> \in Sent({s})} = {}
        BY <3>1
      <4>4. afloat' \subseteq Submits \X (1 .. MaxAttempts)
        <5>1. afloat \subseteq Submits \X (1 .. MaxAttempts)
          BY <1>0
        <5>2. <<s, tries[s]>> \in Submits \X (1 .. MaxAttempts)
          BY <3>2
        <5> QED BY <2>1, <3>1, <5>1, <5>2
      <4>5. Pending(s)' = Pending(s) \cup {tries[s]}
        BY <4>1, <4>2
      <4>6. \A r \in Submits \ {s} : Pending(r)' = Pending(r)
        BY <4>1, <4>3
      <4> QED BY <4>4, <4>5, <4>6
    <3>4. /\ doubtful' = doubtful
          /\ formPc'[s] = "done" \/ (formPc'[s] = "waiting" /\ tries[s] < MaxAttempts)
          /\ \A r \in Submits \ {s} : formPc'[r] = formPc[r]
      <4>1. {x \in {s} : formPc[s] = "sent"} = {}
        BY <2>3
      <4>a. DOMAIN formPc = Submits
        BY <1>0
      <4>2. formPc'[s] = "done" \/ (formPc'[s] = "waiting" /\ tries[s] < MaxAttempts)
        <5>1. CASE formPc' = [formPc EXCEPT ![s] = "done"]
          BY <4>a, <5>1
        <5>2. CASE tries[s] < MaxAttempts /\ formPc' = [formPc EXCEPT ![s] = "waiting"]
          BY <4>a, <5>2
        <5> QED BY <2>1, <5>1, <5>2
      <4>3. \A r \in Submits \ {s} : formPc'[r] = formPc[r]
        BY <2>1, <4>a
      <4> QED BY <2>1, <4>1, <4>2, <4>3
    <3>5. Deploys(s)'
      BY <2>1, <2>3, <3>3, <3>4, DeployGivesUp
    <3>6. ASSUME NEW r \in Submits \ {s} PROVE Deploys(r)'
      <4>1. Deploys(r)
        BY <1>0
      <4> QED BY <2>1, <3>3, <3>4, <4>1 DEF Deploys
    <3> QED BY <3>3, <3>5, <3>6 DEF DeployInv
  <2> QED BY <2>2, <2>3
<1>4. ASSUME NEW s \in Submits, Send(s)
      PROVE  DeployInv'
  <2>1. /\ formPc[s] = "sending" /\ formPc' = [formPc EXCEPT ![s] = "sent"]
        /\ UNCHANGED <<tries, doubtful, afloat>>
    BY <1>4 DEF Send, FormGoto
  <2>2. /\ \A r \in Submits \ {s} : deployed'[r] = deployed[r]
        /\ Len(deployed'[s]) \in {Len(deployed[s]), Len(deployed[s]) + 1}
    <3>1. CASE form[s].op = "deploy"
      BY <1>0, <1>4, <3>1, Effect DEF OneMore
    <3>2. CASE form[s].op # "deploy"
      BY <1>4, <3>2, Effect
    <3> QED BY <3>1, <3>2
  <2>3. /\ \A r \in Submits : Pending(r)' = Pending(r)
        /\ \A r \in Submits \ {s} : formPc'[r] = formPc[r]
        /\ formPc'[s] = "sent"
    BY <1>0, <2>1 DEF Pending
  <2>4. Deploys(s)'
    <3>1. Deploys(s) /\ Len(deployed[s]) \in Nat /\ Cardinality(Pending(s)) \in Nat
          /\ tries[s] \in Nat
      BY <1>0
    <3>2. Len(deployed'[s]) + Cardinality(Pending(s)) <= tries[s]
      BY <2>1, <2>2, <3>1 DEF Deploys
    <3>3. Len(deployed'[s]) > 1 => s \in doubtful
      BY <2>1, <2>2, <3>1 DEF Deploys
    <3> HIDE DEF Pending
    <3> QED BY <2>1, <2>3, <3>1, <3>2, <3>3 DEF Deploys
  <2>5. ASSUME NEW r \in Submits \ {s} PROVE Deploys(r)'
    <3>1. Deploys(r)
      BY <1>0
    <3> QED BY <2>1, <2>2, <2>3, <3>1 DEF Deploys
  <2> QED BY <1>0, <2>1, <2>4, <2>5 DEF DeployInv
<1>5. ASSUME NEW s \in Submits, Land(s)
      PROVE  DeployInv'
  <2>1. PICK try \in 1 .. MaxAttempts :
          /\ <<s, try>> \in afloat /\ afloat' = afloat \ {<<s, try>>}
          /\ doubtful' = doubtful \cup {s} /\ UNCHANGED <<formPc, tries>>
    BY <1>5 DEF Land
  <2>2. /\ \A r \in Submits \ {s} : deployed'[r] = deployed[r]
        /\ Len(deployed'[s]) \in {Len(deployed[s]), Len(deployed[s]) + 1}
    <3>1. CASE form[s].op = "deploy"
      BY <1>0, <1>5, <3>1, Effect DEF OneMore
    <3>2. CASE form[s].op # "deploy"
      BY <1>5, <3>2, Effect
    <3> QED BY <3>1, <3>2
  <2>3. /\ Pending(s)' = Pending(s) \ {try} /\ try \in Pending(s)
        /\ \A r \in Submits \ {s} : Pending(r)' = Pending(r)
    <3>1. \A r \in Submits, t \in 1 .. MaxAttempts :
            <<r, t>> \in afloat' <=> <<r, t>> \in afloat /\ (r = s => t # try)
      BY <2>1
    <3>2. Pending(s)' = Pending(s) \ {try}
      BY <3>1 DEF Pending
    <3>3. \A r \in Submits \ {s} : Pending(r)' = Pending(r)
      BY <3>1 DEF Pending
    <3>4. try \in Pending(s)
      BY <2>1 DEF Pending
    <3> QED BY <3>2, <3>3, <3>4
  <2>4. Cardinality(Pending(s)') = Cardinality(Pending(s)) - 1
    <3>1. IsFiniteSet(Pending(s)) /\ try \in Pending(s)
      BY <1>0, <2>3
    <3>2. Cardinality(Pending(s) \ {try}) = Cardinality(Pending(s)) - 1
      BY <3>1, FS_RemoveElement
    <3> QED BY <2>3, <3>2
  <2>5. Deploys(s)'
    <3>1. /\ Deploys(s) /\ Len(deployed[s]) \in Nat /\ Cardinality(Pending(s)) \in Nat
          /\ tries[s] \in Nat /\ Pending(s) # {}
      BY <1>0, <2>3
    <3>2. /\ Len(deployed'[s]) + Cardinality(Pending(s)') <= tries[s]
          /\ formPc[s] \in {"checking", "fetching", "sending"} =>
               Len(deployed'[s]) + Cardinality(Pending(s)') < tries[s]
      BY <2>2, <2>4, <3>1 DEF Deploys
    <3>3. \A t \in Pending(s)' : t \in Pending(s)
      BY <2>3
    <3> QED BY <2>1, <3>1, <3>2, <3>3 DEF Deploys
  <2>6. ASSUME NEW r \in Submits \ {s} PROVE Deploys(r)'
    <3>1. Deploys(r)
      BY <1>0
    <3> QED BY <2>1, <2>2, <2>3, <3>1 DEF Deploys
  <2> QED BY <1>0, <2>1, <2>5, <2>6 DEF DeployInv
<1>6. ASSUME NEW s \in Submits, TryAgain(s)
      PROVE  DeployInv'
  <2>1. /\ formPc[s] = "waiting" /\ tries' = [tries EXCEPT ![s] = @ + 1]
        /\ formPc' = [formPc EXCEPT ![s] = "fetching"] /\ UNCHANGED <<deployed, afloat, doubtful>>
    BY <1>6 DEF TryAgain, FormGoto
  <2>2. /\ \A r \in Submits : Pending(r)' = Pending(r)
        /\ \A r \in Submits \ {s} : formPc'[r] = formPc[r] /\ tries'[r] = tries[r]
        /\ tries'[s] = tries[s] + 1 /\ formPc'[s] = "fetching"
    BY <1>0, <2>1 DEF Pending
  <2>3. Deploys(s)'
    <3>1. Deploys(s) /\ Len(deployed[s]) \in Nat /\ Cardinality(Pending(s)) \in Nat
          /\ tries[s] \in Nat
      BY <1>0
    <3>2. \A t \in Pending(s) : t \in Nat /\ t < tries[s] + 1
      BY <3>1 DEF Deploys, Pending
    <3>3. /\ tries[s] + 1 \in 1 .. MaxAttempts
          /\ Len(deployed[s]) + Cardinality(Pending(s)) < tries[s] + 1
          /\ (Len(deployed[s]) > 0 => s \in doubtful)
      BY <2>1, <3>1 DEF Deploys
    <3>4. \A t \in Pending(s) : t <= tries[s] + 1
      BY <3>1, <3>2
    <3>5. Len(deployed[s]) + Cardinality(Pending(s)) <= tries[s] + 1
      BY <3>1, <3>3
    <3> QED BY <2>1, <2>2, <3>1, <3>2, <3>3, <3>4, <3>5 DEF Deploys
  <2>4. ASSUME NEW r \in Submits \ {s} PROVE Deploys(r)'
    <3>1. Deploys(r)
      BY <1>0
    <3> QED BY <2>1, <2>2, <3>1 DEF Deploys
  <2> QED BY <1>0, <2>1, <2>3, <2>4 DEF DeployInv
<1>7. CASE Reload
  <2>1. /\ UNCHANGED <<tries, deployed, doubtful>> /\ afloat' = afloat \cup Sent(Underway)
        /\ \A r \in Submits : formPc'[r] = IF r \in Underway THEN "done" ELSE formPc[r]
    BY <1>7 DEF Reload
  <2>2. \A r \in Submits, t \in Nat :
          <<r, t>> \in Sent(Underway) <=> formPc[r] = "sending" /\ t = tries[r]
    BY SentIs DEF ShapeInv, Underway
  <2>3. \A r \in Submits : formPc[r] = "sending" => tries[r] \in 1 .. MaxAttempts
    BY <1>0 DEF Deploys
  <2>4. Sent(Underway) \subseteq Submits \X (1 .. MaxAttempts)
    BY <2>3 DEF Sent, Underway
  <2>5. ASSUME NEW r \in Submits PROVE Deploys(r)'
    <3>1. Deploys(r)
      BY <1>0
    <3> PICK more : more = Sent(Underway)
      OBVIOUS
    <3>a. /\ afloat' = afloat \cup more
          /\ \A t \in Nat : <<r, t>> \in more <=> formPc[r] = "sending" /\ t = tries[r]
      BY <2>1, <2>2
    <3>b. Pending(r)' = Pending(r) \cup {t \in 1 .. MaxAttempts : <<r, t>> \in more}
      BY <3>a, PendingMore
    <3>2. CASE formPc[r] = "sending"
      <4>1. Pending(r)' = Pending(r) \cup {tries[r]}
        <5>1. {t \in 1 .. MaxAttempts : <<r, t>> \in more} = {tries[r]}
          <6>1. tries[r] \in 1 .. MaxAttempts
            BY <2>3, <3>2
          <6>2. \A t \in 1 .. MaxAttempts : <<r, t>> \in more <=> t = tries[r]
            BY <3>2, <3>a
          <6> QED BY <6>1, <6>2
        <5> QED BY <3>b, <5>1
      <4>2. formPc'[r] = "done"
        BY <2>1, <3>2 DEF Underway
      <4>3. tries' = tries /\ deployed' = deployed /\ doubtful' = doubtful
        BY <2>1
      <4> QED BY <3>2, <4>1, <4>2, <4>3, DeployGivesUp
    <3>3. CASE formPc[r] # "sending"
      <4>1. Pending(r)' = Pending(r)
        <5>1. {t \in 1 .. MaxAttempts : <<r, t>> \in more} = {}
          BY <3>3, <3>a
        <5> QED BY <3>b, <5>1
      <4>2. formPc'[r] = formPc[r] \/ (formPc[r] # "idle" /\ formPc'[r] = "done")
        BY <2>1 DEF Underway
      <4>3. /\ tries'[r] = tries[r] /\ deployed'[r] = deployed[r]
            /\ r \in doubtful' <=> r \in doubtful
        BY <2>1
      <4>4. CASE formPc'[r] = formPc[r]
        BY <3>1, <4>1, <4>3, <4>4 DEF Deploys
      <4>5. CASE formPc[r] # "idle" /\ formPc'[r] = "done"
        BY <3>1, <4>1, <4>3, <4>5 DEF Deploys
      <4> QED BY <4>2, <4>4, <4>5
    <3> QED BY <3>2, <3>3
  <2> QED BY <1>0, <2>1, <2>4, <2>5 DEF DeployInv
<1>8. CASE UNCHANGED clientVars
  <2>1. \A r \in Submits : Pending(r)' = Pending(r)
    BY <1>8 DEF clientVars, Pending
  <2> QED BY <1>8, <2>1 DEF clientVars, DeployInv, Deploys
<1> QED
  BY <1>1, <1>2, <1>3, <1>4, <1>5, <1>6, <1>7, <1>8 DEF ClientNext, ClientStep, Ops

\* However often it fails and is tried again, a submission deploys no second
\* contract, unless it was told of a failure, or of nothing, by one that took effect;
\* and whatever takes effect late, never more than it made attempts.
THEOREM OneContract == ClientSpec => []OneContractUnlessDoubtful
<1>1. ClientInit => DeployInv
  <2> SUFFICES ASSUME ClientInit PROVE DeployInv
    OBVIOUS
  <2>1. \A s \in Submits : Pending(s) = {} /\ Len(deployed[s]) = 0
    BY DEF ClientInit, Pending
  <2>2. \A s \in Submits : formPc[s] = "idle" /\ tries[s] = 0
    BY DEF ClientInit
  <2>3. \A s \in Submits : Deploys(s)
    <3>1. SUFFICES ASSUME NEW s \in Submits PROVE Deploys(s)
      OBVIOUS
    <3>2. Pending(s) = {} /\ Cardinality(Pending(s)) = 0
      BY <2>1, FS_EmptySet
    <3>3. Len(deployed[s]) = 0 /\ formPc[s] = "idle" /\ tries[s] = 0
      BY <2>1, <2>2
    <3> QED BY <3>2, <3>3 DEF Deploys
  <2>4. afloat = {}
    BY DEF ClientInit
  <2> QED BY <2>3, <2>4 DEF DeployInv
<1>2. ShapeInv /\ DeployInv => OneContractUnlessDoubtful
  <2> SUFFICES ASSUME ShapeInv, DeployInv, NEW s \in Submits
               PROVE  /\ Len(deployed[s]) > 1 => s \in doubtful
                      /\ Len(deployed[s]) <= MaxAttempts
    BY DEF OneContractUnlessDoubtful
  <2>1. /\ Len(deployed[s]) \in Nat /\ tries[s] \in Nat /\ Cardinality(Pending(s)) \in Nat
        /\ Deploys(s) /\ (formPc[s] = "idle" => deployed[s] = <<>>)
    BY PendingCount DEF ShapeInv, ClientTypes, Stages, DeployInv
  <2> QED BY <2>1, EscrowClientAssumption DEF Deploys
<1> QED BY <1>1, <1>2, ShapeInvariant, DeployStep, PTL DEF ClientSpec

\* No deployment was under way together with another form.
Apart == \A s \in crossed : form[s].op # "deploy"

\* A copy of an escrow is not ahead of its contract.
Real(e, contracts, apart) ==
  /\ e.flags \subseteq contracts[e.contract].flags
  /\ apart => Balance(e) <= contracts[e.contract].paid

\* The escrow a form holds is real as well, still so when what the form sent has
\* taken effect; and it is the selected one, unless a deployment crossed.
Held(f, pc, contracts, selection, apart) ==
  f.seen \in Escrows =>
    LET at == contracts[f.seen.contract]
    IN  /\ Real(f.seen, contracts, apart)
        /\ apart /\ f.op # "deploy" => selection \in Escrows
                                       /\ selection.contract = f.seen.contract
        /\ pc = "sent" /\ f.op # "deploy" =>
             /\ Flags \cap {f.op} \subseteq at.flags
             /\ apart /\ f.op = "fund" => Balance(f.seen) + 1 <= at.paid

CopyInv ==
  /\ \A r, s \in Underway : r # s => r \in crossed
  /\ \A e \in Known : Real(e, chain, Apart)
  /\ \A s \in Underway : Held(form[s], formPc[s], chain, selected, Apart)

LEMMA BalanceIs == ASSUME NEW e \in Escrows PROVE Balance(e) \in Nat
BY DEF Balance, Escrows

\* A step that leaves the selection and the chain alone, ends submissions or moves
\* them on, but not past the transaction.
LEMMA CopyKept ==
  ASSUME ShapeInv, CopyInv,
         chain' = chain, selected' = selected, stored' = stored, form' = form,
         crossed' = crossed,
         \A s \in Submits :
           \/ formPc'[s] \in {formPc[s], "done"}
           \/ formPc'[s] \in {"fetching", "sending", "waiting"} /\ s \in Underway
  PROVE  CopyInv'
<1>1. Underway' \subseteq Underway /\ \A s \in Underway' : formPc'[s] = "sent" => formPc[s] = "sent"
  BY DEF Underway
<1>2. Known' = Known /\ (Apart' <=> Apart)
  BY DEF Known, Apart
<1> HIDE DEF Underway
<1> QED BY <1>1, <1>2 DEF CopyInv, Held

LEMMA RealStays ==
  ASSUME NEW e \in Escrows, NEW old, NEW later, NEW apart, Real(e, old, apart),
         old[e.contract] \in OnChain, later[e.contract] \in OnChain,
         old[e.contract].flags \subseteq later[e.contract].flags,
         old[e.contract].paid <= later[e.contract].paid
  PROVE  Real(e, later, apart)
<1>1. /\ Balance(e) \in Nat
      /\ old[e.contract].paid \in Nat /\ later[e.contract].paid \in Nat
  BY BalanceIs DEF OnChain
<1> QED BY <1>1 DEF Real

LEMMA CopyStep == ShapeInv /\ CopyInv /\ [ClientNext]_clientVars => CopyInv'
<1> SUFFICES ASSUME ShapeInv, CopyInv, [ClientNext]_clientVars PROVE CopyInv'
  OBVIOUS
<1> USE ClientKinds DEF ShapeInv, ClientTypes, Stages, OnTheChain
<1>1. ASSUME NEW s \in Submits, NEW op \in Ops, SubmitForm(s, [op |-> op, seen |-> selected])
      PROVE  CopyInv'
  <2> DEFINE f == [op |-> op, seen |-> selected]
  <2>1. f \in Forms /\ f.seen = selected
    BY DEF Forms
  <2> HIDE DEF f
  <2>2. /\ formPc[s] = "idle" /\ form' = [form EXCEPT ![s] = f]
        /\ \E l \in {"checking", "fetching"} : formPc' = [formPc EXCEPT ![s] = l]
        /\ crossed' = crossed \cup {r \in Underway \cup {s} : Underway # {}}
        /\ UNCHANGED <<chain, selected, stored>>
    BY <1>1 DEF SubmitForm, FormGoto, f
  <2>3. Underway' = Underway \cup {s} /\ s \notin Underway
    BY <2>2 DEF Underway
  <2>4. Apart' => Apart
    BY <2>2 DEF Apart
  <2>5. \A r, t \in Underway' : r # t => r \in crossed'
    BY <2>2, <2>3 DEF CopyInv
  <2>6. Known' = Known /\ \A e \in Known : Real(e, chain, Apart')
    BY <2>2, <2>4 DEF Known, CopyInv, Real
  <2>7. ASSUME NEW r \in Underway
        PROVE  Held(form'[r], formPc'[r], chain, selected, Apart')
    <3>1. form'[r] = form[r] /\ formPc'[r] = formPc[r]
      BY <2>2, <2>3 DEF Underway
    <3>2. Held(form[r], formPc[r], chain, selected, Apart)
      BY DEF CopyInv
    <3> QED BY <2>4, <3>1, <3>2 DEF Held, Real
  <2>8. Held(form'[s], formPc'[s], chain, selected, Apart')
    BY <2>1, <2>2, <2>6 DEF Known, Held
  <2> QED BY <2>2, <2>3, <2>5, <2>6, <2>7, <2>8 DEF CopyInv
<1>2. ASSUME NEW s \in Submits, EnsureTrustline(s) \/ FetchAndSign(s) \/ TryAgain(s) \/ Fail(s)
      PROVE  CopyInv'
  <2>1. /\ UNCHANGED <<chain, selected, stored, form, crossed>>
        /\ \E l \in {"fetching", "sending", "waiting", "done"} : formPc' = [formPc EXCEPT ![s] = l]
        /\ s \in Underway
    BY <1>2 DEF EnsureTrustline, FetchAndSign, TryAgain, Fail, FormGoto, Show, Underway
  <2>2. \A r \in Submits :
          \/ formPc'[r] \in {formPc[r], "done"}
          \/ formPc'[r] \in {"fetching", "sending", "waiting"} /\ r \in Underway
    BY <2>1
  <2> QED BY <2>1, <2>2, CopyKept
<1>3. ASSUME NEW s \in Submits, Send(s) \/ Land(s)
      PROVE  CopyInv'
  <2>1. /\ selected' = selected /\ stored' = stored /\ form' = form /\ crossed' = crossed
        /\ \/ formPc[s] = "sending" /\ formPc' = [formPc EXCEPT ![s] = "sent"]
           \/ formPc' = formPc
    BY <1>3 DEF Send, Land, FormGoto
  <2>2. Underway' = Underway /\ Known' = Known /\ (Apart' <=> Apart)
    BY <2>1 DEF Underway, Known, Apart
  <2>3. \A e \in Escrows : chain[e.contract] \in OnChain /\ Real(e, chain, Apart) =>
          Real(e, chain', Apart)
    <3>1. SUFFICES ASSUME NEW e \in Escrows, chain[e.contract] \in OnChain, Real(e, chain, Apart)
                   PROVE  Real(e, chain', Apart)
      OBVIOUS
    <3>2. e.contract \in Contracts
      BY DEF Escrows
    <3>3. /\ chain'[e.contract] \in OnChain
          /\ chain[e.contract].flags \subseteq chain'[e.contract].flags
          /\ chain[e.contract].paid <= chain'[e.contract].paid
      BY <1>3, <3>1, <3>2, Effect
    <3> QED BY <3>1, <3>3, RealStays
  <2>4. ASSUME NEW e \in Known PROVE Real(e, chain', Apart)
    <3>1. e \in Escrows /\ chain[e.contract] \in OnChain /\ Real(e, chain, Apart)
      BY DEF CopyInv, Known
    <3> QED BY <2>3, <3>1
  <2>5. ASSUME NEW r \in Underway, form[r].seen \in Escrows
        PROVE  Held(form[r], formPc'[r], chain', selected, Apart)
    <3> DEFINE k == form[r].seen.contract
               paid == IF form[r].op = "fund" THEN 1 ELSE 0
    <3>1. form[r] \in Forms /\ chain[k] \in OnChain /\ k \in Contracts
      BY <2>5 DEF Underway, Escrows
    <3>2. Held(form[r], formPc[r], chain, selected, Apart)
      BY DEF CopyInv
    <3>3. Real(form[r].seen, chain', Apart)
      BY <2>3, <2>5, <3>1, <3>2 DEF Held
    <3>4. /\ chain'[k] \in OnChain
          /\ chain[k].flags \subseteq chain'[k].flags
          /\ chain[k].paid <= chain'[k].paid
      BY <1>3, <3>1, Effect
    <3>5. /\ Balance(form[r].seen) \in Nat /\ chain[k].paid \in Nat /\ chain'[k].paid \in Nat
      BY <2>5, <3>1, <3>4, BalanceIs DEF OnChain
    <3>6. CASE formPc'[r] = formPc[r]
      BY <2>5, <3>2, <3>3, <3>4, <3>5, <3>6 DEF Held
    <3>7. CASE r = s /\ form[s].op # "deploy"
      <4>1. /\ chain'[k].paid = chain[k].paid + paid
            /\ chain'[k].flags = chain[k].flags \cup (Flags \cap {form[s].op})
        BY <1>3, <3>7, Effect
      <4>2. Apart => Balance(form[r].seen) <= chain[k].paid
        BY <2>5, <3>2 DEF Held, Real
      <4>3. Apart /\ form[s].op = "fund" => Balance(form[r].seen) + 1 <= chain'[k].paid
        BY <3>5, <3>7, <4>1, <4>2
      <4>4. Flags \cap {form[s].op} \subseteq chain'[k].flags
        BY <4>1
      <4>5. Apart => selected \in Escrows /\ selected.contract = k
        BY <2>5, <3>2, <3>7 DEF Held
      <4> QED BY <3>3, <3>7, <4>3, <4>4, <4>5 DEF Held
    <3>8. CASE r = s /\ form[s].op = "deploy"
      BY <3>3, <3>8 DEF Held
    <3>9. r # s => formPc'[r] = formPc[r]
      <4>1. CASE formPc' = formPc
        BY <4>1
      <4>2. CASE formPc' = [formPc EXCEPT ![s] = "sent"]
        BY <4>2, <2>5 DEF Underway
      <4> QED BY <2>1, <4>1, <4>2
    <3> QED BY <3>6, <3>7, <3>8, <3>9
  <2>6. \A r \in Underway : Held(form[r], formPc'[r], chain', selected, Apart)
    BY <2>5 DEF Held
  <2>7. \A q, r \in Underway' : q # r => q \in crossed'
    BY <2>1, <2>2 DEF CopyInv
  <2>8. \A e \in Known' : Real(e, chain', Apart')
    BY <2>2, <2>4
  <2>9. \A r \in Underway' : Held(form'[r], formPc'[r], chain', selected', Apart')
    BY <2>1, <2>2, <2>6
  <2> QED BY <2>7, <2>8, <2>9 DEF CopyInv
<1>4. ASSUME NEW s \in Submits, Succeed(s)
      PROVE  CopyInv'
  <2>1. /\ formPc[s] = "sent" /\ formPc' = [formPc EXCEPT ![s] = "done"]
        /\ chain' = chain /\ form' = form /\ crossed' = crossed
    BY <1>4 DEF Succeed, Show, FormGoto
  <2>2. /\ Underway' = Underway \ {s} /\ s \in Underway /\ Apart' = Apart
        /\ \A r \in Underway' : formPc'[r] = formPc[r]
    BY <2>1 DEF Underway, Apart
  <2> DEFINE Kept == /\ \A e \in Known' : Real(e, chain, Apart)
                     /\ \A r \in Underway' : Held(form[r], formPc'[r], chain, selected', Apart)
  <2>0. Kept => CopyInv'
    <3>1. \A q, r \in Underway' : q # r => q \in crossed'
      BY <2>1, <2>2 DEF CopyInv
    <3>2. Kept => /\ \A e \in Known' : Real(e, chain', Apart')
                  /\ \A r \in Underway' : Held(form'[r], formPc'[r], chain', selected', Apart')
      BY <2>1, <2>2
    <3> QED BY <3>1, <3>2 DEF CopyInv
  <2>3. CASE form[s].op = "deploy"
    <3>1. PICK k \in Contracts : chain[k] \in OnChain /\ selected' = Fresh(k) /\ stored' = stored
      BY <1>4, <2>3, Local
    <3>2. Real(Fresh(k), chain, Apart)
      <4>1. Fresh(k).contract = k /\ Fresh(k).flags = {} /\ Balance(Fresh(k)) = 0
        BY DEF Fresh, Balance
      <4>2. chain[k].paid \in Nat
        BY <3>1 DEF OnChain
      <4> QED BY <4>1, <4>2 DEF Real
    <3>3. \A e \in Known' : Real(e, chain, Apart)
      BY <3>1, <3>2 DEF CopyInv, Known
    <3>4. ASSUME NEW r \in Underway' PROVE ~Apart
      BY <2>2, <2>3 DEF CopyInv, Apart
    <3>5. ASSUME NEW r \in Underway'
          PROVE  Held(form[r], formPc'[r], chain, selected', Apart)
      <4>1. Held(form[r], formPc[r], chain, selected, Apart) /\ formPc'[r] = formPc[r]
        BY <2>2 DEF CopyInv
      <4> QED BY <3>4, <4>1 DEF Held, Real
    <3> QED BY <2>0, <3>3, <3>5
  <2>4. CASE form[s].op # "deploy" /\ selected = NoEscrow
    <3>1. selected' = selected /\ stored' = stored
      BY <1>4, <2>4, Local
    <3>2. \A e \in Known' : Real(e, chain, Apart)
      BY <3>1 DEF CopyInv, Known
    <3>3. \A r \in Underway' : Held(form[r], formPc'[r], chain, selected', Apart)
      BY <2>2, <3>1 DEF CopyInv
    <3> QED BY <2>0, <3>2, <3>3
  <2>5. CASE form[s].op # "deploy" /\ selected # NoEscrow
    <3> DEFINE f == form[s]
               k == f.seen.contract
    <3>1. /\ f \in Forms /\ f.seen \in Escrows /\ chain[k] \in OnChain
          /\ selected' \in Escrows /\ stored' = selected'
          /\ selected'.contract = k
          /\ selected'.flags = f.seen.flags \cup (Flags \cap {f.op})
          /\ selected'.balance = IF Applied(f).balance = -1 THEN selected.balance
                                 ELSE Applied(f).balance
      BY <1>4, <2>5, Local
    <3>2. /\ Real(f.seen, chain, Apart)
          /\ Flags \cap {f.op} \subseteq chain[k].flags
          /\ Apart => selected \in Escrows /\ selected.contract = k
          /\ Apart /\ f.op = "fund" => Balance(f.seen) + 1 <= chain[k].paid
      BY <2>1, <2>2, <2>5, <3>1 DEF CopyInv, Held
    <3>3. Applied(f).balance = IF f.op = "fund" THEN Balance(f.seen) + 1 ELSE f.seen.balance
      BY <3>1, AppliedIs
    <3>4. Apart => Balance(selected') <= chain[k].paid
      <4>1. SUFFICES ASSUME Apart PROVE Balance(selected') <= chain[k].paid
        OBVIOUS
      <4>2. Balance(f.seen) \in Nat /\ chain[k].paid \in Nat
        BY <3>1, BalanceIs DEF OnChain
      <4>3. CASE Applied(f).balance = -1
        <5>1. Balance(selected') = Balance(selected)
          BY <3>1, <4>3 DEF Balance
        <5>2. Balance(selected) <= chain[selected.contract].paid
          BY <2>5, <4>1 DEF CopyInv, Known, Real
        <5> QED BY <3>2, <4>1, <5>1, <5>2
      <4>4. CASE Applied(f).balance # -1 /\ f.op = "fund"
        BY <3>1, <3>2, <3>3, <4>1, <4>2, <4>4 DEF Balance
      <4>5. CASE Applied(f).balance # -1 /\ f.op # "fund"
        <5>1. Balance(selected') = Balance(f.seen)
          BY <3>1, <3>3, <4>5 DEF Balance
        <5> QED BY <3>2, <4>1, <5>1 DEF Real
      <4> QED BY <4>3, <4>4, <4>5
    <3>5. selected'.flags \subseteq chain[k].flags
      BY <3>1, <3>2 DEF Real
    <3>6. \A e \in Known' : Real(e, chain, Apart)
      <4>1. Real(selected', chain, Apart)
        BY <3>1, <3>4, <3>5 DEF Real
      <4> QED BY <3>1, <4>1 DEF Known
    <3>7. \A r \in Underway' : Held(form[r], formPc'[r], chain, selected', Apart)
      <4>1. SUFFICES ASSUME NEW r \in Underway'
                     PROVE  Held(form[r], formPc'[r], chain, selected', Apart)
        OBVIOUS
      <4>2. Held(form[r], formPc[r], chain, selected, Apart) /\ formPc'[r] = formPc[r]
        BY <2>2 DEF CopyInv
      <4>3. Apart => selected'.contract = selected.contract
        BY <3>1, <3>2
      <4> QED BY <3>1, <4>2, <4>3 DEF Held
    <3> QED BY <2>0, <3>6, <3>7
  <2> QED BY <2>3, <2>4, <2>5
<1>5. CASE Reload
  <2>1. Underway' = {} /\ selected' = stored /\ stored' = stored /\ chain' = chain
        /\ crossed' = crossed /\ form' = form
    BY <1>5 DEF Reload, Underway
  <2> QED BY <2>1 DEF CopyInv, Known, Real, Apart
<1>6. CASE UNCHANGED clientVars
  BY <1>6, CopyKept DEF clientVars
<1> QED BY <1>1, <1>2, <1>3, <1>4, <1>5, <1>6 DEF ClientNext, ClientStep, Ops

LEMMA CopyInvariant == ClientSpec => []CopyInv
<1>1. ClientInit => CopyInv
  BY DEF ClientInit, CopyInv, Known, Underway
<1> QED BY <1>1, ShapeInvariant, CopyStep, PTL DEF ClientSpec

\* Whatever is submitted together, fails, is tried again or is lost in a reload, the
\* browser shows of an escrow no flag that is not set on its contract, and no
\* balance that was not paid in, unless a deployment crossed another form.
THEOREM CopyIsReal == ClientSpec => []LocalCopyIsReal
<1>1. CopyInv => LocalCopyIsReal
  BY DEF CopyInv, Real, Apart, LocalCopyIsReal
<1> QED BY <1>1, CopyInvariant, PTL

-----------------------------------------------------------------------------
(* The local copy keeps up *)

Succeeded == {s \in Submits : outcome[s] = "success"}

\* All that was reported as done to an escrow shows in a copy of it.
Shows(e) ==
  /\ \A f \in Flags : Done(e.contract, f) # {} => f \in e.flags
  /\ Balance(e) = Cardinality(Done(e.contract, "fund"))

\* A form that succeeded is done, and was about an escrow.
SucceededOnce ==
  /\ IsFiniteSet(Succeeded)
  /\ \A s \in Succeeded :
       /\ formPc[s] = "done" /\ form[s] \in Forms
       /\ form[s].op # "deploy" => form[s].seen \in Escrows

\* What a form deployed and did not yet report is known to no other form.
Unseen ==
  /\ \A s \in Submits \ Succeeded : \A i \in 1 .. Len(deployed[s]) :
       /\ \A e \in Known : e.contract # deployed[s][i]
       /\ \A r \in Submits : form[r] \in Forms /\ form[r].seen \in Escrows =>
            form[r].seen.contract # deployed[s][i]
  /\ \A r, s \in Submits : r # s =>
       \A i \in 1 .. Len(deployed[r]), j \in 1 .. Len(deployed[s]) :
         deployed[r][i] # deployed[s][j]

\* A form that is alone holds what is selected, so what it applies to its own copy
\* is applied to the latest one.
KeepInv ==
  /\ SucceededOnce
  /\ Unseen
  /\ crossed = {} =>
       /\ \A s \in Underway : form[s].seen = selected
       /\ \A e \in Known : Shows(e)

LEMMA DoneSame ==
  ASSUME ShapeInv, SucceededOnce,
         Succeeded' = Succeeded, \A s \in Succeeded : form'[s] = form[s]
  PROVE  \A k, op : Done(k, op)' = Done(k, op)
<1>1. \A k, op : Done(k, op) = {s \in Succeeded : /\ form[s].op = op /\ op # "deploy"
                                                /\ form[s].seen.contract = k}
  BY DEF Done, Succeeded
<1>2. \A k, op : Done(k, op)' = {s \in Succeeded' : /\ form'[s].op = op /\ op # "deploy"
                                                  /\ form'[s].seen.contract = k}
  BY DEF Done, Succeeded
<1> QED BY <1>1, <1>2

\* A step that reports no success and leaves the deployments as they are.
LEMMA KeepSame ==
  ASSUME ShapeInv, SucceededOnce, Unseen,
         Succeeded' = Succeeded, deployed' = deployed, Known' \subseteq Known,
         \A s \in Succeeded : form'[s] = form[s] /\ formPc'[s] = formPc[s],
         \A s \in Submits : form'[s] = form[s] \/ form'[s].seen = selected
  PROVE  SucceededOnce' /\ Unseen' /\ \A e \in Known' : Shows(e) => Shows(e)'
<1>1. SucceededOnce'
  BY DEF SucceededOnce
<1>2. Unseen'
  <2>1. \A s \in Submits \ Succeeded' : \A i \in 1 .. Len(deployed[s]) :
          /\ \A e \in Known' : e.contract # deployed[s][i]
          /\ \A r \in Submits : form'[r] \in Forms /\ form'[r].seen \in Escrows =>
               form'[r].seen.contract # deployed[s][i]
    BY ClientKinds DEF Unseen, Known
  <2> QED BY <2>1 DEF Unseen
<1>3. \A e \in Known' : Shows(e) => Shows(e)'
  BY DoneSame DEF Shows
<1> QED BY <1>1, <1>2, <1>3

\* A step other than Send and Succeed.
LEMMA KeepOther ==
  ASSUME ShapeInv, CopyInv, KeepInv, [ClientNext]_clientVars,
         \A s \in Submits : ~Send(s) /\ ~Land(s) /\ ~Succeed(s)
  PROVE  KeepInv'
<1> USE ClientKinds DEF ShapeInv, ClientTypes, Stages
<1>0. \A s \in Succeeded : s \in Submits /\ formPc[s] = "done"
  BY DEF KeepInv, SucceededOnce, Succeeded
<1>1. ASSUME NEW s \in Submits, NEW op \in Ops, SubmitForm(s, [op |-> op, seen |-> selected])
      PROVE  KeepInv'
  <2> DEFINE f == [op |-> op, seen |-> selected]
  <2>1. f \in Forms /\ f.seen = selected
    BY DEF Forms
  <2> HIDE DEF f
  <2>2. /\ formPc[s] = "idle" /\ form' = [form EXCEPT ![s] = f]
        /\ \E l \in {"checking", "fetching"} : formPc' = [formPc EXCEPT ![s] = l]
        /\ crossed' = crossed \cup {r \in Underway \cup {s} : Underway # {}}
        /\ UNCHANGED <<selected, stored, outcome, deployed>>
    BY <1>1 DEF SubmitForm, FormGoto, f
  <2>3. /\ Succeeded' = Succeeded /\ Known' = Known /\ s \notin Succeeded
        /\ Underway' = Underway \cup {s} /\ s \notin Underway
    BY <1>0, <2>2 DEF Succeeded, Known, Underway
  <2>4. SucceededOnce' /\ Unseen' /\ \A e \in Known' : Shows(e) => Shows(e)'
    BY <1>0, <2>1, <2>2, <2>3, KeepSame DEF KeepInv
  <2>5. crossed' = {} => Underway = {} /\ crossed = {}
    BY <2>2
  <2>6. form'[s].seen = selected'
    BY <2>1, <2>2
  <2> QED BY <2>3, <2>4, <2>5, <2>6 DEF KeepInv
<1>2. ASSUME NEW s \in Submits, EnsureTrustline(s) \/ FetchAndSign(s) \/ TryAgain(s) \/ Fail(s)
      PROVE  KeepInv'
  <2>1. /\ UNCHANGED <<selected, stored, form, deployed, crossed>>
        /\ s \in Underway
        /\ \E l \in {"fetching", "sending", "waiting", "done"} : formPc' = [formPc EXCEPT ![s] = l]
        /\ \/ outcome' = outcome
           \/ outcome' = [outcome EXCEPT ![s] = "error"]
    BY <1>2 DEF EnsureTrustline, FetchAndSign, TryAgain, Fail, FormGoto, Show, Underway
  <2>2. Succeeded' = Succeeded /\ Known' = Known /\ s \notin Succeeded /\ Underway' \subseteq Underway
    BY <1>0, <2>1 DEF Succeeded, Known, Underway
  <2>3. SucceededOnce' /\ Unseen' /\ \A e \in Known' : Shows(e) => Shows(e)'
    BY <1>0, <2>1, <2>2, KeepSame DEF KeepInv
  <2> QED BY <2>1, <2>2, <2>3 DEF KeepInv
<1>3. CASE Reload
  <2>1. /\ UNCHANGED <<stored, form, deployed, crossed>> /\ selected' = stored
        /\ Underway' = {}
        /\ \A s \in Submits : s \notin Underway =>
             outcome'[s] = outcome[s] /\ formPc'[s] = formPc[s]
        /\ \A s \in Underway : outcome'[s] # "success"
    BY <1>3 DEF Reload, Underway
  <2>2. Succeeded' = Succeeded /\ Known' \subseteq Known /\ Succeeded \cap Underway = {}
    BY <1>0, <2>1 DEF Succeeded, Known, Underway
  <2>3. SucceededOnce' /\ Unseen' /\ \A e \in Known' : Shows(e) => Shows(e)'
    BY <1>0, <2>1, <2>2, KeepSame DEF KeepInv
  <2> QED BY <2>1, <2>2, <2>3 DEF KeepInv
<1>4. CASE UNCHANGED clientVars
  <2>1. Succeeded' = Succeeded /\ Known' = Known /\ Underway' = Underway
    BY <1>4 DEF clientVars, Succeeded, Known, Underway
  <2>2. SucceededOnce' /\ Unseen' /\ \A e \in Known' : Shows(e) => Shows(e)'
    BY <1>4, <2>1, KeepSame DEF KeepInv, clientVars
  <2> QED BY <1>4, <2>1, <2>2 DEF KeepInv, clientVars
<1> QED BY <1>1, <1>2, <1>3, <1>4 DEF ClientNext, ClientStep, Ops

LEMMA KeepSend ==
  ASSUME ShapeInv, KeepInv, NEW s \in Submits, Send(s) \/ Land(s)
  PROVE  KeepInv'
<1> USE ClientKinds DEF ShapeInv, ClientTypes, Stages
<1>1. /\ \/ formPc[s] = "sending" /\ formPc' = [formPc EXCEPT ![s] = "sent"]
         \/ formPc' = formPc
      /\ UNCHANGED <<selected, stored, form, outcome, crossed>>
  BY DEF Send, Land, FormGoto
<1>2. /\ Succeeded' = Succeeded /\ Known' = Known /\ Underway' = Underway
      /\ \A r \in Succeeded : r \in Submits /\ formPc'[r] = formPc[r]
  BY <1>1 DEF Succeeded, Known, Underway, KeepInv, SucceededOnce
<1>3. SucceededOnce'
  BY <1>1, <1>2 DEF KeepInv, SucceededOnce
<1>4. \A e \in Known' : Shows(e) => Shows(e)'
  BY <1>1, <1>2, DoneSame DEF KeepInv, Shows
<1>5. Unseen'
  <2>1. CASE form[s].op # "deploy"
    <3>1. deployed' = deployed
      BY <2>1, Effect
    <3> QED BY <1>1, <1>2, <3>1 DEF KeepInv, Unseen
  <2>2. CASE form[s].op = "deploy"
    <3>1. PICK k \in Contracts, longer \in Seq(Contracts) :
            /\ chain[k] = NotDeployed
            /\ deployed' = [deployed EXCEPT ![s] = longer]
            /\ OneMore(deployed[s], longer, k)
      BY <2>2, Effect
    <3>3. deployed'[s] = longer /\ \A r \in Submits \ {s} : deployed'[r] = deployed[r]
      BY <3>1
    <3>4. \A r \in Submits : \A i \in 1 .. Len(deployed'[r]) :
            \/ r = s /\ deployed'[r][i] = k
            \/ \E j \in 1 .. Len(deployed[r]) : deployed'[r][i] = deployed[r][j]
      <4>1. \A i \in 1 .. Len(longer) :
              longer[i] = k \/ \E j \in 1 .. Len(deployed[s]) : longer[i] = deployed[s][j]
        BY <3>1 DEF OneMore
      <4>2. ASSUME NEW r \in Submits, NEW i \in 1 .. Len(deployed'[r])
            PROVE  \/ r = s /\ deployed'[r][i] = k
                   \/ \E j \in 1 .. Len(deployed[r]) : deployed'[r][i] = deployed[r][j]
        <5>1. CASE r = s
          BY <3>3, <4>1, <5>1
        <5>2. CASE r # s
          <6>1. deployed'[r] = deployed[r]
            BY <3>3, <5>2
          <6> QED BY <6>1
        <5> QED BY <5>1, <5>2
      <4> QED BY <4>2
    <3>5. /\ \A e \in Known : e.contract # k
          /\ \A r \in Submits : /\ form[r] \in Forms /\ form[r].seen \in Escrows =>
                                     form[r].seen.contract # k
                                /\ \A i \in 1 .. Len(deployed[r]) : deployed[r][i] # k
      BY <3>1 DEF OnTheChain
    <3>6. \A r \in Submits \ Succeeded' : \A i \in 1 .. Len(deployed'[r]) :
            /\ \A e \in Known' : e.contract # deployed'[r][i]
            /\ \A t \in Submits : form'[t] \in Forms /\ form'[t].seen \in Escrows =>
                 form'[t].seen.contract # deployed'[r][i]
      BY <1>1, <1>2, <3>4, <3>5 DEF KeepInv, Unseen
    <3>7. \A r, t \in Submits : r # t =>
            \A i \in 1 .. Len(deployed'[r]), j \in 1 .. Len(deployed'[t]) :
              deployed'[r][i] # deployed'[t][j]
      <4>1. SUFFICES ASSUME NEW r \in Submits, NEW t \in Submits, r # t,
                            NEW i \in 1 .. Len(deployed'[r]), NEW j \in 1 .. Len(deployed'[t])
                     PROVE  deployed'[r][i] # deployed'[t][j]
        OBVIOUS
      <4>2. \/ r = s /\ deployed'[r][i] = k
            \/ \E m \in 1 .. Len(deployed[r]) : deployed'[r][i] = deployed[r][m]
        BY <3>4
      <4>3. \/ t = s /\ deployed'[t][j] = k
            \/ \E m \in 1 .. Len(deployed[t]) : deployed'[t][j] = deployed[t][m]
        BY <3>4
      <4> QED BY <3>5, <4>1, <4>2, <4>3, SMTT(30) DEF KeepInv, Unseen
    <3> QED BY <3>6, <3>7 DEF Unseen
  <2> QED BY <2>1, <2>2
<1> QED BY <1>1, <1>2, <1>3, <1>4, <1>5 DEF KeepInv

LEMMA KeepSucceed ==
  ASSUME ShapeInv, CopyInv, KeepInv, NEW s \in Submits, Succeed(s)
  PROVE  KeepInv'
<1> USE ClientKinds DEF ShapeInv, ClientTypes, Stages
<1>1. /\ formPc[s] = "sent" /\ formPc' = [formPc EXCEPT ![s] = "done"]
      /\ outcome' = [outcome EXCEPT ![s] = "success"]
      /\ form' = form /\ deployed' = deployed /\ crossed' = crossed /\ form[s] \in Forms
  BY DEF Succeed, Show, FormGoto
<1>2. /\ Succeeded' = Succeeded \cup {s} /\ s \notin Succeeded
      /\ Underway' = Underway \ {s} /\ s \in Underway
  BY <1>1 DEF Succeeded, Underway, KeepInv, SucceededOnce
<1>3. SucceededOnce'
  <2>1. IsFiniteSet(Succeeded')
    BY <1>2, FS_AddElement DEF KeepInv, SucceededOnce
  <2>2. \A r \in Succeeded' :
          /\ formPc'[r] = "done" /\ form'[r] \in Forms
          /\ form'[r].op # "deploy" => form'[r].seen \in Escrows
    BY <1>1, <1>2 DEF KeepInv, SucceededOnce, Succeeded
  <2> QED BY <2>1, <2>2 DEF SucceededOnce
\* Only the form's own kind of change to its own escrow is done once more.
<1>4. \A k, op : Done(k, op)' = Done(k, op) \cup
        {x \in {s} : form[s].op = op /\ op # "deploy" /\ form[s].seen.contract = k}
  <2>1. \A k, op : Done(k, op) = {r \in Succeeded : /\ form[r].op = op /\ op # "deploy"
                                                  /\ form[r].seen.contract = k}
    BY DEF Done, Succeeded
  <2>2. \A k, op : Done(k, op)' = {r \in Succeeded' : /\ form'[r].op = op /\ op # "deploy"
                                                    /\ form'[r].seen.contract = k}
    BY DEF Done, Succeeded
  <2> QED BY <1>1, <1>2, <2>1, <2>2
<1>5. crossed = {} => Underway = {s}
  BY <1>2 DEF CopyInv
<1>6. CASE form[s].op = "deploy"
  <2> DEFINE n == Len(deployed[s])
             k == deployed[s][n]
  <2>1. /\ n \in 1 .. n /\ k \in Contracts
        /\ selected' = Fresh(k) /\ stored' = stored
    BY <1>6, Local
  <2> HIDE DEF n
  <2>2. /\ \A e \in Known : e.contract # k
        /\ \A r \in Submits : form[r] \in Forms /\ form[r].seen \in Escrows =>
             form[r].seen.contract # k
    BY <1>2, <2>1 DEF KeepInv, Unseen, n
  <2>3. \A r \in Submits \ {s} : \A i \in 1 .. Len(deployed[r]) : deployed[r][i] # k
    <3>1. SUFFICES ASSUME NEW r \in Submits \ {s}, NEW i \in 1 .. Len(deployed[r])
                   PROVE  deployed[r][i] # deployed[s][n]
      OBVIOUS
    <3>2. n \in 1 .. Len(deployed[s])
      BY <2>1 DEF n
    <3> QED BY <3>2 DEF KeepInv, Unseen
  <2>4. Fresh(k).contract = k /\ Fresh(k).flags = {} /\ Balance(Fresh(k)) = 0
    BY DEF Fresh, Balance
  <2> HIDE DEF k
  <2>5. Known' \subseteq Known \cup {Fresh(k)}
    BY <2>1 DEF Known
  <2>6. Unseen'
    <3>1. \A r \in Submits \ Succeeded' : \A i \in 1 .. Len(deployed[r]) :
            /\ \A e \in Known' : e.contract # deployed[r][i]
            /\ \A t \in Submits : form[t] \in Forms /\ form[t].seen \in Escrows =>
                 form[t].seen.contract # deployed[r][i]
      BY <1>2, <2>3, <2>4, <2>5 DEF KeepInv, Unseen
    <3> QED BY <1>1, <3>1 DEF KeepInv, Unseen
  <2>7. \A j, op : Done(j, op)' = Done(j, op)
    BY <1>4, <1>6
  <2>8. \A op : Done(k, op) = {}
    BY <2>2 DEF Done, KeepInv, SucceededOnce, Succeeded
  <2>9. ASSUME crossed = {}, NEW e \in Known' PROVE Shows(e)'
    <3>1. CASE e \in Known
      BY <2>7, <2>9, <3>1 DEF KeepInv, Shows
    <3>2. CASE e = Fresh(k)
      BY <2>4, <2>7, <2>8, <3>2, FS_EmptySet DEF Shows
    <3> QED BY <2>5, <2>9, <3>1, <3>2
  <2> QED BY <1>1, <1>2, <1>3, <1>5, <2>6, <2>9 DEF KeepInv
<1>7. CASE form[s].op # "deploy"
  <2> DEFINE f == form[s]
  <2>0. f.seen \in Escrows
    BY <1>7, Local
  <2> PICK k \in Contracts : k = f.seen.contract
    BY <2>0 DEF Escrows
  <2>1. /\ f \in Forms /\ f.seen \in Escrows
        /\ selected = NoEscrow => selected' = selected /\ stored' = stored
        /\ selected # NoEscrow =>
             /\ selected' \in Escrows /\ stored' = selected'
             /\ selected'.contract = k
             /\ selected'.flags = f.seen.flags \cup (Flags \cap {f.op})
             /\ selected'.balance = IF Applied(f).balance = -1 THEN selected.balance
                                    ELSE Applied(f).balance
    BY <1>7, Local
  <2>2. \A e \in Known' : e \in Known \/ e.contract = k
    BY <2>1 DEF Known
  <2>3. Unseen'
    <3>1. \A r \in Submits \ Succeeded' : \A i \in 1 .. Len(deployed[r]) :
            \A e \in Known' : e.contract # deployed[r][i]
      <4>1. SUFFICES ASSUME NEW r \in Submits \ Succeeded', NEW i \in 1 .. Len(deployed[r]),
                            NEW e \in Known'
                     PROVE  e.contract # deployed[r][i]
        OBVIOUS
      <4>2. r \in Submits \ Succeeded
        BY <1>2
      <4>3. form[s].seen.contract # deployed[r][i]
        BY <2>1, <4>2 DEF KeepInv, Unseen
      <4>4. e \in Known => e.contract # deployed[r][i]
        BY <4>2 DEF KeepInv, Unseen
      <4> QED BY <2>2, <4>3, <4>4
    <3> QED BY <1>1, <1>2, <3>1 DEF KeepInv, Unseen
  <2>4. ASSUME crossed = {} PROVE \A e \in Known' : Shows(e)'
    <3>1. f.seen = selected /\ selected # NoEscrow /\ selected \in Escrows /\ Shows(selected)
      BY <1>2, <2>1, <2>4 DEF KeepInv, Known
    <3> DEFINE e == selected'
    <3>2. /\ e \in Escrows /\ Known' = {e} /\ e.contract = k
          /\ e.flags = selected.flags \cup (Flags \cap {f.op})
      BY <2>1, <3>1 DEF Known
    <3>3. e.balance = IF f.op = "fund" THEN Balance(selected) + 1 ELSE selected.balance
      BY <2>1, <3>1, AppliedIs
    <3>4. Balance(selected) \in Nat
      BY <3>1, BalanceIs
    <3>5. Balance(e) = IF f.op = "fund" THEN Balance(selected) + 1 ELSE Balance(selected)
      BY <3>3, <3>4 DEF Balance
    <3>6. \A g \in Flags : Done(k, g)' # {} => g \in e.flags
      BY <1>4, <3>1, <3>2 DEF Shows
    <3>7. Balance(e) = Cardinality(Done(k, "fund")')
      <4> DEFINE D == Done(k, "fund")
                 E == Done(k, "fund")'
      <4>1. Balance(selected) = Cardinality(D)
        BY <3>1 DEF Shows
      <4>2. D \subseteq Succeeded
        BY DEF Done, Succeeded
      <4>3. IsFiniteSet(D) /\ s \notin D
        BY <1>2, <4>2, FS_Subset DEF KeepInv, SucceededOnce
      <4>4. E = IF f.op = "fund" THEN D \cup {s} ELSE D
        BY <1>4
      <4>5. Cardinality(Done(k, "fund")') = Cardinality(E)
        OBVIOUS
      <4> HIDE DEF D, E
      <4>6. Cardinality(D \cup {s}) = Cardinality(D) + 1
        BY <4>3, FS_AddElement
      <4>7. Balance(e) = Cardinality(E)
        BY <3>5, <4>1, <4>4, <4>6
      <4> QED BY <4>5, <4>7
    <3> QED BY <3>2, <3>6, <3>7 DEF Shows
  <2> QED BY <1>1, <1>2, <1>3, <1>5, <2>3, <2>4 DEF KeepInv
<1> QED BY <1>6, <1>7

LEMMA KeepInvariant == ClientSpec => []KeepInv
<1>1. ClientInit => KeepInv
  <2> SUFFICES ASSUME ClientInit PROVE KeepInv
    OBVIOUS
  <2>1. Succeeded = {} /\ Underway = {} /\ Known = {}
    BY DEF ClientInit, Succeeded, Underway, Known
  <2>2. \A s \in Submits : Len(deployed[s]) = 0
    BY DEF ClientInit
  <2>3. Unseen
    BY <2>1, <2>2 DEF Unseen
  <2> QED BY <2>1, <2>3, FS_EmptySet DEF KeepInv, SucceededOnce
<1>2. ShapeInv /\ CopyInv /\ KeepInv /\ [ClientNext]_clientVars => KeepInv'
  BY KeepOther, KeepSend, KeepSucceed
<1> QED BY <1>1, <1>2, ShapeInvariant, CopyInvariant, PTL DEF ClientSpec

\* While forms are submitted one at a time, a copy of an escrow shows all that was
\* reported as done to it, and its balance is what was reported as paid in.
THEOREM CopyKeepsUp == ClientSpec => []LocalCopyKeepsUp
<1>1. KeepInv => LocalCopyKeepsUp
  BY DEF KeepInv, Shows, LocalCopyKeepsUp
<1> QED BY <1>1, KeepInvariant, PTL

-----------------------------------------------------------------------------
(* What was paid *)

Begun == {s \in Submits : formPc[s] # "idle"}

\* The payments to a contract that are known to have been made, and those that may
\* have been by now.
Certain(k) == {s \in Paying(k) : formPc[s] = "sent" \/ outcome[s] = "success"}
Possible(k) == {s \in Paying(k) : formPc[s] \in {"sent", "done"} /\ <<s, tries[s]>> \notin afloat}

\* What was paid lies between the two.
PaidInv ==
  /\ IsFiniteSet(Begun)
  /\ \A s \in Submits : formPc[s] = "idle" => form[s] = NoForm
  /\ \A k \in Contracts : chain[k] \in OnChain =>
       /\ Cardinality(Certain(k)) <= chain[k].paid
       /\ chain[k].paid <= Cardinality(Possible(k))

LEMMA PayingIsFinite ==
  ASSUME PaidInv, NEW k
  PROVE  /\ IsFiniteSet(Certain(k)) /\ IsFiniteSet(Possible(k)) /\ IsFiniteSet(Paying(k))
         /\ Cardinality(Certain(k)) \in Nat /\ Cardinality(Possible(k)) \in Nat
         /\ Certain(k) \in SUBSET Paying(k) /\ Possible(k) \in SUBSET Paying(k)
<1>1. Paying(k) \in SUBSET Begun
  BY DEF Paying, Begun, PaidInv, NoForm
<1>2. Certain(k) \in SUBSET Paying(k) /\ Possible(k) \in SUBSET Paying(k)
  BY DEF Certain, Possible
<1>3. IsFiniteSet(Begun)
  BY DEF PaidInv
<1> QED BY <1>1, <1>2, <1>3, FS_Subset, FS_CardinalityType

\* A step that pays nothing and forgets no payment.
LEMMA PaidKept ==
  ASSUME ShapeInv, PaidInv, IsFiniteSet(Begun'),
         \A s \in Submits : formPc'[s] = "idle" => form'[s] = NoForm,
         \A k \in Contracts :
           /\ chain'[k] = chain[k]
           /\ Certain(k)' \in SUBSET Certain(k) /\ Possible(k) \in SUBSET Possible(k)'
           /\ IsFiniteSet(Possible(k)')
  PROVE  PaidInv'
<1>1. ASSUME NEW k \in Contracts, chain'[k] \in OnChain
      PROVE  Cardinality(Certain(k)') <= chain'[k].paid /\ chain'[k].paid <= Cardinality(Possible(k)')
  <2>1. /\ Cardinality(Certain(k)) <= chain[k].paid /\ chain[k].paid <= Cardinality(Possible(k))
        /\ chain[k].paid \in Nat
    BY <1>1 DEF PaidInv, OnChain
  <2>2. /\ Cardinality(Certain(k)') <= Cardinality(Certain(k)) /\ Cardinality(Certain(k)') \in Nat
        /\ Cardinality(Possible(k)) <= Cardinality(Possible(k)')
        /\ Cardinality(Possible(k)') \in Nat
    BY PayingIsFinite, FS_Subset, FS_CardinalityType
  <2>3. Cardinality(Certain(k)) \in Nat /\ Cardinality(Possible(k)) \in Nat
    BY PayingIsFinite
  <2> HIDE DEF Certain, Possible
  <2> QED BY <1>1, <2>1, <2>2, <2>3
<1> QED BY <1>1 DEF PaidInv

LEMMA PaidOther ==
  ASSUME ShapeInv, PaidInv, form' = form, chain' = chain,
         \A s \in Submits :
           /\ formPc'[s] = "idle" <=> formPc[s] = "idle"
           /\ formPc'[s] = "sent" => formPc[s] = "sent"
           /\ outcome'[s] = "success" => outcome[s] = "success" \/ formPc[s] = "sent"
           /\ formPc[s] \in {"sent", "done"} /\ form[s].op = "fund" =>
                formPc'[s] \in {"sent", "done"} /\ tries'[s] = tries[s]
           /\ formPc[s] \in {"sent", "done"} /\ <<s, tries[s]>> \in afloat' =>
                <<s, tries[s]>> \in afloat
  PROVE  PaidInv'
<1>1. Begun' = Begun /\ \A k : Paying(k)' = Paying(k)
  BY DEF Begun, Paying
<1>2. ASSUME NEW k \in Contracts
      PROVE  /\ Certain(k)' \in SUBSET Certain(k) /\ Possible(k) \in SUBSET Possible(k)'
             /\ IsFiniteSet(Possible(k)')
  <2>1. Possible(k)' \in SUBSET Paying(k)
    BY <1>1 DEF Possible
  <2>2. \A s \in Paying(k) : s \in Submits /\ form[s].op = "fund"
    BY DEF Paying
  <2> QED BY <1>1, <2>1, <2>2, PayingIsFinite, FS_Subset DEF Certain, Possible
<1>3. IsFiniteSet(Begun') /\ \A s \in Submits : formPc'[s] = "idle" => form'[s] = NoForm
  BY <1>1 DEF PaidInv
<1> QED BY <1>2, <1>3, PaidKept

LEMMA PaidSubmit ==
  ASSUME ShapeInv, SucceededOnce, PaidInv, NEW s \in Submits, NEW f, SubmitForm(s, f)
  PROVE  PaidInv'
<1>1. /\ formPc[s] = "idle" /\ chain' = chain /\ outcome' = outcome
      /\ formPc'[s] \in {"checking", "fetching"}
      /\ \A r \in Submits \ {s} : formPc'[r] = formPc[r] /\ form'[r] = form[r]
  BY DEF SubmitForm, FormGoto, ShapeInv, ClientTypes
<1>a. afloat' = afloat /\ \A r \in Submits \ {s} : tries'[r] = tries[r]
  BY DEF SubmitForm, ShapeInv, ClientTypes
<1>2. outcome[s] # "success"
  BY <1>1 DEF SucceededOnce, Succeeded
<1>3. Begun' = Begun \cup {s}
  BY <1>1 DEF Begun
<1>4. IsFiniteSet(Begun')
  BY <1>3, FS_AddElement DEF PaidInv
<1>5. ASSUME NEW k \in Contracts
      PROVE  /\ Certain(k)' \in SUBSET Certain(k) /\ Possible(k) \in SUBSET Possible(k)'
             /\ IsFiniteSet(Possible(k)')
  <2>1. \A r \in Submits \ {s} : r \in Paying(k)' <=> r \in Paying(k)
    BY <1>1 DEF Paying
  <2>2. Paying(k)' \in SUBSET Submits /\ Paying(k) \in SUBSET Submits
    BY DEF Paying
  <2>3. Possible(k)' \in SUBSET Begun'
    BY <2>2 DEF Possible, Begun
  <2>4. Certain(k)' \in SUBSET Certain(k)
    BY <1>1, <1>2, <2>1, <2>2 DEF Certain
  <2>5. Possible(k) \in SUBSET Possible(k)'
    BY <1>1, <1>a, <2>1, <2>2 DEF Possible
  <2> QED BY <1>4, <2>3, <2>4, <2>5, FS_Subset
<1>6. \A r \in Submits : formPc'[r] = "idle" => form'[r] = NoForm
  BY <1>1 DEF PaidInv
<1> QED BY <1>1, <1>4, <1>5, <1>6, PaidKept

LEMMA PaidSend ==
  ASSUME ShapeInv, SucceededOnce, PaidInv, NEW s \in Submits, Send(s) \/ Land(s)
  PROVE  PaidInv'
<1> DEFINE about == form[s].seen.contract
<1>0. formPc \in [Submits -> {"idle", "checking", "fetching", "sending", "sent", "waiting", "done"}]
  BY DEF ShapeInv, ClientTypes
<1>1. /\ form' = form /\ outcome' = outcome /\ tries' = tries
      /\ \A r \in Submits \ {s} : /\ formPc'[r] = formPc[r]
                                 /\ \A t : <<r, t>> \in afloat' <=> <<r, t>> \in afloat
      /\ formPc'[s] = "idle" <=> formPc[s] = "idle"
  <2>1. CASE Send(s)
    BY <1>0, <2>1 DEF Send, FormGoto
  <2>2. CASE Land(s)
    <3>1. PICK try : /\ afloat' = afloat \ {<<s, try>>}
                     /\ UNCHANGED <<form, outcome, tries, formPc>>
      BY <2>2 DEF Land
    <3> QED BY <3>1
  <2> QED BY <2>1, <2>2
<1>2. Begun' = Begun /\ \A k : Paying(k)' = Paying(k)
  BY <1>1 DEF Begun, Paying
<1>3. IsFiniteSet(Begun') /\ \A r \in Submits : formPc'[r] = "idle" => form'[r] = NoForm
  BY <1>1, <1>2 DEF PaidInv
<1>4. /\ form[s] \in Forms
      /\ form[s].op # "deploy" => form[s].seen \in Escrows
  <2>1. CASE Send(s)
    BY <2>1 DEF Send, ShapeInv, Stages
  <2>2. CASE Land(s)
    <3>1. PICK try \in Nat : <<s, try>> \in afloat
      BY <2>2, EscrowClientAssumption DEF Land
    <3>2. formPc[s] # "idle" /\ (form[s].op # "deploy" => form[s].seen \in Escrows)
      BY <3>1 DEF ShapeInv, OnTheWay
    <3> QED BY <3>2 DEF ShapeInv, Stages
  <2> QED BY <2>1, <2>2
\* A payment becomes possible with the step, unless the step is no payment.
<1>5. form[s].op = "fund" =>
        /\ ~(formPc[s] \in {"sent", "done"} /\ <<s, tries[s]>> \notin afloat)
        /\ formPc'[s] \in {"sent", "done"} /\ <<s, tries[s]>> \notin afloat'
  <2>1. CASE Send(s)
    <3>1. formPc[s] = "sending" /\ formPc'[s] = "sent" /\ afloat' = afloat /\ tries[s] \in Nat
      BY <1>0, <2>1 DEF Send, FormGoto, ShapeInv, ClientTypes
    <3>2. form[s].op = "fund" => <<s, tries[s]>> \notin afloat
      BY <3>1 DEF ShapeInv, OnTheWay
    <3> QED BY <3>1, <3>2
  <2>2. CASE Land(s)
    <3>1. PICK try \in 1 .. MaxAttempts :
            <<s, try>> \in afloat /\ afloat' = afloat \ {<<s, try>>} /\ formPc' = formPc
      BY <2>2 DEF Land
    <3>2. try \in Nat
      BY EscrowClientAssumption
    <3>3. form[s].op = "fund" => formPc[s] = "done" /\ try = tries[s]
      BY <3>1, <3>2 DEF ShapeInv, OnTheWay
    <3> QED BY <3>1, <3>3
  <2> QED BY <2>1, <2>2
<1>6. ASSUME NEW k, s \notin Paying(k)
      PROVE  Certain(k)' = Certain(k) /\ Possible(k)' = Possible(k)
  <2>1. \A r \in Paying(k) : r \in Submits \ {s}
    BY <1>6 DEF Paying
  <2> QED BY <1>1, <1>2, <2>1 DEF Certain, Possible
<1>7. ASSUME NEW k, s \in Paying(k)
      PROVE  /\ Certain(k)' \in SUBSET (Certain(k) \cup {s})
             /\ s \notin Possible(k) /\ Possible(k)' = Possible(k) \cup {s}
  <2>1. form[s].op = "fund" /\ \A r \in Paying(k) : r = s \/ r \in Submits \ {s}
    BY <1>7 DEF Paying
  <2>2. Certain(k)' \in SUBSET (Certain(k) \cup {s})
    BY <1>1, <1>2, <2>1 DEF Certain
  <2>3. s \notin Possible(k) /\ Possible(k)' = Possible(k) \cup {s}
    BY <1>1, <1>2, <1>5, <1>7, <2>1 DEF Possible
  <2> QED BY <2>2, <2>3
<1>8. ASSUME NEW k, s \in Paying(k)
      PROVE  /\ Cardinality(Certain(k)') \in Nat
             /\ Cardinality(Certain(k)') <= Cardinality(Certain(k)) + 1
             /\ Cardinality(Possible(k)') = Cardinality(Possible(k)) + 1
  <2>1. IsFiniteSet(Certain(k)) /\ IsFiniteSet(Possible(k)) /\ Cardinality(Certain(k)) \in Nat
    BY PayingIsFinite
  <2>2. /\ Certain(k)' \in SUBSET (Certain(k) \cup {s})
        /\ s \notin Possible(k) /\ Possible(k)' = Possible(k) \cup {s}
    BY <1>7, <1>8
  <2> HIDE DEF Certain, Possible
  <2>3. /\ IsFiniteSet(Certain(k) \cup {s})
        /\ Cardinality(Certain(k) \cup {s}) \in {Cardinality(Certain(k)), Cardinality(Certain(k)) + 1}
    BY <2>1, FS_AddElement
  <2>4. /\ Cardinality(Certain(k)') <= Cardinality(Certain(k) \cup {s})
        /\ Cardinality(Certain(k)') \in Nat
    BY <2>2, <2>3, FS_Subset, FS_CardinalityType
  <2>5. Cardinality(Possible(k)') = Cardinality(Possible(k)) + 1
    BY <2>1, <2>2, FS_AddElement
  <2> QED BY <2>1, <2>3, <2>4, <2>5
<1>9. ASSUME NEW k \in Contracts, chain'[k] \in OnChain
      PROVE  Cardinality(Certain(k)') <= chain'[k].paid /\ chain'[k].paid <= Cardinality(Possible(k)')
  <2>0. chain'[k].paid \in Nat /\ Cardinality(Certain(k)) \in Nat /\ Cardinality(Possible(k)) \in Nat
    BY <1>9, PayingIsFinite DEF OnChain
  <2>1. CASE chain[k] \in OnChain
    <3>1. /\ Cardinality(Certain(k)) <= chain[k].paid /\ chain[k].paid <= Cardinality(Possible(k))
          /\ chain[k].paid \in Nat
      BY <2>1 DEF PaidInv, OnChain
    <3>2. CASE s \in Paying(k)
      <4>1. form[s].op = "fund" /\ about = k
        BY <3>2 DEF Paying
      <4>2. chain'[k].paid = chain[k].paid + 1
        BY <4>1, Effect
      <4>3. /\ Cardinality(Certain(k)') \in Nat
            /\ Cardinality(Certain(k)') <= Cardinality(Certain(k)) + 1
            /\ Cardinality(Possible(k)') = Cardinality(Possible(k)) + 1
        BY <1>8, <3>2
      <4> QED BY <2>0, <3>1, <4>2, <4>3
    <3>3. CASE s \notin Paying(k)
      <4>1. chain'[k].paid = chain[k].paid
        <5>1. CASE form[s].op = "deploy"
          <6>1. PICK j \in Contracts :
                  /\ chain[j] = NotDeployed
                  /\ chain' = [chain EXCEPT ![j] = [paid |-> 0, flags |-> {}]]
            BY <5>1, Effect
          <6>2. j # k
            BY <2>1, <6>1, ClientKinds
          <6> QED BY <6>1, <6>2 DEF ShapeInv, ClientTypes
        <5>2. CASE form[s].op # "deploy"
          <6>1. form[s].op = "fund" => about # k
            BY <1>4, <3>3, <5>2, ClientKinds DEF Paying
          <6>2. /\ about \in Contracts
                /\ \A j \in Contracts \ {about} : chain'[j] = chain[j]
                /\ form[s].op # "fund" => chain'[about].paid = chain[about].paid + 0
            BY <5>2, Effect
          <6>3. chain[k].paid + 0 = chain[k].paid
            BY <3>1
          <6> QED BY <6>1, <6>2, <6>3
        <5> QED BY <5>1, <5>2
      <4> QED BY <1>6, <3>1, <3>3, <4>1
    <3> QED BY <3>2, <3>3
  <2>2. CASE chain[k] \notin OnChain
    <3>1. form[s].op = "deploy" /\ chain'[k].paid = 0
      <4>1. form[s].op = "deploy"
        BY <1>9, <2>2, Effect
      <4>2. PICK j \in Contracts : /\ chain[j] = NotDeployed
                                   /\ chain' = [chain EXCEPT ![j] = [paid |-> 0, flags |-> {}]]
        BY <4>1, Effect
      <4> QED BY <1>9, <2>2, <4>1, <4>2 DEF ShapeInv, ClientTypes
    <3>2. Paying(k) = {}
      <4>1. ASSUME NEW r \in Paying(k) PROVE FALSE
        <5>1. r \in Submits /\ form[r].seen # NoEscrow /\ form[r].seen.contract = k /\ form[r].op = "fund"
          BY DEF Paying
        <5>2. form[r] \in Forms
          BY <5>1 DEF ShapeInv, ClientTypes, NoForm
        <5>3. form[r].seen \in Escrows
          BY <5>1, <5>2 DEF Forms
        <5> QED BY <2>2, <5>1, <5>2, <5>3 DEF ShapeInv, OnTheChain
      <4> QED BY <4>1
    <3>3. Certain(k) = {}
      BY <3>2 DEF Certain
    <3>4. Certain(k)' = {} /\ Possible(k)' = Possible(k)
      BY <1>6, <3>2, <3>3
    <3> QED BY <2>0, <3>1, <3>4, FS_EmptySet
  <2> QED BY <2>1, <2>2
<1> QED BY <1>3, <1>9 DEF PaidInv

LEMMA PaidInvariant == ClientSpec => []PaidInv
<1>1. ClientInit => PaidInv
  <2>1. ClientInit => Begun = {} /\ \A k \in Contracts : chain[k] \notin OnChain
    BY ClientKinds DEF ClientInit, Begun
  <2>2. ClientInit => \A s \in Submits : form[s] = NoForm
    BY DEF ClientInit
  <2> QED BY <2>1, <2>2, FS_EmptySet DEF PaidInv
<1>2. ASSUME ShapeInv, SucceededOnce, PaidInv, [ClientNext]_clientVars PROVE PaidInv'
  <2> USE <1>2 DEF ShapeInv, ClientTypes, FormGoto, Show
  <2>1. ASSUME NEW s \in Submits, EnsureTrustline(s) PROVE PaidInv'
    BY <2>1, PaidOther DEF EnsureTrustline
  <2>2. ASSUME NEW s \in Submits, FetchAndSign(s) PROVE PaidInv'
    BY <2>2, PaidOther DEF FetchAndSign
  <2>3. ASSUME NEW s \in Submits, Succeed(s) PROVE PaidInv'
    BY <2>3, PaidOther DEF Succeed
  <2>4. ASSUME NEW s \in Submits, Fail(s) PROVE PaidInv'
    <3>1. \A x \in Submits : \A t : <<x, t>> \in Sent({s}) => formPc[x] = "sending"
      BY DEF Sent
    <3> QED BY <2>4, <3>1, PaidOther DEF Fail, CanRetry
  <2>5. ASSUME NEW s \in Submits, TryAgain(s) PROVE PaidInv'
    BY <2>5, PaidOther DEF TryAgain
  <2>6. ASSUME Reload PROVE PaidInv'
    <3>1. \A x \in Submits : \A t : <<x, t>> \in Sent(Underway) => formPc[x] = "sending"
      BY DEF Sent
    <3> QED BY <2>6, <3>1, PaidOther DEF Reload, Underway
  <2>7. ASSUME UNCHANGED clientVars PROVE PaidInv'
    BY <2>7, PaidOther DEF clientVars
  <2> QED BY <1>2, <2>1, <2>2, <2>3, <2>4, <2>5, <2>6, <2>7, PaidSubmit, PaidSend
             DEF ClientNext, ClientStep
<1>3. KeepInv => SucceededOnce
  BY DEF KeepInv
<1> QED BY <1>1, <1>2, <1>3, ShapeInvariant, KeepInvariant, PTL DEF ClientSpec

\* Whatever overlaps, fails, is answered wrongly or forgotten by a reload: all that
\* users were told they paid is in the contract, and no submission paid twice.
THEOREM EveryPaymentCounts == ClientSpec => []PaymentsAddUp
<1>1. ShapeInv /\ SucceededOnce /\ PaidInv => PaymentsAddUp
  <2> SUFFICES ASSUME ShapeInv, SucceededOnce, PaidInv,
                      NEW k \in Contracts, chain[k] # NotDeployed
               PROVE  /\ Cardinality(Done(k, "fund")) <= chain[k].paid
                      /\ chain[k].paid <= Cardinality(Paying(k))
    BY DEF PaymentsAddUp
  <2>1. chain[k] \in OnChain /\ chain[k].paid \in Nat
    BY DEF ShapeInv, ClientTypes, OnChain
  <2>2. Done(k, "fund") \in SUBSET Certain(k)
    BY ClientKinds DEF Done, Certain, Paying, SucceededOnce, Succeeded
  <2>3. Cardinality(Done(k, "fund")) <= Cardinality(Certain(k)) /\ Cardinality(Done(k, "fund")) \in Nat
    BY <2>2, PayingIsFinite, FS_Subset, FS_CardinalityType
  <2>4. Cardinality(Possible(k)) <= Cardinality(Paying(k)) /\ Cardinality(Paying(k)) \in Nat
    BY PayingIsFinite, FS_Subset, FS_CardinalityType
  <2>5. /\ Cardinality(Certain(k)) <= chain[k].paid /\ chain[k].paid <= Cardinality(Possible(k))
        /\ Cardinality(Certain(k)) \in Nat /\ Cardinality(Possible(k)) \in Nat
    BY <2>1, PayingIsFinite DEF PaidInv
  <2> QED BY <2>1, <2>3, <2>4, <2>5
<1>2. KeepInv => SucceededOnce
  BY DEF KeepInv
<1> QED BY <1>1, <1>2, ShapeInvariant, KeepInvariant, PaidInvariant, PTL

-----------------------------------------------------------------------------
(* The limiter: what pruning leaves of the table *)

\* Every number below the size of a set of positions is that of the positions
\* before one of them.
LEMMA Positions ==
  ASSUME NEW S \in SUBSET Int, IsFiniteSet(S)
  PROVE  /\ \A i \in S : Cardinality({j \in S : j < i}) \in 0 .. Cardinality(S) - 1
         /\ \A i, k \in S : i < k <=> Cardinality({j \in S : j < i}) < Cardinality({j \in S : j < k})
         /\ \A n \in 1 .. Cardinality(S) : \E i \in S : Cardinality({j \in S : j < i}) = n - 1
<1> DEFINE below(i) == {j \in S : j < i}
           before(i) == Cardinality(below(i))
<1>1. \A i : below(i) \in SUBSET S
  OBVIOUS
<1>2. \A i : IsFiniteSet(below(i)) /\ before(i) \in Nat
  BY <1>1, FS_Subset, FS_CardinalityType
<1>3. Cardinality(S) \in Nat
  BY FS_CardinalityType
<1>4. ASSUME NEW B, IsFiniteSet(B), NEW A \in SUBSET B, NEW x \in B, x \notin A
      PROVE  Cardinality(A) < Cardinality(B)
  <2>1. IsFiniteSet(A) /\ Cardinality(A) <= Cardinality(B) /\ (Cardinality(A) = Cardinality(B) => A = B)
    BY <1>4, FS_Subset
  <2>2. Cardinality(A) \in Nat /\ Cardinality(B) \in Nat
    BY <1>4, <2>1, FS_CardinalityType
  <2> QED BY <1>4, <2>1, <2>2
<1>5. ASSUME NEW i \in S PROVE before(i) < Cardinality(S)
  BY <1>1, <1>4
<1>6. ASSUME NEW i \in S, NEW k \in S, i < k PROVE before(i) < before(k)
  <2>1. i \in below(k) /\ i \notin below(i)
    BY <1>6
  <2>2. ASSUME NEW j \in below(i) PROVE j \in below(k)
    <3>1. j \in S /\ j < i /\ j \in Int /\ i \in Int /\ k \in Int
      BY <2>2
    <3>2. j < k
      BY <1>6, <3>1
    <3> QED BY <3>1, <3>2
  <2> HIDE DEF below
  <2>3. below(i) \in SUBSET below(k)
    BY <2>2
  <2> QED BY <1>2, <1>4, <2>1, <2>3
<1> HIDE DEF before
<1>7. \A i, k \in S : i < k <=> before(i) < before(k)
  <2>1. ASSUME NEW i \in S, NEW k \in S, before(i) < before(k), ~(i < k) PROVE FALSE
    <3>1. i = k \/ k < i
      BY <2>1
    <3>2. before(i) \in Nat /\ before(k) \in Nat
      BY <1>2 DEF before
    <3> QED BY <1>6, <2>1, <3>1, <3>2
  <2> QED BY <1>6, <2>1
<1>8. \A i \in S : before(i) \in 0 .. Cardinality(S) - 1
  <2>1. ASSUME NEW i \in S PROVE before(i) \in 0 .. Cardinality(S) - 1
    <3>1. before(i) \in Nat
      BY <1>2 DEF before
    <3> QED BY <1>3, <1>5, <3>1
  <2> QED BY <2>1
<1>9. ASSUME NEW n \in 1 .. Cardinality(S) PROVE \E i \in S : before(i) = n - 1
  <2> DEFINE I == {before(i) : i \in S}
             f == [i \in S |-> before(i)]
             top == 0 .. Cardinality(S) - 1
  <2>1. I \in SUBSET top
    BY <1>8
  <2>2. f \in [S -> I] /\ \A m \in I : \E i \in S : f[i] = m
    OBVIOUS
  <2>3. \A i, k \in S : f[i] = f[k] => i = k
    <3>1. SUFFICES ASSUME NEW i \in S, NEW k \in S, before(i) = before(k), i # k PROVE FALSE
      OBVIOUS
    <3>2. i < k \/ k < i
      BY <3>1
    <3>3. before(i) \in Nat /\ before(k) \in Nat
      BY <1>2 DEF before
    <3> QED BY <1>7, <3>1, <3>2, <3>3
  <2> HIDE DEF f
  <2>4. f \in Bijection(S, I)
    BY <2>2, <2>3 DEF Bijection, Injection, Surjection, IsInjective
  <2>5. ExistsBijection(S, I)
    BY <2>4 DEF ExistsBijection
  <2>6. IsFiniteSet(I) /\ Cardinality(I) = Cardinality(S)
    BY <2>5, FS_Bijection
  <2>7. IsFiniteSet(top) /\ Cardinality(top) = Cardinality(S)
    <3>1. ASSUME NEW c \in Nat
          PROVE  IsFiniteSet(0 .. c - 1) /\ Cardinality(0 .. c - 1) = c
      BY FS_Interval
    <3> QED BY <1>3, <3>1
  <2> HIDE DEF top, I
  <2>8. I = top
    BY <2>1, <2>6, <2>7, FS_Subset
  <2>9. n - 1 \in I
    BY <1>3, <2>8 DEF top
  <2> QED BY <2>9 DEF I
<1> QED BY <1>7, <1>8, <1>9 DEF before

\* Entries takes the entries at some positions, each once and in their order.
LEMMA EntriesAre ==
  ASSUME NEW E, NEW map \in Seq(E), NEW at \in SUBSET DOMAIN map
  PROVE  /\ IsFiniteSet(at)
         /\ Entries(map, at) \in Seq(E) /\ Len(Entries(map, at)) = Cardinality(at)
         /\ \E f \in [1 .. Cardinality(at) -> at] :
              \A m, n \in 1 .. Cardinality(at) :
                Entries(map, at)[n] = map[f[n]] /\ (m < n => f[m] < f[n])
<1> DEFINE before(i) == Cardinality({j \in at : j < i})
           size == Cardinality(at)
           f == [n \in 1 .. size |-> CHOOSE i \in at : before(i) = n - 1]
<1>1. DOMAIN map = 1 .. Len(map) /\ Len(map) \in Nat
  OBVIOUS
<1>2. IsFiniteSet(DOMAIN map)
  BY <1>1, FS_Interval
<1>3. IsFiniteSet(at) /\ size \in Nat /\ at \in SUBSET Int
  BY <1>1, <1>2, FS_Subset, FS_CardinalityType
<1>4. /\ \A i, k \in at : i < k <=> before(i) < before(k)
      /\ \A n \in 1 .. size : \E i \in at : before(i) = n - 1
  BY <1>3, Positions
<1>5. Entries(map, at) = [n \in 1 .. size |-> map[f[n]]]
  BY DEF Entries
<1> HIDE DEF before, size
<1>6. \A n \in 1 .. size : f[n] \in at /\ before(f[n]) = n - 1
  BY <1>4
<1> HIDE DEF f
<1>7. \A m, n \in 1 .. size : m < n => f[m] < f[n]
  <2>1. SUFFICES ASSUME NEW m \in 1 .. size, NEW n \in 1 .. size, m < n PROVE f[m] < f[n]
    OBVIOUS
  <2>2. before(f[m]) < before(f[n]) /\ f[m] \in at /\ f[n] \in at
    BY <1>3, <1>6, <2>1
  <2> QED BY <1>4, <2>2
<1>8. f \in [1 .. size -> at]
  BY <1>6 DEF f
<1>9. Entries(map, at) \in Seq(E) /\ Len(Entries(map, at)) = size
  <2>1. \A n \in 1 .. size : map[f[n]] \in E
    BY <1>1, <1>6
  <2> QED BY <1>3, <1>5, <2>1
<1>10. \A n \in 1 .. size : Entries(map, at)[n] = map[f[n]]
  BY <1>5
<1> QED BY <1>3, <1>7, <1>8, <1>9, <1>10 DEF size

-----------------------------------------------------------------------------
(* The limiter: what a request makes of the table *)

Windows == [key : Keys, count : Nat, resetAt : Nat]

NewWindow(k) == [key |-> k, count |-> 0, resetAt |-> now + Window]

\* TableIsBounded, of any table.
Bounded(map) ==
  /\ Len(map) <= MaxTracked
  /\ \A i, j \in DOMAIN map : map[i].key = map[j].key => i = j

\* Pruning makes room for one entry and brings none in.
LEMMA PrunedHasRoom ==
  ASSUME NEW map \in Seq(Windows), Bounded(map), now \in Nat
  PROVE  /\ Pruned(map) \in Seq(Windows) /\ Len(Pruned(map)) < MaxTracked
         /\ Bounded(Pruned(map))
         /\ \A n \in DOMAIN Pruned(map) : \E i \in DOMAIN map :
              Pruned(map)[n] = map[i] /\ ~Ended(map[i])
<1> DEFINE live == {i \in DOMAIN map : ~Ended(map[i])}
           size == Cardinality(live)
           excess == size - MaxTracked + 1
           before(i) == Cardinality({j \in live : j < i})
           at == {i \in live : before(i) >= excess}
<1>1. IsFiniteSet(live) /\ live \in SUBSET Int /\ live \in SUBSET DOMAIN map
  <2>1. DOMAIN map = 1 .. Len(map) /\ Len(map) \in Nat
    OBVIOUS
  <2>2. IsFiniteSet(DOMAIN map)
    BY <2>1, FS_Interval
  <2> QED BY <2>1, <2>2, FS_Subset
<1>2. /\ \A i \in live : before(i) \in 0 .. size - 1
      /\ \A i, k \in live : i < k <=> before(i) < before(k)
  BY <1>1, Positions
<1>3. Pruned(map) = Entries(map, at)
  BY DEF Pruned
<1>4. \A i \in live : i \in DOMAIN map /\ ~Ended(map[i])
  OBVIOUS
<1> HIDE DEF live, before
<1>5. size \in Nat /\ MaxTracked \in Nat \ {0}
  BY <1>1, FS_CardinalityType, RateLimitAssumption
<1> HIDE DEF size
<1>6. at \in SUBSET live /\ at \in SUBSET DOMAIN map
  BY <1>1
<1>7. IsFiniteSet(at) /\ Cardinality(at) \in Nat
  BY <1>1, <1>6, FS_Subset, FS_CardinalityType
<1>8. Cardinality(at) < MaxTracked
  <2>1. CASE excess <= 0
    <3>1. Cardinality(at) <= size
      BY <1>1, <1>6, FS_Subset DEF size
    <3> QED BY <1>5, <1>7, <2>1, <3>1
  <2>2. CASE excess > 0
    <3> DEFINE top == excess .. size - 1
               f == [i \in at |-> before(i)]
    <3>1. f \in [at -> top]
      BY <1>2, <1>5
    <3>2. \A i, k \in at : f[i] = f[k] => i = k
      <4>1. SUFFICES ASSUME NEW i \in at, NEW k \in at, before(i) = before(k), i # k PROVE FALSE
        OBVIOUS
      <4>2. i < k \/ k < i
        BY <1>1, <1>6, <4>1
      <4>3. before(i) \in Int /\ before(k) \in Int
        BY <1>2, <1>6
      <4> QED BY <1>2, <1>6, <4>1, <4>2, <4>3
    <3> HIDE DEF f, at, top
    <3>3. f \in Injection(at, top)
      BY <3>1, <3>2 DEF Injection, IsInjective
    <3>4. IsFiniteSet(top) /\ Cardinality(top) = MaxTracked - 1
      <4>1. size - 1 - excess + 1 = MaxTracked - 1 /\ excess \in Int /\ size - 1 \in Int
        BY <1>5
      <4>2. excess > size - 1 => MaxTracked - 1 = 0
        BY <1>5
      <4> HIDE DEF excess
      <4> QED BY <4>1, <4>2, FS_Interval DEF top
    <3>5. Cardinality(at) <= MaxTracked - 1
      BY <3>3, <3>4, FS_Injection
    <3> QED BY <1>5, <1>7, <3>5
  <2> QED BY <1>5, <2>1, <2>2
<1> HIDE DEF at
<1>9. Pruned(map) \in Seq(Windows) /\ Len(Pruned(map)) = Cardinality(at)
  BY <1>3, <1>6, EntriesAre
<1>10. PICK f \in [1 .. Cardinality(at) -> at] :
         \A m, n \in 1 .. Cardinality(at) :
           Pruned(map)[n] = map[f[n]] /\ (m < n => f[m] < f[n])
  BY <1>3, <1>6, EntriesAre
<1>11. DOMAIN Pruned(map) = 1 .. Cardinality(at)
  BY <1>9
<1>12. ASSUME NEW m \in DOMAIN Pruned(map), NEW n \in DOMAIN Pruned(map),
              Pruned(map)[m].key = Pruned(map)[n].key
       PROVE  m = n
  <2>1. f[m] \in DOMAIN map /\ f[n] \in DOMAIN map /\ map[f[m]].key = map[f[n]].key
    BY <1>6, <1>10, <1>11, <1>12
  <2>2. f[m] = f[n] /\ f[m] \in Int
    BY <1>1, <1>6, <1>10, <1>11, <2>1 DEF Bounded
  <2>3. ~(m < n) /\ ~(n < m) /\ m \in Int /\ n \in Int
    BY <1>10, <1>11, <2>2
  <2> QED BY <2>3
<1>13. \A n \in DOMAIN Pruned(map) : \E i \in DOMAIN map :
         Pruned(map)[n] = map[i] /\ ~Ended(map[i])
  <2>1. ASSUME NEW n \in DOMAIN Pruned(map)
        PROVE  \E i \in DOMAIN map : Pruned(map)[n] = map[i] /\ ~Ended(map[i])
    <3>1. f[n] \in live /\ Pruned(map)[n] = map[f[n]]
      BY <1>6, <1>10, <1>11, <2>1
    <3> QED BY <1>4, <3>1
  <2> QED BY <2>1
<1> QED BY <1>5, <1>7, <1>8, <1>9, <1>12, <1>13 DEF Bounded

\* What a request finds or puts in the table: an entry that was there, unless it is
\* the caller's and ended, or a fresh one in place of that or of none.
LEMMA OpenedIs ==
  ASSUME NEW k \in Keys, hits \in Seq(Windows), Bounded(hits), now \in Nat
  PROVE  /\ Opened(k) \in Seq(Windows) /\ Bounded(Opened(k))
         /\ \A i \in DOMAIN Opened(k) :
              \/ /\ Opened(k)[i] = NewWindow(k)
                 /\ \A j \in At(hits, k) : Ended(hits[j])
              \/ \E j \in DOMAIN hits :
                   /\ Opened(k)[i] = hits[j]
                   /\ hits[j].key = k => ~Ended(hits[j])
<1> DEFINE kept == IF Len(hits) >= MaxTracked THEN Pruned(hits) ELSE hits
<1>1. NewWindow(k) \in Windows /\ NewWindow(k).key = k
  BY RateLimitAssumption DEF NewWindow, Windows
<1>2. CASE At(hits, k) = {}
  <2>1. Opened(k) = Append(kept, NewWindow(k))
    BY <1>2 DEF Opened, NewWindow
  <2>2. /\ kept \in Seq(Windows) /\ Len(kept) < MaxTracked /\ Bounded(kept)
        /\ \A n \in DOMAIN kept : \E i \in DOMAIN hits : kept[n] = hits[i]
    <3>1. CASE Len(hits) >= MaxTracked
      BY <3>1, PrunedHasRoom
    <3>2. CASE ~(Len(hits) >= MaxTracked)
      BY <3>2, RateLimitAssumption
    <3> QED BY <3>1, <3>2
  <2> HIDE DEF kept
  <2>3. /\ Opened(k) \in Seq(Windows) /\ Len(Opened(k)) = Len(kept) + 1
        /\ DOMAIN Opened(k) = 1 .. Len(kept) + 1 /\ DOMAIN kept = 1 .. Len(kept) /\ Len(kept) \in Nat
        /\ \A n \in DOMAIN kept : Opened(k)[n] = kept[n]
        /\ Opened(k)[Len(kept) + 1] = NewWindow(k)
    BY <1>1, <2>1, <2>2
  <2>4. \A j \in DOMAIN hits : hits[j].key # k
    BY <1>2 DEF At
  <2>5. \A n \in DOMAIN kept : kept[n].key # k /\ \E i \in DOMAIN hits : kept[n] = hits[i] /\ hits[i].key # k
    BY <2>2, <2>4
  <2>6. \A i, j \in DOMAIN Opened(k) : Opened(k)[i].key = Opened(k)[j].key => i = j
    <3>1. \A n \in DOMAIN Opened(k) : n \in DOMAIN kept \/ n = Len(kept) + 1
      BY <2>3
    <3> QED BY <1>1, <2>2, <2>3, <2>5, <3>1 DEF Bounded
  <2>7. Len(Opened(k)) <= MaxTracked
    BY <2>2, <2>3, RateLimitAssumption
  <2>8. \A i \in DOMAIN Opened(k) :
          \/ Opened(k)[i] = NewWindow(k)
          \/ \E j \in DOMAIN hits : Opened(k)[i] = hits[j] /\ hits[j].key # k
    <3>1. \A n \in DOMAIN Opened(k) : n \in DOMAIN kept \/ n = Len(kept) + 1
      BY <2>3
    <3> QED BY <2>3, <2>5, <3>1
  <2> QED BY <1>2, <2>3, <2>6, <2>7, <2>8 DEF Bounded
<1>3. CASE At(hits, k) # {}
  <2>1. Opened(k) = [i \in DOMAIN hits |->
                       IF hits[i].key = k /\ Ended(hits[i]) THEN NewWindow(k) ELSE hits[i]]
    BY <1>3 DEF Opened, NewWindow
  <2>2. /\ Opened(k) \in Seq(Windows) /\ Len(Opened(k)) = Len(hits)
        /\ DOMAIN Opened(k) = DOMAIN hits
    BY <1>1, <2>1
  <2>3. \A i \in DOMAIN hits : Opened(k)[i].key = hits[i].key
    BY <1>1, <2>1
  <2>4. ASSUME NEW i \in DOMAIN hits, hits[i].key = k, Ended(hits[i])
        PROVE  \A j \in At(hits, k) : Ended(hits[j])
    BY <2>4 DEF At, Bounded
  <2>5. ASSUME NEW i \in DOMAIN hits
        PROVE  \/ Opened(k)[i] = NewWindow(k) /\ \A j \in At(hits, k) : Ended(hits[j])
               \/ Opened(k)[i] = hits[i] /\ (hits[i].key = k => ~Ended(hits[i]))
    BY <2>1, <2>4
  <2> QED BY <2>2, <2>3, <2>5 DEF Bounded
<1> QED BY <1>2, <1>3

\* Counting changes the caller's count and nothing else.
LEMMA CountedIs ==
  ASSUME NEW map \in Seq(Windows), NEW k \in Keys, Bounded(map)
  PROVE  /\ Counted(map, k) \in Seq(Windows) /\ Bounded(Counted(map, k))
         /\ DOMAIN Counted(map, k) = DOMAIN map
         /\ \A i \in DOMAIN map :
              /\ Counted(map, k)[i].key = map[i].key
              /\ Counted(map, k)[i].resetAt = map[i].resetAt
              /\ map[i].key # k => Counted(map, k)[i] = map[i]
              /\ map[i].key = k => Counted(map, k)[i].count =
                   IF map[i].count > LimitOf[k] THEN map[i].count ELSE map[i].count + 1
<1> DEFINE more(e) == [e EXCEPT !.count = IF @ > LimitOf[k] THEN @ ELSE @ + 1]
<1>1. Counted(map, k) = [i \in DOMAIN map |-> IF map[i].key = k THEN more(map[i]) ELSE map[i]]
  BY DEF Counted
<1>2. \A i \in DOMAIN map : map[i] \in Windows
  OBVIOUS
<1>3. ASSUME NEW e \in Windows
      PROVE  /\ more(e) \in Windows /\ more(e).key = e.key /\ more(e).resetAt = e.resetAt
             /\ more(e).count = IF e.count > LimitOf[k] THEN e.count ELSE e.count + 1
  <2>1. e.count \in Nat /\ LimitOf[k] \in Nat
    BY <1>3, RateLimitAssumption DEF Windows
  <2> DEFINE n == IF e.count > LimitOf[k] THEN e.count ELSE e.count + 1
  <2>2. n \in Nat /\ more(e) = [e EXCEPT !.count = n]
    BY <2>1
  <2> HIDE DEF n, more
  <2>3. more(e) = [key |-> e.key, count |-> n, resetAt |-> e.resetAt]
    BY <1>3, <2>2 DEF Windows
  <2>4. e.key \in Keys /\ e.resetAt \in Nat
    BY <1>3 DEF Windows
  <2> QED BY <2>2, <2>3, <2>4 DEF Windows, n
<1> HIDE DEF more
<1>4. /\ DOMAIN Counted(map, k) = DOMAIN map
      /\ \A i \in DOMAIN map :
           Counted(map, k)[i] = IF map[i].key = k THEN more(map[i]) ELSE map[i]
  BY <1>1
<1>5. Counted(map, k) \in Seq(Windows) /\ Len(Counted(map, k)) = Len(map)
  BY <1>1, <1>2, <1>3
<1>6. \A i \in DOMAIN map :
        /\ Counted(map, k)[i].key = map[i].key
        /\ Counted(map, k)[i].resetAt = map[i].resetAt
        /\ map[i].key # k => Counted(map, k)[i] = map[i]
        /\ map[i].key = k => Counted(map, k)[i].count =
             IF map[i].count > LimitOf[k] THEN map[i].count ELSE map[i].count + 1
  BY <1>2, <1>3, <1>4
<1>7. Bounded(Counted(map, k))
  BY <1>4, <1>5, <1>6 DEF Bounded
<1> QED BY <1>4, <1>5, <1>6, <1>7

-----------------------------------------------------------------------------
(* The limiter: the inductive invariant.  A key's window accounts for the times
   it was let through: those counted in it lie after its start, at most a limit's
   worth of those before lie in the window before, and all others a whole window
   before its start.  Reopened later, it accounts for them as well. *)

Least(m, n) == IF m <= n THEN m ELSE n

\* With used of the times counted in the window that began at start, limit is enough
\* for the window before.
Earlier(times, used, start, limit) ==
  \A m \in DOMAIN times :
    /\ m <= Len(times) - used => times[m] <= start
    /\ m <= Len(times) - used - limit => times[m] + Window <= start

\* The times counted in that window lie in it.
Since(times, used, start) ==
  /\ used <= Len(times)
  /\ \A m \in DOMAIN times : m > Len(times) - used => times[m] >= start

\* No more than twice the limit lie within a window, and no time is yet to come.
Spaced(times, limit) ==
  /\ Len(times) <= 2 * limit + 1
  /\ \A m \in DOMAIN times : times[m] <= now
  /\ \A m, n \in DOMAIN times : n = m + 2 * limit => times[m] + Window <= times[n]

\* What holds of a key, whatever its entry: when it has none, and of the one it has.
Free(k) == At(hits, k) = {} => Earlier(admitted[k], 0, now, LimitOf[k])

AccountsFor(e) ==
  /\ e.resetAt <= now + Window
  /\ Earlier(admitted[e.key], Least(e.count, LimitOf[e.key]), e.resetAt - Window, LimitOf[e.key])
  /\ Since(admitted[e.key], Least(e.count, LimitOf[e.key]), e.resetAt - Window)
  /\ comeBack[e.key] # 0 => e.resetAt <= comeBack[e.key]

LimiterTypes ==
  /\ now \in Nat /\ hits \in Seq(Windows)
  /\ comeBack \in [Keys -> Nat] /\ admitted \in [Keys -> Seq(Nat)]

LimiterInv ==
  /\ LimiterTypes
  /\ TableIsBounded
  /\ RetryAfterIsHonest
  /\ \A k \in Keys : Spaced(admitted[k], LimitOf[k]) /\ Free(k)
  /\ \A i \in DOMAIN hits : AccountsFor(hits[i])

LEMMA Rounded ==
  ASSUME NEW x \in Int, NEW s \in Nat \ {0}
  PROVE  /\ (x + s - 1) \div s \in Int
         /\ ((x + s - 1) \div s) * s >= x
<1> DEFINE y == x + s - 1
           q == y \div s
           r == y % s
<1>1. y \in Int /\ q \in Int /\ r \in 0 .. s - 1
  OBVIOUS
<1>2. y = s * q + r
  OBVIOUS
<1>3. s * q = q * s /\ s * q \in Int
  BY <1>1
<1> QED BY <1>1, <1>2, <1>3

LEMMA LeastIs ==
  ASSUME NEW m \in Nat, NEW n \in Nat
  PROVE  /\ Least(m, n) \in Nat /\ Least(m, n) <= n
         /\ m < n => Least(m, n) = m /\ Least(m + 1, n) = m + 1
         /\ m >= n => Least(m, n) = n /\ Least(m + 1, n) = n
BY DEF Least

\* A time counted in an open window keeps the account.
LEMMA AdmissionFits ==
  ASSUME NEW times \in Seq(Nat), NEW limit \in Nat \ {0}, NEW used \in Nat, used < limit,
         NEW start \in Int, start <= now, now \in Nat, Spaced(times, limit),
         Earlier(times, used, start, limit), Since(times, used, start)
  PROVE  /\ Admission(times, limit) \in Seq(Nat)
         /\ Spaced(Admission(times, limit), limit)
         /\ Earlier(Admission(times, limit), used + 1, start, limit)
         /\ Since(Admission(times, limit), used + 1, start)
<1> DEFINE all == Append(times, now)
           size == Len(times)
<1>1. /\ size \in Nat /\ DOMAIN times = 1 .. size
      /\ all \in Seq(Nat) /\ Len(all) = size + 1 /\ DOMAIN all = 1 .. size + 1
      /\ \A m \in 1 .. size : all[m] = times[m] /\ times[m] \in Nat
      /\ all[size + 1] = now
  OBVIOUS
<1>2. Window \in Nat
  BY RateLimitAssumption
<1> HIDE DEF all, size
<1>3. /\ size <= 2 * limit + 1
      /\ \A m \in 1 .. size : times[m] <= now
      /\ \A m, n \in 1 .. size : n = m + 2 * limit => times[m] + Window <= times[n]
      /\ \A m \in 1 .. size :
           /\ m <= size - used => times[m] <= start
           /\ m <= size - used - limit => times[m] + Window <= start
           /\ m > size - used => times[m] >= start
      /\ used <= size
  BY <1>1 DEF Spaced, Earlier, Since, size
<1>4. \A m \in DOMAIN all : m \in 1 .. size \/ m = size + 1
  BY <1>1
<1>5. \A m \in DOMAIN all : all[m] <= now
  BY <1>1, <1>3, <1>4
<1>6. ASSUME NEW m \in DOMAIN all, NEW n \in DOMAIN all, n = m + 2 * limit
      PROVE  all[m] + Window <= all[n]
  <2>1. CASE n \in 1 .. size
    <3>1. m \in 1 .. size
      BY <1>1, <1>6, <2>1
    <3> QED BY <1>1, <1>3, <1>6, <2>1, <3>1
  <2>2. CASE n = size + 1
    <3>1. m \in 1 .. size /\ m <= size - used - limit
      BY <1>1, <1>6, <2>2
    <3>2. times[m] + Window <= start /\ times[m] \in Nat
      BY <1>1, <1>3, <3>1
    <3>3. all[n] = now /\ all[m] = times[m]
      BY <1>1, <2>2, <3>1
    <3> QED BY <1>2, <3>2, <3>3
  <2> QED BY <1>4, <2>1, <2>2
<1>7. ASSUME NEW m \in DOMAIN all
      PROVE  /\ m <= size - used => all[m] <= start
             /\ m <= size - used - limit => all[m] + Window <= start
             /\ m > size - used => all[m] >= start
  <2>1. CASE m \in 1 .. size
    BY <1>1, <1>3, <2>1
  <2>2. CASE m = size + 1
    BY <1>1, <2>2
  <2> QED BY <1>4, <2>1, <2>2
<1>8. CASE size + 1 > 2 * limit + 1
  <2> DEFINE last == Tail(all)
  <2>1. /\ last \in Seq(Nat) /\ Len(last) = size /\ DOMAIN last = 1 .. size
        /\ \A m \in 1 .. size : last[m] = all[m + 1]
    BY <1>1
  <2>2. Admission(times, limit) = last
    BY <1>1, <1>8 DEF Admission, all
  <2> HIDE DEF last
  <2>3. \A m \in 1 .. size : m + 1 \in DOMAIN all
    BY <1>1
  <2>4. Spaced(last, limit)
    <3>1. \A m \in DOMAIN last : last[m] <= now
      BY <1>5, <2>1, <2>3
    <3>2. ASSUME NEW m \in DOMAIN last, NEW n \in DOMAIN last, n = m + 2 * limit
          PROVE  last[m] + Window <= last[n]
      <4>1. n + 1 = (m + 1) + 2 * limit
        BY <2>1, <3>2
      <4>2. all[m + 1] + Window <= all[n + 1]
        BY <1>6, <2>1, <2>3, <4>1
      <4> QED BY <2>1, <4>2
    <3> QED BY <1>3, <2>1, <3>1, <3>2 DEF Spaced
  <2>5. Earlier(last, used + 1, start, limit)
    <3>1. ASSUME NEW m \in DOMAIN last
          PROVE  /\ m <= size - (used + 1) => last[m] <= start
                 /\ m <= size - (used + 1) - limit => last[m] + Window <= start
      <4>1. /\ m <= size - (used + 1) => m + 1 <= size - used
            /\ m <= size - (used + 1) - limit => m + 1 <= size - used - limit
        <5> m \in Nat /\ size \in Nat
          BY <1>1, <2>1
        <5> QED OBVIOUS
      <4>2. m + 1 \in DOMAIN all /\ last[m] = all[m + 1]
        BY <2>1, <2>3
      <4> QED BY <1>7, <4>1, <4>2
    <3> QED BY <2>1, <3>1 DEF Earlier
  <2>6. Since(last, used + 1, start)
    <3>1. used + 1 <= size
      BY <1>1, <1>8
    <3>2. ASSUME NEW m \in DOMAIN last, m > size - (used + 1) PROVE last[m] >= start
      <4>1. m + 1 > size - used
        BY <1>1, <2>1, <3>2
      <4>2. m + 1 \in DOMAIN all /\ last[m] = all[m + 1]
        BY <2>1, <2>3
      <4> QED BY <1>7, <4>1, <4>2
    <3> QED BY <2>1, <3>1, <3>2 DEF Since
  <2> QED BY <2>1, <2>2, <2>4, <2>5, <2>6
<1>9. CASE ~(size + 1 > 2 * limit + 1)
  <2>1. Admission(times, limit) = all
    BY <1>1, <1>9 DEF Admission, all
  <2>2. Spaced(all, limit)
    <3>1. Len(all) <= 2 * limit + 1
      BY <1>1, <1>9
    <3> QED BY <1>5, <1>6, <3>1 DEF Spaced
  <2>3. Earlier(all, used + 1, start, limit)
    <3>1. Len(all) - (used + 1) = size - used
      BY <1>1
    <3>2. Len(all) - (used + 1) - limit = size - used - limit
      BY <1>1
    <3> QED BY <1>7, <3>1, <3>2 DEF Earlier
  <2>4. Since(all, used + 1, start)
    <3>1. Len(all) - (used + 1) = size - used /\ used + 1 <= Len(all)
      BY <1>1, <1>3
    <3> QED BY <1>7, <3>1 DEF Since
  <2> QED BY <1>1, <2>1, <2>2, <2>3, <2>4
<1> QED BY <1>8, <1>9

\* A window that begins when an earlier one has ended accounts for its times too.
LEMMA Reopens ==
  ASSUME NEW times \in Seq(Nat), NEW limit \in Nat \ {0}, NEW used \in Nat, used <= limit,
         NEW start \in Int, start + Window <= now, now \in Nat,
         Spaced(times, limit), Earlier(times, used, start, limit)
  PROVE  Earlier(times, 0, now, limit)
<1>1. Window \in Nat
  BY RateLimitAssumption
<1>2. Len(times) \in Nat /\ DOMAIN times = 1 .. Len(times) /\ \A m \in DOMAIN times : times[m] \in Nat
  OBVIOUS
<1>3. ASSUME NEW m \in DOMAIN times
      PROVE  /\ times[m] <= now
             /\ m <= Len(times) - limit => times[m] + Window <= now
  <2>1. times[m] <= now
    BY DEF Spaced
  <2>2. ASSUME m <= Len(times) - limit PROVE times[m] <= start
    <3>1. m <= Len(times) - used
      BY <1>2, <2>2
    <3> QED BY <3>1 DEF Earlier
  <2> QED BY <1>1, <1>2, <2>1, <2>2
<1>4. Len(times) - 0 - limit = Len(times) - limit
  BY <1>2
<1> QED BY <1>3, <1>4 DEF Earlier

\* What a request finds its key's window to be: open, with room for the first one.
LEMMA Opens ==
  ASSUME LimiterInv, NEW k \in Keys, NEW i \in DOMAIN Opened(k), Opened(k)[i].key = k
  PROVE  /\ Opened(k)[i].resetAt \in now .. now + Window
         /\ Earlier(admitted[k], Least(Opened(k)[i].count, LimitOf[k]),
                    Opened(k)[i].resetAt - Window, LimitOf[k])
         /\ Since(admitted[k], Least(Opened(k)[i].count, LimitOf[k]),
                  Opened(k)[i].resetAt - Window)
         /\ \/ Opened(k)[i].count = 0
            \/ /\ now < Opened(k)[i].resetAt
               /\ comeBack[k] # 0 => now < comeBack[k]
<1> DEFINE e == Opened(k)[i]
           limit == LimitOf[k]
           times == admitted[k]
<1>1. /\ now \in Nat /\ hits \in Seq(Windows) /\ Bounded(hits)
      /\ times \in Seq(Nat) /\ comeBack[k] \in Nat
      /\ Spaced(times, limit)
      /\ \A j \in DOMAIN hits : hits[j] \in Windows /\ AccountsFor(hits[j])
  BY DEF LimiterInv, LimiterTypes, TableIsBounded, Bounded
<1>2. limit \in Nat \ {0} /\ Window \in Nat \ {0}
  BY RateLimitAssumption
<1>3. \/ e = NewWindow(k) /\ \A j \in At(hits, k) : Ended(hits[j])
      \/ \E j \in DOMAIN hits : e = hits[j] /\ (hits[j].key = k => ~Ended(hits[j]))
  BY <1>1, OpenedIs
<1> HIDE DEF e, limit, times
<1>4. CASE e = NewWindow(k) /\ \A j \in At(hits, k) : Ended(hits[j])
  <2>1. e.count = 0 /\ e.resetAt = now + Window /\ e.resetAt - Window = now
    BY <1>1, <1>2, <1>4 DEF NewWindow
  <2>2. Least(0, limit) = 0
    BY <1>2 DEF Least
  <2>3. Earlier(times, 0, now, limit)
    <3>1. CASE At(hits, k) = {}
      BY <3>1 DEF LimiterInv, Free, times, limit
    <3>2. ASSUME NEW j \in At(hits, k) PROVE Earlier(times, 0, now, limit)
      <4>1. j \in DOMAIN hits /\ hits[j].key = k /\ Ended(hits[j])
        BY <1>4, <3>2 DEF At
      <4>2. hits[j].count \in Nat /\ hits[j].resetAt \in Nat
        BY <1>1, <4>1 DEF Windows
      <4> DEFINE used == Least(hits[j].count, limit)
                 start == hits[j].resetAt - Window
      <4>3. used \in Nat /\ used <= limit
        BY <1>2, <4>2, LeastIs
      <4>4. Earlier(times, used, start, limit)
        BY <1>1, <4>1 DEF AccountsFor, times, limit
      <4> HIDE DEF used
      <4>5. start \in Int /\ start + Window <= now
        BY <1>1, <1>2, <4>1, <4>2 DEF Ended
      <4> QED BY <1>1, <1>2, <4>3, <4>4, <4>5, Reopens
    <3> QED BY <3>1, <3>2
  <2>4. e.resetAt \in now .. now + Window
    BY <1>1, <1>2, <2>1
  <2>5. Since(times, 0, now)
    BY <1>1 DEF Since
  <2> QED BY <2>1, <2>2, <2>3, <2>4, <2>5 DEF e, limit, times
<1>5. ASSUME NEW j \in DOMAIN hits, e = hits[j], hits[j].key = k => ~Ended(hits[j])
      PROVE  /\ e.resetAt \in now .. now + Window
             /\ Earlier(times, Least(e.count, limit), e.resetAt - Window, limit)
             /\ Since(times, Least(e.count, limit), e.resetAt - Window)
             /\ now < e.resetAt
             /\ comeBack[k] # 0 => now < comeBack[k]
  <2>1. e.key = k /\ ~Ended(e) /\ AccountsFor(e) /\ e.resetAt \in Nat
    BY <1>1, <1>5 DEF e, Windows
  <2>2. e.resetAt <= now + Window /\ now < e.resetAt
    BY <1>1, <2>1 DEF AccountsFor, Ended
  <2>3. /\ Earlier(times, Least(e.count, limit), e.resetAt - Window, limit)
        /\ Since(times, Least(e.count, limit), e.resetAt - Window)
    BY <2>1 DEF AccountsFor, times, limit
  <2>4. ASSUME comeBack[k] # 0 PROVE now < comeBack[k]
    <3>1. e.resetAt <= comeBack[k]
      BY <2>1, <2>4 DEF AccountsFor
    <3> QED BY <1>1, <2>1, <2>2, <3>1
  <2>5. e.resetAt \in now .. now + Window
    BY <1>1, <1>2, <2>1, <2>2
  <2> QED BY <2>2, <2>3, <2>4, <2>5
<1> QED BY <1>3, <1>4, <1>5 DEF e, limit, times

LEMMA Requested ==
  ASSUME LimiterInv, NEW k \in Keys, CheckRateLimit(k)
  PROVE  LimiterInv'
<1> DEFINE map == Opened(k)
           limit == LimitOf[k]
<1>1. /\ now \in Nat /\ hits \in Seq(Windows) /\ Bounded(hits)
      /\ comeBack \in [Keys -> Nat] /\ admitted \in [Keys -> Seq(Nat)]
      /\ refusedYet = {}
      /\ \A x \in Keys : Spaced(admitted[x], LimitOf[x]) /\ Free(x)
      /\ \A j \in DOMAIN hits : hits[j] \in Windows /\ AccountsFor(hits[j])
  BY DEF LimiterInv, LimiterTypes, TableIsBounded, Bounded, RetryAfterIsHonest
<1>2. limit \in Nat \ {0} /\ Window \in Nat \ {0} /\ Second \in Nat \ {0}
  BY RateLimitAssumption
<1>3. /\ map \in Seq(Windows) /\ Bounded(map)
      /\ \A n \in DOMAIN map :
           map[n].key # k => \E j \in DOMAIN hits : map[n] = hits[j]
  <2>1. NewWindow(k).key = k
    BY DEF NewWindow
  <2> QED BY <1>1, <2>1, OpenedIs
<1>4. hits' = Counted(map, k) /\ now' = now
  BY DEF CheckRateLimit
<1> HIDE DEF map, limit
<1>5. /\ hits' \in Seq(Windows) /\ Bounded(hits') /\ DOMAIN hits' = DOMAIN map
      /\ \A n \in DOMAIN map :
           /\ hits'[n].key = map[n].key /\ hits'[n].resetAt = map[n].resetAt
           /\ map[n].key # k => hits'[n] = map[n]
           /\ map[n].key = k => hits'[n].count =
                IF map[n].count > limit THEN map[n].count ELSE map[n].count + 1
  BY <1>3, <1>4, CountedIs DEF limit
<1>6. PICK i \in At(hits', k) :
        LET allowed == hits'[i].count <= limit
            promised == comeBack[k] # 0 /\ comeBack[k] <= now
        IN  /\ admitted' = [x \in Keys |->
                 IF x = k /\ allowed THEN Admission(admitted[x], LimitOf[x])
                 ELSE IF DroppedLive(x) THEN <<>> ELSE admitted[x]]
            /\ refusedYet' = refusedYet \cup {x \in {k} : promised /\ ~allowed}
            /\ comeBack' = [comeBack EXCEPT ![k] =
                 IF allowed THEN 0 ELSE now + RetryAfter(hits'[i]) * Second]
  BY DEF CheckRateLimit, limit
<1> DEFINE e == map[i]
           allowed == hits'[i].count <= limit
           start == e.resetAt - Window
           used == Least(e.count, limit)
           times == admitted[k]
<1>7. i \in DOMAIN map /\ hits'[i].key = k /\ e.key = k /\ e \in Windows
  BY <1>3, <1>5, <1>6 DEF At
<1>8. /\ e.count \in Nat /\ e.resetAt \in Nat
      /\ hits'[i].count = IF e.count > limit THEN e.count ELSE e.count + 1
      /\ hits'[i].resetAt = e.resetAt
  BY <1>5, <1>7 DEF Windows
<1>9. /\ e.resetAt \in now .. now + Window
      /\ Earlier(times, used, start, limit) /\ Since(times, used, start)
      /\ e.count = 0 \/ (comeBack[k] # 0 => now < comeBack[k])
  BY <1>7, Opens DEF map, limit
<1>10. allowed <=> e.count < limit
  BY <1>2, <1>8
<1> HIDE DEF e, used, times
<1>11. start \in Int /\ start <= now
  BY <1>1, <1>2, <1>8, <1>9
<1>12. used \in Nat /\ used <= limit
  BY <1>2, <1>8, LeastIs DEF used
<1>13. times \in Seq(Nat) /\ Spaced(times, limit)
  BY <1>1 DEF times, limit
<1> HIDE DEF allowed, start
\* the caller's key
<1>14. refusedYet' = {}
  <2>1. ASSUME comeBack[k] # 0, comeBack[k] <= now, ~allowed PROVE FALSE
    <3>1. e.count # 0
      BY <1>2, <1>10, <2>1
    <3>2. now < comeBack[k] /\ comeBack[k] \in Nat
      BY <1>1, <1>9, <2>1, <3>1
    <3> QED BY <1>1, <2>1, <3>2
  <2> QED BY <1>1, <1>6, <2>1 DEF allowed
<1>15. /\ comeBack' \in [Keys -> Nat]
       /\ comeBack'[k] # 0 => e.resetAt <= comeBack'[k]
       /\ \A x \in Keys : x # k => comeBack'[x] = comeBack[x]
  <2> DEFINE rest == RetryAfter(hits'[i]) * Second
             then == IF allowed THEN 0 ELSE now + rest
  <2>1. rest \in Int /\ rest >= e.resetAt - now
    <3>1. e.resetAt - now \in Int
      BY <1>1, <1>8
    <3>2. RetryAfter(hits'[i]) = (e.resetAt - now + Second - 1) \div Second
      BY <1>8 DEF RetryAfter
    <3> QED BY <1>2, <3>1, <3>2, Rounded
  <2> HIDE DEF rest
  <2>2. then \in Nat /\ (then # 0 => e.resetAt <= then)
    BY <1>1, <1>8, <2>1
  <2>3. comeBack' = [comeBack EXCEPT ![k] = then]
    BY <1>6 DEF allowed, rest
  <2> HIDE DEF then
  <2> QED BY <1>1, <2>2, <2>3
<1>16. /\ admitted'[k] \in Seq(Nat) /\ Spaced(admitted'[k], limit)
       /\ Earlier(admitted'[k], Least(hits'[i].count, limit), start, limit)
       /\ Since(admitted'[k], Least(hits'[i].count, limit), start)
  <2>1. CASE allowed
    <3>1. admitted'[k] = Admission(times, limit)
      BY <1>6, <2>1 DEF allowed, times, limit
    <3>2. used = e.count /\ used < limit /\ hits'[i].count = used + 1
      <4>1. e.count < limit
        BY <1>10, <2>1
      <4>2. hits'[i].count = e.count + 1
        BY <1>2, <1>8, <4>1
      <4>3. used = e.count
        BY <1>2, <1>8, <4>1, LeastIs DEF used
      <4> QED BY <4>1, <4>2, <4>3
    <3>3. Least(hits'[i].count, limit) = used + 1
      BY <1>2, <1>8, <3>2, LeastIs
    <3> QED BY <1>1, <1>2, <1>9, <1>11, <1>12, <1>13, <3>1, <3>2, <3>3, AdmissionFits
  <2>2. CASE ~allowed
    <3>1. ~DroppedLive(k)
      BY <1>6 DEF DroppedLive
    <3>2. admitted'[k] = times
      BY <1>6, <2>2, <3>1 DEF allowed, times
    <3>3. Least(hits'[i].count, limit) = used
      BY <1>2, <1>8, <1>10, <2>2, LeastIs DEF used
    <3> QED BY <1>9, <1>13, <3>2, <3>3
  <2> QED BY <2>1, <2>2
\* the other keys
<1>17. ASSUME NEW x \in Keys, x # k
       PROVE  admitted'[x] = IF DroppedLive(x) THEN <<>> ELSE admitted[x]
  BY <1>6, <1>17
<1>18. ASSUME NEW x \in Keys, x # k
       PROVE  /\ admitted'[x] \in Seq(Nat) /\ Spaced(admitted'[x], LimitOf[x])
              /\ At(hits', x) = {} => Earlier(admitted'[x], 0, now, LimitOf[x])
  <2>0. LimitOf[x] \in Nat \ {0}
    BY RateLimitAssumption
  <2>1. CASE DroppedLive(x)
    <3>1. admitted'[x] = <<>>
      BY <1>17, <1>18, <2>1
    <3>2. <<>> \in Seq(Nat) /\ Len(<<>>) = 0 /\ DOMAIN <<>> = {}
      OBVIOUS
    <3>3. 0 <= 2 * LimitOf[x] + 1
      BY <2>0
    <3> QED BY <3>1, <3>2, <3>3 DEF Spaced, Earlier
  <2>2. CASE ~DroppedLive(x)
    <3>1. admitted'[x] = admitted[x] /\ admitted[x] \in Seq(Nat) /\ Spaced(admitted[x], LimitOf[x])
      BY <1>1, <1>17, <1>18, <2>2
    <3>2. ASSUME At(hits', x) = {} PROVE Earlier(admitted[x], 0, now, LimitOf[x])
      <4>1. \A j \in At(hits, x) : Ended(hits[j])
        BY <2>2, <3>2 DEF DroppedLive
      <4>2. CASE At(hits, x) = {}
        BY <1>1, <4>2 DEF Free
      <4>3. ASSUME NEW j \in At(hits, x) PROVE Earlier(admitted[x], 0, now, LimitOf[x])
        <5>1. j \in DOMAIN hits /\ hits[j].key = x /\ Ended(hits[j])
          BY <4>1, <4>3 DEF At
        <5>2. hits[j].count \in Nat /\ hits[j].resetAt \in Nat /\ AccountsFor(hits[j])
          BY <1>1, <5>1 DEF Windows
        <5> DEFINE before == Least(hits[j].count, LimitOf[x])
                   from == hits[j].resetAt - Window
        <5>3. before \in Nat /\ before <= LimitOf[x]
          BY <2>0, <5>2, LeastIs
        <5>4. Earlier(admitted[x], before, from, LimitOf[x])
          BY <5>1, <5>2 DEF AccountsFor
        <5> HIDE DEF before
        <5>5. from \in Int /\ from + Window <= now
          BY <1>1, <1>2, <5>1, <5>2 DEF Ended
        <5> QED BY <1>1, <2>0, <3>1, <5>3, <5>4, <5>5, Reopens
      <4> QED BY <4>2, <4>3
    <3> QED BY <3>1, <3>2
  <2> QED BY <2>1, <2>2
<1>19. ASSUME NEW n \in DOMAIN hits' PROVE AccountsFor(hits[n])'
  <2> DEFINE w == hits'[n]
             key == w.key
  <2>1. w \in Windows /\ key \in Keys
    <3>1. w \in Windows
      BY <1>5, <1>19
    <3> QED BY <3>1 DEF Windows
  <2>2. /\ w.resetAt <= now + Window
        /\ Earlier(admitted'[key], Least(w.count, LimitOf[key]), w.resetAt - Window, LimitOf[key])
        /\ Since(admitted'[key], Least(w.count, LimitOf[key]), w.resetAt - Window)
        /\ comeBack'[key] # 0 => w.resetAt <= comeBack'[key]
    <3>1. CASE key = k
      <4>1. n = i
        BY <1>5, <1>6, <1>19, <3>1 DEF Bounded, At
      <4>2. w.resetAt = e.resetAt /\ e.resetAt <= now + Window
        BY <1>1, <1>8, <1>9, <4>1
      <4> QED BY <1>15, <1>16, <3>1, <4>1, <4>2 DEF start, limit
    <3>2. CASE key # k
      <4>1. w = map[n] /\ map[n].key = key
        BY <1>5, <1>19, <3>2
      <4>2. PICK j \in DOMAIN hits : w = hits[j]
        BY <1>3, <1>5, <1>19, <3>2, <4>1
      <4>3. AccountsFor(w)
        BY <1>1, <4>2
      <4>4. At(hits', key) # {}
        BY <1>19 DEF At
      <4>5. admitted'[key] = admitted[key] /\ comeBack'[key] = comeBack[key]
        BY <1>15, <1>17, <2>1, <3>2, <4>4 DEF DroppedLive
      <4> QED BY <4>3, <4>5 DEF AccountsFor
    <3> QED BY <3>1, <3>2
  <2> QED BY <1>4, <2>2 DEF AccountsFor
<1>20. LimiterTypes'
  <2>1. admitted' = [x \in Keys |-> admitted'[x]]
    BY <1>6
  <2>2. \A x \in Keys : admitted'[x] \in Seq(Nat)
    BY <1>16, <1>18
  <2>3. admitted' \in [Keys -> Seq(Nat)]
    BY <2>1, <2>2
  <2> QED BY <1>1, <1>4, <1>5, <1>15, <2>3 DEF LimiterTypes
<1>21. TableIsBounded' /\ RetryAfterIsHonest'
  BY <1>5, <1>14 DEF TableIsBounded, Bounded, RetryAfterIsHonest
<1>22. ASSUME NEW x \in Keys PROVE (Spaced(admitted[x], LimitOf[x]) /\ Free(x))'
  <2>1. Spaced(admitted'[x], LimitOf[x])
    BY <1>16, <1>18 DEF limit
  <2>2. Spaced(admitted[x], LimitOf[x])'
    BY <1>4, <2>1 DEF Spaced
  <2>3. At(hits', x) = {} => Earlier(admitted'[x], 0, now, LimitOf[x])
    BY <1>6, <1>18
  <2>4. Free(x)'
    BY <1>4, <2>3 DEF Free, At
  <2> QED BY <2>2, <2>4
<1> QED BY <1>19, <1>20, <1>21, <1>22 DEF LimiterInv

LEMMA Waited == LimiterInv /\ TimePasses => LimiterInv'
<1> SUFFICES ASSUME LimiterInv, TimePasses PROVE LimiterInv'
  OBVIOUS
<1>1. /\ now \in Nat /\ now' \in Nat /\ now <= now' /\ hits' = hits
      /\ comeBack' = comeBack /\ refusedYet' = refusedYet /\ admitted' = admitted
  BY DEF LimiterInv, LimiterTypes, TimePasses
<1>2. Window \in Nat
  BY RateLimitAssumption
<1>3. LimiterTypes' /\ TableIsBounded' /\ RetryAfterIsHonest'
  BY <1>1 DEF LimiterInv, LimiterTypes, TableIsBounded, RetryAfterIsHonest
<1>4. ASSUME NEW k \in Keys PROVE (Spaced(admitted[k], LimitOf[k]) /\ Free(k))'
  <2> DEFINE times == admitted[k]
             limit == LimitOf[k]
  <2>1. times \in Seq(Nat) /\ Spaced(times, limit) /\ Free(k)
    BY DEF LimiterInv, LimiterTypes
  <2>2. \A m \in DOMAIN times : times[m] \in Nat
    BY <2>1
  <2> HIDE DEF times, limit
  <2>3. \A m \in DOMAIN times : times[m] <= now'
    BY <1>1, <2>1, <2>2 DEF Spaced
  <2>4. Spaced(times, limit)'
    BY <1>1, <2>1, <2>3 DEF Spaced, times
  <2>5. ASSUME Earlier(times, 0, now, limit) PROVE Earlier(times, 0, now', limit)
    BY <1>1, <1>2, <2>2, <2>5 DEF Earlier
  <2>6. Free(k)'
    BY <1>1, <2>1, <2>5 DEF Free, At, times, limit
  <2> QED BY <2>4, <2>6 DEF times, limit
<1>5. ASSUME NEW i \in DOMAIN hits PROVE AccountsFor(hits[i])'
  <2>1. hits[i] \in Windows /\ AccountsFor(hits[i])
    BY DEF LimiterInv, LimiterTypes
  <2>2. hits[i].resetAt \in Nat
    BY <2>1 DEF Windows
  <2>3. hits[i].resetAt <= now' + Window
    BY <1>1, <1>2, <2>1, <2>2 DEF AccountsFor
  <2> QED BY <1>1, <2>1, <2>3 DEF AccountsFor
<1> QED BY <1>1, <1>3, <1>4, <1>5 DEF LimiterInv

LEMMA LimiterInvariant == RateLimitSpec => []LimiterInv
<1>1. RateLimitInit => LimiterInv
  <2> SUFFICES ASSUME RateLimitInit PROVE LimiterInv
    OBVIOUS
  <2>1. /\ now = 1 /\ hits = <<>> /\ comeBack = [k \in Keys |-> 0]
        /\ refusedYet = {} /\ admitted = [k \in Keys |-> <<>>]
    BY DEF RateLimitInit
  <2>2. Len(<<>>) = 0 /\ DOMAIN <<>> = {} /\ <<>> \in Seq(Windows) /\ <<>> \in Seq(Nat)
    OBVIOUS
  <2>3. LimiterTypes
    BY <2>1, <2>2 DEF LimiterTypes
  <2>4. TableIsBounded /\ RetryAfterIsHonest
    BY <2>1, <2>2, RateLimitAssumption DEF TableIsBounded, RetryAfterIsHonest
  <2>5. ASSUME NEW k \in Keys PROVE Spaced(admitted[k], LimitOf[k]) /\ Free(k)
    <3>1. admitted[k] = <<>> /\ LimitOf[k] \in Nat
      BY <2>1, RateLimitAssumption
    <3>2. 0 <= 2 * LimitOf[k] + 1
      BY <3>1
    <3> QED BY <2>2, <3>1, <3>2 DEF Spaced, Free, Earlier
  <2> QED BY <2>1, <2>2, <2>3, <2>4, <2>5 DEF LimiterInv
<1>2. LimiterInv /\ [RateLimitNext]_limitVars => LimiterInv'
  <2>1. ASSUME LimiterInv, UNCHANGED limitVars PROVE LimiterInv'
    BY <2>1 DEF LimiterInv, LimiterTypes, TableIsBounded, RetryAfterIsHonest, Spaced, Free,
                AccountsFor, At, limitVars
  <2> QED BY <2>1, Requested, Waited DEF RateLimitNext
<1> QED BY <1>1, <1>2, PTL DEF RateLimitSpec

\* Every variable of the limiter keeps its type; refusedYet is RetryAfterIsHonest's.
THEOREM LimiterTypeCorrect == RateLimitSpec => [](LimiterTypes /\ refusedYet \subseteq Keys)
<1>1. LimiterInv => LimiterTypes /\ refusedYet \subseteq Keys
  BY DEF LimiterInv, RetryAfterIsHonest
<1> QED BY <1>1, LimiterInvariant, PTL

\* The limiter's Map holds no more keys than MAX_TRACKED_KEYS and none twice, for
\* any number of clients, any limits and any length of the window.
THEOREM MapStaysBounded == RateLimitSpec => []TableIsBounded
<1>1. LimiterInv => TableIsBounded
  BY DEF LimiterInv
<1> QED BY <1>1, LimiterInvariant, PTL

\* No stretch of time as long as a window sees more than twice the limit of its path
\* let through for a key, wherever the windows begin.
THEOREM TwiceTheLimitAtMost == RateLimitSpec => []AtMostTwiceTheLimit
<1>1. LimiterInv => AtMostTwiceTheLimit
  <2> SUFFICES ASSUME LimiterInv, NEW k \in Keys,
                      Len(admitted[k]) = 2 * LimitOf[k] + 1
               PROVE  admitted[k][Len(admitted[k])] - admitted[k][1] >= Window
    BY DEF AtMostTwiceTheLimit
  <2>1. /\ admitted[k] \in Seq(Nat) /\ Spaced(admitted[k], LimitOf[k])
        /\ LimitOf[k] \in Nat \ {0} /\ Window \in Nat
    BY RateLimitAssumption DEF LimiterInv, LimiterTypes
  <2> DEFINE times == admitted[k]
             size == Len(times)
  <2>2. 1 \in 1 .. size /\ size \in 1 .. size /\ size = 1 + 2 * LimitOf[k]
    <3> HIDE DEF times
    <3>1. size = 2 * LimitOf[k] + 1
      BY DEF times
    <3> HIDE DEF size
    <3> QED BY <2>1, <3>1
  <2>3. DOMAIN times = 1 .. size /\ \A m \in 1 .. size : times[m] \in Nat
    BY <2>1
  <2> HIDE DEF times, size
  <2>4. times[1] + Window <= times[size]
    BY <2>1, <2>2, <2>3 DEF Spaced, times
  <2>5. times[size] - times[1] >= Window
    BY <2>1, <2>2, <2>3, <2>4
  <2> QED BY <2>5 DEF times, size
<1> QED BY <1>1, LimiterInvariant, PTL

\* A client that waits as long as the Retry-After header of its refusal says is not
\* refused when it comes back, whatever became of its entry meanwhile.
THEOREM WaitingIsEnough == RateLimitSpec => []RetryAfterIsHonest
<1>1. LimiterInv => RetryAfterIsHonest
  BY DEF LimiterInv
<1> QED BY <1>1, LimiterInvariant, PTL

\* A key is refused only when as many requests as its limit were let through within
\* the window that is open: no client is refused for what others did, or for what
\* it did a window ago.
THEOREM RefusalIsDeserved == RateLimitSpec => RefusedOnlyWhenSpent
<1> DEFINE Spent(k) == /\ Len(admitted[k]) >= LimitOf[k]
                       /\ admitted[k][Len(admitted[k]) - LimitOf[k] + 1] > now - Window
           Refused(k) == CheckRateLimit(k) /\ comeBack'[k] # 0
<1>1. ASSUME LimiterInv, NEW k \in Keys, CheckRateLimit(k), comeBack'[k] # 0
      PROVE  Spent(k)
  <2> DEFINE map == Opened(k)
             limit == LimitOf[k]
             times == admitted[k]
             size == Len(times)
  <2>1. /\ now \in Nat /\ hits \in Seq(Windows) /\ Bounded(hits)
        /\ times \in Seq(Nat) /\ comeBack \in [Keys -> Nat]
    BY <1>1 DEF LimiterInv, LimiterTypes, TableIsBounded, Bounded
  <2>2. limit \in Nat \ {0} /\ Window \in Nat \ {0}
    BY RateLimitAssumption
  <2>3. map \in Seq(Windows) /\ Bounded(map) /\ hits' = Counted(map, k)
    BY <1>1, <2>1, OpenedIs DEF CheckRateLimit
  <2> HIDE DEF map, limit
  <2>4. /\ DOMAIN hits' = DOMAIN map
        /\ \A n \in DOMAIN map :
             /\ hits'[n].key = map[n].key
             /\ map[n].key = k => hits'[n].count =
                  IF map[n].count > limit THEN map[n].count ELSE map[n].count + 1
    BY <2>3, CountedIs DEF limit
  <2>5. PICK i \in At(hits', k) :
          comeBack' = [comeBack EXCEPT ![k] =
            IF hits'[i].count <= limit THEN 0 ELSE now + RetryAfter(hits'[i]) * Second]
    BY <1>1 DEF CheckRateLimit, limit
  <2> DEFINE e == map[i]
             start == e.resetAt - Window
  <2>6. i \in DOMAIN map /\ e.key = k /\ e \in Windows /\ ~(hits'[i].count <= limit)
    BY <1>1, <2>1, <2>3, <2>4, <2>5 DEF At
  <2>7. e.count \in Nat /\ e.resetAt \in Nat /\ e.count >= limit /\ e.count # 0
    BY <2>2, <2>4, <2>6 DEF Windows
  <2>8. now < e.resetAt /\ Since(times, Least(e.count, limit), start)
    BY <1>1, <2>6, <2>7, Opens DEF map, limit
  <2>9. Least(e.count, limit) = limit
    BY <2>2, <2>7, LeastIs
  <2> HIDE DEF e, times
  <2>10. size >= limit /\ size \in Nat /\ DOMAIN times = 1 .. size /\ \A m \in 1 .. size : times[m] \in Nat
    BY <2>1, <2>2, <2>8, <2>9 DEF Since
  <2>11. size - limit + 1 \in 1 .. size /\ size - limit + 1 > size - limit
    BY <2>2, <2>10
  <2> DEFINE first == size - limit + 1
  <2>12. times[first] >= start
    BY <2>8, <2>9, <2>10, <2>11 DEF Since
  <2>13. times[first] \in Nat
    BY <2>10, <2>11
  <2> HIDE DEF first
  <2>14. times[first] > now - Window
    BY <2>1, <2>2, <2>7, <2>8, <2>12, <2>13
  <2> QED BY <2>10, <2>14 DEF first, times, limit
<1>2. LimiterInv => [\A k \in Keys : Refused(k) => Spent(k)]_limitVars
  BY <1>1
<1>3. RefusedOnlyWhenSpent <=> [][\A k \in Keys : Refused(k) => Spent(k)]_limitVars
  BY DEF RefusedOnlyWhenSpent
<1> HIDE DEF Refused, Spent
<1> QED BY <1>2, <1>3, LimiterInvariant, PTL
=================================================================================
