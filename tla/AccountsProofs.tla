----------------------------- MODULE AccountsProofs ----------------------------
(***************************************************************************)
(* What holds of a user's deletion and recovery codes for any number of    *)
(* requests.                                                               *)
(***************************************************************************)
EXTENDS Accounts, TLAPS

AccountTypes ==
  /\ codes \in [UserCalls -> {"absent", "unused", "used"}]
  /\ userPc \in [UserCalls -> {"idle", "delete", "sync", "generate", "redeem", "lookingUp",
                               "auditing", "removing", "unenrolling", "done"}]
  /\ userOp \in [UserCalls -> {"none", "delete", "sync", "generate", "redeem"}]
  /\ codeOf \in [UserCalls -> UserCalls]
  /\ userAnswer \in [UserCalls -> {"none", "200", "201", "400", "401", "502", "lost"}]
  /\ adrift \subseteq Outside \X UserCalls
  /\ replacing \subseteq UserCalls
  /\ replaced \in [UserCalls -> SUBSET UserCalls]
  /\ unaudited \subseteq UserCalls

\* Where a call is tells what it does; what is answered is done, and what drifts
\* is a call that was answered.
PlaceFitsOp ==
  /\ \A c \in UserCalls :
       /\ userPc[c] \in {"sync", "generate", "redeem"} => userOp[c] = userPc[c]
       /\ userPc[c] \in {"delete", "lookingUp", "auditing", "removing"} => userOp[c] = "delete"
       /\ userPc[c] = "unenrolling" => userOp[c] = "redeem"
       /\ userAnswer[c] # "none" => userPc[c] = "done"
       /\ c \in replacing => userOp[c] = "generate" /\ userPc[c] \in {"generate", "done"}
       /\ <<"generate", c>> \in adrift =>
            userOp[c] = "generate" /\ userPc[c] = "done" /\ c \notin replacing

PlacesInv == AccountTypes /\ PlaceFitsOp

\* What a call to Hasura or Firebase leaves of the codes, whether it takes effect
\* or not.
LEMMA CallsOut ==
  ASSUME AccountTypes, NEW c \in UserCalls, InTime(c) \/ GiveUpOn(c)
  PROVE  /\ adrift' = adrift \/ adrift' = adrift \cup {<<userPc[c], c>>}
         /\ codes' = codes \/ (userPc[c] = "redeem" /\ codes' = Used(codeOf[c]))
<1>1. CASE InTime(c)
  BY <1>1 DEF InTime, Effect
<1>2. CASE GiveUpOn(c)
  BY <1>2 DEF GiveUpOn, world
<1> QED BY <1>1, <1>2

LEMMA PlacesInitial == AccountsInit => PlacesInv
BY DEF AccountsInit, PlacesInv, AccountTypes, PlaceFitsOp

\* A step moves no call but one, or all at a restart.
LEMMA PlacesStep == PlacesInv /\ [AccountsNext]_userVars => PlacesInv'
<1> SUFFICES ASSUME PlacesInv, [AccountsNext]_userVars PROVE PlacesInv'
  OBVIOUS
<1> USE DEF PlacesInv, AccountTypes, PlaceFitsOp, UserGoto, UserReply, Outside
<1>1. ASSUME NEW c \in UserCalls, NEW op \in {"delete", "sync", "generate"},
             StartUserCall(c, op)
      PROVE  PlacesInv'
  BY <1>1 DEF StartUserCall, world, transactions
<1>2. ASSUME NEW c \in UserCalls, NEW k \in UserCalls, StartRedeem(c, k) PROVE PlacesInv'
  BY <1>2 DEF StartRedeem, world, transactions
<1>3. ASSUME NEW c \in UserCalls, Anonymize(c) PROVE PlacesInv'
  <2>1. InTime(c) \/ GiveUpOn(c)
    BY <1>3 DEF Anonymize
  <2> QED BY <1>3, <2>1, CallsOut DEF Anonymize, transactions
<1> USE DEF InTime, Effect, GiveUpOn, Used, world, transactions
<1>4. ASSUME NEW c \in UserCalls, LookUpAudit(c) \/ AppendAudit(c) \/ FailAudit(c)
      PROVE  PlacesInv'
  BY <1>4 DEF LookUpAudit, AppendAudit, FailAudit
<1>5. ASSUME NEW c \in UserCalls, RemoveAccount(c) PROVE PlacesInv'
  BY <1>5 DEF RemoveAccount
<1>6. ASSUME NEW c \in UserCalls, SyncUser(c) PROVE PlacesInv'
  <2> HIDE DEF InTime, GiveUpOn
  <2>1. InTime(c) \/ GiveUpOn(c)
    BY <1>6 DEF SyncUser
  <2> QED BY <1>6, <2>1, CallsOut DEF SyncUser
<1>7. ASSUME NEW c \in UserCalls, StartReplace(c) PROVE PlacesInv'
  BY <1>7 DEF StartReplace
<1>8. ASSUME NEW c \in UserCalls, EndReplace(c) PROVE PlacesInv'
  BY <1>8 DEF EndReplace, CodesAfter
<1>9. ASSUME NEW c \in UserCalls, LoseReplace(c) PROVE PlacesInv'
  BY <1>9 DEF LoseReplace
<1>10. ASSUME NEW c \in UserCalls, UseCode(c) PROVE PlacesInv'
  BY <1>10 DEF UseCode
<1>11. ASSUME NEW c \in UserCalls, Unenroll(c) PROVE PlacesInv'
  BY <1>11 DEF Unenroll
<1>12. ASSUME NEW c \in UserCalls, NEW l \in Outside, LandLate(l, c) PROVE PlacesInv'
  BY <1>12 DEF LandLate
<1>13. ASSUME RemoveAuditLine \/ Enroll PROVE PlacesInv'
  BY <1>13 DEF RemoveAuditLine, Enroll
<1>14. ASSUME UserRestart PROVE PlacesInv'
  BY <1>14 DEF UserRestart
<1>15. ASSUME UNCHANGED userVars PROVE PlacesInv'
  BY <1>15 DEF userVars
<1> HIDE DEF PlacesInv, AccountTypes, PlaceFitsOp
<1> QED
  BY <1>1, <1>2, <1>3, <1>4, <1>5, <1>6, <1>7, <1>8, <1>9, <1>10, <1>11, <1>12, <1>13,
     <1>14, <1>15 DEF AccountsNext, UserStep
-----------------------------------------------------------------------------
(* The recovery codes *)

\* The generation can store nothing any more.
Over(k) ==
  /\ userOp[k] = "generate" /\ userPc[k] = "done"
  /\ k \notin replacing /\ <<"generate", k>> \notin adrift

\* The redemptions that got hold of a code.
Redeemed(c) ==
  userOp[c] = "redeem" /\ (userPc[c] = "unenrolling" \/ userAnswer[c] = "200")

\* A set of codes exists once its generation is over, and never comes back.
CodesAreGenerated == \A k \in UserCalls : codes[k] # "absent" => Over(k)

\* CodesWorkOnce needs that a spent code is never unused again.
RedeemedIsSpent ==
  \A c \in UserCalls : Redeemed(c) => codes[codeOf[c]] # "unused" /\ Over(codeOf[c])

\* OneSetInForce needs that an open transaction deletes every other set but those
\* whose transactions overlap with it.
OpenSeeOthers ==
  \A k \in replacing :
    /\ \A j \in replacing \ {k} : {j, k} \in crossed
    /\ \A j \in UserCalls : codes[j] # "absent" => j \in replaced[k] \/ {j, k} \in crossed

CodeInv ==
  /\ PlacesInv /\ CodesAreGenerated /\ RedeemedIsSpent /\ CodeWorksOnce
  /\ OpenSeeOthers /\ OneSetInForce

LEMMA CodeInitial == AccountsInit => CodeInv
BY PlacesInitial DEF AccountsInit, CodeInv, CodesAreGenerated, Redeemed, RedeemedIsSpent,
   CodeWorksOnce, OpenSeeOthers, OneSetInForce

\* The steps that store no codes.
Quiet ==
  /\ \A k \in UserCalls : codes'[k] = codes[k] \/ (codes[k] = "unused" /\ codes'[k] = "used")
  /\ UNCHANGED transactions

\* What a quiet step keeps, apart from the redemptions.
LEMMA QuietStep ==
  ASSUME CodeInv, PlacesInv', Quiet,
         \A k \in UserCalls : Over(k) => Over(k)'
  PROVE  CodesAreGenerated' /\ OpenSeeOthers' /\ OneSetInForce'
<1> USE DEF CodeInv, PlacesInv, AccountTypes, Quiet, transactions
<1>1. CodesAreGenerated'
  BY DEF CodesAreGenerated
<1>2. OpenSeeOthers'
  BY DEF OpenSeeOthers
<1>3. OneSetInForce'
  BY DEF OneSetInForce
<1> QED BY <1>1, <1>2, <1>3

\* A generation that is over stays so.
LEMMA OverStays ==
  ASSUME PlacesInv, [AccountsNext]_userVars, NEW k \in UserCalls, Over(k)
  PROVE  Over(k)'
<1> USE DEF PlacesInv, AccountTypes, PlaceFitsOp, UserGoto, UserReply, Over, world,
            transactions
<1>1. ASSUME NEW c \in UserCalls,
             \/ \E op \in {"delete", "sync", "generate"} : StartUserCall(c, op)
             \/ \E x \in UserCalls : StartRedeem(c, x)
             \/ LookUpAudit(c) \/ AppendAudit(c) \/ FailAudit(c)
             \/ StartReplace(c) \/ EndReplace(c) \/ LoseReplace(c)
      PROVE  Over(k)'
  BY <1>1 DEF StartUserCall, StartRedeem, LookUpAudit, AppendAudit, FailAudit, StartReplace,
     EndReplace, LoseReplace
<1>2. ASSUME NEW c \in UserCalls,
             Anonymize(c) \/ RemoveAccount(c) \/ SyncUser(c) \/ UseCode(c) \/ Unenroll(c)
      PROVE  Over(k)'
  <2>1. /\ userPc[c] \in {"delete", "removing", "sync", "redeem", "unenrolling"}
        /\ userOp' = userOp /\ replacing' = replacing
        /\ adrift' = adrift \/ adrift' = adrift \cup {<<userPc[c], c>>}
        /\ \A x \in UserCalls : x # c => userPc'[x] = userPc[x]
    BY <1>2 DEF Anonymize, RemoveAccount, SyncUser, UseCode, Unenroll, InTime, GiveUpOn
  <2> QED BY <2>1
<1>3. ASSUME NEW c \in UserCalls, NEW l \in Outside, LandLate(l, c) PROVE Over(k)'
  BY <1>3 DEF LandLate
<1>4. ASSUME RemoveAuditLine \/ Enroll \/ UNCHANGED userVars PROVE Over(k)'
  BY <1>4 DEF RemoveAuditLine, Enroll, userVars
<1>5. ASSUME UserRestart PROVE Over(k)'
  BY <1>5 DEF UserRestart, Outside
<1> QED BY <1>1, <1>2, <1>3, <1>4, <1>5 DEF AccountsNext, UserStep

\* The steps that keep the codes of the sets, but for those they use up.
LEMMA QuietSteps ==
  ASSUME PlacesInv, [AccountsNext]_userVars,
         \A c \in UserCalls : ~StartReplace(c) /\ ~EndReplace(c)
  PROVE  Quiet
<1> USE DEF PlacesInv, AccountTypes, Quiet, Used, world, transactions
<1>1. ASSUME NEW c \in UserCalls,
             \/ \E op \in {"delete", "sync", "generate"} : StartUserCall(c, op)
             \/ \E x \in UserCalls : StartRedeem(c, x)
             \/ LookUpAudit(c) \/ AppendAudit(c) \/ FailAudit(c) \/ LoseReplace(c)
      PROVE  Quiet
  BY <1>1 DEF StartUserCall, StartRedeem, LookUpAudit, AppendAudit, FailAudit, LoseReplace
<1>2. ASSUME NEW c \in UserCalls,
             Anonymize(c) \/ RemoveAccount(c) \/ SyncUser(c) \/ UseCode(c) \/ Unenroll(c)
      PROVE  Quiet
  <2>1. /\ InTime(c) \/ GiveUpOn(c)
        /\ UNCHANGED transactions
    BY <1>2 DEF Anonymize, RemoveAccount, SyncUser, UseCode, Unenroll
  <2> QED BY <2>1, CallsOut
<1>3. ASSUME NEW c \in UserCalls, NEW l \in Outside, LandLate(l, c) PROVE Quiet
  BY <1>3 DEF LandLate, Effect
<1>4. ASSUME RemoveAuditLine \/ Enroll \/ UserRestart \/ UNCHANGED userVars PROVE Quiet
  BY <1>4 DEF RemoveAuditLine, Enroll, UserRestart, userVars
<1> HIDE DEF PlacesInv, AccountTypes, Quiet
<1> QED BY <1>1, <1>2, <1>3, <1>4 DEF AccountsNext, UserStep

\* A step gets hold of a code for one redemption at most, and of an unused one.
LEMMA RedeemStep ==
  ASSUME PlacesInv, [AccountsNext]_userVars, NEW c \in UserCalls, Redeemed(c)'
  PROVE  /\ codeOf'[c] = codeOf[c]
         /\ \/ Redeemed(c)
            \/ /\ codes[codeOf[c]] = "unused" /\ codes' = Used(codeOf[c])
               /\ \A b \in UserCalls \ {c} : Redeemed(b)' => Redeemed(b)
<1> USE DEF PlacesInv, AccountTypes, PlaceFitsOp, UserGoto, UserReply, Redeemed
<1>1. ASSUME NEW b \in UserCalls,
             \/ \E op \in {"delete", "sync", "generate"} : StartUserCall(b, op)
             \/ \E x \in UserCalls : StartRedeem(b, x)
             \/ LookUpAudit(b) \/ AppendAudit(b) \/ FailAudit(b)
             \/ StartReplace(b) \/ EndReplace(b) \/ LoseReplace(b)
      PROVE  codeOf'[c] = codeOf[c] /\ Redeemed(c)
  BY <1>1 DEF StartUserCall, StartRedeem, LookUpAudit, AppendAudit, FailAudit, StartReplace,
     EndReplace, LoseReplace
<1>2. ASSUME NEW b \in UserCalls, Anonymize(b) \/ RemoveAccount(b) \/ SyncUser(b) \/ Unenroll(b)
      PROVE  codeOf'[c] = codeOf[c] /\ Redeemed(c)
  BY <1>2, ZenonT(60) DEF Anonymize, RemoveAccount, SyncUser, Unenroll
<1>3. ASSUME NEW b \in UserCalls, UseCode(b)
      PROVE  /\ codeOf'[c] = codeOf[c]
             /\ \/ Redeemed(c)
                \/ /\ codes[codeOf[c]] = "unused" /\ codes' = Used(codeOf[c])
                   /\ \A x \in UserCalls \ {c} : Redeemed(x)' => Redeemed(x)
  <2>1. CASE UserGoto(b, "unenrolling")
    <3>1. codes[codeOf[b]] = "unused" /\ codes' = Used(codeOf[b])
      BY <1>3, <2>1 DEF UseCode, InTime, Effect
    <3> QED BY <1>3, <2>1, <3>1 DEF UseCode
  <2>2. CASE UserReply(b, "400") \/ UserReply(b, "502")
    BY <1>3, <2>2 DEF UseCode
  <2> QED BY <1>3, <2>1, <2>2 DEF UseCode
<1>4. ASSUME NEW b \in UserCalls, NEW l \in Outside, LandLate(l, b)
      PROVE  codeOf'[c] = codeOf[c] /\ Redeemed(c)
  BY <1>4 DEF LandLate
<1>5. ASSUME RemoveAuditLine \/ Enroll \/ UserRestart \/ UNCHANGED userVars
      PROVE  codeOf'[c] = codeOf[c] /\ Redeemed(c)
  BY <1>5 DEF RemoveAuditLine, Enroll, UserRestart, userVars
<1> HIDE DEF PlacesInv, AccountTypes, PlaceFitsOp, UserGoto, UserReply, Redeemed
<1> QED BY <1>1, <1>2, <1>3, <1>4, <1>5 DEF AccountsNext, UserStep

LEMMA CodeStep == CodeInv /\ [AccountsNext]_userVars => CodeInv'
<1> SUFFICES ASSUME CodeInv, [AccountsNext]_userVars PROVE CodeInv'
  OBVIOUS
<1>1. PlacesInv /\ PlacesInv'
  BY PlacesStep DEF CodeInv
<1>2. \A k \in UserCalls : Over(k) => Over(k)'
  BY <1>1, OverStays
<1>3. CodesAreGenerated' /\ OpenSeeOthers' /\ OneSetInForce'
  <2>1. CASE \A c \in UserCalls : ~StartReplace(c) /\ ~EndReplace(c)
    BY <1>1, <1>2, <2>1, QuietSteps, QuietStep
  <2> USE DEF PlacesInv, AccountTypes, CodeInv
  <2>2. ASSUME NEW c \in UserCalls, StartReplace(c)
        PROVE  CodesAreGenerated' /\ OpenSeeOthers' /\ OneSetInForce'
    <3>1. /\ codes' = codes /\ replacing' = replacing \cup {c} /\ c \notin replacing
          /\ replaced' = [replaced EXCEPT ![c] = {k \in UserCalls : codes[k] # "absent"}]
          /\ crossed' = crossed \cup {{c, k} : k \in replacing}
      BY <2>2 DEF StartReplace, world
    <3>2. CodesAreGenerated'
      BY <1>2, <3>1 DEF CodesAreGenerated
    <3>3. OpenSeeOthers'
      <4>1. ASSUME NEW k \in replacing' PROVE \A j \in replacing' \ {k} : {j, k} \in crossed'
        BY <3>1, <4>1 DEF OpenSeeOthers
      <4>2. ASSUME NEW k \in replacing', NEW j \in UserCalls, codes'[j] # "absent"
            PROVE  j \in replaced'[k] \/ {j, k} \in crossed'
        BY <3>1, <4>2 DEF OpenSeeOthers
      <4> QED BY <4>1, <4>2 DEF OpenSeeOthers
    <3>4. OneSetInForce'
      BY <3>1 DEF OneSetInForce
    <3> QED BY <3>2, <3>3, <3>4
  <2>3. ASSUME NEW c \in UserCalls, EndReplace(c)
        PROVE  CodesAreGenerated' /\ OpenSeeOthers' /\ OneSetInForce'
    <3>1. /\ codes' = codes \/ codes' = CodesAfter(c)
          /\ c \in replacing /\ replacing' = replacing \ {c}
          /\ replaced' = [replaced EXCEPT ![c] = {}] /\ crossed' = crossed
      BY <2>3 DEF EndReplace
    <3>2. \A k \in UserCalls : k # c => codes'[k] = codes[k] \/ codes'[k] = "absent"
      BY <3>1 DEF CodesAfter
    <3>3. CodesAreGenerated'
      <4>1. Over(c)'
        BY <1>1, <2>3, <3>1 DEF EndReplace, Over, PlaceFitsOp, UserReply
      <4> QED BY <1>2, <3>2, <4>1 DEF CodesAreGenerated
    <3>4. OpenSeeOthers'
      <4>1. ASSUME NEW k \in replacing' PROVE \A j \in replacing' \ {k} : {j, k} \in crossed'
        BY <3>1, <4>1 DEF OpenSeeOthers
      <4>2. ASSUME NEW k \in replacing', NEW j \in UserCalls, codes'[j] # "absent"
            PROVE  j \in replaced'[k] \/ {j, k} \in crossed'
        BY <3>1, <3>2, <4>2 DEF OpenSeeOthers
      <4> QED BY <4>1, <4>2 DEF OpenSeeOthers
    <3>5. OneSetInForce'
      <4>1. CASE codes' = codes
        BY <3>1, <4>1 DEF OneSetInForce
      <4>2. CASE codes' = CodesAfter(c)
        <5>1. ASSUME NEW j \in UserCalls \ {c}, codes'[j] = "unused"
              PROVE  {j, c} \in crossed /\ codes[j] = "unused"
          BY <3>1, <4>2, <5>1 DEF CodesAfter, OpenSeeOthers
        <5>2. \A j \in UserCalls : {j, c} = {c, j}
          OBVIOUS
        <5> QED BY <3>1, <5>1, <5>2 DEF OneSetInForce
      <4> QED BY <3>1, <4>1, <4>2
    <3> QED BY <3>3, <3>4, <3>5
  <2> HIDE DEF CodeInv, PlacesInv
  <2> QED BY <2>1, <2>2, <2>3
<1>4. RedeemedIsSpent'
  <2> SUFFICES ASSUME NEW c \in UserCalls, Redeemed(c)'
               PROVE  (codes[codeOf[c]] # "unused" /\ Over(codeOf[c]))'
    BY DEF RedeemedIsSpent
  <2>0. ASSUME NEW k \in UserCalls, k = codeOf'[c], codes'[k] # "unused", Over(k)'
        PROVE  (codes[codeOf[c]] # "unused" /\ Over(codeOf[c]))'
    BY <2>0 DEF Over
  <2>1. PICK k \in UserCalls : k = codeOf[c] /\ k = codeOf'[c]
    BY <1>1, RedeemStep DEF PlacesInv, AccountTypes
  <2>2. CASE Redeemed(c)
    <3>1. codes[k] # "unused" /\ Over(k)
      BY <2>1, <2>2 DEF CodeInv, RedeemedIsSpent
    <3>2. codes'[k] # "unused"
      <4>1. CASE \A b \in UserCalls : ~StartReplace(b) /\ ~EndReplace(b)
        BY <1>1, <3>1, <4>1, QuietSteps DEF Quiet
      <4>2. ASSUME NEW b \in UserCalls, StartReplace(b) PROVE codes'[k] # "unused"
        BY <3>1, <4>2 DEF StartReplace, world
      <4>3. ASSUME NEW b \in UserCalls, EndReplace(b) PROVE codes'[k] # "unused"
        BY <3>1, <4>3 DEF EndReplace, CodesAfter, Over
      <4> HIDE DEF Over
      <4> QED BY <4>1, <4>2, <4>3
    <3> QED BY <1>2, <2>0, <2>1, <3>1, <3>2
  <2>3. CASE codes[k] = "unused" /\ codes' = Used(k)
    <3>1. codes'[k] # "unused" /\ Over(k)
      BY <1>1, <2>3 DEF Used, CodeInv, CodesAreGenerated, PlacesInv, AccountTypes
    <3> QED BY <1>2, <2>0, <2>1, <3>1
  <2> QED BY <1>1, <2>1, <2>2, <2>3, RedeemStep
<1>5. CodeWorksOnce'
  <2> SUFFICES ASSUME NEW b \in UserCalls, NEW c \in UserCalls, Redeemed(b)', Redeemed(c)',
                      codeOf'[b] = codeOf'[c], b # c
               PROVE  FALSE
    BY DEF CodeWorksOnce, Redeemed
  <2>1. codeOf'[b] = codeOf[b] /\ codeOf'[c] = codeOf[c]
    BY <1>1, RedeemStep
  <2>2. ~(Redeemed(b) /\ Redeemed(c))
    BY <2>1 DEF CodeInv, CodeWorksOnce, Redeemed
  <2>3. CASE ~Redeemed(b)
    <3>1. codes[codeOf[b]] = "unused" /\ Redeemed(c)
      BY <1>1, <2>3, RedeemStep
    <3> QED BY <2>1, <3>1 DEF CodeInv, RedeemedIsSpent
  <2>4. CASE ~Redeemed(c)
    <3>1. codes[codeOf[c]] = "unused" /\ Redeemed(b)
      BY <1>1, <2>4, RedeemStep
    <3> QED BY <2>1, <3>1 DEF CodeInv, RedeemedIsSpent
  <2> QED BY <2>2, <2>3, <2>4
<1> QED BY <1>1, <1>3, <1>4, <1>5 DEF CodeInv

LEMMA CodeInvariant == AccountsSpec => []CodeInv
BY CodeInitial, CodeStep, PTL DEF AccountsSpec

\* Of all redemptions of one code, one removes the second factor.
THEOREM CodesWorkOnce == AccountsSpec => []CodeWorksOnce
<1>1. CodeInv => CodeWorksOnce
  BY DEF CodeInv
<1> QED
  BY <1>1, CodeInvariant, PTL

\* Two sets of codes are in force only if the transactions of their generations
\* overlapped.
THEOREM OneSet == AccountsSpec => []OneSetInForce
<1>1. CodeInv => OneSetInForce
  BY DEF CodeInv
<1> QED
  BY <1>1, CodeInvariant, PTL
-----------------------------------------------------------------------------
(* The order of a deletion *)

Synced == \E c \in UserCalls : userOp[c] = "sync" /\ userAnswer[c] \in {"200", "502", "lost"}

\* Past its first step a deletion has left no personal data, or they were written
\* again; what drifts was sent no earlier.
DataInv ==
  /\ PlacesInv
  /\ \A c \in UserCalls :
       /\ userPc[c] \in {"lookingUp", "auditing", "removing"} => ~profile \/ Synced
       /\ <<"removing", c>> \in adrift => ~profile \/ Synced
       /\ <<"sync", c>> \in adrift =>
            userOp[c] = "sync" /\ userAnswer[c] \in {"502", "lost"}
  /\ DataGoesFirst

LEMMA DataInitial == AccountsInit => DataInv
BY PlacesInitial DEF AccountsInit, DataInv, DataGoesFirst

\* What was synced stays synced.
LEMMA SyncedStays ==
  ASSUME PlacesInv, [AccountsNext]_userVars, Synced
  PROVE  Synced'
<1>1. PICK c \in UserCalls : userOp[c] = "sync" /\ userAnswer[c] \in {"200", "502", "lost"}
  BY DEF Synced
<1>2. userPc[c] = "done" /\ c \notin replacing
  BY <1>1 DEF PlacesInv, PlaceFitsOp
<1> USE <1>2 DEF PlacesInv, AccountTypes, UserGoto, UserReply
<1> DEFINE Same == userOp'[c] = userOp[c] /\ userAnswer'[c] = userAnswer[c]
<1>3. ASSUME NEW b \in UserCalls,
             \/ \E op \in {"delete", "sync", "generate"} : StartUserCall(b, op)
             \/ \E x \in UserCalls : StartRedeem(b, x)
             \/ LookUpAudit(b) \/ AppendAudit(b) \/ FailAudit(b)
             \/ StartReplace(b) \/ EndReplace(b) \/ LoseReplace(b)
      PROVE  Same
  BY <1>3 DEF StartUserCall, StartRedeem, LookUpAudit, AppendAudit, FailAudit, StartReplace,
     EndReplace, LoseReplace
<1>4. ASSUME NEW b \in UserCalls,
             Anonymize(b) \/ RemoveAccount(b) \/ SyncUser(b) \/ UseCode(b) \/ Unenroll(b)
      PROVE  Same
  BY <1>4 DEF Anonymize, RemoveAccount, SyncUser, UseCode, Unenroll
<1>5. ASSUME NEW b \in UserCalls, NEW l \in Outside, LandLate(l, b) PROVE Same
  BY <1>5 DEF LandLate
<1>6. ASSUME RemoveAuditLine \/ Enroll \/ UserRestart \/ UNCHANGED userVars PROVE Same
  BY <1>6 DEF RemoveAuditLine, Enroll, UserRestart, userVars
<1> HIDE DEF PlacesInv, AccountTypes, UserGoto, UserReply, Same
<1>7. Same
  BY <1>3, <1>4, <1>5, <1>6 DEF AccountsNext, UserStep
<1> QED
  BY <1>1, <1>7 DEF Synced, Same

\* What a step does to the row, the account and the calls that touch them.
KeepsData ==
  /\ profile' => profile \/ Synced'
  /\ account => account' \/ ~profile' \/ Synced'
  /\ \A c \in UserCalls :
       /\ userPc'[c] \in {"lookingUp", "auditing", "removing"} =>
            userPc[c] \in {"lookingUp", "auditing", "removing"} \/ ~profile'
       /\ <<"removing", c>> \in adrift' =>
            <<"removing", c>> \in adrift \/ userPc[c] = "removing"
       /\ <<"sync", c>> \in adrift' =>
            userOp'[c] = "sync" /\ userAnswer'[c] \in {"502", "lost"}

LEMMA DataStays ==
  ASSUME DataInv, PlacesInv', Synced => Synced', KeepsData
  PROVE  DataInv'
<1>1. ASSUME NEW c \in UserCalls
      PROVE  /\ userPc'[c] \in {"lookingUp", "auditing", "removing"} => ~profile' \/ Synced'
             /\ <<"removing", c>> \in adrift' => ~profile' \/ Synced'
  BY DEF DataInv, KeepsData
<1>2. DataGoesFirst'
  <2>1. ~account' /\ profile' => Synced'
    BY DEF DataInv, KeepsData, DataGoesFirst, Synced
  <2> QED BY <2>1 DEF DataGoesFirst, Synced
<1> QED BY <1>1, <1>2 DEF DataInv, KeepsData

\* What a call to Hasura or Firebase does to them, in time or not.
LEMMA CallsData ==
  ASSUME AccountTypes, NEW c \in UserCalls, InTime(c) \/ GiveUpOn(c)
  PROVE  /\ profile' => profile \/ userPc[c] = "sync"
         /\ account => account' \/ userPc[c] = "removing"
         /\ InTime(c) /\ userPc[c] = "delete" => ~profile'
         /\ adrift' \subseteq adrift \cup {<<userPc[c], c>>}
<1>1. CASE InTime(c)
  <2>1. adrift' = adrift
    BY <1>1 DEF InTime
  <2>2. /\ profile' = ((profile /\ userPc[c] # "delete") \/ userPc[c] = "sync")
        /\ account' = (account /\ userPc[c] # "removing")
    BY <1>1 DEF InTime, Effect
  <2>3. userPc[c] = "delete" => userPc[c] # "sync"
    OBVIOUS
  <2> QED BY <2>1, <2>2, <2>3
<1>2. CASE GiveUpOn(c) /\ ~InTime(c)
  BY <1>2 DEF GiveUpOn, world
<1> QED BY <1>1, <1>2

LEMMA DataStep == DataInv /\ [AccountsNext]_userVars => DataInv'
<1> SUFFICES ASSUME DataInv, [AccountsNext]_userVars PROVE DataInv'
  OBVIOUS
<1>0. PlacesInv /\ PlacesInv' /\ (Synced => Synced')
  BY PlacesStep, SyncedStays DEF DataInv
<1>a. \A c \in UserCalls :
        <<"sync", c>> \in adrift =>
          userOp[c] = "sync" /\ userAnswer[c] \in {"502", "lost"} /\ userPc[c] = "done"
  BY <1>0 DEF DataInv, PlacesInv, PlaceFitsOp
<1>b. PlacesInv
  BY <1>0
<1> USE DEF PlacesInv, AccountTypes, UserGoto, UserReply, world
<1>1. ASSUME NEW c \in UserCalls,
             \/ \E op \in {"delete", "sync", "generate"} : StartUserCall(c, op)
             \/ \E k \in UserCalls : StartRedeem(c, k)
             \/ LookUpAudit(c) \/ AppendAudit(c) \/ FailAudit(c)
      PROVE  KeepsData
  BY <1>1, <1>a, <1>b DEF StartUserCall, StartRedeem, LookUpAudit, AppendAudit, FailAudit,
     KeepsData
<1>2. ASSUME NEW c \in UserCalls, StartReplace(c) \/ EndReplace(c) \/ LoseReplace(c)
      PROVE  KeepsData
  BY <1>2, <1>a, <1>b DEF StartReplace, EndReplace, LoseReplace, KeepsData
<1>3. ASSUME NEW c \in UserCalls, Anonymize(c) PROVE KeepsData
  <2>1. InTime(c) \/ GiveUpOn(c)
    BY <1>3 DEF Anonymize
  <2>2. userPc[c] = "delete" /\ userOp' = userOp
    BY <1>3 DEF Anonymize
  <2>3. /\ profile' => profile
        /\ account => account'
        /\ InTime(c) => ~profile'
        /\ adrift' \subseteq adrift \cup {<<"delete", c>>}
    BY <1>b, <2>1, <2>2, CallsData
  <2> QED BY <1>3, <1>a, <1>b, <2>2, <2>3 DEF Anonymize, KeepsData
<1>4. ASSUME NEW c \in UserCalls, RemoveAccount(c) PROVE KeepsData
  <2>1. ~profile \/ Synced'
    BY <1>4, <1>0 DEF RemoveAccount, DataInv
  <2>2. InTime(c) \/ GiveUpOn(c)
    BY <1>4 DEF RemoveAccount
  <2>3. userPc[c] = "removing" /\ userOp' = userOp
    BY <1>4 DEF RemoveAccount
  <2>4. (profile' => profile) /\ adrift' \subseteq adrift \cup {<<"removing", c>>}
    BY <1>b, <2>2, <2>3, CallsData
  <2>5. account => account' \/ ~profile' \/ Synced'
    BY <2>1, <2>4
  <2> QED BY <1>4, <1>a, <1>b, <2>3, <2>4, <2>5 DEF RemoveAccount, KeepsData
<1>6. ASSUME NEW c \in UserCalls, UseCode(c) \/ Unenroll(c) PROVE KeepsData
  <2>1. InTime(c) \/ GiveUpOn(c)
    BY <1>6 DEF UseCode, Unenroll
  <2>2. userPc[c] \in {"redeem", "unenrolling"} /\ userOp' = userOp
    BY <1>6 DEF UseCode, Unenroll
  <2>3. /\ profile' => profile
        /\ account => account'
        /\ adrift' \subseteq adrift \cup {<<userPc[c], c>>}
    BY <1>b, <2>1, <2>2, CallsData
  <2> QED BY <1>6, <1>a, <1>b, <2>2, <2>3 DEF UseCode, Unenroll, KeepsData
<1> USE DEF InTime, Effect, GiveUpOn
<1>5. ASSUME NEW c \in UserCalls, SyncUser(c) PROVE KeepsData
  <2>1. userOp'[c] = "sync" /\ userAnswer'[c] \in {"200", "502", "lost"}
    BY <1>5, <1>b, ZenonT(60) DEF SyncUser, PlaceFitsOp
  <2>2. Synced'
    BY <2>1 DEF Synced
  <2>3. \A x \in UserCalls : <<"sync", x>> \in adrift' =>
          userOp'[x] = "sync" /\ userAnswer'[x] \in {"502", "lost"}
    BY <1>5, <1>a, <1>b, <2>1 DEF SyncUser
  <2> QED BY <1>5, <1>b, <2>2, <2>3 DEF SyncUser, KeepsData
<1>7. ASSUME NEW c \in UserCalls, NEW l \in Outside, LandLate(l, c) PROVE KeepsData
  <2>1. l = "sync" => Synced
    BY <1>7, <1>a DEF LandLate, Synced
  <2>2. l = "removing" => ~profile \/ Synced
    BY <1>7 DEF LandLate, DataInv
  <2> QED BY <1>7, <1>0, <1>a, <2>1, <2>2 DEF LandLate, KeepsData
<1>8. ASSUME RemoveAuditLine \/ Enroll \/ UNCHANGED userVars PROVE KeepsData
  BY <1>8, <1>a DEF RemoveAuditLine, Enroll, userVars, KeepsData
<1>9. ASSUME UserRestart PROVE KeepsData
  BY <1>9, <1>a, <1>b, ZenonT(60) DEF UserRestart, KeepsData, PlaceFitsOp, Outside
<1> HIDE DEF PlacesInv, AccountTypes
<1>10. KeepsData
  BY <1>1, <1>2, <1>3, <1>4, <1>5, <1>6, <1>7, <1>8, <1>9 DEF AccountsNext, UserStep
<1> QED BY <1>0, <1>10, DataStays

LEMMA DataInvariant == AccountsSpec => []DataInv
BY DataInitial, DataStep, PTL DEF AccountsSpec

\* Personal data are gone before the account is, unless a sync wrote them again.
THEOREM DataFirst == AccountsSpec => []DataGoesFirst
<1>1. DataInv => DataGoesFirst
  BY DEF DataInv
<1> QED
  BY <1>1, DataInvariant, PTL
-----------------------------------------------------------------------------
(* The audit line of a deletion *)

\* Past its third step a deletion has its audit line, or its append failed, or the
\* line is gone since.
AuditInv ==
  /\ PlacesInv
  /\ \A c \in UserCalls : userPc[c] = "removing" => audited \/ c \in unaudited
  /\ DeletionIsAudited

\* A step that neither ends a deletion nor touches the line.
LeavesAudit ==
  /\ audited' = audited /\ unaudited' = unaudited
  /\ \A c \in UserCalls :
       /\ userPc'[c] = "removing" => userPc[c] = "removing"
       /\ userOp'[c] = "delete" /\ userAnswer'[c] = "200" =>
            userOp[c] = "delete" /\ userAnswer[c] = "200"

LEMMA AuditInitial == AccountsInit => AuditInv
BY PlacesInitial DEF AccountsInit, AuditInv, DeletionIsAudited

LEMMA AuditStep == AuditInv /\ [AccountsNext]_userVars => AuditInv'
<1> SUFFICES ASSUME AuditInv, [AccountsNext]_userVars PROVE AuditInv'
  OBVIOUS
<1>0. PlacesInv /\ PlacesInv'
  BY PlacesStep DEF AuditInv
<1>1. ASSUME LeavesAudit PROVE AuditInv'
  BY <1>0, <1>1 DEF AuditInv, DeletionIsAudited, LeavesAudit
<1>b. AccountTypes /\ PlaceFitsOp
  BY <1>0 DEF PlacesInv
<1> USE DEF AccountTypes, PlaceFitsOp, UserGoto, UserReply
<1>2. ASSUME NEW c \in UserCalls,
             \/ \E op \in {"delete", "sync", "generate"} : StartUserCall(c, op)
             \/ \E k \in UserCalls : StartRedeem(c, k)
             \/ StartReplace(c) \/ EndReplace(c) \/ LoseReplace(c)
      PROVE  LeavesAudit
  BY <1>2, <1>b DEF StartUserCall, StartRedeem, StartReplace, EndReplace, LoseReplace, LeavesAudit
<1>3. ASSUME NEW c \in UserCalls, Anonymize(c) \/ SyncUser(c) \/ UseCode(c) \/ Unenroll(c)
      PROVE  LeavesAudit
  <2>1. /\ UNCHANGED <<audited, unaudited, userOp>>
        /\ \A x \in UserCalls \ {c} : userPc'[x] = userPc[x] /\ userAnswer'[x] = userAnswer[x]
        /\ userPc'[c] # "removing"
    BY <1>3, <1>b DEF Anonymize, SyncUser, UseCode, Unenroll
  <2>2. userAnswer'[c] = "200" => userOp[c] # "delete"
    BY <1>3, <1>b, ZenonT(60) DEF Anonymize, SyncUser, UseCode, Unenroll
  <2> QED BY <2>1, <2>2 DEF LeavesAudit
<1>4. ASSUME NEW c \in UserCalls, NEW l \in Outside, LandLate(l, c) PROVE LeavesAudit
  BY <1>4 DEF LandLate, LeavesAudit
<1>5. ASSUME Enroll \/ UNCHANGED userVars PROVE LeavesAudit
  BY <1>5 DEF Enroll, userVars, LeavesAudit
<1>6. ASSUME NEW c \in UserCalls, LookUpAudit(c) \/ AppendAudit(c) \/ FailAudit(c)
      PROVE  AuditInv'
  BY <1>0, <1>b, <1>6 DEF LookUpAudit, AppendAudit, FailAudit, AuditInv, DeletionIsAudited
<1>7. ASSUME NEW c \in UserCalls, RemoveAccount(c) PROVE AuditInv'
  BY <1>0, <1>b, <1>7 DEF RemoveAccount, AuditInv, DeletionIsAudited
<1>8. ASSUME RemoveAuditLine PROVE AuditInv'
  BY <1>0, <1>b, <1>8 DEF RemoveAuditLine, AuditInv, DeletionIsAudited
<1>9. ASSUME UserRestart PROVE AuditInv'
  BY <1>0, <1>b, <1>9 DEF UserRestart, AuditInv, DeletionIsAudited
<1> HIDE DEF AccountTypes, PlaceFitsOp
<1> QED
  BY <1>1, <1>2, <1>3, <1>4, <1>5, <1>6, <1>7, <1>8, <1>9 DEF AccountsNext, UserStep

LEMMA AuditInvariant == AccountsSpec => []AuditInv
BY AuditInitial, AuditStep, PTL DEF AccountsSpec

\* A deletion answered 200 has its audit line, unless its append failed or the
\* line was taken away, or lost in a restart, since.
THEOREM Audited == AccountsSpec => []DeletionIsAudited
<1>1. AuditInv => DeletionIsAudited
  BY DEF AuditInv
<1> QED
  BY <1>1, AuditInvariant, PTL
-----------------------------------------------------------------------------
\* What the row, the account, its factor and the audit line are: there or not.
Flags == profile \in BOOLEAN /\ account \in BOOLEAN /\ factor \in BOOLEAN /\ audited \in BOOLEAN

PairsCross == crossed \subseteq SUBSET UserCalls

\* Every variable keeps its type.
THEOREM TypeCorrect == AccountsSpec => [](AccountTypes /\ Flags /\ PairsCross)
<1>1. AccountsInit => Flags /\ PairsCross
  BY DEF AccountsInit, Flags, PairsCross
<1>2. AccountTypes /\ Flags /\ PairsCross /\ [AccountsNext]_userVars => Flags' /\ PairsCross'
  <2> SUFFICES ASSUME AccountTypes, Flags, PairsCross, [AccountsNext]_userVars
               PROVE  Flags' /\ PairsCross'
    OBVIOUS
  <2> USE DEF Flags, PairsCross, world, transactions
  <2>1. ASSUME NEW c \in UserCalls,
               \/ \E op \in {"delete", "sync", "generate"} : StartUserCall(c, op)
               \/ \E k \in UserCalls : StartRedeem(c, k)
               \/ LookUpAudit(c) \/ AppendAudit(c) \/ FailAudit(c)
               \/ EndReplace(c) \/ LoseReplace(c)
        PROVE  Flags' /\ PairsCross'
    BY <2>1 DEF StartUserCall, StartRedeem, LookUpAudit, AppendAudit, FailAudit, EndReplace,
       LoseReplace
  <2>2. ASSUME NEW c \in UserCalls, StartReplace(c) PROVE Flags' /\ PairsCross'
    BY <2>2 DEF StartReplace, AccountTypes
  <2>3. ASSUME NEW c \in UserCalls,
               Anonymize(c) \/ RemoveAccount(c) \/ SyncUser(c) \/ UseCode(c) \/ Unenroll(c)
        PROVE  Flags' /\ PairsCross'
    <3>1. (InTime(c) \/ GiveUpOn(c)) /\ audited' = audited /\ crossed' = crossed
      BY <2>3 DEF Anonymize, RemoveAccount, SyncUser, UseCode, Unenroll
    <3> QED BY <3>1 DEF InTime, Effect, GiveUpOn
  <2>4. ASSUME NEW c \in UserCalls, NEW l \in Outside, LandLate(l, c)
        PROVE  Flags' /\ PairsCross'
    BY <2>4 DEF LandLate, Effect
  <2>5. ASSUME RemoveAuditLine \/ Enroll \/ UserRestart \/ UNCHANGED userVars
        PROVE  Flags' /\ PairsCross'
    BY <2>5 DEF RemoveAuditLine, Enroll, UserRestart, userVars
  <2> HIDE DEF Flags, PairsCross
  <2> QED BY <2>1, <2>2, <2>3, <2>4, <2>5 DEF AccountsNext, UserStep
<1>3. CodeInv => AccountTypes
  BY DEF CodeInv, PlacesInv
<1> QED
  BY <1>1, <1>2, <1>3, CodeInvariant, PTL DEF AccountsSpec
=============================================================================
