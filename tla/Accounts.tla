------------------------------- MODULE Accounts --------------------------------
(***************************************************************************)
(* What the users, sync-user and recovery-codes routes do to one user: the *)
(* row with their personal data (Hasura), the account they sign in with    *)
(* and its second factor (Firebase), the audit line of the deletion        *)
(* (ChangelogService) and the sets of one-time recovery codes.             *)
(*                                                                         *)
(* Hasura and Firebase are external: a call to them takes effect and is    *)
(* answered, or is answered with a failure before, after or without its    *)
(* effect.  A token stays valid after the account is gone: its revocation  *)
(* is not checked.                                                         *)
(***************************************************************************)
EXTENDS Integers, FiniteSets

CONSTANT UserCalls   \* HTTP requests; a set of codes has the name of its call

VARIABLES
  profile,     \* a row carries the user's email and their data
  account,     \* the Firebase account exists
  factor,      \* it has a second factor
  audited,     \* the changelog holds account.deleted:<uid>
  codes,       \* each set's code: absent, unused or used
  userPc,      \* where each call is suspended
  userOp,      \* what each call does
  codeOf,      \* the set whose code a redemption presents
  userAnswer,  \* what each call was answered
  adrift,      \* external calls given up on, which may take effect yet
  replacing,   \* generations whose transaction is open
  replaced,    \* the sets an open transaction deletes: those its DELETE saw
  crossed,     \* history: pairs of generations whose transactions overlapped
  unaudited    \* history: deletions whose append of the audit line failed, or
               \* whose line was removed or lost with the process

world == <<profile, account, factor, codes>>
transactions == <<replacing, replaced, crossed>>
userVars == <<world, audited, userPc, userOp, codeOf, userAnswer, adrift, transactions,
              unaudited>>

\* Where a call waits for Hasura or Firebase.
Outside == {"delete", "removing", "sync", "generate", "redeem", "unenrolling"}

AccountsInit ==
  /\ profile \in BOOLEAN
  /\ account = TRUE /\ factor = TRUE /\ audited = FALSE
  /\ codes = [k \in UserCalls |-> "absent"]
  /\ userPc = [c \in UserCalls |-> "idle"]
  /\ userOp = [c \in UserCalls |-> "none"]
  /\ codeOf = [c \in UserCalls |-> c]
  /\ userAnswer = [c \in UserCalls |-> "none"]
  /\ adrift = {}
  /\ replacing = {} /\ replaced = [c \in UserCalls |-> {}] /\ crossed = {}
  /\ unaudited = {}

UserReply(c, status) ==
  userPc' = [userPc EXCEPT ![c] = "done"] /\ userAnswer' = [userAnswer EXCEPT ![c] = status]
UserGoto(c, l) == userPc' = [userPc EXCEPT ![c] = l] /\ UNCHANGED userAnswer

\* A request is refused, or has its token verified and waits for its first call.
StartUserCall(c, op) ==
  /\ userPc[c] = "idle"
  /\ userOp' = [userOp EXCEPT ![c] = op]
  /\ UserGoto(c, op) \/ UserReply(c, "401") \/ UserReply(c, "400")
  /\ UNCHANGED <<world, audited, codeOf, adrift, transactions, unaudited>>

\* A redemption needs no token, only an email with an account.
StartRedeem(c, k) ==
  /\ userPc[c] = "idle"
  /\ userOp' = [userOp EXCEPT ![c] = "redeem"]
  /\ codeOf' = [codeOf EXCEPT ![c] = k]
  /\ (account /\ UserGoto(c, "redeem")) \/ UserReply(c, "400")
  /\ UNCHANGED <<world, audited, adrift, transactions, unaudited>>
-----------------------------------------------------------------------------
(* Calls to Hasura and Firebase *)

Used(k) == [codes EXCEPT ![k] = IF @ = "unused" THEN "used" ELSE @]

\* What the call made by c at l does when it takes effect.
Effect(l, c) ==
  /\ profile' = ((profile /\ l # "delete") \/ l = "sync")
  /\ account' = (account /\ l # "removing")
  /\ factor' = (factor /\ l \notin {"removing", "unenrolling"})
  /\ codes' = IF l = "redeem" THEN Used(codeOf[c]) ELSE codes

InTime(c) == Effect(userPc[c], c) /\ UNCHANGED adrift

GiveUpOn(c) == adrift' = adrift \cup {<<userPc[c], c>>} /\ UNCHANGED world

\* A call whose caller is gone, or was told that it failed, takes effect.
LandLate(l, c) ==
  /\ l # "generate" /\ <<l, c>> \in adrift
  /\ Effect(l, c)
  /\ adrift' = adrift \ {<<l, c>>}
  /\ UNCHANGED <<audited, userPc, userOp, codeOf, userAnswer, transactions, unaudited>>
-----------------------------------------------------------------------------
(* DELETE /me and POST /sync-user *)

\* Variant: a failed anonymisation does not end the request.
AnonymizeBestEffort(c) ==
  /\ userPc[c] = "delete"
  /\ InTime(c) \/ GiveUpOn(c)
  /\ UserGoto(c, "lookingUp")
  /\ UNCHANGED <<audited, userOp, codeOf, transactions, unaudited>>

Anonymize(c) ==
  /\ userPc[c] = "delete"
  /\ \/ InTime(c) /\ UserGoto(c, "lookingUp")
     \/ (InTime(c) \/ GiveUpOn(c)) /\ UserReply(c, "502")
  /\ UNCHANGED <<audited, userOp, codeOf, transactions, unaudited>>

LookUpAudit(c) ==
  /\ userPc[c] = "lookingUp"
  /\ UserGoto(c, IF audited THEN "removing" ELSE "auditing")
  /\ UNCHANGED <<world, audited, userOp, codeOf, adrift, transactions, unaudited>>

\* Variant: the audit line is left for the deletion that comes last.
AppendAuditOnRetry(c) ==
  /\ userPc[c] = "auditing"
  /\ audited' = (audited \/ ~account)
  /\ UserGoto(c, "removing")
  /\ UNCHANGED <<world, userOp, codeOf, adrift, transactions, unaudited>>

\* appendEntry stores the line or refuses a second one; its refusal is swallowed.
AppendAudit(c) ==
  /\ userPc[c] = "auditing"
  /\ audited' = TRUE
  /\ UserGoto(c, "removing")
  /\ UNCHANGED <<world, userOp, codeOf, adrift, transactions, unaudited>>

\* The look-up or the append throws: that is swallowed too.
FailAudit(c) ==
  /\ userPc[c] \in {"lookingUp", "auditing"}
  /\ UserGoto(c, "removing")
  /\ unaudited' = unaudited \cup {c}
  /\ UNCHANGED <<world, audited, userOp, codeOf, adrift, transactions>>

\* And so is a Firebase failure: the answer is 200 all the same.
RemoveAccount(c) ==
  /\ userPc[c] = "removing"
  /\ InTime(c) \/ GiveUpOn(c)
  /\ UserReply(c, "200")
  /\ UNCHANGED <<audited, userOp, codeOf, transactions, unaudited>>

SyncUser(c) ==
  /\ userPc[c] = "sync"
  /\ \/ InTime(c) /\ UserReply(c, "200")
     \/ (InTime(c) \/ GiveUpOn(c)) /\ UserReply(c, "502")
  /\ UNCHANGED <<audited, userOp, codeOf, transactions, unaudited>>

\* DELETE /api/changelog/:entryId takes the line away, which leaves those without
\* it that have seen to it before.
RemoveAuditLine ==
  /\ audited /\ audited' = FALSE
  /\ unaudited' = unaudited \cup
       {c \in UserCalls : userOp[c] = "delete" /\ userPc[c] \in {"removing", "done"}}
  /\ UNCHANGED <<world, userPc, userOp, codeOf, userAnswer, adrift, transactions>>
-----------------------------------------------------------------------------
(* POST /recovery-codes: a transaction that deletes the old codes and then  *)
(* inserts the new, at the isolation level READ COMMITTED                   *)

\* The DELETE sees what was committed before it.
StartReplace(c) ==
  /\ c \notin replacing
  /\ \/ userPc[c] = "generate" /\ UNCHANGED adrift
     \/ <<"generate", c>> \in adrift /\ adrift' = adrift \ {<<"generate", c>>}
  /\ replacing' = replacing \cup {c}
  /\ replaced' = [replaced EXCEPT ![c] = {k \in UserCalls : codes[k] # "absent"}]
  /\ crossed' = crossed \cup {{c, k} : k \in replacing}
  /\ UNCHANGED <<world, audited, userPc, userOp, codeOf, userAnswer, unaudited>>

\* Variant: the old codes are kept.
WithNewCodes(c) == [codes EXCEPT ![c] = "unused"]

CodesAfter(c) ==
  [k \in UserCalls |-> IF k = c THEN "unused"
                       ELSE IF k \in replaced[c] THEN "absent" ELSE codes[k]]

\* The transaction commits or is rolled back, and its caller, if there is one
\* yet, is told so or that it failed.
EndReplace(c) ==
  /\ c \in replacing
  /\ replacing' = replacing \ {c} /\ replaced' = [replaced EXCEPT ![c] = {}]
  /\ \/ codes' = CodesAfter(c) /\ userPc[c] = "generate" /\ UserReply(c, "201")
     \/ codes' \in {codes, CodesAfter(c)} /\ userPc[c] = "generate" /\ UserReply(c, "502")
     \/ /\ codes' \in {codes, CodesAfter(c)}
        /\ userPc[c] # "generate" /\ UNCHANGED <<userPc, userAnswer>>
  /\ UNCHANGED <<profile, account, factor, audited, userOp, codeOf, adrift, crossed, unaudited>>

\* The request fails while the transaction is open, or before it began.
LoseReplace(c) ==
  /\ userPc[c] = "generate"
  /\ UserReply(c, "502")
  /\ adrift' = adrift \cup {<<"generate", x>> : x \in {c} \ replacing}
  /\ UNCHANGED <<world, audited, userOp, codeOf, transactions, unaudited>>
-----------------------------------------------------------------------------
(* POST /recovery-codes/redeem *)

\* Variant: whether the code was used is not part of the mutation's condition.
UseAnyCode(c) ==
  /\ userPc[c] = "redeem"
  /\ codes[codeOf[c]] # "absent"
  /\ codes' = [codes EXCEPT ![codeOf[c]] = "used"]
  /\ UserGoto(c, "unenrolling")
  /\ UNCHANGED <<profile, account, factor, audited, userOp, codeOf, adrift, transactions,
                 unaudited>>

\* USE_CODE marks an unused code used, in one conditional update.
UseCode(c) ==
  LET hit == codes[codeOf[c]] = "unused"
  IN  /\ userPc[c] = "redeem"
      /\ \/ InTime(c) /\ hit /\ UserGoto(c, "unenrolling")
         \/ InTime(c) /\ ~hit /\ UserReply(c, "400")
         \/ (InTime(c) \/ GiveUpOn(c)) /\ UserReply(c, "502")
      /\ UNCHANGED <<audited, userOp, codeOf, transactions, unaudited>>

\* The second factor is removed; a failure leaves the code used all the same.
Unenroll(c) ==
  /\ userPc[c] = "unenrolling"
  /\ \/ account /\ InTime(c) /\ UserReply(c, "200")
     \/ (InTime(c) \/ GiveUpOn(c)) /\ UserReply(c, "502")
  /\ UNCHANGED <<audited, userOp, codeOf, transactions, unaudited>>
-----------------------------------------------------------------------------
\* The user enrols a second factor again (Firebase).
Enroll ==
  /\ account /\ ~factor
  /\ factor' = TRUE
  /\ UNCHANGED <<profile, account, codes, audited, userPc, userOp, codeOf, userAnswer, adrift,
                 transactions, unaudited>>

\* The changelog lives in the process; what was sent out of it may take effect yet.
UserRestart ==
  /\ audited' = FALSE
  /\ userPc' = [c \in UserCalls |-> IF userPc[c] = "idle" THEN "idle" ELSE "done"]
  /\ userAnswer' = [c \in UserCalls |->
       IF userPc[c] \in {"idle", "done"} THEN userAnswer[c] ELSE "lost"]
  /\ adrift' = adrift \cup
       {<<userPc[c], c>> : c \in {x \in UserCalls \ replacing : userPc[x] \in Outside}}
  /\ unaudited' = unaudited \cup {c \in UserCalls : userOp[c] = "delete"}
  /\ UNCHANGED <<world, userOp, codeOf, transactions>>

UserStep(c) ==
  \/ \E op \in {"delete", "sync", "generate"} : StartUserCall(c, op)
  \/ \E k \in UserCalls : StartRedeem(c, k)
  \/ Anonymize(c) \/ LookUpAudit(c) \/ AppendAudit(c) \/ FailAudit(c) \/ RemoveAccount(c)
  \/ SyncUser(c) \/ StartReplace(c) \/ EndReplace(c) \/ LoseReplace(c)
  \/ UseCode(c) \/ Unenroll(c)
  \/ \E l \in Outside : LandLate(l, c)

AccountsNext ==
  (\E c \in UserCalls : UserStep(c)) \/ RemoveAuditLine \/ Enroll \/ UserRestart

AccountsSpec == AccountsInit /\ [][AccountsNext]_userVars
-----------------------------------------------------------------------------
(* Properties *)

\* Redemptions of one code race, are retried and lose their answers: at most one
\* of them gets as far as removing the second factor.
CodeWorksOnce ==
  \A b, c \in UserCalls :
    /\ userOp[b] = "redeem" /\ (userPc[b] = "unenrolling" \/ userAnswer[b] = "200")
    /\ userOp[c] = "redeem" /\ (userPc[c] = "unenrolling" \/ userAnswer[c] = "200")
    /\ codeOf[b] = codeOf[c]
    => b = c

\* However late a generation takes effect, the codes of two sets can be redeemed
\* only if the transactions that stored them overlapped, neither of which sees
\* what the other inserts.
OneSetInForce ==
  \A j, k \in UserCalls :
    codes[j] = "unused" /\ codes[k] = "unused" => j = k \/ {j, k} \in crossed

\* A user who can no longer sign in has left no personal data behind, unless a
\* sync-user request wrote them, which a token from before the deletion suffices
\* for.
DataGoesFirst ==
  ~account /\ profile =>
    \E c \in UserCalls : userOp[c] = "sync" /\ userAnswer[c] \in {"200", "502", "lost"}

\* A deletion answered 200 has its audit line, though deletions of one user may
\* race and a refused append is swallowed, unless its own append failed or the
\* line was removed, or lost in a restart, after the deletion had seen to it.
DeletionIsAudited ==
  \A c \in UserCalls \ unaudited :
    userOp[c] = "delete" /\ userAnswer[c] = "200" => audited
=============================================================================
