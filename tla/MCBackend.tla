------------------------------- MODULE MCBackend -------------------------------
(***************************************************************************)
(* Three backend components that share no state, checked in one run: a     *)
(* behaviour is one of any of them, the others stay as they began.         *)
(***************************************************************************)
EXTENDS Changelog, NotificationService, Accounts, TLC

CONSTANTS c1, c2, c3, c4, i1, i2, s1, s2, s3, e1

VARIABLE part

FourCalls == {c1, c2, c3, c4}
TwoIds == {i1, i2}
FirstPages == {0, 1}
ThreeCalls == {s1, s2, s3}
OneEvent == {e1}
CallSymmetry ==
  Permutations(FourCalls) \cup Permutations(TwoIds) \cup Permutations(ThreeCalls)

BackendInit ==
  /\ part \in {"changelog", "notification", "accounts"}
  /\ ChangelogInit /\ NotificationInit /\ AccountsInit
  /\ part # "accounts" => profile

BackendNext ==
  \/ part = "changelog" /\ ChangelogNext /\ UNCHANGED <<noticeVars, userVars, part>>
  \/ part = "notification" /\ NotificationNext /\ UNCHANGED <<logVars, userVars, part>>
  \/ part = "accounts" /\ AccountsNext /\ UNCHANGED <<logVars, noticeVars, part>>

BackendSpec == BackendInit /\ [][BackendNext]_<<logVars, noticeVars, userVars, part>>
=============================================================================
