------------------------------- MODULE MCFrontend ------------------------------
(***************************************************************************)
(* Three parts of the frontend that share no state, checked in one run: a  *)
(* behaviour is one of any of them, the others stay as they began.         *)
(***************************************************************************)
EXTENDS EscrowClient, RateLimit, TokenRefresh, TLC

CONSTANTS s1, s2, s3, k1, k2, k3, a, b, c, u1, u2

VARIABLE part

ThreeSubmits == {s1, s2, s3}
ThreeContracts == {k1, k2, k3}
OneFlag == {"approved"}
ThreeKeys == {a, b, c}
SomeLimits == [k \in ThreeKeys |-> IF k = c THEN 1 ELSE 2]
TwoUsers == {u1, u2}
FormSymmetry == Permutations(ThreeSubmits) \cup Permutations(ThreeContracts)

FrontendInit ==
  /\ part \in {"client", "limiter", "token"}
  /\ ClientInit /\ RateLimitInit /\ TokenInit

FrontendNext ==
  \/ part = "client" /\ ClientNext /\ UNCHANGED <<limitVars, tokenVars, part>>
  \/ part = "limiter" /\ RateLimitNext /\ UNCHANGED <<clientVars, tokenVars, part>>
  \/ part = "token" /\ TokenNext /\ UNCHANGED <<clientVars, limitVars, part>>

FrontendSpec == FrontendInit /\ [][FrontendNext]_<<clientVars, limitVars, tokenVars, part>>
=============================================================================
