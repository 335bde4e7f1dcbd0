SPECIFICATION FrontendSpec
CONSTANTS
  s1 = s1
  s2 = s2
  s3 = s3
  k1 = k1
  k2 = k2
  k3 = k3
  a = a
  b = b
  c = c
  u1 = u1
  u2 = u2
  Submits <- ThreeSubmits
  Contracts <- ThreeContracts
  Flags <- OneFlag
  MaxAttempts = 2
  Keys <- ThreeKeys
  LimitOf <- SomeLimits
  Window = 3
  MaxTracked = 2
  Second = 2
  MaxTime = 6
  Users <- TwoUsers
  NoUser = NoUser
  MaxTimers = 4
SYMMETRY FormSymmetry
CHECK_DEADLOCK FALSE
INVARIANTS
  LocalCopyIsReal LocalCopyKeepsUp OneContractUnlessDoubtful
  TableIsBounded AtMostTwiceTheLimit RetryAfterIsHonest
  TimerIsInReach TimerIsForTheUser SessionIsCovered
