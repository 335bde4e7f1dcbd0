SPECIFICATION FairSpec
CONSTANTS
  r1 = r1
  r2 = r2
  r3 = r3
  i1 = i1
  i2 = i2
  e1 = e1
  e2 = e2
  Requests <- TwoRequests
  RefundIds <- TwoIds
  Escrows <- OneEscrow
  Retention = 1
  MaxTime = 2
PROPERTIES
  ImplementsPayout
  EveryClaimAnswered
