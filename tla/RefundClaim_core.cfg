SPECIFICATION Spec
CONSTANTS
  r1 = r1
  r2 = r2
  r3 = r3
  i1 = i1
  i2 = i2
  e1 = e1
  e2 = e2
  Requests <- ThreeRequests
  RefundIds <- TwoIds
  Escrows <- OneEscrow
  Retention = 0
  MaxTime = 0
SYMMETRY Symmetric
INVARIANTS
  SubmittedIsPaid
  OneSuccessPerEscrow
  OneExecutorPerRefundId
  PendingHasExecutor
PROPERTIES
  SubmittedIsFinal
