SPECIFICATION BackendSpec
CONSTANTS
  c1 = c1
  c2 = c2
  c3 = c3
  c4 = c4
  i1 = i1
  i2 = i2
  s1 = s1
  s2 = s2
  s3 = s3
  e1 = e1
  LogCalls <- FourCalls
  EntryIds <- TwoIds
  PageLimit = 1
  Offsets <- FirstPages
  Sends <- ThreeCalls
  EventIds <- OneEvent
  NoEventId = NoEventId
  MaxDeliveries = 2
  UserCalls <- ThreeCalls
SYMMETRY CallSymmetry
CHECK_DEADLOCK FALSE
INVARIANTS
  ToldIsKept EndMissesOnlyRemovals
  NeverSilentlyDropped DeliveredOnce
  CodeWorksOnce OneSetInForce DataGoesFirst DeletionIsAudited
PROPERTIES
  ImplementsWriteOnceLog
