SPECIFICATION Spec
CONSTANTS
  s1 = s1
  s2 = s2
  e1 = e1
  e2 = e2
  e3 = e3
  k1 = k1
  Slots <- TwoSlots
  Events <- TwoEvents
  ContractOf <- OneContract
  StatusOf <- Spelled
  TTL = 1
  MaxKept = 1
  MaxTime = 2
  MaxNotices = 2
SYMMETRY SlotSymmetry
INVARIANTS
  AppliedOrUnmatched
  CacheIsSound
  NotifiedOnce
