SPECIFICATION LiveSpec
CONSTANTS
  s1 = s1
  s2 = s2
  e1 = e1
  e2 = e2
  e3 = e3
  k1 = k1
  Slots <- OneSlot
  Events <- ThreeEvents
  ContractOf <- OneContract
  StatusOf <- Spelled
  TTL = 1
  MaxKept = 1
  MaxTime = 0
  MaxNotices = 0
\* Everything may be acknowledged.
CHECK_DEADLOCK FALSE
INVARIANTS
  CacheIsBounded
PROPERTIES
  EventuallySettled
