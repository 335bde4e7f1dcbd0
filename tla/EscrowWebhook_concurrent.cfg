SPECIFICATION Spec
CONSTANTS
  s1 = s1
  s2 = s2
  e1 = e1
  e2 = e2
  e3 = e3
  k1 = k1
  Slots <- TwoSlots
  Events <- OneEvent
  ContractOf <- OneContract
  StatusOf <- Spelled
  TTL = 2
  MaxKept = 2
  MaxTime = 0
  MaxNotices = 2
INVARIANTS
  NeverNotifiedTwice
