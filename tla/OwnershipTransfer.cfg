SPECIFICATION FairSpec
CONSTANTS
  c1 = c1
  c2 = c2
  c3 = c3
  c4 = c4
  t1 = t1
  t2 = t2
  Calls <- FourCalls
  TransferIds <- OneTransfer
  Deals <- TwoDeals
INVARIANTS
  MutualExclusion
  WinnerIsStored
PROPERTIES
  Fifo
  ImplementsAtomicTransfer
  EveryCallAnswered
