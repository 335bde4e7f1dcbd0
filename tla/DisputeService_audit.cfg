SPECIFICATION Spec
CONSTANTS
  c1 = c1
  c2 = c2
  c3 = c3
  c4 = c4
  d1 = d1
  d2 = d2
  Calls <- ThreeCalls
  Disputes <- OneDispute
  TicksPerDay = 1
  SlaDays = 1
  MaxTime = 0
SYMMETRY Symmetric
INVARIANTS
  EveryTransitionAudited
