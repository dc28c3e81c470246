CONSTANTS
  Worker = {w1, w2}
  Call = {c1}
  Adopts = FALSE
  MayDelete = FALSE
  Untiring = {}
  MaxRuns = 2
  MaxLog = 4
  MaxFaults = 0
SPECIFICATION Spec
SYMMETRY Symmetry
INVARIANTS
  AnsweredOnce
CHECK_DEADLOCK FALSE
