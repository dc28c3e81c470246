CONSTANTS
  Worker = {w1, w2}
  Call = {c1}
  Adopts = FALSE
  MayDelete = FALSE
  Untiring = {}
  MaxRuns = 3
  MaxLog = 4
  MaxFaults = 0
SPECIFICATION Spec
SYMMETRY Symmetry
INVARIANTS
  CompletedIsFinished
CHECK_DEADLOCK FALSE
