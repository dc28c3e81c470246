CONSTANTS
  Worker = {w1}
  Call = {c1, c2}
  Adopts = TRUE
  MayDelete = FALSE
  Untiring = {w1}
  MaxRuns = 2
  MaxLog = 6
  MaxFaults = 3
SPECIFICATION FairSpec
INVARIANTS
  CompletedIsFinished
PROPERTIES
  Recovers
