CONSTANTS
  Worker = {w1, w2}
  Call = {c1, c2}
  Adopts = FALSE
  MayDelete = TRUE
  Untiring = {}
  MaxRuns = 2
  MaxLog = 4
  MaxFaults = 1
SPECIFICATION Spec
SYMMETRY Symmetry
INVARIANTS
  TypeOK
  IInv
  FailureIsExplained
  AnswersAreHuman
  AwaitedCallsAreRequested
CHECK_DEADLOCK FALSE
