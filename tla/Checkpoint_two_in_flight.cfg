CONSTANTS
  a = a
  b = b
  e1 = e1
  e2 = e2
  e3 = e3
  s1 = s1
  s2 = s2
  NoEvent = NoEvent
  EventId = {e1, e2, e3}
  Caller = {a, b}
  Service = {s1}
  ServiceOf <- OneService
  MaxEvents = 2
  MaxAttempts = 1
  MaxCalls = 1
  Creators = {}
  Deleters = {}
  MaxPuts = 0
  DeleteRounds = 1
  MaxCancels = 1
  MaxCrashes = 0
  AppendListed = FALSE
SPECIFICATION LoopSpec
SYMMETRY SymmetryOneService
INVARIANTS
  OneCommitInFlight
