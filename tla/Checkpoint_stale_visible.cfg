CONSTANTS
  a = a
  b = b
  e1 = e1
  e2 = e2
  e3 = e3
  s1 = s1
  s2 = s2
  NoEvent = NoEvent
  EventId = {e1, e2}
  Caller = {a, b}
  Service = {s1, s2}
  ServiceOf <- TwoServices
  MaxEvents = 2
  MaxAttempts = 2
  MaxCalls = 1
  Creators = {}
  Deleters = {}
  MaxPuts = 0
  DeleteRounds = 1
  MaxCancels = 0
  MaxCrashes = 0
  AppendListed = FALSE
SPECIFICATION Spec
SYMMETRY Symmetry
INVARIANTS
  StaleMeansInvisible
