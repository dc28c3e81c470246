CONSTANTS
  a = a
  b = b
  e1 = e1
  e2 = e2
  e3 = e3
  s1 = s1
  s2 = s2
  NoEvent = NoEvent
  EventId = {e1, e2}
  Caller = {a, b}
  Service = {s1, s2}
  ServiceOf <- TwoServices
  MaxEvents = 2
  MaxAttempts = 1
  MaxCalls = 2
  Creators = {}
  Deleters = {b}
  MaxPuts = 2
  DeleteRounds = 2
  MaxCancels = 0
  MaxCrashes = 0
  AppendListed = FALSE
SPECIFICATION Spec
SYMMETRY Symmetry
INVARIANTS
  FullInv
  CurrentCopiesAreTrue
PROPERTIES
  TombstoneIsFinal
  HistoryKept
