CONSTANTS
  e1 = e1  e2 = e2  s1 = s1  s2 = s2  k1 = k1  k2 = k2
  Merger = {m1, m2, m3}
  ScopedEvent = {e1, e2}
  ScopedSession = {s1, s2}
  ScopedKey = {k1, k2}
  SessionOfEvent <- SessionOf
  Touches <- TouchedKeys
  MergeAttempts = 2
  MaxMergeSends = 3
  MaxMergeFaults = 1
  NoEvent = NoEvent
  EventKey = {r1, r2, r3}
  NoKey = NoKey
  Missing = Missing
  MaxCount = 3
  NoLimit = NoLimit
  PageSize = 2
  MaxRows = 3
  MaxAdded = 2
  Path = {p1, p2}
  Content = {x, y}
  NoFile = NoFile
  Protected = {}
  MaxVersion = 2
  MaxEdits = 2
  MaxFails = 1
  EditsInClone = TRUE
  QueueCaller = {q1, q2}
  ScriptCaller = sc
  ClaimRef = {claim1, claim2}
  MaxQueueCalls = 2
  MaxQueueFails = 1
  Publisher = {pub1, pub2}
  MaxRaises = 1
  Caller = {c1, c2}
  Buffer = 1
  Lifetimes = {1, 2}
  MaxTime = 4
  MaxTokenCalls = 3
  MaxAuthFails = 1
  Thread = {t1, t2}
  Org = {"a"}
  MaxAsked = 3
  MaxInits = 3
  MaxMishaps = 2
SPECIFICATION Spec
INVARIANTS
  ReturnedMeansMerged EveryRefusalIsAWrite
  EventsAreWholeOrRefused FilteredReadIsTheTail WalkIsComplete
  PushGapIsExplained ScriptNeverFails
  NoCardBehindALoss ExampleLeavesNothing
  RefusedPushHoldsNoJobs SeededJobsHaveChecklists 
  FetchIsShared ClosedAgainOnlyAfterARaise ExitLeavesOnlyOrphans TracerIsOpen
PROPERTIES
  MergesTouchOnlyTheirKeys ExpiredTokensAreExplained ImplementsGetOrBuild
CHECK_DEADLOCK FALSE
