CONSTANTS
  Keys = {k1, k2}
  Values = {v1}
  None = None
  Threads = {t1, t2}
  TTLs = {1}
  LruMaxItems = 1
  HardMaxItems = 1
  MaxClock = 1
  RuleLists <- SomeRules
  Backends = {"redis", "mongodb"}
  MaxFailures = 1
  MaxRestarts = 1
SPECIFICATION HSpec
SYMMETRY KeyTaskSymmetry
CONSTRAINT OneEvent
INVARIANTS
  PTypeOK
  UndisturbedAgree
  HardExact
  DocumentsBounded
