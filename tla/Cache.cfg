CONSTANTS
  None = None
  Threads = {t1, t2}
  Keys = {"profile", "empty", "note", "host"}
  Requests = {"get_profile", "get_empty", "positional"}
  NoneRequests = {"get_empty"}
  ProgrammaticKeys = {"note", "host"}
  TTLs = {0, 1}
  Malformed = {"host"}
  MaxVersion = 1
  MaxClock = 1
  MaxCalls = 3
  Values <- MCValues
  KeyOf <- MCKeyOf
  Scopes <- MCScopes
  ScopeOf <- MCScopeOf
  Covers <- MCCovers
SPECIFICATION HFairSpec
INVARIANTS
  HTypeOK
  CountersExact
  CountersNotInflated
  OnlyNoneRecomputed
PROPERTIES
  RemovedExact
  ScopeEvictionComplete
  ScopeEvictionEnds
