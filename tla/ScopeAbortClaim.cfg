CONSTANTS
  None = None
  Threads = {t1}
  Keys = {"note", "host"}
  Requests = {}
  NoneRequests = {}
  ProgrammaticKeys = {"note", "host"}
  TTLs = {1}
  Malformed = {"host"}
  MaxVersion = 0
  MaxClock = 0
  MaxCalls = 3
  Values <- MCValues
  KeyOf <- MCKeyOf
  Scopes <- MCScopes
  ScopeOf <- MCScopeOf
  Covers <- MCCovers
SPECIFICATION HSpec
PROPERTY ScopeEvictsAll
