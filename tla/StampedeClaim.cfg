CONSTANTS
  None = None
  Threads = {t1, t2}
  Keys = {"profile"}
  Requests = {"get_profile"}
  NoneRequests = {}
  ProgrammaticKeys = {}
  TTLs = {1}
  Malformed = {}
  MaxVersion = 0
  MaxClock = 0
  MaxCalls = 2
  Values <- MCValues
  KeyOf <- MCKeyOf
  Scopes <- MCScopes
  ScopeOf <- MCScopeOf
  Covers <- MCCovers
SPECIFICATION HSpec
INVARIANT NoStampede
