CONSTANTS
  Keys = {k1, k2}
  Values = {v1}
  None = None
  Threads = {t1}
  TTLs = {1}
  LruMaxItems = 1
  HardMaxItems = 1
  MaxClock = 0
  RuleLists <- OnlyMax
SPECIFICATION Spec
INVARIANT
  HardLimit
