CONSTANTS
  Keys = {k1, k2}
  Values = {v1}
  None = None
  Threads = {t1, t2}
  TTLs = {1}
  LruMaxItems = 1
  HardMaxItems = 1
  MaxClock = 0
  RuleLists <- OnlyLru
SPECIFICATION Spec
INVARIANT
  LruCapacity
