CONSTANTS
  Keys = {k1, k2}
  Values = {v1}
  None = None
  Threads = {t1, t2}
  TTLs = {1}
  LruMaxItems = 1
  HardMaxItems = 1
  MaxClock = 1
  RuleLists <- SingleRules
SPECIFICATION FairSpec
PROPERTY
  PhantomsHeal
