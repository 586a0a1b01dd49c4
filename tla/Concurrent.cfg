CONSTANTS
  Keys = {k1, k2, k3}
  Values = {v1}
  None = None
  Threads = {t1, t2}
  TTLs = {1}
  LruMaxItems = 1
  HardMaxItems = 1
  MaxClock = 1
  RuleLists <- UpToTwoRules
SPECIFICATION Spec
SYMMETRY KeyThreadSymmetry
INVARIANTS
  TrackedIsStored
  HardOvershoot
