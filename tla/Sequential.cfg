CONSTANTS
  Keys = {k1, k2, k3, k4}
  Values = {v1}
  None = None
  Threads = {t1}
  TTLs = {1, 2}
  LruMaxItems = 3
  HardMaxItems = 2
  MaxClock = 2
  RuleLists <- AllRuleLists
SPECIFICATION Spec
SYMMETRY KeySymmetry
INVARIANTS
  TypeOK
  TrackedIsStored
  StoredIsTracked
  LruBound
PROPERTIES
  OneStaleRead
  ImplementsLruCache
