CONSTANTS
  None = None
  ExtraParams = FALSE
  ProgrammaticNames = {"7", "settings"}
  IntegerKeys = {"7"}
  Arguments = {"a", "handle"}
  Unpicklable = {"handle"}
  TTLs = {0, 60}
  MaxEntries = 3
  MaxRestarts = 1
  Tokens <- MCTokens
  Configs <- BothConfigs
  ValueTexts <- Identifiers
  Functions <- MCFunctions
  Positional <- MCPositional
SPECIFICATION Spec
VIEW WithoutAnswer
INVARIANTS
  TypeOK
  KeysParse
  HierarchyAgrees
PROPERTY
  ImplementsScopedStore
