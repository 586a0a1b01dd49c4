CONSTANTS
  None = None
  ExtraParams = TRUE
  ProgrammaticNames = {"settings"}
  IntegerKeys = {}
  Arguments = {"a", "handle"}
  Unpicklable = {"handle"}
  TTLs = {0, 60}
  MaxEntries = 2
  MaxRestarts = 0
  Tokens <- MCTokens
  Configs <- OnlyTwoTrees
  ValueTexts <- Identifiers
  Functions <- MCFunctions
  Positional <- MCPositional
SPECIFICATION Spec
INVARIANT
  ScopeIsolation
