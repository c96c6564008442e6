SPECIFICATION Spec
CONSTANTS
  Inputs <- Bits
  Conditions <- TestedBits
  Statements = {"write", "send"}
  Hints = {FALSE}
  MaxCalls = 5
  MaxBranches = 2
  MaxThreads = 2
  MaxNesting = 1
  LateScopes = FALSE
INVARIANTS
  TypeOK
  EventGuardsExact
  PathGuardExact
  ErrorsExact
  SharedIdentifiers
  DominatorsDominate
  ExploresEveryPathOnce
