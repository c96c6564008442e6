SPECIFICATION CheckingSpec
CONSTANTS
  Inputs = {i1, i2}
  MaxDepth = 3
  MaxForced = 1
  Asserted = {}
  AssertedAt = {}
  Failing = {{i1}}
  FailingAt = {"root", "inner", "exit"}
  Tree <- MCTree
  Programs <- AllPrograms
PROPERTIES
  PrunesOnlyInfeasible
