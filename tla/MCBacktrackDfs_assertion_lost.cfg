SPECIFICATION Spec
CONSTANTS
  Inputs = {i1, i2}
  MaxDepth = 3
  MaxForced = 0
  Asserted = {{i1}}
  AssertedAt = {"root", "inner", "exit"}
  Failing = {}
  FailingAt = {}
  Tree <- MCTree
  Programs <- AllPrograms
INVARIANTS
  MissesNoFeasiblePath
