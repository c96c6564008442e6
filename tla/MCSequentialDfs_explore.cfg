SPECIFICATION FairSpec
CONSTANTS
  Inputs = {i1, i2}
  MaxDepth = 3
  MaxForced = 1
  Asserted = {{i1}}
  AssertedAt = {"root", "inner"}
  Failing = {{i1}}
  FailingAt = {"inner", "exit"}
  Tree <- MCTree
  Programs <- AllPrograms
INVARIANTS
  TypeOK
  GuardsCharacteriseRun
  ReplayFollowsFlips
  ReportsEveryError
  NoFalseAlarm
PROPERTIES
  ExploresEveryFeasiblePathOnce
  Terminates
