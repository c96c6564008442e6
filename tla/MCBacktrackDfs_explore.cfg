SPECIFICATION FairSpec
CONSTANTS
  Inputs = {i1, i2, i3}
  MaxDepth = 3
  MaxForced = 0
  Asserted = {{i1}}
  AssertedAt = {"root"}
  Failing = {{i1}}
  FailingAt = {"exit"}
  Tree <- MCTree
  Programs <- AllPrograms
INVARIANTS
  TypeOK
  CodeAssertions
  ReplayFollowsFlips
  ReportsEveryError
  NoFalseAlarm
PROPERTIES
  ExploresEveryFeasiblePathOnce
  Terminates
