SPECIFICATION Spec
CONSTANTS
  Programs <- AllPrograms
INVARIANTS
  TypeOK
  DeadlockIsReal
  CriticalSectionsExclusive
  EncodingsAgree
PROPERTIES
  EverySolutionIsARun
CHECK_DEADLOCK FALSE
