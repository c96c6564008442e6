SPECIFICATION Spec
CONSTANTS
  Programs <- AllPrograms
INVARIANTS
  EveryRunIsASolution
  EveryLaterDeadlockIsFound
CHECK_DEADLOCK FALSE
