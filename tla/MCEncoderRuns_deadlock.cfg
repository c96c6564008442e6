SPECIFICATION Spec
CONSTANTS
  Programs <- ImmediateDeadlocks
INVARIANTS
  EveryDeadlockIsFound
CHECK_DEADLOCK FALSE
