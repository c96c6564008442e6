SPECIFICATION Spec
CONSTANT Programs <- AllPrograms
INVARIANTS GuardsFollowNesting EveryRaceIsFound RacesAreReal
CHECK_DEADLOCK FALSE
