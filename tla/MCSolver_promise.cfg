SPECIFICATION Spec
CONSTANTS
  Addr = {p, q, r}
  Handle = {u, v}
  Symbol = {a}
  Connectives <- ConnectivesPerBackend
  Null = null
  MaxLeaks = 1
  Backend = {"z3", "msat", "stp", "cvc4", "deduce"}
  MaxAssertions = 2
  MaxLevel = 1
  MaxAssumptions = 2
  AssumesAnyFormula = FALSE
  NegatesConjunctions = FALSE
SYMMETRY Symmetry
INVARIANTS TypeOK RefCountsExact EqualsAreOne CacheCoherent BackEndInStep
PROPERTY SolverKeepsPromise
