SPECIFICATION Spec
CONSTANTS
  Addr = {p, q, r}
  Handle = {u, v}
  Symbol = {a}
  Connectives <- ConnectivesPerBackend
  Null = null
  MaxLeaks = 0
  Backend = {"msat"}
  MaxAssertions = 2
  MaxLevel = 1
  MaxAssumptions = 2
  AssumesAnyFormula = TRUE
  NegatesConjunctions = FALSE
SYMMETRY Symmetry
INVARIANT AnswersAreRight
