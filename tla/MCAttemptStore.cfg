CONSTANTS
  Clients = {c1}
  EventIds = {e1, e2}
  MaxTime = 1
  MaxAdvice = 2
SYMMETRY EventSymmetry
SPECIFICATION Spec
INVARIANTS
  RecordAgreesWithLogs
  OneHistory
  FactsAreDistinctAndBeforeCompletion
PROPERTIES
  FactsAreKept
  ReadsAreSnapshots
