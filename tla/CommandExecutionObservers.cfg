CONSTANTS
  ScopeLists <- ChronicleAlone
  MaxOperations = 1
  Compensable = {1}
  Nested = {}
  DetachedNested = FALSE
  WaitsForObservers = TRUE
SPECIFICATION Spec
INVARIANT CompensatesOnlyUncommitted
CHECK_DEADLOCK FALSE
