CONSTANTS
  ScopeLists <- AllScopes
  MaxOperations = 2
  Compensable = {1, 2}
  Nested = {n1, n2}
  DetachedNested = TRUE
  WaitsForObservers = TRUE
SPECIFICATION Spec
CONSTRAINT SecondNestedBesideSilentScopes
SYMMETRY NestedSymmetry
INVARIANTS
  CompensatesUncommittedOrObserved
  RecoveryIsComplete
  SuccessIsWhole
  NestedFailureDiscardsBatch
  FirstFailureKept
PROPERTIES
  NothingStartsAfterCancel
CHECK_DEADLOCK FALSE
