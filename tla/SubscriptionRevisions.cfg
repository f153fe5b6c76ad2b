CONSTANTS
  QueryIds = {q1, q2, q3}
  RequestKeys = {a, b}
  None = None
  MaximumTombstones = 1
  RetentionMs = 2
  MaxRevision = 2
  MaxTime = 3
  MaxInsertions = 4
SPECIFICATION RevisionsSpec
INVARIANTS
  TombstoneBound
  LateSubscribeRefused
PROPERTIES
  RevisionPrecedence
CHECK_DEADLOCK FALSE
