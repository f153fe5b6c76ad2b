CONSTANTS
  QueryIds = {q1, q2}
  RequestKeys = {a}
  None = None
  MaximumTombstones = 1
  RetentionMs = 1
  MaxRevision = 2
  MaxTime = 0
  MaxGenerations = 2
  HubSubscriptionsPerConnection = 1
  MaxInsertions = 3
  Stuck = {1}
SPECIFICATION Safety
INVARIANTS
  MapMatchesTable
  NoOrphanSession
PROPERTIES
  FramesAreCurrent
SYMMETRY QueryIdSymmetry
CHECK_DEADLOCK FALSE
