CONSTANTS
  QueryIds = {q1}
  RequestKeys = {a}
  None = None
  MaximumTombstones = 1
  RetentionMs = 1
  MaxRevision = 1
  MaxTime = 1
  MaxGenerations = 2
  HubSubscriptionsPerConnection = 1
  MaxInsertions = 2
  Stuck = {2}
SPECIFICATION Spec
PROPERTIES
  SlotReleased
  SessionsReleased
CHECK_DEADLOCK FALSE
