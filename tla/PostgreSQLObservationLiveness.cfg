CONSTANTS
  Sessions = {s1}
  MaxRetries = 1
  MaxEntries = 1
  MaxConnections = 3
  MaxVersion = 2
  MaxFailures = 1
  None = None
SPECIFICATION Spec
PROPERTIES
  ImplementsLiveQuery
  CurrentSettles
  DisposalEnds
CHECK_DEADLOCK FALSE
