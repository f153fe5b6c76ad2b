CONSTANTS
  Sessions = {s1, s2}
  MaxRetries = 1
  MaxEntries = 2
  MaxConnections = 3
  MaxVersion = 1
  MaxFailures = 1
  None = None
SPECIFICATION Safety
INVARIANTS
  NoMissedChange
  OneSocket
  NoLeakedConnection
  DrainedOnDisposal
PROPERTIES
  FreshHandouts
SYMMETRY SessionSymmetry
CHECK_DEADLOCK FALSE
