CONSTANTS
  Requests = {r1, r2}
  HostScope = host
  Root = root
  Singletons = {p, q}
  Scoped = {x}
  Transients = {}
  MaxNodes = 2
  WithHostScope = FALSE
  WithParticipant = FALSE
  None = None
SPECIFICATION Safety
INVARIANTS
  DisposedOnce
  NotDisposedInUse
  DependentsFirst
  NoCircularWait
SYMMETRY RequestAndTokenSymmetry
CHECK_DEADLOCK FALSE
