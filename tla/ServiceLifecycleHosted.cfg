CONSTANTS
  Requests = {r1}
  HostScope = host
  Root = root
  Singletons = {p}
  Scoped = {}
  Transients = {t}
  MaxNodes = 2
  WithHostScope = TRUE
  WithParticipant = TRUE
  None = None
SPECIFICATION Spec
PROPERTIES
  ShutdownTerminates
  RequestsReturn
CHECK_DEADLOCK FALSE
