SPECIFICATION Spec
CONSTANTS
  n1 = n1
  n2 = n2
  a1 = a1
  a2 = a2
  b1 = b1
  client = client
  service = service
  None = None
  Nodes = {n1, n2}
  Actors = {a1, a2, b1}
  Names = {client, service}
  Moving = {client}
  Home <- MCHome
  AtStart <- MCAtStart
  Callable <- MCCallable
  Transports = 2
  MaxRequests = 2
  MaxCalls = 2
  MaxReplies = 2
  MaxNamings = 1
  MaxRestarts = 1
INVARIANTS NoInterference HandledOnce NeverStranded
CHECK_DEADLOCK FALSE
