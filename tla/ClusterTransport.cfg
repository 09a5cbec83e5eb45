SPECIFICATION FairSpec
CONSTANTS
  Nodes = {n1, n2}
  Fds <- TwoFds
  Conns <- TwoConns
  Dialed = {n1}
  Faults = {"fin", "rst", "refuse"}
  Garbage = 2
  MaxEvents = 2
  None = None
INVARIANTS MapsAgree MappedIsServed AliveIsMapped
PROPERTY ClosedIsForgotten
CHECK_DEADLOCK FALSE
