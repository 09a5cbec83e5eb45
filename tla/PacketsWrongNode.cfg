SPECIFICATION Spec
CONSTANTS
  Nodes = {n1, n2}
  Fds <- TwoFds
  Conns <- TwoConns
  Dialed = {n1}
  Faults = {"fin", "rst", "refuse"}
  Garbage = 2
  MaxEvents = 2
  None = None
INVARIANT PacketsReachTheirNode
CHECK_DEADLOCK FALSE
