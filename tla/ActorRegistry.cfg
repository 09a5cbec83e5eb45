SPECIFICATION RegistrySpec
CONSTANTS
  a1 = a1
  a2 = a2
  a3 = a3
  Actors = {a1, a2, a3}
  Pairs <- MCPairs
  Names = {n1, n2}
  Threads = {p1, p2}
  NoActor = NoActor
  NoName = NoName
SYMMETRY Sym
INVARIANTS ReverseNames WatchersInformed UnlinkedIsQuiet
CHECK_DEADLOCK FALSE
