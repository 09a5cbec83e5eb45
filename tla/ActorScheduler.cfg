SPECIFICATION Spec
CONSTANTS
  Actors = {a1, a2}
  Workers = {w1, w2}
  Senders = {s1}
  Main = main
  None = None
  MaxBatch = 2
  MaxRounds = 2
  MaxSends = 3
  DrainUnregister = FALSE
SYMMETRY Sym
INVARIANTS SerialProcessing NoLostWakeup StopDrains
PROPERTY ImplementsSerialActors
CHECK_DEADLOCK FALSE
