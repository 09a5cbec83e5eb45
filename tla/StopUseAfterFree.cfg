SPECIFICATION Spec
CONSTANTS
  Actors = {a1, a2}
  Workers = {w1, w2}
  Senders = {s1}
  Main = main
  None = None
  MaxBatch = 2
  MaxRounds = 2
  MaxSends = 1
  DrainUnregister = TRUE
CHECK_DEADLOCK FALSE
INVARIANT NoUseAfterFree
