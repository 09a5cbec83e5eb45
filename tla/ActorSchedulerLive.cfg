SPECIFICATION FairSpec
CONSTANTS
  Actors = {a1}
  Workers = {w1, w2}
  Senders = {s1}
  Main = main
  None = None
  MaxBatch = 1
  MaxRounds = 2
  MaxSends = 3
  DrainUnregister = FALSE
PROPERTIES MessagesHandled StopTerminates
CHECK_DEADLOCK FALSE
