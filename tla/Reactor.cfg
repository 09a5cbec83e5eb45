SPECIFICATION FairSpec
CONSTANTS
  Senders = {w1, w2}
  Size = 2
  Room = 1
  MaxRecv = 1
  SubLoops = {TRUE, FALSE}
INVARIANTS BytesInOrder NoLostTask Lifecycle BufferedIsWatched
PROPERTIES BufferDrains CloseIsNoticed LoopEnds
CHECK_DEADLOCK FALSE
