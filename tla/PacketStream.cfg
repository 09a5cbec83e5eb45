SPECIFICATION FairStreamSpec
CONSTANTS
  Byte <- MCByte
  Zero = 0
  Prepend = 2
  InitialSize = 40
  Base = 3
  MaxBody = 26
  Packets <- MCPackets
  MaxSent = 3
  Room = 30
  RecvSize = 26
  MaxMail = 2
PROPERTIES ImplementsByteQueue ImplementsPacketChannel NothingStuck
CHECK_DEADLOCK FALSE
