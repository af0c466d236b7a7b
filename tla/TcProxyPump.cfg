SPECIFICATION FairSpec
CONSTANTS
  BufSize = 2
  MaxSent <- Sends
  MaxBlocks = 1
  MaxFaults = 1
CHECK_DEADLOCK FALSE
INVARIANTS
  TypeOK
  BytesInOrder
  ExitHasCause
PROPERTIES
  TapsStream
  Forwarded
