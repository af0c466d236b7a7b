SPECIFICATION FairSpec
CONSTANTS
  Clients = {c1, c2}
  None = None
  MaxReaders = 2
  MaxLines = 2
  MaxKills = 1
  MaxFaults = 1
CHECK_DEADLOCK FALSE

  
  
PROPERTIES
  LinesShown
  ReaderEnds
