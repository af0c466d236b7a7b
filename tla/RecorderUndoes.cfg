SPECIFICATION FairSpec
CONSTANTS
  None = None
  Apps = {a1, a2}
  Ports = {1}
  Files = {f1}
  Patient = TRUE
  MaxStarts = 3
  MaxCrashes = 0
  MaxFaults = 1
  MaxKids = 1
  MaxSize = 0
  MaxClock = 0
CHECK_DEADLOCK FALSE
PROPERTIES
  StopIsComplete
  FailedStartIsUndone
