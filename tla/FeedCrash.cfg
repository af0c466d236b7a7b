SPECIFICATION Spec
CONSTANTS
  Clients = {c1, c2}
  None = None
  MaxReaders = 1
  MaxLines = 2
  MaxKills = 1
  MaxFaults = 0
CHECK_DEADLOCK FALSE
INVARIANT
  OnlyDeadClientsFail
