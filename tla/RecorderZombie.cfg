SPECIFICATION Spec
CONSTANTS
  None = None
  Apps = {a1, a2}
  Ports = {1}
  Files = {f1}
  Patient = FALSE
  MaxStarts = 1
  MaxCrashes = 0
  MaxFaults = 0
  MaxKids = 0
  MaxSize = 0
  MaxClock = 0
CHECK_DEADLOCK FALSE
INVARIANT
  StopStops
