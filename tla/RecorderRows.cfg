SPECIFICATION Spec
CONSTANTS
  None = None
  Apps = {a1, a2}
  Ports = {1}
  Files = {f1}
  Patient = TRUE
  MaxStarts = 2
  MaxCrashes = 0
  MaxFaults = 0
  MaxKids = 0
  MaxSize = 0
  MaxClock = 1
CHECK_DEADLOCK FALSE
INVARIANT
  OneRowUpdated
