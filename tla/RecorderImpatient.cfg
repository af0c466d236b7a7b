SPECIFICATION Spec
CONSTANTS
  None = None
  Apps = {a1, a2}
  Ports = {1}
  Files = {f1, f2}
  Patient = FALSE
  MaxStarts = 2
  MaxCrashes = 1
  MaxFaults = 1
  MaxKids = 1
  MaxSize = 1
  MaxClock = 1
CHECK_DEADLOCK FALSE
SYMMETRY Interchangeable
INVARIANTS
  TypeOK
  StartsHaveStatics
  
  
  NoEntryWithoutLog
