SPECIFICATION Spec
CONSTANTS
  None = None
  Apps = {a1, a2}
  Ports = {1, 2}
  Files = {f1, f2}
  Patient = TRUE
  MaxStarts = 3
  MaxCrashes = 1
  MaxFaults = 2
  MaxKids = 1
  MaxSize = 0
  MaxClock = 1
CHECK_DEADLOCK FALSE
SYMMETRY Interchangeable
INVARIANTS
  NothingLeftBehind
  RedirectIsShown
  ReadersBelongToService
  
PROPERTY
  RedirectGoesFirst
