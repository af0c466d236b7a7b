SPECIFICATION FairSpec
CONSTANTS
  Conns = {c1, c2, c3, c4}
  Parent = Parent
  None = None
  Limit = 3
  MaxFaults = 1
CHECK_DEADLOCK FALSE
INVARIANTS
  TypeOK
  HeldByOwnChild
  KeepsFailedOnly
  ExitHasReason
PROPERTIES
  Answered
  ZombiesReaped
