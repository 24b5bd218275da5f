SPECIFICATION FairSpec
CONSTANTS
  a = a
  b = b
  None = None
  Sessions <- BothSessions
  Timeout = 4
  Period = 2
  MaxLag = 2
INVARIANTS
  FreshMoveHasHolder
PROPERTIES
  HolderKeeps
  SilentLosesLease
