SPECIFICATION FairSpec
CONSTANTS
  Profiles <- TwoProfiles
  InitialProfile = "navigation"
  Faults <- AllFaults
  MaxGeneration = 3
PROPERTIES
  ShutdownEnds
CHECK_DEADLOCK FALSE
