SPECIFICATION FairSpec
CONSTANTS
  Profiles <- TwoProfiles
  InitialProfile = "idle"
  Faults <- LaunchFaults
  MaxGeneration = 4
INVARIANTS
  ExclusiveProfiles
  RestIsTold
PROPERTIES
  EndIsFinal
  TransitionEnds
CHECK_DEADLOCK FALSE
