SPECIFICATION Spec
CONSTANTS
  N = 2
  Route <- PatientRoute
  MaxNavRetries = 1
  MaxBlockedRetries = 1
  RequireLocalization = TRUE
  Loops = {FALSE}
  Controls = {"resume", "cancel"}
  Signals = {"estop", "obstacle", "sensor_fault", "localization"}
  RetryCap = 2
  FailCap = 1
  MaxLaps = 0
INVARIANTS
  ParkedIsResumable
  ClearNotLost
