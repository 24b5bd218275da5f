SPECIFICATION FairSpec
CONSTANTS
  N = 1
  Route <- RetryRoute
  MaxNavRetries = 1
  MaxBlockedRetries = 1
  RequireLocalization = FALSE
  Loops = {FALSE}
  Controls = {"pause", "resume", "cancel"}
  Signals = {"estop", "obstacle", "sensor_fault"}
  RetryCap = 2
  FailCap = 0
  MaxLaps = 0
PROPERTIES
  CancelDuringGoalEnds
  ComesToRest
