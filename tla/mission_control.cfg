SPECIFICATION Spec
CONSTANTS
  N = 2
  Route <- PatientRoute
  MaxNavRetries = 1
  MaxBlockedRetries = 1
  RequireLocalization = FALSE
  Loops = {TRUE, FALSE}
  Controls = {"pause", "resume", "cancel", "action_cancel"}
  Signals = {"estop"}
  RetryCap = 2
  FailCap = 0
  MaxLaps = 1
INVARIANTS
  StopCancelsGoal
  PausedIsStill
  ParkedIsHeld
  OutcomeAgrees
  Accounting
PROPERTIES
  KeepsPromise
  
