SPECIFICATION FairSpec
CONSTANTS
  Timeout <- ShortTimeouts
  Period = 1
  ClearDelay = 1
  SlowSpeed = 1
  AllowManualEscape = TRUE
  Twists <- WithLidar
  Modes = {"manual", "nav"}
  Topics = {"estop", "sensor_fault", "person_estop", "override", "person_slow"}
INVARIANTS
  SelectedDrives
  PersonSlows
PROPERTIES
  NoEarlyRestart
  StopEnds
