SPECIFICATION Chain
CONSTANTS
  Timeout <- NoTimeout
  Period = 1
  ClearDelay = 0
  SlowSpeed = 1
  AllowManualEscape = TRUE
  Twists <- Drivers
  Modes = {"manual"}
  Topics = {"estop", "sensor_fault", "override"}
  Sensors = {"scan", "odometry"}
  Limit <- ScanAndOdometry
  Grace = 1
  CheckPeriod = 2
  Views <- SameWindow
  FrontDistance = 2
  SlowDistance = 4
  WarningDistance = 2
  ClearDistance = 3
  AllowForward = FALSE
  TurnInSlow = FALSE
  PublishEstop = TRUE
  EnableControl = TRUE
  LinearSpeed = 1
  TurnSpeed = 0
  MaxLinear = 1
  MaxAngular = 1
INVARIANTS
  SilenceStops
  BlockedWayHolds
