SPECIFICATION Spec
CONSTANTS
  Requests <- Tasks
  Payloads <- Reports
  AllowAbsent = TRUE
  Endpoint = TRUE
  Settle = 2
  CaptureTimeout = 2
  Window = 1
  MaxAge = 1
  Period = 1
  ImageCache = 1
  DetectionCache = 2
  MaxShots = 3
INVARIANTS
  EvidenceIsOwn
  TrustedIsStored
PROPERTIES
  ServesGoals
  VerdictRests
