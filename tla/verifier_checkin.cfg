SPECIFICATION Spec
CONSTANTS
  Requests <- BothMethods
  PoseMaxAge = 1
  MotionMaxAge = 0
  FrameMaxAge = 1
  Period = 1
  FrameCache = 2
  MaxFrames = 4
INVARIANTS
  ProofIsConsecutive
PROPERTIES
  ServesGoals
  LossRestartsDwell
