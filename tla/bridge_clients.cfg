SPECIFICATION Spec
CONSTANTS
  a = a
  b = b
  Sessions <- TwoClients
  NavGoals <- Two
  Missions <- Three
  Consoles <- One
  NewsCap = 1
SYMMETRY ClientSymmetry
INVARIANTS
  GoalIsKnown
  PatrolIsKnown
PROPERTIES
  ChecksSeeMotion
CHECK_DEADLOCK FALSE
