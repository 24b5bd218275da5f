SPECIFICATION Spec
CONSTANTS
  N = 2
  Tasks <- Visual
  MaxMissions = 2
  MaxFresh = 1
  MaxDisturbed = 1
  Starts <- Fresh
  Loops <- Once
  Callbacks <- All
INVARIANTS
  RowIsBacked
  ToldIsStored
  ChainIsCovered
  NothingIsForgotten
  CompletionIsEvidenced
