CONSTANTS
  Stepped = TRUE
  Period = 5
  Dt = 5
  MaxWork = 2
  Converge = 3
  Circle = 12
  Speeds <- MCSpeeds
  TurnRates <- MCTurnRates
  None = None
  MaxCalls = 3
  MaxNow = 13
SPECIFICATION Spec
INVARIANT FramesAreCurrent
CHECK_DEADLOCK FALSE
