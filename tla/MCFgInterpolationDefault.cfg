CONSTANTS
  Stepped = FALSE
  Period = 2
  Dt = 2
  MaxWork = 1
  Converge = 3
  Circle = 12
  Speeds <- MCSpeeds
  TurnRates <- MCTurnRates
  None = None
  MaxCalls = 1
  MaxNow = 13
SPECIFICATION Spec
PROPERTY NoSnapBack
CHECK_DEADLOCK FALSE
