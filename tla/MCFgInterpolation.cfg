CONSTANTS
  Stepped = FALSE
  Period = 5
  Dt = 5
  MaxWork = 2
  Converge = 3
  Circle = 14
  Speeds <- MCSpeeds
  TurnRates <- MCTurnRates
  None = None
  MaxCalls = 1
  MaxNow = 13
SPECIFICATION Spec
INVARIANTS
  TypeOK
  FramesAreCurrent
  BlendIsDirect
PROPERTIES
  NoSnapBack
  ThreadsEnd
CHECK_DEADLOCK FALSE
