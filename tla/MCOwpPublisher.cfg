CONSTANTS
  NumPlatforms = 2
  HasRoute = TRUE
  Capacity = 2
  PositionPeriod = 2
  PeriodicPeriod = 3
  MinInterval = 1
  InitialDelay = 2
  MaxDelay = 5
  MaxTick = 4
SPECIFICATION Spec
INVARIANTS
  TypeOK
  EveryPeriodIsReported
  BackoffIsLinear
PROPERTIES
  ReportsMoveForward
  DeadlinesDoNotDrift
  DropReturns
CHECK_DEADLOCK FALSE
