CONSTANTS
  Flying = {e1, e2}
  Configs <- MCConfigs
  None = None
  Second = 2
  StaleAfter = 2
  Grace = 1
  ProbeTimeout = 2
  StepTimeout = 5
  MaxStall = 9
  MaxNow = 12
SPECIFICATION Spec
INVARIANTS
  TypeOK
  AllOrNothing
PROPERTIES
  HealthyMeansAlive
  UnhealthyMeansTrouble
  ShutdownEndsTheProcess
CHECK_DEADLOCK FALSE
