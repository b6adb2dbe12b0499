CONSTANTS
  MaxAttempts = 2
  StartSets = 2
  BatchSize = 2
  MaxTicks = 2
SPECIFICATION Spec
INVARIANTS
  TypeOK
  StepCompletes
PROPERTIES
  RepliesAreOwn
  StartupEnds
CHECK_DEADLOCK FALSE
