CONSTANTS
  MaxAttempts = 2
  StartSets = 2
  BatchSize = 2
  MaxTicks = 2
SPECIFICATION Spec
INVARIANT
  IgnoredFailureIsHarmless
CHECK_DEADLOCK FALSE
