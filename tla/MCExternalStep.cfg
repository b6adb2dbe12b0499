CONSTANTS
  Commands <- MCCommands
  Garbage = Garbage
  NoLine = NoLine
  DtNs = 15
  DtUs = 2
  NsPerUs = 10
  MaxRequests = 3
SPECIFICATION Spec
INVARIANTS
  TypeOK
  ExecutedInOrder
  StampsDoNotDrift
PROPERTIES
  ImplementsStepService
  ShutdownCompletes
  EveryRequestAnswered
CHECK_DEADLOCK FALSE
