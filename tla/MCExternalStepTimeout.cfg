CONSTANTS
  Commands <- MCCommands
  Garbage = Garbage
  NoLine = NoLine
  DtNs = 15
  DtUs = 2
  NsPerUs = 10
  MaxRequests = 3
SPECIFICATION Spec
INVARIANT RespondsAfterFinish
CHECK_DEADLOCK FALSE
