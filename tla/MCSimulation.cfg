CONSTANTS
  NumEntities = 3
  Flying <- MCFlying
  Commanded <- MCCommanded
  Cooperating <- MCCooperating
  Dt = 2
  SettleDuration = 3
  MaxTick = 3
  NoLimit = NoLimit
SPECIFICATION Spec
INVARIANTS
  TypeOK
  Lockstep
  ReportsAreOfTheirTick
  NobodyLeftOut
PROPERTIES
  DeadStaysDead
  BoundedRunIsExact
  ImplementsFleet
  ShutdownEndsTheRun
CHECK_DEADLOCK FALSE
