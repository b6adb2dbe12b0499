CONSTANTS
  Packets <- MCPackets
  Malformed = Malformed
  Positions <- MCPositions
  NumWaypoints = 2
  BearingTo <- MCBearingTo
  Near <- MCNear
  Circle = 6
  HdgTolerance = 1
  MaxHdgLead = 1
  MaxAltLead = 1
  SettleTicks = 1
  Timeout = 1
  MaxQueue = 2
  Unset = Unset
SPECIFICATION Spec
INVARIANTS
  TypeOK
  SuppressionIsSound
  AutopilotTracks
  NoOffsetOutsideManual
PROPERTIES
  ManualHeadingIsNearest
  LinkLossReturnsControl
CHECK_DEADLOCK FALSE
