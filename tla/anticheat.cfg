\* Limits of two observations, and packets enough to pass each of them.
CONSTANTS
  Places <- MCPlaces
  Yaws <- MCYaws
  Sent <- MCSent
  Limit <- MCLimit
  MoveRate = 0
  AttackRate = 1
  MaxPackets = 3
  MaxCalls = 2
  MaxTicks = 2
SPECIFICATION Spec
CONSTRAINT MCBound
CHECK_DEADLOCK FALSE
INVARIANTS
  TypeOK
  EarnedReports
  FlightGranted
  AimJudged
