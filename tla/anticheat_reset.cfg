\* A move in a second is one too many, so that speedPerSecond has something to keep.
CONSTANTS
  Places <- MCPlaces
  Yaws <- MCYaws
  Sent <- MCSent
  Limit <- MCLimit
  MoveRate = 0
  AttackRate = 1
  MaxPackets = 2
  MaxCalls = 2
  MaxTicks = 2
SPECIFICATION Spec
CHECK_DEADLOCK FALSE
PROPERTIES
  ResetResetsAll
