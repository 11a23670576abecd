\* A single session is enough for two goroutines to meet in a chunk.
CONSTANTS
  Players = {p1}
  Worlds = {w1}
  Positions <- MCPositions
  Radii = {1}
  RuntimeIds = {id1}
  NopId = NopId
  MaxSessions = 1
  MaxChunks = 1
SPECIFICATION Spec
CHECK_DEADLOCK FALSE
INVARIANT NotSimultaneous
