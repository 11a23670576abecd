\* One player, transferred once, with up to two chunks decoded in two worlds.
CONSTANTS
  Players = {p1}
  Worlds = {w1, w2}
  Positions <- MCPositions
  Radii = {1}
  RuntimeIds = {id1, id2}
  NopId = NopId
  MaxSessions = 2
  MaxChunks = 2
SPECIFICATION Spec
SYMMETRY MCSymmetry
CHECK_DEADLOCK FALSE
INVARIANTS
  TypeOK
  LeakOnlyBySession
  BackendUpdateLands
  OwnWorld
