\* The player has ID 1 or 2 on each of two backends, and meets one objective.
CONSTANTS
  Ids <- MCIds
  Objectives = {board}
  MaxSessions = 2
SPECIFICATION Spec
CONSTRAINT MCBound
CHECK_DEADLOCK FALSE
INVARIANTS
  TypeOK
  Mirrored
  RightEntity
