\* Full light is 3, as many cells as a chunk is wide: it may cross a neighbour.
CONSTANTS
  Width = 3
  SubHeight = 2
  SubCount = 2
  MaxLight = 3
  Ids = {0, 1, 2, 3}
  Emission <- MCEmission
  Filter <- MCFilter
  NoSub = NoSub
  Scenes <- MCScenes
  Order <- MCOrder
SPECIFICATION Spec
CHECK_DEADLOCK FALSE
INVARIANTS
  TypeOK
  Explained
  Crossed
  Filled
PROPERTY
  Ends
