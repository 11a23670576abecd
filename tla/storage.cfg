\* Five IDs make a palette of one bit per block grow to two and to three bits.
CONSTANTS
  States <- MCStates
  Cells = {1, 2}
  Ids = {0, 1, 2, 3, 4}
  NoId = NoId
  MaxDecoded = 2
  MaxPalette = 5
SPECIFICATION Spec
INVARIANTS
  TypeOK
PROPERTIES
  SetWrites
  CompactKeeps
  ActsAsMap
