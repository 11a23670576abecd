\* What palette.go:43-44 says of Index.
CONSTANTS
  States <- MCStates
  Cells = {1, 2}
  Ids = {0, 1, 2}
  NoId = NoId
  MaxDecoded = 2
  MaxPalette = 3
SPECIFICATION Spec
INVARIANT
  IndexFinds
