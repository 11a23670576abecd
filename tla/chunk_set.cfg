\* What chunk.go:82-83 says of SetRuntimeID.
CONSTANTS
  Subs = {0, 1}
  Positions = {1, 2}
  Ids = {0, 7, 134}
  Air = 134
  NoBlock = NoBlock
  NoSub = NoSub
  MaxLayers = 2
SPECIFICATION Spec
PROPERTY
  SetOneBlock
