\* 134 is AirRuntimeId; two layers let Layer add two at once and Compact shift one.
CONSTANTS
  Subs = {0, 1}
  Positions = {b1, b2}
  Ids = {0, 7, 134}
  Air = 134
  NoBlock = NoBlock
  NoSub = NoSub
  MaxLayers = 2
SPECIFICATION Spec
SYMMETRY MCSymmetry
CONSTRAINT MCBound
INVARIANTS
  TypeOK
PROPERTIES
  SetReads
  ReloadReads
  CompactKeepsBlocks
