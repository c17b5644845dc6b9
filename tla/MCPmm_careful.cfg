SPECIFICATION CarefulSpec
CONSTANTS
  c1 = c1
  c2 = c2
  c3 = c3
  Clients = {c1, c2, c3}
  Ranges <- TwoRanges
  Sizes = {1, 3, 5}
  Aligns = {0, 4}
  MaxRegions = 2
  BlockSize = 1
  TableRatio = 8
  GrowBlocks = 2
  MaxBlocks = 6
SYMMETRY Symmetry
INVARIANTS UsedBlocksAreHeld
PROPERTIES KeepsThePromise
CHECK_DEADLOCK FALSE
