SPECIFICATION Spec
CONSTANTS
  c1 = c1
  c2 = c2
  c3 = c3
  Clients = {c1, c2, c3}
  Ranges <- OneRange
  Sizes = {0, 1, 3}
  Aligns = {0}
  MaxRegions = 1
  BlockSize = 1
  TableRatio = 8
  GrowBlocks = 2
  MaxBlocks = 5
PROPERTIES FreesTheRequestedBlock
