SPECIFICATION FairSpec
CONSTANTS
  WarpSize = 3
  MaxDepth = 2
  Programs <- AllPrograms
INVARIANTS NearestDominators InSync Reconverged
PROPERTY WarpEnds
CHECK_DEADLOCK FALSE
