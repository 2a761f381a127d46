SPECIFICATION Spec
CONSTANTS
  Points = {1, 2, 3, 4}
  Octants = {1, 2}
  Resolution = 3
  Depth = 4
  Positions <- MCPositions
  GridPos <- ExactGrid
  MaxLeaf = 2
  GridBits = 1
  Plans <- PlansHalves
  Budget = 4
  SpillCap = 1
  DepthCap = 3
  MergeLimit = 4
INVARIANTS
  NoEmptyIntermediate
