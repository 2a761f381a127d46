SPECIFICATION Spec
CONSTANTS
  Points = {1, 2, 3, 4, 5, 6}
  Octants = {1, 2}
  Resolution = 2
  Depth = 6
  Positions <- MCPositions
  GridPos <- RoundedGrid
  MaxLeaf = 2
  GridBits = 1
  Plans <- PlansMixed
  Budget = 4
  SpillCap = 2
  DepthCap = 5
  MergeLimit = 3
INVARIANTS
  NodesContainTheirPoints
  EveryPointOnce
  ResultComplete
  LeafOrSample
  DeletedOnlyWhenStored
  OneTaskPerNode
  SubtreesFitBudget
PROPERTIES
  Returns
