SPECIFICATION Spec
CONSTANTS
  Endless = 20
  NodeLists <- MCNodeLists
  MaxReturn = 2
  WindowPoints = 2
  Strides = {0, 2}
  ChunkSize <- MCChunkSize
  HeaderSize = 100
  TableSize = 7
INVARIANTS
  EveryNodeFound
  EntriesDescribe
  PagesTile
  TimeSearchComplete
  WindowsBounded
  HeaderExact
PROPERTIES
  LoopEnds
