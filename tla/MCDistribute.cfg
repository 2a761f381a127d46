SPECIFICATION Spec
CONSTANTS
  FileEnds <- MixedSlices
  Cores = 5
  Chunks = {0, 1, 2}
  BatchSize = 2
  Capacity = 2
INVARIANTS
  NothingLostInCache
  CacheInStep
  ChunkFilesExact
PROPERTIES
  Returns
