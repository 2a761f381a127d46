SPECIFICATION Spec
CONSTANTS
  Dims = 2
  Inputs <- MCInputs
  Headers <- MCHeaders
  Budgets = {60, 100}
  Overrides = {NoOverride, 3}
  NoOverride = NoOverride
  Cores = 5
  GridDepths <- MCGridDepths
  Tiers <- MCTiers
  CounterValues = 6
  SplitLevelCap = 2
  MinChunkPoints = 1
  PerPointOverhead = 5
  PerPointPeak = 20
  PerCell = 1
  SafetyPercent = 60
  SingleChunkPercent = 40
  GridPercent = 16
  PerWorker = 1
  Endless = 64
INVARIANTS
  RoutedIntoOwnChunk
  ChunksApart
  EstimatesConserve
  PlanIsCoarsest
  PlanFitsBudget
  BoundsExact
