SPECIFICATION FairSpec
CONSTANTS
  NumPools = 2
  AllRegionsInPool = 3
  Available = 2
  MinChunk = 3
  TriggerFree = 2
  PoolDensity = 2
  StartSpan = 3
  MaxLive = 3
INVARIANTS
  CountersExact
  FreedListExact
  LoopsInBounds
  BatchBounded
  DensityBounded
PROPERTIES
  ImplementsLists
  NewRegionsWhenNeeded
  OperationsEnd
