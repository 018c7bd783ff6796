SPECIFICATION Spec
CONSTANTS
  NumPools = 1
  AllRegionsInPool = 2
  Available = 3
  MinChunk = 3
  TriggerFree = 3
  PoolDensity = 1
  StartSpan = 2
  MaxLive = 4
INVARIANTS
  TypeOK
  SingleOwner
  TagsUniqueInRegion
  RegionsAccounted
PROPERTIES
  TagsRotate
  ImplementsHeap
