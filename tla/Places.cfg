SPECIFICATION MCSpec
CONSTANTS
  kNumBits = 2
  kMinSizeLog = 5
  kMidSizeLog = 9
  kMaxSizeLog = 16
  kMaxNumCachedHint = 8
  RegionHeader = 296
  PoolSize = 1073741824
  LargeHeader = 16
  LargeAlignment = 65536
  RequestSizes <- AllSizes
  RequestAlignments <- AllAlignments
  PageSize = 8
  GranuleSize = 2
  HeaderSize = 5
  Chunks = 8
  ChunkSizes = {1, 2, 3, 4, 5, 6, 7, 8, 12, 16, 20}
  FreedSets <- AnyChunks
  RegionShadow = 2
  ListShadowPage = 3
  StartSpan = 3
  Mallocs = {m1, m2}
  Symbolizers = {s1, s2}
  Capacity = 12
  PoolNodeSize = 2
  CounterSizes = {1, 3}
  SymbolSizes = {1, 2}
  None = None
  Threads = {t1, t2}
  Tags = {1}
  Page = 2
  ShadowPage = 4
  Space = 18
  SuperPool = {12, 13, 14, 15, 16, 17}
  LargeSizes = {1, 2, 4}
  StackSize = 2
SYMMETRY Symmetry
CONSTRAINT NotMixed
INVARIANTS
  PlacesExact
  DropsExactly
  OrderedBothWays
  StackExact
  LargeTagsKept
PROPERTIES
  ShadowExact
  ImplementsLists
CHECK_DEADLOCK FALSE
