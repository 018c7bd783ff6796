SPECIFICATION Spec
CONSTANTS
  Threads = {t1, t2}
  None = None
  CacheMax = 4
  ChunkSizes = {3, 5, 6, 8, 12}
  PageSize = 8
  UserMapSize = 16
  MetaMapSize = 2
  ArrayMapSlots = 2
  MetadataSize = 1
  RegionSpace = 36
  ArraySlots = 10
  WordBits = 8
  SpaceBeg = 7
  ClassId = 1
  NumClasses = 3
  MaxHeld = 3
  BatchRegion = 8
  MaxNumCachedHint = 4
  MaxBytesCached = 16
  MaxRegions = 2
  MaxHeldBatch = 2
  Pages = {1, 2, 3, 4, 5, 6, 7, 8, 9}
  MapSizes = {1, 2}
  Alignments = {1, 2}
  BlockCount = 2
  Cells = 5
  Bytes = {0, 1, 200}
  Digits = {32, 43, 45, 48, 49, 50, 57}
  UMax = 255
  Word = 2
  TextLength = 4
  Elements = {0, 1, 2, 3}
  PageElems = 3
  MaxElems = 6
  MapPage = 4
  Space = 7
  Program = {1}
  Shadow = {7}
  Requests = {3, 8}
  RequestAlignments = {8}
  LowSizes = {1, 3}
  MinAlignment = 2
  Limit = 25
  MaxSlack = 2
  MaxLow = 2
  MaxFd = 5
  MaxKept = 1
  MaxThreads = 5
  BufferSize = 3
  Close = 1
  MaxSize = 6
  Rounds = 2
  Names = {"a", "b", "c"}
  Addresses = {0, 1, 2, 3, 4}
  Span = 2
  MaxLoads = 3
  Lines = {12}
  Base = 100
  MaxRecords = 2
SYMMETRY Symmetry
INVARIANTS
  ArraysExact
  BatchesExact
  LargeExact
  LibraryExact
  
  
CHECK_DEADLOCK FALSE
