SPECIFICATION MCSpec
CONSTANTS
  t1 = t1
  t2 = t2
  r1 = r1
  r2 = r2
  c1 = c1
  c2 = c2
  Thread = {t1, t2}
  Region = {r1}
  Chunk = {c1, c2}
  Tag = {1, 2, 3}
  Granule = 2
  Granules = 2
  Sizes = {0, 1, 2, 3}
  StaleFrees = FALSE
  StaleTag = {2, 3}
  StaleSizes = {1, 3}
  NoThread = NoThread
  NoSlot = NoSlot
  None = None
  Width = 8
  WordSize = 2
  MallocPage = 16
  Classes = {4, 8, 12, 16, 24, 32}
  LargeHeader = 4
  LargeAlignment = 32
  MaxMalloc = 64
  Numbers = {0, 1, 2, 3, 4, 5, 7, 8, 9, 15, 16, 17, 24, 25, 28, 31, 32, 33, 34, 37, 51, 63, 64, 65, 85, 86, 127, 128, 129, 239, 240, 241, 248, 252, 254, 255}
  Alignments = {0, 1, 2, 3, 4, 8, 12, 16, 32, 64, 128}
  ShadowPage = 2
  ClearThreshold = 2
  StackGranules = 4
  GlobalGranules = 2
  MaxCleanup = 3
  MaxFrames = 3
  MaxFrame = 2
  MaxAccess = 6
  StackTags = {4, 5}
  Values = {"Address", "Thread", "Memory", "Leak", "hwaddress", "clustertag", "undefined", "Vptr", "cfi", "Scudo", "SafeStack", "Fuzzer", "all"}
  FlagValues = {"undefined", "Unreachable", "cfi", "KernelAddress", "clustertag", "Memory", "Fuzzer", "Address", "PointerCompare"}
  Targets = {"aarch64", "riscv64"}
  MaxArgs = 3
  MaxOptions = 2
SYMMETRY Symmetry
INVARIANTS
  OneOwner
  ShadowExact
  DanglingDetected
  
  
  
  
PROPERTIES
  ReportsAreTrue
CHECK_DEADLOCK FALSE
