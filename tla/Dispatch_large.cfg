SPECIFICATION Spec
CONSTANTS
  kNumBits = 2
  kMinSizeLog = 5
  kMidSizeLog = 9
  kMaxSizeLog = 16
  kMaxNumCachedHint = 8
  HeaderSize = 296
  PoolSize = 1073741824
  LargeHeader = 16
  LargeAlignment = 65536
  Sizes <- LargeSizes
  Alignments <- AllAlignments
INVARIANTS
  AlwaysAligned
CHECK_DEADLOCK FALSE
