SPECIFICATION Spec
CONSTANTS
  PageSize = 8
  GranuleSize = 2
  HeaderSize = 5
  Chunks = 8
  ChunkSizes = {8, 16}
  FreedSets <- AnyChunks
INVARIANT ShadowGoesToo
CHECK_DEADLOCK FALSE
