SPECIFICATION MCSpec
CONSTANTS
  Threads = {t1, t2}
  Main = t1
  Rounds = 3
  NumLocks = 3
  None = None
  Symbolizers = {s1, s2}
  kMaxTimesRestarted = 3
  Pieces = 3
  MaxCommands = 4
  AddressBits = {7}
  ShadowScale = 2
  Page = 4
  BaseAlignment = 4
  ChunkSizes = {32, 64, 96, 128, 160, 192, 224, 256, 288, 320, 352, 384, 416, 448, 480, 512, 768, 1024, 1536, 2048, 3072, 4096, 6144, 8192, 12288, 16384, 24576, 32768, 49152, 65536}
  HeaderSize = 296
  PoolSize = 1073741824
  RealPage = 4096
  StackSize = 6
  StackUse = 2
  EarlySizes = {1, 2}
  MaxBlocks = 2
  Characters = {7, 10}
INVARIANTS
  AliveToTheLast
  AnswersOwn
  StartupExact
PROPERTIES
  ForksEnd
  CommandsEnd
CHECK_DEADLOCK FALSE
