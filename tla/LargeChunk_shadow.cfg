SPECIFICATION Spec
CONSTANTS
  Threads = {t1, t2}
  Tags = {1}
  Page = 2
  ShadowPage = 4
  Space = 18
  SuperPool = {12, 13, 14, 15, 16, 17}
  Sizes = {1, 2, 4}
  StackSize = 2
  None = None
PROPERTY OnlyItsShadow
CHECK_DEADLOCK FALSE
