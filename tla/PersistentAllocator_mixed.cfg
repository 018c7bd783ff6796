SPECIFICATION Spec
CONSTANTS
  m1 = m1
  m2 = m2
  s1 = s1
  s2 = s2
  Mallocs = {m1, m2}
  Symbolizers = {s1, s2}
  Capacity = 12
  PoolNodeSize = 2
  CounterSizes = {1, 3}
  SymbolSizes = {1, 2}
  None = None
SYMMETRY Symmetry
INVARIANT FreeAccepted
CHECK_DEADLOCK FALSE
