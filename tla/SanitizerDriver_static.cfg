SPECIFICATION Spec
CONSTANTS
  Values = {"Address", "clustertag", "undefined", "cfi", "Leak", "SafeStack"}
  Targets = {"riscv64"}
  MaxArgs = 2
  None = None
INVARIANT StaticOnlyUnaffected
CHECK_DEADLOCK FALSE
