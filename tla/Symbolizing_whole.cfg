SPECIFICATION Spec
CONSTANTS
  Symbolizers = {s1, s2}
  kMaxTimesRestarted = 5
  Pieces = 3
  MaxCommands = 2
  None = None
INVARIANT AnswersWhole
CHECK_DEADLOCK FALSE
