SPECIFICATION Spec
CONSTANTS
  None = None
  MaxStarts = 1
  Plans <- Sessions
CHECK_DEADLOCK FALSE
INVARIANT NoneLeftBehind
