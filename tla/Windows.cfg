SPECIFICATION Spec
CONSTANTS
  None = None
  MaxStarts = 1
  Plans <- Sessions
INVARIANTS ChildHeld NobodyForgotten BridgeTimed
CHECK_DEADLOCK FALSE
PROPERTY VerdictComes
