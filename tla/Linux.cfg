SPECIFICATION FairSpec
CONSTANTS
  MaxStarts = 2
  MaxLines = 1
  MaxTimers = 2
  MaxBridges = 2
ACTION_CONSTRAINT Apart
INVARIANTS OneServer StartAwaited BridgeAwaited
PROPERTIES StartJudged BridgeSettles
