SPECIFICATION FairSpec
CONSTANTS
  None = None
  Client = {1, 2, 3, 4}
  Lan = TRUE
  MaxAsked = 2
  MaxPairs = 2
INVARIANT FlowsAwaited
PROPERTIES ReconnectsOnlyDropped TunnelRecovers
