SPECIFICATION FairSpec
CONSTANTS
  None = None
  Client = {1, 2, 3}
  Lan = FALSE
  MaxAsked = 1
  MaxPairs = 1
PROPERTY PageRecovers
