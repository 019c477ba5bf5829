SPECIFICATION FairSpec
CONSTANTS
  SilenceLimit = 6
  WatchdogPeriod = 2
  PingPeriod = 4
  StaleHostAfter = 6
  DeadAfter = 12
  MaxBackoff = 1
PROPERTY HostRecovers
