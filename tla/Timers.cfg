SPECIFICATION TimersSpec
CONSTANTS
  Host = {h1}
  Device = {d1, d2}
  Token = {t1, t2}
  HostToken = {k1, k2}
  FixedPin = {p1}
  PinTTL = 1
  PinLockDuration = 2
  SessionTTL = 2
  DeviceStaleAfter = 3
  PinMaxFailures = 2
  MaxDevices = 2
  Start = 5
  End = 9
  None = None
  SilenceLimit = 6
  WatchdogPeriod = 2
  PingPeriod = 4
  StaleHostAfter = 6
  DeadAfter = 12
  MaxBackoff = 2
  IP = {a}
  Limit = 3
  Window = 3
  LastTick = 8
  Unseen = Unseen
INVARIANTS StoreTypeOK SpentTicketDead TablesAgree OneCredential
INVARIANTS SilentLinkClosed LiveTunnelNotCut  AtMostTwice
PROPERTIES LockKept ImplementsCredentials
SYMMETRY Symmetry
