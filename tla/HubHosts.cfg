SPECIFICATION FairSpec
CONSTANTS
  h1 = h1
  d1 = d1
  h2 = h2
  h3 = h3
  c1 = c1
  k1 = k1
  k2 = k2
  None = None
  Host = {h1}
  Device = {}
  Channel = {c1}
  HostConn = {hc1, hc2}
  DeviceConn = {}
  Revoker = {}
  QueueCap = 1
  Key = {k1}
  KeyOf <- OwnKeys
  HostOf <- NoDevice
INVARIANTS TablesLive OnlineKept
PROPERTY KickedTunnelEnds
