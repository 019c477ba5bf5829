SPECIFICATION Spec
CONSTANTS
  h1 = h1
  h2 = h2
  h3 = h3
  d1 = d1
  c1 = c1
  k1 = k1
  k2 = k2
  None = None
  Host = {h1, h2, h3}
  Device = {d1}
  Channel = {c1}
  HostConn = {hc1}
  DeviceConn = {dc1, dc2}
  Revoker = {r1}
  QueueCap = 1
  HostOf <- OneHost
  Key = {k1, k2}
  KeyOf <- SlashedKeys
INVARIANTS TypeOK NoZombieTunnel BindingsOwned HostIsolation
PROPERTY RevokeKicksRunning
SYMMETRY Slots
