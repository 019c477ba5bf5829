SPECIFICATION Spec
CONSTANTS
  h1 = h1
  d1 = d1
  h2 = h2
  h3 = h3
  c1 = c1
  k1 = k1
  k2 = k2
  None = None
  Host = {h1}
  Device = {d1}
  Channel = {c1}
  HostConn = {hc1}
  DeviceConn = {dc1}
  Revoker = {r1, r2}
  QueueCap = 1
  Key = {k1}
  KeyOf <- OwnKeys
  HostOf <- OneHost
INVARIANT RevokeAnswers
