CONSTANTS
  c1 = c1
  c2 = c2
  b1 = b1
  b2 = b2
  None = None
  Clients = {c1, c2}
  Busids = {b1}
  Devices <- SameBusid
  Ports = {0, 1}
  Conns = {i1, i2}
  Probes = {}
  MaxStderr = 1
  MaxUnread = 2
  MaxLines = 2
  Orphans = {}
SPECIFICATION Spec
PROPERTY PrefersOwnDevice
