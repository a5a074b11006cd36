CONSTANTS
  c1 = c1
  c2 = c2
  b1 = b1
  b2 = b2
  None = None
  Clients = {c1}
  Busids = {b1}
  Devices <- JustOne
  Ports = {0}
  Conns = {i1, i2}
  Probes = {"PING", "BAD"}
  MaxStderr = 1
  MaxUnread = 1
  MaxLines = 2
  Orphans = {"attach", "detach"}
SPECIFICATION Spec
SYMMETRY ConnSymmetry
INVARIANTS TypeOK Sessions InStep OfferedWasReceived
PROPERTY InOrder
