CONSTANTS
  c1 = c1
  b1 = b1
  b2 = b2
  None = None
  Clients = {c1}
  Busids = {b1}
  Devices <- JustOne
  Ports = {0}
  Conns = {i1, i2}
  Probes = {}
  MaxStderr = 1
  MaxUnread = 1
  MaxLines = 2
  Orphans = {}
  AutoClients = {c1}
  Allowed <- JustOne
  KeepBound = {}
SPECIFICATION AllFair
PROPERTY AttachedAsTheyAppear
