CONSTANTS
  c1 = c1
  c2 = c2
  b1 = b1
  b2 = b2
  None = None
  Clients = {c1}
  Busids = {b1, b2}
  Devices <- TwoOfOne
  Ports = {0}
  Conns = {i1}
  Probes = {}
  MaxStderr = 1
  MaxUnread = 2
  MaxLines = 2
  Orphans = {}
SPECIFICATION Spec
INVARIANT OfferedIfOneLine
