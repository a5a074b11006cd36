CONSTANTS
  p1 = p1
  p2 = p2
  p3 = p3
  Orphan = Orphan
  None = None
  Procs = {p1, p2, p3}
  Requests <- CommandLines
  Loadable <- AllModules
SPECIFICATION Spec
SYMMETRY ProcSymmetry
INVARIANTS TypeOK NoOrphans KeepsOwnUsbipd
PROPERTY ModulesTogether
