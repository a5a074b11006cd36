CONSTANTS
  LastPort = 3
  Busids = {b1, b2}
  None = None
SPECIFICATION Spec
INVARIANTS MapsPortsInUse NamesNoWrongPort
\* The listing comes to its end.
CHECK_DEADLOCK FALSE
