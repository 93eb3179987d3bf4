SPECIFICATION Spec
CONSTANTS
  c1 = c1
  c2 = c2
  c3 = c3
  x1 = x1
  x2 = x2
  x3 = x3
  Clients = {c1, c2, c3}
  Conns = {x1, x2, x3}
  ConnOf <- OwnHandles
  Keys = {k1, k2, k3, k4}
  NoKey = NoKey
  MaxRecords = 1
  MaxWrites = 5
  MaxTxDepth = 2
  Engines = {"delete", "wal", "postgres"}
INVARIANTS
  TypeOK
  CapacityBound
  AcknowledgedStays
CHECK_DEADLOCK FALSE
SYMMETRY Symmetry
