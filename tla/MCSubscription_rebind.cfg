SPECIFICATION Spec
CONSTANTS
  Clients = {a, b}
  Conns = {k1, k2}
  None = none
  Epoch = 1
  MaxEvents = 1
  Settings <- Rebinding
CHECK_DEADLOCK FALSE
INVARIANTS NoOrphan KeptUntilAcked
SYMMETRY Symmetry
