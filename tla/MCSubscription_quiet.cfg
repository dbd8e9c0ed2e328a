SPECIFICATION FairSpec
CONSTANTS
  Clients = {a}
  Conns = {k1, k2, k3}
  None = none
  Epoch = 1
  MaxEvents = 2
  Settings <- Quiet
CHECK_DEADLOCK FALSE
INVARIANTS
  SentWasReceived
PROPERTIES
  PendingReaches
