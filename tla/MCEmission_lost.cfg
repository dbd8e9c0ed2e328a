SPECIFICATION MCSpec
CONSTANTS
  n1 = n1
  n2 = n2
  Nodes = {n1, n2}
  NoNode = NoNode
  StartEpoch <- MCStartEpoch
  LastStart = 2
  MaxEvents = 1
  MaxAcks = 2
  MaxElections = 1
  MaxRestarts = 1
  MaxConnects = 2
  Bounds <- Moved
  ChanCap = 8
CHECK_DEADLOCK FALSE
PROPERTIES EventDeliveredAnyway
