SPECIFICATION MCSpec
CONSTANTS
  n1 = n1
  n2 = n2
  Nodes = {n1, n2}
  NoNode = NoNode
  StartEpoch <- MCStartEpoch
  LastStart = 2
  MaxEvents = 2
  MaxAcks = 2
  MaxElections = 1
  MaxRestarts = 1
  MaxConnects = 2
  Bounds <- Both
  ChanCap = 3
CHECK_DEADLOCK FALSE
INVARIANTS
  UnackedStaysPending
  SettledOutboxIsReplay
  StableDelivery
PROPERTIES
  ImplementsDelivery
  EventDelivered
  AckPurges
