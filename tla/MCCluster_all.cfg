SPECIFICATION MCSpec
CONSTANTS
  Nodes = {n1, n2}
  Controllers = {c1, c2}
  MaxTerms = 3
  QuietStart = TRUE
  MaxConns = 3
  MaxDialers = 2
  Plans <- AllPlans
  Members = {1, 3}
  PeerLists <- AllLists
  MaxStarts = 2
CHECK_DEADLOCK FALSE
INVARIANTS
  SettledGateIsRight
  NoStrayStream
  IdsAgree
PROPERTIES
  GateFollowsLeadership
  Reconnects
  RestartKeepsId
