SPECIFICATION FairSpec
CONSTANTS
  Threads = {t1, t2}
  Groups = {g1, g2}
  SegSize = 2
  MaxSeg = 2
  Settings <- Safe
CHECK_DEADLOCK FALSE
INVARIANTS
  AckedIsDurable
PROPERTIES
  PruneSparesOwn
  SyncReturns
