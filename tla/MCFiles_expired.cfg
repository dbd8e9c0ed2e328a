SPECIFICATION FilesSpec
CONSTANTS
  Settings <- OnlyStill
  BucketSettings <- NoFaults
  MaxAppends = 3
  Base = 10
  MaxSegs = 12
  Threads = {"c1", "c2"}
  DataKeys = {"k"}
  Confs <- OnlyTimed
  MaxSegments = 2
CHECK_DEADLOCK FALSE
INVARIANT
  ExpiredStaysGone
