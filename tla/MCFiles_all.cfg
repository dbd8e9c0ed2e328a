SPECIFICATION FilesSpec
CONSTANTS
  Settings <- AllSettings
  BucketSettings <- AllFaults
  MaxAppends = 3
  Base = 10
  MaxSegs = 12
  Threads = {"c1", "c2"}
  DataKeys = {"k"}
  Confs <- AllConfs
  MaxSegments = 2
CHECK_DEADLOCK FALSE
INVARIANTS
  LoadFaithful
  ShadowFaithful
  AppliedInOrder
  RestartRestores
  PreambleIsManifest
PROPERTIES
  AnsweredIsApplied
