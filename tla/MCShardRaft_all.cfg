SPECIFICATION FairSpec
CONSTANTS
    Settings <- Deployments
    c1 = c1
    c2 = c2
    Calls <- AllCalls
    Buckets = {b1}
INVARIANTS
  WaiterIsKept
  CommitIndicesAgree
PROPERTIES
  ImplementsAppend
  CallReturns
CHECK_DEADLOCK FALSE
