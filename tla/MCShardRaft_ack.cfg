SPECIFICATION Spec
CONSTANTS
    c1 = c1
    c2 = c2
    Settings <- OnlyCluster
    Calls <- AllCalls
    Buckets = {b1}
INVARIANT AckedIsApplied
CHECK_DEADLOCK FALSE
