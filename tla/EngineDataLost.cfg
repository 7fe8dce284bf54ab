SPECIFICATION Spec
CONSTANTS
    Nodes <- FiveNodes
    Workflows <- Crossed
    MaxRuns = 3
    MaxRequests = 2
INVARIANT
    DataExactlyOnce
CHECK_DEADLOCK FALSE
