SPECIFICATION Spec
CONSTANTS
    Nodes <- FiveNodes
    Workflows <- AcyclicAndSpecial
    MaxRuns = 3
    MaxRequests = 2
INVARIANTS
    TypeOK
    DataExactlyOnce
    NodesRunOnce
    NothingLeft
    HooksPaired
    ToolsHaveRun
    EveryEndIsSaved
PROPERTY
    Ends
CHECK_DEADLOCK FALSE
