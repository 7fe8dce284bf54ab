SPECIFICATION FairSpec
CONSTANTS
    e1 = e1
    e2 = e2
    None = None
    Executions = {e1, e2}
    Poison = {e2}
    Simple = FALSE
    MaxPosted = 1
    MaxFaults = 1
INVARIANTS
    TypeOK
    NoOrphanRuns
PROPERTIES
    EndsBeforeStartStay
    StartsInTheEnd
CHECK_DEADLOCK FALSE
