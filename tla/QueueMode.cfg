SPECIFICATION FairSpec
CONSTANTS
    m1 = m1
    m2 = m2
    w1 = w1
    e1 = e1
    k1 = k1
    Mains = {m1, m2}
    Workers = {w1}
    Receiving = {m1}
    Executions = {e1}
    Loops = {k1}
    MaxFaults = 2
    None = None
INVARIANTS
    TypeOK
    RunsOnce
PROPERTIES
    EndsAreKept
    
