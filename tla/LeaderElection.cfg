SPECIFICATION FairSpec
CONSTANTS
    None = None
    m1 = m1
    m2 = m2
    Mains <- MCMains
    Ttl = 2
    MaxCalls = 1
    MaxStarts <- OneRestarts
    KeepsHostId = FALSE
INVARIANT TypeOK
PROPERTIES
    ImplementsLeadership
    StaleLeaderNotices
    LeaderAgain
