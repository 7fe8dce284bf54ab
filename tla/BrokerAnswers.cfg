SPECIFICATION BrokerSpec
CONSTANTS
    Runners = {r1, l1}
    Launchers = {l1}
    Requests = {q1}
    OfferIds <- OneOffer
    MaxConcurrency = 1
    ContinueOnFail = FALSE
    InternalMode = FALSE
    None = None
PROPERTIES
    
    SlotsFreed
CHECK_DEADLOCK FALSE
