SPECIFICATION Spec
CONSTANTS
    Runners = {r1}
    Launchers = {}
    Requests = {q1, q2}
    OfferIds <- ThreeOffers
    MaxConcurrency = 2
    ContinueOnFail = FALSE
    InternalMode = TRUE
    None = None
SYMMETRY RequestSymmetry
INVARIANTS
    TypeOK
    SlotsNotOverbooked
    NoUnexpectedStatus
CHECK_DEADLOCK FALSE
