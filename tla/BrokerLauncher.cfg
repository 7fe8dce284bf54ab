SPECIFICATION Spec
CONSTANTS
    Runners = {r1, l1}
    Launchers = {l1}
    Requests = {q1, q2}
    OfferIds <- OneOffer
    MaxConcurrency = 1
    ContinueOnFail = TRUE
    InternalMode = FALSE
    None = None
SYMMETRY RequestSymmetry
INVARIANTS
    WaitingCallsHaveAnAnswerer
    NoForgottenTask
PROPERTY
    CodeRunsOncePerCall
CHECK_DEADLOCK FALSE
