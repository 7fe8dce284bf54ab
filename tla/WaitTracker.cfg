SPECIFICATION Spec
CONSTANTS
    Mains = {m1, m2}
    Executions = {e1}
    MaxWaits = 2
    Delays = {3}
    PollInterval = 2
    Horizon = 2
    Never = 4
    LeadsAgain = FALSE
INVARIANTS
    TypeOK
    
PROPERTIES
    
    EarlyOnlyIfOvertaken
SYMMETRY MainSymmetry
