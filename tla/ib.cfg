SPECIFICATION Spec
CONSTANTS
    Obs <- MCObs
    BUFSZ = 2
    CHUNK = 1
    NBUFS = 2
    Single = TRUE
    MaxFails = 1
INVARIANTS
    BlocksExact
    NoError
PROPERTIES
    Arrives
    
CHECK_DEADLOCK FALSE
