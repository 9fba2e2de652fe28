SPECIFICATION CrashSpec
CONSTANTS
    Writers = {w1, w2}
    Readers = {r1, r2}
    NBUFS = 2
    BUFSZ = 1
    NREADERS = 1
    XFERS = 2
    WORD = 64
    MaxBlock = 3
    MaxXfer = 1
    MaxOpen = 1
    SodFrom = 1
    Uses = {"eod", "unlock", "reset"}
    MaxCrash = 2
    TornData = FALSE
SYMMETRY Alike
INVARIANTS WriterExclusion TakenUp RolesKept Balanced
CHECK_DEADLOCK FALSE
