SPECIFICATION Spec
CONSTANTS
    Writers = {w1}
    Readers = {r1, r2}
    NBUFS = 2
    BUFSZ = 1
    NREADERS = 2
    XFERS = 2
    WORD = 64
    MaxBlock = 1
    MaxXfer = 1
    MaxOpen = 1
    SodFrom = 1
    Uses = {"eod", "unlock", "reset"}
INVARIANT SlotExclusion
CHECK_DEADLOCK FALSE
