SPECIFICATION Spec
CONSTANTS
    Writers = {w1}
    Readers = {r1}
    NBUFS = 2
    BUFSZ = 2
    NREADERS = 1
    XFERS = 2
    WORD = 64
    MaxBlock = 4
    MaxXfer = 3
    MaxOpen = 2
    SodFrom = 1
    Uses = {"clock", "share", "eod", "unlock"}
INVARIANTS TypeOK BlockIntact BytesExact EodExact
