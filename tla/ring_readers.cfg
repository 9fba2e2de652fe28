SPECIFICATION LiveSpec
CONSTANTS
    Writers = {w1}
    Readers = {r1, r2}
    NBUFS = 2
    BUFSZ = 1
    NREADERS = 2
    XFERS = 2
    WORD = 64
    MaxBlock = 3
    MaxXfer = 3
    MaxOpen = 1
    SodFrom = 1
    Uses = {"relock", "eod", "zero"}
INVARIANTS BlockIntact EndFlagsKept LockReadSucceeds
PROPERTIES ImplementsStream WriterReturns TransfersRead
