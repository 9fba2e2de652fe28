SPECIFICATION IoSpec
CONSTANTS
    Writers = {w1}
    Readers = {r1}
    NBUFS = 3
    BUFSZ = 2
    NREADERS = 1
    XFERS = 2
    WORD = 64
    MaxBlock = 4
    MaxXfer = 3
    Sizes = {3}
    Api = {"seek", "blocks"}
INVARIANTS BytesInOrder EndsWhereStopped TellExact StopEnds
