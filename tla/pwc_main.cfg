SPECIFICATION BlockSpec
CONSTANTS
    Clients = {c1}
    Times = {1, 3}
    RATE = 2
    RESOLUTION = 2
    MaxCommands = 4
    BUFFER = 3
    MaxBytes = 6
    FirstUtc = 1
    NHDR = 4
    Faults = {"start", "buffer", "retry", "stop", "ipcio"}
    Modes = {"data", "block", "xfer"}
INVARIANTS CommandsKept RecordingIsValid StreamAligned CommandExact BlocksReachReaders StopExact
