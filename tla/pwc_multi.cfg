SPECIFICATION MultiSpec
CONSTANTS
    Clients = {c1}
    Times = {3}
    RATE = 1
    RESOLUTION = 2
    MaxCommands = 5
    NumHdus = 2
    BUFFER = 5
    MaxBytes = 10
    FirstUtc = 1
    NHDR = 3
    Faults = {"start", "buffer", "retry", "write", "stop", "ipcio"}
INVARIANTS AllHdusRecord HdusInStep 
