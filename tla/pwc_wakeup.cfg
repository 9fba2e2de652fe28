SPECIFICATION MainSpec
CONSTANTS
    Clients = {c1}
    Times = {1, 3}
    RATE = 2
    RESOLUTION = 2
    MaxCommands = 5
    BUFFER = 3
    MaxBytes = 6
    FirstUtc = 1
    NHDR = 4
    Faults = {"start", "buffer", "stop"}
    Modes = {"data"}
INVARIANTS NoLostWakeup
