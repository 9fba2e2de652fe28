SPECIFICATION Spec
CONSTANTS
    N = 2
    Commands = {"start", "stop", "reset"}
    LogDir = TRUE
    MaxCommands = 2
    MaxErrors = 1
    MaxLost = 0
INVARIANTS
    StateOfNodes
CHECK_DEADLOCK FALSE
