SPECIFICATION Spec
CONSTANTS
    N = 2
    Commands = {"start", "stop", "reset"}
    LogDir = TRUE
    MaxCommands = 2
    MaxErrors = 1
    MaxLost = 1
INVARIANTS
    InStep
    SuccessMeansAll
    StatesFollowed
PROPERTIES
    CommandsReturn
CHECK_DEADLOCK FALSE
