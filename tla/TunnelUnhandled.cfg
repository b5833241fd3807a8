SPECIFICATION Spec
CONSTANTS
    TimerSets = {{}}
    MaxBuffer = 1
    MaxMessages = 1
    MaxInstr = 2
    Peers = {"silent"}
    ErrorHandled = FALSE
CHECK_DEADLOCK FALSE
INVARIANTS OnlyStrippedThrows
