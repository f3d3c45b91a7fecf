SPECIFICATION Spec
CONSTANTS
    Ports = 2
    MaxTime = 1
    Ranks = {0}
    MaxMessages = 2
    UpBatch = 2
    Capacity = 2
    Modes = {FALSE}
    MaxAgains = 1
    MaxErrors = 0
    MaxSeeks = 0
    Clocks = {"a"}
INVARIANTS
    EndsWhenExhausted
CHECK_DEADLOCK FALSE
