SPECIFICATION Spec
CONSTANTS
    Ports = 2
    MaxTime = 1
    Ranks = {0}
    MaxMessages = 2
    UpBatch = 2
    Capacity = 2
    Modes = {FALSE, TRUE}
    MaxAgains = 2
    MaxErrors = 1
    MaxSeeks = 1
    Clocks = {"a", "b"}
INVARIANTS
    NothingLostOrRepeated
    DeliversInTimeOrder
CHECK_DEADLOCK FALSE
