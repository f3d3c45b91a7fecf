SPECIFICATION Spec
CONSTANTS
    Streams = {1, 2}
    MaxTime = 2
    MaxPackets = 1
    Class <- Everything
    DayLength = 2
    MaxMessages = 3
    BatchSize = 2
    Capacity = 1
    MaxAgains = 1
    Setups <- MCSetups
INVARIANTS
    OutputIsLegal
    TrimIsExact
    NoAssertionFails
CHECK_DEADLOCK FALSE
