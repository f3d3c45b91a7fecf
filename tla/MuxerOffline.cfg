SPECIFICATION FairSpec
CONSTANTS
    Ports = 2
    MaxTime = 1
    Ranks = {0, 1}
    MaxMessages = 2
    UpBatch = 2
    Capacity = 2
    Modes = {FALSE}
    MaxAgains = 0
    MaxErrors = 0
    MaxSeeks = 0
    Clocks = {"a"}
PROPERTIES
    ImplementsMerge
    EverythingIsDelivered
CHECK_DEADLOCK FALSE
