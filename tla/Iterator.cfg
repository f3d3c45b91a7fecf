SPECIFICATION MCSpec
CONSTANTS
    Streams <- MCStreams
    MaxTime = 2
    MaxPackets = 2
    Class <- Mixed
    MaxMessages = 5
    BatchSize = 2
    MaxSeeks = 2
    SelfSeekable <- LastOnly
INVARIANTS
    SeekIsExact
    BeginningIsFirst
    CheckerIsExact
    NoCheckFails
CHECK_DEADLOCK FALSE
