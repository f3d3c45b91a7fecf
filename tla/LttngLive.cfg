CONSTANTS
    Sessions = {1, 2}
    Traces = {1, 2, 3}
    Streams = {1, 2, 3, 4}
    SessionOf <- MCSessionOf
    TraceOf <- MCTraceOf
    KnownAt <- MCKnownAt
    MetadataAt <- MCMetadataAt
    EndAt <- MCEndAt
    Packets <- MCPackets
    MaxTime = 4
    Capacity = 2
    Actions = {"continue", "end"}
    MaxRetries = 1
    Faults = {"error", "interrupt", "eof"}
SPECIFICATION Spec
INVARIANTS
    StreamsAreWhole
    LateIfMissed
    MetadataIsRecent
PROPERTIES
    OutputIsMonotonic
    EverythingIsSent
