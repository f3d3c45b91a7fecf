CONSTANTS
    WordBits = 15
    Traces <- MCTraces
SPECIFICATION MsgSpec
INVARIANTS
    ItemsAreExpected
    NoAssertionFails
    MessagesAreLegal
    EventsAreExact
PROPERTIES
    RequestsIncrease
    IterationEnds
