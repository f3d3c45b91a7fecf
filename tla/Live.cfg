CONSTANTS
    Iterators = {1, 2}
    MaxBytes = 2
    MaxRequest = 2
    Capacity = 2
    Failures = TRUE
SPECIFICATION Spec
INVARIANTS
    BuffersAreExact
    FifosAreComplete
PROPERTIES
    DestructorReturns
