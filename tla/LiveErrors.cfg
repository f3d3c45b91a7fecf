CONSTANTS
    Iterators = {1}
    MaxBytes = 2
    MaxRequest = 1
    Capacity = 2
    Failures = FALSE
SPECIFICATION Spec
PROPERTIES
    ErrorsAreReturned
