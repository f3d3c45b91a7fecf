SPECIFICATION Spec
CONSTANTS
    None = None
    NoClockClass = None
    Setups <- MCSetups
INVARIANTS
    SelectionIsDetermined
    ClocksAreCorrelated
