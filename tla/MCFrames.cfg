SPECIFICATION Spec
CONSTANTS
    Kits <- MCKits
    Deviations = {}
INVARIANT VariablesRight FramesIntact
CHECK_DEADLOCK FALSE
