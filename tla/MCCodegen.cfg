SPECIFICATION Spec
CONSTANTS
    Samples <- MCSamples
    Deviations = FALSE
    Interrupts = FALSE
INVARIANT Balanced ValuesRight MemoryRight
CHECK_DEADLOCK FALSE
