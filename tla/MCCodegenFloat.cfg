SPECIFICATION Spec
CONSTANTS
    Samples <- MCFloatOnly
    Deviations = TRUE
    Interrupts = FALSE
INVARIANT FloatJumpRight
CHECK_DEADLOCK FALSE
