CONSTANTS
    draw = draw
    move = move
    Names <- MCNames
    Fold <- MCFold
    Bytes <- MCBytes
    CaseIns = TRUE
    Optimize = 2
    MaxDepth = 2
    MaxSteps = 6
    Implicit = {"y"}
    Variables = {"x"}
    Labels = {"X"}
    Subs <- MCSubs
SYMMETRY MCSymmetry
SPECIFICATION Spec
INVARIANT ReferencesDefined MangledDistinct FramesDisjoint Accepts
CHECK_DEADLOCK FALSE
