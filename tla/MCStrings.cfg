CONSTANTS
    Vars = {v1, v2}
    Chars = {a, b}
    Ptrs <- MCPtrs
    Literal = 100
    Null = 0
    MaxLen = 2
    MaxTemps = 2
    Slack = {0}
    Waste = 1
    MayFail = FALSE
SPECIFICATION Spec
SYMMETRY Symmetry
INVARIANTS OneOwner TextFits ValuesRight
