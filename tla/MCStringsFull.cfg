CONSTANTS
    Vars = {v1, v2}
    Chars = {a, b}
    Ptrs <- MCPtrs
    Literal = 100
    Null = 0
    MaxLen = 1
    MaxTemps = 1
    Slack = {0}
    Waste = 0
    MayFail = TRUE
SPECIFICATION Spec
SYMMETRY Symmetry
INVARIANT NoSharing
