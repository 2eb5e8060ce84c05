SPECIFICATION Spec
CONSTANTS
    Files <- MCFiles
    Main <- MCMain
    Library <- MCLibrary
    Includes <- MCIncludes
    Numbers <- MCNumbers
    Macros = {"p"}
    Values = {"1", "p"}
    MaxLines = 5
    MaxDepth = 4
    MaxOutput = 8
    Kinds = {"text", "define", "undef", "if", "ifdef", "ifndef", "else", "endif", "include", "include once", "pragma once", "line"}
INVARIANT EnabledRight CurrentFileRight OutputRight PositionsRight
PROPERTY OnceOnly DisabledInert
CHECK_DEADLOCK FALSE
