--------------------------- MODULE MCSymbolTable ---------------------------
(* Instances of SymbolTable for TLC: a variable and a label that are one    *)
(* name in two spellings, and two SUBs, which are interchangeable.          *)
EXTENDS SymbolTable, TLC

CONSTANTS draw, move

MCNames == {"x", "X", "y", draw, move}
MCFold == [n \in MCNames |-> IF n = "X" THEN "x" ELSE n]
MCBytes == [n \in MCNames |-> IF n = "x" THEN 1 ELSE 2]
MCSubs == {draw, move}
MCSymmetry == Permutations(MCSubs)
===========================================================================
