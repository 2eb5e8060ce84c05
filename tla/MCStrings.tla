----------------------------- MODULE MCStrings -----------------------------
\* As many blocks as there are variables and temporaries, and one more for
\* each of the two copies that a routine can be making.  Variables and
\* characters are interchangeable.
EXTENDS Strings, TLC

MCPtrs == 1 .. Cardinality(Vars) + MaxTemps + 2
Symmetry == Permutations(Vars) \union Permutations(Chars)
=============================================================================
