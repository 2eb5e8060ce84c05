---------------------------- MODULE MCStringOps ----------------------------
EXTENDS StringOps

MCChars == {1, 2}
=============================================================================
