----------------------------- MODULE MCPreproc -----------------------------
(* Instances of Preproc for TLC: a program, two files of the same name in   *)
(* two directories, one of them that of the library.                        *)
EXTENDS Preproc

MCFiles == {<<"m">>, <<"a">>, <<"sub", "a">>}
MCMain == <<"m">>
MCLibrary == <<"sub">>
MCNumbers == [true |-> "1", false |-> "0"]
MCIncludes == {<<<<"a">>, TRUE, FALSE>>, <<<<"sub", "a">>, TRUE, FALSE>>, <<<<"a">>, FALSE, TRUE>>}
===========================================================================
