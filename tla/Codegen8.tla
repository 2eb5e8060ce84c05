------------------------------ MODULE Codegen8 ------------------------------
(***************************************************************************)
(* The code the backend emits for operations on bytes                      *)
(* (src/arch/z80/backend/_8bit.py): for each intermediate instruction the  *)
(* Z80 instructions, with the optimisations for constants.  An operand is  *)
(* <<"int", n>>, <<"id", address>>, <<"imm", n>> (the value of a label) or *)
(* <<"temp">> (a temporary, on the stack); "*id", "*int" and "*temp" are   *)
(* the same ones dereferenced.                                             *)
(***************************************************************************)
EXTENDS Reals

IsInt(o) == o[1] = "int"
IsId(o) == o[1] = "id"
Constant(o, n) == IsInt(o) /\ o[2] = n

\* The operands with the constant one last; none, if no operand is constant.
_int_ops(o1, o2) == IF IsInt(o1) THEN <<o2, o1[2]>> ELSE <<o1, o2[2]>>
AnyInt(o1, o2) == IsInt(o1) \/ IsInt(o2)

PushA == <<"push", "af">>
PushHL == <<"push", "hl">>
Times(n, code) == [k \in 1 .. n * Len(code) |-> code[1 + ((k - 1) % Len(code))]]
Truth == << <<"sbc", "a">>, PushA >>                  \* 255 for a carry, else 0
NotA == << <<"subn", 1>>, <<"sbc", "a">> >>           \* 255 for 0, else 0
Call(name) == <<"call", "always", name>>
-----------------------------------------------------------------------------
\* An operand in A, an operand in H.
InA(o) ==
    CASE o[1] = "int"   -> IF o[2] = 0 THEN << <<"xor", "a">> >> ELSE << <<"ldn", "a", o[2]>> >>
      [] o[1] = "imm"   -> << <<"ldn", "a", o[2]>> >>
      [] o[1] = "id"    -> << <<"lda@", o[2]>> >>
      [] o[1] = "temp"  -> << <<"pop", "af">> >>
      [] o[1] = "*int"  -> << <<"lda@", o[2]>> >>
      [] o[1] = "*id"   -> << <<"ldw@", "hl", o[2]>>, <<"ld(rr)", "a", "hl">> >>
      [] o[1] = "*temp" -> << <<"pop", "hl">>, <<"ld(rr)", "a", "hl">> >>
InH(o) ==
    CASE o[1] = "int"  -> << <<"ldn", "h", o[2]>> >>
      [] o[1] = "imm"  -> << <<"ldn", "h", o[2]>> >>
      [] o[1] = "id"   -> << <<"ldw@", "hl", o[2] - 1>> >>
      [] o[1] = "temp" -> << <<"pop", "hl">> >>

\* fault: the two registers are mixed up.
Oper8Swapped(o1, o2) == InA(o2) \o InH(o1)

\* get_oper: the last operand is the one on the top of the stack.
Oper8(o1, o2) == InH(o2) \o InA(o1)
Reversed8(o1, o2) == InA(o2) \o InH(o1)
\* The first in A, the variable, if the second is one, loaded last.
InOrder8(o1, o2) == IF IsId(o2) THEN Reversed8(o2, o1) ELSE Oper8(o1, o2)
Either8(o1, o2) == IF IsId(o2) THEN Oper8(o2, o1) ELSE Oper8(o1, o2)

add8(o1, o2) ==
    IF AnyInt(o1, o2)
    THEN LET o == _int_ops(o1, o2)  n == Low(o[2])
         IN  InA(o[1]) \o (CASE n = 0   -> << PushA >>
                             [] n = 1   -> << <<"inc", "a">>, PushA >>
                             [] n = 255 -> << <<"dec", "a">>, PushA >>
                             [] OTHER   -> << <<"addn", n>>, PushA >>)
    ELSE Either8(o1, o2) \o << <<"add", "h">>, PushA >>

sub8(o1, o2) ==
    CASE IsInt(o2) ->
           LET n == Low(o2[2])
           IN  InA(o1) \o (CASE n = 0   -> << PushA >>
                             [] n = 1   -> << <<"dec", "a">>, PushA >>
                             [] n = 255 -> << <<"inc", "a">>, PushA >>
                             [] OTHER   -> << <<"subn", n>>, PushA >>)
      [] ~IsInt(o2) /\ IsInt(o1) /\ Low(o1[2]) = 0 -> InA(o2) \o << <<"neg">>, PushA >>
      [] OTHER -> InOrder8(o1, o2) \o << <<"sub", "h">>, PushA >>

mul8(o1, o2) ==
    IF AnyInt(o1, o2)
    THEN LET o == _int_ops(o1, o2)  n == o[2]
         IN  InA(o[1]) \o
             (CASE n = 0 -> << <<"xor", "a">>, PushA >>
                [] n = 1 -> << PushA >>
                [] n = 2 -> << <<"add", "a">>, PushA >>
                [] n = 4 -> << <<"add", "a">>, <<"add", "a">>, PushA >>
                [] OTHER -> << <<"ldn", "h", Low(n)>>, Call("MUL8_FAST"), PushA >>)
    ELSE Either8(o1, o2) \o << Call("MUL8_FAST"), PushA >>

\* The four divisions: what is done for a constant divisor, else the call.
ByRoutine8(routine, o1, o2) ==
    CASE IsInt(o2) -> InA(o1) \o << <<"ldn", "h", Low(o2[2])>>, Call(routine), PushA >>
      [] IsId(o2) /\ Constant(o1, 0) -> << <<"xor", "a">>, PushA >>
      [] OTHER -> InOrder8(o1, o2) \o << Call(routine), PushA >>

Divide8(halve, routine, o1, o2) ==
    CASE IsInt(o2) /\ Low(o2[2]) = 1 -> InA(o1) \o << PushA >>
      [] IsInt(o2) /\ Low(o2[2]) = 2 -> InA(o1) \o << <<halve, "a">>, PushA >>
      [] OTHER -> ByRoutine8(routine, o1, o2)
divu8(o1, o2) == Divide8("srl", "DIVU8_FAST", o1, o2)
divi8(o1, o2) == Divide8("sra", "DIVI8_FAST", o1, o2)

PowersOf2 == {2^k : k \in 0 .. 15}
Modulo8(routine, o1, o2) ==
    CASE IsInt(o2) /\ Low(o2[2]) = 1 ->
           (IF IsId(o1) THEN <<>> ELSE InA(o1)) \o << <<"xor", "a">>, PushA >>
      [] IsInt(o2) /\ Low(o2[2]) \in PowersOf2 \ {1} ->
           InA(o1) \o << <<"andn", Low(o2[2]) - 1>>, PushA >>
      [] OTHER -> ByRoutine8(routine, o1, o2)
modu8(o1, o2) == Modulo8("MODU8_FAST", o1, o2)
modi8(o1, o2) == Modulo8("MODI8_FAST", o1, o2)
-----------------------------------------------------------------------------
ltu8(o1, o2) == Oper8(o1, o2) \o << <<"cp", "h">> >> \o Truth
gtu8(o1, o2) == Reversed8(o1, o2) \o << <<"cp", "h">> >> \o Truth
leu8(o1, o2) == Reversed8(o1, o2) \o << <<"sub", "h">>, <<"ccf">> >> \o Truth
geu8(o1, o2) ==
    (IF IsInt(o2)
     THEN InA(o1) \o (IF Low(o2[2]) = 0 THEN << <<"cp", "a">> >> ELSE << <<"subn", Low(o2[2])>> >>)
     ELSE Oper8(o1, o2) \o << <<"sub", "h">> >>)
    \o << <<"ccf">> >> \o Truth
lti8(o1, o2) == Oper8(o1, o2) \o << Call("LTI8"), PushA >>
gti8(o1, o2) == Reversed8(o1, o2) \o << Call("LTI8"), PushA >>
lei8(o1, o2) == Oper8(o1, o2) \o << Call("LEI8"), PushA >>
gei8(o1, o2) == Reversed8(o1, o2) \o << Call("LEI8"), PushA >>

\* A = 0 just if the operands are equal.
Differ8(o1, o2) ==
    IF IsInt(o2)
    THEN InA(o1) \o (CASE Low(o2[2]) = 0 -> <<>>
                       [] Low(o2[2]) = 1 -> << <<"dec", "a">> >>
                       [] OTHER          -> << <<"subn", Low(o2[2])>> >>)
    ELSE Oper8(o1, o2) \o << <<"sub", "h">> >>
eq8(o1, o2) == Differ8(o1, o2) \o NotA \o << PushA >>
ne8(o1, o2) == Differ8(o1, o2) \o << PushA >>

or8(o1, o2) ==
    IF AnyInt(o1, o2)
    THEN LET o == _int_ops(o1, o2)
         IN  InA(o[1]) \o (IF o[2] = 0 THEN << PushA >> ELSE << <<"ldn", "a", 1>>, PushA >>)
    ELSE Oper8(o1, o2) \o << <<"or", "h">>, PushA >>
and8(o1, o2) ==
    IF AnyInt(o1, o2)
    THEN LET o == _int_ops(o1, o2)
         IN  InA(o[1]) \o (IF o[2] # 0 THEN << PushA >> ELSE << <<"xor", "a">>, PushA >>)
    ELSE Oper8(o1, o2) \o << <<"or", "a">>, <<"jp", "z", "false">>, <<"ld", "a", "h">>,
                             <<"label", "false">>, PushA >>
xor8(o1, o2) ==
    IF AnyInt(o1, o2)
    THEN LET o == _int_ops(o1, o2)
         IN  InA(o[1]) \o (IF o[2] = 0 THEN <<>> ELSE NotA) \o << PushA >>
    ELSE Oper8(o1, o2) \o << Call("XOR8"), PushA >>
not8(o) == InA(o) \o NotA \o << PushA >>

\* The bitwise operations, with the constants that need none.
Bitwise(none, all, code, o1, o2) ==
    CASE AnyInt(o1, o2) /\ _int_ops(o1, o2)[2] = 0   -> InA(_int_ops(o1, o2)[1]) \o none
      [] AnyInt(o1, o2) /\ _int_ops(o1, o2)[2] = 255 -> InA(_int_ops(o1, o2)[1]) \o all
      [] OTHER -> Oper8(o1, o2) \o code
bor8(o1, o2) == Bitwise(<< PushA >>, << <<"ldn", "a", 255>>, PushA >>, << <<"or", "h">>, PushA >>, o1, o2)
band8(o1, o2) == Bitwise(<< <<"xor", "a">>, PushA >>, << PushA >>, << <<"and", "h">>, PushA >>, o1, o2)
bxor8(o1, o2) == Bitwise(<< PushA >>, << <<"cpl">>, PushA >>, << <<"xor", "h">>, PushA >>, o1, o2)
bnot8(o) == InA(o) \o << <<"cpl">>, PushA >>
neg8(o) == InA(o) \o << <<"neg">>, PushA >>
abs8(o) == InA(o) \o << Call("ABS8"), PushA >>

\* Shifts: unrolled for constants under a limit, else a loop counted in B.
Loop(code) == << <<"label", "loop">> >> \o code \o << <<"djnz", "loop">> >>
Shift8(code, unrolled, o1, o2) ==
    CASE IsInt(o2) /\ Low(o2[2]) < unrolled -> InA(o1) \o Times(Low(o2[2]), code) \o << PushA >>
      [] IsInt(o2) /\ Low(o2[2]) >= unrolled ->
           InA(o1) \o << <<"ldn", "b", Low(o2[2])>> >> \o Loop(code) \o << PushA >>
      [] ~IsInt(o2) /\ Constant(o1, 0) -> InA(o2) \o << <<"xor", "a">>, PushA >>
      [] OTHER -> Reversed8(o1, o2)
                  \o << <<"or", "a">>, <<"ld", "b", "a">>, <<"ld", "a", "h">>, <<"jp", "z", "none">> >>
                  \o Loop(code) \o << <<"label", "none">>, PushA >>
shru8(o1, o2) == Shift8(<< <<"srl", "a">> >>, 4, o1, o2)
shri8(o1, o2) == Shift8(<< <<"sra", "a">> >>, 4, o1, o2)
shl8(o1, o2) == Shift8(<< <<"add", "a">> >>, 6, o1, o2)
-----------------------------------------------------------------------------
load8(o) == InA(o) \o << PushA >>

param8(o) == load8(o)
fparam8(o) == InA(o)                    \* of a FASTCALL function: in the register
ret8(o, label) == InA(o) \o << <<"jp", "always", label>> >>

\* d is <<"id", address>>, <<"temp">> (its address is on the stack) or a
\* pointer dereferenced, "*id".
store8(d, o) ==
    InA(o) \o
    (CASE d[1] = "id"   -> << <<"ld@a", d[2]>> >>
       [] d[1] = "*id"  -> << <<"ldw@", "hl", d[2]>>, <<"ld(rr)r", "hl", "a">> >>
       [] d[1] = "temp" -> << <<"pop", "hl">>, <<"ld(rr)r", "hl", "a">> >>)

\* Jumps to label: constants decide at once.
Decided(taken, label) == IF taken THEN << <<"jp", "always", label>> >> ELSE <<>>
jzero8(o, label) ==
    IF IsInt(o) THEN Decided(o[2] = 0, label)
    ELSE InA(o) \o << <<"or", "a">>, <<"jp", "z", label>> >>
jnzero8(o, label) ==
    IF IsInt(o) THEN Decided(o[2] # 0, label)
    ELSE InA(o) \o << <<"or", "a">>, <<"jp", "nz", label>> >>
jgezerou8(o, label) == (IF IsInt(o) THEN <<>> ELSE InA(o)) \o Decided(TRUE, label)
jgezeroi8(o, label) ==
    IF IsInt(o) THEN Decided(o[2] >= 0, label)
    ELSE InA(o) \o << <<"add", "a">>, <<"jp", "nc", label>> >>
=============================================================================
