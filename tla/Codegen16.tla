----------------------------- MODULE Codegen16 -----------------------------
(***************************************************************************)
(* The code the backend emits for operations on words                      *)
(* (src/arch/z80/backend/_16bit.py), and the conversions of bytes and      *)
(* words (common.py).  Operands are those of Codegen8.                     *)
(***************************************************************************)
EXTENDS Codegen8

\* An operand in HL, an operand in DE.
InHL(o) ==
    CASE o[1] = "int"   -> << <<"ldnn", "hl", o[2]>> >>
      [] o[1] = "imm"   -> << <<"ldnn", "hl", o[2]>> >>
      [] o[1] = "id"    -> << <<"ldw@", "hl", o[2]>> >>
      [] o[1] = "temp"  -> << <<"pop", "hl">> >>
      [] o[1] = "*int"  -> << <<"ldw@", "hl", o[2]>> >>
      [] o[1] \in {"*id", "*temp"} ->
           (IF o[1] = "*id" THEN << <<"ldw@", "hl", o[2]>> >> ELSE << <<"pop", "hl">> >>)
           \o << <<"ld(rr)", "a", "hl">>, <<"incw", "hl">>, <<"ld(rr)", "h", "hl">>, <<"ld", "l", "a">> >>
InDE(o) ==
    CASE o[1] = "int"  -> << <<"ldnn", "de", o[2]>> >>
      [] o[1] = "imm"  -> << <<"ldnn", "de", o[2]>> >>
      [] o[1] = "id"   -> << <<"ldw@", "de", o[2]>> >>
      [] o[1] = "temp" -> << <<"pop", "de">> >>

Oper16(o1, o2) == InDE(o2) \o InHL(o1)
Reversed16(o1, o2) == InHL(o2) \o InDE(o1)
InOrder16(o1, o2) == IF IsId(o2) THEN Reversed16(o2, o1) ELSE Oper16(o1, o2)
Either16(o1, o2) == IF IsId(o2) THEN Oper16(o2, o1) ELSE Oper16(o1, o2)

\* HL + n.
Plus(n) ==
    CASE n < 4     -> Times(n, << <<"incw", "hl">> >>)
      [] n > 65531 -> Times(Word - n, << <<"decw", "hl">> >>)
      [] OTHER     -> << <<"ldnn", "de", n>>, <<"addw", "de">> >>
add16(o1, o2) ==
    IF AnyInt(o1, o2)
    THEN LET o == _int_ops(o1, o2) IN InHL(o[1]) \o Plus(Wrap(o[2])) \o << PushHL >>
    ELSE Either16(o1, o2) \o << <<"addw", "de">>, PushHL >>

Minus(n) ==
    CASE n < 4     -> Times(n, << <<"decw", "hl">> >>)
      [] n > 65531 -> Times(Word - n, << <<"incw", "hl">> >>)
      [] OTHER     -> << <<"ldnn", "de", -n>>, <<"addw", "de">> >>
Subtract == << <<"or", "a">>, <<"sbcw", "de">> >>
sub16(o1, o2) ==
    IF IsInt(o2) THEN InHL(o1) \o Minus(Wrap(o2[2])) \o << PushHL >>
    ELSE InOrder16(o1, o2) \o Subtract \o << PushHL >>

Zero16 == << <<"ldnn", "hl", 0>>, PushHL >>
\* fault: an operand that is not needed stays on the stack.
DiscardedNever(o) == <<>>
Discarded(o) == IF IsId(o) THEN <<>> ELSE InHL(o)

mul16(o1, o2) ==
    IF AnyInt(o1, o2)
    THEN LET o == _int_ops(o1, o2)  n == o[2]
         IN  CASE n = 0     -> Discarded(o[1]) \o Zero16
               [] n = 1     -> InHL(o[1]) \o << PushHL >>
               [] n = 65535 -> InHL(o[1]) \o << Call("NEGHL"), PushHL >>
               [] n \in {2, 4, 8} ->
                    InHL(o[1]) \o Times(CHOOSE k \in 1 .. 3 : n = 2^k, << <<"addw", "hl">> >>)
                    \o << PushHL >>
               [] OTHER     -> InHL(o[1]) \o << <<"ldnn", "de", n>>, Call("MUL16_FAST"), PushHL >>
    ELSE Either16(o1, o2) \o << Call("MUL16_FAST"), PushHL >>

Divide16(halve, routine, o1, o2) ==
    CASE Constant(o1, 0) -> Discarded(o2) \o Zero16
      [] ~Constant(o1, 0) /\ IsInt(o2) ->
           InHL(o1) \o (CASE Wrap(o2[2]) = 1 -> <<>>
                          [] Wrap(o2[2]) = 2 -> << <<halve, "h">>, <<"rr", "l">> >>
                          [] OTHER -> << <<"ldnn", "de", o2[2]>>, Call(routine) >>) \o << PushHL >>
      [] OTHER -> InOrder16(o1, o2) \o << Call(routine), PushHL >>
divu16(o1, o2) == Divide16("srl", "DIVU16", o1, o2)
divi16(o1, o2) == Divide16("sra", "DIVI16", o1, o2)

Modulo16(routine, o1, o2) ==
    IF IsInt(o2)
    THEN LET n == Wrap(o2[2])
         IN  InHL(o1) \o
             (CASE n = 1 -> << <<"ldnn", "hl", 0>> >>
                [] n \in PowersOf2 /\ n > 255 ->
                     << <<"ld", "a", "h">>, <<"andn", (n - 1) \div 256>>, <<"ld", "h", "a">> >>
                [] n \in PowersOf2 /\ n \in 2 .. 255 ->
                     << <<"ldn", "h", 0>>, <<"ld", "a", "l">>, <<"andn", (n - 1) % 255>>,
                        <<"ld", "l", "a">> >>
                [] OTHER -> << <<"ldnn", "de", n>>, Call(routine) >>) \o << PushHL >>
    ELSE Oper16(o1, o2) \o << Call(routine), PushHL >>
modu16(o1, o2) == Modulo16("MODU16", o1, o2)
modi16(o1, o2) == Modulo16("MODI16", o1, o2)
-----------------------------------------------------------------------------
ltu16(o1, o2) == Oper16(o1, o2) \o Subtract \o Truth
gtu16(o1, o2) == Reversed16(o1, o2) \o Subtract \o Truth
leu16(o1, o2) == Reversed16(o1, o2) \o Subtract \o << <<"ccf">> >> \o Truth
geu16(o1, o2) == Oper16(o1, o2) \o Subtract \o << <<"ccf">> >> \o Truth
lti16(o1, o2) == Oper16(o1, o2) \o << Call("LTI16"), PushA >>
gti16(o1, o2) == Reversed16(o1, o2) \o << Call("LTI16"), PushA >>
lei16(o1, o2) == Oper16(o1, o2) \o << Call("LEI16"), PushA >>
gei16(o1, o2) == Reversed16(o1, o2) \o << Call("LEI16"), PushA >>
HLInA == << <<"ld", "a", "h">>, <<"or", "l">> >>        \* 0 just if HL is 0
eq16(o1, o2) == Oper16(o1, o2) \o << Call("EQ16"), PushA >>
ne16(o1, o2) == Oper16(o1, o2) \o Subtract \o HLInA \o << PushA >>

or16(o1, o2) ==
    IF AnyInt(o1, o2)
    THEN LET o == _int_ops(o1, o2)
         IN  InHL(o[1]) \o (IF o[2] = 0 THEN HLInA ELSE << <<"ldn", "a", 255>> >>) \o << PushA >>
    ELSE Oper16(o1, o2) \o HLInA \o << <<"or", "d">>, <<"or", "e">>, PushA >>
and16(o1, o2) ==
    IF AnyInt(o1, o2)
    THEN LET o == _int_ops(o1, o2)
         IN  InHL(o[1]) \o (IF o[2] # 0 THEN HLInA ELSE << <<"xor", "a">> >>) \o << PushA >>
    ELSE Oper16(o1, o2) \o << Call("AND16"), PushA >>
xor16(o1, o2) ==
    IF AnyInt(o1, o2)
    THEN LET o == _int_ops(o1, o2)
         IN  InHL(o[1]) \o HLInA \o (IF o[2] = 0 THEN <<>> ELSE NotA) \o << PushA >>
    ELSE Oper16(o1, o2) \o << Call("XOR16"), PushA >>
not16(o) == InHL(o) \o HLInA \o NotA \o << PushA >>

\* The operands as _int_ops leaves them, a constant second.
ConstantLast16(o1, o2) == IF IsInt(o1) THEN Oper16(o2, o1) ELSE Oper16(o1, o2)
bor16(o1, o2) ==
    IF AnyInt(o1, o2) /\ _int_ops(o1, o2)[2] \in {0, 65535}
    THEN LET o == _int_ops(o1, o2)
         IN  InHL(o[1]) \o (IF o[2] = 0 THEN <<>> ELSE << <<"ldnn", "hl", 65535>> >>) \o << PushHL >>
    ELSE ConstantLast16(o1, o2) \o << Call("BOR16"), PushHL >>
band16(o1, o2) ==
    IF AnyInt(o1, o2) /\ _int_ops(o1, o2)[2] \in {0, 65535}
    THEN LET o == _int_ops(o1, o2)
         IN  IF o[2] = 65535 THEN <<>> ELSE InHL(o[1]) \o Zero16
    ELSE ConstantLast16(o1, o2) \o << Call("BAND16"), PushHL >>
bxor16(o1, o2) ==
    IF AnyInt(o1, o2) /\ _int_ops(o1, o2)[2] = 0
    THEN InHL(_int_ops(o1, o2)[1]) \o << PushHL >>
    ELSE ConstantLast16(o1, o2) \o << Call("BXOR16"), PushHL >>
bnot16(o) == InHL(o) \o << Call("BNOT16"), PushHL >>
neg16(o) == InHL(o) \o << Call("NEGHL"), PushHL >>
abs16(o) == InHL(o) \o << Call("ABS16"), PushHL >>

\* The amount is a byte.  A shift by the constant 0 emits nothing at all.
Shift16(code, few, first, o1, o2) ==
    CASE Constant(o2, 0) -> <<>>
      [] IsInt(o2) /\ o2[2] \in 1 .. few -> InHL(o1) \o Times(o2[2], first) \o << PushHL >>
      [] IsInt(o2) /\ o2[2] > few ->
           InHL(o1) \o << <<"ldn", "b", o2[2]>> >> \o Loop(code) \o << PushHL >>
      [] OTHER -> InA(o2) \o << <<"ld", "b", "a">> >> \o InHL(o1)
                  \o << <<"or", "a">>, <<"jp", "z", "none">> >> \o Loop(code)
                  \o << <<"label", "none">>, PushHL >>
Right(op) == << <<op, "h">>, <<"rr", "l">> >>
shru16(o1, o2) == Shift16(Right("srl"), 1, Right("srl"), o1, o2)
shri16(o1, o2) == Shift16(Right("sra"), 1, Right("srl"), o1, o2)
shl16(o1, o2) == Shift16(<< <<"addw", "hl">> >>, 5, << <<"addw", "hl">> >>, o1, o2)
-----------------------------------------------------------------------------
load16(o) == InHL(o) \o << PushHL >>

param16(o) == load16(o)
fparam16(o) == InHL(o)
ret16(o, label) == InHL(o) \o << <<"jp", "always", label>> >>

\* fault: only one byte is written.
StoreE == << <<"ld(rr)r", "hl", "e">> >>
StoreDE == << <<"ld(rr)r", "hl", "e">>, <<"incw", "hl">>, <<"ld(rr)r", "hl", "d">> >>
store16(d, o) ==
    InHL(o) \o
    (CASE d[1] = "id"   -> << <<"ld@w", d[2], "hl">> >>
       [] d[1] = "*id"  -> << <<"exdehl">>, <<"ldw@", "hl", d[2]>> >> \o StoreDE
       [] d[1] = "temp" -> << <<"exdehl">>, <<"pop", "hl">> >> \o StoreDE)

jzero16(o, label) ==
    IF IsInt(o) THEN Decided(o[2] = 0, label)
    ELSE InHL(o) \o HLInA \o << <<"jp", "z", label>> >>
jnzero16(o, label) ==
    IF IsInt(o) THEN Decided(o[2] # 0, label)
    ELSE InHL(o) \o HLInA \o << <<"jp", "nz", label>> >>
jgezerou16(o, label) == (IF IsInt(o) THEN <<>> ELSE InHL(o)) \o Decided(TRUE, label)
jgezeroi16(o, label) ==
    IF IsInt(o) THEN Decided(o[2] >= 0, label)
    ELSE InHL(o) \o << <<"addw", "hl">>, <<"jp", "nc", label>> >>
-----------------------------------------------------------------------------
\* Conversions, of what is in A, HL or DEHL, from a type.
normalize_boolean == NotA \o << <<"inc", "a">> >>
to_byte(type) ==
    CASE type = "bool" -> normalize_boolean
      [] type \in {"i8", "u8"} -> <<>>
      [] type \in {"i16", "u16", "i32", "u32"} -> << <<"ld", "a", "l">> >>
      [] type = "f16" -> << <<"ld", "a", "e">> >>
      [] type = "f" -> << Call("FTOU32REG"), <<"ld", "a", "l">> >>
to_word(type) ==
    CASE type = "bool" -> normalize_boolean \o << <<"ld", "l", "a">>, <<"ldn", "h", 0>> >>
      [] type = "u8" -> << <<"ld", "l", "a">>, <<"ldn", "h", 0>> >>
      [] type = "i8" -> << <<"ld", "l", "a">>, <<"add", "a">>, <<"sbc", "a">>, <<"ld", "h", "a">> >>
      [] type \in {"i16", "u16", "i32", "u32"} -> <<>>
      [] type = "f16" -> << <<"exdehl">> >>
      [] type = "f" -> << Call("FTOU32REG") >>
to_long(type) ==
    CASE type = "bool" -> to_word(type) \o << <<"ld", "e", "h">>, <<"ld", "d", "h">> >>
      [] type \in {"i8", "u8"} -> to_word(type) \o << <<"ld", "e", "h">>, <<"ld", "d", "h">> >>
      [] type = "i16" -> << <<"ld", "a", "h">>, <<"add", "a">>, <<"sbc", "a">>,
                            <<"ld", "e", "a">>, <<"ld", "d", "a">> >>
      [] type = "u16" -> << <<"ldnn", "de", 0>> >>
      [] type \in {"i32", "u32"} -> <<>>
      [] type = "f16" -> << <<"exdehl">>, <<"ldnn", "de", 0>>, <<"ld", "a", "h">>, <<"add", "a">>,
                            <<"sbc", "a">>, <<"ld", "e", "a">>, <<"ld", "d", "a">> >>
      [] type = "f" -> << Call("FTOU32REG") >>
=============================================================================
