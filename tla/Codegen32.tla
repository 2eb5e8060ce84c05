----------------------------- MODULE Codegen32 -----------------------------
(***************************************************************************)
(* The code the backend emits for operations on longs                      *)
(* (src/arch/z80/backend/_32bit.py) and for conversions between types      *)
(* (generic.py).  A long in memory or on the stack is two words, the high  *)
(* one above.  Operands are those of Codegen8; the value of an immediate   *)
(* one is <<high, low>>.                                                   *)
(***************************************************************************)
EXTENDS Codegen16

Halves32(o) ==
    IF IsInt(o) THEN <<(o[2] \div Word) % Word, o[2] % Word>> ELSE o[2]
IsTemp(o) == o[1] = "temp"
PushLong == << <<"push", "de">>, PushHL >>

\* One operand in DE and low, which is HL or BC.
InDEAnd(low, o) ==
    CASE o[1] \in {"int", "imm"} ->
           << <<"ldnn", "de", Halves32(o)[1]>>, <<"ldnn", low, Halves32(o)[2]>> >>
      [] o[1] = "id"   -> << <<"ldw@", low, o[2]>>, <<"ldw@", "de", o[2] + 2>> >>
      [] o[1] = "temp" -> << <<"pop", low>>, <<"pop", "de">> >>
      [] o[1] \in {"*int", "*id", "*temp"} ->
           << IF o[1] = "*temp" THEN <<"pop", low>> ELSE <<"ldw@", low, o[2]>>, Call("ILOAD32") >>
           \o (IF low = "bc" THEN << <<"ld", "b", "h">>, <<"ld", "c", "l">> >> ELSE <<>>)
InDEHL(o) == InDEAnd("hl", o)

\* Two operands: the last in DEHL, the first on the stack.  A variable is
\* pushed first, so that a temporary after it is left below.
Oper32(o1, o2, reversed) ==
    (CASE o1[1] = "id" ->
            << <<"ldw@", "hl", o1[2] + 2>>, PushHL, <<"ldw@", "hl", o1[2]>>, PushHL >> \o InDEHL(o2)
       [] o1[1] \in {"int", "imm"} ->
            InDEHL(o2) \o << <<"ldnn", "bc", Halves32(o1)[1]>>, <<"push", "bc">>,
                             <<"ldnn", "bc", Halves32(o1)[2]>>, <<"push", "bc">> >>
       [] o1[1] = "temp" -> InDEHL(o2))
    \o (IF reversed THEN << Call("SWAP32") >> ELSE <<>>)
\* fault: the operands are taken to be in order whatever they are.
LeftBelowNever(o1, o2) == FALSE
LeftBelow(o1, o2) == ~IsTemp(o1) /\ ~IsInt(o1) /\ IsTemp(o2)
FirstBelow(o1, o2) == Oper32(o1, o2, LeftBelow(o1, o2))
FirstInDEHL(o1, o2) == Oper32(o1, o2, ~LeftBelow(o1, o2))

add32(o1, o2) ==
    IF AnyInt(o1, o2) /\ _int_ops(o1, o2)[2] = 0 THEN InDEHL(_int_ops(o1, o2)[1]) \o PushLong
    ELSE LET x == IF IsId(o1) /\ ~IsId(o2) THEN o2 ELSE o1
             y == IF IsId(o1) /\ ~IsId(o2) THEN o1 ELSE o2
         IN  (IF IsId(y)
              THEN InDEHL(x) \o << <<"ldw@", "bc", y[2]>>, <<"addw", "bc">>, <<"exdehl">>,
                                   <<"ldw@", "bc", y[2] + 2>> >>
              ELSE Oper32(x, y, FALSE) \o << <<"pop", "bc">>, <<"addw", "bc">>, <<"exdehl">>,
                                             <<"pop", "bc">> >>)
             \o << <<"adcw", "bc">>, PushHL, <<"push", "de">> >>

sub32(o1, o2) ==
    (IF Constant(o2, 0) THEN InDEHL(o1) ELSE FirstBelow(o1, o2) \o << Call("SUB32") >>) \o PushLong

Zero32 == << <<"ldnn", "hl", 0>>, PushHL, PushHL >>
mul32(o1, o2) ==
    LET o == _int_ops(o1, o2)
    IN  CASE AnyInt(o1, o2) /\ o[2] = 1 -> InDEHL(o[1]) \o PushLong
          [] AnyInt(o1, o2) /\ o[2] = 0 -> InDEHL(o[1]) \o Zero32
          [] AnyInt(o1, o2) /\ o[2] \notin {0, 1} ->
               Oper32(o[1], <<"int", o[2]>>, FALSE) \o << Call("MUL32") >> \o PushLong
          [] OTHER -> Oper32(o1, o2, FALSE) \o << Call("MUL32") >> \o PushLong

Unary32(routine, o) == InDEHL(o) \o << Call(routine) >> \o PushLong
divu32(o1, o2) ==
    (IF Constant(o2, 1) THEN InDEHL(o1) ELSE FirstInDEHL(o1, o2) \o << Call("DIVU32") >>) \o PushLong
divi32(o1, o2) ==
    CASE Constant(o2, 1)  -> InDEHL(o1) \o PushLong
      [] Constant(o2, -1) -> Unary32("NEG32", o1)
      [] OTHER -> FirstInDEHL(o1, o2) \o << Call("DIVI32") >> \o PushLong
Modulo32(routine, o1, o2) ==
    IF Constant(o2, 1) THEN InDEHL(o1) \o Zero32
    ELSE FirstInDEHL(o1, o2) \o << Call(routine) >> \o PushLong
modu32(o1, o2) == Modulo32("MODU32", o1, o2)
modi32(o1, o2) == Modulo32("MODI32", o1, o2)
-----------------------------------------------------------------------------
\* The last operand less the first: the carry, the high word's.
LastLess == << <<"pop", "bc">>, <<"or", "a">>, <<"sbcw", "bc">>, <<"exdehl">>,
               <<"pop", "de">>, <<"sbcw", "de">> >>
ltu32(o1, o2) == FirstBelow(o1, o2) \o << Call("SUB32") >> \o Truth
geu32(o1, o2) == FirstBelow(o1, o2) \o << Call("SUB32"), <<"ccf">> >> \o Truth
gtu32(o1, o2) == FirstBelow(o1, o2) \o LastLess \o Truth
leu32(o1, o2) == FirstBelow(o1, o2) \o LastLess \o << <<"ccf">> >> \o Truth
lti32(o1, o2) == FirstBelow(o1, o2) \o << Call("LTI32"), PushA >>
lei32(o1, o2) == FirstBelow(o1, o2) \o << Call("LEI32"), PushA >>
gti32(o1, o2) == FirstBelow(o1, o2) \o << Call("LEI32") >> \o NotA \o << PushA >>
gei32(o1, o2) == FirstBelow(o1, o2) \o << Call("LTI32") >> \o NotA \o << PushA >>
eq32(o1, o2) == Oper32(o1, o2, FALSE) \o << Call("EQ32"), PushA >>
ne32(o1, o2) == Oper32(o1, o2, FALSE) \o << Call("EQ32") >> \o NotA \o << PushA >>

or32(o1, o2) == Oper32(o1, o2, FALSE) \o << Call("OR32"), PushA >>
xor32(o1, o2) == Oper32(o1, o2, FALSE) \o << Call("XOR32"), PushA >>
and32(o1, o2) ==
    LET o == _int_ops(o1, o2)
    IN  CASE AnyInt(o1, o2) /\ o[2] = 0 ->
               (IF IsTemp(o[1]) THEN InDEHL(o[1]) ELSE <<>>) \o << <<"xor", "a">>, PushA >>
          [] AnyInt(o1, o2) /\ o[2] # 0 ->
               Oper32(o[1], <<"int", o[2]>>, FALSE) \o << Call("AND32"), PushA >>
          [] OTHER -> FirstBelow(o1, o2) \o << Call("AND32"), PushA >>
not32(o) == InDEHL(o) \o << Call("NOT32"), PushA >>

band32(o1, o2) == Oper32(o1, o2, FALSE) \o << Call("BAND32") >> \o PushLong
bor32(o1, o2) == Oper32(o1, o2, FALSE) \o << Call("BOR32") >> \o PushLong
bxor32(o1, o2) == Oper32(o1, o2, FALSE) \o << Call("BXOR32") >> \o PushLong
bnot32(o) == Unary32("BNOT32", o)
neg32(o) == Unary32("NEG32", o)
abs32(o) == Unary32("ABS32", o)

Shift32(routine, o1, o2) ==
    CASE Constant(o2, 0) -> InDEHL(o1) \o PushLong
      [] Constant(o2, 1) -> InDEHL(o1) \o << Call(routine) >> \o PushLong
      [] IsInt(o2) /\ o2[2] > 1 ->
           InDEHL(o1) \o << <<"ldn", "b", o2[2]>> >> \o Loop(<< Call(routine) >>) \o PushLong
      [] OTHER ->
           InA(o2) \o << <<"ld", "b", "a">> >> \o InDEHL(o1)
           \o << <<"or", "a">>, <<"jp", "z", "none">> >> \o Loop(<< Call(routine) >>)
           \o << <<"label", "none">> >> \o PushLong
shru32(o1, o2) == Shift32("SHRL32", o1, o2)
shri32(o1, o2) == Shift32("SHRA32", o1, o2)
shl32(o1, o2) == Shift32("SHL32", o1, o2)
-----------------------------------------------------------------------------
load32(o) == InDEHL(o) \o PushLong

param32(o) == load32(o)
fparam32(o) == InDEHL(o)
ret32(o, label) == InDEHL(o) \o << <<"jp", "always", label>> >>

store32(d, o) ==
    CASE d[1] = "id" -> InDEHL(o) \o << <<"ld@w", d[2], "hl">>, <<"ld@w", d[2] + 2, "de">> >>
      [] d[1] = "*id" -> InDEAnd("bc", o) \o << <<"ldw@", "hl", d[2]>>, Call("STORE32") >>
      [] d[1] = "temp" -> InDEAnd("bc", o) \o << <<"pop", "hl">>, Call("STORE32") >>

DEHLInA == << <<"ld", "a", "h">>, <<"or", "l">>, <<"or", "e">>, <<"or", "d">> >>
jzero32(o, label) ==
    IF IsInt(o) THEN Decided(o[2] = 0, label)
    ELSE InDEHL(o) \o DEHLInA \o << <<"jp", "z", label>> >>
jnzero32(o, label) ==
    IF IsInt(o) THEN Decided(o[2] # 0, label)
    ELSE InDEHL(o) \o DEHLInA \o << <<"jp", "nz", label>> >>
jgezerou32(o, label) == (IF IsInt(o) THEN <<>> ELSE InDEHL(o)) \o Decided(TRUE, label)
jgezeroi32(o, label) ==
    IF IsInt(o) THEN Decided(o[2] >= 0, label)
    ELSE InDEHL(o) \o << <<"ld", "a", "d">>, <<"add", "a">>, <<"jp", "nc", label>> >>
\* A call of a function whose result takes so many bytes, which is pushed.
call(f, bytes) ==
    << Call(f) >> \o (CASE bytes = 1 -> << PushA >> [] bytes = 2 -> << PushHL >>
                       [] bytes = 4 -> PushLong
                       [] bytes = 5 -> << <<"push", "bc">>, <<"push", "de">>, PushA >>)
=============================================================================
