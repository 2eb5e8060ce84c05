---------------------------- MODULE CodegenReal ----------------------------
(***************************************************************************)
(* The code the backend emits for operations on numbers of floating point  *)
(* (src/arch/z80/backend/_float.py) and of fixed point (_f16.py), and for  *)
(* conversions between types (generic.py, common.py).  A constant operand  *)
(* is <<"int", r>>, r its sign, whole part and fraction in 65536ths.       *)
(***************************************************************************)
EXTENDS Codegen32

Is(o, n) == IsInt(o) /\ o[2] = [negative |-> n < 0, whole |-> IF n < 0 THEN -n ELSE n, fraction |-> 0]
IsNegative(o) == o[2].negative

\* The words of a constant of fixed point, complemented if it is negative.
f16(r) ==
    LET low == IF r.negative THEN 65535 - r.fraction + 1 ELSE r.fraction
        high == IF r.negative THEN 65535 - r.whole + (low \div Word) ELSE r.whole
    IN  <<high % Word, low % Word>>
\* As an operand of the operations on longs (with the sign those of the
\* source have not: none of them looks at it).
f16_to_32bit(o) ==
    IF ~IsInt(o) THEN o
    ELSE LET w == f16(o[2]) IN <<"int", (IF w[1] > 32767 THEN w[1] - Word ELSE w[1]) * Word + w[2]>>
InDEHL16(o) == InDEHL(f16_to_32bit(o))
\* In place of the two operands, with what routine makes of them.
f16_binary(routine, o1, o2, reversible) ==
    Oper32(f16_to_32bit(o1), f16_to_32bit(o2), reversible /\ LeftBelow(o1, o2)) \o << Call(routine) >> \o PushLong

addf16(o1, o2) == add32(f16_to_32bit(o1), f16_to_32bit(o2))
subf16(o1, o2) == sub32(f16_to_32bit(o1), f16_to_32bit(o2))
\* The factor that is constant, if one is, is the second.
Factors(o1, o2) == IF IsInt(o1) THEN <<o2, o1>> ELSE <<o1, o2>>
mulf16(o1, o2) ==
    LET o == Factors(o1, o2)
    IN  CASE Is(o[2], 1)  -> InDEHL16(o[1]) \o PushLong
          [] Is(o[2], -1) -> neg32(o1)
          [] Is(o[2], 0)  -> InDEHL16(o[1]) \o << <<"ldnn", "hl", 0>>, <<"ld", "e", "h">>, <<"ld", "d", "l">> >> \o PushLong
          [] OTHER        -> f16_binary("MULF16", o1, o2, FALSE)

InADEBC(o) ==
    CASE o[1] = "int" ->
           LET f == Rom!Normal(o[2].negative, <<o[2].whole, o[2].fraction>>, 16)
           IN  << <<"ldn", "a", f[1]>>, <<"ldnn", "de", 256 * f[3] + f[2]>>, <<"ldnn", "bc", 256 * f[5] + f[4]>> >>
      [] o[1] = "id"   -> << <<"lda@", o[2]>>, <<"ldw@", "de", o[2] + 1>>, <<"ldw@", "bc", o[2] + 3>> >>
      [] o[1] = "temp" -> << <<"pop", "af">>, <<"pop", "de">>, <<"pop", "bc">> >>
      [] o[1] = "*id"   -> << <<"ldw@", "hl", o[2]>>, Call("LOADF") >>
      [] o[1] = "*temp" -> << <<"pop", "hl">>, Call("LOADF") >>
fpush == << <<"push", "bc">>, <<"push", "de">>, PushA >>
negf(o) == InADEBC(o) \o << Call("NEGF") >> \o fpush

divf16(o1, o2) ==
    CASE Is(o2, 1)  -> InDEHL16(o1) \o PushLong
      [] Is(o2, -1) -> negf(o1)
      [] OTHER      -> f16_binary("DIVF16", o1, o2, TRUE)
modf16(o1, o2) ==
    IF Is(o2, 1) THEN InDEHL16(o1) \o Zero32 ELSE f16_binary("MODF16", o1, o2, TRUE)

ltf16(o1, o2) == lti32(f16_to_32bit(o1), f16_to_32bit(o2))
gtf16(o1, o2) == gti32(f16_to_32bit(o1), f16_to_32bit(o2))
lef16(o1, o2) == lei32(f16_to_32bit(o1), f16_to_32bit(o2))
gef16(o1, o2) == gei32(f16_to_32bit(o1), f16_to_32bit(o2))
eqf16(o1, o2) == eq32(f16_to_32bit(o1), f16_to_32bit(o2))
nef16(o1, o2) == ne32(f16_to_32bit(o1), f16_to_32bit(o2))
orf16(o1, o2) == or32(f16_to_32bit(o1), f16_to_32bit(o2))
xorf16(o1, o2) == xor32(f16_to_32bit(o1), f16_to_32bit(o2))
andf16(o1, o2) == and32(f16_to_32bit(o1), f16_to_32bit(o2))
notf16(o) == not32(f16_to_32bit(o))
negf16(o) == neg32(f16_to_32bit(o))
absf16(o) == abs32(f16_to_32bit(o))

loadf16(o) == InDEHL16(o) \o PushLong
paramf16(o) == InDEHL16(o) \o PushLong
fparamf16(o) == InDEHL16(o)
retf16(o, label) == InDEHL16(o) \o << <<"jp", "always", label>> >>
storef16(d, o) == store32(d, f16_to_32bit(o))
jzerof16(o, label) == jzero32(f16_to_32bit(o), label)
jnzerof16(o, label) == jnzero32(f16_to_32bit(o), label)
jgezerof16(o, label) ==
    IF IsInt(o) /\ ~IsNegative(o) THEN Decided(TRUE, label)
    ELSE InDEHL16(o) \o << <<"ld", "a", "d">>, <<"add", "a">>, <<"jp", "nc", label>> >>
-----------------------------------------------------------------------------
\* Two floats: the last in A, DE, BC, the first on the stack.
OperF(o1, o2) ==
    CASE o1[1] = "int" ->
           LET f == Rom!Normal(o1[2].negative, <<o1[2].whole, o1[2].fraction>>, 16)
           IN  InADEBC(o2) \o << <<"ldnn", "hl", 256 * f[5] + f[4]>>, PushHL, <<"ldnn", "hl", 256 * f[3] + f[2]>>,
                                 PushHL, <<"ldn", "h", f[1]>>, PushHL >>
      [] o1[1] = "id" ->
           LET first == << <<"ldnn", "hl", o1[2] + 4>>, Call("FP_PUSH_REV") >>
           IN  IF IsInt(o2) THEN first \o InADEBC(o2) ELSE InADEBC(o2) \o first
      [] o1[1] = "temp" -> InADEBC(o2)
float_binary(routine, o1, o2) == OperF(o1, o2) \o << Call(routine) >> \o fpush
bool_binary(routine, o1, o2) == OperF(o1, o2) \o << Call(routine), PushA >>

addf(o1, o2) ==
    IF AnyInt(o1, o2) /\ Is(Factors(o1, o2)[2], 0) THEN InADEBC(Factors(o1, o2)[1]) \o fpush
    ELSE float_binary("ADDF", o1, o2)
subf(o1, o2) == IF Is(o2, 0) THEN InADEBC(o1) \o fpush ELSE float_binary("SUBF", o1, o2)
mulf(o1, o2) ==
    IF AnyInt(o1, o2) /\ Is(Factors(o1, o2)[2], 1) THEN InADEBC(Factors(o1, o2)[1]) \o fpush
    ELSE float_binary("MULF", o1, o2)
divf(o1, o2) == IF Is(o2, 1) THEN InADEBC(o1) \o fpush ELSE float_binary("DIVF", o1, o2)
modf(o1, o2) == float_binary("MODF", o1, o2)
powf(o1, o2) == IF Is(o2, 1) THEN InADEBC(o1) \o fpush ELSE float_binary("POW", o1, o2)

ltf(o1, o2) == bool_binary("LTF", o1, o2)
gtf(o1, o2) == bool_binary("GTF", o1, o2)
lef(o1, o2) == bool_binary("LEF", o1, o2)
gef(o1, o2) == bool_binary("GEF", o1, o2)
eqf(o1, o2) == bool_binary("EQF", o1, o2)
nef(o1, o2) == bool_binary("NEF", o1, o2)
orf(o1, o2) == bool_binary("ORF", o1, o2)
xorf(o1, o2) == bool_binary("XORF", o1, o2)
andf(o1, o2) == bool_binary("ANDF", o1, o2)
notf(o) == InADEBC(o) \o << Call("NOTF"), PushA >>
absf(o) == InADEBC(o) \o << <<"res7", "e">> >> \o fpush

loadf(o) == InADEBC(o) \o fpush
paramf(o) == InADEBC(o) \o fpush
fparamf(o) == InADEBC(o)
retf(o, label) == InADEBC(o) \o << <<"jp", "always", label>> >>
storef(d, o) ==
    InADEBC(o) \o << CASE d[1] = "id"   -> <<"ldnn", "hl", d[2]>>
                       [] d[1] = "*id"  -> <<"ldw@", "hl", d[2]>>
                       [] d[1] = "temp" -> <<"pop", "hl">>, Call("STOREF") >>

\* The registers tested are C, L, H, E and D.
CLHEDInA == << <<"ld", "a", "c">>, <<"or", "l">>, <<"or", "h">>, <<"or", "e">>, <<"or", "d">> >>
jzerof(o, label) ==
    IF IsInt(o) THEN Decided(Is(o, 0), label) ELSE InADEBC(o) \o CLHEDInA \o << <<"jp", "z", label>> >>
jnzerof(o, label) ==
    IF IsInt(o) THEN Decided(~Is(o, 0), label) ELSE InADEBC(o) \o CLHEDInA \o << <<"jp", "nz", label>> >>
jgezerof(o, label) ==
    IF IsInt(o) /\ ~IsNegative(o) THEN Decided(TRUE, label)
    ELSE InADEBC(o) \o << <<"ld", "a", "e">>, <<"add", "a">>, <<"jp", "nc", label>> >>
-----------------------------------------------------------------------------
to_fixed(type) ==
    IF type = "f" THEN << Call("FTOF16REG") >>
    ELSE to_word(type) \o << <<"exdehl">>, <<"ldnn", "hl", 0>> >>
to_float(type) ==
    CASE type = "f16"  -> << Call("F16TOFREG") >>
      [] type = "bool" -> normalize_boolean \o << Call("U8TOFREG") >>
      [] type = "u8"   -> << Call("U8TOFREG") >>
      [] type = "i8"   -> << Call("I8TOFREG") >>
      [] type \in {"i16", "i32"} -> to_long(type) \o << Call("I32TOFREG") >>
      [] type \in {"u16", "u32"} -> to_long(type) \o << Call("U32TOFREG") >>

\* A conversion, from and to types.
Bytes == {"bool", "i8", "u8"}
Words == {"i16", "u16"}
cast(from, to, o) ==
    IF from \in {"i8", "u8"} /\ to = "bool" THEN InA(o) \o << PushA >>
    ELSE (CASE from \in Bytes -> InA(o) [] from \in Words -> InHL(o) [] from \in {"i32", "u32"} -> InDEHL(o)
            [] from = "f16" -> InDEHL16(o) [] from = "f" -> InADEBC(o))
         \o (CASE to \in Bytes -> to_byte(from) \o << PushA >>
               [] to \in Words -> to_word(from) \o << PushHL >>
               [] to \in {"i32", "u32"} -> to_long(from) \o PushLong
               [] to = "f16" -> to_fixed(from) \o PushLong
               [] to = "f"   -> to_float(from) \o fpush)
=============================================================================
