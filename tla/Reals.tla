------------------------------- MODULE Reals -------------------------------
(***************************************************************************)
(* The runtime's routines for numbers of floating and of fixed point       *)
(* (src/lib/arch/zx48k/runtime), which Arith has for the integers.  A      *)
(* float comes in A, E, D, C, B: the exponent and the mantissa; on the     *)
(* stack it is BC, DE, AF.  A fixed is a long of which the high word is    *)
(* the whole part.  What is done by the ROM's calculator is a program for  *)
(* it (Calculator).                                                        *)
(***************************************************************************)
EXTENDS Arith

LOADF == << <<"ld(rr)", "a", "hl">>, <<"incw", "hl">>, <<"ld(rr)", "e", "hl">>, <<"incw", "hl">>,
            <<"ld(rr)", "d", "hl">>, <<"incw", "hl">>, <<"ld(rr)", "c", "hl">>, <<"incw", "hl">>,
            <<"ld(rr)", "b", "hl">>, Ret >>
STOREF == << <<"ld(rr)r", "hl", "a">>, <<"incw", "hl">>, <<"ld(rr)r", "hl", "e">>, <<"incw", "hl">>,
             <<"ld(rr)r", "hl", "d">>, <<"incw", "hl">>, <<"ld(rr)r", "hl", "c">>, <<"incw", "hl">>,
             <<"ld(rr)r", "hl", "b">>, Ret >>
\* Pushes the float whose last byte HL points to.
FP_PUSH_REV ==
    LET Two == << <<"ld(rr)", "d", "hl">>, <<"decw", "hl">>, <<"ld(rr)", "e", "hl">>, <<"decw", "hl">>,
                  <<"push", "de">> >>
    IN  << <<"push", "hl">>, <<"exx">>, <<"pop", "hl">>, <<"pop", "bc">> >> \o Two \o Two
        \o << <<"ld(rr)", "d", "hl">>, <<"push", "de">>, <<"push", "bc">>, <<"exx">>, Ret >>

\* Both operands go to the calculator: the one in registers, then the one on
\* the stack, from under two return addresses.
FPSTACK_PUSH2 ==
    << <<"stk-store">>, <<"exx">>, <<"pop", "hl">>, <<"exx">>, <<"pop", "hl">>,
       <<"pop", "af">>, <<"pop", "de">>, <<"pop", "bc">>,
       <<"push", "hl">>, <<"exx">>, <<"push", "hl">>, <<"exx">>, <<"stk-store">>, Ret >>
Push2 == << <<"call", "always", "FPSTACK_PUSH2">> >>
ByRom(program) == << <<"rst28", program>>, <<"stk-fetch">> >>
FTOU8 == << <<"call", "always", "FTOU32REG">>, <<"ld", "a", "l">>, Ret >>

ADDF == Push2 \o ByRom(<<"add">>) \o << Ret >>
SUBF == Push2 \o ByRom(<<"exchange", "sub">>) \o << Ret >>
MULF == Push2 \o ByRom(<<"mul">>) \o << Ret >>
\* The error of the ROM comes back here, as zero.
DIVF == Push2 \o << <<"jp", "zero divisor", "by zero">> >> \o ByRom(<<"exchange", "div">>) \o << Ret >>
        \o << <<"label", "by zero">>, <<"xor", "a">>, <<"ld", "b", "a">>, <<"ld", "c", "a">>,
              <<"ld", "d", "a">>, <<"ld", "e", "a">>, Ret >>
MODF == Push2 \o ByRom(<<"exchange", "n-mod-m", "delete">>) \o << Ret >>
POW == Push2 \o ByRom(<<"exchange", "pow">>) \o << Ret >>
NEGF == << <<"stk-store">> >> \o ByRom(<<"negate">>) \o << Ret >>

LTF == Push2 \o ByRom(<<">">>) \o FTOU8
GTF == Push2 \o ByRom(<<"<">>) \o FTOU8
LEF == Push2 \o ByRom(<<">=">>) \o FTOU8
GEF == Push2 \o ByRom(<<"<=">>) \o FTOU8
EQF == Push2 \o ByRom(<<"=">>) \o FTOU8
NEF == Push2 \o ByRom(<<"<>">>) \o FTOU8
ORF == Push2 \o ByRom(<<"or">>) \o FTOU8
ANDF == Push2 \o ByRom(<<"and">>) \o FTOU8
XORF == Push2 \o ByRom(<<"store", "delete", "duplicate", "not", "recall", "and",
                         "exchange", "recall", "not", "and", "or">>) \o FTOU8
NOTF == << <<"stk-store">> >> \o ByRom(<<"not">>) \o FTOU8
-----------------------------------------------------------------------------
\* The mantissa goes to C'B'E'D', and zero to DEHL ...
Unpacked == << <<"push", "de">>, <<"push", "bc">>, <<"exx">>, <<"pop", "de">>, <<"pop", "bc">>,
               <<"set7", "c">>, <<"exx">>, <<"ldnn", "hl", 0>>, <<"ld", "d", "h">>, <<"ld", "e", "l">> >>
\* ... which B bits of it enter; then the sign, that was pushed.  What is
\* left rounds a negative number down.
FTOU32REG_LOOP ==
    << <<"label", "loop">>, <<"exx">>, <<"sla", "d">>, <<"rl", "e">>, <<"rl", "b">>, <<"rl", "c">>,
       <<"exx">>, <<"rl", "l">>, <<"rl", "h">>, <<"rl", "e">>, <<"rl", "d">>, <<"djnz", "loop">>,
       <<"label", "end">>, <<"pop", "af">>, <<"or", "a">>, <<"jp", "m", "negative">>, Ret,
       <<"label", "negative">>, <<"exx">>, <<"ld", "a", "d">>, <<"or", "e">>, <<"or", "b">>, <<"or", "c">>,
       <<"exx">>, <<"jp", "z", "whole">>, <<"inc", "l">>, <<"jp", "nz", "whole">>,
       <<"inc", "h">>, <<"jp", "nz", "whole">>, <<"incw", "de">>, <<"label", "whole">> >> \o NEG32
FTOU32REG ==
    << <<"or", "a">>, <<"jp", "nz", "is float">>,
       <<"ld", "h", "c">>, <<"ld", "l", "d">>, <<"ld", "d", "e">>, Ret,
       <<"label", "is float">>, <<"ld", "h", "e">>, <<"push", "hl">> >> \o Unpacked
    \o << <<"subn", 128>>, <<"jp", "z", "end">>, <<"jp", "c", "end">>, <<"ld", "b", "a">> >>
    \o FTOU32REG_LOOP
FTOF16REG ==
    << <<"ld", "l", "a">>, <<"or", "d">>, <<"or", "e">>, <<"or", "b">>, <<"or", "c">>, <<"ld", "h", "e">>,
       <<"ret", "z">>, <<"push", "hl">> >> \o Unpacked
    \o << <<"pop", "bc">>, <<"ld", "a", "c">>, <<"subn", 112>>, <<"push", "bc">>,
          <<"jp", "z", "end">>, <<"jp", "c", "end">>, <<"ld", "b", "a">> >>
    \o FTOU32REG_LOOP

\* DEHL, if not zero, goes to B'C'D'E', and from there to the mantissa.
U32TOFREG_LOOP(exponent) ==
    << <<"push", "de">>, <<"push", "hl">>, <<"exx">>, <<"pop", "de">>, <<"pop", "bc">>, <<"exx">>,
       <<"ldn", "l", exponent>>, <<"ldnn", "bc", 0>>, <<"ld", "d", "b">>, <<"ld", "e", "c">>,
       <<"label", "loop">>, <<"exx">>, <<"ld", "a", "d">>, <<"or", "e">>, <<"or", "b">>, <<"or", "c">>,
       <<"jp", "z", "end">>, <<"srl", "b">>, <<"rr", "c">>, <<"rr", "d">>, <<"rr", "e">>, <<"exx">>,
       <<"rr", "e">>, <<"rr", "d">>, <<"rr", "c">>, <<"rr", "b">>, <<"inc", "l">>, <<"jp", "always", "loop">>,
       <<"label", "end">>, <<"exx">>, <<"ld", "a", "l">>, <<"res7", "e">>, Ret >>
DEHLZero == << <<"ld", "a", "d">>, <<"or", "e">>, <<"or", "h">>, <<"or", "l">> >>
U32TOFREG == DEHLZero \o << <<"ld", "b", "d">>, <<"ld", "c", "e">>, <<"ret", "z">> >> \o U32TOFREG_LOOP(128)
F16TOFREG2 == DEHLZero \o << <<"ld", "b", "h">>, <<"ld", "c", "l">>, <<"ret", "z">> >> \o U32TOFREG_LOOP(112)
\* Of a negative number, the opposite is converted.
OfMagnitude(routine) ==
    << <<"ld", "a", "d">>, <<"or", "a">>, <<"jp", "p", "positive">>, <<"call", "always", "NEG32">>,
       <<"call", "always", routine>>, <<"set7", "e">>, Ret, <<"label", "positive">> >>
I32TOFREG == OfMagnitude("U32TOFREG") \o U32TOFREG
F16TOFREG == OfMagnitude("F16TOFREG2") \o F16TOFREG2
I8TOFREG == << <<"ld", "l", "a">>, <<"rlca">>, <<"sbc", "a">>, <<"ld", "h", "a">>,
               <<"ld", "e", "a">>, <<"ld", "d", "a">> >> \o I32TOFREG
U8TOFREG == << <<"ld", "l", "a">>, <<"ldn", "h", 0>>, <<"ld", "e", "h">>, <<"ld", "d", "h">> >> \o U32TOFREG
-----------------------------------------------------------------------------
\* Of the 64 bits of the product, the middle ones, rounded.
MULF16 ==
    << <<"ld", "a", "d">>, <<"exaf">>, <<"call", "always", "ABS32">>,
       <<"exx">>, <<"pop", "hl">>, <<"pop", "de">>, <<"exsp">>, <<"exdehl">>,
       <<"exaf">>, <<"xor", "d">>, <<"exaf">>, <<"call", "always", "ABS32">>,
       <<"call", "always", "MUL32_64START">>,
       <<"sla", "a">>, <<"exx">>, <<"ldnn", "hl", 0>>, <<"adcw", "bc">>, <<"push", "hl">>,
       <<"exx">>, <<"ldnn", "bc", 0>>, <<"adcw", "bc">>, <<"exdehl">>, <<"pop", "hl">>,
       <<"exaf">>, <<"or", "a">>, <<"jp", "m", "negative">>, Ret, <<"label", "negative">> >> \o NEG32

\* DEHL = the divisor, on the stack the dividend: 16 places more, by moving
\* the dividend up, then the divisor down, then the quotient up.
DIVF16 ==
    Dividend
    \o << <<"exdehl">>, <<"ld", "a", "d">>, <<"exaf">>, <<"bit7", "d">>, <<"call", "nz", "NEG32">>,
          <<"exx">>, <<"exaf">>, <<"xor", "d">>, <<"exaf">>, <<"bit7", "d">>, <<"call", "nz", "NEG32">>,
          <<"exx">>, <<"ldn", "b", 16>>,
          <<"label", "shift a">>, <<"bit7", "d">>, <<"jp", "nz", "shift b">>,
          <<"addw", "hl">>, <<"exdehl">>, <<"adcw", "hl">>, <<"exdehl">>, <<"djnz", "shift a">>,
          <<"jp", "always", "ready">>,
          <<"label", "shift b">>, <<"ld", "a", "b">>, <<"exx">>, <<"ld", "b", "a">>,
          <<"label", "shift b loop">>, <<"bit1", "l">>, <<"jp", "nz", "divide">>,
          <<"sra", "d">>, <<"rr", "e">>, <<"rr", "h">>, <<"rr", "l">>, <<"djnz", "shift b loop">>,
          <<"label", "divide">>, <<"ld", "a", "b">>, <<"exx">>, <<"ld", "b", "a">>,
          <<"label", "ready">>, <<"exx">>, <<"exdehl">>, <<"push", "bc">>,
          <<"call", "always", "DIVU32START">>, <<"pop", "bc">>,
          <<"xor", "a">>, <<"or", "b">>, <<"jp", "z", "sign">>,
          <<"label", "shift c">>, <<"addw", "hl">>, <<"exdehl">>, <<"adcw", "hl">>, <<"exdehl">>,
          <<"djnz", "shift c">>,
          <<"label", "sign">>, <<"exaf">>, <<"andn", 128>>, <<"ret", "z">> >> \o NEG32

\* The fraction of the quotient by the divisor.
MEMBOT == 23698
MODF16 ==
    << <<"pop", "bc">>, <<"ld@w", MEMBOT, "bc">>, <<"ld@w", MEMBOT + 2, "hl">>, <<"ld@w", MEMBOT + 4, "de">>,
       <<"call", "always", "DIVF16">>, <<"rlc", "d">>, <<"sbc", "a">>, <<"ld", "d", "a">>, <<"ld", "e", "a">>,
       <<"ldw@", "bc", MEMBOT + 4>>, <<"push", "bc">>, <<"ldw@", "bc", MEMBOT + 2>>, <<"push", "bc">>,
       <<"ldw@", "bc", MEMBOT>>, <<"push", "bc">> >> \o MULF16
-----------------------------------------------------------------------------
RealRoutines ==
    [LOADF |-> LOADF, STOREF |-> STOREF, FP_PUSH_REV |-> FP_PUSH_REV, FPSTACK_PUSH2 |-> FPSTACK_PUSH2,
     ADDF |-> ADDF, SUBF |-> SUBF, MULF |-> MULF, DIVF |-> DIVF, MODF |-> MODF, POW |-> POW, NEGF |-> NEGF,
     LTF |-> LTF, GTF |-> GTF, LEF |-> LEF, GEF |-> GEF, EQF |-> EQF, NEF |-> NEF, ORF |-> ORF,
     ANDF |-> ANDF, XORF |-> XORF, NOTF |-> NOTF, FTOU32REG |-> FTOU32REG, FTOF16REG |-> FTOF16REG,
     U32TOFREG |-> U32TOFREG, I32TOFREG |-> I32TOFREG, I8TOFREG |-> I8TOFREG, U8TOFREG |-> U8TOFREG,
     F16TOFREG |-> F16TOFREG, F16TOFREG2 |-> F16TOFREG2,
     MULF16 |-> MULF16, DIVF16 |-> DIVF16, MODF16 |-> MODF16]
=============================================================================
