------------------------------- MODULE Arith -------------------------------
(***************************************************************************)
(* The runtime's arithmetic, comparison and bitwise routines for bytes and *)
(* words (src/lib/arch/zx48k/runtime): for each the instructions from its  *)
(* fast entry point to its return.  Bytes come in A and H, words in HL and *)
(* DE.                                                                     *)
(***************************************************************************)
EXTENDS Z80

Ret == <<"ret", "always">>

\* A = A * H
MUL8_FAST ==
    << <<"ldn", "b", 8>>, <<"ld", "l", "a">>, <<"xor", "a">>,
       <<"label", "loop">>, <<"add", "a">>, <<"sla", "l">>, <<"jp", "nc", "no add">>,
       <<"add", "h">>,
       <<"label", "no add">>, <<"djnz", "loop">>, Ret >>

\* A, H = A / H; L = the remainder
DIVU8_FAST ==
    << <<"ld", "l", "h">>, <<"ld", "h", "a">>, <<"ldn", "b", 8>>, <<"xor", "a">>,
       <<"label", "loop">>, <<"sla", "h">>, <<"rla">>, <<"cp", "l">>, <<"jp", "c", "no sub">>,
       <<"sub", "l">>, <<"inc", "h">>,
       <<"label", "no sub">>, <<"djnz", "loop">>, <<"ld", "l", "a">>, <<"ld", "a", "h">>, Ret >>

DIVI8_FAST ==
    << <<"ld", "e", "a">>, <<"ld", "c", "h">>,
       <<"or", "a">>, <<"jp", "p", "a ready">>, <<"neg">>,
       <<"label", "a ready">>, <<"exaf">>, <<"ld", "a", "h">>,
       <<"or", "a">>, <<"jp", "p", "h ready">>, <<"neg">>, <<"ld", "h", "a">>,
       <<"label", "h ready">>, <<"exaf">>, <<"call", "always", "DIVU8_FAST">>,
       <<"ld", "a", "c">>, <<"xor", "l">>, <<"ld", "a", "h">>, <<"ret", "p">>,
       <<"neg">>, Ret >>

MODU8_FAST == << <<"call", "always", "DIVU8_FAST">>, <<"ld", "a", "l">>, Ret >>
MODI8_FAST == << <<"call", "always", "DIVI8_FAST">>, <<"ld", "a", "l">>, Ret >>

\* From the flags of a subtraction: A = 1 if the first was the lesser.
LTI ==
    << <<"jp", "po", "sign">>, <<"xorn", 128>>,
       <<"label", "sign">>, <<"ldn", "a", 0>>, <<"ret", "p">>, <<"inc", "a">>, Ret >>
LTI8 == << <<"sub", "h">> >> \o LTI
LEI8 == << <<"sub", "h">>, <<"jp", "nz", "differ">>, <<"inc", "a">>, Ret,
           <<"label", "differ">> >> \o LTI

XOR8 == << <<"subn", 1>>, <<"sbc", "a">>, <<"ld", "l", "a">>,
           <<"ld", "a", "h">>, <<"subn", 1>>, <<"sbc", "a">>, <<"xor", "l">>, Ret >>
XOR16 == << <<"ld", "a", "h">>, <<"or", "l">>, <<"ld", "h", "a">>,
            <<"ld", "a", "d">>, <<"or", "e">> >> \o XOR8

ABS8 == << <<"or", "a">>, <<"ret", "p">>, <<"neg">>, Ret >>
-----------------------------------------------------------------------------
NEGHL == << <<"ld", "a", "l">>, <<"cpl">>, <<"ld", "l", "a">>,
            <<"ld", "a", "h">>, <<"cpl">>, <<"ld", "h", "a">>, <<"incw", "hl">>, Ret >>
ABS16 == << <<"bit7", "h">>, <<"ret", "z">> >> \o NEGHL

\* HL = HL * DE
MUL16_FAST ==
    << <<"ldn", "b", 16>>, <<"ld", "a", "h">>, <<"ld", "c", "l">>, <<"ldnn", "hl", 0>>,
       <<"label", "loop">>, <<"addw", "hl">>, <<"sla", "c">>, <<"rla">>,
       <<"jp", "nc", "no add">>, <<"addw", "de">>,
       <<"label", "no add">>, <<"djnz", "loop">>, Ret >>

\* HL = HL / DE; DE = the remainder
DIVU16 ==
    << <<"ld", "a", "h">>, <<"ld", "c", "l">>, <<"ldnn", "hl", 0>>, <<"ldn", "b", 16>>,
       <<"label", "loop">>, <<"sll", "c">>, <<"rla">>, <<"adcw", "hl">>, <<"sbcw", "de">>,
       <<"jp", "nc", "no add">>, <<"addw", "de">>, <<"dec", "c">>,
       <<"label", "no add">>, <<"djnz", "loop">>,
       <<"exdehl">>, <<"ld", "h", "a">>, <<"ld", "l", "c">>, Ret >>

DIVI16 ==
    << <<"ld", "a", "d">>, <<"xor", "h">>, <<"exaf">>, <<"bit7", "d">>, <<"jp", "z", "de ready">>,
       <<"ld", "a", "e">>, <<"cpl">>, <<"ld", "e", "a">>,
       <<"ld", "a", "d">>, <<"cpl">>, <<"ld", "d", "a">>, <<"incw", "de">>,
       <<"label", "de ready">>, <<"bit7", "h">>, <<"call", "nz", "NEGHL">>,
       <<"call", "always", "DIVU16">>, <<"exaf">>, <<"or", "a">>, <<"ret", "p">> >> \o NEGHL

MODU16 == << <<"call", "always", "DIVU16">>, <<"exdehl">>, Ret >>
MODI16 == << <<"call", "always", "DIVI16">>, <<"exdehl">>, Ret >>

\* From the flags of SBC HL, DE.
SignedLess ==
    << <<"jp", "po", "sign">>, <<"ld", "a", "h">>, <<"xorn", 128>>,
       <<"label", "sign">>, <<"ldn", "a", 0>>, <<"ret", "p">>, <<"inc", "a">>, Ret >>
LTI16 == << <<"or", "a">>, <<"sbcw", "de">> >> \o SignedLess
LEI16 == << <<"or", "a">>, <<"sbcw", "de">>, <<"ldn", "a", 1>>, <<"ret", "z">> >> \o SignedLess
EQ16 == << <<"xor", "a">>, <<"sbcw", "de">>, <<"ret", "nz">>, <<"inc", "a">>, Ret >>
AND16 == << <<"ld", "a", "h">>, <<"or", "l">>, <<"ret", "z">>,
            <<"ld", "a", "d">>, <<"or", "e">>, Ret >>

\* A bitwise operation on both halves of HL and DE.
Halfwise(op) == << <<"ld", "a", "h">>, <<op, "d">>, <<"ld", "h", "a">>,
                   <<"ld", "a", "l">>, <<op, "e">>, <<"ld", "l", "a">>, Ret >>
BAND16 == Halfwise("and")
BOR16 == Halfwise("or")
BXOR16 == Halfwise("xor")
BNOT16 == << <<"ld", "a", "h">>, <<"cpl">>, <<"ld", "h", "a">>,
             <<"ld", "a", "l">>, <<"cpl">>, <<"ld", "l", "a">>, Ret >>
-----------------------------------------------------------------------------
\* Longs come in DE (the high word) and HL, the other operand on the stack
\* above its low word; the return address is moved out of the way.

SUB32 ==
    << <<"exx">>, <<"pop", "bc">>, <<"exx">>, <<"or", "a">>,
       <<"ld", "b", "h">>, <<"ld", "c", "l">>, <<"pop", "hl">>, <<"sbcw", "bc">>, <<"exdehl">>,
       <<"ld", "b", "h">>, <<"ld", "c", "l">>, <<"pop", "hl">>, <<"sbcw", "bc">>, <<"exdehl">>,
       <<"exx">>, <<"push", "bc">>, <<"exx">>, Ret >>

\* The other half of the operands in the other set of registers:
\* B'C'A'C = the multiplier, D'E'DE = the multiplicand.
MUL32_64START ==
    << <<"push", "hl">>, <<"exx">>, <<"ld", "b", "h">>, <<"ld", "c", "l">>, <<"pop", "hl">>,
       <<"exdehl">>, <<"push", "hl">>, <<"exx">>, <<"pop", "bc">>, <<"exx">>,
       <<"xor", "a">>, <<"ld", "h", "a">>, <<"ld", "l", "a">>, <<"exx">>,
       <<"ld", "h", "a">>, <<"ld", "l", "a">>, <<"exx">>,
       <<"ld", "a", "b">>, <<"ldn", "b", 33>>, <<"jp", "always", "start">>,
       <<"label", "loop">>, <<"jp", "nc", "no add">>,
       <<"addw", "de">>, <<"exx">>, <<"adcw", "de">>, <<"exx">>,
       <<"label", "no add">>, <<"exx">>, <<"rr", "h">>, <<"rr", "l">>, <<"exx">>,
       <<"rr", "h">>, <<"rr", "l">>,
       <<"label", "start">>, <<"exx">>, <<"rr", "b">>, <<"rr", "c">>, <<"exx">>,
       <<"rra">>, <<"rr", "c">>, <<"djnz", "loop">>, Ret >>
MUL32 ==
    << <<"exx">>, <<"pop", "hl">>, <<"pop", "de">>, <<"exsp">>, <<"exdehl">>,
       <<"call", "always", "MUL32_64START">>,
       <<"exx">>, <<"push", "bc">>, <<"exx">>, <<"pop", "de">>,
       <<"ld", "h", "a">>, <<"ld", "l", "c">>, Ret >>

\* DEHL / the long on the stack; the remainder in D'E'H'L'.
Dividend == << <<"exx">>, <<"pop", "hl">>, <<"pop", "de">>, <<"exsp">> >>
DIVU32START ==
    << <<"push", "de">>, <<"exdehl">>, <<"ldnn", "hl", 0>>, <<"exx">>,
       <<"ld", "b", "h">>, <<"ld", "c", "l">>, <<"pop", "hl">>, <<"push", "de">>, <<"exdehl">>,
       <<"ldnn", "hl", 0>>, <<"exx">>, <<"pop", "bc">>, <<"exx">>, <<"ldn", "a", 32>>,
       <<"label", "loop">>, <<"sll", "c">>, <<"rl", "b">>, <<"exx">>,
       <<"rl", "c">>, <<"rl", "b">>, <<"exx">>,
       <<"adcw", "hl">>, <<"exx">>, <<"adcw", "hl">>, <<"exx">>,
       <<"sbcw", "de">>, <<"exx">>, <<"sbcw", "de">>, <<"exx">>, <<"jp", "nc", "no add">>,
       <<"addw", "de">>, <<"exx">>, <<"adcw", "de">>, <<"exx">>, <<"decw", "bc">>,
       <<"label", "no add">>, <<"dec", "a">>, <<"jp", "nz", "loop">>,
       <<"push", "hl">>, <<"exx">>, <<"pop", "de">>, <<"exdehl">>, <<"push", "bc">>, <<"exx">>,
       <<"pop", "de">>, <<"ld", "h", "b">>, <<"ld", "l", "c">>, Ret >>
DIVU32 == Dividend \o DIVU32START
MODU32START == << <<"exx">>, <<"push", "de">>, <<"push", "hl">>, <<"exx">>,
                  <<"pop", "hl">>, <<"pop", "de">>, Ret >>
MODU32 == Dividend \o << <<"call", "always", "DIVU32START">> >> \o MODU32START

Inverted(r) == << <<"ld", "a", r>>, <<"cpl">>, <<"ld", r, "a">> >>
BNOT32 == Inverted("l") \o Inverted("h") \o Inverted("e") \o Inverted("d") \o << Ret >>
NEG32 == Inverted("l") \o Inverted("h") \o Inverted("e") \o Inverted("d")
         \o << <<"inc", "l">>, <<"ret", "nz">>, <<"inc", "h">>, <<"ret", "nz">>,
               <<"incw", "de">>, Ret >>
ABS32 == << <<"bit7", "d">>, <<"ret", "z">> >> \o NEG32

DIVI32START ==
    << <<"exx">>, <<"ld", "a", "d">>, <<"exaf">>, <<"bit7", "d">>, <<"call", "nz", "NEG32">>,
       <<"exx">>, <<"exaf">>, <<"xor", "h">>, <<"exaf">>, <<"bit7", "h">>, <<"exdehl">>,
       <<"call", "nz", "NEG32">>, <<"exdehl">>, <<"call", "always", "DIVU32START">>,
       <<"exaf">>, <<"andn", 128>>, <<"ret", "z">> >> \o NEG32
DIVI32 == Dividend \o DIVI32START
MODI32 == Dividend \o << <<"call", "always", "DIVI32START">> >> \o MODU32START

EQ32 ==
    << <<"exx">>, <<"pop", "bc">>, <<"exx">>, <<"xor", "a">>,
       <<"pop", "bc">>, <<"sbcw", "bc">>, <<"exdehl">>, <<"pop", "bc">>, <<"sbcw", "bc">>,
       <<"exx">>, <<"push", "bc">>, <<"exx">>,
       <<"ld", "a", "h">>, <<"or", "l">>, <<"or", "d">>, <<"or", "e">>,
       <<"ldn", "a", 1>>, <<"ret", "z">>, <<"xor", "a">>, Ret >>
Subtracted == << <<"exx">>, <<"pop", "de">>, <<"exx">>, <<"call", "always", "SUB32">>,
                 <<"exx">>, <<"push", "de">>, <<"exx">> >>
SignedLess32 ==
    << <<"jp", "po", "sign">>, <<"ld", "a", "d">>, <<"xorn", 128>>,
       <<"label", "sign">>, <<"ldn", "a", 0>>, <<"ret", "p">>, <<"inc", "a">>, Ret >>
LTI32 == Subtracted \o SignedLess32
LEI32 == Subtracted
         \o << <<"exaf">>, <<"ld", "a", "h">>, <<"or", "l">>, <<"or", "e">>, <<"or", "d">>,
               <<"ldn", "a", 1>>, <<"ret", "z">>, <<"exaf">> >> \o SignedLess32

AnyBit == << <<"or", "d">>, <<"or", "e">>, <<"or", "h">>, <<"or", "l">> >>
TakeOther == << <<"pop", "hl">>, <<"pop", "de">>, <<"exsp">> >>
AND32 == << <<"ld", "a", "l">>, <<"or", "h">>, <<"or", "e">>, <<"or", "d">> >> \o TakeOther
         \o << <<"ret", "z">>, <<"ld", "a", "d">> >> \o AnyBit \o << Ret >>
OR32 == << <<"ld", "a", "h">> >> \o AnyBit \o TakeOther \o AnyBit \o << Ret >>
XOR32 == << <<"ld", "a", "h">> >> \o AnyBit \o << <<"ld", "c", "a">> >> \o TakeOther
         \o << <<"ld", "a", "h">> >> \o AnyBit \o << <<"ld", "h", "c">> >> \o XOR8
NOT32 == << <<"ld", "a", "d">> >> \o AnyBit \o << <<"subn", 1>>, <<"sbc", "a">>, Ret >>

Halfwise32(op) ==
    << <<"ld", "b", "h">>, <<"ld", "c", "l">>, <<"pop", "hl">>, <<"exsp">>,
       <<"ld", "a", "b">>, <<op, "h">>, <<"ld", "b", "a">>,
       <<"ld", "a", "c">>, <<op, "l">>, <<"ld", "c", "a">>, <<"pop", "hl">>, <<"exsp">>,
       <<"ld", "a", "d">>, <<op, "h">>, <<"ld", "d", "a">>,
       <<"ld", "a", "e">>, <<op, "l">>, <<"ld", "e", "a">>,
       <<"ld", "h", "b">>, <<"ld", "l", "c">>, Ret >>
BAND32 == Halfwise32("and")
BOR32 == Halfwise32("or")
BXOR32 == Halfwise32("xor")

SHL32 == << <<"sla", "l">>, <<"rl", "h">>, <<"rl", "e">>, <<"rl", "d">>, Ret >>
SHRA32 == << <<"sra", "d">>, <<"rr", "e">>, <<"rr", "h">>, <<"rr", "l">>, Ret >>
SHRL32 == << <<"srl", "d">>, <<"rr", "e">>, <<"rr", "h">>, <<"rr", "l">>, Ret >>

\* Exchanges DEHL with the long under the return address.
SWAP32 == << <<"pop", "bc">>, <<"exsp">>, <<"incsp2">>, <<"exdehl">>, <<"exsp">>,
             <<"exdehl">>, <<"decsp2">>, <<"push", "bc">>, Ret >>

ILOAD32 == << <<"ld(rr)", "e", "hl">>, <<"incw", "hl">>, <<"ld(rr)", "d", "hl">>, <<"incw", "hl">>,
              <<"ld(rr)", "a", "hl">>, <<"incw", "hl">>, <<"ld(rr)", "h", "hl">>,
              <<"ld", "l", "a">>, <<"exdehl">>, Ret >>
STORE32 == << <<"ld(rr)r", "hl", "c">>, <<"incw", "hl">>, <<"ld(rr)r", "hl", "b">>,
              <<"incw", "hl">>, <<"ld(rr)r", "hl", "e">>, <<"incw", "hl">>,
              <<"ld(rr)r", "hl", "d">>, Ret >>
ISTORE32 == << <<"ld(rr)", "a", "hl">>, <<"incw", "hl">>, <<"ld(rr)", "h", "hl">>,
               <<"ld", "l", "a">> >> \o STORE32
-----------------------------------------------------------------------------
Routines ==
    [MUL8_FAST |-> MUL8_FAST, DIVU8_FAST |-> DIVU8_FAST, DIVI8_FAST |-> DIVI8_FAST,
     MODU8_FAST |-> MODU8_FAST, MODI8_FAST |-> MODI8_FAST, LTI8 |-> LTI8, LEI8 |-> LEI8, XOR8
     |-> XOR8, ABS8 |-> ABS8, NEGHL |-> NEGHL, ABS16 |-> ABS16, MUL16_FAST |-> MUL16_FAST,
     DIVU16 |-> DIVU16, DIVI16 |-> DIVI16, MODU16 |-> MODU16, MODI16 |-> MODI16, LTI16 |->
     LTI16, LEI16 |-> LEI16, EQ16 |-> EQ16, AND16 |-> AND16, XOR16 |-> XOR16, BAND16 |->
     BAND16, BOR16 |-> BOR16, BXOR16 |-> BXOR16, BNOT16 |-> BNOT16, SUB32 |-> SUB32,
     MUL32_64START |-> MUL32_64START, MUL32 |-> MUL32, DIVU32START |-> DIVU32START, DIVU32
     |-> DIVU32, MODU32 |-> MODU32, BNOT32 |-> BNOT32, NEG32 |-> NEG32, ABS32 |-> ABS32,
     DIVI32START |-> DIVI32START, DIVI32 |-> DIVI32, MODI32 |-> MODI32, EQ32 |-> EQ32, LTI32
     |-> LTI32, LEI32 |-> LEI32, AND32 |-> AND32, OR32 |-> OR32, XOR32 |-> XOR32, NOT32 |->
     NOT32, BAND32 |-> BAND32, BOR32 |-> BOR32, BXOR32 |-> BXOR32, SHL32 |-> SHL32, SHRA32
     |-> SHRA32, SHRL32 |-> SHRL32, SWAP32 |-> SWAP32, ILOAD32 |-> ILOAD32, STORE32 |->
     STORE32, ISTORE32 |-> ISTORE32,
     f |-> <<>>]     \* a function of the program
=============================================================================
