------------------------------ MODULE Assembly ------------------------------
(***************************************************************************)
(* The assembly text the backend emits, as the optimizers see it: a line   *)
(* is a tuple of a mnemonic and its operands, which are told apart the way *)
(* the text tells them apart, and a program is a sequence of lines.  What  *)
(* asm.py and memcell.py say of a line, and what the processor does of it. *)
(*   <<"r", name>>   a register or a pair     <<"c", name>>   a condition  *)
(*   <<"n", k>>      a number                 <<"mn", k>>     (k)          *)
(*   <<"s", v, d>>   the label of v, + d      <<"ms", v, d>>  (label + d)  *)
(*   <<"i", rr>>     (rr)                     <<"L", label>>  a code label *)
(***************************************************************************)
EXTENDS CodegenReal, FiniteSets

R(name) == <<"r", name>>
A == R("a")
HL == R("hl")
DE == R("de")
Indirect(rr) == <<"i", rr>>
Name(l) == l[1]
\* The operand k of a line, <<"">> when it has none.
Op(l, k) == IF Len(l) > k THEN l[k + 1] ELSE <<"">>

IsLabel(l) == Name(l) = "label"
IsReg(o) == o[1] = "r"
IsNumber(o) == o[1] = "n"
IsMemory(o) == o[1] \in {"mn", "ms", "i"}
Regs8 == {"a", "b", "c", "d", "e", "h", "l"}
Regs16 == {"af", "bc", "de", "hl", "ix", "iy"}
IsReg8(o) == IsReg(o) /\ o[2] \in Regs8
IsReg16(o) == IsReg(o) /\ o[2] \in Regs16
BytesOf == [af |-> <<"a", "f">>, bc |-> <<"b", "c">>, de |-> <<"d", "e">>, hl |-> <<"h", "l">>,
            ix |-> <<"ixh", "ixl">>, iy |-> <<"iyh", "iyl">>]
HiReg(rr) == BytesOf[rr][1]
LoReg(rr) == BytesOf[rr][2]

\* single_registers
Single(o) ==
    IF ~IsReg(o) THEN {}
    ELSE IF o[2] \in Regs16 THEN {HiReg(o[2]), LoReg(o[2])}
    ELSE IF o[2] = "af'" THEN {"a'", "f'"} ELSE {o[2]}
Singles(os) == UNION {Single(os[k]) : k \in DOMAIN os}

\* The label or the number an address is written as; variables are some bytes apart.
CONSTANT Labelled    \* the addresses the labels of the variables stand for
ASSUME LabelledAssumption == Labelled \subseteq 16384 .. 32767
Offsets == -1 .. 2
Symbolic(k) == \E v \in Labelled : k - v \in Offsets
Spelt(sym, num, k) ==
    IF Symbolic(k) THEN LET v == CHOOSE v \in Labelled : k - v \in Offsets IN <<sym, v, k - v>>
    ELSE <<num, k>>
Immediate(k) == Spelt("s", "n", k)
At(k) == Spelt("ms", "mn", k)
\* The line of an instruction of the backend.
Line(i) ==
    LET op == i[1]
    IN  CASE op \in {"ld"} -> <<"ld", R(i[2]), R(i[3])>>
          [] op \in {"ldn", "ldnn"} -> <<"ld", R(i[2]), IF i[3] \in Int THEN Immediate(i[3]) ELSE <<"L", i[3]>>>>
          [] op = "lda@" -> <<"ld", A, At(i[2])>>
          [] op = "ld@a" -> <<"ld", At(i[2]), A>>
          [] op = "ldw@" -> <<"ld", R(i[2]), At(i[3])>>
          [] op = "ld@w" -> <<"ld", At(i[2]), R(i[3])>>
          [] op = "ld(rr)" -> <<"ld", R(i[2]), Indirect(i[3])>>
          [] op = "ld(rr)r" -> <<"ld", Indirect(i[2]), R(i[3])>>
          [] op = "ld(rr)n" -> <<"ld", Indirect(i[2]), Immediate(i[3])>>
          [] op = "ldsp" -> <<"ld", R("sp"), R(i[2])>>
          [] op \in {"add", "adc", "sbc"} -> <<op, A, R(i[2])>>
          [] op \in {"sub", "and", "or", "xor", "cp", "inc", "dec", "push", "pop", "srl", "rr"} -> <<op, R(i[2])>>
          [] op = "addn" -> <<"add", A, <<"n", Low(i[2])>>>>
          [] op \in {"subn", "andn", "xorn", "cpn"} ->
               <<CASE op = "subn" -> "sub" [] op = "andn" -> "and" [] op = "xorn" -> "xor" [] op = "cpn" -> "cp",
                 <<"n", Low(i[2])>>>>
          [] op \in {"incw", "decw"} -> <<IF op = "incw" THEN "inc" ELSE "dec", R(i[2])>>
          [] op \in {"addw", "adcw", "sbcw"} ->
               <<CASE op = "addw" -> "add" [] op = "adcw" -> "adc" [] op = "sbcw" -> "sbc", HL, R(i[2])>>
          [] op = "exdehl" -> <<"ex", DE, HL>>
          [] op = "exsp" -> <<"ex", Indirect("sp"), HL>>
          [] op = "jp" -> IF i[2] = "always" THEN <<"jp", <<"L", i[3]>>>> ELSE <<"jp", <<"c", i[2]>>, <<"L", i[3]>>>>
          [] op = "call" -> <<"call", <<"L", i[3]>>>>
          [] op = "label" -> <<"label", <<"L", i[2]>>>>
          [] op \in {"neg", "cpl", "ccf", "rla", "rra", "exx", "di", "ei", "ret"} -> <<op>>
Lines(code) == [k \in DOMAIN code |-> Line(code[k])]
-----------------------------------------------------------------------------
\* Asm.opers: the operands, those that are only implied with them.
Conditional(l) == Op(l, 1)[1] = "c"
Opers(l) ==
    LET os == IF Len(l) = 1 THEN << <<"">> >> ELSE Tail(l)
        op == Name(l)
    IN  CASE op \in {"call", "jp"} /\ Conditional(l) -> Tail(os) \o << R("f") >>
          [] op \in {"push", "pop"} \/ (op = "call" /\ ~Conditional(l)) -> os \o << R("sp") >>
          [] op = "ret" -> os \o << R("sp") >>
          [] op \in {"or", "and", "xor", "neg", "cpl"} -> os \o << A >>
          [] op = "rla" \/ op = "rra" -> os \o << A, R("f") >>
          [] op = "rr" -> os \o << R("f") >>
          [] op = "sub" -> << A >> \o os
          [] op = "exx" -> << <<"*">>, R("bc"), DE, HL >>
          [] OTHER -> os
Condition(l) == IF Name(l) \in {"call", "jp", "ret"} /\ Conditional(l) THEN Op(l, 1)[2] ELSE "none"
IsEnder(l) == Name(l) \in {"jp", "call", "ret"}
UserAsm == <<"asm">>      \* a line of ASMS, which stands for code the optimizer leaves alone
ALL_REGS == Regs8 \cup {"f", "ixh", "ixl", "iyh", "iyl", "r", "i", "sp"}

\* MemCell.destroys.  The pop of a pair is said to change registers s and p;
\* INC and DEC of a pair, and CPL, are said to change the flags.
Changed(op, o) ==
    CASE op = "asm" -> ALL_REGS
      [] op \in {"push", "ret", "call"} -> {"sp"}
      [] op = "pop" -> {"s", "p"} \cup Single(o[1])
      [] op = "ld" -> Single(o[1])
      [] op \in {"inc", "dec"} -> {"f"} \cup Single(o[1])
      [] op = "exx" -> {"b", "c", "d", "e", "h", "l"}
      [] op = "ex" -> Singles(o)
      [] op \in {"ccf", "cp"} -> {"f"}
      [] op \in {"or", "and"} -> {"f"} \cup (IF o[1] # A THEN {"a"} ELSE {})
      [] op \in {"xor", "neg", "cpl", "rla", "rra"} -> {"a", "f"}
      [] op \in {"add", "adc", "sub", "sbc"} -> {"f"} \cup Single(o[1])
      [] op \in {"rr", "srl"} -> {"f"} \cup Single(o[1])
      [] OTHER -> {}
Destroys(l) == Changed(Name(l), Opers(l))

\* MemCell.requires.
Behind(os) ==
    UNION {IF os[k][1] # "i" THEN {} ELSE IF os[k][2] = "sp" THEN {"sp"} ELSE Single(R(os[k][2])) : k \in DOMAIN os}
Wanted(op, conditional, o) ==
    LET plain == o[1][1] \notin {"n", "mn", "ms", "i"}
    IN  (IF op = "asm" THEN ALL_REGS ELSE Behind(o))
        \cup (IF op \in {"ret", "pop", "push"} THEN {"sp"} ELSE {})
        \cup (IF conditional \/ op \in {"sbc", "adc", "ccf"} THEN {"f"} ELSE {})
        \cup (CASE op \in {"rla", "rra"} -> {"a", "f"}
                [] op \in {"xor", "cp"} /\ o[1] # A -> {"a"} \cup (IF plain THEN Singles(o) ELSE {})
                [] op \in {"or", "and"} -> {"a"} \cup (IF plain THEN Singles(o) ELSE {})
                [] op \in {"add", "adc", "sub", "sbc"} /\ (o[1] # o[2] \/ op \in {"add", "adc"}) -> Singles(o)
                [] op \in {"neg", "cpl"} -> {"a"}
                [] op = "rr" -> Singles(o)
                [] op \in {"srl", "inc", "dec"} -> Singles(o)
                [] op = "ld" /\ ~IsNumber(o[2]) -> Single(o[2])
                [] op = "ex" -> IF o[1] = DE THEN {"d", "e", "h", "l"} ELSE {"a", "f", "a'", "f'"}
                [] op = "exx" -> {"b", "c", "d", "e", "h", "l"}
                [] op = "push" -> Singles(o)
                [] OTHER -> {})
Requires(l) == Wanted(Name(l), Condition(l) # "none", Opers(l))
\* fault: the exchange of the register sets is passed over.
NeedsButSwaps(l, names) == Name(l) # "exx" /\ Requires(l) \cap names # {}
Needs(l, names) == Requires(l) \cap names # {}
-----------------------------------------------------------------------------
\* What the processor does of a line that is neither a jump nor a call, at
\* pc; a label of the code is where its line is.
IsPair(o) == IsReg(o) /\ o[2] \in Regs16 \cup {"sp"}
Wide(l) == IsPair(Op(l, 1)) \/ IsPair(Op(l, 2))
CodeAt == 40000
AddressOf(s, o) == CASE o[1] = "mn" -> o[2] [] o[1] = "ms" -> o[2] + o[3] [] o[1] = "i" -> Pair(s, o[2])
PlaceOf(code, o) == CodeAt + (CHOOSE k \in DOMAIN code : code[k] = <<"label", o>>)
Read(code, s, o, wide) ==
    CASE IsReg(o) -> IF wide THEN Pair(s, o[2]) ELSE s[o[2]]
      [] o[1] = "n" -> IF wide THEN Wrap(o[2]) ELSE Low(o[2])
      [] o[1] = "s" -> IF wide THEN o[2] + o[3] ELSE Low(o[2] + o[3])
      [] o[1] = "L" -> PlaceOf(code, o)
      [] IsMemory(o) -> IF wide THEN PeekWord(s, AddressOf(s, o)) ELSE Peek(s, AddressOf(s, o))
Write(s, o, wide, v) ==
    CASE IsReg(o) /\ o[2] = "sp" -> MoveStack(s, v)
      [] IsReg(o) /\ o[2] # "sp" -> IF wide THEN SetPair(s, o[2], v) ELSE [s EXCEPT ![o[2]] = v]
      [] IsMemory(o) -> IF wide THEN PokeWord(s, AddressOf(s, o), v) ELSE Poke(s, AddressOf(s, o), v)
\* The instruction of Z80 of such a line that is no load and has no A to work on.
StepOf(l) ==
    LET op == Name(l)  o == Op(l, 1)
    IN  CASE op \in {"add", "adc", "sbc"} -> <<op \o "w", Op(l, 2)[2]>>
          [] op \in {"inc", "dec"} -> IF IsPair(o) THEN <<op \o "w", o[2]>> ELSE <<op, IF IsReg(o) THEN o[2] ELSE "a">>
          [] op \in {"push", "pop", "srl", "rr"} -> <<op, o[2]>>
          [] op = "ex" -> <<IF o = DE THEN "exdehl" ELSE "exsp", "">>
          [] op \in {"neg", "cpl", "ccf", "rla", "rra", "exx"} -> <<op, "">>
\* inc (hl) goes by way of a register.
OnMemory(l) == Name(l) \in {"inc", "dec"} /\ IsMemory(Op(l, 1))
Fetched(s, l) == IF OnMemory(l) THEN [s EXCEPT !.a = Peek(s, AddressOf(s, Op(l, 1)))] ELSE s
Settled(s, l, on) == IF OnMemory(l) THEN Poke([on EXCEPT !.a = s.a], AddressOf(s, Op(l, 1)), on.a) ELSE on
Executed(code, s, l) ==
    LET op == Name(l)  o == Op(l, 1)
    IN  CASE op = "ld" -> Write(s, o, Wide(l), Read(code, s, Op(l, 2), Wide(l)))
          [] op \in {"add", "adc", "sbc"} /\ o = A -> Alu(op, s, Read(code, s, Op(l, 2), FALSE))
          [] op \in {"sub", "and", "or", "xor", "cp"} -> Alu(op, s, Read(code, s, o, FALSE))
          [] op \in {"label", "di", "ei", "asm"} -> s
          [] OTHER -> Settled(s, l, Step(Fetched(s, l), StepOf(l)))
=============================================================================
