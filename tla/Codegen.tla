------------------------------ MODULE Codegen ------------------------------
(***************************************************************************)
(* The code of the backend at work.  Intermediate code computes on a stack *)
(* of temporaries, which the emitted code keeps on the stack of the Z80;   *)
(* variables and constants are operands too.  Each action emits the code   *)
(* of one intermediate instruction, for one choice of operands, and runs   *)
(* it; the registers between two instructions are anything.  What should   *)
(* have come of it, by the meaning of the operations (Longs), is kept      *)
(* beside, in want and mem.                                                *)
(***************************************************************************)
EXTENDS CodegenReal, FiniteSets

CONSTANTS
    Samples,     \* the contents tried, for 8, 16 and 32 bits and fixed point: sets of longs; for floats, of their bytes
    Deviations,  \* whether the code of which the source is known to be wrong is tried
    Interrupts   \* whether an interrupt may come at a bad moment

\* The width of floats; fixed point, of 16.16 bits, is told from longs.
FloatBits == 40
Fixed == 1616

ASSUME SamplesAssumption ==
    /\ DOMAIN Samples \subseteq {8, 16, 32, Fixed, FloatBits}
    /\ \A w \in DOMAIN Samples \ {FloatBits} : Samples[w] \subseteq (0 .. 65535) \X (0 .. 65535)
    /\ FloatBits \in DOMAIN Samples => Samples[FloatBits] \subseteq [1 .. 5 -> 0 .. 255]
ASSUME FlagsAssumption == Deviations \in BOOLEAN /\ Interrupts \in BOOLEAN

L == INSTANCE Longs

VARIABLES
    width,   \* of the variables x and y
    cpu,     \* the memory m and the stack st of the machine
    mem,     \* the memory there should be
    want,    \* what should be on the stack, a word each
    temps,   \* the operands that have been pushed: "x", "y", "amount" or "address"
    stage    \* "operands", "truth" (a truth value is on the top), "jumped" or "done"
vars == <<width, cpu, mem, want, temps, stage>>

X == 16384
Y == 16392
Z == 16400
Pointer == 16408
Addresses == {at + k : at \in {X, Y, Z}, k \in 0 .. 4} \cup {Pointer, Pointer + 1}
WorkArea == {MEMBOT + k : k \in 0 .. 5}    \* of the ROM

Size(w) == CASE w = FloatBits -> 5 [] w \in {32, Fixed} -> 4 [] w = 16 -> 2 [] w = 8 -> 1
SizeInWords(w) == (Size(w) + 1) \div 2
\* The bytes of a value, and the value of the bytes in memory.
InBytes(w, v) ==
    IF w = FloatBits THEN v ELSE SubSeq(<<v[2] % 256, v[2] \div 256, v[1] % 256, v[1] \div 256>>, 1, Size(w))
ValueAt(w, at) ==
    IF w = FloatBits THEN [k \in 1 .. 5 |-> mem[at + k - 1]]
    ELSE L!Truncated(8 * Size(w), <<mem[at + 2] + 256 * mem[at + 3], mem[at] + 256 * mem[at + 1]>>)
Variable(name) == ValueAt(width, IF name = "x" THEN X ELSE Y)
Amount == mem[Y]

\* What a value of so many bits, one for a truth value, is on the stack: a byte is in A, above the flags.
Pushed(type, v) ==
    CASE v = L!Any -> [k \in 1 .. SizeInWords(type) |-> <<"any", 0>>]
      [] v # L!Any /\ type = 1  -> << <<"truth", v[2]>> >>
      [] v # L!Any /\ type = 8  -> << <<"byte", v[2]>> >>
      [] v # L!Any /\ type = 16 -> << <<"word", v[2]>> >>
      [] v # L!Any /\ type \in {32, Fixed} -> << <<"word", v[1]>>, <<"word", v[2]>> >>
      [] v # L!Any /\ type = FloatBits -> [k \in 1 .. 3 |-> <<"float", v, k>>]
WordOf(st, k) == 256 * st[2 * k - 1] + st[2 * k]
FloatFrom(st, k) == LET n == 2 * k - 1 IN <<st[n + 4], st[n + 3], st[n + 2], st[n + 1], st[n]>>
\* Whether the word k of the stack is what is wanted: of a float, all of it,
\* whether as a small number or not.
Fits(st, k, wanted) ==
    CASE wanted[1] = "any"   -> TRUE
      [] wanted[1] = "truth" -> (st[2 * k - 1] # 0) <=> (wanted[2] = 1)
      [] wanted[1] = "byte"  -> st[2 * k - 1] = wanted[2]
      [] wanted[1] = "word"  -> WordOf(st, k) = wanted[2]
      [] wanted[1] = "float" ->
           Rom!Canonical(FloatFrom(st, k - wanted[3] + 1)) = Rom!Canonical(wanted[2])
-----------------------------------------------------------------------------
\* The operands an instruction may be given for a variable of w bits at an
\* address: the temporary if it was pushed, else the variable itself or its
\* value, as the value of a label or as a constant, which may be negative.
Constants(negative, p) == {[negative |-> negative, whole |-> p[1], fraction |-> p[2]]}
Spellings(w, v) ==
    CASE w = 32 -> {(IF L!Negative(v) THEN v[1] - Word ELSE v[1]) * Word + v[2]}
      [] w = 16 -> {v[2]} \cup (IF v[2] > 32767 THEN {v[2] - Word} ELSE {})
      [] w = 8  -> {v[2]} \cup (IF v[2] > 127 THEN {v[2] - Byte} ELSE {})
      [] w = Fixed -> Constants(L!Negative(v), L!Magnitude(v))
      [] w = FloatBits ->     \* a small whole number comes from the calculator alone
           IF Rom!IsSmall(v) THEN {} ELSE Constants(v[2] >= 128, L!Magnitude(Rom!AsFixed(v)))
Operands(name, w, at, v) ==
    IF name \in temps THEN {<<"temp">>}
    ELSE {<<"id", at>>} \cup {<<"int", n>> : n \in Spellings(w, v)}
         \cup (IF w \in {Fixed, FloatBits} THEN {} ELSE {<<"imm", IF w = 32 THEN v ELSE v[2]>>})
XOperands == Operands("x", width, X, Variable("x"))
YOperands == Operands("y", width, Y, Variable("y"))
AmountOperands == {o \in Operands("amount", 8, Y, <<0, Amount>>) : IsInt(o) => o[2] >= 0}

\* The words the temporaries among operands of w bits take from the stack.
Consumed(w, os) == Cardinality({k \in DOMAIN os : IsTemp(os[k])}) * SizeInWords(w)
Rest(n) == SubSeq(want, 1, Len(want) - n)

\* An instruction: its code is run; the stack should lose n words and gain
\* the words new.
Machine(irq) ==
    [a |-> 85, b |-> 170, c |-> 51, d |-> 204, e |-> 15, h |-> 240, l |-> 129,
     cf |-> 1, zf |-> 0, sf |-> 1, pv |-> 1, af2 |-> 4660, set2 |-> <<22136, 39612, 57072>>,
     ix |-> 26985, below |-> 0, irq |-> irq, fp |-> <<>>, st |-> cpu.st,
     m |-> [at \in Addresses \cup WorkArea |-> IF at \in Addresses THEN cpu.m[at] ELSE 0]]
AllRoutines(f) ==
    [r \in DOMAIN Routines \cup DOMAIN RealRoutines |->
        IF r = "f" THEN f ELSE IF r \in DOMAIN Routines THEN Routines[r] ELSE RealRoutines[r]]
EmitWith(f, code, n, new) ==
    /\ want' = Rest(n) \o new
    /\ \E irq \in (IF Interrupts THEN BOOLEAN ELSE {FALSE}) :
       \E after \in {Run(AllRoutines(f), code, Machine(irq))} :
          cpu' = [m |-> [at \in Addresses |-> after.m[at]], st |-> after.st]
    /\ UNCHANGED width
Emit(code, n, new) == EmitWith(<<>>, code, n, new)
-----------------------------------------------------------------------------
Init ==
    /\ width \in DOMAIN Samples
    /\ \E x, y \in Samples[width] :
          mem = [at \in Addresses |->
                    CASE at \in X .. X + Size(width) - 1 -> InBytes(width, x)[at - X + 1]
                      [] at \in Y .. Y + Size(width) - 1 -> InBytes(width, y)[at - Y + 1]
                      [] at = Pointer      -> Z % 256
                      [] at = Pointer + 1  -> Z \div 256
                      [] OTHER -> 119]
    /\ cpu = [m |-> mem, st |-> <<48, 57>>]
    /\ want = << <<"word", 12345>> >>
    /\ temps = {}
    /\ stage = "operands"

LoadCode(w, o) == CASE w = 8 -> load8(o) [] w = 16 -> load16(o) [] w = 32 -> load32(o)
                    [] w = Fixed -> loadf16(o) [] w = FloatBits -> loadf(o)

\* load of an operand into a temporary; the address of Z comes first.
LoadAddress ==
    /\ stage = "operands" /\ temps = {}
    /\ Emit(load16(<<"imm", Z>>), 0, Pushed(16, <<0, Z>>))
    /\ temps' = {"address"} /\ UNCHANGED <<mem, stage>>
LoadX ==
    /\ stage = "operands" /\ temps \subseteq {"address"}
    /\ \E o \in XOperands : Emit(LoadCode(width, o), 0, Pushed(width, Variable("x")))
    /\ temps' = temps \cup {"x"} /\ UNCHANGED <<mem, stage>>
LoadY ==
    /\ stage = "operands" /\ temps \subseteq {"x"}
    /\ \E o \in YOperands : Emit(LoadCode(width, o), 0, Pushed(width, Variable("y")))
    /\ temps' = temps \cup {"y"} /\ UNCHANGED <<mem, stage>>
LoadAmount ==
    /\ stage = "operands" /\ temps \subseteq {"x"}
    /\ \E o \in AmountOperands : Emit(load8(o), 0, Pushed(8, <<0, Amount>>))
    /\ temps' = temps \cup {"amount"} /\ UNCHANGED <<mem, stage>>
\* load through a pointer, or from a constant address.
LoadIndirect ==
    /\ stage = "operands" /\ temps \subseteq {"address"}
    /\ \E o \in {<<"*int", Z>>, <<"*id", Pointer>>, <<"*temp">>} :
          /\ (o[1] = "*temp") <=> ("address" \in temps)
          /\ ~(o[1] = "*int" /\ width \notin {8, 16})     \* see README: an ILOAD32 too many
          /\ Emit(LoadCode(width, o), IF o[1] = "*temp" THEN 1 ELSE 0,
                  Pushed(width, ValueAt(width, Z)))
    /\ stage' = "done" /\ UNCHANGED <<mem, temps>>
-----------------------------------------------------------------------------
\* The table of the backend: the code of each instruction.
Code8(op, o1, o2) ==
    CASE op = "add" -> add8(o1, o2)    [] op = "sub" -> sub8(o1, o2)   [] op = "mul" -> mul8(o1, o2)
      [] op = "divu" -> divu8(o1, o2)  [] op = "divi" -> divi8(o1, o2)
      [] op = "modu" -> modu8(o1, o2)  [] op = "modi" -> modi8(o1, o2)
      [] op = "ltu" -> ltu8(o1, o2)    [] op = "lti" -> lti8(o1, o2)   [] op = "gtu" -> gtu8(o1, o2)
      [] op = "gti" -> gti8(o1, o2)    [] op = "leu" -> leu8(o1, o2)   [] op = "lei" -> lei8(o1, o2)
      [] op = "geu" -> geu8(o1, o2)    [] op = "gei" -> gei8(o1, o2)
      [] op = "eq" -> eq8(o1, o2)      [] op = "ne" -> ne8(o1, o2)
      [] op = "and" -> and8(o1, o2)    [] op = "or" -> or8(o1, o2)     [] op = "xor" -> xor8(o1, o2)
      [] op = "band" -> band8(o1, o2)  [] op = "bor" -> bor8(o1, o2)   [] op = "bxor" -> bxor8(o1, o2)
      [] op = "shl" -> shl8(o1, o2)    [] op = "shru" -> shru8(o1, o2) [] op = "shri" -> shri8(o1, o2)
Code16(op, o1, o2) ==
    CASE op = "add" -> add16(o1, o2)   [] op = "sub" -> sub16(o1, o2)  [] op = "mul" -> mul16(o1, o2)
      [] op = "divu" -> divu16(o1, o2) [] op = "divi" -> divi16(o1, o2)
      [] op = "modu" -> modu16(o1, o2) [] op = "modi" -> modi16(o1, o2)
      [] op = "ltu" -> ltu16(o1, o2)   [] op = "lti" -> lti16(o1, o2)  [] op = "gtu" -> gtu16(o1, o2)
      [] op = "gti" -> gti16(o1, o2)   [] op = "leu" -> leu16(o1, o2)  [] op = "lei" -> lei16(o1, o2)
      [] op = "geu" -> geu16(o1, o2)   [] op = "gei" -> gei16(o1, o2)
      [] op = "eq" -> eq16(o1, o2)     [] op = "ne" -> ne16(o1, o2)
      [] op = "and" -> and16(o1, o2)   [] op = "or" -> or16(o1, o2)    [] op = "xor" -> xor16(o1, o2)
      [] op = "band" -> band16(o1, o2) [] op = "bor" -> bor16(o1, o2)  [] op = "bxor" -> bxor16(o1, o2)
      [] op = "shl" -> shl16(o1, o2)   [] op = "shru" -> shru16(o1, o2) [] op = "shri" -> shri16(o1, o2)
Code32(op, o1, o2) ==
    CASE op = "add" -> add32(o1, o2)   [] op = "sub" -> sub32(o1, o2)  [] op = "mul" -> mul32(o1, o2)
      [] op = "divu" -> divu32(o1, o2) [] op = "divi" -> divi32(o1, o2)
      [] op = "modu" -> modu32(o1, o2) [] op = "modi" -> modi32(o1, o2)
      [] op = "ltu" -> ltu32(o1, o2)   [] op = "lti" -> lti32(o1, o2)  [] op = "gtu" -> gtu32(o1, o2)
      [] op = "gti" -> gti32(o1, o2)   [] op = "leu" -> leu32(o1, o2)  [] op = "lei" -> lei32(o1, o2)
      [] op = "geu" -> geu32(o1, o2)   [] op = "gei" -> gei32(o1, o2)
      [] op = "eq" -> eq32(o1, o2)     [] op = "ne" -> ne32(o1, o2)
      [] op = "and" -> and32(o1, o2)   [] op = "or" -> or32(o1, o2)    [] op = "xor" -> xor32(o1, o2)
      [] op = "band" -> band32(o1, o2) [] op = "bor" -> bor32(o1, o2)  [] op = "bxor" -> bxor32(o1, o2)
      [] op = "shl" -> shl32(o1, o2)   [] op = "shru" -> shru32(o1, o2) [] op = "shri" -> shri32(o1, o2)
CodeFixed(op, o1, o2) ==
    CASE op = "add" -> addf16(o1, o2)  [] op = "sub" -> subf16(o1, o2) [] op = "mul" -> mulf16(o1, o2)
      [] op = "divi" -> divf16(o1, o2) [] op = "modi" -> modf16(o1, o2)
      [] op = "lti" -> ltf16(o1, o2)   [] op = "gti" -> gtf16(o1, o2)  [] op = "lei" -> lef16(o1, o2)
      [] op = "gei" -> gef16(o1, o2)   [] op = "eq" -> eqf16(o1, o2)   [] op = "ne" -> nef16(o1, o2)
      [] op = "and" -> andf16(o1, o2)  [] op = "or" -> orf16(o1, o2)   [] op = "xor" -> xorf16(o1, o2)
CodeFloat(op, o1, o2) ==
    CASE op = "add" -> addf(o1, o2)    [] op = "sub" -> subf(o1, o2)   [] op = "mul" -> mulf(o1, o2)
      [] op = "divi" -> divf(o1, o2)   [] op = "modi" -> modf(o1, o2)  [] op = "pow" -> powf(o1, o2)
      [] op = "lti" -> ltf(o1, o2)     [] op = "gti" -> gtf(o1, o2)    [] op = "lei" -> lef(o1, o2)
      [] op = "gei" -> gef(o1, o2)     [] op = "eq" -> eqf(o1, o2)     [] op = "ne" -> nef(o1, o2)
      [] op = "and" -> andf(o1, o2)    [] op = "or" -> orf(o1, o2)     [] op = "xor" -> xorf(o1, o2)
BinaryCode(op, o1, o2) ==
    CASE width = 8 -> Code8(op, o1, o2) [] width = 16 -> Code16(op, o1, o2)
      [] width = 32 -> Code32(op, o1, o2) [] width = Fixed -> CodeFixed(op, o1, o2)
      [] width = FloatBits -> CodeFloat(op, o1, o2)
UnaryCode(op, o) ==
    CASE width = 8 -> (CASE op = "not" -> not8(o) [] op = "bnot" -> bnot8(o)
                         [] op = "neg" -> neg8(o) [] op = "abs" -> abs8(o))
      [] width = 16 -> (CASE op = "not" -> not16(o) [] op = "bnot" -> bnot16(o)
                          [] op = "neg" -> neg16(o) [] op = "abs" -> abs16(o))
      [] width = 32 -> (CASE op = "not" -> not32(o) [] op = "bnot" -> bnot32(o)
                          [] op = "neg" -> neg32(o) [] op = "abs" -> abs32(o))
      [] width = Fixed -> (CASE op = "not" -> notf16(o) [] op = "neg" -> negf16(o) [] op = "abs" -> absf16(o))
      [] width = FloatBits -> (CASE op = "not" -> notf(o) [] op = "neg" -> negf(o) [] op = "abs" -> absf(o))
JumpCode(op, w, o, label) ==
    CASE w = 8  -> (CASE op = "jzero" -> jzero8(o, label) [] op = "jnzero" -> jnzero8(o, label)
                      [] op = "jgezerou" -> jgezerou8(o, label) [] op = "jgezeroi" -> jgezeroi8(o, label))
      [] w = 16 -> (CASE op = "jzero" -> jzero16(o, label) [] op = "jnzero" -> jnzero16(o, label)
                      [] op = "jgezerou" -> jgezerou16(o, label) [] op = "jgezeroi" -> jgezeroi16(o, label))
      [] w = 32 -> (CASE op = "jzero" -> jzero32(o, label) [] op = "jnzero" -> jnzero32(o, label)
                      [] op = "jgezerou" -> jgezerou32(o, label) [] op = "jgezeroi" -> jgezeroi32(o, label))
      [] w = Fixed -> (CASE op = "jzero" -> jzerof16(o, label) [] op = "jnzero" -> jnzerof16(o, label)
                         [] op = "jgezeroi" -> jgezerof16(o, label))
      [] w = FloatBits -> (CASE op = "jzero" -> jzerof(o, label) [] op = "jnzero" -> jnzerof(o, label)
                             [] op = "jgezeroi" -> jgezerof(o, label))
-----------------------------------------------------------------------------
RealArithmetic == {"add", "sub", "mul", "divi", "modi"}
RealTests == {"lti", "gti", "lei", "gei", "eq", "ne", "and", "or", "xor"}
Arithmetic ==
    CASE width \in {8, 16, 32} -> RealArithmetic \cup {"divu", "modu", "band", "bor", "bxor"}
      [] width = Fixed -> RealArithmetic
      [] width = FloatBits -> RealArithmetic \cup {"pow"}
Tests == IF width \in {8, 16, 32} THEN L!Comparisons \cup {"and", "or", "xor"} ELSE RealTests
Shifts == {"shl", "shru", "shri"}

\* What an operation means; of floats, by the calculator's numbers.
FixedMeaning(op, v, w) ==
    CASE op = "mul" -> L!FixedProduct(v, w)
      [] op = "divi" -> IF w = L!Zero THEN L!Any ELSE L!FixedQuotient(v, w)
      [] op = "modi" -> IF w = L!Zero \/ L!Negative(v) \/ L!Negative(w) THEN L!Any
                        ELSE L!Minus32(v, L!FixedProduct(L!Whole(L!FixedQuotient(v, w)), w))
      [] OTHER -> L!Meaning(op, 32, v, w)
FloatMeaning(op, f, g) ==
    CASE op \in RealTests \cup {"not"} -> L!Meaning(op, 32, Rom!AsFixed(f), Rom!AsFixed(g))
      [] op = "divi" /\ Rom!IsZero(g) -> Rom!Small(0)
      [] op = "modi" /\ Rom!IsZero(g) -> L!Any
      [] op = "neg" -> Rom!Opposite(f)
      [] op = "abs" -> IF L!Negative(Rom!AsFixed(f)) THEN Rom!Opposite(f) ELSE f
      [] OTHER -> Rom!Arithmetical(CASE op = "divi" -> "div" [] op = "modi" -> "mod" [] OTHER -> op, f, g)
OperationMeaning(op, v, w) ==
    CASE width = Fixed -> FixedMeaning(op, v, w)
      [] width = FloatBits -> FloatMeaning(op, v, w)
      [] OTHER -> L!Meaning(op, width, v, w)

\* Where the code is known to be wrong (README, Disagreements).
NothingPushed(op, o1, o2) ==
    /\ width = 16
    /\ \/ op \in Shifts /\ Constant(o2, 0) /\ ~IsTemp(o1)
       \/ op = "band" /\ AnyInt(o1, o2) /\ _int_ops(o1, o2)[2] = 65535 /\ ~IsTemp(_int_ops(o1, o2)[1])
CompilerStops(op, o1, o2) ==
    \/ width = 16 /\ op = "modu" /\ Constant(o2, 1)
    \/ width = Fixed /\ op = "mul" /\ Is(o1, -1)
    \/ width = FloatBits /\ op = "modi" /\ Rom!IsZero(Variable("y"))
LogicalShift(op, o1, o2) == width = 16 /\ op = "shri" /\ Constant(o2, 1) /\ Variable("x")[2] > 32767
WrongSign(op, o1, o2) ==
    /\ op = "divi" /\ width \in {8, 16} /\ L!Negative(L!Extended(width, TRUE, Variable("x")))
    /\ width = 16 => Constant(o2, 2)
WrongOrder(op, o1, o2) ==
    /\ width = 32 /\ o1[1] = "imm" /\ IsTemp(o2)
    /\ op \in {"sub", "divu", "divi", "modu", "modi"} \cup (L!Comparisons \ {"eq", "ne"})
NegatesFloat(op, o1, o2) == width = Fixed /\ op = "divi" /\ Is(o2, -1)
SmallNumber == width = FloatBits /\ Rom!IsSmall(Variable("x"))
LostCount(op) == width = Fixed /\ op \in {"divi", "modi"} /\ L!Magnitude(Variable("x"))[1] = 0
FractionLost(op, o2) == width = Fixed /\ op = "modi" /\ Is(o2, 1) /\ Variable("x")[2] # 0
Wrong(op, o1, o2) ==
    \/ NegatesFloat(op, o1, o2) \/ LostCount(op) \/ FractionLost(op, o2)
    \/ NothingPushed(op, o1, o2) \/ CompilerStops(op, o1, o2) \/ LogicalShift(op, o1, o2)
    \/ WrongSign(op, o1, o2) \/ WrongOrder(op, o1, o2)

\* Two constants are folded by the front end.
Calculate ==
    /\ stage = "operands" /\ temps \subseteq {"x", "y"}
    /\ \E op \in Arithmetic \cup Tests, o1 \in XOperands, o2 \in YOperands :
          /\ ~(IsInt(o1) /\ IsInt(o2)) /\ ~CompilerStops(op, o1, o2)
          /\ Deviations \/ ~Wrong(op, o1, o2)
          /\ Emit(BinaryCode(op, o1, o2), Consumed(width, <<o1, o2>>),
                  Pushed(IF op \in Tests THEN 1 ELSE width,
                         OperationMeaning(op, Variable("x"), Variable("y"))))
          /\ stage' = IF op \in Tests THEN "truth" ELSE "done"
    /\ UNCHANGED <<mem, temps>>
ShiftBy ==
    /\ stage = "operands" /\ temps \subseteq {"x", "amount"} /\ width \in {8, 16, 32}
    /\ \E op \in Shifts, o1 \in XOperands, o2 \in AmountOperands :
          /\ ~(IsInt(o1) /\ IsInt(o2))
          /\ Deviations \/ ~Wrong(op, o1, o2)
          /\ Emit(BinaryCode(op, o1, o2), Consumed(width, <<o1>>) + Consumed(8, <<o2>>),
                  Pushed(width, L!Meaning(op, width, Variable("x"), <<0, Amount>>)))
    /\ stage' = "done" /\ UNCHANGED <<mem, temps>>
CalculateOne ==
    /\ stage = "operands" /\ temps \subseteq {"x"}
    /\ \E op \in {"not", "neg", "abs"} \cup (IF width \in {8, 16, 32} THEN {"bnot"} ELSE {}), o \in XOperands :
          /\ Deviations \/ ~(op = "abs" /\ SmallNumber)
          /\ Emit(UnaryCode(op, o), Consumed(width, <<o>>),
                  Pushed(IF op = "not" THEN 1 ELSE width,
                         OperationMeaning(op, Variable("x"), Variable("x"))))
          /\ stage' = IF op = "not" THEN "truth" ELSE "done"
    /\ UNCHANGED <<mem, temps>>

\* A jump, which leaves 1 if it is taken and else 0.
Branch(code) ==
    code \o << <<"ldn", "a", 0>>, PushA, <<"jp", "always", "end">>,
               <<"label", "target">>, <<"ldn", "a", 1>>, PushA, <<"label", "end">> >>
Taken(op, v) ==
    LET n == IF width = FloatBits THEN Rom!AsFixed(v) ELSE v
    IN  CASE op = "jzero" -> n = L!Zero [] op = "jnzero" -> n # L!Zero
          [] op = "jgezerou" -> TRUE
          [] op = "jgezeroi" -> ~L!Negative(L!Extended(IF width < 32 THEN width ELSE 32, TRUE, n))
Below0(o) == IF width \in {Fixed, FloatBits} THEN IsNegative(o) ELSE o[2] < 0
Jump ==
    /\ stage = "operands" /\ temps \subseteq {"x"}
    /\ \E op \in {"jzero", "jnzero", "jgezeroi"} \cup (IF width \in {8, 16, 32} THEN {"jgezerou"} ELSE {}), o \in XOperands :
          /\ op = "jgezeroi" /\ IsInt(o) => Below0(o) = ~Taken(op, Variable("x"))
          /\ Deviations \/ ~(width = FloatBits /\ op \in {"jzero", "jnzero"} /\ ~IsInt(o))
          /\ Emit(Branch(JumpCode(op, width, o, "target")), Consumed(width, <<o>>),
                  Pushed(8, L!Flag(Taken(op, Variable("x")))))
    /\ stage' = "jumped" /\ UNCHANGED <<mem, temps>>

\* What is done with the truth value of a comparison: 0 or anything else.
Truthful == want[Len(want)][2] = 1
JumpOnTruth ==
    /\ stage = "truth"
    /\ \E op \in {"jzero", "jnzero"} :
          Emit(Branch(JumpCode(op, 8, <<"temp">>, "target")), 1,
               Pushed(8, L!Flag((op = "jnzero") = Truthful)))
    /\ stage' = "done" /\ UNCHANGED <<mem, temps>>
TypeBits == [i8 |-> 8, u8 |-> 8, i16 |-> 16, u16 |-> 16, i32 |-> 32, u32 |-> 32, f16 |-> Fixed, f |-> FloatBits]
Signed == {"i8", "i16", "i32", "f16", "f"}
\* The fixed number of 32 bits a real is, and the whole number anything is.
AsNumber(w, signed, v) == IF w \in {Fixed, FloatBits} THEN v ELSE L!Extended(w, signed, v)
RealPart(w, v) == IF w = FloatBits THEN Rom!AsFixed(v) ELSE v
IntegerPart(w, v) ==
    IF w \in {Fixed, FloatBits}
    THEN <<IF L!Negative(RealPart(w, v)) THEN 65535 ELSE 0, RealPart(w, v)[1]>>
    ELSE v
Converted(from, to, signed, v) ==
    CASE to \in {8, 16, 32} -> L!Truncated(to, IntegerPart(from, AsNumber(from, signed, v)))
      [] to = Fixed -> IF from = FloatBits THEN Rom!AsFixed(v) ELSE <<AsNumber(from, signed, v)[2], 0>>
      [] to = FloatBits ->
           LET n == AsNumber(from, signed, v)  negative == signed /\ L!Negative(n)
           IN  Rom!Normal(negative, IF negative THEN L!Negated(n) ELSE n, IF from = Fixed THEN 16 ELSE 0)
CastTruth ==
    /\ stage = "truth"
    /\ \E to \in DOMAIN TypeBits :
          Emit(cast("bool", to, <<"temp">>), 1,
               Pushed(TypeBits[to], Converted(8, TypeBits[to], FALSE, L!Flag(Truthful))))
    /\ stage' = "done" /\ UNCHANGED <<mem, temps>>
Cast ==
    /\ stage = "operands" /\ temps \subseteq {"x"}
    /\ \E from, to \in DOMAIN TypeBits, o \in XOperands :
          /\ TypeBits[from] = width /\ from # to /\ ~IsInt(o)
          /\ Deviations \/ ~(to = "f16" /\ SmallNumber)
          /\ Emit(cast(from, to, o), Consumed(width, <<o>>),
                  Pushed(TypeBits[to], Converted(width, TypeBits[to], from \in Signed, Variable("x"))))
    /\ stage' = "done" /\ UNCHANGED <<mem, temps>>

ParamCode(o) == CASE width = 8 -> param8(o) [] width = 16 -> param16(o) [] width = 32 -> param32(o)
                  [] width = Fixed -> paramf16(o) [] width = FloatBits -> paramf(o)
FParamCode(o) == CASE width = 8 -> fparam8(o) [] width = 16 -> fparam16(o) [] width = 32 -> fparam32(o)
                   [] width = Fixed -> fparamf16(o) [] width = FloatBits -> fparamf(o)
RetCode(o, label) ==
    CASE width = 8 -> ret8(o, label) [] width = 16 -> ret16(o, label) [] width = 32 -> ret32(o, label)
      [] width = Fixed -> retf16(o, label) [] width = FloatBits -> retf(o, label)
PushResult == SubSeq(call("f", Size(width)), 2, Len(call("f", Size(width))))
\* A call of a FASTCALL function that returns its parameter, from the middle
\* of its body: x is passed and returned.
Clobber == << <<"ldnn", "hl", 0>>, <<"ldnn", "de", 0>>, <<"xor", "a">> >>
CallFunction ==
    /\ stage = "operands" /\ temps \subseteq {"x"}
    /\ \E o \in XOperands :
          EmitWith(PushResult \o RetCode(<<"temp">>, "leave") \o Clobber \o << <<"label", "leave">>, Ret >>,
                   FParamCode(o) \o call("f", Size(width)),
                   Consumed(width, <<o>>), Pushed(width, Variable("x")))
    /\ stage' = "done" /\ UNCHANGED <<mem, temps>>
\* A parameter of any other function is pushed.
PushParameter ==
    /\ stage = "operands" /\ temps \subseteq {"x"}
    /\ \E o \in XOperands : Emit(ParamCode(o), Consumed(width, <<o>>), Pushed(width, Variable("x")))
    /\ stage' = "done" /\ UNCHANGED <<mem, temps>>

StoreCode(d, o) ==
    CASE width = 8 -> store8(d, o) [] width = 16 -> store16(d, o) [] width = 32 -> store32(d, o)
      [] width = Fixed -> storef16(d, o) [] width = FloatBits -> storef(d, o)
\* Where d = x leads: Z gets the bytes of x.
Stored ==
    [at \in Addresses |-> IF at \in Z .. Z + Size(width) - 1 THEN mem[at - Z + X] ELSE mem[at]]
Store ==
    /\ stage = "operands" /\ temps \subseteq {"address", "x"}
    /\ \E d \in {<<"id", Z>>, <<"*id", Pointer>>, <<"temp">>}, o \in XOperands :
          /\ IsTemp(d) <=> "address" \in temps
          /\ Emit(StoreCode(d, o), Consumed(width, <<o>>) + Consumed(16, <<d>>), <<>>)
    /\ mem' = Stored /\ stage' = "done" /\ UNCHANGED temps

Next ==
    \/ LoadAddress \/ LoadX \/ LoadY \/ LoadAmount \/ LoadIndirect
    \/ Calculate \/ ShiftBy \/ CalculateOne \/ Jump \/ JumpOnTruth \/ CastTruth \/ Cast
    \/ CallFunction \/ PushParameter \/ Store
Spec == Init /\ [][Next]_vars
-----------------------------------------------------------------------------
\* Each instruction takes from the stack the temporaries that are its
\* operands, and pushes its result: the code of constants and of variables
\* does not leave a word behind nor eat one of a caller.
Balanced == Len(cpu.st) = 2 * Len(want)

\* The results are the values the operations mean, in all the widths, for
\* temporaries, variables and constants in either place, and the words under
\* the operands are what they were.
ValuesRight ==
    Balanced => \A k \in DOMAIN want : Fits(cpu.st, k, want[k])

\* No instruction but a store changes a variable, and a store changes its
\* destination alone, all of it.
MemoryRight == cpu.m = mem

\* A jump on a float is taken when the float is, or is not, 0, as the
\* docstrings of jzerof and jnzerof say; the code looks at registers the
\* operand is not in.
FloatJumpRight == width = FloatBits /\ stage = "jumped" => ValuesRight
=============================================================================
