-------------------------------- MODULE Z80 --------------------------------
(***************************************************************************)
(* The part of the Z80 the compiler's code and the runtime's arithmetic    *)
(* use.  A machine is a record: the registers a .. l, the flags cf, zf, sf *)
(* and pv, the index register ix, the other sets (set2, af2) of EXX and EX *)
(* AF, AF', the memory m (a function from addresses to bytes) and the      *)
(* stack st, a sequence of bytes down from StackTop; below is the word INC *)
(* SP left under the stack, and irq tells whether an interrupt comes,      *)
(* whose return address overwrites it; fp is the stack of the calculator   *)
(* of the ROM.                                                             *)
(* An instruction is a tuple: its name and its operands, which are names   *)
(* of registers or, for the names that end in n, numbers.                  *)
(***************************************************************************)
EXTENDS Integers, Sequences, Bitwise

Rom == INSTANCE Calculator

Byte == 256
Word == 65536
StackTop == 32768

\* Two's complement.
Low(n) == n % Byte
Wrap(n) == n % Word
Signed8(n) == IF Low(n) < 128 THEN Low(n) ELSE Low(n) - Byte
Signed16(n) == IF Wrap(n) < 32768 THEN Wrap(n) ELSE Wrap(n) - Word

Bit(p) == IF p THEN 1 ELSE 0

Halves == [hl |-> <<"h", "l">>, de |-> <<"d", "e">>, bc |-> <<"b", "c">>]

FlagByte(s) == 128 * s.sf + 64 * s.zf + 4 * s.pv + s.cf

Pair(s, rr) ==
    CASE rr = "af" -> Byte * s.a + FlagByte(s)
      [] rr \in DOMAIN Halves -> Byte * s[Halves[rr][1]] + s[Halves[rr][2]]
      [] rr \in {"ix", "iy"} -> s[rr]
      [] rr = "sp" -> StackTop - Len(s.st)

SetPair(s, rr, w) ==
    CASE rr = "af" ->
           [s EXCEPT !.a = w \div Byte, !.sf = (w \div 128) % 2,
                     !.zf = (w \div 64) % 2, !.pv = (w \div 4) % 2, !.cf = w % 2]
      [] rr \in DOMAIN Halves -> [s EXCEPT ![Halves[rr][1]] = w \div Byte, ![Halves[rr][2]] = w % Byte]
      [] rr \in {"ix", "iy"} -> [s EXCEPT ![rr] = w]

\* Addresses wrap; a byte of the ROM or of memory nobody set reads as 170.
OnStack(s, at) == at \in StackTop - Len(s.st) .. StackTop - 1
Peek(s, at) ==
    IF Wrap(at) \in DOMAIN s.m THEN s.m[Wrap(at)]
    ELSE IF OnStack(s, Wrap(at)) THEN s.st[StackTop - Wrap(at)] ELSE 170
PeekWord(s, at) == Peek(s, at) + Byte * Peek(s, at + 1)
Poke(s, at, v) ==
    IF Wrap(at) \in DOMAIN s.m THEN [s EXCEPT !.m[Wrap(at)] = v]
    ELSE IF OnStack(s, Wrap(at)) THEN [s EXCEPT !.st[StackTop - Wrap(at)] = v] ELSE s
PokeWord(s, at, w) == Poke(Poke(s, at, w % Byte), at + 1, w \div Byte)

\* A pop from an empty stack reads what the caller left there.
Top(s) == IF Len(s.st) < 2 THEN 43690 ELSE Byte * s.st[Len(s.st) - 1] + s.st[Len(s.st)]
DropBytes(s, n) == [s EXCEPT !.st = SubSeq(@, 1, Len(@) - n)]
Drop(s) == DropBytes(s, 2)
Push(s, w) == [s EXCEPT !.st = @ \o <<w \div Byte, w % Byte>>]
\* LD SP: bytes are left, or taken as they are in memory.
MoveStack(s, w) ==
    IF w > StackTop - Len(s.st) THEN DropBytes(s, w - (StackTop - Len(s.st)))
    ELSE [s EXCEPT !.st = @ \o [k \in 1 .. StackTop - Len(@) - w |-> 170]]
-----------------------------------------------------------------------------
SignZero(s, v) == [s EXCEPT !.zf = Bit(v = 0), !.sf = v \div 128]

\* Bitwise operations, by tables of nibbles.
AndTable == [k \in 0 .. 255 |-> (k \div 16) & (k % 16)]
OrTable == [k \in 0 .. 255 |-> (k \div 16) | (k % 16)]
XorTable == [k \in 0 .. 255 |-> (k \div 16) ^^ (k % 16)]
Bitwise8(table, x, y) ==
    16 * table[16 * (x \div 16) + (y \div 16)] + table[16 * (x % 16) + (y % 16)]

ParityTable ==
    LET Folded(n, k) == (n % k) ^^ (n \div k)
    IN  [v \in 0 .. 255 |-> 1 - Folded(Folded(Folded(v, 16), 4), 2)]
Parity(v) == ParityTable[v]

\* A + v + c and A - v - c, the flags with them.
Sum(s, v, c) ==
    LET n == s.a + v + c
    IN  [SignZero(s, Low(n)) EXCEPT
            !.a = Low(n), !.cf = n \div Byte,
            !.pv = Bit(Signed8(s.a) + Signed8(v) + c \notin -128 .. 127)]
Difference(s, v, c) ==
    LET n == s.a - v - c
    IN  [SignZero(s, Low(n)) EXCEPT
            !.a = Low(n), !.cf = Bit(n < 0),
            !.pv = Bit(Signed8(s.a) - Signed8(v) - c \notin -128 .. 127)]
Logic(s, v) == [SignZero(s, v) EXCEPT !.a = v, !.cf = 0, !.pv = Parity(v)]

Alu(op, s, v) ==
    CASE op = "add" -> Sum(s, v, 0)        [] op = "adc" -> Sum(s, v, s.cf)
      [] op = "sub" -> Difference(s, v, 0) [] op = "sbc" -> Difference(s, v, s.cf)
      [] op = "cp"  -> [Difference(s, v, 0) EXCEPT !.a = s.a]
      [] op = "and" -> Logic(s, Bitwise8(AndTable, s.a, v))
      [] op = "or"  -> Logic(s, Bitwise8(OrTable, s.a, v))
      [] op = "xor" -> Logic(s, Bitwise8(XorTable, s.a, v))

\* The word operations on HL: ADD keeps all the flags but the carry.
AddWord(s, w) ==
    LET n == Pair(s, "hl") + w
    IN  [SetPair(s, "hl", Wrap(n)) EXCEPT !.cf = n \div Word]
CarryWord(s, n, signed) ==
    LET v == Wrap(n)
    IN  [SetPair(s, "hl", v) EXCEPT
            !.cf = Bit(n \notin 0 .. Word - 1), !.zf = Bit(v = 0),
            !.sf = v \div 32768, !.pv = Bit(signed \notin -32768 .. 32767)]
AdcWord(s, w) ==
    CarryWord(s, Pair(s, "hl") + w + s.cf,
              Signed16(Pair(s, "hl")) + Signed16(w) + s.cf)
SbcWord(s, w) ==
    CarryWord(s, Pair(s, "hl") - w - s.cf,
              Signed16(Pair(s, "hl")) - Signed16(w) - s.cf)

\* Shifts and rotations: the new value and the bit that goes to the carry.
Shifted(op, v, c) ==
    CASE op = "srl" -> <<v \div 2, v % 2>>
      [] op = "sra" -> <<v \div 2 + 128 * (v \div 128), v % 2>>
      [] op = "rr"  -> <<v \div 2 + 128 * c, v % 2>>
      [] op = "sla" -> <<Low(2 * v), v \div 128>>
      [] op = "sll" -> <<Low(2 * v) + 1, v \div 128>>
      [] op = "rl"  -> <<Low(2 * v) + c, v \div 128>>
Shift(s, op, r) ==
    LET to == Shifted(op, s[r], s.cf)
    IN  [SignZero(s, to[1]) EXCEPT ![r] = to[1], !.cf = to[2], !.pv = Parity(to[1])]
-----------------------------------------------------------------------------
\* One instruction that is neither a jump nor a call.
Step(s, i) ==
    LET op == i[1]  x == i[2]
    IN  CASE op = "ld"    -> [s EXCEPT ![x] = s[i[3]]]
          [] op = "ldn"   -> [s EXCEPT ![x] = Low(i[3])]
          [] op = "ldnn"  -> SetPair(s, x, Wrap(i[3]))
          [] op = "lda@"  -> [s EXCEPT !.a = Peek(s, x)]             \* ld a, (x)
          [] op = "ld@a"  -> Poke(s, x, s.a)                         \* ld (x), a
          [] op = "ldw@"  -> SetPair(s, x, PeekWord(s, i[3]))        \* ld rr, (nn)
          [] op = "ld@w"  -> PokeWord(s, x, Pair(s, i[3]))           \* ld (nn), rr
          [] op = "ld(rr)" -> [s EXCEPT ![x] = Peek(s, Pair(s, i[3]))]
          [] op = "ld(rr)r" -> Poke(s, Pair(s, x), s[i[3]])
          [] op = "push"  -> Push(s, Pair(s, x))
          [] op = "pop"   -> SetPair(Drop(s), x, Top(s))
          [] op \in {"add", "adc", "sub", "sbc", "cp", "and", "or", "xor"}
                          -> Alu(op, s, s[x])
          [] op \in {"addn", "subn", "andn", "xorn", "cpn"}
                          -> Alu(CASE op = "addn" -> "add" [] op = "subn" -> "sub"
                                   [] op = "andn" -> "and" [] op = "xorn" -> "xor"
                                   [] op = "cpn" -> "cp",
                                 s, Low(x))
          [] op = "inc"   -> [SignZero(s, Low(s[x] + 1)) EXCEPT
                                 ![x] = Low(@ + 1), !.pv = Bit(s[x] = 127)]
          [] op = "dec"   -> [SignZero(s, Low(s[x] - 1)) EXCEPT
                                 ![x] = Low(@ - 1), !.pv = Bit(s[x] = 128)]
          [] op = "incw"  -> SetPair(s, x, Wrap(Pair(s, x) + 1))
          [] op = "decw"  -> SetPair(s, x, Wrap(Pair(s, x) - 1))
          [] op = "addw"  -> AddWord(s, Pair(s, x))
          [] op = "adcw"  -> AdcWord(s, Pair(s, x))
          [] op = "sbcw"  -> SbcWord(s, Pair(s, x))
          [] op \in {"srl", "sra", "rr", "sla", "sll", "rl"} -> Shift(s, op, x)
          [] op = "rla"   -> [s EXCEPT !.a = Low(2 * s.a) + s.cf, !.cf = s.a \div 128]
          [] op = "rra"   -> [s EXCEPT !.a = s.a \div 2 + 128 * s.cf, !.cf = s.a % 2]
          [] op = "bit7"  -> [s EXCEPT !.zf = Bit(s[x] < 128)]
          [] op = "cpl"   -> [s EXCEPT !.a = 255 - s.a]
          [] op = "neg"   -> Difference([s EXCEPT !.a = 0], s.a, 0)
          [] op = "ccf"   -> [s EXCEPT !.cf = 1 - s.cf]
          [] op = "exdehl" -> SetPair(SetPair(s, "de", Pair(s, "hl")), "hl", Pair(s, "de"))
          [] op = "exaf"  -> [SetPair(s, "af", s.af2) EXCEPT !.af2 = Pair(s, "af")]
          [] op = "exsp"  -> SetPair(Push(Drop(s), Pair(s, "hl")), "hl", Top(s))
          [] op = "incsp" -> DropBytes(s, 1)
          [] op = "incsp2" -> [Drop(s) EXCEPT !.below = Top(s)]
          [] op = "decsp2" -> Push(s, IF s.irq THEN 43690 ELSE s.below)
          [] op = "exx"   -> [SetPair(SetPair(SetPair(s, "hl", s.set2[1]), "de", s.set2[2]),
                                      "bc", s.set2[3]) EXCEPT
                                 !.set2 = <<Pair(s, "hl"), Pair(s, "de"), Pair(s, "bc")>>]
          [] op = "ld(rr)n" -> Poke(s, Pair(s, x), Low(i[3]))
          [] op = "ld(ix)" -> [s EXCEPT ![x] = Peek(s, s.ix + Signed8(i[3]))]
          [] op = "ld(ix)r" -> Poke(s, s.ix + Signed8(x), s[i[3]])
          [] op = "ld(ix)n" -> Poke(s, s.ix + Signed8(x), Low(i[3]))
          [] op = "addix" -> [s EXCEPT !.ix = Wrap(s.ix + Pair(s, x)),
                                       !.cf = (s.ix + Pair(s, x)) \div Word]
          [] op = "ldsp"  -> MoveStack(s, Pair(s, x))
          [] op = "ldir"  -> LET w == Poke(s, Pair(s, "de"), Peek(s, Pair(s, "hl")))
                                 next == SetPair(SetPair(w, "hl", Wrap(Pair(s, "hl") + 1)),
                                                 "de", Wrap(Pair(s, "de") + 1))
                             IN  SetPair(next, "bc", Wrap(Pair(s, "bc") - 1))
          [] op = "rlca"  -> [s EXCEPT !.a = Low(2 * s.a) + (s.a \div 128), !.cf = s.a \div 128]
          [] op = "rlc"   -> LET v == Low(2 * s[x]) + (s[x] \div 128)
                             IN  [SignZero(s, v) EXCEPT ![x] = v, !.cf = v % 2, !.pv = Parity(v)]
          [] op = "bit1"  -> [s EXCEPT !.zf = Bit((s[x] \div 2) % 2 = 0)]
          [] op = "set7"  -> [s EXCEPT ![x] = (@ % 128) + 128]
          [] op = "res7"  -> [s EXCEPT ![x] = @ % 128]
          [] op = "stk-store" -> [SetPair(s, "hl", 23692) EXCEPT !.fp = Append(@, <<s.a, s.e, s.d, s.c, s.b>>)]
          [] op = "stk-fetch" -> LET f == s.fp[Len(s.fp)]
                                 IN  [SetPair(s, "hl", 23692) EXCEPT
                                         !.fp = SubSeq(@, 1, Len(@) - 1), !.a = f[1], !.e = f[2],
                                         !.d = f[3], !.c = f[4], !.b = f[5]]
          [] op = "rst28" -> [s EXCEPT !.fp = Rom!Calculated(x, @), !.a = 90, !.b = 165, !.c = 60,
                                       !.d = 195, !.e = 15, !.h = 240, !.l = 105, !.set2 = <<1, 2, 3>>]
          [] op = "label" -> s

Holds(s, cond) ==
    CASE cond = "z"  -> s.zf = 1 [] cond = "nz" -> s.zf = 0
      [] cond = "c"  -> s.cf = 1 [] cond = "nc" -> s.cf = 0
      [] cond = "p"  -> s.sf = 0 [] cond = "m"  -> s.sf = 1
      [] cond = "pe" -> s.pv = 1 [] cond = "po" -> s.pv = 0
      [] cond = "zero divisor" -> Rom!IsZero(s.fp[Len(s.fp) - 1])
      [] cond = "always" -> TRUE

Target(code, name) == CHOOSE j \in 1 .. Len(code) : code[j] = <<"label", name>>

\* A configuration is a machine and the places execution is at: for the code
\* and for each routine entered, the code and the index of the instruction.
\* A routine returns to the address its RET pops, or the stack is lost.
ReturnAddress == 48879
Returned(s) == IF Top(s) = ReturnAddress THEN Drop(s) ELSE [s EXCEPT !.st = <<>>]

Done(c) == c.at = <<>>
JumpTo(s, code, pc) ==
    LET i == code[pc]
    IN  CASE i[1] = "jp" -> IF Holds(s, i[2]) THEN Target(code, i[3]) ELSE pc + 1
          [] i[1] = "djnz" -> IF s.b # 1 THEN Target(code, i[2]) ELSE pc + 1
          [] OTHER -> pc + 1
Advance(Routines, c) ==
    LET n == Len(c.at)
        code == c.at[n][1]  pc == c.at[n][2]  i == code[pc]
        Go(s, to) == [s |-> s, at |-> [c.at EXCEPT ![n] = <<code, to>>]]
        Leave(s) == [s |-> s, at |-> SubSeq(c.at, 1, n - 1)]
    IN  IF pc > Len(code) THEN Leave(c.s)
        ELSE IF i[1] \notin {"jp", "djnz", "call", "ret"}
        THEN Go(Step(c.s, i), IF i[1] = "ldir" /\ Pair(c.s, "bc") # 1 THEN pc ELSE pc + 1)
        ELSE IF i[1] \in {"call", "ret"} /\ Holds(c.s, i[2])
        THEN IF i[1] = "ret" THEN Leave(Returned(c.s))
             ELSE [s |-> Push(c.s, ReturnAddress),
                   at |-> Append(Go(c.s, pc + 1).at, <<Routines[i[3]], 1>>)]
        ELSE Go(IF i[1] = "djnz" THEN [c.s EXCEPT !.b = Low(@ - 1)] ELSE c.s,
                JumpTo(c.s, code, pc))

\* At most MaxInstructions instructions, by halves: TLC's recursion stays short.
MaxInstructions == 4096
RECURSIVE Advanced(_, _, _)
Advanced(Routines, c, n) ==
    IF Done(c) THEN c
    ELSE IF n = 1 THEN Advance(Routines, c)
         ELSE Advanced(Routines, Advanced(Routines, c, n \div 2), n \div 2)

Run(Routines, code, s) ==
    Advanced(Routines, [s |-> s, at |-> << <<code, 1>> >>], MaxInstructions).s
=============================================================================
