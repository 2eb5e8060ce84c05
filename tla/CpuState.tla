------------------------------ MODULE CpuState ------------------------------
(***************************************************************************)
(* What the optimizer of levels 3 and 4 knows of the processor             *)
(* (src/arch/z80/optimizer/cpustate.py, with the values of helpers.py):    *)
(* the contents of registers, of the stack and of memory, and the carry    *)
(* and zero flags, as texts.  A text is                                    *)
(*   <<"num", k>>         a number         <<"s", v, d>>, <<"L", l>> a label*)
(*   <<"tmp", epoch, n, what>>, <<"half", "H" or "L", label>>               *)
(*                        an unknown byte, the same wherever the text is   *)
(*   <<"pair", hi, lo>>   an unknown word, of two bytes                    *)
(* Unknown bytes are numbered by the state they first came up in: epoch    *)
(* tells the reset and n the line.  Memory is known by the text of the     *)
(* address.  Flags are <<>> when unknown.                                  *)
(***************************************************************************)
EXTENDS Peephole

Num(k) == <<"num", k>>
IsNum(v) == v[1] = "num"
IsUnknown8(v) == v[1] \in {"tmp", "half"}
IsText(v) == v[1] \in {"s", "L"}
new_tmp_val(c, what) == <<"tmp", c.epoch, c.n, what>>
new_tmp_val16(c, what) == <<"pair", new_tmp_val(c, what \o ".h"), new_tmp_val(c, what \o ".l")>>
new_tmp_val16_from_label(text) == <<"pair", <<"half", "H", text>>, <<"half", "L", text>>>>
\* The lower and the upper byte of a text that is not a label, and the word of two.
LowOf(v) == CASE IsNum(v) -> Num(v[2] % 256) [] v[1] = "pair" -> v[3] [] IsUnknown8(v) -> v
HighOf(v) == CASE IsNum(v) -> Num((v[2] \div 256) % 256) [] v[1] = "pair" -> v[2]
Joined(h, l) == IF IsNum(h) /\ IsNum(l) THEN Num(256 * h[2] + l[2]) ELSE <<"pair", h, l>>
\* HL 16 bits: a label becomes the halves of it.
Halved(v) == IF IsText(v) THEN new_tmp_val16_from_label(v) ELSE v

Prime(r) == r \o "'"
\* The halves of a pair, and the pair a half is of.
Parts == BytesOf @@ ("af'" :> <<"a'", "f'">>) @@ ("bc'" :> <<"b'", "c'">>) @@ ("de'" :> <<"d'", "e'">>)
                 @@ ("hl'" :> <<"h'", "l'">>)
PartsOf(names) == {names[rr][1] : rr \in DOMAIN names} \cup {names[rr][2] : rr \in DOMAIN names}
PairOf == [r \in PartsOf(Parts) |-> CHOOSE rr \in DOMAIN Parts : \E k \in {1, 2} : Parts[rr][k] = r]

\* reset, with what is known of registers and memory.
Unknowns(epoch) ==
    LET Token(r) == <<"tmp", epoch, 0, r>>
    IN  [r \in DOMAIN PairOf |-> Token(r)] @@ [rr \in DOMAIN Parts |-> <<"pair", Token(Parts[rr][1]), Token(Parts[rr][2])>>]
        @@ ("sp" :> Token("sp"))
Flags(c, carry, zero) == [c EXCEPT !.C = carry, !.Z = zero, !.regs["f"] = new_tmp_val(c, "f")]
reset_flags(c) == Flags(c, <<>>, <<>>)
reset(epoch, regs, mems) ==
    reset_flags([regs |-> regs @@ Unknowns(epoch), stack |-> <<>>, mem |-> mems, C |-> <<>>, Z |-> <<>>,
                 n |-> 0, epoch |-> epoch])
-----------------------------------------------------------------------------
\* Memory: the key of an operand in brackets, the key of the next byte.
KeyOf(c, o) == CASE o[1] = "mn" -> Num(o[2]) [] o[1] = "ms" -> <<"s", o[2], o[3]>> [] o[1] = "i" -> c.regs[o[2]]
NextKey(key) == IF IsNum(key) THEN Num(key[2] + 1) ELSE <<"next", key>>
\* __missing__: a byte that is read for the first time is unknown from then on.
Seen(c, key) == IF key \in DOMAIN c.mem THEN c ELSE [c EXCEPT !.mem = @ @@ (key :> <<"tmp", c.epoch, -1, key>>)]
IsByteAt(o) == o[1] = "i"      \* (hl), (de) and (bc); nothing is got from (sp)
Touched(c, o) ==
    CASE ~IsMemory(o) \/ o = Indirect("sp") -> c
      [] IsByteAt(o) /\ o # Indirect("sp") -> Seen(c, KeyOf(c, o))
      [] IsMemory(o) /\ ~IsByteAt(o) -> Seen(Seen(c, NextKey(KeyOf(c, o))), KeyOf(c, o))
Remembered(c, key, v) == [c EXCEPT !.mem = (key :> v) @@ @]
write_8_bit_value(c, key, v) == Remembered(c, key, LowOf(Halved(v)))
write_16_bit_value(c, key, v) ==
    Remembered(Remembered(c, key, LowOf(Halved(v))), NextKey(key), HighOf(Halved(v)))

\* get: the text of an operand, in a state where it has been touched.
get(c, o) ==
    CASE IsReg(o) -> c.regs[o[2]]
      [] o[1] = "n" -> Num(o[2])
      [] IsText(o) -> o
      [] o[1] = "i" -> c.mem[KeyOf(c, o)]
      [] o[1] \in {"mn", "ms"} -> Joined(c.mem[NextKey(KeyOf(c, o))], c.mem[KeyOf(c, o)])
\* getv: the number, <<>> when it is not known.
Value(v) == IF IsNum(v) THEN <<v[2]>> ELSE <<>>
getv(c, o) == Value(get(c, o))

\* fault: the pair keeps the text it had.
SetByteAlone(c, r, v) == [c EXCEPT !.regs[r] = LowOf(v)]
\* set, of a register to a text.
InPair(regs, rr, parts) == [regs EXCEPT ![rr] = Joined(regs[parts[1]], regs[parts[2]])]
AndPair(regs, rr) == InPair(regs, rr, Parts[rr])
SetByte(c, r, v) == [c EXCEPT !.regs = AndPair([@ EXCEPT ![r] = LowOf(v)], PairOf[r])]
SetHalves(c, rr, parts, v, halves) ==
    [c EXCEPT !.regs = [@ EXCEPT ![rr] = v, ![parts[1]] = HighOf(halves), ![parts[2]] = LowOf(halves)]]
AndFlags(c, rr) == IF rr = "af" THEN reset_flags(c) ELSE c
SetWord(c, rr, w) ==
    LET v == IF IsUnknown8(w) THEN <<"pair", new_tmp_val(c, "hi"), w>> ELSE w
    IN  AndFlags(SetHalves(c, rr, Parts[rr], v, Halved(v)), rr)
Masked(v) == IF IsNum(v) THEN Num(v[2] % 65536) ELSE v
SetReg(c, r, v) ==
    CASE r = "sp" -> [c EXCEPT !.regs["sp"] = Masked(v)]
      [] r # "sp" /\ r \in DOMAIN Parts -> SetWord(c, r, Masked(v))
      [] r # "sp" /\ r \notin DOMAIN Parts -> SetByte(c, r, Masked(v))
Forget(c, r) == SetReg(c, r, new_tmp_val16(c, r))
SetNumber(c, r, k) == SetReg(c, r, Num(k))
\* ld o, source: a byte or a word is stored, as the register is.
set(c, o, source) ==
    LET v == Masked(get(c, source))
    IN  CASE IsReg(o) -> SetReg(c, o[2], v)
          [] IsByteAt(o) -> write_8_bit_value(c, KeyOf(c, o), v)
          [] o[1] \in {"mn", "ms"} ->
               IF IsReg8(source) THEN write_8_bit_value(c, KeyOf(c, o), v)
               ELSE write_16_bit_value(c, KeyOf(c, o), IF IsUnknown8(v) THEN <<"pair", new_tmp_val(c, "hi"), v>> ELSE v)
-----------------------------------------------------------------------------
\* The instructions.  INC and DEC are said to change the carry too, as if they
\* were ADD and SUB, and OR, AND and XOR never to give zero.
Told(p) == <<Bit(p)>>
Step1(c, o, by) ==     \* inc and dec
    LET old == getv(c, o)
        new == (old[1] + by) % 256
        carry == Told(new = IF by = 1 THEN 0 ELSE 255)
    IN  CASE IsReg(o) /\ o[2] \notin Regs8 -> IF old = <<>> THEN Forget(c, o[2]) ELSE SetNumber(c, o[2], old[1] + by)
          [] IsReg(o) /\ o[2] \in Regs8 ->
               IF old = <<>> THEN reset_flags(Forget(c, o[2]))
               ELSE Flags(SetNumber(c, o[2], old[1] + by), carry, Told(new = 0))
          [] IsMemory(o) ->
               IF old = <<>> THEN reset_flags(write_8_bit_value(c, KeyOf(c, o), new_tmp_val(c, "byte")))
               ELSE Flags(write_8_bit_value(c, KeyOf(c, o), Num(new)), carry, Told(new = 0))

\* rr and rl through the carry; rr leaves the text of the pair as it was.
rr_(c, r) ==
    LET v == Value(c.regs[r])
    IN  IF c.C = <<>> \/ v = <<>> THEN reset_flags(Forget(c, r))
        ELSE [Flags(c, <<v[1] % 2>>, c.Z) EXCEPT !.regs[r] = Num(v[1] \div 2 + 128 * c.C[1])]
rl_(c, r) ==
    LET v == Value(c.regs[r])
        rotated == SetNumber(c, r, ((2 * v[1]) % 256) + (v[1] \div 128))
    IN  IF c.C = <<>> \/ v = <<>> THEN reset_flags(Forget(c, r))
        ELSE [Flags(rotated, <<v[1] \div 128>>, c.Z) EXCEPT !.regs[r] = Num(((2 * v[1]) % 256) + c.C[1])]

Table(op) == CASE op = "and" -> AndTable [] op = "or" -> OrTable [] op = "xor" -> XorTable
logic(c, op, o) ==
    LET a == getv(c, A)  v == getv(c, o)
    IN  IF op = "xor" /\ o = A THEN Flags(SetNumber(c, "a", 0), <<0>>, <<1>>)
        ELSE IF a = <<>> \/ v = <<>> THEN Flags(Forget(c, "a"), <<0>>, <<>>)
        ELSE Flags(SetNumber(c, "a", Bitwise8(Table(op), a[1], v[1] % 256)), <<0>>, <<0>>)

adc_sbc(c, op, o1, o2) ==
    LET x == getv(c, o1)  y == getv(c, o2)
        top == IF IsReg8(o1) THEN 255 ELSE 65535
        total == IF op = "adc" THEN x[1] + y[1] + c.C[1] ELSE x[1] - y[1] - c.C[1]
    IN  IF c.C = <<>> THEN Flags(Forget(c, o1[2]), <<>>, <<>>)
        ELSE IF op = "sbc" /\ o1 = o2 THEN Flags(SetNumber(c, o1[2], -c.C[1]), c.C, <<1 - c.C[1]>>)
        ELSE IF x = <<>> \/ y = <<>> THEN Forget(reset_flags(c), o1[2])
        ELSE IF op = "adc" THEN SetNumber(Flags(c, Told(total > top), c.Z), o1[2], total)
        ELSE SetNumber(Flags(c, Told(total < 0), Told(total = 0)), o1[2], total)

neg(c) ==
    LET a == getv(c, A)
    IN  IF a = <<>> THEN reset_flags(Forget(c, "a"))
        ELSE Flags(SetNumber(c, "a", -a[1]), Told(a[1] # 0), Told(a[1] = 0))
cp(c, o) ==
    LET a == getv(c, A)  v == getv(c, o)
    IN  IF a = <<>> \/ v = <<>> THEN reset_flags(c) ELSE Flags(c, Told(a[1] < v[1]), Told(a[1] = v[1]))

Swapped(c, names) ==    \* with the other set
    [c EXCEPT !.regs = [r \in {Prime(x) : x \in names} |-> c.regs[CHOOSE x \in names : Prime(x) = r]]
                       @@ [r \in names |-> c.regs[Prime(r)]] @@ @]
ExDeHl(c) ==
    [c EXCEPT !.regs = [de |-> @["hl"], d |-> @["h"], e |-> @["l"], hl |-> @["de"], h |-> @["d"], l |-> @["e"]] @@ @]

\* sp wraps at 65535, one early.
Stacked(c, by) ==
    LET sp == Value(c.regs["sp"])
    IN  IF sp = <<>> THEN [c EXCEPT !.regs["sp"] = new_tmp_val16(c, "sp")]
        ELSE [c EXCEPT !.regs["sp"] = Num((sp[1] + by) % 65535)]
push(c, o) == LET on == Stacked(c, -2) IN [on EXCEPT !.stack = Append(@, on.regs[o[2]])]
pop(c, o) ==
    Stacked(IF c.stack = <<>> THEN Forget(c, o[2])
            ELSE SetReg([c EXCEPT !.stack = SubSeq(@, 1, Len(@) - 1)], o[2], c.stack[Len(c.stack)]), 2)

Performed(c, l) ==
    LET op == Name(l)  x == Op(l, 1)  y == Op(l, 2)
    IN  CASE op = "ld" -> set(c, x, y)
          [] op = "push" -> push(c, x)
          [] op = "pop" -> pop(c, x)
          [] op \in {"inc", "dec"} -> Step1(c, x, IF op = "inc" THEN 1 ELSE -1)
          [] op \in {"rra", "rr"} -> rr_(c, IF op = "rra" THEN "a" ELSE x[2])
          [] op = "rla" -> rl_(c, "a")
          [] op = "exx" -> Swapped(c, {"bc", "de", "hl", "b", "c", "d", "e", "h", "l"})
          [] op = "ex" -> IF x = DE THEN ExDeHl(c) ELSE Swapped(c, {"af", "a", "f"})
          [] op \in {"or", "and", "xor"} -> logic(c, op, x)
          [] op \in {"adc", "sbc"} -> adc_sbc(c, op, x, y)
          [] op = "sub" /\ x = A -> Flags(SetNumber(c, "a", 0), <<0>>, <<1>>)
          [] op = "sub" /\ x # A -> Forget(reset_flags(c), "a")
          [] op = "add" -> Forget(reset_flags(c), x[2])
          [] op = "neg" -> neg(c)
          [] op = "ccf" -> IF c.C = <<>> THEN c ELSE Flags(c, <<1 - c.C[1]>>, c.Z)
          [] op = "cpl" -> IF getv(c, A) = <<>> THEN Forget(c, "a") ELSE SetNumber(c, "a", 255 - getv(c, A)[1])
          [] op = "cp" -> cp(c, x)
          [] op \in {"jp", "ret", "call", "label"} -> c
          [] OTHER -> reset(c.epoch \o <<c.n>>, <<>>, <<>>)
execute(c, l) ==
    LET on == [c EXCEPT !.n = @ + 1]
    IN  Performed(Touched(Touched(on, Op(l, 1)), Op(l, 2)), l)
=============================================================================
