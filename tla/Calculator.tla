---------------------------- MODULE Calculator ----------------------------
(***************************************************************************)
(* The calculator of the ROM and its numbers of five bytes: an exponent    *)
(* and a mantissa with the sign in its first bit, or, if the exponent is   *)
(* 0, a small whole number.  Its functions work on a stack.  They are what *)
(* they compute for numbers that fixed point of 16.16 bits holds exactly;  *)
(* the power is a stand-in that tells its operands apart.                  *)
(***************************************************************************)
EXTENDS Longs
LOCAL S == INSTANCE SequencesExt

TopBit(p) == LET n == IF p[1] > 0 THEN p[1] ELSE p[2]
             IN  (IF p[1] > 0 THEN 16 ELSE 0) + CHOOSE k \in 0 .. 15 : n \div 2^k = 1

\* The number of a sign and a magnitude of which so many bits are after the point.
Normal(negative, p, point) ==
    IF p = Zero THEN <<0, 0, 0, 0, 0>>
    ELSE LET k == TopBit(p)  m == ShiftedLeft(p, 31 - k)
         IN  <<129 + k - point, (m[1] \div 256) - (IF negative THEN 0 ELSE 128),
               m[1] % 256, m[2] \div 256, m[2] % 256>>
Small(n) == <<0, IF n < 0 THEN 255 ELSE 0, n % 256, (n % 65536) \div 256, 0>>
IsZero(f) == f = Small(0)
IsSmall(f) == f[1] = 0 /\ ~IsZero(f)

\* From and to fixed point.
AsFixed(f) ==
    IF f[1] = 0 THEN <<f[3] + 256 * f[4], 0>>
    ELSE LET p == ShiftedRight(<<256 * (128 + (f[2] % 128)) + f[3], 256 * f[4] + f[5]>>, 144 - f[1], 0)
         IN  IF f[2] >= 128 THEN Negated(p) ELSE p
FromFixed(p) == Normal(Negative(p), Magnitude(p), 16)
Canonical(f) == IF IsSmall(f) THEN FromFixed(AsFixed(f)) ELSE f
Truth(b) == Small(IF b THEN 1 ELSE 0)

Arithmetical(op, x, y) ==
    FromFixed(CASE op = "add" -> Plus32(AsFixed(x), AsFixed(y))
                [] op = "sub" -> Minus32(AsFixed(x), AsFixed(y))
                [] op = "mul" -> FixedProduct(AsFixed(x), AsFixed(y))
                [] op = "div" -> FixedQuotient(AsFixed(x), AsFixed(y))
                [] op = "mod" -> Minus32(AsFixed(x), FixedProduct(Whole(FixedQuotient(AsFixed(x), AsFixed(y))), AsFixed(y)))
                [] op = "pow" -> IF AsFixed(y) = <<1, 0>> THEN AsFixed(x) ELSE Plus32(Doubled(AsFixed(x)), AsFixed(y)))
Compared(op, x, y) ==
    CASE op = "<"  -> BelowSigned(AsFixed(x), AsFixed(y))  [] op = ">=" -> ~BelowSigned(AsFixed(x), AsFixed(y))
      [] op = ">"  -> BelowSigned(AsFixed(y), AsFixed(x))  [] op = "<=" -> ~BelowSigned(AsFixed(y), AsFixed(x))
      [] op = "="  -> AsFixed(x) = AsFixed(y)              [] op = "<>" -> AsFixed(x) # AsFixed(y)
Opposite(f) == IF IsSmall(f) THEN Small(-(IF f[2] = 255 THEN f[3] + 256 * f[4] - 65536 ELSE f[3] + 256 * f[4]))
               ELSE FromFixed(Negated(AsFixed(f)))

\* One literal, on the stack st and the memory mem0.
Literal(c, i) ==
    LET n == Len(c.st)  y == c.st[n]  x == c.st[n - 1]
        Put(k, values) == [c EXCEPT !.st = SubSeq(@, 1, n - k) \o values]
    IN  CASE i = "exchange" -> Put(2, <<y, x>>)
          [] i = "delete"   -> Put(1, <<>>)
          [] i = "duplicate" -> Put(0, <<y>>)
          [] i = "store"    -> [c EXCEPT !.mem0 = y]
          [] i = "recall"   -> Put(0, <<c.mem0>>)
          [] i = "not"      -> Put(1, <<Truth(IsZero(y))>>)
          [] i = "negate"   -> Put(1, <<Opposite(y)>>)
          [] i = "and"      -> Put(2, <<IF IsZero(y) THEN Small(0) ELSE x>>)
          [] i = "or"       -> Put(2, <<IF IsZero(y) THEN x ELSE Small(1)>>)
          [] i \in {"<", ">", "<=", ">=", "=", "<>"} -> Put(2, <<Truth(Compared(i, x, y))>>)
          [] OTHER          ->
               LET parts == IF i = "n-mod-m" THEN <<"mod", "div">> ELSE <<i>>
               IN  Put(2, [k \in DOMAIN parts |-> Arithmetical(parts[k], x, y)])
Calculated(program, st) == S!FoldLeft(Literal, [st |-> st, mem0 |-> Small(0)], program).st
=============================================================================
