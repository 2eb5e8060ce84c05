------------------------------- MODULE Longs -------------------------------
(***************************************************************************)
(* What the integer operations of the language mean, whatever the code     *)
(* that computes them: numbers of 32 bits as pairs <<high word, low word>>, *)
(* the operations on them, and those of narrower types by extension to 32  *)
(* bits and truncation.  TLC's own integers stop at 2^31 - 1.              *)
(***************************************************************************)
EXTENDS Integers, Sequences, Bitwise

LOCAL W == 65536
Long(n) == <<(n \div W) % W, n % W>>
Zero == <<0, 0>>
One == <<0, 1>>
Any == <<>>

Plus32(p, q) == <<(p[1] + q[1] + ((p[2] + q[2]) \div W)) % W, (p[2] + q[2]) % W>>
Not32(p) == <<W - 1 - p[1], W - 1 - p[2]>>
Negated(p) == Plus32(Not32(p), One)
Minus32(p, q) == Plus32(p, Negated(q))
Below(p, q) == p[1] < q[1] \/ (p[1] = q[1] /\ p[2] < q[2])
Negative(p) == p[1] >= 32768
Flipped(p) == <<(p[1] + 32768) % W, p[2]>>
BelowSigned(p, q) == Below(Flipped(p), Flipped(q))
Magnitude(p) == IF Negative(p) THEN Negated(p) ELSE p

\* The product of two words.
LowTimes(m, n) ==
    LET u == m * (n \div 256)  t == (u % 256) * 256 + m * (n % 256)
    IN  <<(u \div 256) + (t \div W), t % W>>
Times32(p, q) ==
    LET low == LowTimes(p[2], q[2])
    IN  <<(low[1] + LowTimes(p[1], q[2])[2] + LowTimes(p[2], q[1])[2]) % W, low[2]>>

Doubled(p) == Plus32(p, p)
\* Quotient and remainder by q, which is not Zero.
RECURSIVE DivMod(_, _)
DivMod(p, q) ==
    IF Below(p, q) THEN <<Zero, p>>
    ELSE IF q[1] = 0 /\ q[2] < 32768
         THEN LET low == (p[1] % q[2]) * W + p[2]
              IN  <<<<p[1] \div q[2], low \div q[2]>>, <<0, low % q[2]>>>>
    ELSE IF Negative(q) THEN <<One, Minus32(p, q)>>
    ELSE LET half == DivMod(p, Doubled(q))  twice == Doubled(half[1])
         IN  IF Below(half[2], q) THEN <<twice, half[2]>>
             ELSE <<Plus32(twice, One), Minus32(half[2], q)>>

\* Bit by bit; the bits after the last do not count.
RECURSIVE ShiftedLeft(_, _), ShiftedRight(_, _, _)
ShiftedLeft(p, n) ==
    CASE n = 0 -> p [] n > 32 -> ShiftedLeft(p, 32) [] OTHER -> ShiftedLeft(Doubled(p), n - 1)
ShiftedRight(p, n, top) ==
    CASE n = 0 -> p
      [] n > 32 -> ShiftedRight(p, 32, top)
      [] OTHER -> ShiftedRight(<<(p[1] \div 2) + top * 32768, (p[2] \div 2) + 32768 * (p[1] % 2)>>, n - 1, top)

\* Fixed point, of 16.16 bits: the product, rounded, the quotient by what is
\* not zero, towards zero, and the whole part.
SignedAs(negative, p) == IF negative THEN Negated(p) ELSE p
FixedProduct(p, q) ==
    LET x == Magnitude(p)  y == Magnitude(q)  low == LowTimes(x[2], y[2])
    IN  SignedAs(Negative(p) # Negative(q),
                 Plus32(Plus32(<<LowTimes(x[1], y[1])[2], low[1]>>, <<0, low[2] \div 32768>>),
                        Plus32(LowTimes(x[1], y[2]), LowTimes(x[2], y[1]))))
RECURSIVE WithFraction(_, _, _, _)
WithFraction(quotient, rest, q, n) ==
    IF n = 0 THEN quotient
    ELSE IF Below(Doubled(rest), q) THEN WithFraction(Doubled(quotient), Doubled(rest), q, n - 1)
    ELSE WithFraction(Plus32(Doubled(quotient), One), Minus32(Doubled(rest), q), q, n - 1)
FixedQuotient(p, q) ==
    LET y == Magnitude(q)  d == DivMod(Magnitude(p), y)
    IN  SignedAs(Negative(p) # Negative(q), WithFraction(d[1], d[2], y, 16))
Whole(p) == SignedAs(Negative(p), <<Magnitude(p)[1], 0>>)

\* A number of w bits extended, and the w low bits of one.
Extended(w, signed, p) ==
    CASE w = 8  -> IF signed /\ p[2] >= 128 THEN <<W - 1, p[2] + W - 256>> ELSE p
      [] w = 16 -> IF signed /\ p[2] >= 32768 THEN <<W - 1, p[2]>> ELSE p
      [] w = 32 -> p
Truncated(w, p) == CASE w = 8 -> <<0, p[2] % 256>> [] w = 16 -> <<0, p[2]>> [] w = 32 -> p

Wordwise(Op(_, _), p, q) == <<Op(p[1], q[1]), Op(p[2], q[2])>>
Flag(b) == IF b THEN One ELSE Zero

SignedOps == {"divi", "modi", "lti", "gti", "lei", "gei", "shri"}
Comparisons == {"ltu", "gtu", "leu", "geu", "lti", "gti", "lei", "gei", "eq", "ne"}
Logical == {"and", "or", "xor", "not"}

\* The value of an operation on numbers of w bits.  A division by zero means
\* nothing, and what the remainder of a signed division of a negative number
\* or by one is, the language does not say: Any.
Meaning(op, w, p, q) ==
    LET x == Extended(w, op \in SignedOps, p)  y == Extended(w, op \in SignedOps, q)
        Value(v) == Truncated(w, v)
    IN  CASE op = "add" -> Value(Plus32(x, y))
          [] op = "sub" -> Value(Minus32(x, y))
          [] op = "mul" -> Value(Times32(x, y))
          [] op \in {"divu", "modu", "divi", "modi"} /\ q = Zero -> Any
          [] op = "divu" /\ q # Zero -> Value(DivMod(x, y)[1])
          [] op = "modu" /\ q # Zero -> Value(DivMod(x, y)[2])
          [] op = "divi" /\ q # Zero ->
               LET quotient == DivMod(Magnitude(x), Magnitude(y))[1]
               IN  Value(IF Negative(x) # Negative(y) THEN Negated(quotient) ELSE quotient)
          [] op = "modi" /\ q # Zero ->
               IF Negative(x) \/ Negative(y) THEN Any ELSE Value(DivMod(x, y)[2])
          [] op = "band" -> Wordwise(LAMBDA m, n : m & n, x, y)
          [] op = "bor"  -> Wordwise(LAMBDA m, n : m | n, x, y)
          [] op = "bxor" -> Wordwise(LAMBDA m, n : m ^^ n, x, y)
          [] op = "shl"  -> Value(ShiftedLeft(x, q[2] % 256))
          [] op = "shru" -> Value(ShiftedRight(x, q[2] % 256, 0))
          [] op = "shri" -> Value(ShiftedRight(x, q[2] % 256, IF Negative(x) THEN 1 ELSE 0))
          [] op = "ltu" -> Flag(Below(x, y))  [] op = "geu" -> Flag(~Below(x, y))
          [] op = "gtu" -> Flag(Below(y, x))  [] op = "leu" -> Flag(~Below(y, x))
          [] op = "lti" -> Flag(BelowSigned(x, y))  [] op = "gei" -> Flag(~BelowSigned(x, y))
          [] op = "gti" -> Flag(BelowSigned(y, x))  [] op = "lei" -> Flag(~BelowSigned(y, x))
          [] op = "eq"  -> Flag(p = q)  [] op = "ne" -> Flag(p # q)
          [] op = "and" -> Flag(p # Zero /\ q # Zero)
          [] op = "or"  -> Flag(p # Zero \/ q # Zero)
          [] op = "xor" -> Flag((p = Zero) # (q = Zero))
          [] op = "not" -> Flag(p = Zero)
          [] op = "bnot" -> Value(Not32(x))
          [] op = "neg" -> Value(Negated(x))
          [] op = "abs" -> Value(Magnitude(Extended(w, TRUE, p)))
=============================================================================
