--------------------------- MODULE HeapMemProofs ---------------------------
(***************************************************************************)
(* Proofs about HeapMem.tla for a byte of any number of values, any heap    *)
(* that ends below the top of memory and any sane requests: the code that   *)
(* reads and writes bytes does what the block-level one of Heap.tla says,   *)
(* so that the theorems of HeapProofs.tla hold of it, it never damages what *)
(* the program stores in its blocks, and it writes nowhere else.            *)
(***************************************************************************)
EXTENDS HeapMem, SequenceLemmas

\* The heap ends below the top of memory, where the end of a block is never taken
\* for a NULL link, and requests are of two bytes or more, for which the length of
\* the block does not wrap.
Sane ==
    /\ HeapEnd < Space
    /\ \A n \in Requests : n >= 2 /\ n + 2 < Space

Byte == 0 .. (Base - 1)
Memory == [Addresses -> Byte]
-----------------------------------------------------------------------------
(* Bytes and words.                                                          *)

\* What the assumptions say of the constants.
LEMMA Sizes ==
    ASSUME Sane
    PROVE  /\ Base \in Nat /\ Base >= 2 /\ Space \in Nat /\ Space >= 4
           /\ HeapStart \in Nat /\ HeapStart > 0 /\ RomTop \in Nat /\ RomTop <= HeapStart
           /\ FirstBlock = HeapStart + 4 /\ HeapEnd = HeapStart + HeapSize
           /\ HeapSize \in Nat /\ HeapEnd \in Nat /\ FirstBlock \in Nat
           /\ FirstBlock + 4 <= HeapEnd /\ HeapEnd < Space
           /\ Addresses = 0 .. (Space - 1) /\ Null = 0
<1>1. Base \in Nat /\ Base >= 2  BY HeapMemAssumption DEF HeapMemAssumption
<1>2. Base * Base \in Nat /\ Base * Base >= 4  BY <1>1
<1> QED  BY <1>1, <1>2, HeapMemAssumption
         DEF HeapMemAssumption, Sane, Space, HeapEnd, FirstBlock, Addresses, Null

\* A sum that is an address is what the registers hold.
LEMMA PlusIs ==
    ASSUME Sane, NEW a \in Nat, NEW n \in Nat, a + n < Space
    PROVE  Plus(a, n) = a + n /\ a + n \in Addresses /\ a \in Addresses
<1>1. Space \in Nat /\ Addresses = 0 .. (Space - 1)  BY Sizes
<1>2. \A s, x \in Nat : x < s => x % s = x  OBVIOUS
<1> QED  BY <1>1, <1>2 DEF Plus

\* Decrementing a register pair, written as adding Space - n.
LEMMA MinusIs ==
    ASSUME Sane, NEW a \in Addresses, NEW n \in Nat, n <= a
    PROVE  Plus(a, Space - n) = a - n
<1>1. Space \in Nat /\ a \in Nat /\ a < Space  BY Sizes
<1>2. \A s, x \in Nat : x < s => (s + x) % s = x  OBVIOUS
<1>3. a + (Space - n) = Space + (a - n) /\ a - n \in Nat /\ a - n < Space  BY <1>1
<1> QED  BY <1>1, <1>2, <1>3 DEF Plus

\* A word is its low byte and its high one.
LEMMA BytesOf ==
    ASSUME Sane, NEW w \in Addresses
    PROVE  w % Base \in Byte /\ w \div Base \in Byte /\ w = (w % Base) + Base * (w \div Base)
<1>1. Base \in Nat /\ Base >= 2 /\ w \in 0 .. Base * Base - 1  BY Sizes DEF Space
<1>2. \A b \in Nat, v \in Nat : b >= 2 =>
         v % b \in 0 .. b - 1 /\ v \div b \in Nat /\ v = (v % b) + b * (v \div b)
  OBVIOUS
<1>3. /\ w % Base \in 0 .. Base - 1 /\ w \div Base \in Nat
      /\ w = (w % Base) + Base * (w \div Base)
  <2>1. w \in Nat  BY Sizes
  <2> QED  BY <1>1, <1>2, <2>1
<1>4. Base * (w \div Base) <= Base * Base - 1  BY <1>1, <1>3
<1>5. \A b \in Nat, d \in Nat : b >= 2 /\ b * d <= b * b - 1 => d <= b - 1  OBVIOUS
<1>6. w \div Base <= Base - 1  BY <1>1, <1>3, <1>4, <1>5
<1> QED  BY <1>1, <1>3, <1>6 DEF Byte

\* Two bytes make an address.
LEMMA WordIn ==
    ASSUME Sane, NEW m \in Memory, NEW a \in Addresses
    PROVE  Word(m, a) \in Addresses
<1>1. Base \in Nat /\ Base >= 2 /\ Space \in Nat /\ Space >= 4 /\ Addresses = 0 .. (Space - 1)  BY Sizes
<1>2. \A s, x \in Nat : s >= 4 => x % s \in 0 .. s - 1  OBVIOUS
<1>3. Plus(a, 1) \in Addresses  BY <1>1, <1>2 DEF Plus
<1>4. m[a] \in 0 .. Base - 1 /\ m[Plus(a, 1)] \in 0 .. Base - 1  BY <1>3 DEF Memory, Byte
<1>5. \A b \in Nat : b >= 2 => \A lo, hi \in 0 .. b - 1 : lo + b * hi \in 0 .. b * b - 1  OBVIOUS
<1>6. m[a] + Base * m[Plus(a, 1)] \in 0 .. Base * Base - 1  BY <1>1, <1>4, <1>5
<1> QED  BY <1>6 DEF Word, Addresses, Space

\* A word depends on two cells.
LEMMA WordSame ==
    ASSUME Sane, NEW m, NEW n, NEW a \in Nat, a + 1 < Space, n[a] = m[a], n[a + 1] = m[a + 1]
    PROVE  Word(n, a) = Word(m, a)
BY PlusIs DEF Word

\* A byte stored in RAM.
LEMMA StoreIs ==
    ASSUME Sane, NEW m \in Memory, NEW a \in Addresses, a >= RomTop, NEW v \in Byte
    PROVE  /\ Store(m, a, v) \in Memory /\ Store(m, a, v)[a] = v
           /\ \A x \in Addresses : x # a => Store(m, a, v)[x] = m[x]
<1>1. ~ (a < RomTop)  BY Sizes
<1> QED  BY <1>1 DEF Store, Memory

\* A word stored in RAM.
LEMMA StoreWordIs ==
    ASSUME Sane, NEW m \in Memory, NEW a \in Nat, a >= RomTop, a + 1 < Space, NEW w \in Addresses
    PROVE  /\ StoreWord(m, a, w) \in Memory /\ Word(StoreWord(m, a, w), a) = w
           /\ \A x \in Addresses : x # a /\ x # a + 1 => StoreWord(m, a, w)[x] = m[x]
<1>1. /\ Plus(a, 1) = a + 1 /\ a \in Addresses /\ a + 1 \in Addresses /\ a # a + 1
      /\ a + 1 >= RomTop
  BY PlusIs, Sizes
<1>2. w % Base \in Byte /\ w \div Base \in Byte /\ w = (w % Base) + Base * (w \div Base)  BY BytesOf
<1> DEFINE low == Store(m, a, w % Base)
           n == Store(low, a + 1, w \div Base)
<1>3. /\ low \in Memory /\ low[a] = w % Base
      /\ \A x \in Addresses : x # a => low[x] = m[x]
  BY <1>1, <1>2, StoreIs
<1> HIDE DEF low
<1>4. /\ n \in Memory /\ n[a + 1] = w \div Base
      /\ \A x \in Addresses : x # a + 1 => n[x] = low[x]
  BY <1>1, <1>2, <1>3, StoreIs
<1> HIDE DEF n
<1>5. n[a] = w % Base  BY <1>1, <1>3, <1>4
<1>6. Word(n, a) = w  BY <1>1, <1>2, <1>4, <1>5 DEF Word
<1>7. \A x \in Addresses : x # a /\ x # a + 1 => n[x] = m[x]  BY <1>3, <1>4
<1>8. StoreWord(m, a, w) = n  BY <1>1 DEF StoreWord, n, low
<1> QED  BY <1>4, <1>6, <1>7, <1>8

-----------------------------------------------------------------------------
(* The places reached from the first one.                                    *)

\* A set that is closed under what Reached says is the set.
Fixed(R, first, step) ==
    /\ R \subseteq first .. (HeapEnd - 1)
    /\ \A a \in first .. (HeapEnd - 1) :
          a \in R <=> a = first \/ \E b \in R : b < a /\ step[b] = a

\* Two such sets have the same places.
LEMMA FixedOnce ==
    ASSUME Sane, NEW first \in Nat, NEW step, NEW R, NEW S, Fixed(R, first, step), Fixed(S, first, step)
    PROVE  R = S
<1>1. HeapEnd \in Nat  BY Sizes
<1> DEFINE D == {a \in first .. (HeapEnd - 1) : ~ (a \in R <=> a \in S)}
<1>2. ASSUME D # {} PROVE FALSE
  <2>1. D \in SUBSET Nat  BY <1>1
  <2>2. PICK a \in D : \A b \in D : ~ (b < a)  BY <1>2, <2>1, LeastExists
  <2>3. a \in first .. (HeapEnd - 1) /\ ~ (a \in R <=> a \in S)  OBVIOUS
  <2>4. \A b \in first .. (HeapEnd - 1) : b < a => (b \in R <=> b \in S)  BY <2>2
  <2>5. a \in R <=> a = first \/ \E b \in R : b < a /\ step[b] = a  BY <2>3 DEF Fixed
  <2>6. a \in S <=> a = first \/ \E b \in S : b < a /\ step[b] = a  BY <2>3 DEF Fixed
  <2>7. R \subseteq first .. (HeapEnd - 1) /\ S \subseteq first .. (HeapEnd - 1)  BY DEF Fixed
  <2> HIDE DEF D
  <2> QED  BY <2>3, <2>4, <2>5, <2>6, <2>7
<1>3. \A a \in first .. (HeapEnd - 1) : a \in R <=> a \in S  BY <1>2
<1> QED  BY <1>3 DEF Fixed

\* The places that every set closed under step contains.
LEMMA FixedExists ==
    ASSUME Sane, NEW first \in Nat, NEW step
    PROVE  \E R : Fixed(R, first, step)
<1>1. HeapEnd \in Nat  BY Sizes
<1> DEFINE D == first .. (HeapEnd - 1)
           Closed(T) == /\ first \in D => first \in T
                        /\ \A b \in T : step[b] \in D /\ b < step[b] => step[b] \in T
           R == {a \in D : \A T \in SUBSET D : Closed(T) => a \in T}
<1>2. Closed(R)
  <2>1. ASSUME NEW b \in R, step[b] \in D, b < step[b], NEW T \in SUBSET D, Closed(T) PROVE step[b] \in T
    <3>1. b \in T  BY <2>1
    <3> QED  BY <2>1, <3>1
  <2> QED  BY <2>1
<1>3. ASSUME NEW a \in R, a # first, \A b \in R : ~ (b < a /\ step[b] = a) PROVE FALSE
  <2>1. Closed(R \ {a})
    <3>1. first \in D => first \in R \ {a}  BY <1>2, <1>3
    <3>2. ASSUME NEW b \in R \ {a}, step[b] \in D, b < step[b] PROVE step[b] \in R \ {a}
      <4>1. step[b] \in R  BY <1>2, <3>2
      <4>2. step[b] # a  BY <1>3, <3>2
      <4> QED  BY <4>1, <4>2
    <3> QED  BY <3>1, <3>2
  <2>2. R \ {a} \in SUBSET D  OBVIOUS
  <2> QED  BY <2>1, <2>2
<1>4. ASSUME NEW a \in D PROVE a \in R <=> a = first \/ \E b \in R : b < a /\ step[b] = a
  <2>1. a = first => a \in R  BY <1>2
  <2>2. ASSUME NEW b \in R, b < a, step[b] = a PROVE a \in R  BY <1>2, <2>2
  <2> QED  BY <1>3, <2>1, <2>2
<1>5. R \subseteq D  OBVIOUS
<1> HIDE DEF R
<1> QED  BY <1>4, <1>5 DEF Fixed

\* Reached is that set.
LEMMA ReachedFixed ==
    ASSUME Sane, NEW first \in Nat, NEW step
    PROVE  Fixed(Reached(first, step), first, step)
<1>1. HeapEnd \in Nat  BY Sizes
<1>2. PICK R : Fixed(R, first, step)  BY FixedExists
<1> DEFINE IsAt(f) == f = [a \in first .. (HeapEnd - 1) |->
                             \/ a = first
                             \/ \E b \in first .. (a - 1) : step[b] = a /\ f[b]]
           at == CHOOSE f : IsAt(f)
           g == [a \in first .. (HeapEnd - 1) |-> a \in R]
<1>3. IsAt(g)
  <2>1. ASSUME NEW a \in first .. (HeapEnd - 1)
        PROVE  (a \in R) = (\/ a = first
                            \/ \E b \in first .. (a - 1) : step[b] = a /\ g[b])
    <3>1. R \subseteq first .. (HeapEnd - 1)  BY <1>2 DEF Fixed
    <3>2. \A b : b \in first .. (a - 1) <=> b \in first .. (HeapEnd - 1) /\ b < a  BY <1>1
    <3>3. \A b \in first .. (a - 1) : g[b] = (b \in R)  BY <3>2
    <3>4. (\E b \in first .. (a - 1) : step[b] = a /\ g[b]) <=> \E b \in R : b < a /\ step[b] = a
      <4> HIDE DEF g
      <4> QED  BY <3>1, <3>2, <3>3
    <3>5. a \in R <=> a = first \/ \E b \in R : b < a /\ step[b] = a  BY <1>2 DEF Fixed
    <3> DEFINE A == a \in R
               B == a = first \/ \E b \in R : b < a /\ step[b] = a
               C == \/ a = first
                    \/ \E b \in first .. (a - 1) : step[b] = a /\ g[b]
    <3>6. A <=> C
      <4> HIDE DEF g
      <4> QED  BY <3>4, <3>5
    <3>7. A \in BOOLEAN /\ C \in BOOLEAN  OBVIOUS
    <3> HIDE DEF A, C
    <3>8. A = C  BY <3>6, <3>7
    <3> QED  BY <3>8, Zenon DEF A, C
  <2> QED  BY <2>1
<1>4. IsAt(at)
  <2> HIDE DEF IsAt, g
  <2> QED  BY <1>3
<1>5. Reached(first, step) = {a \in first .. (HeapEnd - 1) : at[a]}  BY DEF Reached
<1> HIDE DEF at
<1>6. \A a \in first .. (HeapEnd - 1) :
         at[a] <=> a = first \/ \E b \in first .. (a - 1) : step[b] = a /\ at[b]
  BY <1>4
<1> DEFINE S == {a \in first .. (HeapEnd - 1) : at[a]}
<1>7. Fixed(S, first, step)
  <2>1. ASSUME NEW a \in first .. (HeapEnd - 1)
        PROVE  a \in S <=> a = first \/ \E b \in S : b < a /\ step[b] = a
    <3>1. \A b : b \in first .. (a - 1) <=> b \in first .. (HeapEnd - 1) /\ b < a  BY <1>1
    <3>2. (\E b \in first .. (a - 1) : step[b] = a /\ at[b]) <=> \E b \in S : b < a /\ step[b] = a
      BY <3>1
    <3> QED  BY <1>6, <3>2
  <2> QED  BY <2>1 DEF Fixed
<1> QED  BY <1>5, <1>7

\* Nothing changes when no place reached leads elsewhere.
LEMMA ReachedSame ==
    ASSUME Sane, NEW first \in Nat, NEW s, NEW t, \A b \in Reached(first, s) : t[b] = s[b]
    PROVE  Reached(first, t) = Reached(first, s)
<1>1. Fixed(Reached(first, s), first, s)  BY ReachedFixed
<1>2. Fixed(Reached(first, s), first, t)  BY <1>1 DEF Fixed
<1>3. Fixed(Reached(first, t), first, t)  BY ReachedFixed
<1> QED  BY <1>2, <1>3, FixedOnce

\* A place c that led on from there is put after one that is reached.
LEMMA ReachedMore ==
    ASSUME Sane, NEW first \in Nat, NEW s, NEW t, NEW R, R = Reached(first, s),
           NEW c \in R, NEW x \in first .. (HeapEnd - 1), x \notin R, c < x,
           s[c] \in first .. (HeapEnd - 1) /\ c < s[c] => x < s[c],
           t[c] = x, t[x] = s[c], \A b \in R : b # c => t[b] = s[b]
    PROVE  Reached(first, t) = R \union {x}
<1>1. Fixed(R, first, s)  BY ReachedFixed
<1>2. HeapEnd \in Nat /\ R \subseteq first .. (HeapEnd - 1)  BY <1>1, Sizes DEF Fixed
<1>3. ASSUME NEW a \in first .. (HeapEnd - 1)
      PROVE  a \in R \union {x} <=> a = first \/ \E b \in R \union {x} : b < a /\ t[b] = a
  <2>1. a \in R <=> a = first \/ \E b \in R : b < a /\ s[b] = a  BY <1>1 DEF Fixed
  <2>2. CASE a = x  BY <2>2
  <2>3. CASE a # x /\ a \in R
    <3>1. CASE a = first  BY <3>1, <2>3
    <3>2. CASE \E b \in R : b < a /\ s[b] = a
      <4>1. PICK b \in R : b < a /\ s[b] = a  BY <3>2
      <4>2. CASE b = c  BY <4>1, <4>2, <2>3
      <4>3. CASE b # c  BY <4>1, <4>3, <2>3
      <4> QED  BY <4>2, <4>3
    <3> QED  BY <2>1, <2>3, <3>1, <3>2
  <2>4. CASE a # x /\ a \notin R
    <3>1. ASSUME NEW b \in R \union {x}, b < a, t[b] = a PROVE FALSE
      <4>1. CASE b = x
        <5>1. s[c] = a /\ c < a  BY <1>2, <3>1, <4>1
        <5> QED  BY <2>1, <2>4, <5>1
      <4>2. CASE b = c  BY <2>4, <3>1, <4>2
      <4>3. CASE b \in R /\ b # c  BY <2>1, <2>4, <3>1, <4>3
      <4> QED  BY <4>1, <4>2, <4>3
    <3> QED  BY <2>1, <2>4, <3>1
  <2> QED  BY <2>2, <2>3, <2>4
<1>4. Fixed(R \union {x}, first, t)  BY <1>2, <1>3 DEF Fixed
<1>5. Fixed(Reached(first, t), first, t)  BY ReachedFixed
<1> QED  BY <1>4, <1>5, FixedOnce

\* A place x is left out, and the only one that led there, c, leads on.
LedPast(first, s, t, R, c, x) ==
    /\ c \in R /\ x \in R /\ x # first /\ c < x /\ s[c] = x
    /\ \A b \in R : b < x /\ s[b] = x => b = c
    /\ s[x] \in first .. (HeapEnd - 1) /\ c < s[x] => x < s[x]
    /\ t[c] = s[x]
    /\ \A b \in R : b # c /\ b # x => t[b] = s[b]

\* Then it is the only one that goes.
LEMMA ReachedLess ==
    ASSUME Sane, NEW first \in Nat, NEW s, NEW t, NEW R, R = Reached(first, s),
           NEW c, NEW x, LedPast(first, s, t, R, c, x)
    PROVE  Reached(first, t) = R \ {x}
<1>0. /\ c \in R /\ x \in R /\ x # first /\ c < x /\ s[c] = x
      /\ \A b \in R : b < x /\ s[b] = x => b = c
      /\ s[x] \in first .. (HeapEnd - 1) /\ c < s[x] => x < s[x]
      /\ t[c] = s[x]
      /\ \A b \in R : b # c /\ b # x => t[b] = s[b]
  BY DEF LedPast
<1>1. Fixed(R, first, s)  BY ReachedFixed
<1>2. HeapEnd \in Nat /\ R \subseteq first .. (HeapEnd - 1)  BY <1>1, Sizes DEF Fixed
<1>3. ASSUME NEW a \in first .. (HeapEnd - 1)
      PROVE  a \in R \ {x} <=> a = first \/ \E b \in R \ {x} : b < a /\ t[b] = a
  <2>1. a \in R <=> a = first \/ \E b \in R : b < a /\ s[b] = a  BY <1>1 DEF Fixed
  <2>2. CASE a = x
    <3>1. ASSUME NEW b \in R \ {x}, b < a, t[b] = a PROVE FALSE
      <4>1. CASE b = c
        <5>1. s[x] = x /\ c < s[x] /\ x \in first .. (HeapEnd - 1)  BY <1>0, <1>2, <2>2, <3>1, <4>1
        <5>2. x < x  BY <1>0, <5>1
        <5> QED  BY <1>0, <1>2, <5>2
      <4>2. CASE b # c  BY <1>0, <2>2, <3>1, <4>2
      <4> QED  BY <1>0, <4>1, <4>2
    <3> QED  BY <1>0, <2>2, <3>1
  <2>3. CASE a # x /\ a \in R
    <3>1. CASE a = first  BY <1>0, <3>1, <2>3
    <3>2. CASE \E b \in R : b < a /\ s[b] = a
      <4>1. PICK b \in R : b < a /\ s[b] = a  BY <1>0, <3>2
      <4>2. CASE b = x
        <5>1. t[c] = a /\ c < a  BY <1>0, <1>2, <4>1, <4>2
        <5>2. c \in R \ {x}  BY <1>0, <1>2
        <5> QED  BY <1>0, <5>1, <5>2, <2>3
      <4>3. CASE b = c  BY <1>0, <2>3, <4>1, <4>3
      <4>4. CASE b # c /\ b # x  BY <1>0, <4>1, <4>4, <2>3
      <4> QED  BY <1>0, <4>2, <4>3, <4>4
    <3> QED  BY <1>0, <2>1, <2>3, <3>1, <3>2
  <2>4. CASE a # x /\ a \notin R
    <3>1. ASSUME NEW b \in R \ {x}, b < a, t[b] = a PROVE FALSE
      <4>1. CASE b = c
        <5>1. s[x] = a /\ c < s[x] /\ x < s[x]  BY <1>0, <1>2, <3>1, <4>1
        <5> QED  BY <1>0, <2>1, <2>4, <5>1
      <4>2. CASE b # c  BY <1>0, <2>1, <2>4, <3>1, <4>2
      <4> QED  BY <1>0, <4>1, <4>2
    <3> QED  BY <1>0, <2>1, <2>4, <3>1
  <2> QED  BY <1>0, <2>2, <2>3, <2>4
<1>4. Fixed(R \ {x}, first, t)  BY <1>2, <1>3 DEF Fixed
<1>5. Fixed(Reached(first, t), first, t)  BY ReachedFixed
<1> QED  BY <1>4, <1>5, FixedOnce

-----------------------------------------------------------------------------
(* Copying.                                                                  *)

\* The memory after each byte of a copy.
Copies(f, m, src, dst, count) ==
    f = [i \in 0 .. count |->
           IF i = 0 THEN m
           ELSE LET before == f[i - 1]
                IN  Store(before, Plus(dst, i - 1), before[Plus(src, i - 1)])]

\* There is such a sequence of memories.
LEMMA CopiesExists ==
    ASSUME NEW m, NEW src, NEW dst
    PROVE  \A count \in Nat : \E f : Copies(f, m, src, dst, count)
<1> DEFINE T == {n \in Nat : \E f : Copies(f, m, src, dst, n)}
<1>1. 0 \in T
  <2>1. Copies([i \in 0 .. 0 |-> m], m, src, dst, 0)  BY DEF Copies
  <2> QED  BY <2>1
<1>2. ASSUME NEW n \in Nat, n \in T PROVE n + 1 \in T
  <2>1. PICK f : Copies(f, m, src, dst, n)  BY <1>2
  <2>2. PICK e : e = Store(f[n], Plus(dst, n), f[n][Plus(src, n)])  OBVIOUS
  <2> DEFINE g == [i \in 0 .. n + 1 |-> IF i = n + 1 THEN e ELSE f[i]]
  <2>3. ASSUME NEW i \in 0 .. n + 1
        PROVE  g[i] = IF i = 0 THEN m
                      ELSE LET before == g[i - 1]
                           IN  Store(before, Plus(dst, i - 1), before[Plus(src, i - 1)])
    <3>1. CASE i = n + 1
      <4>1. i # 0 /\ i - 1 = n /\ g[n] = f[n] /\ g[i] = e  BY <3>1
      <4> HIDE DEF g
      <4> QED  BY <2>2, <4>1
    <3>2. CASE i \in 0 .. n
      <4>1. f[i] = IF i = 0 THEN m
                   ELSE LET before == f[i - 1]
                        IN  Store(before, Plus(dst, i - 1), before[Plus(src, i - 1)])
        BY <2>1, <3>2 DEF Copies
      <4>2. g[i] = f[i]  BY <3>2
      <4>3. i # 0 => g[i - 1] = f[i - 1]
        <5>1. i # 0 => i - 1 \in 0 .. n  BY <3>2
        <5> QED  BY <5>1
      <4> HIDE DEF g
      <4> QED  BY <4>1, <4>2, <4>3
    <3> QED  BY <3>1, <3>2
  <2>4. g = [i \in 0 .. n + 1 |-> g[i]]  OBVIOUS
  <2> HIDE DEF g
  <2>5. Copies(g, m, src, dst, n + 1)  BY <2>3, <2>4 DEF Copies
  <2> QED  BY <2>5
<1> HIDE DEF T
<1>3. Nat \subseteq T  BY <1>1, <1>2, SetInduction
<1> QED  BY <1>3 DEF T

\* A copy changes only the cells it is to; one that starts next to its source
\* spreads the first byte over them.
LEMMA LdirIs ==
    ASSUME Sane, NEW m \in Memory, NEW src \in Addresses, NEW dst \in Nat, dst >= RomTop,
           NEW n \in Nat, n > 0, dst + n <= Space
    PROVE  /\ Ldir(m, src, dst, n) \in Memory
           /\ \A x \in Addresses : x < dst \/ x >= dst + n => Ldir(m, src, dst, n)[x] = m[x]
           /\ src + 1 = dst => \A x \in dst .. dst + n - 1 : Ldir(m, src, dst, n)[x] = m[src]
<1> DEFINE count == IF n = 0 THEN Space ELSE n
           c == CHOOSE f : Copies(f, m, src, dst, count)
<1>a. Ldir(m, src, dst, n) = c[count]  BY DEF Ldir, Copies
<1>b. count = n  OBVIOUS
<1> HIDE DEF count
<1>1. Copies(c, m, src, dst, n)
  <2>1. \E f : Copies(f, m, src, dst, count)  BY <1>b, CopiesExists
  <2> HIDE DEF Copies
  <2>2. Copies(c, m, src, dst, count)  BY <2>1
  <2> QED  BY <2>2, <1>b
<1> HIDE DEF c
<1>2. Ldir(m, src, dst, n) = c[n]  BY <1>a, <1>b
<1>3. /\ Space \in Nat /\ Space >= 4 /\ RomTop \in Nat /\ Addresses = 0 .. (Space - 1)
      /\ src \in Nat /\ src < Space
  BY Sizes
<1> DEFINE Good(k) == /\ c[k] \in Memory
                      /\ \A x \in Addresses : x < dst \/ x >= dst + k => c[k][x] = m[x]
                      /\ src + 1 = dst => \A x \in dst .. dst + k - 1 : c[k][x] = m[src]
           T == {k \in Nat : k <= n => Good(k)}
<1>4. 0 \in T
  <2>1. c[0] = m  BY <1>1 DEF Copies
  <2> QED  BY <2>1
<1>5. ASSUME NEW k \in Nat, k \in T PROVE k + 1 \in T
  <2> SUFFICES ASSUME k + 1 <= n PROVE Good(k + 1)  OBVIOUS
  <2>1. Good(k)  BY <1>5
  <2>2. PICK v : v = c[k][Plus(src, k)]  OBVIOUS
  <2>3. Plus(dst, k) = dst + k /\ dst + k \in Addresses /\ dst + k >= RomTop  BY PlusIs, <1>3
  <2>4. c[k + 1] = Store(c[k], dst + k, v)
    <3>1. c[k + 1] = IF k + 1 = 0 THEN m
                     ELSE LET before == c[k + 1 - 1]
                          IN  Store(before, Plus(dst, k + 1 - 1), before[Plus(src, k + 1 - 1)])
      BY <1>1 DEF Copies
    <3>2. k + 1 # 0 /\ k + 1 - 1 = k  OBVIOUS
    <3> QED  BY <2>2, <2>3, <3>1, <3>2
  <2>5. v \in Byte
    <3>1. \A s, x \in Nat : s >= 4 => x % s \in 0 .. s - 1  OBVIOUS
    <3>2. Plus(src, k) \in Addresses  BY <1>3, <3>1 DEF Plus
    <3> QED  BY <2>1, <2>2, <3>2 DEF Memory
  <2>6. src + 1 = dst => v = m[src]
    <3> SUFFICES ASSUME src + 1 = dst PROVE v = m[src]  OBVIOUS
    <3>1. Plus(src, k) = src + k /\ src + k \in Addresses  BY PlusIs, <1>3
    <3>2. CASE k = 0  BY <1>3, <2>1, <2>2, <3>1, <3>2
    <3>3. CASE k # 0
      <4>1. src + k \in dst .. dst + k - 1  BY <1>3, <3>3
      <4> QED  BY <2>1, <2>2, <3>1, <4>1
    <3> QED  BY <3>2, <3>3
  <2>7. /\ c[k + 1] \in Memory /\ c[k + 1][dst + k] = v
        /\ \A x \in Addresses : x # dst + k => c[k + 1][x] = c[k][x]
    BY <2>1, <2>3, <2>4, <2>5, StoreIs
  <2>8. \A x \in Addresses : x < dst \/ x >= dst + (k + 1) => c[k + 1][x] = m[x]
    <3>1. \A x \in Addresses : x < dst \/ x >= dst + (k + 1) => x # dst + k /\ (x < dst \/ x >= dst + k)
      BY <1>3
    <3> QED  BY <2>1, <2>7, <3>1
  <2>9. src + 1 = dst => \A x \in dst .. dst + (k + 1) - 1 : c[k + 1][x] = m[src]
    <3> SUFFICES ASSUME src + 1 = dst, NEW x \in dst .. dst + (k + 1) - 1 PROVE c[k + 1][x] = m[src]
      OBVIOUS
    <3>1. CASE x = dst + k  BY <2>6, <2>7, <3>1
    <3>2. CASE x \in dst .. dst + k - 1
      <4>1. x \in Addresses /\ x # dst + k  BY <1>3, <3>2
      <4> QED  BY <2>1, <2>7, <3>2, <4>1
    <3> QED  BY <3>1, <3>2
  <2> QED  BY <2>7, <2>8, <2>9
<1> HIDE DEF T
<1>6. Nat \subseteq T  BY <1>4, <1>5, SetInduction
<1>7. Good(n)  BY <1>6 DEF T
<1> QED  BY <1>2, <1>7

-----------------------------------------------------------------------------
(* The blocks that the bytes make up.                                        *)

\* The block-level manager and what has been proved of it.
P == INSTANCE HeapProofs WITH
        size <- SizeNow, next <- NextNow, pc <- PcNow, prev <- PrevNow, todo <- TodoNow

\* What the invariant of Heap.tla says of lengths and links.
Shape ==
    /\ FreeStarts \subseteq BlockStarts /\ HeapStart \in FreeStarts
    /\ BlockStarts \subseteq HeapStart .. (HeapEnd - 4)
    /\ Length(HeapStart) = 0
    /\ \A b \in BlockStarts : b # HeapStart =>
          /\ b >= FirstBlock /\ Length(b) \in Nat /\ Length(b) >= 4 /\ b + Length(b) <= HeapEnd
          /\ b + Length(b) = HeapEnd \/ b + Length(b) \in BlockStarts
          /\ \A c \in BlockStarts : b < c => b + Length(b) <= c
    /\ \A b \in FreeStarts :
          /\ Link(b) \in FreeStarts \/ Link(b) = Null
          /\ Link(b) # Null => Link(b) > b
          /\ \A c \in FreeStarts : b < c => Link(b) # Null /\ Link(b) <= c

\* The constants are what the theorems about Heap.tla ask for.
LEMMA HeapFacts ==
    ASSUME Sane
    PROVE  /\ P!HeapAssumption
           /\ P!HeapEnd = HeapEnd /\ P!FirstBlock = FirstBlock /\ P!Null = Null
<1>1. Requests \subseteq Nat /\ \A n \in Requests : n >= 2
  BY Sizes, HeapMemAssumption DEF HeapMemAssumption, Sane
<1> QED  BY <1>1, HeapMemAssumption, Sizes
         DEF HeapMemAssumption, P!HeapAssumption, P!HeapEnd, P!FirstBlock, P!Null, HeapEnd, FirstBlock, Null

\* The invariant of Heap.tla says it.
LEMMA ShapeIs ==
    ASSUME Sane, P!Inv
    PROVE  /\ Shape
           /\ P!Blocks = BlockStarts /\ P!Free = FreeStarts
           /\ \A b \in BlockStarts : SizeNow[b] = Length(b)
           /\ \A b \in FreeStarts : NextNow[b] = Link(b)
<1>1. /\ P!Blocks = BlockStarts /\ P!Free = FreeStarts
      /\ \A b \in BlockStarts : SizeNow[b] = Length(b)
      /\ \A b \in FreeStarts : NextNow[b] = Link(b)
  BY DEF P!Blocks, P!Free, SizeNow, NextNow
<1>2. P!TypeOK /\ P!Tiling /\ P!FreeListSorted  BY DEF P!Inv
<1>3. /\ FirstBlock = HeapStart + 4 /\ HeapStart \in Nat /\ HeapStart > 0 /\ HeapEnd \in Nat
      /\ FirstBlock + 4 <= HeapEnd /\ Null = 0
      /\ P!HeapEnd = HeapEnd /\ P!FirstBlock = FirstBlock /\ P!Null = Null
  BY HeapFacts, Sizes
<1>4. /\ FreeStarts \subseteq BlockStarts /\ HeapStart \in FreeStarts
      /\ BlockStarts \subseteq HeapStart .. (HeapEnd - 1)
      /\ \A b \in BlockStarts : Length(b) \in Nat
      /\ \A b \in FreeStarts : Link(b) \in FreeStarts \/ Link(b) = Null
  BY <1>1, <1>2, <1>3 DEF P!TypeOK
<1>5. /\ Length(HeapStart) = 0
      /\ \A b \in BlockStarts : b # HeapStart =>
          /\ b >= FirstBlock /\ Length(b) >= 4
          /\ b + Length(b) = HeapEnd \/ b + Length(b) \in BlockStarts
          /\ \A c \in BlockStarts : b < c => b + Length(b) <= c
  BY <1>1, <1>2, <1>3, <1>4 DEF P!Tiling, P!End
<1>6. \A b \in FreeStarts :
          /\ Link(b) # Null => Link(b) > b
          /\ \A c \in FreeStarts : b < c => Link(b) # Null /\ Link(b) <= c
  BY <1>1, <1>2, <1>3 DEF P!FreeListSorted
<1>7. \A b \in BlockStarts : b # HeapStart => b + Length(b) <= HeapEnd
  BY <1>3, <1>4, <1>5
<1>8. BlockStarts \subseteq HeapStart .. (HeapEnd - 4)
  BY <1>3, <1>4, <1>5, <1>7
<1> QED  BY <1>1, <1>4, <1>5, <1>6, <1>7, <1>8 DEF Shape

\* Headers do not overlap.
LEMMA Apart ==
    ASSUME Sane, Shape
    PROVE  /\ \A b, c \in BlockStarts : b < c => b + 4 <= c
           /\ \A b \in BlockStarts : /\ b \in Nat /\ b >= HeapStart /\ b + 4 <= HeapEnd
                                     /\ Plus(b, 2) = b + 2 /\ b \in Addresses
<1>1. /\ FirstBlock = HeapStart + 4 /\ HeapStart \in Nat /\ HeapEnd \in Nat /\ HeapEnd < Space
      /\ Space \in Nat
  BY Sizes
<1>2. \A b \in BlockStarts : b \in Nat /\ b >= HeapStart /\ b + 4 <= HeapEnd
  BY <1>1 DEF Shape
<1>3. ASSUME NEW b \in BlockStarts, NEW c \in BlockStarts, b < c PROVE b + 4 <= c
  <2>1. c # HeapStart /\ b \in Nat /\ c \in Nat  BY <1>1, <1>2, <1>3
  <2>2. CASE b = HeapStart  BY <1>1, <2>1, <2>2 DEF Shape
  <2>3. CASE b # HeapStart
    <3>1. Length(b) \in Nat /\ Length(b) >= 4 /\ b + Length(b) <= c  BY <1>3, <2>3 DEF Shape
    <3> QED  BY <2>1, <3>1
  <2> QED  BY <2>2, <2>3
<1>4. \A b \in BlockStarts : Plus(b, 2) = b + 2 /\ b \in Addresses  BY <1>1, <1>2, PlusIs
<1> QED  BY <1>2, <1>3, <1>4

\* Storing the length of a header, or its link.
LEMMA HeaderStored ==
    ASSUME Sane, NEW m \in Memory, NEW b \in Nat, b >= HeapStart, b + 4 <= HeapEnd, NEW w \in Addresses,
           NEW l, l = StoreWord(m, b, w), NEW n, n = StoreWord(m, b + 2, w)
    PROVE  /\ l \in Memory /\ Word(l, b) = w /\ Word(l, b + 2) = Word(m, b + 2)
           /\ n \in Memory /\ Word(n, b) = Word(m, b) /\ Word(n, b + 2) = w
           /\ \A c \in Nat : c >= HeapStart /\ c + 4 <= HeapEnd /\ (b + 4 <= c \/ c + 4 <= b) =>
                 /\ Word(l, c) = Word(m, c) /\ Word(l, c + 2) = Word(m, c + 2)
                 /\ Word(n, c) = Word(m, c) /\ Word(n, c + 2) = Word(m, c + 2)
           /\ \A x \in Addresses : x < b \/ x >= b + 4 => l[x] = m[x] /\ n[x] = m[x]
<1>1. /\ HeapStart \in Nat /\ HeapEnd \in Nat /\ HeapEnd < Space /\ Space \in Nat /\ RomTop \in Nat
      /\ RomTop <= HeapStart /\ Addresses = 0 .. (Space - 1)
  BY Sizes
<1>2. /\ l \in Memory /\ Word(l, b) = w
      /\ \A x \in Addresses : x # b /\ x # b + 1 => l[x] = m[x]
  BY <1>1, StoreWordIs
<1>3. /\ n \in Memory /\ Word(n, b + 2) = w
      /\ \A x \in Addresses : x # b + 2 /\ x # b + 3 => n[x] = m[x]
  <2>1. b + 2 \in Nat /\ b + 2 >= RomTop /\ b + 2 + 1 < Space /\ b + 2 + 1 = b + 3  BY <1>1
  <2> QED  BY <2>1, StoreWordIs
<1>4. \A x \in Addresses : x < b \/ x >= b + 4 => l[x] = m[x] /\ n[x] = m[x]
  BY <1>1, <1>2, <1>3
<1>5. Word(l, b + 2) = Word(m, b + 2)
  <2>1. /\ b + 2 \in Nat /\ b + 2 + 1 < Space /\ b + 2 \in Addresses /\ b + 2 + 1 \in Addresses
        /\ b + 2 # b /\ b + 2 # b + 1 /\ b + 2 + 1 # b /\ b + 2 + 1 # b + 1
    BY <1>1
  <2> QED  BY <1>2, <2>1, WordSame
<1>6. Word(n, b) = Word(m, b)
  <2>1. /\ b + 1 < Space /\ b \in Addresses /\ b + 1 \in Addresses
        /\ b # b + 2 /\ b # b + 3 /\ b + 1 # b + 2 /\ b + 1 # b + 3
    BY <1>1
  <2> QED  BY <1>3, <2>1, WordSame
<1>7. ASSUME NEW c \in Nat, c >= HeapStart, c + 4 <= HeapEnd, b + 4 <= c \/ c + 4 <= b
      PROVE  /\ Word(l, c) = Word(m, c) /\ Word(l, c + 2) = Word(m, c + 2)
             /\ Word(n, c) = Word(m, c) /\ Word(n, c + 2) = Word(m, c + 2)
  <2>1. /\ c + 1 < Space /\ c \in Addresses /\ c + 1 \in Addresses
        /\ c < b \/ c >= b + 4
        /\ c + 1 < b \/ c + 1 >= b + 4
    BY <1>1, <1>7
  <2>2. /\ c + 2 \in Nat /\ c + 2 + 1 < Space /\ c + 2 \in Addresses /\ c + 2 + 1 \in Addresses
        /\ c + 2 < b \/ c + 2 >= b + 4
        /\ c + 2 + 1 < b \/ c + 2 + 1 >= b + 4
    BY <1>1, <1>7
  <2>3. l[c] = m[c] /\ l[c + 1] = m[c + 1] /\ n[c] = m[c] /\ n[c + 1] = m[c + 1]  BY <1>4, <2>1
  <2>4. /\ l[c + 2] = m[c + 2] /\ l[c + 2 + 1] = m[c + 2 + 1]
        /\ n[c + 2] = m[c + 2] /\ n[c + 2 + 1] = m[c + 2 + 1]
    BY <1>4, <2>2
  <2> QED  BY <2>1, <2>2, <2>3, <2>4, WordSame
<1> QED  BY <1>2, <1>3, <1>4, <1>5, <1>6, <1>7

\* Headers that one at b does not overlap are the same in m and n.
OthersSame(b, m, n) ==
    /\ \A c \in Nat : c >= HeapStart /\ c + 4 <= HeapEnd /\ (b + 4 <= c \/ c + 4 <= b) =>
          Word(n, c) = Word(m, c) /\ Word(n, c + 2) = Word(m, c + 2)
    /\ \A x \in Addresses : x < b \/ x >= b + 4 => n[x] = m[x]

\* One of the two stores.
LEMMA LengthStored ==
    ASSUME Sane, NEW m \in Memory, NEW b \in Nat, b >= HeapStart, b + 4 <= HeapEnd, NEW w \in Addresses,
           NEW n, n = StoreWord(m, b, w)
    PROVE  n \in Memory /\ Word(n, b) = w /\ Word(n, b + 2) = Word(m, b + 2) /\ OthersSame(b, m, n)
<1>1. PICK k : k = StoreWord(m, b + 2, w)  OBVIOUS
<1> QED  BY <1>1, HeaderStored DEF OthersSame

\* The other one.
LEMMA LinkStored ==
    ASSUME Sane, NEW m \in Memory, NEW b \in Nat, b >= HeapStart, b + 4 <= HeapEnd, NEW w \in Addresses,
           NEW n, n = StoreWord(m, b + 2, w)
    PROVE  n \in Memory /\ Word(n, b) = Word(m, b) /\ Word(n, b + 2) = w /\ OthersSame(b, m, n)
<1>1. PICK k : k = StoreWord(m, b, w)  OBVIOUS
<1> QED  BY <1>1, HeaderStored DEF OthersSame

\* Blocks whose lengths stay are the same.
LEMMA BlocksSame ==
    ASSUME Sane, Shape, \A b \in BlockStarts : Length(b)' = Length(b)
    PROVE  BlockStarts' = BlockStarts /\ SizeNow' = SizeNow
<1>1. PICK s : s = [b \in Addresses |-> b + Length(b)]  OBVIOUS
<1>2. PICK t : t = [b \in Addresses |-> b + Length(b)']  OBVIOUS
<1>3. BlockStarts = {HeapStart} \union Reached(FirstBlock, s)  BY <1>1 DEF BlockStarts
<1>4. BlockStarts' = {HeapStart} \union Reached(FirstBlock, t)  BY <1>2 DEF BlockStarts
<1>5. \A b \in Reached(FirstBlock, s) : t[b] = s[b]  BY <1>1, <1>2, <1>3, Apart
<1>6. Reached(FirstBlock, t) = Reached(FirstBlock, s)  BY <1>5, Sizes, ReachedSame
<1> QED  BY <1>3, <1>4, <1>6 DEF SizeNow

\* The same of links.
LEMMA FreeSame ==
    ASSUME Sane, Shape, \A b \in FreeStarts : Link(b)' = Link(b)
    PROVE  FreeStarts' = FreeStarts /\ NextNow' = NextNow
<1>1. PICK s : s = [b \in Addresses |-> Link(b)]  OBVIOUS
<1>2. PICK t : t = [b \in Addresses |-> Link(b)']  OBVIOUS
<1>3. FreeStarts = Reached(HeapStart, s)  BY <1>1 DEF FreeStarts
<1>4. FreeStarts' = Reached(HeapStart, t)  BY <1>2 DEF FreeStarts
<1>5. \A b \in Reached(HeapStart, s) : t[b] = s[b]
  <2>1. FreeStarts \subseteq Addresses  BY Apart DEF Shape
  <2> QED  BY <1>1, <1>2, <1>3, <2>1
<1>6. Reached(HeapStart, t) = Reached(HeapStart, s)  BY <1>5, Sizes, ReachedSame
<1> QED  BY <1>3, <1>4, <1>6 DEF NextNow

\* A block is cut in two.
LEMMA BlocksMore ==
    ASSUME Sane, Shape, NEW c \in BlockStarts, c # HeapStart, NEW r \in Nat, NEW n \in Nat, r > 0, n > 0,
           Length(c) = r + n, Length(c)' = r, Length(c + r)' = n,
           \A b \in BlockStarts : b # c => Length(b)' = Length(b)
    PROVE  /\ BlockStarts' = BlockStarts \union {c + r} /\ c + r \notin BlockStarts
           /\ SizeNow' = [b \in BlockStarts \union {c + r} |->
                            IF b = c + r THEN n ELSE IF b = c THEN r ELSE Length(b)]
<1> DEFINE x == c + r
<1>1. PICK s : s = [b \in Addresses |-> b + Length(b)]  OBVIOUS
<1>2. PICK t : t = [b \in Addresses |-> b + Length(b)']  OBVIOUS
<1>3. PICK R : R = Reached(FirstBlock, s)  OBVIOUS
<1>4. BlockStarts = {HeapStart} \union R  BY <1>1, <1>3 DEF BlockStarts
<1>5. BlockStarts' = {HeapStart} \union Reached(FirstBlock, t)  BY <1>2 DEF BlockStarts
<1>6. /\ FirstBlock = HeapStart + 4 /\ HeapStart \in Nat /\ HeapEnd \in Nat /\ HeapEnd < Space
      /\ Space \in Nat /\ Addresses = 0 .. (Space - 1)
  BY Sizes
<1>7. /\ c >= FirstBlock /\ c \in Nat /\ c + (r + n) <= HeapEnd
      /\ \A b \in BlockStarts : c < b => c + (r + n) <= b
  BY Apart DEF Shape
<1>8. c \in R  BY <1>4
<1>9. x \in FirstBlock .. (HeapEnd - 1) /\ c < x /\ x \in Addresses /\ x \notin BlockStarts
  <2>1. x \in FirstBlock .. (HeapEnd - 1) /\ c < x /\ x \in Addresses  BY <1>6, <1>7
  <2>2. ASSUME x \in BlockStarts PROVE FALSE
    <3>1. c + (r + n) <= x  BY <1>7, <2>1, <2>2
    <3> QED  BY <1>7, <3>1
  <2> QED  BY <2>1, <2>2
<1>10. s[c] = c + (r + n) /\ s[c] > x  BY <1>1, <1>7, Apart
<1>11. t[c] = x /\ t[x] = s[c]
  <2>1. c \in Addresses  BY Apart
  <2>2. t[c] = c + r  BY <1>2, <2>1
  <2>3. t[x] = x + n
    <3>1. t[x] = x + Length(x)'  BY <1>2, <1>9
    <3> QED  BY <3>1
  <2>4. x + n = c + (r + n)  BY <1>7
  <2> QED  BY <1>10, <2>2, <2>3, <2>4
<1>12. \A b \in R : b # c => t[b] = s[b]
  <2>1. R \subseteq BlockStarts /\ BlockStarts \subseteq Addresses  BY <1>4, Apart
  <2> QED  BY <1>1, <1>2, <2>1
<1> HIDE DEF x
<1>13. Reached(FirstBlock, t) = R \union {x}
  <2>1. FirstBlock \in Nat /\ x \notin R  BY <1>4, <1>6, <1>9
  <2> QED  BY <1>3, <1>8, <1>9, <1>10, <1>11, <1>12, <2>1, ReachedMore
<1>14. BlockStarts' = BlockStarts \union {x}  BY <1>4, <1>5, <1>13
<1>15. \A b \in BlockStarts \union {x} :
          Length(b)' = IF b = x THEN n ELSE IF b = c THEN r ELSE Length(b)
  <2>1. Length(x)' = n  BY DEF x
  <2> QED  BY <2>1
<1>16. SizeNow' = [b \in BlockStarts \union {x} |-> Length(b)']  BY <1>14 DEF SizeNow
<1>17. SizeNow' = [b \in BlockStarts \union {x} |->
                     IF b = x THEN n ELSE IF b = c THEN r ELSE Length(b)]
  BY <1>15, <1>16
<1> QED  BY <1>9, <1>14, <1>17 DEF x

\* A block absorbs the next one.
LEMMA BlocksLess ==
    ASSUME Sane, Shape, NEW c \in BlockStarts, c # HeapStart, NEW x \in BlockStarts, x = c + Length(c),
           Length(c)' = Length(c) + Length(x),
           \A b \in BlockStarts : b # c /\ b # x => Length(b)' = Length(b)
    PROVE  /\ BlockStarts' = BlockStarts \ {x}
           /\ SizeNow' = [b \in BlockStarts \ {x} |->
                            IF b = c THEN Length(c) + Length(x) ELSE Length(b)]
<1>1. PICK s : s = [b \in Addresses |-> b + Length(b)]  OBVIOUS
<1>2. PICK t : t = [b \in Addresses |-> b + Length(b)']  OBVIOUS
<1>3. PICK R : R = Reached(FirstBlock, s)  OBVIOUS
<1>4. BlockStarts = {HeapStart} \union R  BY <1>1, <1>3 DEF BlockStarts
<1>5. BlockStarts' = {HeapStart} \union Reached(FirstBlock, t)  BY <1>2 DEF BlockStarts
<1>6. /\ FirstBlock = HeapStart + 4 /\ HeapStart \in Nat /\ FirstBlock \in Nat
      /\ \A b \in BlockStarts : b \in Nat /\ b \in Addresses
  BY Sizes, Apart
<1>7. /\ c >= FirstBlock /\ c \in Nat /\ Length(c) \in Nat /\ Length(c) >= 4
      /\ \A b \in BlockStarts : b # HeapStart =>
            /\ Length(b) \in Nat /\ Length(b) >= 4
            /\ \A d \in BlockStarts : b < d => b + Length(b) <= d
  BY <1>6 DEF Shape
<1>8. c < x /\ x \in Nat /\ x # HeapStart /\ x # FirstBlock /\ x # c /\ Length(x) \in Nat /\ Length(x) >= 4
  <2>1. c < x /\ x \in Nat  BY <1>6, <1>7
  <2>2. x # HeapStart /\ x # FirstBlock /\ x # c  BY <1>6, <1>7, <2>1
  <2> QED  BY <1>7, <2>1, <2>2
<1>9. c \in R /\ x \in R /\ HeapStart \notin R
  <2>1. Fixed(R, FirstBlock, s)  BY <1>3, <1>6, ReachedFixed
  <2>2. HeapStart \notin R  BY <2>1, <1>6 DEF Fixed
  <2> QED  BY <1>4, <1>8, <2>2
<1>10. \A b \in R : b \in BlockStarts /\ b # HeapStart /\ s[b] = b + Length(b) /\ t[b] = b + Length(b)'
  BY <1>1, <1>2, <1>4, <1>6, <1>9
<1>11. s[c] = x  BY <1>9, <1>10
<1>12. ASSUME NEW b \in R, b < x, s[b] = x PROVE b = c
  <2>1. PICK p, q : p = Length(b) /\ q = Length(c)  OBVIOUS
  <2>2. b \in BlockStarts /\ b # HeapStart /\ b + p = c + q  BY <1>10, <1>12, <2>1
  <2>3. b \in Nat /\ p \in Nat /\ p >= 4 /\ q \in Nat /\ q >= 4 /\ c \in Nat  BY <1>6, <1>7, <2>1, <2>2
  <2>4. b < c => b + p <= c  BY <1>7, <2>1, <2>2
  <2>5. c < b => c + q <= b  BY <1>7, <2>1, <2>2
  <2> QED  BY <2>2, <2>3, <2>4, <2>5
<1>13. x < s[x]  BY <1>8, <1>9, <1>10
<1>14. t[c] = s[x]
  <2>1. t[c] = c + (Length(c) + Length(x)) /\ s[x] = x + Length(x)  BY <1>9, <1>10
  <2> QED  BY <1>7, <1>8, <2>1
<1>15. \A b \in R : b # c /\ b # x => t[b] = s[b]  BY <1>10
<1>16. Reached(FirstBlock, t) = R \ {x}
  <2>1. FirstBlock \in Nat /\ c < x /\ x # FirstBlock /\ x < s[x]  BY <1>6, <1>8, <1>13
  <2>2. \A b \in R : b < x /\ s[b] = x => b = c  BY <1>12
  <2>3. s[x] \in FirstBlock .. (HeapEnd - 1) /\ c < s[x] => x < s[x]  BY <2>1
  <2>4. c \in R /\ x \in R  BY <1>9
  <2>5. x # FirstBlock /\ FirstBlock \in Nat /\ c < x  BY <2>1
  <2>6. LedPast(FirstBlock, s, t, R, c, x)
    BY <1>11, <1>14, <1>15, <2>2, <2>3, <2>4, <2>5 DEF LedPast
  <2> QED  BY <1>3, <2>5, <2>6, ReachedLess
<1>17. BlockStarts' = BlockStarts \ {x}  BY <1>4, <1>5, <1>8, <1>16
<1>18. SizeNow' = [b \in BlockStarts \ {x} |-> Length(b)']  BY <1>17 DEF SizeNow
<1>19. \A b \in BlockStarts \ {x} : Length(b)' = IF b = c THEN Length(c) + Length(x) ELSE Length(b)
  OBVIOUS
<1> QED  BY <1>17, <1>18, <1>19

\* A block is taken off the list.
LEMMA FreeLess ==
    ASSUME Sane, Shape, NEW c \in FreeStarts, NEW x \in FreeStarts, Link(c) = x, Link(c)' = Link(x),
           \A b \in FreeStarts : b # c /\ b # x => Link(b)' = Link(b)
    PROVE  /\ FreeStarts' = FreeStarts \ {x}
           /\ NextNow' = [b \in FreeStarts \ {x} |-> IF b = c THEN Link(x) ELSE Link(b)]
<1>1. PICK s : s = [b \in Addresses |-> Link(b)]  OBVIOUS
<1>2. PICK t : t = [b \in Addresses |-> Link(b)']  OBVIOUS
<1>3. PICK R : R = Reached(HeapStart, s)  OBVIOUS
<1>4. FreeStarts = R  BY <1>1, <1>3 DEF FreeStarts
<1>5. FreeStarts' = Reached(HeapStart, t)  BY <1>2 DEF FreeStarts
<1>6. /\ HeapStart \in Nat /\ HeapStart > 0 /\ Null = 0
      /\ \A b \in FreeStarts : b \in Nat /\ b \in Addresses /\ b >= HeapStart
  BY Sizes, Apart DEF Shape
<1>7. \A b \in FreeStarts :
         /\ Link(b) # Null => Link(b) > b
         /\ \A d \in FreeStarts : b < d => Link(b) # Null /\ Link(b) <= d
  BY DEF Shape
<1>8. c < x /\ x # c /\ x # HeapStart /\ x # Null
  <2>1. x # Null  BY <1>6
  <2>2. x > c  BY <1>7, <2>1
  <2> QED  BY <1>6, <2>1, <2>2
<1>9. \A b \in R : s[b] = Link(b) /\ t[b] = Link(b)'  BY <1>1, <1>2, <1>4, <1>6
<1>10. ASSUME NEW b \in R, b < x, s[b] = x PROVE b = c
  <2>1. Link(b) = x  BY <1>9, <1>10
  <2>2. ~ (b < c)
    <3>1. b < c => x <= c  BY <1>4, <1>7, <2>1
    <3> QED  BY <1>4, <1>6, <1>8, <3>1
  <2>3. ~ (c < b)
    <3>1. c < b => x <= b  BY <1>4, <1>7
    <3> QED  BY <1>4, <1>6, <1>10, <3>1
  <2> QED  BY <1>4, <1>6, <2>2, <2>3
<1>11. c < s[x] => x < s[x]
  <2>1. s[x] = Link(x)  BY <1>4, <1>9
  <2>2. Link(x) # Null => Link(x) > x  BY <1>7
  <2> QED  BY <1>6, <2>1, <2>2
<1>12. s[c] = x /\ t[c] = s[x] /\ \A b \in R : b # c /\ b # x => t[b] = s[b]  BY <1>4, <1>9
<1>13. Reached(HeapStart, t) = R \ {x}
  <2>1. LedPast(HeapStart, s, t, R, c, x)  BY <1>4, <1>8, <1>10, <1>11, <1>12 DEF LedPast
  <2> QED  BY <1>3, <1>6, <2>1, ReachedLess
<1>14. FreeStarts' = FreeStarts \ {x}  BY <1>4, <1>5, <1>13
<1>15. NextNow' = [b \in FreeStarts \ {x} |-> Link(b)']  BY <1>14 DEF NextNow
<1>16. \A b \in FreeStarts \ {x} : Link(b)' = IF b = c THEN Link(x) ELSE Link(b)  OBVIOUS
<1> QED  BY <1>14, <1>15, <1>16

\* A block is put on the list.
LEMMA FreeMore ==
    ASSUME Sane, Shape, NEW c \in FreeStarts, NEW x \in BlockStarts, x \notin FreeStarts, c < x,
           Link(c) = Null \/ x < Link(c), Link(c)' = x, Link(x)' = Link(c),
           \A b \in FreeStarts : b # c => Link(b)' = Link(b)
    PROVE  /\ FreeStarts' = FreeStarts \union {x}
           /\ NextNow' = [b \in FreeStarts \union {x} |->
                            IF b = x THEN Link(c) ELSE IF b = c THEN x ELSE Link(b)]
<1>1. PICK s : s = [b \in Addresses |-> Link(b)]  OBVIOUS
<1>2. PICK t : t = [b \in Addresses |-> Link(b)']  OBVIOUS
<1>3. PICK R : R = Reached(HeapStart, s)  OBVIOUS
<1>4. FreeStarts = R  BY <1>1, <1>3 DEF FreeStarts
<1>5. FreeStarts' = Reached(HeapStart, t)  BY <1>2 DEF FreeStarts
<1>6. /\ HeapStart \in Nat /\ HeapStart > 0 /\ Null = 0 /\ HeapEnd \in Nat
      /\ \A b \in BlockStarts : b \in Nat /\ b \in Addresses /\ b >= HeapStart /\ b + 4 <= HeapEnd
      /\ FreeStarts \subseteq BlockStarts
  BY Sizes, Apart DEF Shape
<1>7. x \in HeapStart .. (HeapEnd - 1)  BY <1>6
<1>8. \A b \in R : s[b] = Link(b) /\ t[b] = Link(b)'  BY <1>1, <1>2, <1>4, <1>6
<1>9. s[c] \in HeapStart .. (HeapEnd - 1) /\ c < s[c] => x < s[c]  BY <1>4, <1>6, <1>8
<1>10. t[c] = x /\ t[x] = s[c] /\ \A b \in R : b # c => t[b] = s[b]
  <2>1. t[x] = Link(x)'  BY <1>2, <1>6
  <2> QED  BY <1>4, <1>8, <2>1
<1>11. Reached(HeapStart, t) = R \union {x}
  <2>1. c \in R /\ x \notin R /\ HeapStart \in Nat  BY <1>4, <1>6
  <2> QED  BY <1>3, <1>7, <1>9, <1>10, <2>1, ReachedMore
<1>12. FreeStarts' = FreeStarts \union {x}  BY <1>4, <1>5, <1>11
<1>13. NextNow' = [b \in FreeStarts \union {x} |-> Link(b)']  BY <1>12 DEF NextNow
<1>14. \A b \in FreeStarts \union {x} : Link(b)' = IF b = x THEN Link(c) ELSE IF b = c THEN x ELSE Link(b)
  OBVIOUS
<1> QED  BY <1>12, <1>13, <1>14

-----------------------------------------------------------------------------
(* The invariant.                                                            *)

\* The call in progress.
Calls ==
    /\ pc \in {"idle", "mem_loop", "mem_loop2", "join_block", "join_prev", "copy"}
    /\ temp = Null \/ (temp \in Nat /\ temp - 2 \in FreeStarts)
    /\ job.op \in {"none", "alloc", "calloc", "realloc"}
    /\ job.op # "none" => job.n \in Requests
    /\ job.op # "realloc" => job.src = Null
    /\ job.op = "realloc" => job.first \in Addresses /\ job.src \in Addresses
    /\ pc = "idle" => job = NoJob
    /\ pc = "mem_loop" => job.op # "none" /\ len = job.n + 2
    /\ Freeing => job = NoJob \/ job.op = "realloc"
    /\ pc = "copy" => job.op \in {"calloc", "realloc"}

\* The blocks in use, and a pointer to n bytes of one of them.
Used == {b \in BlockStarts \ FreeStarts : b # blk}
Pointer(p, n) == p \in Nat /\ p - 2 \in Used /\ n \in Nat /\ Length(p - 2) >= n + 2

\* What the program stored is where it stored it.
Intact(p) ==
    /\ Pointer(p, data[p].n)
    /\ data[p] = [n |-> data[p].n, bytes |-> data[p].bytes]
    /\ Len(data[p].bytes) \in Nat /\ Len(data[p].bytes) <= data[p].n
    /\ \A i \in 1 .. Len(data[p].bytes) : mem[p + i - 1] = data[p].bytes[i]

Holds ==
    /\ Null \notin DOMAIN data
    /\ \A p \in DOMAIN data \ {job.src} : Intact(p)
    /\ pc = "copy" => Pointer(ret, job.n)

Mapped ==
    /\ mem \in Memory
    /\ P!Inv
    /\ Calls
    /\ Holds
    /\ Confined

-----------------------------------------------------------------------------
(* What every step needs.                                                    *)

\* Blocks are what they were when the memory is.
LEMMA Still ==
    ASSUME mem' = mem
    PROVE  /\ BlockStarts' = BlockStarts /\ FreeStarts' = FreeStarts
           /\ SizeNow' = SizeNow /\ NextNow' = NextNow
           /\ \A b : Length(b)' = Length(b) /\ Link(b)' = Link(b)
<1>1. \A b : Length(b)' = Length(b) /\ Link(b)' = Link(b)  BY DEF Length, Link
<1>2. BlockStarts' = BlockStarts /\ FreeStarts' = FreeStarts
  BY <1>1 DEF BlockStarts, FreeStarts
<1> QED  BY <1>1, <1>2 DEF SizeNow, NextNow

\* The registers point to blocks.
LEMMA Registers ==
    ASSUME Sane, Mapped
    PROVE  /\ Shape
           /\ cur = Null \/ cur \in FreeStarts
           /\ pc = "mem_loop" => /\ IF temp = Null THEN cur = HeapStart
                                    ELSE temp - 2 \in FreeStarts /\ Link(temp - 2) = cur
                                 /\ len \in Nat /\ len >= 4 /\ len < Space
           /\ pc # "mem_loop" => temp = Null
           /\ pc \in {"idle", "mem_loop", "copy"} => blk = Null
           /\ Freeing => cur \in FreeStarts /\ blk \in BlockStarts /\ cur < blk
           /\ pc = "mem_loop2" => blk \notin FreeStarts
           /\ pc \in {"join_block", "join_prev"} => blk \in FreeStarts /\ Link(cur) = blk
           /\ P!Live = Used
<1>1. /\ Shape /\ P!Blocks = BlockStarts /\ P!Free = FreeStarts
      /\ \A b \in FreeStarts : NextNow[b] = Link(b)
  BY ShapeIs DEF Mapped
<1>2. P!TypeOK /\ P!FirstFitWalk /\ P!ReleaseWalk /\ P!DeadRegisters /\ P!FreeListSorted
  BY DEF Mapped, P!Inv
<1>3. P!Null = 0 /\ Null = 0 /\ HeapStart > 0 /\ HeapStart \in Nat  BY HeapFacts, Sizes
<1>4. Calls  BY DEF Mapped
<1>5. cur = Null \/ cur \in FreeStarts  BY <1>1, <1>2, <1>3 DEF P!TypeOK
<1>6. \A b \in BlockStarts : b \in Nat /\ b >= HeapStart  BY <1>1, Apart
<1>7. PrevNow = Null <=> temp = Null
  <2>1. CASE temp = Null  BY <2>1 DEF PrevNow
  <2>2. CASE temp # Null
    <3>1. temp - 2 \in FreeStarts  BY <1>4, <2>2 DEF Calls
    <3>2. temp - 2 >= HeapStart /\ temp - 2 \in Nat  BY <1>1, <1>6, <3>1 DEF Shape
    <3> QED  BY <1>3, <2>2, <3>2 DEF PrevNow
  <2> QED  BY <2>1, <2>2
<1>8. pc = "mem_loop" => /\ IF temp = Null THEN cur = HeapStart
                            ELSE temp - 2 \in FreeStarts /\ Link(temp - 2) = cur
                         /\ len \in Nat /\ len >= 4 /\ len < Space
  <2> SUFFICES ASSUME pc = "mem_loop"
               PROVE  /\ IF temp = Null THEN cur = HeapStart
                         ELSE temp - 2 \in FreeStarts /\ Link(temp - 2) = cur
                      /\ len \in Nat /\ len >= 4 /\ len < Space
    OBVIOUS
  <2>1. PcNow = "mem_loop"  BY DEF PcNow
  <2>2. IF PrevNow = Null THEN cur = HeapStart ELSE NextNow[PrevNow] = cur
    BY <1>2, <1>3, <2>1 DEF P!FirstFitWalk
  <2>3. temp # Null => PrevNow = temp - 2 /\ temp - 2 \in FreeStarts  BY <1>4 DEF PrevNow, Calls
  <2>4. IF temp = Null THEN cur = HeapStart ELSE temp - 2 \in FreeStarts /\ Link(temp - 2) = cur
    BY <1>1, <1>7, <2>2, <2>3
  <2>5. len = job.n + 2 /\ job.n \in Requests  BY <1>4 DEF Calls
  <2>6. len >= 4 /\ len < Space /\ len \in Nat
    BY <2>5, HeapMemAssumption, Sizes DEF Sane, HeapMemAssumption
  <2> QED  BY <2>4, <2>6
<1>9. pc # "mem_loop" => temp = Null
  <2>1. pc # "mem_loop" => PcNow # "mem_loop"  BY DEF PcNow
  <2> QED  BY <1>2, <1>3, <1>7, <2>1 DEF P!DeadRegisters
<1>10. pc \in {"idle", "mem_loop", "copy"} => blk = Null
  BY <1>2, <1>3 DEF P!DeadRegisters, PcNow
<1>11. /\ pc = "mem_loop2" => blk \in BlockStarts \ FreeStarts /\ cur \in FreeStarts /\ cur < blk
       /\ pc \in {"join_block", "join_prev"} => blk \in FreeStarts /\ cur \in FreeStarts /\ Link(cur) = blk
  BY <1>1, <1>2 DEF P!ReleaseWalk, PcNow
<1>12. pc \in {"join_block", "join_prev"} => blk \in BlockStarts /\ cur < blk
  <2> SUFFICES ASSUME pc \in {"join_block", "join_prev"} PROVE blk \in BlockStarts /\ cur < blk  OBVIOUS
  <2>0. FreeStarts \subseteq BlockStarts  BY <1>1 DEF Shape
  <2>1. blk \in BlockStarts /\ blk # Null  BY <1>3, <1>6, <1>11, <2>0
  <2>2. Link(cur) > cur  BY <1>1, <1>11, <2>1 DEF Shape
  <2> QED  BY <1>6, <1>11, <2>1, <2>2 DEF Shape
<1>13. P!Live = Used  BY <1>1 DEF P!Live, Used
<1> QED  BY <1>1, <1>5, <1>8, <1>9, <1>10, <1>11, <1>12, <1>13 DEF Freeing

\* Steps of the block-level manager keep its invariant.
LEMMA Kept ==
    ASSUME Sane, P!Inv, [P!Next]_(P!vars)
    PROVE  P!Inv'
BY HeapFacts, P!StepInv

\* What a block in use holds, apart from the first bytes of others.
LEMMA Inside ==
    ASSUME Sane, Shape, NEW p, NEW n, Pointer(p, n)
    PROVE  /\ p - 2 \in BlockStarts /\ p \in Nat /\ p >= FirstBlock + 2 /\ n \in Nat
           /\ p + n <= p - 2 + Length(p - 2) /\ p + n <= HeapEnd /\ Length(p - 2) \in Nat
           /\ \A c \in BlockStarts : c # p - 2 => c + 4 <= p - 2 \/ p - 2 + Length(p - 2) <= c
           /\ \A c \in BlockStarts : c # p - 2 => c + Length(c) <= p - 2 \/ p - 2 + Length(p - 2) <= c
<1>1. p - 2 \in BlockStarts /\ p \in Nat /\ n \in Nat /\ Length(p - 2) >= n + 2 /\ p - 2 # HeapStart
  BY DEF Pointer, Used, Shape
<1>2. PICK b : b = p - 2  OBVIOUS
<1>3. PICK l : l = Length(b)  OBVIOUS
<1>4. /\ b \in BlockStarts /\ b # HeapStart /\ b >= FirstBlock /\ l \in Nat /\ b + l <= HeapEnd
      /\ b \in Nat /\ FirstBlock = HeapStart + 4 /\ HeapStart \in Nat
      /\ \A c \in BlockStarts : b < c => b + l <= c
  BY <1>1, <1>2, <1>3, Apart, Sizes DEF Shape
<1>5. ASSUME NEW c \in BlockStarts, c # b PROVE (c + 4 <= b \/ b + l <= c) /\ (c + Length(c) <= b \/ b + l <= c)
  <2>1. c \in Nat /\ (c < b => c + 4 <= b)  BY <1>4, Apart
  <2>2. CASE b < c  BY <1>4, <2>2
  <2>3. CASE c < b
    <3>1. c + Length(c) <= b
      <4>1. CASE c = HeapStart
        <5>1. Length(c) = 0  BY <4>1 DEF Shape
        <5> QED  BY <1>4, <2>1, <2>3, <5>1
      <4>2. CASE c # HeapStart
        <5>1. \A e \in BlockStarts : c < e => c + Length(c) <= e  BY <4>2 DEF Shape
        <5>2. b \in BlockStarts  BY <1>4
        <5> QED  BY <2>3, <5>1, <5>2, Zenon
      <4> QED  BY <4>1, <4>2
    <3> QED  BY <2>1, <2>3, <3>1
  <2> QED  BY <1>4, <1>5, <2>1, <2>2, <2>3
<1>6. p = b + 2 /\ l >= n + 2 /\ n \in Nat  BY <1>1, <1>2, <1>3
<1>7. p >= FirstBlock + 2 /\ p + n <= b + l /\ p + n <= HeapEnd
  <2>1. HeapEnd \in Nat  BY Sizes
  <2> QED  BY <1>4, <1>6, <2>1
<1> QED  BY <1>1, <1>2, <1>3, <1>4, <1>5, <1>7

\* What was stored is still there when its block and its bytes are.
LEMMA IntactKept ==
    ASSUME Sane, Shape, NEW p, Intact(p), data'[p] = data[p],
           p - 2 \in Used', Length(p - 2)' = Length(p - 2),
           \A x \in Addresses : p <= x /\ x < p + data[p].n => mem'[x] = mem[x]
    PROVE  Intact(p)'
<1>1. Pointer(p, data[p].n)  BY DEF Intact
<1>2. p \in Nat /\ p + data[p].n <= HeapEnd /\ data[p].n \in Nat  BY <1>1, Inside
<1>3. HeapEnd \in Nat /\ HeapEnd < Space /\ Space \in Nat /\ Addresses = 0 .. (Space - 1)  BY Sizes
<1>4. Pointer(p, data[p].n)'  BY <1>1 DEF Pointer
<1>5. ASSUME NEW i \in 1 .. Len(data[p].bytes) PROVE mem'[p + i - 1] = data[p].bytes[i]
  <2>1. Len(data[p].bytes) \in Nat /\ Len(data[p].bytes) <= data[p].n  BY DEF Intact
  <2>2. p + i - 1 \in Addresses /\ p <= p + i - 1 /\ p + i - 1 < p + data[p].n
    <3>1. PICK k, n : k = Len(data[p].bytes) /\ n = data[p].n  OBVIOUS
    <3>2. k \in Nat /\ n \in Nat /\ k <= n /\ i \in 1 .. k /\ p + n <= HeapEnd  BY <1>2, <2>1, <3>1
    <3>3. p + i - 1 \in Addresses /\ p <= p + i - 1 /\ p + i - 1 < p + n  BY <1>2, <1>3, <3>2
    <3> QED  BY <3>1, <3>3
  <2>3. mem'[p + i - 1] = mem[p + i - 1]  BY <2>2
  <2> QED  BY <2>3 DEF Intact
<1> QED  BY <1>4, <1>5 DEF Intact

-----------------------------------------------------------------------------
(* Steps that do not write.                                                  *)

\* They leave what was stored.
LEMMA StillHolds ==
    ASSUME Sane, Mapped, mem' = mem,
           \A p \in DOMAIN data' \ {job'.src} :
              p \in DOMAIN data \ {job.src} /\ data'[p] = data[p] /\ p - 2 # blk'
    PROVE  /\ mem' \in Memory /\ Confined'
           /\ \A p \in DOMAIN data' \ {job'.src} : Intact(p)'
<1>1. mem \in Memory /\ Confined /\ Shape  BY Registers DEF Mapped
<1>2. mem' \in Memory /\ Confined'  BY <1>1 DEF Confined
<1>3. ASSUME NEW p \in DOMAIN data' \ {job'.src} PROVE Intact(p)'
  <2>1. Intact(p)  BY DEF Mapped, Holds
  <2>2. p - 2 \in BlockStarts \ FreeStarts  BY <2>1 DEF Intact, Pointer, Used
  <2>3. p - 2 \in Used'  BY <2>2, Still DEF Used
  <2>4. Length(p - 2)' = Length(p - 2) /\ data'[p] = data[p]  BY Still
  <2> QED  BY <1>1, <2>1, <2>3, <2>4, IntactKept
<1> QED  BY <1>2, <1>3

\* The length of a block that is asked for.
LEMMA AskedIs ==
    ASSUME Sane, NEW n \in Requests
    PROVE  /\ BlockLength(n) = n + 2 /\ n \in Nat /\ n >= 2 /\ n + 2 < Space /\ n \in Addresses
<1>1. n \in Nat /\ n \in Addresses /\ n >= 2 /\ n + 2 < Space
  BY HeapMemAssumption, Sizes DEF HeapMemAssumption, Sane
<1> QED  BY <1>1, PlusIs DEF BlockLength

\* An allocation starts.
LEMMA MemAllocMapped ==
    ASSUME Sane, Mapped, NEW op \in {"alloc", "calloc"}, NEW n \in Requests, MemAlloc(op, n)
    PROVE  Mapped' /\ P!Next
<1>1. /\ pc = "idle" /\ pc' = "mem_loop" /\ cur' = HeapStart /\ temp' = Null /\ len' = n + 2
      /\ blk' = Null /\ ret' = Null /\ mem' = mem /\ data' = data
      /\ job' = [NoJob EXCEPT !.op = op, !.n = n]
  BY AskedIs DEF MemAlloc, StartAlloc
<1>2. job' = [op |-> op, n |-> n, src |-> Null, first |-> 0]  BY <1>1 DEF NoJob
<1>3. job = NoJob /\ temp = Null /\ blk = Null  BY <1>1, Registers DEF Mapped, Calls
<1>4. SizeNow' = SizeNow /\ NextNow' = NextNow  BY <1>1, Still
<1>5. P!MemAlloc(n)
  <2>1. PcNow = "idle" /\ PcNow' = "mem_loop" /\ PrevNow' = Null /\ TodoNow' = TodoNow
    BY <1>1, <1>3 DEF PcNow, PrevNow, TodoNow, Freeing
  <2> QED  BY <1>1, <1>3, <1>4, <2>1, HeapFacts DEF P!MemAlloc
<1>6. P!Next /\ P!Inv'
  <2>1. P!Next  BY <1>5 DEF P!Next, P!Call
  <2> QED  BY <2>1, Kept DEF Mapped
<1>7. Calls'
  <2>1. job'.op = op /\ job'.n = n /\ job'.src = Null /\ op # "realloc" /\ op # "none"  BY <1>2
  <2>2. job'.op \in {"none", "alloc", "calloc", "realloc"}  BY <2>1
  <2>3. pc' # "idle" /\ ~ Freeing' /\ pc' # "copy"  BY <1>1 DEF Freeing
  <2> QED  BY <1>1, <2>1, <2>2, <2>3 DEF Calls
<1>8. /\ mem' \in Memory /\ Confined'
      /\ \A p \in DOMAIN data' \ {job'.src} : Intact(p)'
  <2>1. job'.src = job.src  BY <1>2, <1>3 DEF NoJob
  <2>2. \A p \in DOMAIN data \ {job.src} : p - 2 # blk'  BY <1>1, <1>3 DEF Mapped, Holds, Intact, Pointer, Used
  <2> QED  BY <1>1, <2>1, <2>2, StillHolds
<1>9. Holds'  BY <1>1, <1>8 DEF Holds, Mapped
<1> QED  BY <1>6, <1>7, <1>8, <1>9 DEF Mapped

\* Both release a block the program holds, and __REALLOC remembers what to do next.
LEMMA FreeMapped ==
    ASSUME Sane, Mapped, NEW p \in DOMAIN data,
           MemFree(p) \/ \E n \in Requests : Realloc(p, n)
    PROVE  Mapped' /\ P!Next
<1>1. /\ pc = "idle" /\ pc' = "mem_loop2" /\ cur' = HeapStart /\ temp' = temp /\ len' = len
      /\ blk' = Plus(p, Space - 2) /\ ret' = Null /\ mem' = mem
  BY DEF MemFree, Realloc
<1>2. job = NoJob /\ temp = Null /\ blk = Null  BY <1>1, Registers DEF Mapped, Calls
<1>3. Intact(p) /\ p # Null
  <2>1. p # Null  BY DEF Mapped, Holds
  <2> QED  BY <1>2, <2>1 DEF Mapped, Holds, NoJob
<1>4. Pointer(p, data[p].n) /\ p - 2 \in Used  BY <1>3 DEF Intact, Pointer
<1>5. Shape /\ P!Live = Used  BY Registers
<1>6. p \in Nat /\ p + data[p].n <= HeapEnd /\ data[p].n \in Nat /\ p >= FirstBlock + 2  BY <1>4, <1>5, Inside
<1>7. p \in Addresses /\ 2 <= p
  <2>1. HeapEnd \in Nat /\ HeapEnd < Space /\ Space \in Nat /\ Addresses = 0 .. (Space - 1) /\ FirstBlock \in Nat
    BY Sizes
  <2> QED  BY <1>6, <2>1
<1>8. blk' = p - 2  BY <1>1, <1>7, MinusIs
<1>9. SizeNow' = SizeNow /\ NextNow' = NextNow  BY <1>1, Still
<1>10. \/ job' = job /\ data' = Forget(p)
       \/ \E n \in Requests :
             /\ job' = [op |-> "realloc", n |-> n, src |-> p, first |-> Word(mem, p)]
             /\ data' = data
  BY DEF MemFree, Realloc
<1>11. PcNow = "idle" /\ PcNow' = "mem_loop2" /\ PrevNow' = PrevNow /\ TodoNow = 0
  BY <1>1, <1>2 DEF PcNow, PrevNow, TodoNow, Freeing
<1>12. TodoNow' = job'.n  BY <1>1 DEF TodoNow, Freeing
<1>13. P!Next
  <2>1. CASE job' = job
    <3>1. TodoNow' = TodoNow  BY <1>2, <1>11, <1>12, <2>1 DEF NoJob
    <3>2. P!MemFree(p - 2)
      BY <1>1, <1>4, <1>5, <1>8, <1>9, <1>11, <3>1, HeapFacts DEF P!MemFree
    <3> QED  BY <1>4, <1>5, <3>2 DEF P!Next, P!Call
  <2>2. CASE \E n \in Requests : job' = [op |-> "realloc", n |-> n, src |-> p, first |-> Word(mem, p)]
    <3>1. PICK n \in Requests : job' = [op |-> "realloc", n |-> n, src |-> p, first |-> Word(mem, p)]
      BY <2>2
    <3>2. P!Realloc(p - 2, n)
      BY <1>1, <1>4, <1>5, <1>8, <1>9, <1>11, <1>12, <3>1, HeapFacts DEF P!Realloc
    <3> QED  BY <1>4, <1>5, <3>2 DEF P!Next, P!Call
  <2> QED  BY <1>10, <2>1, <2>2
<1>14. P!Inv'  BY <1>13, Kept DEF Mapped
<1>15. Calls'
  <2>1. mem \in Memory  BY DEF Mapped
  <2>2. Word(mem, p) \in Addresses  BY <1>7, <2>1, WordIn
  <2>3. CASE job' = job  BY <1>1, <1>2, <2>3 DEF Calls, NoJob, Freeing
  <2>4. CASE job' # job
    <3>1. PICK n \in Requests : job' = [op |-> "realloc", n |-> n, src |-> p, first |-> Word(mem, p)]
      BY <1>10, <2>4
    <3> QED  BY <1>1, <1>2, <1>7, <2>2, <3>1 DEF Calls, Freeing
  <2> QED  BY <2>3, <2>4
<1>16. ASSUME NEW q \in DOMAIN data' \ {job'.src}
       PROVE  q \in DOMAIN data \ {job.src} /\ data'[q] = data[q] /\ q # p
  <2>1. job.src = Null /\ Null \notin DOMAIN data  BY <1>2 DEF Mapped, Holds, NoJob
  <2>2. CASE data' = Forget(p)  BY <2>1, <2>2 DEF Forget
  <2>3. CASE data' = data /\ job'.src = p  BY <2>1, <2>3
  <2> QED  BY <1>10, <2>2, <2>3
<1>17. ASSUME NEW q \in DOMAIN data' \ {job'.src} PROVE q - 2 # blk'
  <2>1. q \in Nat /\ q # p
    <3>1. Intact(q)  BY <1>16 DEF Mapped, Holds
    <3> QED  BY <1>16, <3>1 DEF Intact, Pointer
  <2> QED  BY <1>6, <1>8, <2>1
<1>18. /\ mem' \in Memory /\ Confined'
       /\ \A q \in DOMAIN data' \ {job'.src} : Intact(q)'
  BY <1>1, <1>16, <1>17, StillHolds
<1>19. Null \notin DOMAIN data'
  <2>1. DOMAIN data' \subseteq DOMAIN data  BY <1>10 DEF Forget
  <2> QED  BY <2>1 DEF Mapped, Holds
<1>20. Holds'  BY <1>1, <1>18, <1>19 DEF Holds
<1> QED  BY <1>13, <1>14, <1>15, <1>18, <1>20 DEF Mapped

\* The end of the list is reached, and a block __REALLOC has released is gone.
LEMMA AllocFailMapped ==
    ASSUME Sane, Mapped, AllocFail
    PROVE  Mapped' /\ P!Next
<1>1. /\ pc = "mem_loop" /\ cur = Null /\ pc' = "idle" /\ job' = NoJob /\ data' = Forget(job.src)
      /\ ret' = Null /\ mem' = mem /\ cur' = Null /\ temp' = Null /\ len' = 0 /\ blk' = Null
  BY DEF AllocFail, AfterRefusal, Idle
<1>2. SizeNow' = SizeNow /\ NextNow' = NextNow  BY <1>1, Still
<1>3. blk = Null  BY <1>1, Registers
<1>4. P!AllocFail
  <2>1. PcNow = "mem_loop" /\ PcNow' = "idle" /\ PrevNow' = Null /\ TodoNow' = 0
    BY <1>1 DEF PcNow, PrevNow, TodoNow, Freeing
  <2> QED  BY <1>1, <1>2, <2>1, HeapFacts DEF P!AllocFail, P!Exhausted, P!Dead
<1>5. P!Next /\ P!Inv'
  <2>1. P!Next  BY <1>4 DEF P!Next, P!Step
  <2> QED  BY <2>1, Kept DEF Mapped
<1>6. Calls'  BY <1>1 DEF Calls, Freeing, NoJob
<1>7. ASSUME NEW q \in DOMAIN data' \ {job'.src}
      PROVE  q \in DOMAIN data \ {job.src} /\ data'[q] = data[q] /\ q - 2 # blk'
  <2>1. q \in DOMAIN data \ {job.src} /\ data'[q] = data[q]  BY <1>1 DEF Forget
  <2>2. q - 2 # blk  BY <2>1 DEF Mapped, Holds, Intact, Pointer, Used
  <2> QED  BY <1>1, <1>3, <2>1, <2>2
<1>8. /\ mem' \in Memory /\ Confined'
      /\ \A q \in DOMAIN data' \ {job'.src} : Intact(q)'
  BY <1>1, <1>7, StillHolds
<1>9. Null \notin DOMAIN data'  BY <1>1 DEF Mapped, Holds, Forget
<1>10. Holds'  BY <1>1, <1>8, <1>9 DEF Holds
<1> QED  BY <1>5, <1>6, <1>8, <1>10 DEF Mapped

\* A walk moves on along the links.
LEMMA SkipMapped ==
    ASSUME Sane, Mapped, AllocSkip \/ FreeSkip
    PROVE  Mapped' /\ P!Next
<1>1. /\ mem' = mem /\ pc' = pc /\ len' = len /\ blk' = blk /\ job' = job /\ data' = data /\ ret' = ret
      /\ cur' = Link(cur)
      /\ pc \in {"mem_loop", "mem_loop2"}
  BY DEF AllocSkip, FreeSkip
<1>2. SizeNow' = SizeNow /\ NextNow' = NextNow /\ FreeStarts' = FreeStarts  BY <1>1, Still
<1>3. /\ Shape
      /\ \A b \in BlockStarts : SizeNow[b] = Length(b)
      /\ \A b \in FreeStarts : NextNow[b] = Link(b)
  BY ShapeIs DEF Mapped
<1>4. FreeStarts \subseteq BlockStarts /\ Null = 0 /\ HeapStart > 0 /\ HeapStart \in Nat  BY <1>3, Sizes DEF Shape
<1>5. PcNow' = PcNow /\ PcNow = pc /\ TodoNow' = TodoNow  BY <1>1 DEF PcNow, TodoNow, Freeing
<1>6. CASE AllocSkip
  <2>1. pc = "mem_loop" /\ cur # Null /\ Length(cur) < len /\ temp' = Plus(cur, 2)  BY <1>6 DEF AllocSkip
  <2>2. cur \in FreeStarts  BY <2>1, Registers
  <2>3. temp' = cur + 2 /\ cur \in Nat  BY <1>3, <1>4, <2>1, <2>2, Apart
  <2>4. temp' # Null /\ temp' - 2 = cur /\ temp' \in Nat  BY <1>4, <2>3
  <2>5. PrevNow' = cur  BY <2>4 DEF PrevNow
  <2>6. P!AllocSkip
    BY <1>1, <1>2, <1>3, <1>4, <1>5, <2>1, <2>2, <2>5, HeapFacts DEF P!AllocSkip, P!Advance
  <2>7. P!Next /\ P!Inv'
    <3>1. P!Next  BY <2>6 DEF P!Next, P!Step
    <3> QED  BY <3>1, Kept DEF Mapped
  <2>8. Calls'  BY <1>1, <1>2, <2>1, <2>2, <2>4 DEF Calls, Freeing, Mapped
  <2> QED  BY <2>7, <2>8, <1>1, <1>2, StillHolds DEF Mapped, Holds, Intact, Pointer, Used
<1>7. CASE FreeSkip
  <2>1. pc = "mem_loop2" /\ Link(cur) # Null /\ Link(cur) < blk /\ temp' = temp  BY <1>7 DEF FreeSkip
  <2>2. cur \in FreeStarts  BY <2>1, Registers DEF Freeing
  <2>3. PrevNow' = PrevNow  BY <2>1 DEF PrevNow
  <2>4. P!FreeSkip
    BY <1>1, <1>2, <1>3, <1>5, <2>1, <2>2, <2>3, HeapFacts DEF P!FreeSkip, P!NextBefore
  <2>5. P!Next /\ P!Inv'
    <3>1. P!Next  BY <2>4 DEF P!Next, P!Step
    <3> QED  BY <3>1, Kept DEF Mapped
  <2>6. Calls'  BY <1>1, <1>2, <2>1 DEF Calls, Freeing, Mapped
  <2> QED  BY <2>5, <2>6, <1>1, <1>2, StillHolds DEF Mapped, Holds, Intact, Pointer, Used
<1> QED  BY <1>6, <1>7

-----------------------------------------------------------------------------
(* Steps that write in a block in use.                                       *)

\* They change no block, and nothing stored in another one.
LEMMA PayloadWritten ==
    ASSUME Sane, Mapped, NEW p, NEW n, Pointer(p, n), mem' \in Memory,
           \A x \in Addresses : x < p \/ x >= p + n => mem'[x] = mem[x]
    PROVE  /\ BlockStarts' = BlockStarts /\ FreeStarts' = FreeStarts
           /\ SizeNow' = SizeNow /\ NextNow' = NextNow
           /\ \A b \in BlockStarts : Length(b)' = Length(b)
           /\ Confined'
           /\ \A q : Intact(q) /\ q # p /\ data'[q] = data[q] /\ blk' = blk => Intact(q)'
<1>1. Shape /\ FreeStarts \subseteq BlockStarts  BY Registers DEF Shape
<1>2. PICK c, l : c = p - 2 /\ l = Length(c)  OBVIOUS
<1>3. /\ c \in BlockStarts /\ p \in Nat /\ p = c + 2 /\ c \in Nat /\ n \in Nat /\ p + n <= c + l /\ p + n <= HeapEnd
      /\ p >= FirstBlock + 2 /\ l \in Nat
      /\ \A b \in BlockStarts : b # c => b + 4 <= c \/ c + l <= b
      /\ \A b \in BlockStarts : b # c => b + Length(b) <= c \/ c + l <= b
  <2>1. /\ p - 2 \in BlockStarts /\ p \in Nat /\ p >= FirstBlock + 2 /\ n \in Nat
        /\ p + n <= p - 2 + Length(p - 2) /\ p + n <= HeapEnd /\ Length(p - 2) \in Nat
        /\ \A b \in BlockStarts : b # p - 2 => b + 4 <= p - 2 \/ p - 2 + Length(p - 2) <= b
        /\ \A b \in BlockStarts : b # p - 2 => b + Length(b) <= p - 2 \/ p - 2 + Length(p - 2) <= b
    BY <1>1, Inside
  <2>2. c \in Nat  BY <1>1, <1>2, <2>1, Apart
  <2>3. p = c + 2  BY <1>2, <2>1, <2>2
  <2> QED  BY <1>2, <2>1, <2>2, <2>3
<1>4. /\ HeapStart \in Nat /\ HeapEnd \in Nat /\ HeapEnd < Space /\ Space \in Nat /\ FirstBlock = HeapStart + 4
      /\ Addresses = 0 .. (Space - 1)
  BY Sizes
<1>5. \A b \in BlockStarts : b \in Nat /\ b + 4 <= HeapEnd /\ Plus(b, 2) = b + 2  BY <1>1, Apart
<1>6. PICK M : M = mem'  OBVIOUS
<1>7. \A x \in Addresses : x < p \/ x >= p + n => M[x] = mem[x]  BY <1>6
<1>8. ASSUME NEW b \in BlockStarts PROVE Length(b)' = Length(b)
  <2>1. b \in Nat /\ b + 4 <= HeapEnd  BY <1>5
  <2>2. b < p \/ b >= p + n  BY <1>3, <2>1
  <2>3. b + 1 < p \/ b + 1 >= p + n  BY <1>3, <2>1
  <2>4. b \in Addresses /\ b + 1 \in Addresses /\ b + 1 < Space  BY <1>4, <2>1
  <2>5. Word(M, b) = Word(mem, b)  BY <1>7, <2>1, <2>2, <2>3, <2>4, WordSame
  <2> QED  BY <1>6, <2>5 DEF Length
<1>9. ASSUME NEW b \in FreeStarts PROVE Link(b)' = Link(b)
  <2>1. b # c /\ b \in BlockStarts  BY <1>1, <1>2 DEF Pointer, Used
  <2>2. b \in Nat /\ b + 4 <= HeapEnd /\ Plus(b, 2) = b + 2  BY <1>5, <2>1
  <2>3. b + 4 <= c \/ c + l <= b  BY <1>3, <2>1
  <2>4. b + 2 < p \/ b + 2 >= p + n  BY <1>3, <2>2, <2>3
  <2>5. b + 2 + 1 < p \/ b + 2 + 1 >= p + n  BY <1>3, <2>2, <2>3
  <2>6. b + 2 \in Addresses /\ b + 2 + 1 \in Addresses /\ b + 2 + 1 < Space /\ b + 2 \in Nat  BY <1>4, <2>2
  <2>7. Word(M, b + 2) = Word(mem, b + 2)  BY <1>7, <2>4, <2>5, <2>6, WordSame
  <2> QED  BY <1>6, <2>2, <2>7 DEF Link
<1>10. BlockStarts' = BlockStarts /\ SizeNow' = SizeNow  BY <1>1, <1>8, BlocksSame
<1>11. FreeStarts' = FreeStarts /\ NextNow' = NextNow  BY <1>1, <1>9, FreeSame
<1>12. Confined'
  <2>1. ASSUME NEW a \in Addresses \ (HeapStart .. (HeapEnd - 1)) PROVE mem'[a] = Outside(a)
    <3>1. a < p \/ a >= p + n  BY <1>3, <1>4
    <3>2. mem[a] = Outside(a)  BY DEF Mapped, Confined
    <3> QED  BY <3>1, <3>2
  <2>2. \A a : Outside(a)' = Outside(a)  BY DEF Outside
  <2> QED  BY <2>1, <2>2 DEF Confined
<1>13. ASSUME NEW q, Intact(q), q # p, data'[q] = data[q], blk' = blk PROVE Intact(q)'
  <2>1. Pointer(q, data[q].n)  BY <1>13 DEF Intact
  <2>2. PICK d, k, m : d = q - 2 /\ k = Length(d) /\ m = data[q].n  OBVIOUS
  <2>3. /\ d \in BlockStarts /\ q \in Nat /\ m \in Nat /\ q + m <= d + k /\ k \in Nat
    BY <1>1, <2>1, <2>2, Inside
  <2>4. q = d + 2 /\ d \in Nat /\ d # c  BY <1>3, <1>5, <1>13, <2>2, <2>3
  <2>5. d + k <= c \/ c + l <= d  BY <1>3, <2>2, <2>3, <2>4
  <2>6. \A x \in Addresses : q <= x /\ x < q + m => mem'[x] = mem[x]
    <3>1. \A x \in Addresses : q <= x /\ x < q + m => x < p \/ x >= p + n
      <4>1. \A x \in Nat : q <= x /\ x < q + m => x < p \/ x >= p + n  BY <1>3, <2>3, <2>4, <2>5
      <4> QED  BY <4>1, <1>4
    <3> QED  BY <3>1
  <2>7. q - 2 \in Used'  BY <1>10, <1>11, <1>13, <2>1 DEF Pointer, Used
  <2>8. Length(q - 2)' = Length(q - 2)  BY <1>8, <2>2, <2>3
  <2> QED  BY <1>1, <1>13, <2>2, <2>6, <2>7, <2>8, IntactKept
<1> QED  BY <1>8, <1>10, <1>11, <1>12, <1>13

\* The block-level manager does nothing.
LEMMA Stutters ==
    ASSUME Sane, Mapped, SizeNow' = SizeNow, NextNow' = NextNow, PcNow' = PcNow, TodoNow' = TodoNow,
           UNCHANGED <<cur, temp, len, blk, ret>>
    PROVE  P!Inv' /\ UNCHANGED P!vars
<1>1. PrevNow' = PrevNow  BY DEF PrevNow
<1>2. UNCHANGED P!vars  BY <1>1 DEF P!vars
<1> QED  BY <1>2, Kept DEF Mapped

\* The program writes in a block it holds.
LEMMA WriteMapped ==
    ASSUME Sane, Mapped, NEW p \in DOMAIN data, NEW mark \in Marks, Write(p, mark)
    PROVE  Mapped' /\ UNCHANGED P!vars
<1>1. /\ pc = "idle" /\ pc' = pc /\ job' = job /\ blk' = blk /\ job = NoJob
      /\ UNCHANGED <<cur, temp, len, blk, ret>>
  BY DEF Write, Mapped, Calls
<1>2. Intact(p)
  <2>1. p # Null  BY DEF Mapped, Holds
  <2> QED  BY <1>1, <2>1 DEF Mapped, Holds, NoJob
<1>3. PICK n : n = data[p].n  OBVIOUS
<1>4. PICK bytes : bytes = [i \in 1 .. n |-> (mark + i) % Base]  OBVIOUS
<1>5. /\ mem' = [a \in Addresses |-> IF p <= a /\ a < p + n THEN bytes[a - p + 1] ELSE mem[a]]
      /\ data' = [data EXCEPT ![p].bytes = bytes]
  BY <1>3, <1>4 DEF Write
<1>6. Pointer(p, n)  BY <1>2, <1>3 DEF Intact
<1>7. /\ p \in Nat /\ n \in Nat /\ p + n <= HeapEnd /\ p - 2 \in BlockStarts /\ p >= FirstBlock + 2
      /\ HeapEnd \in Nat /\ HeapEnd < Space /\ Space \in Nat /\ Addresses = 0 .. (Space - 1)
      /\ Base \in Nat /\ Base >= 2
  <2>1. Shape  BY Registers
  <2> QED  BY <1>6, <2>1, Inside, Sizes
<1>8. \A i \in 1 .. n : bytes[i] \in Byte
  <2>1. mark \in Nat  BY HeapMemAssumption, <1>7 DEF HeapMemAssumption
  <2>2. \A b, x \in Nat : b >= 2 => x % b \in 0 .. b - 1  OBVIOUS
  <2>3. \A i \in 1 .. n : mark + i \in Nat  BY <1>7, <2>1
  <2> QED  BY <1>4, <1>7, <2>2, <2>3 DEF Byte
<1>9. mem' \in Memory
  <2>1. \A a \in Addresses : p <= a /\ a < p + n => a - p + 1 \in 1 .. n  BY <1>7
  <2>2. \A a \in Addresses : mem[a] \in Byte  BY DEF Mapped, Memory
  <2> QED  BY <1>5, <1>8, <2>1, <2>2 DEF Memory
<1>10. \A x \in Addresses : x < p \/ x >= p + n => mem'[x] = mem[x]
  <2>1. \A x \in Addresses : x < p \/ x >= p + n => ~ (p <= x /\ x < p + n)  BY <1>7
  <2> QED  BY <1>5, <2>1
<1>11. /\ BlockStarts' = BlockStarts /\ FreeStarts' = FreeStarts
       /\ SizeNow' = SizeNow /\ NextNow' = NextNow
       /\ \A b \in BlockStarts : Length(b)' = Length(b)
       /\ Confined'
       /\ \A q : Intact(q) /\ q # p /\ data'[q] = data[q] /\ blk' = blk => Intact(q)'
  BY <1>6, <1>9, <1>10, PayloadWritten
<1>12. PcNow' = PcNow /\ TodoNow' = TodoNow  BY <1>1 DEF PcNow, TodoNow, Freeing
<1>13. P!Inv' /\ UNCHANGED P!vars  BY <1>1, <1>11, <1>12, Stutters
<1>14. Calls'  BY <1>1, <1>11 DEF Mapped, Calls, Freeing
<1>15. /\ DOMAIN data' = DOMAIN data /\ \A q \in DOMAIN data : q # p => data'[q] = data[q]
       /\ data'[p] = [data[p] EXCEPT !.bytes = bytes]
  BY <1>5
<1>16. data'[p] = [n |-> n, bytes |-> bytes]
  <2>1. data[p] = [n |-> data[p].n, bytes |-> data[p].bytes]  BY <1>2 DEF Intact
  <2> QED  BY <1>3, <1>15, <2>1
<1>17. Intact(p)'
  <2>1. Len(bytes) = n
    <3>1. bytes \in Seq(Byte)
      <4>1. bytes \in [1 .. n -> Byte]  BY <1>4, <1>8
      <4> QED  BY <1>7, <4>1
    <3>2. DOMAIN bytes = 1 .. n  BY <1>4
    <3> QED  BY <1>7, <3>1, <3>2
  <2>2. Pointer(p, n)'  BY <1>1, <1>6, <1>11 DEF Pointer, Used
  <2>3. ASSUME NEW i \in 1 .. n PROVE mem'[p + i - 1] = bytes[i]
    <3>1. p + i - 1 \in Addresses /\ p <= p + i - 1 /\ p + i - 1 < p + n /\ (p + i - 1) - p + 1 = i  BY <1>7
    <3> QED  BY <1>5, <3>1
  <2>4. data'[p].n = n /\ data'[p].bytes = bytes  BY <1>16
  <2> QED  BY <1>7, <1>16, <2>1, <2>2, <2>3, <2>4 DEF Intact
<1>18. Holds'
  <2>1. \A q \in DOMAIN data' \ {job'.src} : Intact(q)'
    <3>1. ASSUME NEW q \in DOMAIN data' \ {job'.src}, q # p PROVE Intact(q)'
      <4>1. q \in DOMAIN data \ {job.src} /\ data'[q] = data[q]  BY <1>1, <1>15, <3>1
      <4>2. Intact(q)  BY <4>1 DEF Mapped, Holds
      <4> QED  BY <1>1, <1>11, <3>1, <4>1, <4>2
    <3> QED  BY <1>17, <3>1
  <2> QED  BY <1>1, <1>15, <2>1 DEF Mapped, Holds
<1> QED  BY <1>9, <1>11, <1>13, <1>14, <1>18 DEF Mapped

\* A routine that has allocated n bytes at ret fills them with the bytes given and
\* returns: the program has them there, and all it had but for a block given away.
LEMMA Filled ==
    ASSUME Sane, Mapped, pc = "copy", pc' = "idle", job' = NoJob, UNCHANGED <<cur, temp, len, blk, ret>>,
           mem' \in Memory, NEW n, n = job.n,
           \A x \in Addresses : x < ret \/ x >= ret + n => mem'[x] = mem[x],
           NEW bytes, Len(bytes) \in Nat, Len(bytes) <= n,
           \A i \in 1 .. Len(bytes) : mem'[ret + i - 1] = bytes[i],
           NEW d, DOMAIN d \subseteq DOMAIN data \ {job.src}, \A q \in DOMAIN d : d[q] = data[q],
           data' = Remember(d, ret, [n |-> n, bytes |-> bytes])
    PROVE  Mapped' /\ UNCHANGED P!vars
<1>1. Pointer(ret, n) /\ n \in Requests  BY DEF Mapped, Holds, Calls
<1>2. /\ BlockStarts' = BlockStarts /\ FreeStarts' = FreeStarts
      /\ SizeNow' = SizeNow /\ NextNow' = NextNow
      /\ \A b \in BlockStarts : Length(b)' = Length(b)
      /\ Confined'
      /\ \A q : Intact(q) /\ q # ret /\ data'[q] = data[q] /\ blk' = blk => Intact(q)'
  BY <1>1, PayloadWritten
<1>3. PcNow' = PcNow /\ TodoNow' = TodoNow  BY DEF PcNow, TodoNow, Freeing
<1>4. P!Inv' /\ UNCHANGED P!vars  BY <1>2, <1>3, Stutters
<1>5. temp = Null  BY Registers
<1>6. Calls'  BY <1>5 DEF Calls, Freeing, NoJob
<1>7. /\ DOMAIN data' = DOMAIN d \union {ret} /\ data'[ret] = [n |-> n, bytes |-> bytes]
      /\ \A q \in DOMAIN d : q # ret => data'[q] = data[q]
  BY DEF Remember
<1>8. Intact(ret)'
  <2>1. Pointer(ret, n)'
    <3>1. ret' = ret /\ n = n  OBVIOUS
    <3> QED  BY <1>1, <1>2, <3>1 DEF Pointer, Used
  <2>2. data'[ret].n = n /\ data'[ret].bytes = bytes  BY <1>7
  <2> QED  BY <1>7, <2>1, <2>2 DEF Intact
<1>9. ret \in Nat /\ ret # Null
  <2>1. ret \in Nat /\ ret >= FirstBlock + 2  BY <1>1, Registers, Inside
  <2> QED  BY <2>1, Sizes
<1>10. ASSUME NEW q \in DOMAIN data', q # ret PROVE Intact(q)'
  <2>1. q \in DOMAIN data \ {job.src} /\ data'[q] = data[q]  BY <1>7, <1>10
  <2>2. Intact(q)  BY <2>1 DEF Mapped, Holds
  <2> QED  BY <1>2, <1>10, <2>1, <2>2
<1>11. Holds'
  <2>1. \A q \in DOMAIN data' \ {job'.src} : Intact(q)'  BY <1>8, <1>10
  <2>2. Null \notin DOMAIN data'  BY <1>7, <1>9 DEF Mapped, Holds
  <2> QED  BY <2>1, <2>2 DEF Holds
<1> QED  BY <1>2, <1>4, <1>6, <1>11 DEF Mapped

\* Where a routine that has allocated n bytes writes.
LEMMA Room ==
    ASSUME Sane, Mapped, pc = "copy"
    PROVE  /\ ret \in Nat /\ ret >= RomTop /\ ret \in Addresses
           /\ job.n \in Nat /\ job.n >= 2 /\ job.n \in Addresses /\ ret + job.n <= HeapEnd
           /\ HeapEnd \in Nat /\ HeapEnd < Space /\ Space \in Nat /\ Addresses = 0 .. (Space - 1)
<1>1. Pointer(ret, job.n) /\ job.n \in Requests  BY DEF Mapped, Holds, Calls
<1>2. ret \in Nat /\ ret >= FirstBlock + 2 /\ ret + job.n <= HeapEnd  BY <1>1, Registers, Inside
<1>3. job.n \in Nat /\ job.n >= 2 /\ job.n \in Addresses  BY <1>1, AskedIs
<1>4. PICK n : n = job.n  OBVIOUS
<1>5. /\ HeapEnd \in Nat /\ HeapEnd < Space /\ Space \in Nat /\ Addresses = 0 .. (Space - 1)
      /\ FirstBlock = HeapStart + 4 /\ HeapStart \in Nat /\ RomTop \in Nat /\ RomTop <= HeapStart
  BY Sizes
<1>6. ret >= RomTop /\ ret \in Addresses
  <2>1. ret + n <= HeapEnd /\ n \in Nat  BY <1>2, <1>3, <1>4
  <2> QED  BY <1>2, <1>5, <2>1
<1> QED  BY <1>2, <1>3, <1>5, <1>6

\* __MEM_CALLOC fills the block with zeros.
LEMMA CallocFillMapped ==
    ASSUME Sane, Mapped, CallocFill
    PROVE  Mapped' /\ UNCHANGED P!vars
<1>1. pc = "copy" /\ job.op = "calloc"  BY DEF CallocFill
<1>2. PICK n : n = job.n  OBVIOUS
<1>3. /\ ret \in Nat /\ ret >= RomTop /\ ret \in Addresses
      /\ n \in Nat /\ n >= 2 /\ n \in Addresses /\ ret + n <= HeapEnd
      /\ HeapEnd \in Nat /\ HeapEnd < Space /\ Space \in Nat /\ Addresses = 0 .. (Space - 1)
  BY <1>1, <1>2, Room
<1>4. PICK first : first = Store(mem, ret, 0)  OBVIOUS
<1>5. mem \in Memory /\ 0 \in Byte
  <2>1. Base \in Nat /\ Base >= 2  BY Sizes
  <2> QED  BY <2>1 DEF Mapped, Byte
<1>6. first \in Memory /\ first[ret] = 0 /\ \A x \in Addresses : x # ret => first[x] = mem[x]
  BY <1>3, <1>4, <1>5, StoreIs
<1>7. FillCount(n) = n - 1
  <2>1. 1 \in Nat /\ 1 <= n  BY <1>3
  <2> QED  BY <1>3, <2>1, MinusIs DEF FillCount
<1>8. Plus(ret, 1) = ret + 1
  <2>1. ret + 1 < Space  BY <1>3
  <2> QED  BY <1>3, <2>1, PlusIs
<1>9. mem' = Ldir(first, ret, ret + 1, n - 1)
  <2>1. n # 1  BY <1>3
  <2> QED  BY <1>2, <1>4, <1>7, <1>8, <2>1 DEF CallocFill
<1>10. /\ mem' \in Memory
       /\ \A x \in Addresses : x < ret + 1 \/ x >= ret + 1 + (n - 1) => mem'[x] = first[x]
       /\ \A x \in ret + 1 .. ret + 1 + (n - 1) - 1 : mem'[x] = first[ret]
  <2>1. /\ ret + 1 \in Nat /\ ret + 1 >= RomTop /\ n - 1 \in Nat /\ n - 1 > 0
        /\ ret + 1 + (n - 1) <= Space
    <3>1. RomTop \in Nat  BY Sizes
    <3> QED  BY <1>3, <3>1
  <2>2. PICK e, k : e = ret + 1 /\ k = n - 1  OBVIOUS
  <2>3. e \in Nat /\ e >= RomTop /\ k \in Nat /\ k > 0 /\ e + k <= Space /\ ret + 1 = e  BY <2>1, <2>2
  <2>4. mem' = Ldir(first, ret, e, k)  BY <1>9, <2>2
  <2>5. /\ mem' \in Memory
        /\ \A x \in Addresses : x < e \/ x >= e + k => mem'[x] = first[x]
        /\ \A x \in e .. e + k - 1 : mem'[x] = first[ret]
    BY <1>3, <1>6, <2>3, <2>4, LdirIs
  <2> QED  BY <2>2, <2>5
<1>11. \A x \in Addresses : x < ret \/ x >= ret + n => mem'[x] = mem[x]
  <2>1. \A x \in Addresses : x < ret \/ x >= ret + n => x # ret /\ (x < ret + 1 \/ x >= ret + 1 + (n - 1))
    BY <1>3
  <2> QED  BY <1>6, <1>10, <2>1
<1>12. PICK bytes : bytes = [i \in 1 .. n |-> 0]  OBVIOUS
<1>13. Len(bytes) = n
  <2>1. bytes \in Seq(Nat)
    <3>1. bytes \in [1 .. n -> Nat]  BY <1>12
    <3> QED  BY <1>3, <3>1
  <2> QED  BY <1>3, <1>12, <2>1
<1>14. \A i \in 1 .. n : mem'[ret + i - 1] = bytes[i]
  <2>1. ASSUME NEW i \in 1 .. n PROVE mem'[ret + i - 1] = 0
    <3>1. CASE i = 1
      <4>1. ret + i - 1 = ret /\ ret < ret + 1  BY <1>3, <3>1
      <4>2. mem'[ret] = first[ret]  BY <1>3, <1>10, <4>1
      <4> QED  BY <1>6, <4>1, <4>2
    <3>2. CASE i # 1
      <4>1. ret + i - 1 \in ret + 1 .. ret + 1 + (n - 1) - 1  BY <1>3, <3>2
      <4> QED  BY <1>6, <1>10, <4>1
    <3> QED  BY <3>1, <3>2
  <2> QED  BY <1>12, <2>1
<1>15. DOMAIN data \subseteq DOMAIN data \ {job.src}
  <2>1. job.src = Null  BY <1>1 DEF Mapped, Calls
  <2> QED  BY <2>1 DEF Mapped, Holds
<1>16. /\ pc' = "idle" /\ job' = NoJob /\ UNCHANGED <<cur, temp, len, blk, ret>>
       /\ data' = Remember(data, ret, [n |-> n, bytes |-> bytes])
  BY <1>2, <1>12 DEF CallocFill
<1>17. Len(bytes) \in Nat /\ Len(bytes) <= n /\ \A i \in 1 .. Len(bytes) : mem'[ret + i - 1] = bytes[i]
  BY <1>3, <1>13, <1>14
<1> QED  BY <1>1, <1>2, <1>10, <1>11, <1>15, <1>16, <1>17, Filled

\* __REALLOC copies what the block it has released held.
LEMMA ReallocCopyMapped ==
    ASSUME Sane, Mapped, ReallocCopy
    PROVE  Mapped' /\ UNCHANGED P!vars
<1>1. pc = "copy" /\ job.op = "realloc"  BY DEF ReallocCopy
<1>2. PICK n : n = job.n  OBVIOUS
<1>3. /\ ret \in Nat /\ ret >= RomTop /\ ret \in Addresses
      /\ n \in Nat /\ n >= 2 /\ n \in Addresses /\ ret + n <= HeapEnd
      /\ HeapEnd \in Nat /\ HeapEnd < Space /\ Space \in Nat /\ Addresses = 0 .. (Space - 1)
  BY <1>1, <1>2, Room
<1>4. PICK first, from : first = StoreWord(mem, ret, job.first) /\ from = Plus(job.src, 2)  OBVIOUS
<1>5. mem \in Memory /\ job.first \in Addresses /\ job.src \in Addresses  BY <1>1 DEF Mapped, Calls
<1>6. /\ first \in Memory
      /\ \A x \in Addresses : x # ret /\ x # ret + 1 => first[x] = mem[x]
  <2>1. ret + 1 < Space  BY <1>3
  <2> QED  BY <1>3, <1>4, <1>5, <2>1, StoreWordIs
<1>7. CopyCount(n) = n - 2  BY <1>3, MinusIs DEF CopyCount
<1>8. Plus(ret, 2) = ret + 2
  <2>1. ret + 2 < Space  BY <1>3
  <2> QED  BY <1>3, <2>1, PlusIs
<1>9. mem' = IF n - 2 = 0 THEN first ELSE Ldir(first, from, ret + 2, n - 2)
  BY <1>2, <1>4, <1>7, <1>8 DEF ReallocCopy
<1>10. from \in Addresses
  <2>1. \A s, x \in Nat : s >= 4 => x % s \in 0 .. s - 1  OBVIOUS
  <2>2. PICK s : s = job.src + 2  OBVIOUS
  <2>3. s \in Nat /\ Space >= 4  BY <1>5, <2>2, Sizes
  <2>4. from = s % Space  BY <1>4, <2>2 DEF Plus
  <2>5. from \in 0 .. Space - 1  BY <1>3, <2>1, <2>3, <2>4
  <2> QED  BY <1>3, <2>5
<1>11. mem' \in Memory /\ \A x \in Addresses : x < ret \/ x >= ret + n => mem'[x] = mem[x]
  <2>1. \A x \in Addresses : x < ret \/ x >= ret + n => x # ret /\ x # ret + 1  BY <1>3
  <2>2. CASE n - 2 = 0  BY <1>6, <1>9, <2>1, <2>2
  <2>3. CASE n - 2 # 0
    <3>1. PICK e, k : e = ret + 2 /\ k = n - 2  OBVIOUS
    <3>2. e \in Nat /\ e >= RomTop /\ k \in Nat /\ k > 0 /\ e + k <= Space
      <4>1. RomTop \in Nat  BY Sizes
      <4> QED  BY <1>3, <2>3, <3>1, <4>1
    <3>3. mem' = Ldir(first, from, e, k)  BY <1>9, <2>3, <3>1
    <3>4. /\ mem' \in Memory
          /\ \A x \in Addresses : x < e \/ x >= e + k => mem'[x] = first[x]
      BY <1>6, <1>10, <3>2, <3>3, LdirIs
    <3>5. \A x \in Addresses : x < ret \/ x >= ret + n => x < e \/ x >= e + k  BY <1>3, <3>1
    <3> QED  BY <1>6, <2>1, <3>4, <3>5
  <2> QED  BY <2>2, <2>3
<1>12. /\ pc' = "idle" /\ job' = NoJob /\ UNCHANGED <<cur, temp, len, blk, ret>>
       /\ data' = Remember(Forget(job.src), ret, [n |-> n, bytes |-> <<>>])
  BY <1>2 DEF ReallocCopy
<1>13. PICK d : d = Forget(job.src)  OBVIOUS
<1>14. DOMAIN d \subseteq DOMAIN data \ {job.src} /\ \A q \in DOMAIN d : d[q] = data[q]  BY <1>13 DEF Forget
<1>15. PICK bytes : bytes = <<>>  OBVIOUS
<1>16. Len(bytes) = 0  BY <1>15
<1>17. Len(bytes) \in Nat /\ Len(bytes) <= n /\ \A i \in 1 .. Len(bytes) : mem'[ret + i - 1] = bytes[i]
  BY <1>3, <1>16
<1>18. data' = Remember(d, ret, [n |-> n, bytes |-> bytes])  BY <1>12, <1>13, <1>15
<1> QED  BY <1>1, <1>2, <1>11, <1>12, <1>14, <1>17, <1>18, Filled

-----------------------------------------------------------------------------
(* Steps that write in headers.                                              *)

\* They write in no block in use, so that what is stored there stays.
LEMMA HeadersWritten ==
    ASSUME Sane, Mapped, mem' \in Memory,
           \A x \in Addresses : mem'[x] # mem[x] =>
              \E c \in BlockStarts \ Used : c <= x /\ (x < c + 4 \/ x < c + Length(c)),
           Used \subseteq Used', \A b \in Used : Length(b)' = Length(b)
    PROVE  /\ Confined'
           /\ \A p : Intact(p) /\ data'[p] = data[p] => Intact(p)'
<1>1. Shape  BY Registers
<1>2. /\ HeapStart \in Nat /\ HeapEnd \in Nat /\ HeapEnd < Space /\ Space \in Nat /\ FirstBlock = HeapStart + 4
      /\ FirstBlock + 4 <= HeapEnd /\ Addresses = 0 .. (Space - 1)
  BY Sizes
<1>3. ASSUME NEW c \in BlockStarts
      PROVE  c \in Nat /\ c >= HeapStart /\ c + 4 <= HeapEnd /\ Length(c) \in Nat /\ c + Length(c) <= HeapEnd
  <2>1. c \in Nat /\ c >= HeapStart /\ c + 4 <= HeapEnd  BY <1>1, Apart
  <2>2. CASE c = HeapStart
    <3>1. Length(c) = 0  BY <1>1, <2>2 DEF Shape
    <3> QED  BY <1>2, <2>1, <3>1
  <2>3. CASE c # HeapStart  BY <1>1, <2>1, <2>3 DEF Shape
  <2> QED  BY <2>2, <2>3
<1>4. Confined'
  <2>1. ASSUME NEW a \in Addresses \ (HeapStart .. (HeapEnd - 1)) PROVE mem'[a] = Outside(a)
    <3>1. ASSUME mem'[a] # mem[a] PROVE FALSE
      <4>1. PICK c \in BlockStarts : c <= a /\ (a < c + 4 \/ a < c + Length(c))  BY <3>1
      <4>2. PICK k : k = Length(c)  OBVIOUS
      <4>3. c \in Nat /\ c >= HeapStart /\ c + 4 <= HeapEnd /\ k \in Nat /\ c + k <= HeapEnd  BY <1>3, <4>2
      <4>4. a >= HeapStart /\ a < HeapEnd  BY <1>2, <4>1, <4>2, <4>3
      <4> QED  BY <1>2, <4>4
    <3>2. mem[a] = Outside(a)  BY DEF Mapped, Confined
    <3> QED  BY <3>1, <3>2
  <2>2. \A a : Outside(a)' = Outside(a)  BY DEF Outside
  <2> QED  BY <2>1, <2>2 DEF Confined
<1>5. ASSUME NEW p, Intact(p), data'[p] = data[p] PROVE Intact(p)'
  <2>1. Pointer(p, data[p].n)  BY <1>5 DEF Intact
  <2>2. PICK b, k, n : b = p - 2 /\ k = Length(b) /\ n = data[p].n  OBVIOUS
  <2>3. /\ b \in BlockStarts /\ p \in Nat /\ n \in Nat /\ p + n <= b + k /\ k \in Nat
        /\ \A c \in BlockStarts : c # b => c + 4 <= b \/ b + k <= c
        /\ \A c \in BlockStarts : c # b => c + Length(c) <= b \/ b + k <= c
    BY <1>1, <2>1, <2>2, Inside
  <2>4. b \in Nat /\ p = b + 2 /\ b \in Used
    <3>1. b \in Nat  BY <1>3, <2>3
    <3> QED  BY <2>1, <2>2, <2>3, <3>1 DEF Pointer
  <2>5. ASSUME NEW x \in Addresses, p <= x, x < p + n, mem'[x] # mem[x] PROVE FALSE
    <3>1. PICK c \in BlockStarts \ Used : c <= x /\ (x < c + 4 \/ x < c + Length(c))  BY <2>5
    <3>2. PICK l : l = Length(c)  OBVIOUS
    <3>3. c # b /\ (c + 4 <= b \/ b + k <= c) /\ (c + l <= b \/ b + k <= c)
          /\ (x < c + 4 \/ x < c + l) /\ c \in Nat /\ l \in Nat
      BY <1>3, <2>3, <2>4, <3>1, <3>2
    <3>4. x \in Nat  BY <1>2
    <3> QED  BY <2>3, <2>4, <2>5, <3>1, <3>3, <3>4
  <2>6. p - 2 \in Used' /\ Length(p - 2)' = Length(p - 2)  BY <2>2, <2>4
  <2> QED  BY <1>1, <1>5, <2>2, <2>5, <2>6, IntactKept
<1> QED  BY <1>4, <1>5

\* The words of a header.
LEMMA WordsAre ==
    ASSUME Sane, Shape, NEW b \in BlockStarts
    PROVE  /\ Length(b) = Word(mem, b) /\ Length(b)' = Word(mem', b)
           /\ Link(b) = Word(mem, b + 2) /\ Link(b)' = Word(mem', b + 2)
           /\ b \in Nat /\ b >= HeapStart /\ b + 4 <= HeapEnd /\ b + 2 < Space
<1>1. Plus(b, 2) = b + 2 /\ b \in Nat /\ b >= HeapStart /\ b + 4 <= HeapEnd  BY Apart
<1>2. b + 2 < Space  BY <1>1, Sizes
<1> QED  BY <1>1, <1>2 DEF Length, Link

\* Storing in one header leaves the others.
LEMMA OthersAre ==
    ASSUME Sane, Shape, NEW b \in BlockStarts, NEW c \in BlockStarts, b # c,
           NEW m, NEW n, OthersSame(b, m, n)
    PROVE  Word(n, c) = Word(m, c) /\ Word(n, c + 2) = Word(m, c + 2)
<1>1. b \in Nat /\ c \in Nat /\ c >= HeapStart /\ c + 4 <= HeapEnd  BY Apart
<1>2. b + 4 <= c \/ c + 4 <= b  BY <1>1, Apart
<1> QED  BY <1>1, <1>2 DEF OthersSame

\* The routine returns p, with room for what is asked for.
LEMMA ReturnedMapped ==
    ASSUME Sane, Mapped, pc = "mem_loop", NEW p \in Nat, p # Null, Returned(p), P!Next,
           mem' \in Memory, Confined', \A q : Intact(q) /\ data'[q] = data[q] => Intact(q)',
           NEW n, n = job.n, Pointer(p, n)'
    PROVE  Mapped'
<1>1. /\ ret' = p /\ cur' = Null /\ temp' = Null /\ len' = 0 /\ blk' = Null
      /\ \/ /\ job.op = "alloc" /\ pc' = "idle" /\ job' = NoJob
            /\ data' = Remember(data, p, [n |-> n, bytes |-> <<>>])
         \/ /\ job.op # "alloc" /\ pc' = "copy" /\ job' = job /\ data' = data
  BY DEF Returned, Idle
<1>2. P!Inv'  BY Kept DEF Mapped
<1>3. Calls /\ Holds  BY DEF Mapped
<1>4. n \in Nat
  <2>1. job.n \in Requests  BY <1>3 DEF Calls
  <2> QED  BY <2>1, AskedIs
<1>5. CASE job.op = "alloc"
  <2>1. /\ pc' = "idle" /\ job' = NoJob /\ data' = Remember(data, p, [n |-> n, bytes |-> <<>>])
    BY <1>1, <1>5
  <2>2. job.src = Null  BY <1>3, <1>5 DEF Calls
  <2>3. Calls'  BY <1>1, <2>1 DEF Calls, Freeing, NoJob
  <2>4. /\ DOMAIN data' = DOMAIN data \union {p} /\ data'[p] = [n |-> n, bytes |-> <<>>]
        /\ \A q \in DOMAIN data : q # p => data'[q] = data[q]
    BY <2>1 DEF Remember
  <2>5. Intact(p)'
    <3>1. data'[p].n = n /\ data'[p].bytes = <<>> /\ Len(data'[p].bytes) = 0  BY <2>4
    <3> QED  BY <1>4, <2>4, <3>1 DEF Intact
  <2>6. ASSUME NEW q \in DOMAIN data', q # p PROVE Intact(q)'
    <3>1. q \in DOMAIN data \ {job.src}  BY <1>3, <2>2, <2>4, <2>6 DEF Holds
    <3>2. Intact(q)  BY <1>3, <3>1 DEF Holds
    <3> QED  BY <2>4, <2>6, <3>1, <3>2
  <2>7. Null \notin DOMAIN data'  BY <1>3, <2>4 DEF Holds
  <2>8. Holds'  BY <2>1, <2>5, <2>6, <2>7 DEF Holds
  <2> QED  BY <1>2, <2>3, <2>8 DEF Mapped
<1>6. CASE job.op # "alloc"
  <2>1. pc' = "copy" /\ job' = job /\ data' = data  BY <1>1, <1>6
  <2>2. Calls'
    <3>1. job.op \in {"calloc", "realloc"}  BY <1>3, <1>6 DEF Calls
    <3> QED  BY <1>1, <1>3, <2>1, <3>1 DEF Calls, Freeing
  <2>3. Pointer(ret, job.n)'  BY <1>1, <2>1
  <2>4. Holds'  BY <1>3, <2>1, <2>3 DEF Holds
  <2> QED  BY <1>2, <2>2, <2>4 DEF Mapped
<1> QED  BY <1>5, <1>6

\* __MEM_DONE takes the block off the list.
LEMMA AllocWholeMapped ==
    ASSUME Sane, Mapped, AllocWhole
    PROVE  Mapped' /\ P!Next
<1>1. /\ pc = "mem_loop" /\ cur # Null /\ Length(cur) >= len /\ Length(cur) - len < 4
      /\ mem' = StoreWord(mem, temp, Link(cur)) /\ Returned(Plus(cur, 2))
  BY DEF AllocWhole
<1>2. /\ Shape /\ cur \in FreeStarts /\ len \in Nat /\ len >= 4 /\ blk = Null
      /\ IF temp = Null THEN cur = HeapStart ELSE temp - 2 \in FreeStarts /\ Link(temp - 2) = cur
  BY <1>1, Registers
<1>3. /\ FreeStarts \subseteq BlockStarts /\ Length(HeapStart) = 0 /\ Calls /\ mem \in Memory
      /\ Null = 0 /\ HeapStart \in Nat /\ HeapStart > 0
  BY <1>2, Sizes DEF Shape, Mapped
<1>4. cur # HeapStart  BY <1>1, <1>2, <1>3
<1>5. PICK b : b = temp - 2  OBVIOUS
<1>6. b \in FreeStarts /\ Link(b) = cur /\ temp \in Nat  BY <1>2, <1>3, <1>4, <1>5 DEF Calls
<1>7. b \in BlockStarts /\ cur \in BlockStarts  BY <1>2, <1>3, <1>6
<1>8. b \in Nat /\ temp = b + 2  BY <1>2, <1>5, <1>6, <1>7, WordsAre
<1>9. cur \in Nat /\ Plus(cur, 2) = cur + 2 /\ b # cur
  <2>1. cur \in Nat /\ Plus(cur, 2) = cur + 2  BY <1>2, <1>7, Apart
  <2>2. Link(b) > b  BY <1>1, <1>2, <1>6 DEF Shape
  <2> QED  BY <1>6, <1>8, <2>1, <2>2
<1>10. PICK w, M : w = Link(cur) /\ M = mem'  OBVIOUS
<1>11. w \in Addresses
  <2>1. cur + 2 < Space /\ w = Word(mem, cur + 2)  BY <1>2, <1>7, <1>10, WordsAre
  <2>2. cur + 2 \in Addresses
    <3>1. cur + 2 \in Nat  BY <1>9
    <3> QED  BY <2>1, <3>1, Sizes
  <2> QED  BY <1>3, <2>1, <2>2, WordIn
<1>12. M \in Memory /\ Word(M, b) = Word(mem, b) /\ Word(M, b + 2) = w /\ OthersSame(b, mem, M)
  <2>1. M = StoreWord(mem, b + 2, w)  BY <1>1, <1>8, <1>10
  <2>2. b >= HeapStart /\ b + 4 <= HeapEnd  BY <1>2, <1>7, WordsAre
  <2> QED  BY <1>3, <1>8, <1>11, <2>1, <2>2, LinkStored
<1>13. /\ \A c \in BlockStarts : Length(c)' = Length(c)
       /\ Link(b)' = w
       /\ \A c \in BlockStarts : c # b => Link(c)' = Link(c)
  <2>1. ASSUME NEW c \in BlockStarts PROVE Length(c)' = Length(c) /\ (c # b => Link(c)' = Link(c))
    <3>1. /\ Length(c) = Word(mem, c) /\ Length(c)' = Word(M, c)
          /\ Link(c) = Word(mem, c + 2) /\ Link(c)' = Word(M, c + 2)
      BY <1>2, <1>10, WordsAre
    <3>2. c # b => Word(M, c) = Word(mem, c) /\ Word(M, c + 2) = Word(mem, c + 2)
      BY <1>2, <1>7, <1>12, OthersAre
    <3> QED  BY <1>12, <3>1, <3>2
  <2>2. Link(b)' = Word(M, b + 2)  BY <1>2, <1>7, <1>10, WordsAre
  <2> QED  BY <1>12, <2>1, <2>2
<1>14. BlockStarts' = BlockStarts /\ SizeNow' = SizeNow  BY <1>2, <1>13, BlocksSame
<1>15. /\ FreeStarts' = FreeStarts \ {cur}
       /\ NextNow' = [c \in FreeStarts \ {cur} |-> IF c = b THEN Link(cur) ELSE Link(c)]
  <2>1. \A c \in FreeStarts : c # b /\ c # cur => Link(c)' = Link(c)  BY <1>3, <1>13
  <2>2. Link(b)' = Link(cur)  BY <1>10, <1>13
  <2> QED  BY <1>2, <1>6, <2>1, <2>2, FreeLess
<1>16. P!Next
  <2>1. /\ ret' = cur + 2 /\ cur' = Null /\ temp' = Null /\ len' = 0 /\ blk' = Null
        /\ pc' \in {"idle", "copy"}
    BY <1>1, <1>9 DEF Returned, Idle
  <2>2. PcNow = "mem_loop" /\ PcNow' = "idle" /\ PrevNow = b /\ PrevNow' = Null /\ TodoNow' = 0
    BY <1>1, <1>2, <1>4, <1>5, <2>1 DEF PcNow, PrevNow, TodoNow, Freeing
  <2>3. SizeNow[cur] = Length(cur) /\ P!Free = FreeStarts /\ \A c \in FreeStarts : NextNow[c] = Link(c)
    BY <1>7, ShapeIs DEF Mapped
  <2>4. P!Unlink(cur, b) = [c \in FreeStarts \ {cur} |-> IF c = b THEN Link(cur) ELSE Link(c)]
    BY <1>2, <2>3 DEF P!Unlink
  <2>5. ~ P!Splittable(SizeNow[cur] - len)
    <3>1. PICK k : k = Length(cur)  OBVIOUS
    <3>2. k \in Nat /\ k - len < 4  BY <1>1, <1>2, <1>4, <1>7, <3>1 DEF Shape
    <3>3. ~ (k - len >= 4)  BY <1>2, <3>2
    <3> QED  BY <2>3, <3>1, <3>3 DEF P!Splittable
  <2>6. P!AllocWhole
    BY <1>1, <1>14, <1>15, <2>1, <2>2, <2>3, <2>4, <2>5, HeapFacts DEF P!AllocWhole, P!Dead
  <2> QED  BY <2>6 DEF P!Next, P!Step
<1>17. blk' = Null  BY <1>1 DEF Returned, Idle
<1>18. Confined' /\ \A q : Intact(q) /\ data'[q] = data[q] => Intact(q)'
  <2>1. mem' \in Memory  BY <1>10, <1>12
  <2>2. ASSUME NEW x \in Addresses, mem'[x] # mem[x]
        PROVE  \E c \in BlockStarts \ Used : c <= x /\ (x < c + 4 \/ x < c + Length(c))
    <3>1. ~ (x < b \/ x >= b + 4)  BY <1>10, <1>12, <2>2 DEF OthersSame
    <3>2. x \in Nat  BY Sizes
    <3>3. b <= x /\ x < b + 4  BY <1>8, <3>1, <3>2
    <3>4. b \in BlockStarts \ Used  BY <1>6, <1>7 DEF Used
    <3> QED  BY <3>3, <3>4
  <2>3. Used \subseteq Used'  BY <1>2, <1>14, <1>15, <1>17 DEF Used
  <2>4. \A c \in Used : Length(c)' = Length(c)  BY <1>13 DEF Used
  <2> QED  BY <2>1, <2>2, <2>3, <2>4, HeadersWritten
<1>19. PICK n, p : n = job.n /\ p = cur + 2  OBVIOUS
<1>20. Pointer(p, n)' /\ p \in Nat /\ p # Null
  <2>1. p - 2 = cur /\ p \in Nat /\ p # Null  BY <1>3, <1>9, <1>19
  <2>2. cur \in Used'  BY <1>1, <1>7, <1>14, <1>15, <1>17 DEF Used
  <2>3. job.n \in Requests /\ len = job.n + 2  BY <1>1, <1>3 DEF Calls
  <2>4. n \in Nat /\ len = n + 2  BY <1>19, <2>3, AskedIs
  <2>5. PICK c : c = cur  OBVIOUS
  <2>6. Length(c)' = Length(c)  BY <1>7, <1>13, <2>5
  <2>7. Length(c)' >= n + 2  BY <1>1, <2>4, <2>5, <2>6
  <2> QED  BY <2>1, <2>2, <2>4, <2>5, <2>7 DEF Pointer
<1>21. mem' \in Memory  BY <1>10, <1>12
<1>22. Returned(p)  BY <1>1, <1>9, <1>19
<1> QED  BY <1>1, <1>16, <1>18, <1>19, <1>20, <1>21, <1>22, ReturnedMapped

\* __MEM_SUBTRACT shortens the block and returns the rest of it.
LEMMA AllocSplitMapped ==
    ASSUME Sane, Mapped, AllocSplit
    PROVE  Mapped' /\ P!Next
<1>1. PICK c, k, l : c = cur /\ k = Length(cur) /\ l = len  OBVIOUS
<1>2. PICK r, x : r = k - l /\ x = c + r  OBVIOUS
<1>3. pc = "mem_loop" /\ c # Null /\ k >= l /\ r >= 4  BY <1>1, <1>2 DEF AllocSplit
<1>4. /\ Shape /\ c \in FreeStarts /\ l \in Nat /\ l >= 4 /\ l < Space /\ blk = Null /\ k = Length(c)
  BY <1>1, <1>3, Registers
<1>5. /\ FreeStarts \subseteq BlockStarts /\ Length(HeapStart) = 0 /\ Calls /\ mem \in Memory
      /\ Null = 0 /\ HeapStart \in Nat /\ HeapStart > 0 /\ HeapEnd \in Nat /\ HeapEnd < Space
      /\ Space \in Nat /\ Addresses = 0 .. (Space - 1)
  BY <1>4, Sizes DEF Shape, Mapped
<1>6. c # HeapStart  BY <1>3, <1>4, <1>5
<1>7. /\ c \in BlockStarts /\ c \in Nat /\ c >= HeapStart /\ k \in Nat /\ c + k <= HeapEnd
      /\ \A d \in BlockStarts : c < d => c + k <= d
  <2>1. c \in BlockStarts  BY <1>4, <1>5
  <2> QED  BY <1>4, <1>6, <2>1, Apart DEF Shape
<1>8. /\ r \in Nat /\ r + l = k /\ x \in Nat /\ x >= c + 4 /\ x + l <= HeapEnd /\ x + 4 <= HeapEnd
      /\ x >= HeapStart
  <2>1. c \in Nat /\ k \in Nat /\ l \in Nat /\ k >= l /\ k - l >= 4 /\ l >= 4
    BY <1>2, <1>3, <1>4, <1>7
  <2>2. c >= HeapStart /\ c + k <= HeapEnd /\ HeapStart \in Nat /\ HeapEnd \in Nat  BY <1>5, <1>7
  <2>3. r \in Nat /\ r + l = k /\ r >= 4  BY <1>2, <2>1
  <2>4. x \in Nat /\ x >= c + 4 /\ x + l = c + k  BY <1>2, <2>1, <2>3
  <2> QED  BY <2>1, <2>2, <2>3, <2>4
<1>9. r \in Addresses /\ l \in Addresses /\ x + 2 < Space  BY <1>4, <1>5, <1>7, <1>8
<1>10. PICK m, M : m = StoreWord(mem, c, r) /\ M = mem'  OBVIOUS
<1>11. M = StoreWord(m, x, l) /\ Returned(x + 2)
  <2>1. Plus(c, r) = x
    <3>1. c + r < Space  BY <1>2, <1>5, <1>8
    <3> QED  BY <1>2, <1>7, <1>8, <3>1, PlusIs
  <2>2. Plus(x, 2) = x + 2  BY <1>8, <1>9, PlusIs
  <2> QED  BY <1>1, <1>2, <1>10, <2>1, <2>2 DEF AllocSplit
<1>12. m \in Memory /\ Word(m, c) = r /\ Word(m, c + 2) = Word(mem, c + 2) /\ OthersSame(c, mem, m)
  <2>1. c + 4 <= HeapEnd  BY <1>7, <1>8, <1>5
  <2> QED  BY <1>5, <1>7, <1>9, <1>10, <2>1, LengthStored
<1>13. M \in Memory /\ Word(M, x) = l /\ OthersSame(x, m, M)
  BY <1>8, <1>9, <1>11, <1>12, LengthStored
<1>14. ASSUME NEW d \in BlockStarts
       PROVE  Word(M, d) = Word(m, d) /\ Word(M, d + 2) = Word(m, d + 2)
  <2>1. d \in Nat /\ d >= HeapStart /\ d + 4 <= HeapEnd  BY <1>4, WordsAre
  <2>2. x + 4 <= d \/ d + 4 <= x
    <3>1. CASE d <= c  BY <1>7, <1>8, <2>1, <3>1
    <3>2. CASE c < d
      <4>1. c + k <= d  BY <1>7, <3>2
      <4>2. x + l <= d
        <5>1. x + l = c + k
          <6>1. c \in Nat /\ r \in Nat /\ l \in Nat /\ r + l = k  BY <1>4, <1>7, <1>8
          <6> QED  BY <1>2, <6>1
        <5> QED  BY <4>1, <5>1
      <4> QED  BY <1>4, <1>8, <2>1, <4>2
    <3> QED  BY <1>7, <2>1, <3>1, <3>2
  <2> QED  BY <1>13, <2>1, <2>2 DEF OthersSame
<1>15. /\ Length(c)' = r
       /\ \A d \in BlockStarts : d # c => Length(d)' = Length(d)
       /\ \A d \in BlockStarts : Link(d)' = Link(d)
  <2>1. ASSUME NEW d \in BlockStarts PROVE (d # c => Length(d)' = Length(d)) /\ Link(d)' = Link(d)
    <3>1. /\ Length(d) = Word(mem, d) /\ Length(d)' = Word(M, d)
          /\ Link(d) = Word(mem, d + 2) /\ Link(d)' = Word(M, d + 2)
      BY <1>4, <1>10, WordsAre
    <3>2. d # c => Word(m, d) = Word(mem, d) /\ Word(m, d + 2) = Word(mem, d + 2)
      BY <1>4, <1>7, <1>12, OthersAre
    <3> QED  BY <1>12, <1>14, <3>1, <3>2
  <2>2. Length(c)' = Word(M, c)  BY <1>4, <1>7, <1>10, WordsAre
  <2> QED  BY <1>7, <1>12, <1>14, <2>1, <2>2
<1>16. Length(x)' = l  BY <1>10, <1>13 DEF Length
<1>17. /\ BlockStarts' = BlockStarts \union {x} /\ x \notin BlockStarts
       /\ SizeNow' = [b \in BlockStarts \union {x} |->
                        IF b = x THEN l ELSE IF b = c THEN r ELSE Length(b)]
  <2>1. r > 0 /\ l > 0 /\ Length(c) = r + l /\ Length(c + r)' = l
    <3>1. c + r = x  BY <1>2
    <3> QED  BY <1>3, <1>4, <1>8, <1>16, <3>1
  <2>2. /\ BlockStarts' = BlockStarts \union {c + r} /\ c + r \notin BlockStarts
        /\ SizeNow' = [b \in BlockStarts \union {c + r} |->
                         IF b = c + r THEN l ELSE IF b = c THEN r ELSE Length(b)]
    BY <1>4, <1>6, <1>7, <1>8, <1>15, <2>1, BlocksMore
  <2> QED  BY <1>2, <2>2
<1>18. FreeStarts' = FreeStarts /\ NextNow' = NextNow  BY <1>4, <1>5, <1>15, FreeSame
<1>19. P!Next
  <2>1. /\ ret' = x + 2 /\ cur' = Null /\ temp' = Null /\ len' = 0 /\ blk' = Null
        /\ pc' \in {"idle", "copy"}
    BY <1>11 DEF Returned, Idle
  <2>2. PcNow = "mem_loop" /\ PcNow' = "idle" /\ PrevNow' = Null /\ TodoNow' = 0
    BY <1>3, <2>1 DEF PcNow, PrevNow, TodoNow, Freeing
  <2>3. SizeNow[cur] = k /\ P!Blocks = BlockStarts /\ \A b \in BlockStarts : SizeNow[b] = Length(b)
    BY <1>1, <1>7, ShapeIs DEF Mapped
  <2>4. P!Splittable(SizeNow[cur] - len)  BY <1>1, <1>2, <1>3, <2>3 DEF P!Splittable
  <2>5. SizeNow' = [b \in P!Blocks \union {x} |->
                      CASE b = x -> l
                        [] b = c -> r
                        [] OTHER   -> SizeNow[b]]
    <3>1. \A b \in BlockStarts \union {x} :
             (IF b = x THEN l ELSE IF b = c THEN r ELSE Length(b)) =
             (CASE b = x -> l [] b = c -> r [] OTHER -> SizeNow[b])
      <4>1. x # c  BY <1>7, <1>17
      <4> QED  BY <2>3, <4>1
    <3> QED  BY <1>17, <2>3, <3>1
  <2>6. P!AllocSplit
    BY <1>1, <1>2, <1>3, <1>18, <2>1, <2>2, <2>3, <2>4, <2>5, HeapFacts DEF P!AllocSplit, P!Dead
  <2> QED  BY <2>6 DEF P!Next, P!Step
<1>20. blk' = Null  BY <1>11 DEF Returned, Idle
<1>21. Confined' /\ \A q : Intact(q) /\ data'[q] = data[q] => Intact(q)'
  <2>1. mem' \in Memory  BY <1>10, <1>13
  <2>2. ASSUME NEW y \in Addresses, mem'[y] # mem[y]
        PROVE  \E d \in BlockStarts \ Used : d <= y /\ (y < d + 4 \/ y < d + Length(d))
    <3>1. y \in Nat  BY <1>5
    <3>2. M[y] # m[y] \/ m[y] # mem[y]  BY <1>10, <2>2
    <3>3. ~ (y < c \/ y >= c + 4) \/ ~ (y < x \/ y >= x + 4)  BY <1>12, <1>13, <3>2 DEF OthersSame
    <3>4. c <= y /\ (y < c + 4 \/ y < c + k)  BY <1>2, <1>4, <1>7, <1>8, <3>1, <3>3
    <3>5. c \in BlockStarts \ Used  BY <1>4, <1>7 DEF Used
    <3> QED  BY <1>4, <3>4, <3>5
  <2>3. Used \subseteq Used'  BY <1>4, <1>17, <1>18, <1>20 DEF Used
  <2>4. \A d \in Used : Length(d)' = Length(d)  BY <1>4, <1>15 DEF Used
  <2> QED  BY <2>1, <2>2, <2>3, <2>4, HeadersWritten
<1>22. PICK n, p : n = job.n /\ p = x + 2  OBVIOUS
<1>23. Pointer(p, n)' /\ p \in Nat /\ p # Null
  <2>1. p - 2 = x /\ p \in Nat /\ p # Null  BY <1>5, <1>8, <1>22
  <2>2. x \in Used'
    <3>1. x # Null  BY <1>5, <1>8
    <3> QED  BY <1>5, <1>17, <1>18, <1>20, <3>1 DEF Used
  <2>3. job.n \in Requests /\ len = job.n + 2  BY <1>3, <1>5 DEF Calls
  <2>4. n \in Nat /\ l = n + 2  BY <1>1, <1>22, <2>3, AskedIs
  <2>5. Length(x)' >= n + 2  BY <1>16, <2>4
  <2> QED  BY <2>1, <2>2, <2>4, <2>5 DEF Pointer
<1>24. mem' \in Memory  BY <1>10, <1>13
<1>25. Returned(p)  BY <1>11, <1>22
<1> QED  BY <1>3, <1>19, <1>21, <1>22, <1>23, <1>24, <1>25, ReturnedMapped

\* A release that goes on, or ends without an allocation after it, leaves the program what it holds.
LEMMA ReleaseHolds ==
    ASSUME Sane, Mapped, UNCHANGED <<job, data>>, pc' # "copy",
           \A q : Intact(q) /\ data'[q] = data[q] => Intact(q)'
    PROVE  Holds'
<1>1. \A q \in DOMAIN data' \ {job'.src} : Intact(q)'  BY DEF Mapped, Holds
<1> QED  BY <1>1 DEF Mapped, Holds

\* __MEM_LINK_PREV puts the block on the list.
LEMMA FreeLinkMapped ==
    ASSUME Sane, Mapped, FreeLink
    PROVE  Mapped' /\ P!Next
<1>1. PICK c, x, w : c = cur /\ x = blk /\ w = Link(cur)  OBVIOUS
<1>2. /\ pc = "mem_loop2" /\ pc' = "join_block" /\ UNCHANGED <<cur, temp, len, blk, job, data, ret>>
      /\ w = Null \/ w >= x
      /\ mem' = StoreWord(StoreWord(mem, Plus(c, 2), x), Plus(x, 2), w)
  BY <1>1 DEF FreeLink
<1>3. /\ Shape /\ c \in FreeStarts /\ x \in BlockStarts /\ x \notin FreeStarts /\ c < x /\ temp = Null
  BY <1>1, <1>2, Registers DEF Freeing
<1>4. /\ FreeStarts \subseteq BlockStarts /\ Calls /\ mem \in Memory
      /\ Null = 0 /\ HeapStart \in Nat /\ HeapStart > 0 /\ Addresses = 0 .. (Space - 1)
  BY <1>3, Sizes DEF Shape, Mapped
<1>5. /\ c \in BlockStarts /\ c \in Nat /\ c >= HeapStart /\ c + 4 <= HeapEnd /\ c + 2 < Space
      /\ x \in Nat /\ x >= HeapStart /\ x + 4 <= HeapEnd /\ x + 2 < Space /\ x # c
  <2>1. c \in BlockStarts  BY <1>3, <1>4
  <2> QED  BY <1>3, <2>1, WordsAre
<1>6. Plus(c, 2) = c + 2 /\ Plus(x, 2) = x + 2  BY <1>3, <1>5, Apart
<1>7. x \in Addresses /\ w \in Addresses
  <2>1. w = Word(mem, c + 2)  BY <1>1, <1>3, <1>5, WordsAre
  <2>2. Space \in Nat  BY Sizes
  <2>3. c + 2 \in Addresses /\ x \in Addresses  BY <1>4, <1>5, <2>2
  <2> QED  BY <1>4, <2>1, <2>3, WordIn
<1>8. PICK m, M : m = StoreWord(mem, c + 2, x) /\ M = mem'  OBVIOUS
<1>9. M = StoreWord(m, x + 2, w)  BY <1>2, <1>6, <1>8
<1>10. m \in Memory /\ Word(m, c) = Word(mem, c) /\ Word(m, c + 2) = x /\ OthersSame(c, mem, m)
  BY <1>4, <1>5, <1>7, <1>8, LinkStored
<1>11. M \in Memory /\ Word(M, x) = Word(m, x) /\ Word(M, x + 2) = w /\ OthersSame(x, m, M)
  BY <1>5, <1>7, <1>9, <1>10, LinkStored
<1>12. /\ \A d \in BlockStarts : Length(d)' = Length(d)
       /\ \A d \in BlockStarts : d # c /\ d # x => Link(d)' = Link(d)
       /\ Link(c)' = x /\ Link(x)' = w
  <2>1. ASSUME NEW d \in BlockStarts
        PROVE  /\ Length(d)' = Length(d)
               /\ d # c /\ d # x => Link(d)' = Link(d)
               /\ d = c => Link(d)' = x
    <3>1. /\ Length(d) = Word(mem, d) /\ Length(d)' = Word(M, d)
          /\ Link(d) = Word(mem, d + 2) /\ Link(d)' = Word(M, d + 2)
      BY <1>3, <1>8, WordsAre
    <3>2. d # c => Word(m, d) = Word(mem, d) /\ Word(m, d + 2) = Word(mem, d + 2)
      BY <1>3, <1>5, <1>10, OthersAre
    <3>3. d # x => Word(M, d) = Word(m, d) /\ Word(M, d + 2) = Word(m, d + 2)
      BY <1>3, <1>11, OthersAre
    <3> QED  BY <1>5, <1>10, <1>11, <3>1, <3>2, <3>3
  <2>2. Link(x)' = Word(M, x + 2)  BY <1>3, <1>8, WordsAre
  <2> QED  BY <1>5, <1>11, <2>1, <2>2
<1>13. BlockStarts' = BlockStarts /\ SizeNow' = SizeNow  BY <1>3, <1>12, BlocksSame
<1>14. /\ FreeStarts' = FreeStarts \union {x}
       /\ NextNow' = [b \in FreeStarts \union {x} |-> IF b = x THEN w ELSE IF b = c THEN x ELSE Link(b)]
  <2>1. w = Link(c)  BY <1>1
  <2>2. w = Null \/ x < w
    <3>1. w = Null \/ w \in FreeStarts  BY <1>3, <2>1 DEF Shape
    <3>2. w # x  BY <1>3, <1>4, <1>5, <3>1
    <3> QED  BY <1>2, <1>4, <1>5, <1>7, <3>2
  <2>3. \A b \in FreeStarts : b # c => Link(b)' = Link(b)  BY <1>3, <1>4, <1>12
  <2> QED  BY <1>3, <1>12, <2>1, <2>2, <2>3, FreeMore
<1>15. P!Next
  <2>1. PcNow = "mem_loop2" /\ PcNow' = "join_block" /\ PrevNow' = PrevNow /\ TodoNow' = TodoNow
    BY <1>2 DEF PcNow, PrevNow, TodoNow, Freeing
  <2>2. P!Free = FreeStarts /\ \A b \in FreeStarts : NextNow[b] = Link(b)
    BY ShapeIs DEF Mapped
  <2>3. NextNow' = [b \in P!Free \union {x} |->
                      CASE b = x -> w
                        [] b = c -> x
                        [] OTHER   -> NextNow[b]]
    <3>1. \A b \in FreeStarts \union {x} :
             (IF b = x THEN w ELSE IF b = c THEN x ELSE Link(b)) =
             (CASE b = x -> w [] b = c -> x [] OTHER -> NextNow[b])
      BY <1>5, <2>2
    <3> QED  BY <1>14, <2>2, <3>1
  <2>4. NextNow[cur] = w  BY <1>1, <1>3, <2>2
  <2>5. ~ P!NextBefore
    <3>1. ~ (w # Null /\ w < x)  BY <1>2, <1>4, <1>5, <1>7
    <3> QED  BY <1>1, <2>4, <3>1, HeapFacts DEF P!NextBefore
  <2>6. P!FreeLink
    BY <1>1, <1>2, <1>13, <2>1, <2>3, <2>4, <2>5 DEF P!FreeLink
  <2> QED  BY <2>6 DEF P!Next, P!Step
<1>16. P!Inv'  BY <1>15, Kept DEF Mapped
<1>17. Calls'  BY <1>2, <1>3, <1>4 DEF Calls, Freeing
<1>18. Confined' /\ \A q : Intact(q) /\ data'[q] = data[q] => Intact(q)'
  <2>1. mem' \in Memory  BY <1>8, <1>11
  <2>2. ASSUME NEW y \in Addresses, mem'[y] # mem[y]
        PROVE  \E d \in BlockStarts \ Used : d <= y /\ (y < d + 4 \/ y < d + Length(d))
    <3>1. y \in Nat  BY <1>4, Sizes
    <3>2. M[y] # m[y] \/ m[y] # mem[y]  BY <1>8, <2>2
    <3>3. ~ (y < c \/ y >= c + 4) \/ ~ (y < x \/ y >= x + 4)  BY <1>10, <1>11, <3>2 DEF OthersSame
    <3>4. \/ c <= y /\ y < c + 4
          \/ x <= y /\ y < x + 4
      BY <1>5, <3>1, <3>3
    <3>5. c \in BlockStarts \ Used /\ x \in BlockStarts \ Used  BY <1>1, <1>3, <1>5 DEF Used
    <3> QED  BY <3>4, <3>5
  <2>3. Used \subseteq Used'  BY <1>1, <1>2, <1>13, <1>14 DEF Used
  <2>4. \A d \in Used : Length(d)' = Length(d)  BY <1>12 DEF Used
  <2> QED  BY <2>1, <2>2, <2>3, <2>4, HeadersWritten
<1>19. Holds'  BY <1>2, <1>18, ReleaseHolds
<1> QED  BY <1>8, <1>11, <1>15, <1>16, <1>17, <1>18, <1>19 DEF Mapped

\* A free block absorbs the next one when they touch.
LEMMA JoinTestIs ==
    ASSUME Sane, Mapped, NEW b \in FreeStarts, JoinTest(b)
    PROVE  /\ mem' \in Memory /\ P!JoinTest(b)
           /\ FreeStarts' \subseteq FreeStarts
           /\ \A d \in BlockStarts \ FreeStarts : d \in BlockStarts' /\ Length(d)' = Length(d)
           /\ \A y \in Addresses : mem'[y] # mem[y] => b <= y /\ y < b + 4
<1>1. /\ Shape /\ P!Blocks = BlockStarts /\ P!Free = FreeStarts
      /\ \A d \in BlockStarts : SizeNow[d] = Length(d)
      /\ \A d \in FreeStarts : NextNow[d] = Link(d)
  BY ShapeIs DEF Mapped
<1>2. PICK k, x : k = Length(b) /\ x = Link(b)  OBVIOUS
<1>3. /\ FreeStarts \subseteq BlockStarts /\ mem \in Memory /\ b \in BlockStarts
      /\ Null = 0 /\ HeapStart \in Nat /\ HeapStart > 0 /\ Addresses = 0 .. (Space - 1)
      /\ HeapEnd \in Nat /\ HeapEnd < Space /\ Space \in Nat
  BY <1>1, Sizes DEF Shape, Mapped
<1>4. /\ b \in Nat /\ b >= HeapStart /\ b + 4 <= HeapEnd /\ k \in Nat /\ b + k <= HeapEnd
      /\ (b = HeapStart => k = 0) /\ (b # HeapStart => k >= 4)
  <2>1. b \in Nat /\ b >= HeapStart /\ b + 4 <= HeapEnd  BY <1>1, <1>3, Apart
  <2>2. CASE b = HeapStart
    <3>1. k = 0  BY <1>1, <1>2, <2>2 DEF Shape
    <3> QED  BY <1>3, <2>1, <2>2, <3>1
  <2>3. CASE b # HeapStart  BY <1>1, <1>2, <1>3, <2>1, <2>3 DEF Shape
  <2> QED  BY <2>2, <2>3
<1>5. Plus(b, k) = b + k
  <2>1. b + k < Space  BY <1>3, <1>4
  <2> QED  BY <1>4, <2>1, PlusIs
<1>6. Touches(b) <=> b + k = x  BY <1>2, <1>5 DEF Touches
<1>7. P!End(b) = P!End(b) /\ (P!End(b) = NextNow[b] <=> b + k = x)  BY <1>1, <1>2, <1>3 DEF P!End
<1>8. CASE b + k # x
  <2>1. mem' = mem  BY <1>6, <1>8 DEF JoinTest
  <2>2. P!JoinTest(b)
    <3>1. SizeNow' = SizeNow /\ NextNow' = NextNow  BY <2>1, Still
    <3> QED  BY <1>7, <1>8, <3>1 DEF P!JoinTest
  <2> QED  BY <1>3, <2>1, <2>2, Still
<1>9. CASE b + k = x
  <2>1. x # Null /\ x \in FreeStarts /\ x > b /\ x \in BlockStarts
    <3>1. x # Null  BY <1>3, <1>4, <1>9
    <3>2. x \in FreeStarts /\ x > b  BY <1>1, <1>2, <3>1 DEF Shape
    <3> QED  BY <1>3, <3>1, <3>2
  <2>2. PICK l, v, w : l = Length(x) /\ v = Link(x) /\ w = Plus(k, l)  OBVIOUS
  <2>3. b # HeapStart /\ k >= 4
    <3>1. k # 0  BY <1>4, <1>9, <2>1
    <3> QED  BY <1>4, <3>1
  <2>4. /\ l \in Nat /\ l >= 4 /\ x + l <= HeapEnd /\ x \in Nat /\ x + 2 < Space
    <3>1. x # HeapStart  BY <1>3, <1>4, <2>1
    <3>2. x \in Nat /\ x + 2 < Space  BY <1>1, <2>1, WordsAre
    <3> QED  BY <1>1, <2>1, <2>2, <3>1, <3>2 DEF Shape
  <2>5. w = k + l /\ w \in Addresses
    <3>1. k + l < Space  BY <1>3, <1>4, <1>9, <2>4
    <3> QED  BY <1>4, <2>2, <2>4, <3>1, PlusIs
  <2>6. v \in Addresses
    <3>1. v = Word(mem, x + 2)  BY <1>1, <2>1, <2>2, WordsAre
    <3>2. x + 2 \in Addresses  BY <1>3, <2>4
    <3> QED  BY <1>3, <3>1, <3>2, WordIn
  <2>7. PICK m, M : m = StoreWord(mem, b, w) /\ M = mem'  OBVIOUS
  <2>8. M = StoreWord(m, b + 2, v)
    <3>1. Plus(b, 2) = b + 2  BY <1>1, <1>3, Apart
    <3>2. Link(b) = x /\ Length(b) = k /\ Link(x) = v /\ Length(x) = l  BY <1>2, <2>2
    <3>3. mem' = StoreWord(StoreWord(mem, b, Plus(Length(b), Length(Link(b)))), Plus(b, 2), Link(Link(b)))
      BY <1>6, <1>9 DEF JoinTest
    <3> QED  BY <2>2, <2>7, <3>1, <3>2, <3>3
  <2>9. m \in Memory /\ Word(m, b) = w /\ Word(m, b + 2) = Word(mem, b + 2) /\ OthersSame(b, mem, m)
    BY <1>3, <1>4, <2>5, <2>7, LengthStored
  <2>10. M \in Memory /\ Word(M, b) = Word(m, b) /\ Word(M, b + 2) = v /\ OthersSame(b, m, M)
    BY <1>4, <2>6, <2>8, <2>9, LinkStored
  <2>11. /\ Length(b)' = k + l /\ Link(b)' = v
         /\ \A d \in BlockStarts : d # b => Length(d)' = Length(d) /\ Link(d)' = Link(d)
    <3>1. Length(b)' = Word(M, b) /\ Link(b)' = Word(M, b + 2)  BY <1>1, <1>3, <2>7, WordsAre
    <3>2. ASSUME NEW d \in BlockStarts, d # b PROVE Length(d)' = Length(d) /\ Link(d)' = Link(d)
      <4>1. /\ Length(d) = Word(mem, d) /\ Length(d)' = Word(M, d)
            /\ Link(d) = Word(mem, d + 2) /\ Link(d)' = Word(M, d + 2)
        BY <1>1, <2>7, WordsAre
      <4>2. Word(m, d) = Word(mem, d) /\ Word(m, d + 2) = Word(mem, d + 2)
        BY <1>1, <1>3, <2>9, <3>2, OthersAre
      <4>3. Word(M, d) = Word(m, d) /\ Word(M, d + 2) = Word(m, d + 2)
        BY <1>1, <1>3, <2>10, <3>2, OthersAre
      <4> QED  BY <4>1, <4>2, <4>3
    <3> QED  BY <2>5, <2>9, <2>10, <3>1, <3>2
  <2>12. /\ BlockStarts' = BlockStarts \ {x}
         /\ SizeNow' = [d \in BlockStarts \ {x} |-> IF d = b THEN k + l ELSE Length(d)]
    <3>1. x = b + Length(b) /\ Length(b)' = Length(b) + Length(x)  BY <1>2, <1>9, <2>2, <2>11
    <3>2. \A d \in BlockStarts : d # b /\ d # x => Length(d)' = Length(d)  BY <2>11
    <3>3. /\ BlockStarts' = BlockStarts \ {x}
          /\ SizeNow' = [d \in BlockStarts \ {x} |-> IF d = b THEN Length(b) + Length(x) ELSE Length(d)]
      BY <1>1, <1>3, <2>1, <2>3, <3>1, <3>2, BlocksLess
    <3> QED  BY <1>2, <2>2, <3>3
  <2>13. /\ FreeStarts' = FreeStarts \ {x}
         /\ NextNow' = [d \in FreeStarts \ {x} |-> IF d = b THEN v ELSE Link(d)]
    <3>1. Link(b) = x /\ Link(b)' = Link(x)  BY <1>2, <2>2, <2>11
    <3>2. \A d \in FreeStarts : d # b /\ d # x => Link(d)' = Link(d)  BY <1>3, <2>11
    <3>3. /\ FreeStarts' = FreeStarts \ {x}
          /\ NextNow' = [d \in FreeStarts \ {x} |-> IF d = b THEN Link(x) ELSE Link(d)]
      BY <1>1, <2>1, <3>1, <3>2, FreeLess
    <3> QED  BY <2>2, <3>3
  <2>14. P!JoinTest(b)
    <3>1. NextNow[b] = x /\ SizeNow[b] = k /\ SizeNow[x] = l /\ NextNow[x] = v  BY <1>1, <1>2, <1>3, <2>1, <2>2
    <3>2. SizeNow' = [d \in P!Blocks \ {x} |-> IF d = b THEN k + l ELSE SizeNow[d]]
      <4>1. \A d \in BlockStarts \ {x} : Length(d) = SizeNow[d]  BY <1>1
      <4> QED  BY <1>1, <2>12, <4>1
    <3>3. NextNow' = [d \in P!Free \ {x} |-> IF d = b THEN v ELSE NextNow[d]]
      <4>1. \A d \in FreeStarts \ {x} : Link(d) = NextNow[d]  BY <1>1
      <4> QED  BY <1>1, <2>13, <4>1
    <3>4. P!Absorb(b)  BY <3>1, <3>2, <3>3 DEF P!Absorb
    <3> QED  BY <1>7, <1>9, <3>4 DEF P!JoinTest
  <2>15. \A d \in BlockStarts \ FreeStarts : d \in BlockStarts' /\ Length(d)' = Length(d)
    BY <1>3, <2>1, <2>11, <2>12
  <2>16. ASSUME NEW y \in Addresses, mem'[y] # mem[y] PROVE b <= y /\ y < b + 4
    <3>1. M[y] # m[y] \/ m[y] # mem[y]  BY <2>7, <2>16
    <3>2. ~ (y < b \/ y >= b + 4)  BY <2>9, <2>10, <3>1 DEF OthersSame
    <3>3. y \in Nat  BY <1>3
    <3> QED  BY <1>4, <3>2, <3>3
  <2> QED  BY <2>7, <2>10, <2>13, <2>14, <2>15, <2>16
<1> QED  BY <1>8, <1>9

\* What that leaves of the bytes.
LEMMA JoinKeeps ==
    ASSUME Sane, Mapped, NEW b \in FreeStarts, JoinTest(b), blk' = blk \/ blk' = Null
    PROVE  Confined' /\ \A q : Intact(q) /\ data'[q] = data[q] => Intact(q)'
<1>1. /\ mem' \in Memory /\ FreeStarts' \subseteq FreeStarts
      /\ \A d \in BlockStarts \ FreeStarts : d \in BlockStarts' /\ Length(d)' = Length(d)
      /\ \A y \in Addresses : mem'[y] # mem[y] => b <= y /\ y < b + 4
  BY JoinTestIs
<1>2. Shape /\ FreeStarts \subseteq BlockStarts  BY Registers DEF Shape
<1>3. b \in BlockStarts \ Used  BY <1>2 DEF Used
<1>4. \A d \in BlockStarts : d # Null
  <2>1. Null = 0 /\ HeapStart \in Nat /\ HeapStart > 0  BY Sizes
  <2> QED  BY <1>2, <2>1, Apart
<1>5. Used \subseteq Used'  BY <1>1, <1>4 DEF Used
<1>6. \A d \in Used : Length(d)' = Length(d)  BY <1>1 DEF Used
<1>7. \A y \in Addresses : mem'[y] # mem[y] =>
         \E c \in BlockStarts \ Used : c <= y /\ (y < c + 4 \/ y < c + Length(c))
  BY <1>1, <1>3
<1> QED  BY <1>1, <1>5, <1>6, <1>7, HeadersWritten

\* The first __MEM_JOIN_TEST.
LEMMA JoinBlockMapped ==
    ASSUME Sane, Mapped, JoinBlock
    PROVE  Mapped' /\ P!Next
<1>1. /\ pc = "join_block" /\ pc' = "join_prev" /\ JoinTest(blk)
      /\ UNCHANGED <<cur, temp, len, blk, job, data, ret>>
  BY DEF JoinBlock
<1>2. blk \in FreeStarts /\ temp = Null /\ Calls  BY <1>1, Registers DEF Mapped
<1>3. mem' \in Memory /\ P!JoinTest(blk)  BY <1>1, <1>2, JoinTestIs
<1>4. Confined' /\ \A q : Intact(q) /\ data'[q] = data[q] => Intact(q)'  BY <1>1, <1>2, JoinKeeps
<1>5. P!Next
  <2>1. PcNow = "join_block" /\ PcNow' = "join_prev" /\ PrevNow' = PrevNow /\ TodoNow' = TodoNow
    BY <1>1 DEF PcNow, PrevNow, TodoNow, Freeing
  <2>2. P!JoinBlock  BY <1>1, <1>3, <2>1 DEF P!JoinBlock
  <2> QED  BY <2>2 DEF P!Next, P!Step
<1>6. P!Inv'  BY <1>5, Kept DEF Mapped
<1>7. Calls'  BY <1>1, <1>2 DEF Calls, Freeing
<1>8. Holds'  BY <1>1, <1>4, ReleaseHolds
<1> QED  BY <1>3, <1>4, <1>5, <1>6, <1>7, <1>8 DEF Mapped

\* The second one, after which the routine returns or allocates.
LEMMA JoinPrevMapped ==
    ASSUME Sane, Mapped, JoinPrev
    PROVE  Mapped' /\ P!Next
<1>1. /\ pc = "join_prev" /\ JoinTest(cur) /\ UNCHANGED <<job, data, ret>>
      /\ IF job.op = "realloc" THEN StartAlloc(job.n) ELSE pc' = "idle" /\ Idle
  BY DEF JoinPrev
<1>2. cur \in FreeStarts /\ Calls /\ P!Null = Null /\ Null = 0
  BY <1>1, Registers, HeapFacts, Sizes DEF Mapped, Freeing
<1>3. /\ temp' = Null /\ blk' = Null
      /\ \/ job = NoJob /\ pc' = "idle" /\ cur' = Null /\ len' = 0
         \/ /\ job.op = "realloc" /\ job.n \in Requests
            /\ pc' = "mem_loop" /\ cur' = HeapStart /\ len' = job.n + 2
  <2>1. job = NoJob \/ (job.op = "realloc" /\ job.n \in Requests)  BY <1>1, <1>2 DEF Calls, Freeing
  <2>2. NoJob.op = "none"  BY DEF NoJob
  <2>3. job.n \in Requests => BlockLength(job.n) = job.n + 2  BY AskedIs
  <2> QED  BY <1>1, <2>1, <2>2, <2>3 DEF StartAlloc, Idle
<1>4. mem' \in Memory /\ P!JoinTest(cur)  BY <1>1, <1>2, JoinTestIs
<1>5. Confined' /\ \A q : Intact(q) /\ data'[q] = data[q] => Intact(q)'
  BY <1>1, <1>2, <1>3, JoinKeeps
<1>6. P!Next
  <2>1. PcNow = "join_prev" /\ PrevNow' = Null /\ TodoNow = job.n /\ TodoNow' = 0 /\ PcNow' = pc'
    BY <1>1, <1>3 DEF PcNow, PrevNow, TodoNow, Freeing
  <2>2. CASE job = NoJob /\ pc' = "idle" /\ cur' = Null /\ len' = 0
    <3>1. TodoNow = 0  BY <2>1, <2>2 DEF NoJob
    <3> QED  BY <1>1, <1>2, <1>3, <1>4, <2>1, <2>2, <3>1 DEF P!JoinPrev, P!Dead, P!Next, P!Step
  <2>3. CASE /\ job.op = "realloc" /\ job.n \in Requests
             /\ pc' = "mem_loop" /\ cur' = HeapStart /\ len' = job.n + 2
    <3>1. TodoNow # 0
      <4>1. job.n >= 2 /\ job.n \in Nat  BY <2>3, AskedIs
      <4> QED  BY <2>1, <4>1
    <3> QED  BY <1>1, <1>2, <1>3, <1>4, <2>1, <2>3, <3>1 DEF P!JoinPrev, P!Next, P!Step
  <2> QED  BY <1>3, <2>2, <2>3
<1>7. P!Inv'  BY <1>6, Kept DEF Mapped
<1>8. Calls'  BY <1>1, <1>2, <1>3 DEF Calls, Freeing, NoJob
<1>9. Holds'
  <2>1. pc' # "copy"  BY <1>3
  <2> QED  BY <1>1, <1>5, <2>1, ReleaseHolds
<1> QED  BY <1>4, <1>5, <1>6, <1>7, <1>8, <1>9 DEF Mapped

-----------------------------------------------------------------------------
(* The two views of Heap.tla are the same.                                   *)

\* The instance the theorems of HeapProofs are about has the steps of the refined one.
LEMMA SameSpec ==
    /\ P!Init <=> Blk!Init
    /\ P!Next <=> Blk!Next
    /\ UNCHANGED P!vars <=> UNCHANGED Blk!vars
<1>1. P!Init <=> Blk!Init  BY DEF P!Init, Blk!Init, P!FirstBlock, Blk!FirstBlock, P!Null, Blk!Null
<1>2. UNCHANGED P!vars <=> UNCHANGED Blk!vars  BY DEF P!vars, Blk!vars
<1> USE DEF P!Blocks, Blk!Blocks, P!Free, Blk!Free, P!End, Blk!End, P!Null, Blk!Null, P!Dead, Blk!Dead
<1>3. P!Live = Blk!Live  BY DEF P!Live, Blk!Live
<1>4. \A n : P!MemAlloc(n) <=> Blk!MemAlloc(n)  BY DEF P!MemAlloc, Blk!MemAlloc
<1>5. \A b : P!MemFree(b) <=> Blk!MemFree(b)  BY <1>3 DEF P!MemFree, Blk!MemFree
<1>6. \A b, n : P!Realloc(b, n) <=> Blk!Realloc(b, n)  BY <1>3 DEF P!Realloc, Blk!Realloc
<1>7. P!Call <=> Blk!Call  BY <1>3, <1>4, <1>5, <1>6 DEF P!Call, Blk!Call
<1>8. P!AllocFail <=> Blk!AllocFail  BY DEF P!AllocFail, Blk!AllocFail, P!Exhausted, Blk!Exhausted
<1>9. P!AllocSkip <=> Blk!AllocSkip  BY DEF P!AllocSkip, Blk!AllocSkip, P!Advance, Blk!Advance
<1>10. P!AllocWhole <=> Blk!AllocWhole
  BY DEF P!AllocWhole, Blk!AllocWhole, P!Splittable, Blk!Splittable, P!Unlink, Blk!Unlink
<1>11. P!AllocSplit <=> Blk!AllocSplit  BY DEF P!AllocSplit, Blk!AllocSplit, P!Splittable, Blk!Splittable
<1>12. P!NextBefore <=> Blk!NextBefore  BY DEF P!NextBefore, Blk!NextBefore
<1>13. P!FreeSkip <=> Blk!FreeSkip  BY <1>12 DEF P!FreeSkip, Blk!FreeSkip
<1>14. P!FreeLink <=> Blk!FreeLink  BY <1>12 DEF P!FreeLink, Blk!FreeLink
<1>15. \A b : P!JoinTest(b) <=> Blk!JoinTest(b)  BY DEF P!JoinTest, Blk!JoinTest, P!Absorb, Blk!Absorb
<1>16. P!JoinBlock <=> Blk!JoinBlock  BY <1>15 DEF P!JoinBlock, Blk!JoinBlock
<1>17. P!JoinPrev <=> Blk!JoinPrev  BY <1>15 DEF P!JoinPrev, Blk!JoinPrev
<1>18. P!Step <=> Blk!Step
  BY <1>8, <1>9, <1>10, <1>11, <1>13, <1>14, <1>16, <1>17 DEF P!Step, Blk!Step
<1> QED  BY <1>1, <1>2, <1>7, <1>18 DEF P!Next, Blk!Next

-----------------------------------------------------------------------------
(* The invariant holds.                                                      *)

\* __MEM_INIT makes the header and one free block.
LEMMA InitMapped ==
    ASSUME Sane, Init
    PROVE  Mapped /\ P!Init
<1>1. /\ HeapStart \in Nat /\ HeapStart > 0 /\ HeapEnd \in Nat /\ HeapEnd < Space /\ Space \in Nat
      /\ FirstBlock = HeapStart + 4 /\ FirstBlock + 4 <= HeapEnd /\ Addresses = 0 .. (Space - 1)
      /\ HeapEnd = HeapStart + HeapSize /\ HeapSize \in Nat /\ Null = 0 /\ Base \in Nat /\ Base >= 2
      /\ FirstBlock \in Nat
  BY Sizes
<1>2. PICK m0 : m0 = [a \in Addresses |-> Outside(a)]  OBVIOUS
<1>3. PICK m1, m2, m3 : /\ m1 = StoreWord(m0, HeapStart, 0)
                        /\ m2 = StoreWord(m1, HeapStart + 2, FirstBlock)
                        /\ m3 = StoreWord(m2, FirstBlock, HeapSize - 4)
  OBVIOUS
<1>4. mem = StoreWord(m3, FirstBlock + 2, Null)  BY <1>2, <1>3 DEF Init
<1>5. m0 \in Memory
  <2>1. Base - 1 \in 0 .. Base - 1  BY <1>1
  <2> QED  BY <1>2, <2>1 DEF Memory, Byte, Outside
<1>6. 0 \in Addresses /\ FirstBlock \in Addresses /\ HeapSize - 4 \in Addresses /\ Null \in Addresses
  BY <1>1
<1>7. /\ m1 \in Memory /\ Word(m1, HeapStart) = 0
      /\ OthersSame(HeapStart, m0, m1)
  <2>1. HeapStart + 4 <= HeapEnd  BY <1>1
  <2> QED  BY <1>1, <1>3, <1>5, <1>6, <2>1, LengthStored
<1>8. /\ m2 \in Memory /\ Word(m2, HeapStart) = 0 /\ Word(m2, HeapStart + 2) = FirstBlock
      /\ OthersSame(HeapStart, m1, m2)
  <2>1. HeapStart + 4 <= HeapEnd  BY <1>1
  <2> QED  BY <1>1, <1>3, <1>6, <1>7, <2>1, LinkStored
<1>9. /\ m3 \in Memory /\ Word(m3, HeapStart) = 0 /\ Word(m3, HeapStart + 2) = FirstBlock
      /\ Word(m3, FirstBlock) = HeapSize - 4
      /\ OthersSame(FirstBlock, m2, m3)
  <2>1. FirstBlock >= HeapStart /\ HeapStart + 4 <= FirstBlock /\ HeapStart + 4 <= HeapEnd /\ HeapStart >= HeapStart
    BY <1>1
  <2>2. m3 \in Memory /\ Word(m3, FirstBlock) = HeapSize - 4 /\ OthersSame(FirstBlock, m2, m3)
    BY <1>1, <1>3, <1>6, <1>8, <2>1, LengthStored
  <2>3. Word(m3, HeapStart) = Word(m2, HeapStart) /\ Word(m3, HeapStart + 2) = Word(m2, HeapStart + 2)
    BY <1>1, <2>1, <2>2 DEF OthersSame
  <2> QED  BY <1>8, <2>2, <2>3
<1>10. /\ mem \in Memory /\ Word(mem, HeapStart) = 0 /\ Word(mem, HeapStart + 2) = FirstBlock
       /\ Word(mem, FirstBlock) = HeapSize - 4 /\ Word(mem, FirstBlock + 2) = Null
       /\ OthersSame(FirstBlock, m3, mem)
  <2>1. FirstBlock >= HeapStart /\ HeapStart + 4 <= FirstBlock /\ HeapStart + 4 <= HeapEnd /\ HeapStart >= HeapStart
    BY <1>1
  <2>2. /\ mem \in Memory /\ Word(mem, FirstBlock) = HeapSize - 4 /\ Word(mem, FirstBlock + 2) = Null
        /\ OthersSame(FirstBlock, m3, mem)
    BY <1>1, <1>4, <1>6, <1>9, <2>1, LinkStored
  <2>3. Word(mem, HeapStart) = Word(m3, HeapStart) /\ Word(mem, HeapStart + 2) = Word(m3, HeapStart + 2)
    BY <1>1, <2>1, <2>2 DEF OthersSame
  <2> QED  BY <1>9, <2>2, <2>3
<1>11. /\ Length(HeapStart) = 0 /\ Length(FirstBlock) = HeapSize - 4
       /\ Link(HeapStart) = FirstBlock /\ Link(FirstBlock) = Null
  <2>1. Plus(HeapStart, 2) = HeapStart + 2 /\ Plus(FirstBlock, 2) = FirstBlock + 2  BY <1>1, PlusIs
  <2> QED  BY <1>10, <2>1 DEF Length, Link
<1>12. HeapStart \in Addresses /\ FirstBlock \in Addresses  BY <1>1
<1>13. BlockStarts = {HeapStart, FirstBlock}
  <2>1. PICK s : s = [b \in Addresses |-> b + Length(b)]  OBVIOUS
  <2>2. s[FirstBlock] = HeapEnd
    <3>1. s[FirstBlock] = FirstBlock + (HeapSize - 4)  BY <1>11, <1>12, <2>1
    <3> QED  BY <1>1, <3>1
  <2>3. Fixed({FirstBlock}, FirstBlock, s)
    <3>1. {FirstBlock} \subseteq FirstBlock .. (HeapEnd - 1)  BY <1>1
    <3>2. \A a \in FirstBlock .. (HeapEnd - 1) : a # HeapEnd  BY <1>1
    <3> QED  BY <2>2, <3>1, <3>2 DEF Fixed
  <2>4. Fixed(Reached(FirstBlock, s), FirstBlock, s)  BY <1>1, ReachedFixed
  <2>5. Reached(FirstBlock, s) = {FirstBlock}  BY <1>1, <2>3, <2>4, FixedOnce
  <2> QED  BY <2>1, <2>5 DEF BlockStarts
<1>14. FreeStarts = {HeapStart, FirstBlock}
  <2>1. PICK s : s = [b \in Addresses |-> Link(b)]  OBVIOUS
  <2>2. s[HeapStart] = FirstBlock /\ s[FirstBlock] = Null  BY <1>11, <1>12, <2>1
  <2>3. Fixed({HeapStart, FirstBlock}, HeapStart, s)
    <3>1. {HeapStart, FirstBlock} \subseteq HeapStart .. (HeapEnd - 1)  BY <1>1
    <3>2. \A a \in HeapStart .. (HeapEnd - 1) : a # Null  BY <1>1
    <3>3. HeapStart < FirstBlock  BY <1>1
    <3> QED  BY <2>2, <3>1, <3>2, <3>3 DEF Fixed
  <2>4. Fixed(Reached(HeapStart, s), HeapStart, s)  BY <1>1, ReachedFixed
  <2>5. Reached(HeapStart, s) = {HeapStart, FirstBlock}  BY <1>1, <2>3, <2>4, FixedOnce
  <2> QED  BY <2>1, <2>5 DEF FreeStarts
<1>15. /\ pc = "idle" /\ cur = Null /\ temp = Null /\ len = 0 /\ blk = Null /\ ret = Null
       /\ job = NoJob /\ data = <<>>
  BY DEF Init
<1>16. P!Init
  <2>1. /\ SizeNow = [b \in {HeapStart, FirstBlock} |-> IF b = HeapStart THEN 0 ELSE HeapSize - 4]
        /\ NextNow = [b \in {HeapStart, FirstBlock} |-> IF b = HeapStart THEN FirstBlock ELSE Null]
    <3>1. HeapStart # FirstBlock  BY <1>1
    <3> QED  BY <1>11, <1>13, <1>14, <3>1 DEF SizeNow, NextNow
  <2>2. PcNow = "idle" /\ PrevNow = Null /\ TodoNow = 0
    BY <1>15 DEF PcNow, PrevNow, TodoNow, Freeing
  <2> QED  BY <1>15, <2>1, <2>2, HeapFacts DEF P!Init
<1>17. P!Inv  BY <1>16, HeapFacts, P!InitInv
<1>18. Calls  BY <1>15 DEF Calls, NoJob, Freeing
<1>19. Holds
  <2>1. DOMAIN data = {}  BY <1>15
  <2> QED  BY <1>15, <2>1 DEF Holds
<1>20. Confined
  <2>1. ASSUME NEW a \in Addresses \ (HeapStart .. (HeapEnd - 1)) PROVE mem[a] = Outside(a)
    <3>1. /\ a < FirstBlock \/ a >= FirstBlock + 4
          /\ a < HeapStart \/ a >= HeapStart + 4
      BY <1>1
    <3>2. mem[a] = m3[a] /\ m3[a] = m2[a] /\ m2[a] = m1[a] /\ m1[a] = m0[a]
      BY <1>7, <1>8, <1>9, <1>10, <3>1 DEF OthersSame
    <3> QED  BY <1>2, <3>2
  <2> QED  BY <2>1 DEF Confined
<1> QED  BY <1>10, <1>16, <1>17, <1>18, <1>19, <1>20 DEF Mapped

-----------------------------------------------------------------------------
(* The theorems.                                                             *)

\* Every step keeps the invariant, and is one of the block-level manager or none.
LEMMA NextMapped ==
    ASSUME Sane, Mapped, [Next]_vars
    PROVE  Mapped' /\ [P!Next]_(P!vars)
<1>1. CASE Call
  <2>1. ASSUME NEW op \in {"alloc", "calloc"}, NEW n \in Requests, MemAlloc(op, n)
        PROVE  Mapped' /\ P!Next
    BY <2>1, MemAllocMapped
  <2>2. ASSUME NEW p \in DOMAIN data, MemFree(p) \/ \E n \in Requests : Realloc(p, n)
        PROVE  Mapped' /\ P!Next
    BY <2>2, FreeMapped
  <2> QED  BY <1>1, <2>1, <2>2 DEF Call
<1>2. CASE Step
  BY <1>2, AllocFailMapped, SkipMapped, AllocWholeMapped, AllocSplitMapped, FreeLinkMapped,
     JoinBlockMapped, JoinPrevMapped, CallocFillMapped, ReallocCopyMapped DEF Step
<1>3. CASE \E p \in DOMAIN data, mark \in Marks : Write(p, mark)  BY <1>3, WriteMapped
<1>4. CASE UNCHANGED vars
  <2>1. /\ mem' = mem
        /\ UNCHANGED <<pc, cur, temp, len, blk, job, data, ret>>
    BY <1>4 DEF vars
  <2>2. SizeNow' = SizeNow /\ NextNow' = NextNow /\ FreeStarts' = FreeStarts  BY <2>1, Still
  <2>3. PcNow' = PcNow /\ TodoNow' = TodoNow  BY <2>1 DEF PcNow, TodoNow, Freeing
  <2>4. P!Inv' /\ UNCHANGED P!vars  BY <2>1, <2>2, <2>3, Stutters
  <2>5. Calls'  BY <2>1, <2>2 DEF Mapped, Calls, Freeing
  <2>6. mem' \in Memory /\ Confined' /\ \A q \in DOMAIN data' \ {job'.src} : Intact(q)'
    <3>1. \A q \in DOMAIN data \ {job.src} : q - 2 # blk'  BY <2>1 DEF Mapped, Holds, Intact, Pointer, Used
    <3> QED  BY <2>1, <3>1, StillHolds
  <2>7. Holds'
    <3>1. pc = "copy" => Pointer(ret, job.n)'
      BY <2>1, <2>2, Still DEF Mapped, Holds, Pointer, Used
    <3> QED  BY <2>1, <2>6, <3>1 DEF Mapped, Holds
  <2> QED  BY <2>4, <2>5, <2>6, <2>7 DEF Mapped
<1> QED  BY <1>1, <1>2, <1>3, <1>4 DEF Next

\* In every reachable state.
LEMMA AlwaysMapped ==
    ASSUME Sane
    PROVE  Spec => []Mapped
<1>1. Init => Mapped  BY InitMapped
<1>2. Mapped /\ [Next]_vars => Mapped'  BY NextMapped
<1> QED  BY <1>1, <1>2, PTL DEF Spec

\* What the program stored in its blocks, and the zeros of __MEM_CALLOC, are
\* where it finds them: in a block with room for all it asked for, which the
\* manager has not written in since.
THEOREM ContentsAlways ==
    ASSUME Sane
    PROVE  Spec => []ContentsIntact
<1>1. Mapped => ContentsIntact
  <2> SUFFICES ASSUME Mapped, NEW p \in DOMAIN data \ {job.src}
               PROVE  /\ p - 2 >= FirstBlock /\ p + data[p].n <= HeapEnd
                      /\ Word(mem, p - 2) >= data[p].n + 2
                      /\ \A i \in 1 .. Len(data[p].bytes) : mem[Plus(p, i - 1)] = data[p].bytes[i]
    BY DEF ContentsIntact
  <2>1. PICK n, k : n = data[p].n /\ k = Len(data[p].bytes)  OBVIOUS
  <2>2. Intact(p)  BY DEF Mapped, Holds
  <2>3. /\ Pointer(p, n) /\ k \in Nat /\ k <= n
        /\ \A i \in 1 .. k : mem[p + i - 1] = data[p].bytes[i]
    BY <2>1, <2>2 DEF Intact
  <2>4. p \in Nat /\ p >= FirstBlock + 2 /\ p + n <= HeapEnd /\ n \in Nat  BY <2>3, Registers, Inside
  <2>5. Word(mem, p - 2) >= n + 2  BY <2>3 DEF Pointer, Length
  <2>6. FirstBlock \in Nat /\ HeapEnd \in Nat /\ HeapEnd < Space /\ Space \in Nat  BY Sizes
  <2>7. ASSUME NEW i \in 1 .. k PROVE mem[Plus(p, i - 1)] = data[p].bytes[i]
    <3>1. i - 1 \in Nat /\ p + (i - 1) < Space /\ p + (i - 1) = p + i - 1  BY <2>3, <2>4, <2>6
    <3>2. Plus(p, i - 1) = p + i - 1  BY <2>4, <3>1, PlusIs
    <3> QED  BY <2>3, <3>2
  <2>8. p - 2 >= FirstBlock  BY <2>4, <2>6
  <2> QED  BY <2>1, <2>4, <2>5, <2>7, <2>8
<1> QED  BY <1>1, AlwaysMapped, PTL

\* The memory outside the heap is never written, by any sequence of calls.
THEOREM ConfinedAlways ==
    ASSUME Sane
    PROVE  Spec => []Confined
<1>1. Mapped => Confined  BY DEF Mapped
<1> QED  BY <1>1, AlwaysMapped, PTL

\* The routines, as they read and write bytes, do what the block-level manager
\* of Heap.tla does.
THEOREM HeapMemImplementsHeap ==
    ASSUME Sane
    PROVE  Spec => ImplementsHeap
<1>1. Init => Mapped /\ Blk!Init  BY InitMapped, SameSpec
<1>2. Mapped /\ [Next]_vars => Mapped' /\ [Blk!Next]_(Blk!vars)  BY NextMapped, SameSpec
<1> QED  BY <1>1, <1>2, PTL DEF Spec, ImplementsHeap, Blk!Spec

\* So they are the allocator of Allocator.tla: what they hand out is vacant and long
\* enough, and a request is refused only when no extent of its length is vacant.
THEOREM HeapMemIsAllocator ==
    ASSUME Sane
    PROVE  Spec => P!ImplementsAllocator
<1>1. Init => Mapped /\ P!Abs!Init  BY InitMapped, HeapFacts, P!InitMaps DEF Mapped
<1>2. Mapped /\ [Next]_vars => Mapped' /\ [P!Abs!Next]_(P!Abs!vars)
  BY NextMapped, HeapFacts, P!NextMaps DEF Mapped
<1> QED  BY <1>1, <1>2, PTL DEF Spec, P!ImplementsAllocator, P!Abs!Spec
=============================================================================
