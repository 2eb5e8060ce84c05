-------------------------- MODULE StringOpsProofs --------------------------
(* What the string routines compute is right for strings of any length and  *)
(* any characters, and for any size of the machine's words.  Each routine   *)
(* gets a lemma about its operator; an operation only stores what the       *)
(* operator gives, so that the properties of the last operation follow.     *)
EXTENDS StringOps, SequenceLemmas, FiniteSetTheorems

USE DEF Space, Least

\* A string is its length and its characters, none of which is 0.
LEMMA StringIs ==
    ASSUME NEW s \in Strings
    PROVE  /\ s \in Seq(Nat) /\ Len(s) \in Nat /\ Len(s) <= MaxLen
           /\ s = [i \in 1 .. Len(s) |-> s[i]]
           /\ \A i \in 1 .. Len(s) : s[i] \in Nat /\ s[i] # 0
<1>1. PICK n \in 0 .. MaxLen : s \in [1 .. n -> Chars]  BY DEF Strings
<1>2. Chars \subseteq Nat \ {0} /\ MaxLen \in Nat  BY StringOpsAssumption
<1>3. n \in Nat /\ n <= MaxLen  BY <1>2
<1>4. s \in [1 .. n -> Nat]  BY <1>1, <1>2
<1>5. s \in Seq(Nat) /\ Len(s) = n  BY <1>3, <1>4
<1>6. \A i \in 1 .. n : s[i] \in Chars  BY <1>1
<1>7. s = [i \in 1 .. n |-> s[i]]  BY <1>1
<1> QED  BY <1>2, <1>3, <1>5, <1>6, <1>7

\* Strings of one length with the same characters are the same.
LEMMA SameString ==
    ASSUME NEW s \in Strings, NEW t \in Strings, Len(s) = Len(t),
           \A i \in 1 .. Len(s) : s[i] = t[i]
    PROVE  s = t
<1>1. s = [i \in 1 .. Len(s) |-> s[i]]  BY StringIs
<1>2. t = [i \in 1 .. Len(t) |-> t[i]]  BY StringIs
<1>3. [i \in 1 .. Len(s) |-> s[i]] = [i \in 1 .. Len(s) |-> t[i]]  OBVIOUS
<1> QED  BY <1>1, <1>2, <1>3, Zenon

\* The characters of a string up to the n-th are those of another one when
\* they are so one by one.
LEMMA SameStart ==
    ASSUME NEW s \in Strings, NEW t \in Strings, NEW n \in Nat,
           n <= Len(s), n <= Len(t)
    PROVE  SubSeq(s, 1, n) = SubSeq(t, 1, n) <=> \A i \in 1 .. n : s[i] = t[i]
<1>1. s \in Seq(Nat) /\ Len(s) \in Nat /\ t \in Seq(Nat) /\ Len(t) \in Nat  BY StringIs
<1>2. SubSeq(s, 1, n) = [i \in 1 .. n |-> s[i]]  BY <1>1
<1>3. SubSeq(t, 1, n) = [i \in 1 .. n |-> t[i]]  BY <1>1
<1>4. ASSUME SubSeq(s, 1, n) = SubSeq(t, 1, n), NEW i \in 1 .. n
      PROVE  s[i] = t[i]
  BY <1>2, <1>3, <1>4
<1>5. ASSUME \A i \in 1 .. n : s[i] = t[i]
      PROVE  SubSeq(s, 1, n) = SubSeq(t, 1, n)
  BY <1>2, <1>3, <1>5
<1> QED  BY <1>4, <1>5

\* A string that another one starts with is shorter or as long, and their
\* characters agree.
LEMMA PrefixIs ==
    ASSUME NEW s \in Strings, NEW t \in Strings
    PROVE  IsPrefixOf(s, t) <=> /\ Len(s) <= Len(t)
                                /\ \A i \in 1 .. Len(s) : s[i] = t[i]
<1>1. s \in Seq(Nat) /\ Len(s) \in Nat  BY StringIs
<1>2. SubSeq(s, 1, Len(s)) = s  BY <1>1
<1> QED  BY <1>1, <1>2, SameStart DEF IsPrefixOf
-----------------------------------------------------------------------------
(* Comparison. *)

\* The positions that __STRCMP compares and finds different.
Differ(s, t, next) ==
    {i \in 1 .. CompareCount(Len(s), Len(t)) : s[i] # Append(t, next)[i]}

\* What __STRCMP reads for a$ and for b$: past the end of b$ it is the byte that
\* follows, and there is at most one such place.
LEMMA Compared ==
    ASSUME NEW s \in Strings, NEW t \in Strings, NEW next \in Nat
    PROVE  /\ CompareCount(Len(s), Len(t)) \in Nat
           /\ CompareCount(Len(s), Len(t)) <= Len(s)
           /\ Len(s) <= Len(t) => CompareCount(Len(s), Len(t)) = Len(s)
           /\ Len(s) > Len(t) => CompareCount(Len(s), Len(t)) = Len(t) + 1
           /\ \A i \in 1 .. Len(t) : Append(t, next)[i] = t[i]
           /\ Append(t, next)[Len(t) + 1] = next
<1>1. Len(s) \in Nat /\ Len(t) \in Nat /\ t \in Seq(Nat)  BY StringIs
<1>2. /\ \A i \in 1 .. Len(t) : Append(t, next)[i] = t[i]
      /\ Append(t, next)[Len(t) + 1] = next
  BY <1>1
<1> QED  BY <1>1, <1>2 DEF CompareCount

\* The first difference: all before it agree.
LEMMA FirstDifference ==
    ASSUME NEW s \in Strings, NEW t \in Strings, NEW next \in Nat,
           Differ(s, t, next) # {}
    PROVE  LET first == CHOOSE i \in Differ(s, t, next) :
                           \A j \in Differ(s, t, next) : i <= j
           IN  /\ first \in Differ(s, t, next)
               /\ \A j \in Differ(s, t, next) : first <= j
<1> DEFINE D == Differ(s, t, next)
<1>1. CompareCount(Len(s), Len(t)) \in Nat  BY Compared
<1>2. D \subseteq Nat  BY <1>1 DEF Differ
<1> HIDE DEF D
<1>3. D # {}  BY DEF D
<1>4. PICK x \in D : \A y \in D : ~ (y < x)  BY <1>2, <1>3, LeastExists
<1>5. \A y \in D : x <= y  BY <1>2, <1>4
<1> QED  BY <1>4, <1>5 DEF D

\* What __STRCMP returns, without CASE.
LEMMA StrCmpIs ==
    ASSUME NEW s \in Strings, NEW t \in Strings, NEW next \in Nat
    PROVE  LET D == Differ(s, t, next)
               first == CHOOSE i \in D : \A j \in D : i <= j
           IN  /\ s = <<>> /\ t = <<>> => StrCmp(s, t, next) = 0
               /\ s = <<>> /\ t # <<>> => StrCmp(s, t, next) = -1
               /\ s # <<>> /\ t = <<>> => StrCmp(s, t, next) = 1
               /\ s # <<>> /\ t # <<>> /\ D = {} =>
                     StrCmp(s, t, next) = IF Len(s) = Len(t) THEN 0
                                          ELSE IF Len(s) < Len(t) THEN -1 ELSE 1
               /\ s # <<>> /\ t # <<>> /\ D # {} =>
                     StrCmp(s, t, next) =
                        IF s[first] < Append(t, next)[first] THEN -1 ELSE 1
<1> DEFINE D == Differ(s, t, next)
<1> DEFINE first == CHOOSE i \in D : \A j \in D : i <= j
<1> DEFINE Ended == IF Len(s) = Len(t) THEN 0 ELSE IF Len(s) < Len(t) THEN -1 ELSE 1
<1> DEFINE Memory == Append(t, next)
<1>1. StrCmp(s, t, next) =
         CASE s = <<>> -> IF t = <<>> THEN 0 ELSE -1
           [] s # <<>> /\ t = <<>> -> 1
           [] s # <<>> /\ t # <<>> /\ D = {} -> Ended
           [] OTHER -> IF s[first] < Memory[first] THEN -1 ELSE 1
  BY DEF StrCmp, Differ
<1> HIDE DEF D, first, Ended, Memory
<1>2. /\ s = <<>> /\ t = <<>> => StrCmp(s, t, next) = 0
      /\ s = <<>> /\ t # <<>> => StrCmp(s, t, next) = -1
      /\ s # <<>> /\ t = <<>> => StrCmp(s, t, next) = 1
      /\ s # <<>> /\ t # <<>> /\ D = {} => StrCmp(s, t, next) = Ended
      /\ s # <<>> /\ t # <<>> /\ D # {} =>
            StrCmp(s, t, next) = IF s[first] < Memory[first] THEN -1 ELSE 1
  BY <1>1
<1> QED  BY <1>2 DEF D, first, Ended, Memory

\* The empty string has length 0, and no other one has.
LEMMA EmptyIs ==
    ASSUME NEW s \in Strings
    PROVE  s = <<>> <=> Len(s) = 0
BY StringIs

\* __STRCMP tells equal strings from different ones, whatever the byte after.
LEMMA StrCmpEqual ==
    ASSUME NEW s \in Strings, NEW t \in Strings, NEW next \in Nat
    PROVE  /\ StrCmp(s, t, next) \in {-1, 0, 1}
           /\ StrCmp(s, t, next) = 0 <=> s = t
<1> DEFINE D == Differ(s, t, next)
<1>1. Len(s) \in Nat /\ Len(t) \in Nat  BY StringIs
<1>2. CASE s = <<>> \/ t = <<>>
  <2>1. /\ s = <<>> /\ t = <<>> => StrCmp(s, t, next) = 0
        /\ s = <<>> /\ t # <<>> => StrCmp(s, t, next) = -1
        /\ s # <<>> /\ t = <<>> => StrCmp(s, t, next) = 1
    BY StrCmpIs
  <2> QED  BY <1>2, <2>1
<1>3. CASE s # <<>> /\ t # <<>> /\ D # {}
  <2>1. StrCmp(s, t, next) \in {-1, 1}  BY <1>3, StrCmpIs
  <2>2. ASSUME s = t PROVE FALSE
    <3>1. PICK i \in 1 .. CompareCount(Len(s), Len(t)) : s[i] # Append(t, next)[i]
      BY <1>3 DEF Differ
    <3>2. i \in 1 .. Len(t)  BY <1>1, <2>2, Compared
    <3> QED  BY <2>2, <3>1, <3>2, Compared
  <2> QED  BY <2>1, <2>2
<1>4. CASE s # <<>> /\ t # <<>> /\ D = {}
  <2>1. StrCmp(s, t, next) = IF Len(s) = Len(t) THEN 0
                             ELSE IF Len(s) < Len(t) THEN -1 ELSE 1
    BY <1>4, StrCmpIs
  <2>2. ASSUME Len(s) = Len(t) PROVE s = t
    <3>1. ASSUME NEW i \in 1 .. Len(s) PROVE s[i] = t[i]
      <4>1. i \in 1 .. CompareCount(Len(s), Len(t)) /\ i \in 1 .. Len(t)
        BY <1>1, <2>2, Compared
      <4>2. s[i] = Append(t, next)[i]  BY <1>4, <4>1 DEF Differ
      <4> QED  BY <4>1, <4>2, Compared
    <3> QED  BY <2>2, <3>1, SameString
  <2>3. s = t => Len(s) = Len(t)  OBVIOUS
  <2> QED  BY <1>1, <2>1, <2>2, <2>3
<1> HIDE DEF D
<1> QED  BY <1>2, <1>3, <1>4, Zenon

\* Unless a$ is longer and starts with b$, what __STRCMP compares holds no byte
\* but those of the two strings before the first difference and at it.
LEMMA DifferenceInside ==
    ASSUME NEW s \in Strings, NEW t \in Strings, NEW next \in Nat,
           ~ (IsPrefixOf(t, s) /\ t # s), Differ(s, t, next) # {}
    PROVE  \E k \in Differ(s, t, next) :
              /\ k = CHOOSE i \in Differ(s, t, next) :
                        \A j \in Differ(s, t, next) : i <= j
              /\ k \in Nat \ {0} /\ k <= Len(s) /\ k <= Len(t)
              /\ s[k] # t[k] /\ Append(t, next)[k] = t[k]
              /\ \A i \in 1 .. k - 1 : s[i] = t[i]
<1> DEFINE D == Differ(s, t, next)
<1> DEFINE first == CHOOSE i \in D : \A j \in D : i <= j
<1>1. first \in D /\ \A j \in D : first <= j  BY FirstDifference
<1> HIDE DEF first
<1>2. Len(s) \in Nat /\ Len(t) \in Nat  BY StringIs
<1> DEFINE count == CompareCount(Len(s), Len(t))
<1>3. /\ count \in Nat /\ count <= Len(s)
      /\ Len(s) <= Len(t) => count = Len(s)
      /\ Len(s) > Len(t) => count = Len(t) + 1
      /\ \A i \in 1 .. Len(t) : Append(t, next)[i] = t[i]
  BY Compared
<1>4. \A i : i \in D <=> i \in 1 .. count /\ s[i] # Append(t, next)[i]
  BY DEF Differ
<1> HIDE DEF D, count
<1>5. first \in Nat \ {0} /\ first <= Len(s)  BY <1>1, <1>2, <1>3, <1>4
<1>6. first <= Len(t)
  <2>1. CASE Len(s) <= Len(t)  BY <1>2, <1>5, <2>1
  <2>2. CASE Len(s) > Len(t)
    <3>1. t # s  BY <1>2, <2>2
    <3>2. PICK i \in 1 .. Len(t) : s[i] # t[i]  BY <1>2, <2>2, <3>1, PrefixIs
    <3>3. i \in D  BY <1>2, <1>3, <1>4, <2>2, <3>2
    <3> QED  BY <1>1, <1>2, <1>5, <3>2, <3>3
  <2> QED  BY <1>2, <2>1, <2>2
<1>7. Append(t, next)[first] = t[first]  BY <1>2, <1>3, <1>5, <1>6
<1>8. ASSUME NEW i \in 1 .. first - 1 PROVE s[i] = t[i]
  <2>1. i \notin D  BY <1>1, <1>5
  <2>2. i \in 1 .. count /\ i \in 1 .. Len(t)  BY <1>1, <1>2, <1>3, <1>4, <1>5, <1>6
  <2> QED  BY <1>3, <1>4, <2>1, <2>2
<1>9. s[first] # t[first]  BY <1>1, <1>4, <1>7
<1> QED  BY <1>1, <1>5, <1>6, <1>7, <1>8, <1>9 DEF first, D

\* Where they differ first decides the order.
LEMMA DifferenceDecides ==
    ASSUME NEW s \in Strings, NEW t \in Strings, NEW k \in Nat \ {0},
           k <= Len(s), k <= Len(t), s[k] # t[k],
           \A i \in 1 .. k - 1 : s[i] = t[i]
    PROVE  Before(s, t) <=> s[k] < t[k]
<1>1. Len(s) \in Nat /\ Len(t) \in Nat  BY StringIs
<1>2. ~ IsPrefixOf(s, t)  BY <1>1, PrefixIs
<1>3. ASSUME NEW i \in 1 .. Least(Len(s), Len(t))
      PROVE  /\ i \in Nat /\ i - 1 \in Nat /\ i <= Len(s) /\ i <= Len(t)
             /\ i - 1 <= Len(s) /\ i - 1 <= Len(t)
  BY <1>1
<1>4. ASSUME s[k] < t[k] PROVE Before(s, t)
  <2>1. k \in 1 .. Least(Len(s), Len(t))  BY <1>1
  <2>2. SubSeq(s, 1, k - 1) = SubSeq(t, 1, k - 1)  BY <1>3, <2>1, SameStart
  <2> QED  BY <1>4, <2>1, <2>2 DEF Before
<1>5. ASSUME Before(s, t) PROVE s[k] < t[k]
  <2>1. PICK i \in 1 .. Least(Len(s), Len(t)) :
               /\ SubSeq(s, 1, i - 1) = SubSeq(t, 1, i - 1) /\ s[i] < t[i]
    BY <1>2, <1>5 DEF Before
  <2>2. \A j \in 1 .. i - 1 : s[j] = t[j]  BY <1>3, <2>1, SameStart
  <2>3. i \in 1 .. Len(s) /\ i \in 1 .. Len(t)  BY <1>1, <1>3
  <2>4. s[i] # t[i]
    <3>1. s[i] \in Nat /\ t[i] \in Nat  BY <2>3, StringIs
    <3> QED  BY <2>1, <3>1
  <2>5. ~ (i < k)  BY <1>3, <2>4
  <2>6. ~ (k < i)  BY <1>3, <2>2
  <2>7. i = k  BY <1>3, <2>5, <2>6
  <2> QED  BY <2>1, <2>7
<1> QED  BY <1>4, <1>5

\* Unless a$ is longer and starts with b$, __STRCMP returns -1 just for a$ < b$.
LEMMA StrCmpOrder ==
    ASSUME NEW s \in Strings, NEW t \in Strings, NEW next \in Nat,
           ~ (IsPrefixOf(t, s) /\ t # s)
    PROVE  StrCmp(s, t, next) = -1 <=> Before(s, t)
<1> DEFINE D == Differ(s, t, next)
<1>1. Len(s) \in Nat /\ Len(t) \in Nat  BY StringIs
<1>2. CASE Len(s) = 0 \/ Len(t) = 0
  <2>1. /\ s = <<>> /\ t = <<>> => StrCmp(s, t, next) = 0
        /\ s = <<>> /\ t # <<>> => StrCmp(s, t, next) = -1
    BY StrCmpIs
  <2>2. s = <<>> <=> Len(s) = 0  BY EmptyIs
  <2>3. t = <<>> <=> Len(t) = 0  BY EmptyIs
  <2>4. Len(s) = 0 => (Before(s, t) <=> t # <<>>)
    BY <1>1, <2>2, <2>3, PrefixIs DEF Before
  <2>5. Len(t) = 0 => s = <<>>  BY <1>1, <2>2, <2>3, PrefixIs
  <2> QED  BY <1>2, <2>1, <2>2, <2>3, <2>4, <2>5
<1>3. CASE Len(s) # 0 /\ Len(t) # 0 /\ D # {}
  <2>1. PICK k \in D :
               /\ k = CHOOSE i \in D : \A j \in D : i <= j
               /\ k \in Nat \ {0} /\ k <= Len(s) /\ k <= Len(t)
               /\ s[k] # t[k] /\ Append(t, next)[k] = t[k]
               /\ \A i \in 1 .. k - 1 : s[i] = t[i]
    BY <1>3, DifferenceInside
  <2>2. s # <<>> /\ t # <<>>  BY <1>3, EmptyIs
  <2>3. StrCmp(s, t, next) = IF s[k] < Append(t, next)[k] THEN -1 ELSE 1
    BY <1>3, <2>1, <2>2, StrCmpIs
  <2>4. Before(s, t) <=> s[k] < t[k]  BY <2>1, DifferenceDecides
  <2> QED  BY <2>1, <2>3, <2>4
<1>4. CASE Len(s) # 0 /\ Len(t) # 0 /\ D = {}
  <2>1. s # <<>> /\ t # <<>>  BY <1>4, EmptyIs
  <2>2. StrCmp(s, t, next) = IF Len(s) = Len(t) THEN 0
                             ELSE IF Len(s) < Len(t) THEN -1 ELSE 1
    BY <1>4, <2>1, StrCmpIs
  <2>3. ASSUME NEW i \in 1 .. Len(s), i <= Len(t) PROVE s[i] = t[i]
    <3>1. i \in 1 .. CompareCount(Len(s), Len(t)) /\ i \in 1 .. Len(t)
      BY <1>1, <2>3, Compared
    <3>2. s[i] = Append(t, next)[i]  BY <1>4, <3>1 DEF Differ
    <3> QED  BY <3>1, <3>2, Compared
  <2>4. Len(s) <= Len(t)
    <3>1. SUFFICES ASSUME Len(s) > Len(t) PROVE FALSE  BY <1>1
    <3>2. IsPrefixOf(t, s)  BY <1>1, <2>3, <3>1, PrefixIs
    <3> QED  BY <1>1, <3>1, <3>2
  <2>5. IsPrefixOf(s, t)  BY <1>1, <2>3, <2>4, PrefixIs
  <2>6. CASE Len(s) < Len(t)  BY <1>1, <2>2, <2>5, <2>6 DEF Before
  <2>7. CASE Len(s) = Len(t)
    <3>1. s = t  BY <1>1, <2>3, <2>7, SameString
    <3>2. \A i \in 1 .. Len(s) : s[i] \in Nat  BY StringIs
    <3>3. ~ Before(s, t)  BY <1>1, <3>1, <3>2 DEF Before
    <3> QED  BY <2>2, <2>7, <3>3
  <2> QED  BY <1>1, <2>4, <2>6, <2>7
<1> HIDE DEF D
<1> QED  BY <1>2, <1>3, <1>4

\* The six operators, from what __STRCMP returns.
LEMMA RelationsAre ==
    ASSUME NEW c \in {-1, 0, 1}
    PROVE  /\ Relations(c).lt <=> c = -1
           /\ Relations(c).le <=> c \in {-1, 0}
           /\ Relations(c).gt <=> c = 1
           /\ Relations(c).ge <=> c \in {0, 1}
           /\ Relations(c).eq <=> c = 0
           /\ Relations(c).ne <=> c # 0
<1>1. ASSUME NEW x \in {-2, -1, 1, 2} PROVE x % 256 # 0
  <2>1. x \in Int /\ x = 256 * (x \div 256) + (x % 256)  OBVIOUS
  <2> QED  BY <2>1
<1>2. Truth(-2) /\ Truth(-1) /\ ~ Truth(0) /\ Truth(1) /\ Truth(2)
  BY <1>1, 0 % 256 = 0 DEF Truth
<1>3. CASE c = -1
  <2>1. c - 1 = -2 /\ c + 1 = 0  BY <1>3
  <2> QED  BY <1>2, <1>3, <2>1 DEF Relations, LessEqual
<1>4. CASE c = 0
  <2>1. c - 1 = -1 /\ c + 1 = 1  BY <1>4
  <2> QED  BY <1>2, <1>4, <2>1 DEF Relations, LessEqual
<1>5. CASE c = 1
  <2>1. c - 1 = 0 /\ c + 1 = 2  BY <1>5
  <2> QED  BY <1>2, <1>5, <2>1 DEF Relations, LessEqual
<1> QED  BY <1>3, <1>4, <1>5
-----------------------------------------------------------------------------
(* Slices. *)

\* A part of a string, past whose end it does not reach.
LEMMA PartIs ==
    ASSUME NEW s \in Strings, NEW m \in Int, NEW n \in Int, 1 <= m, n <= Len(s)
    PROVE  /\ Len(SubSeq(s, m, n)) = IF m <= n THEN n - m + 1 ELSE 0
           /\ \A i \in 1 .. Len(SubSeq(s, m, n)) : SubSeq(s, m, n)[i] = s[m + i - 1]
<1>1. s \in Seq(Nat) /\ Len(s) \in Nat  BY StringIs
<1>2. \A i \in m .. n : s[i] \in Nat  BY <1>1
<1>3. /\ Len(SubSeq(s, m, n)) = IF m <= n THEN n - m + 1 ELSE 0
      /\ \A i \in 1 .. n - m + 1 : SubSeq(s, m, n)[i] = s[m + i - 1]
  BY <1>2, SubSeqProperties
<1> QED  BY <1>3

\* __STRSLICE, for indices that do not wrap.
LEMMA StrSliceIs ==
    ASSUME NEW s \in Strings, NEW lo \in Nat, NEW hi \in Nat, hi <= MaxSliceIndex
    PROVE  LET kept == {i \in 1 .. Len(s) : lo < i /\ i <= hi + 1}
           IN  /\ Len(StrSlice(s, lo, hi)) = Cardinality(kept)
               /\ \A i \in 1 .. Len(StrSlice(s, lo, hi)) :
                     StrSlice(s, lo, hi)[i] = s[lo + i]
<1> DEFINE end == IF Len(s) < hi + 1 THEN Len(s) ELSE hi + 1
<1>1. Len(s) \in Nat  BY StringIs
<1>2. Words \in Nat /\ hi + 1 < Words /\ hi + 1 \in Nat
  BY StringOpsAssumption DEF MaxSliceIndex
<1>3. (hi + 1) % Words = hi + 1  BY <1>2
<1>4. StrSlice(s, lo, hi) = SubSeq(s, lo + 1, end)  BY <1>3 DEF StrSlice, SliceEnd
<1>5. end \in Int /\ end <= Len(s) /\ lo + 1 \in Int /\ 1 <= lo + 1  BY <1>1, <1>2
<1>6. {i \in 1 .. Len(s) : lo < i /\ i <= hi + 1} = (lo + 1) .. end
  BY <1>1, <1>2
<1> HIDE DEF end
<1>7. Cardinality((lo + 1) .. end) = IF lo + 1 > end THEN 0 ELSE end - (lo + 1) + 1
  BY <1>5, FS_Interval
<1>8. /\ Len(SubSeq(s, lo + 1, end)) =
            IF lo + 1 <= end THEN end - (lo + 1) + 1 ELSE 0
      /\ \A i \in 1 .. Len(SubSeq(s, lo + 1, end)) :
            SubSeq(s, lo + 1, end)[i] = s[lo + 1 + i - 1]
  BY <1>5, PartIs
<1>9. ASSUME NEW i \in 1 .. Len(SubSeq(s, lo + 1, end))
      PROVE  SubSeq(s, lo + 1, end)[i] = s[lo + i]
  <2>1. Len(SubSeq(s, lo + 1, end)) \in Nat  BY <1>5, <1>8
  <2>2. lo + 1 + i - 1 = lo + i  BY <2>1
  <2> QED  BY <1>8, <2>2
<1> DEFINE kept == {i \in 1 .. Len(s) : lo < i /\ i <= hi + 1}
<1> DEFINE text == SubSeq(s, lo + 1, end)
<1>10. Len(text) = Cardinality(kept)
  <2>1. Cardinality(kept) = IF lo + 1 > end THEN 0 ELSE end - (lo + 1) + 1
    BY <1>6, <1>7, Zenon
  <2> QED  BY <1>5, <1>8, <2>1
<1>11. \A i \in 1 .. Len(text) : text[i] = s[lo + i]  BY <1>9
<1> QED  BY <1>4, <1>10, <1>11, Zenon

\* __STRSLICE, for every index: the limit of a slice to the last one wraps.
LEMMA SliceIs ==
    ASSUME NEW s \in Strings, NEW lo \in Nat, NEW hi \in Nat, hi <= Words - 1
    PROVE  LET kept == {i \in 1 .. Len(s) : lo < i /\ i <= hi + 1}
               text == StrSlice(s, lo, hi)
           IN  /\ hi <= MaxSliceIndex => Len(text) = Cardinality(kept)
               /\ Len(text) <= Cardinality(kept)
               /\ \A i \in 1 .. Len(text) : text[i] = s[lo + i]
<1> DEFINE kept == {i \in 1 .. Len(s) : lo < i /\ i <= hi + 1}
<1> DEFINE text == StrSlice(s, lo, hi)
<1>1. Len(s) \in Nat /\ Words \in Nat  BY StringIs, StringOpsAssumption
<1>2. Cardinality(kept) \in Nat
  <2>1. IsFiniteSet(1 .. Len(s))  BY <1>1, FS_Interval
  <2>2. kept \subseteq 1 .. Len(s)  OBVIOUS
  <2> QED  BY <2>1, <2>2, FS_Subset, FS_CardinalityType
<1>3. CASE hi <= MaxSliceIndex
  <2>1. Len(text) = Cardinality(kept) /\ \A i \in 1 .. Len(text) : text[i] = s[lo + i]
    BY <1>3, StrSliceIs
  <2> HIDE DEF text, kept
  <2>2. Len(text) <= Cardinality(kept)  BY <1>2, <2>1
  <2> QED  BY <2>1, <2>2 DEF text, kept
<1>4. CASE ~ (hi <= MaxSliceIndex)
  <2>1. hi + 1 = Words /\ Words > 0
    BY <1>1, <1>4, StringOpsAssumption DEF MaxSliceIndex
  <2>2. Words % Words = 0  BY <1>1, <2>1
  <2>3. SliceEnd(Len(s), hi) = 0  BY <1>1, <2>1, <2>2 DEF SliceEnd, Least
  <2>4. Len(SubSeq(s, lo + 1, 0)) = 0  BY <1>1, PartIs
  <2>5. Len(text) = 0  BY <2>3, <2>4 DEF StrSlice
  <2> HIDE DEF text, kept
  <2>6. Len(text) <= Cardinality(kept) /\ \A i \in 1 .. Len(text) : text[i] = s[lo + i]
    BY <1>2, <2>5
  <2> QED  BY <1>4, <2>6 DEF text, kept
<1> QED  BY <1>3, <1>4

\* The compiler folds a slice of a constant to what __STRSLICE gives.
LEMMA FoldIs ==
    ASSUME NEW s \in Strings, NEW lo \in Nat, NEW hi \in Nat, hi <= MaxSliceIndex
    PROVE  ConstSlice(s, lo, hi) = StrSlice(s, lo, hi)
<1>1. s \in Seq(Nat) /\ Len(s) \in Nat  BY StringIs
<1>2. Words \in Nat /\ hi + 1 < Words /\ hi + 1 \in Nat
  BY StringOpsAssumption DEF MaxSliceIndex
<1>3. (hi + 1) % Words = hi + 1  BY <1>2
<1>4. FoldUpper(hi) = hi  BY <1>2 DEF FoldUpper, MaxSliceIndex
<1>5. SliceEnd(Len(s), hi) = Least(Len(s), hi + 1)  BY <1>3 DEF SliceEnd
<1>6. CASE lo <= hi  BY <1>4, <1>5, <1>6 DEF ConstSlice, StrSlice
<1>7. CASE lo > hi
  <2>1. SliceEnd(Len(s), hi) \in Int /\ SliceEnd(Len(s), hi) < lo + 1
    BY <1>1, <1>2, <1>5, <1>7
  <2>2. SubSeq(s, lo + 1, SliceEnd(Len(s), hi)) = <<>>
    <3> DEFINE e == SliceEnd(Len(s), hi)
    <3> HIDE DEF e
    <3>1. e \in Int /\ lo + 1 \in Int /\ e < lo + 1  BY <2>1 DEF e
    <3>2. SubSeq(s, lo + 1, e) = <<>>  BY <3>1, SubSeqEmpty
    <3> QED  BY <3>2 DEF e
  <2> QED  BY <1>4, <1>7, <2>2 DEF ConstSlice, StrSlice
<1> QED  BY <1>6, <1>7
-----------------------------------------------------------------------------
(* Assignment to a slice. *)

\* What follows a$ in memory.
Tails == [1 .. MaxLen -> Nat]

\* What memory is when nothing is assigned.
LEMMA MemoryIs ==
    ASSUME NEW s \in Strings, NEW tail \in Tails
    PROVE  /\ s \o tail \in Seq(Nat) /\ Len(s \o tail) = Len(s) + MaxLen
           /\ \A i \in 1 .. Len(s) : (s \o tail)[i] = s[i]
           /\ \A i \in 1 .. MaxLen : (s \o tail)[Len(s) + i] = tail[i]
<1>1. s \in Seq(Nat) /\ Len(s) \in Nat /\ MaxLen \in Nat
  BY StringIs, StringOpsAssumption
<1>2. tail \in Seq(Nat) /\ Len(tail) = MaxLen  BY <1>1 DEF Tails
<1>3. /\ s \o tail \in Seq(Nat) /\ Len(s \o tail) = Len(s) + Len(tail)
      /\ \A i \in 1 .. Len(s) + Len(tail) :
            (s \o tail)[i] = IF i <= Len(s) THEN s[i] ELSE tail[i - Len(s)]
  BY <1>1, <1>2, ConcatProperties
<1>4. ASSUME NEW i \in 1 .. Len(s) PROVE (s \o tail)[i] = s[i]
  BY <1>1, <1>2, <1>3
<1>5. ASSUME NEW i \in 1 .. MaxLen PROVE (s \o tail)[Len(s) + i] = tail[i]
  <2>1. /\ Len(s) + i \in 1 .. Len(s) + Len(tail)
        /\ ~ (Len(s) + i <= Len(s)) /\ Len(s) + i - Len(s) = i
    BY <1>1, <1>2
  <2> QED  BY <1>3, <2>1
<1> QED  BY <1>2, <1>3, <1>4, <1>5

\* The slices of a$ that __LETSUBSTR can give a length.
Measured(p0, p1) == p1 <= Words - 1 /\ ~ AllOfMemory(p0, p1)

\* Whether there is anything to assign.
Assigns(s, p0, p1) == ~ (s = <<>> \/ p0 > p1 \/ p0 >= Len(s))

\* The window is as long as the slice unless that is longer than the string,
\* and it is never empty.
LEMMA WindowIs ==
    ASSUME NEW s \in Strings, NEW p0 \in Nat, NEW p1 \in Nat,
           Measured(p0, p1), Assigns(s, p0, p1)
    PROVE  LET w == WindowLength(Len(s), p0, p1)
           IN  /\ w \in Nat /\ w # 0 /\ FillLength(w) = w
               /\ p1 < p0 + Len(s) => w = p1 - p0 + 1
               /\ p1 >= p0 + Len(s) => w = Len(s)
<1>1. Len(s) \in Nat /\ Len(s) # 0 /\ p0 <= p1 /\ p0 < Len(s)
  BY StringIs, EmptyIs DEF Assigns
<1>2. Words \in Nat /\ p1 <= Words - 1 /\ ~ (p0 = 0 /\ p1 = Words - 1)
  BY StringOpsAssumption DEF Measured, AllOfMemory
<1>3. p1 - p0 + 1 \in 0 .. Words - 1 /\ p1 - p0 + 1 # 0  BY <1>1, <1>2
<1>4. (p1 - p0 + 1) % Words = p1 - p0 + 1  BY <1>2, <1>3
<1>5. WindowLength(Len(s), p0, p1) = Least(Len(s), p1 - p0 + 1)
  BY <1>4 DEF WindowLength
<1> QED  BY <1>1, <1>3, <1>5 DEF FillLength

\* Each byte of a$ and after it once LET a$(p0 TO p1) = b$ is done.
LEMMA WrittenIs ==
    ASSUME NEW s \in Strings, NEW t \in Strings, NEW tail \in Tails,
           NEW p0 \in Nat, NEW p1 \in Nat, Assigns(s, p0, p1)
    PROVE  LET new == LetSubstr(s, t, tail, p0, p1)
               w == WindowLength(Len(s), p0, p1)
               copied == Copied(Len(t), w)
               memory == s \o tail
           IN  /\ new = [i \in 1 .. Len(memory) |-> new[i]]
               /\ \A i \in 1 .. Len(memory) :
                     new[i] = IF p0 < i /\ i <= p0 + copied THEN t[i - p0]
                              ELSE IF p0 < i /\ i <= p0 + FillLength(w) THEN Space
                              ELSE memory[i]
<1> DEFINE w == WindowLength(Len(s), p0, p1)
<1> DEFINE copied == Copied(Len(t), w)
<1> DEFINE memory == s \o tail
<1> DEFINE FromB(i) == p0 < i /\ i <= p0 + copied
<1> DEFINE Filled(i) == p0 < i /\ i <= p0 + FillLength(w)
<1> DEFINE Byte(i) == CASE FromB(i)                -> t[i - p0]
                        [] Filled(i) /\ ~ FromB(i) -> Space
                        [] OTHER                   -> memory[i]
<1>1. LetSubstr(s, t, tail, p0, p1) = [i \in 1 .. Len(memory) |-> Byte(i)]
  BY DEF LetSubstr, Assigns
<1>2. \A i : Byte(i) = IF FromB(i) THEN t[i - p0]
                       ELSE IF Filled(i) THEN Space ELSE memory[i]
  BY Zenon
<1> HIDE DEF Byte, FromB, Filled, memory
<1> DEFINE new == LetSubstr(s, t, tail, p0, p1)
<1>3. \A i \in 1 .. Len(memory) : new[i] = Byte(i)  BY <1>1
<1>4. new = [i \in 1 .. Len(memory) |-> new[i]]  BY <1>1
<1> QED  BY <1>2, <1>3, <1>4 DEF FromB, Filled, memory

\* The byte of a$ at each position, which is the one that LET is to leave there.
LEMMA AssignedIs ==
    ASSUME NEW s \in Strings, NEW t \in Strings, NEW tail \in Tails,
           NEW p0 \in Nat, NEW p1 \in Nat, Measured(p0, p1), NEW i \in 1 .. Len(s)
    PROVE  LetSubstr(s, t, tail, p0, p1)[i] =
              IF ~ (p0 < i /\ i <= p1 + 1) THEN s[i]
              ELSE IF i <= p0 + Len(t) THEN t[i - p0] ELSE Space
<1> DEFINE new == LetSubstr(s, t, tail, p0, p1)
<1> DEFINE w == WindowLength(Len(s), p0, p1)
<1> DEFINE copied == Copied(Len(t), w)
<1>1. Len(s) \in Nat /\ Len(t) \in Nat /\ MaxLen \in Nat
  BY StringIs, StringOpsAssumption
<1>2. (s \o tail)[i] = s[i]  BY MemoryIs
<1>3. CASE ~ Assigns(s, p0, p1)
  <2>1. new = s \o tail  BY <1>3 DEF LetSubstr, Assigns
  <2>2. ~ (p0 < i /\ i <= p1 + 1)  BY <1>1, <1>3, EmptyIs DEF Assigns
  <2> QED  BY <1>2, <2>1, <2>2
<1>4. CASE Assigns(s, p0, p1)
  <2>1. i \in 1 .. Len(s \o tail)  BY <1>1, MemoryIs
  <2>2. new[i] = IF p0 < i /\ i <= p0 + copied THEN t[i - p0]
                 ELSE IF p0 < i /\ i <= p0 + FillLength(w) THEN Space
                 ELSE s[i]
    BY <1>2, <1>4, <2>1, WrittenIs
  <2>3. /\ w \in Nat /\ w # 0 /\ FillLength(w) = w
        /\ p1 < p0 + Len(s) => w = p1 - p0 + 1
        /\ p1 >= p0 + Len(s) => w = Len(s)
    BY <1>4, WindowIs
  <2>4. copied = IF Len(t) < w THEN Len(t) ELSE w  BY DEF Copied
  <2> HIDE DEF w, copied, new
  <2>5. p0 < i /\ i <= p0 + w <=> p0 < i /\ i <= p1 + 1
    BY <1>1, <2>3
  <2>6. p0 < i /\ i <= p0 + copied <=> p0 < i /\ i <= p1 + 1 /\ i <= p0 + Len(t)
    BY <1>1, <2>3, <2>4, <2>5
  <2>7. new[i] = IF ~ (p0 < i /\ i <= p1 + 1) THEN s[i]
                 ELSE IF i <= p0 + Len(t) THEN t[i - p0] ELSE Space
    BY <2>2, <2>3, <2>5, <2>6
  <2> QED  BY <2>7 DEF new
<1> QED  BY <1>3, <1>4

\* What follows the string is written only where the slice reaches, and no further
\* past the end of the string than the slice starts after its first character.
LEMMA RestIs ==
    ASSUME NEW s \in Strings, NEW t \in Strings, NEW tail \in Tails,
           NEW p0 \in Nat, NEW p1 \in Nat, Measured(p0, p1), NEW i \in 1 .. MaxLen
    PROVE  LetSubstr(s, t, tail, p0, p1)[Len(s) + i] # tail[i] =>
              Len(s) + i <= p1 + 1 /\ i <= p0
<1> DEFINE new == LetSubstr(s, t, tail, p0, p1)
<1> DEFINE w == WindowLength(Len(s), p0, p1)
<1> DEFINE copied == Copied(Len(t), w)
<1>1. Len(s) \in Nat /\ Len(t) \in Nat /\ MaxLen \in Nat
  BY StringIs, StringOpsAssumption
<1>2. (s \o tail)[Len(s) + i] = tail[i]  BY MemoryIs
<1>3. CASE ~ Assigns(s, p0, p1)
  BY <1>2, <1>3 DEF LetSubstr, Assigns
<1>4. CASE Assigns(s, p0, p1)
  <2>1. Len(s) + i \in 1 .. Len(s \o tail)  BY <1>1, MemoryIs
  <2>2. new[Len(s) + i] =
          IF p0 < Len(s) + i /\ Len(s) + i <= p0 + copied THEN t[Len(s) + i - p0]
          ELSE IF p0 < Len(s) + i /\ Len(s) + i <= p0 + FillLength(w) THEN Space
          ELSE tail[i]
    BY <1>2, <1>4, <2>1, WrittenIs
  <2>3. /\ w \in Nat /\ FillLength(w) = w
        /\ p1 < p0 + Len(s) => w = p1 - p0 + 1
        /\ p1 >= p0 + Len(s) => w = Len(s)
    BY <1>4, WindowIs
  <2>4. copied = IF Len(t) < w THEN Len(t) ELSE w  BY DEF Copied, Least
  <2> HIDE DEF w, copied, new
  <2>5. Len(s) + i <= p0 + w => Len(s) + i <= p1 + 1 /\ i <= p0
    BY <1>1, <2>3
  <2>6. Len(s) + i <= p0 + copied => Len(s) + i <= p0 + w  BY <1>1, <2>3, <2>4
  <2>7. new[Len(s) + i] # tail[i] => Len(s) + i <= p0 + w
    BY <2>2, <2>3, <2>6, Zenon
  <2>8. new[Len(s) + i] # tail[i] => Len(s) + i <= p1 + 1 /\ i <= p0
    BY <2>5, <2>7, Zenon
  <2> QED  BY <2>8 DEF new
<1> QED  BY <1>3, <1>4

\* What memory holds afterwards is a$ and MaxLen bytes more.
LEMMA LetSubstrForm ==
    ASSUME NEW s \in Strings, NEW t \in Strings, NEW tail \in Tails,
           NEW p0 \in Nat, NEW p1 \in Nat
    PROVE  LET memory == LetSubstr(s, t, tail, p0, p1)
           IN  memory = [i \in 1 .. Len(s) + MaxLen |-> memory[i]]
<1> DEFINE memory == LetSubstr(s, t, tail, p0, p1)
<1>1. /\ s \o tail \in Seq(Nat) /\ Len(s \o tail) = Len(s) + MaxLen
  BY MemoryIs
<1>2. CASE Assigns(s, p0, p1)
  <2>1. memory = [i \in 1 .. Len(s \o tail) |-> memory[i]]  BY <1>2, WrittenIs
  <2> HIDE DEF memory
  <2>2. memory = [i \in 1 .. Len(s) + MaxLen |-> memory[i]]  BY <1>1, <2>1
  <2> QED  BY <2>2 DEF memory
<1>3. CASE ~ Assigns(s, p0, p1)
  <2>1. memory = s \o tail  BY <1>3 DEF LetSubstr, Assigns
  <2>2. \A m \in Seq(Nat) : m = [i \in 1 .. Len(m) |-> m[i]]  OBVIOUS
  <2> HIDE DEF memory
  <2>3. memory = [i \in 1 .. Len(memory) |-> memory[i]]  BY <1>1, <2>1, <2>2
  <2>4. memory = [i \in 1 .. Len(s) + MaxLen |-> memory[i]]  BY <1>1, <2>1, <2>3
  <2> QED  BY <2>4 DEF memory
<1> QED  BY <1>2, <1>3

\* The text of a$ once something is assigned to its slice.
LEMMA LetSubstrIs ==
    ASSUME NEW s \in Strings, NEW t \in Strings, NEW tail \in Tails,
           NEW p0 \in Nat, NEW p1 \in Nat, Measured(p0, p1), NEW i \in 1 .. Len(s)
    PROVE  SubSeq(LetSubstr(s, t, tail, p0, p1), 1, Len(s))[i] =
              IF ~ (p0 < i /\ i <= p1 + 1) THEN s[i]
              ELSE IF i <= p0 + Len(t) THEN t[i - p0] ELSE Space
<1> DEFINE memory == LetSubstr(s, t, tail, p0, p1)
<1>1. Len(s) \in Nat /\ MaxLen \in Nat  BY StringIs, StringOpsAssumption
<1>2. memory[i] = IF ~ (p0 < i /\ i <= p1 + 1) THEN s[i]
                  ELSE IF i <= p0 + Len(t) THEN t[i - p0] ELSE Space
  BY AssignedIs
<1>3. memory = [k \in 1 .. Len(s) + MaxLen |-> memory[k]]  BY LetSubstrForm
<1> HIDE DEF memory
<1>4. SubSeq(memory, 1, Len(s)) = [k \in 1 .. Len(s) |-> memory[k]]
  BY <1>1, <1>3
<1>5. SubSeq(memory, 1, Len(s))[i] = memory[i]  BY <1>4
<1> QED  BY <1>2, <1>5 DEF memory

\* The part of memory that follows a string.
RestOf(s, memory) == SubSeq(memory, Len(s) + 1, Len(memory))

\* What follows a$ then.
LEMMA LetSubstrRest ==
    ASSUME NEW s \in Strings, NEW t \in Strings, NEW tail \in Tails,
           NEW p0 \in Nat, NEW p1 \in Nat, Measured(p0, p1), NEW i \in 1 .. MaxLen
    PROVE  RestOf(s, LetSubstr(s, t, tail, p0, p1))[i] # tail[i] =>
              Len(s) + i <= p1 + 1 /\ i <= p0
<1> DEFINE memory == LetSubstr(s, t, tail, p0, p1)
<1>1. Len(s) \in Nat /\ MaxLen \in Nat  BY StringIs, StringOpsAssumption
<1>2. memory[Len(s) + i] # tail[i] => Len(s) + i <= p1 + 1 /\ i <= p0
  BY RestIs
<1>3. memory = [k \in 1 .. Len(s) + MaxLen |-> memory[k]]  BY LetSubstrForm
<1> HIDE DEF memory
<1>4. Len(memory) = Len(s) + MaxLen  BY <1>1, <1>3
<1>5. SubSeq(memory, Len(s) + 1, Len(s) + MaxLen) =
         [k \in 1 .. MaxLen |-> memory[Len(s) + k]]
  BY <1>1, <1>3, <1>4
<1>6. RestOf(s, memory)[i] = memory[Len(s) + i]
  BY <1>4, <1>5 DEF RestOf
<1> QED  BY <1>2, <1>6 DEF memory
-----------------------------------------------------------------------------
(* The properties of the last operation.                                     *)

\* An index is a word, that of memory's last byte at most.
LEMMA IndexIs ==
    ASSUME NEW i \in Indices
    PROVE  i \in Nat /\ i <= Words - 1
BY StringOpsAssumption DEF Indices

\* What holds before the operation, and after it.
Ready ==
    last.op = Unread =>
       a \in Strings /\ b \in Strings /\ past \in Nat /\ after \in Tails

OpInv == Ready /\ ComparisonsRight /\ SliceRight /\ FoldingAgrees /\ SliceAssignmentRight

\* Bytes are natural numbers.
LEMMA BytesAre == Bytes \subseteq Nat
BY StringOpsAssumption DEF Bytes

\* Before any operation nothing has been computed wrongly.
LEMMA InitInv == Init => OpInv
<1>1. SUFFICES ASSUME Init PROVE OpInv  OBVIOUS
<1>2. last.op = Unread  BY <1>1 DEF Init
<1>3. Unread \notin {"compare", "slice", "assign"}  BY StringOpsAssumption
<1>4. Ready  BY <1>1, BytesAre DEF Init, Ready, Tails
<1> QED
  BY <1>2, <1>3, <1>4 DEF OpInv, ComparisonsRight, EqualRight, Consistent, OrderRight,
     SliceRight, FoldingAgrees, SliceAssignmentRight, AssignmentRight, WritesWithin

\* A comparison.
LEMMA CompareStep ==
    ASSUME Ready, last.op = Unread, Compare
    PROVE  OpInv'
<1>1. a \in Strings /\ b \in Strings /\ past \in Nat  BY DEF Ready
<1> DEFINE c == StrCmp(a, b, past)
<1> DEFINE is == Relations(c)
<1>2. /\ c \in {-1, 0, 1} /\ (c = 0 <=> a = b)
  BY <1>1, StrCmpEqual
<1>3. ~ (IsPrefixOf(b, a) /\ b # a) => (c = -1 <=> Before(a, b))
  BY <1>1, StrCmpOrder
<1>4. last' = [op |-> "compare", a |-> a, b |-> b, is |-> is]  BY DEF Compare
<1> HIDE DEF c
<1>5. /\ is.lt <=> c = -1
      /\ is.le <=> c \in {-1, 0}
      /\ is.gt <=> c = 1
      /\ is.ge <=> c \in {0, 1}
      /\ is.eq <=> c = 0
      /\ is.ne <=> c # 0
  BY <1>2, RelationsAre
<1> HIDE DEF is
<1>6. last'.op = "compare" /\ last'.a = a /\ last'.b = b /\ last'.is = is  BY <1>4
<1>7. "compare" # Unread /\ "compare" # "slice" /\ "compare" # "assign"
  BY StringOpsAssumption
<1>8. EqualRight'  BY <1>2, <1>5, <1>6 DEF EqualRight
<1>9. Consistent'  BY <1>2, <1>5, <1>6 DEF Consistent
<1>10. OrderRight'  BY <1>2, <1>3, <1>5, <1>6 DEF OrderRight
<1>11. Ready'  BY <1>6, <1>7 DEF Ready
<1> QED
  BY <1>6, <1>7, <1>8, <1>9, <1>10, <1>11 DEF OpInv, ComparisonsRight, SliceRight,
     FoldingAgrees, SliceAssignmentRight, AssignmentRight, WritesWithin

\* A slice.
LEMMA SliceStep ==
    ASSUME Ready, last.op = Unread,
           NEW lo \in Indices, NEW hi \in Indices, Slice(lo, hi)
    PROVE  OpInv'
<1>1. a \in Strings  BY DEF Ready
<1>2. lo \in Nat /\ hi \in Nat /\ hi <= Words - 1  BY IndexIs
<1> DEFINE text == StrSlice(a, lo, hi)
<1> DEFINE kept == {i \in 1 .. Len(a) : lo < i /\ i <= hi + 1}
<1> DEFINE const == ConstSlice(a, lo, hi)
<1>3. /\ hi <= MaxSliceIndex => Len(text) = Cardinality(kept)
      /\ Len(text) <= Cardinality(kept)
      /\ \A i \in 1 .. Len(text) : text[i] = a[lo + i]
  BY <1>1, <1>2, SliceIs
<1>4. hi <= MaxSliceIndex => const = text  BY <1>1, <1>2, FoldIs
<1>5. last' = [op |-> "slice", a |-> a, lo |-> lo, hi |-> hi,
               text |-> text, const |-> const]
  BY DEF Slice
<1> HIDE DEF text, const
<1>6. /\ last'.op = "slice" /\ last'.a = a /\ last'.lo = lo /\ last'.hi = hi
      /\ last'.text = text /\ last'.const = const
  BY <1>5
<1>7. "slice" # Unread /\ "slice" # "compare" /\ "slice" # "assign"
  BY StringOpsAssumption
<1>8. SliceRight'  BY <1>3, <1>6 DEF SliceRight
<1>9. FoldingAgrees'  BY <1>4, <1>6 DEF FoldingAgrees
<1>10. Ready'  BY <1>6, <1>7 DEF Ready
<1> QED
  BY <1>6, <1>7, <1>8, <1>9, <1>10 DEF OpInv, ComparisonsRight, EqualRight,
     Consistent, OrderRight, SliceAssignmentRight, AssignmentRight, WritesWithin

\* An assignment to a slice.
LEMMA AssignStep ==
    ASSUME Ready, last.op = Unread,
           NEW p0 \in Indices, NEW p1 \in Indices, AssignSlice(p0, p1)
    PROVE  OpInv'
<1>1. a \in Strings /\ b \in Strings /\ after \in Tails  BY DEF Ready
<1>2. p0 \in Nat /\ p1 \in Nat /\ p1 <= Words - 1  BY IndexIs
<1> DEFINE memory == LetSubstr(a, b, after, p0, p1)
<1> DEFINE text == SubSeq(memory, 1, Len(a))
<1> DEFINE rest == RestOf(a, memory)
<1>3. ASSUME ~ AllOfMemory(p0, p1)
      PROVE  /\ \A i \in 1 .. Len(a) :
                   text[i] = IF ~ (p0 < i /\ i <= p1 + 1) THEN a[i]
                             ELSE IF i <= p0 + Len(b) THEN b[i - p0] ELSE Space
             /\ \A i \in 1 .. MaxLen :
                   rest[i] # after[i] => Len(a) + i <= p1 + 1 /\ i <= p0
  <2>1. Measured(p0, p1)  BY <1>2, <1>3 DEF Measured
  <2> HIDE DEF Measured
  <2>2. \A i \in 1 .. Len(a) :
           text[i] = IF ~ (p0 < i /\ i <= p1 + 1) THEN a[i]
                     ELSE IF i <= p0 + Len(b) THEN b[i - p0] ELSE Space
    BY ONLY <1>1, <1>2, <2>1, LetSubstrIs
  <2>3. \A i \in 1 .. MaxLen :
           rest[i] # after[i] => Len(a) + i <= p1 + 1 /\ i <= p0
    BY ONLY <1>1, <1>2, <2>1, LetSubstrRest
  <2> QED  BY <2>2, <2>3
<1>4. last' = [op |-> "assign", a |-> a, b |-> b, after |-> after, p0 |-> p0,
               p1 |-> p1, text |-> text, tail |-> rest]
  BY <1>1 DEF AssignSlice, RestOf
<1> HIDE DEF text, rest
<1>5. /\ last'.op = "assign" /\ last'.a = a /\ last'.b = b /\ last'.p0 = p0
      /\ last'.p1 = p1 /\ last'.text = text /\ last'.tail = rest
      /\ last'.after = after
  BY <1>4
<1>6. "assign" # Unread /\ "assign" # "compare" /\ "assign" # "slice"
  BY StringOpsAssumption
<1>7. ASSUME ~ AllOfMemory(p0, p1), NEW i \in 1 .. Len(a)
      PROVE  text[i] =
               CASE ~ (p0 < i /\ i <= p1 + 1) -> a[i]
                 [] p0 < i /\ i <= p1 + 1 /\ i <= p0 + Len(b) -> b[i - p0]
                 [] OTHER -> Space
  <2>1. text[i] = IF ~ (p0 < i /\ i <= p1 + 1) THEN a[i]
                  ELSE IF i <= p0 + Len(b) THEN b[i - p0] ELSE Space
    BY <1>3, <1>7
  <2> QED  BY <2>1
<1>8. AssignmentRight'  BY <1>5, <1>7 DEF AssignmentRight, AllOfMemory
<1>9. WritesWithin'  BY <1>3, <1>5 DEF WritesWithin, AllOfMemory
<1>10. Ready'  BY <1>5, <1>6 DEF Ready
<1> QED
  BY <1>5, <1>6, <1>8, <1>9, <1>10 DEF OpInv, ComparisonsRight, EqualRight,
     Consistent, OrderRight, SliceRight, FoldingAgrees, SliceAssignmentRight

\* Every operation gives what its operator does, and that is right.
LEMMA NextInv ==
    ASSUME OpInv, [Next]_vars
    PROVE  OpInv'
<1>1. Ready  BY DEF OpInv
<1>2. CASE Next
  <2>1. last.op = Unread  BY <1>2 DEF Next
  <2>2. CASE Compare  BY <1>1, <2>1, <2>2, CompareStep
  <2>3. CASE \E lo, hi \in Indices : Slice(lo, hi)
    BY <1>1, <2>1, <2>3, SliceStep
  <2>4. CASE \E lo, hi \in Indices : AssignSlice(lo, hi)
    BY <1>1, <2>1, <2>4, AssignStep
  <2> QED  BY <1>2, <2>2, <2>3, <2>4 DEF Next
<1>3. CASE UNCHANGED vars
  <2>1. OpInv  OBVIOUS
  <2> QED
    BY <1>3, <2>1 DEF vars, OpInv, Ready, ComparisonsRight, EqualRight, Consistent,
       OrderRight, SliceRight, FoldingAgrees, SliceAssignmentRight, AssignmentRight,
       WritesWithin
<1> QED  BY <1>2, <1>3

\* What holds of comparisons does whatever the indices of a program are.
LEMMA ComparisonNext ==
    ASSUME Ready, ComparisonsRight, [Next]_vars
    PROVE  Ready' /\ ComparisonsRight'
<1>1. CASE Next
  <2>1. last.op = Unread  BY <1>1 DEF Next
  <2>2. CASE Compare  BY <2>1, <2>2, CompareStep DEF OpInv
  <2>3. ASSUME last'.op \in {"slice", "assign"} PROVE Ready' /\ ComparisonsRight'
    <3>1. last'.op # Unread /\ last'.op # "compare"  BY <2>3, StringOpsAssumption
    <3> QED
      BY <3>1 DEF Ready, ComparisonsRight, EqualRight, Consistent, OrderRight
  <2>4. CASE \E lo, hi \in Indices : Slice(lo, hi)  BY <2>3, <2>4 DEF Slice
  <2>5. CASE \E lo, hi \in Indices : AssignSlice(lo, hi)
    BY <2>3, <2>5 DEF AssignSlice
  <2> QED  BY <1>1, <2>2, <2>4, <2>5 DEF Next
<1>2. CASE UNCHANGED vars
  BY <1>2 DEF vars, Ready, ComparisonsRight, EqualRight, Consistent, OrderRight
<1> QED  BY <1>1, <1>2

\* The six comparison operators are right for all strings, but for the order of
\* a longer a$ that starts with b$.
THEOREM ComparisonsAlways == Spec => []ComparisonsRight
<1>1. Init => Ready /\ ComparisonsRight  BY InitInv DEF OpInv
<1>2. Ready /\ ComparisonsRight /\ [Next]_vars => Ready' /\ ComparisonsRight'
  BY ComparisonNext
<1> QED  BY <1>1, <1>2, PTL DEF Spec

\* A slice has the characters of the string from lo to hi and no others, for all
\* strings and indices; none are missing unless the upper limit wraps.
THEOREM SlicesAlways == Spec => []SliceRight
<1>1. OpInv => SliceRight  BY DEF OpInv
<1>2. OpInv /\ [Next]_vars => OpInv'  BY NextInv
<1> QED  BY <1>1, <1>2, InitInv, PTL DEF Spec

\* Folding a slice at compile time changes nothing, unless the limit wraps.
THEOREM FoldingAlways == Spec => []FoldingAgrees
<1>1. OpInv => FoldingAgrees  BY DEF OpInv
<1>2. OpInv /\ [Next]_vars => OpInv'  BY NextInv
<1> QED  BY <1>1, <1>2, InitInv, PTL DEF Spec

\* Assignment to a slice changes the characters of the slice and no others; past
\* the string it writes only what the slice names, and p0 bytes at the most.
THEOREM SliceAssignmentsAlways == Spec => []SliceAssignmentRight
<1>1. OpInv => SliceAssignmentRight  BY DEF OpInv
<1>2. OpInv /\ [Next]_vars => OpInv'  BY NextInv
<1> QED  BY <1>1, <1>2, InitInv, PTL DEF Spec
=============================================================================
