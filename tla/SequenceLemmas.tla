--------------------------- MODULE SequenceLemmas --------------------------
(* Lemmas about sequences of anything and about natural numbers that the    *)
(* proofs of several components need.                                       *)
EXTENDS Integers, Sequences, SequenceTheorems, WellFoundedInduction, TLAPS

IsSeq(s) == \E S : s \in Seq(S)

\* What Append gives.
LEMMA AppendIs ==
    ASSUME NEW s, NEW e, IsSeq(s)
    PROVE  /\ IsSeq(Append(s, e)) /\ Len(Append(s, e)) = Len(s) + 1
           /\ \A k \in 1..Len(s) : Append(s, e)[k] = s[k]
           /\ Append(s, e)[Len(s) + 1] = e
<1>1. PICK S : s \in Seq(S)  BY DEF IsSeq
<1>2. s \in Seq(S \cup {e})  BY <1>1, SeqMonotonic
<1>3. e \in S \cup {e}  OBVIOUS
<1> QED  BY <1>2, <1>3, AppendProperties DEF IsSeq

\* What the first element of a sequence is, after one more.
LEMMA FirstIs ==
    ASSUME NEW s, IsSeq(s), NEW instr
    PROVE  /\ Append(s, instr) # <<>> /\ IsSeq(Append(s, instr))
           /\ s # <<>> => Append(s, instr)[1] = s[1]
           /\ s = <<>> => Append(s, instr)[1] = instr
<1>1. PICK t : t = Append(s, instr)  OBVIOUS
<1>2. /\ IsSeq(t) /\ Len(t) = Len(s) + 1 /\ \A k \in 1 .. Len(s) : t[k] = s[k] /\ t[Len(s) + 1] = instr
      /\ Len(s) \in Nat /\ (s = <<>> <=> Len(s) = 0) /\ (t = <<>> <=> Len(t) = 0)
  <2>1. IsSeq(t) /\ Len(t) = Len(s) + 1 /\ \A k \in 1 .. Len(s) : t[k] = s[k]  BY <1>1, AppendIs
  <2>2. t[Len(s) + 1] = instr  BY <1>1, AppendIs
  <2>3. Len(s) \in Nat /\ (s = <<>> <=> Len(s) = 0)  BY DEF IsSeq
  <2>4. t = <<>> <=> Len(t) = 0  BY <2>1 DEF IsSeq
  <2> QED  BY <2>1, <2>2, <2>3, <2>4
<1>3. t # <<>>  BY <1>2
<1>4. s # <<>> => t[1] = s[1]
  <2>1. s # <<>> => 1 \in 1 .. Len(s)  BY <1>2
  <2> QED  BY <1>2, <2>1
<1>5. s = <<>> => t[1] = instr
  <2>1. t[Len(s) + 1] = instr  BY <1>1, AppendIs
  <2>2. s = <<>> => Len(s) + 1 = 1  BY <1>2
  <2> QED  BY <2>1, <2>2
<1> QED  BY <1>1, <1>2, <1>3, <1>4, <1>5

\* What a sequence is without its last element.
LEMMA DroppedIs ==
    ASSUME NEW S, NEW s \in Seq(S), Len(s) > 0
    PROVE  /\ SubSeq(s, 1, Len(s) - 1) \in Seq(S)
           /\ Len(SubSeq(s, 1, Len(s) - 1)) = Len(s) - 1
           /\ \A k \in 1..Len(s) - 1 : SubSeq(s, 1, Len(s) - 1)[k] = s[k]
<1> DEFINE n == Len(s) - 1
<1>1. Len(s) \in Nat /\ \A k \in 1..Len(s) : s[k] \in S  BY ElementOfSeq
<1>2. n \in Int /\ 1 \in Int /\ \A i \in 1..n : s[i] \in S  BY <1>1
<1>3. n >= 0 /\ n - 1 + 1 = n  BY <1>1
<1>4. \A i \in 1..n : 1 + i - 1 = i  OBVIOUS
<1> HIDE DEF n
<1>5. /\ SubSeq(s, 1, n) \in Seq(S)
      /\ Len(SubSeq(s, 1, n)) = IF 1 <= n THEN n - 1 + 1 ELSE 0
      /\ \A i \in 1..n - 1 + 1 : SubSeq(s, 1, n)[i] = s[1 + i - 1]
  BY <1>2, SubSeqProperties
<1> QED  BY <1>3, <1>4, <1>5 DEF n

\* What two sequences joined are.
LEMMA JoinIs ==
    ASSUME NEW s, NEW t, IsSeq(s), IsSeq(t)
    PROVE  /\ IsSeq(s \o t) /\ Len(s \o t) = Len(s) + Len(t) /\ Len(s) \in Nat /\ Len(t) \in Nat
           /\ \A i \in 1..Len(s) : (s \o t)[i] = s[i]
           /\ \A i \in 1..Len(t) : (s \o t)[Len(s) + i] = t[i]
<1>1. PICK S, T : s \in Seq(S) /\ t \in Seq(T)  BY DEF IsSeq
<1>2. s \in Seq(S \cup T) /\ t \in Seq(S \cup T)  BY <1>1, SeqMonotonic
<1>3. s \o t \in Seq(S \cup T) /\ Len(s \o t) = Len(s) + Len(t) /\ Len(s) \in Nat /\ Len(t) \in Nat
  BY <1>2
<1>4. \A i \in 1..Len(s) + Len(t) : (s \o t)[i] = IF i <= Len(s) THEN s[i] ELSE t[i - Len(s)]
  BY <1>2
<1>5. \A i \in 1..Len(s) : (s \o t)[i] = s[i]  BY <1>3, <1>4
<1>6. ASSUME NEW i \in 1..Len(t) PROVE (s \o t)[Len(s) + i] = t[i]
  <2>1. Len(s) + i \in 1..Len(s) + Len(t) /\ ~(Len(s) + i <= Len(s)) /\ Len(s) + i - Len(s) = i  BY <1>3
  <2> QED  BY <2>1, <1>4
<1> QED  BY <1>3, <1>5, <1>6 DEF IsSeq

\* A set of natural numbers that is not empty has a least element.
LEMMA LeastExists ==
    ASSUME NEW T \in SUBSET Nat, T # {}
    PROVE  \E x \in T : \A y \in T : ~ (y < x)
<1> DEFINE R == OpToRel(<, Nat)
<1>1. IsWellFoundedOn(R, Nat)  BY NatLessThanWellFounded
<1> HIDE DEF R
<1>2. \E x \in T : \A y \in T : ~ (<<y, x>> \in R)  BY <1>1, WFMin, Zenon
<1>3. \A x, y \in Nat : y < x => <<y, x>> \in R  BY DEF R, OpToRel
<1> QED  BY <1>2, <1>3

\* A set of numbers up to m has a greatest one.
LEMMA GreatestExists ==
    ASSUME NEW m \in Nat, NEW S \in SUBSET (0 .. m), S # {}
    PROVE  \E h \in S : \A y \in S : h >= y
<1> DEFINE T == {m - y : y \in S}
<1>1. T \in SUBSET Nat /\ T # {}
  <2>1. \A y \in S : m - y \in Nat  OBVIOUS
  <2> QED  BY <2>1
<1>2. PICK t \in T : \A y \in T : ~ (y < t)  BY <1>1, LeastExists
<1>3. PICK h \in S : t = m - h  OBVIOUS
<1>4. ASSUME NEW y \in S PROVE h >= y
  <2>1. m - y \in T  OBVIOUS
  <2>2. ~ (m - y < m - h)  BY <2>1, <1>2, <1>3
  <2>3. y \in Nat /\ h \in Nat  OBVIOUS
  <2> HIDE DEF T
  <2> QED  BY <2>2, <2>3
<1> QED  BY <1>4

\* Induction over the natural numbers.
LEMMA SetInduction ==
    ASSUME NEW T, 0 \in T, \A n \in Nat : n \in T => n + 1 \in T
    PROVE  Nat \subseteq T
<1> DEFINE C == Nat \ T
<1>1. SUFFICES ASSUME C # {} PROVE FALSE  OBVIOUS
<1>2. PICK x \in C : \A y \in C : ~ (y < x)  BY <1>1, LeastExists
<1>3. x # 0  OBVIOUS
<1>4. x - 1 \in Nat /\ x - 1 < x /\ x - 1 + 1 = x  BY <1>3
<1>5. x - 1 \in T  BY <1>2, <1>4
<1> QED  BY <1>4, <1>5
=============================================================================
