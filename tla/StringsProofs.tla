--------------------------- MODULE StringsProofs ---------------------------
(* Proofs about Strings, for any variables, blocks, lengths and slack: no    *)
(* text is written beyond its block, even when memory runs out; and as long  *)
(* as it does not, every block has one owner and the texts are those that    *)
(* BASIC says.                                                               *)
(*                                                                           *)
(* The pointers of the variables and of the stack are all different, and     *)
(* together they are the blocks of the heap.  A block is never much longer   *)
(* than its text: without that, a$ = a$ would free the text before copying   *)
(* it.                                                                       *)
EXTENDS Strings, FiniteSetTheorems, SequenceTheorems, TLAPS

Letters == Chars \union {"?"}
Texts == Seq(Letters)
Pointers == Ptrs \union {Null, Literal}
Blocks == [room : Nat, text : Texts]

HeapOK(h) == h \in [DOMAIN h -> Blocks] /\ DOMAIN h \subseteq Ptrs

\* Every block holds its text, and not much more.
Tight(h) == \A p \in DOMAIN h : h[p].room \in Len(h[p].text) .. Len(h[p].text) + Waste

TypeInv ==
    /\ HeapOK(heap)
    /\ lit \in Texts
    /\ var \in [Vars -> Pointers]
    /\ stack \in Seq(Pointers)
    /\ val \in [Vars -> Texts]
    /\ tval \in Seq(Texts)
    /\ Len(tval) = Len(stack)

TightInv == TypeInv /\ Tight(heap)

\* The owners' pointers are different, and are the blocks of the heap.
Distinct ==
    /\ \A v, w \in Vars : var[v] = var[w] => v = w \/ var[v] = Null
    /\ \A i, j \in 1 .. Len(stack) : stack[i] = stack[j] => i = j \/ stack[i] = Null
    /\ \A v \in Vars, i \in 1 .. Len(stack) : var[v] = stack[i] => var[v] = Null

AllOwned ==
    /\ \A v \in Vars : var[v] \in {Null} \union DOMAIN heap
    /\ \A i \in 1 .. Len(stack) : stack[i] \in {Null} \union DOMAIN heap
    /\ \A p \in DOMAIN heap : \/ \E v \in Vars : var[v] = p
                              \/ \E i \in 1 .. Len(stack) : stack[i] = p

OwnersInv == TightInv /\ Distinct /\ AllOwned /\ ValuesRight
-----------------------------------------------------------------------------
(* What the routines do, without the bytes.                                  *)

\* Heap h with block p, of r bytes and text t.
With(h, p, r, t) ==
    [q \in DOMAIN h \union {p} |-> IF q = p THEN [room |-> r, text |-> t] ELSE h[q]]

\* Outcome o is a new block with text t.
Made(h, o, t) ==
    \E p \in Ptrs \ DOMAIN h, r \in Len(t) .. Len(t) + Waste : o = Outcome(With(h, p, r, t), p)

\* What a pointer's text is.
LEMMA TextIs ==
    ASSUME NEW h, HeapOK(h)
    PROVE  /\ Text(h, Null) = <<>> /\ Text(h, Literal) = lit
           /\ \A p \in DOMAIN h : Text(h, p) = h[p].text
           /\ \A p \in Ptrs \ DOMAIN h : Text(h, p) = Garbage
  BY StringsAssumption DEF Text, HeapOK, Empty

\* Texts are sequences of letters.
LEMMA TextType ==
    ASSUME TypeInv, NEW h, HeapOK(h), NEW p \in Pointers
    PROVE  Text(h, p) \in Texts /\ Len(Text(h, p)) \in Nat
<1>1. Garbage \in Texts /\ <<>> \in Texts  BY DEF Garbage, Texts, Letters
<1>2. \A q \in DOMAIN h : h[q].text \in Texts  BY DEF HeapOK, Blocks
<1>3. Text(h, p) \in Texts  BY <1>1, <1>2, TextIs DEF TypeInv, Pointers
<1> QED  BY <1>3 DEF Texts

\* Freeing forgets one block and keeps the others.
LEMMA FreeIs ==
    ASSUME NEW h, HeapOK(h), NEW p
    PROVE  /\ HeapOK(Free(h, p)) /\ DOMAIN Free(h, p) = DOMAIN h \ {p}
           /\ \A q \in DOMAIN h \ {p} : Free(h, p)[q] = h[q]
           /\ Tight(h) => Tight(Free(h, p))
  BY DEF Free, HeapOK, Tight

\* A new block is one more, and the others are kept.
LEMMA WithIs ==
    ASSUME NEW h, HeapOK(h), NEW p \in Ptrs, NEW r \in Nat, NEW t \in Texts
    PROVE  /\ HeapOK(With(h, p, r, t)) /\ DOMAIN With(h, p, r, t) = DOMAIN h \union {p}
           /\ With(h, p, r, t)[p] = [room |-> r, text |-> t]
           /\ \A q \in DOMAIN h \ {p} : With(h, p, r, t)[q] = h[q]
           /\ Tight(h) /\ r \in Len(t) .. Len(t) + Waste => Tight(With(h, p, r, t))
<1>1. [room |-> r, text |-> t] \in Blocks  BY DEF Blocks
<1> QED  BY <1>1 DEF With, HeapOK, Tight

\* An allocation takes a block that is free, or fails.
LEMMA AllocIs ==
    ASSUME NEW h, HeapOK(h), NEW n \in Nat, NEW o \in Alloc(h, n)
    PROVE  \/ MayFail /\ o = Outcome(h, Null)
           \/ \E p \in Ptrs \ DOMAIN h, r \in n .. n + Waste : o = Outcome(With(h, p, r, Garbage), p)
<1>1. CASE o \in IF MayFail THEN {Outcome(h, Null)} ELSE {}  BY <1>1
<1>2. ASSUME NEW p \in Ptrs \ DOMAIN h, NEW more \in Slack,
             o = Outcome([q \in DOMAIN h \union {p} |->
                            IF q = p THEN [room |-> n + more, text |-> Garbage] ELSE h[q]], p)
      PROVE  \E r \in n .. n + Waste : o = Outcome(With(h, p, r, Garbage), p)
  <2>1. n + more \in n .. n + Waste  BY StringsAssumption
  <2> QED  BY <1>2, <2>1 DEF With
<1>3. CASE o \notin IF MayFail THEN {Outcome(h, Null)} ELSE {}
  <2>1. PICK p \in Ptrs \ DOMAIN h, more \in Slack :
           o = Outcome([q \in DOMAIN h \union {p} |->
                          IF q = p THEN [room |-> n + more, text |-> Garbage] ELSE h[q]], p)
    BY <1>3 DEF Alloc
  <2> QED  BY <2>1, <1>2
<1> QED  BY <1>1, <1>3

\* Writing a new block's text.
LEMMA WriteNew ==
    ASSUME NEW h, NEW p, NEW r, NEW s, NEW t
    PROVE  Write(With(h, p, r, s), p, t) = With(h, p, r, t)
<1> DEFINE b == [room |-> r, text |-> s]
           H == With(h, p, r, s)
<1>1. H[p] = b /\ DOMAIN H = DOMAIN h \union {p} /\ \A q \in DOMAIN h \ {p} : H[q] = h[q]
  BY DEF With
<1>2. [b EXCEPT !.text = t] = [room |-> r, text |-> t]  OBVIOUS
<1>3. Write(H, p, t) = [q \in DOMAIN H |-> IF q = p THEN [H[p] EXCEPT !.text = t] ELSE H[q]]
  BY DEF Write
<1> HIDE DEF b, H
<1>4. Write(H, p, t) = [q \in DOMAIN h \union {p} |->
                          IF q = p THEN [room |-> r, text |-> t] ELSE h[q]]
  BY <1>1, <1>2, <1>3
<1> QED  BY <1>4 DEF H, With

\* A block made with its text.
LEMMA MadeIs ==
    ASSUME NEW h, HeapOK(h), NEW t \in Texts, NEW n \in Nat, n = Len(t),
           NEW o \in Alloc(h, n), o.ptr # Null
    PROVE  Made(h, Outcome(Write(o.heap, o.ptr, t), o.ptr), t)
<1>1. PICK p \in Ptrs \ DOMAIN h, r \in n .. n + Waste : o = Outcome(With(h, p, r, Garbage), p)
  BY AllocIs DEF Outcome
<1>2. o.heap = With(h, p, r, Garbage) /\ o.ptr = p  BY <1>1 DEF Outcome
<1>3. Write(o.heap, o.ptr, t) = With(h, p, r, t)  BY <1>2, WriteNew
<1> QED  BY <1>2, <1>3 DEF Made

\* An allocation that fails leaves the heap as it was.
LEMMA FailedIs ==
    ASSUME NEW h, HeapOK(h), NEW n \in Nat, NEW o \in Alloc(h, n), o.ptr = Null
    PROVE  MayFail /\ o = Outcome(h, Null)
  BY AllocIs, StringsAssumption DEF Outcome

\* LoadStr gives a copy.
LEMMA LoadIs ==
    ASSUME TypeInv, NEW h, HeapOK(h), NEW p \in Pointers, NEW o \in LoadStr(h, p)
    PROVE  \/ o = Outcome(h, Null) /\ (p = Null \/ MayFail)
           \/ p # Null /\ Made(h, o, Text(h, p))
<1>1. CASE p = Null  BY <1>1 DEF LoadStr
<1>2. CASE p # Null
  <2>1. PICK a \in Alloc(h, Len(Text(h, p))) :
           o = IF a.ptr = Null THEN a ELSE Outcome(Write(a.heap, a.ptr, Text(h, p)), a.ptr)
    BY <1>2 DEF LoadStr
  <2>2. Text(h, p) \in Texts /\ Len(Text(h, p)) \in Nat  BY TextType
  <2>3. CASE a.ptr = Null  BY <2>1, <2>2, <2>3, FailedIs
  <2>4. CASE a.ptr # Null
    <3>1. Made(h, Outcome(Write(a.heap, a.ptr, Text(h, p)), a.ptr), Text(h, p))
      BY <2>2, <2>4, MadeIs
    <3> QED  BY <1>2, <2>1, <2>4, <3>1
  <2> QED  BY <2>3, <2>4
<1> QED  BY <1>1, <1>2

\* AddStr gives the two texts in a new block, or its first operand.
LEMMA AddIs ==
    ASSUME TypeInv, NEW h, HeapOK(h), NEW a \in Pointers, NEW b \in Pointers,
           NEW o \in AddStr(h, a, b)
    PROVE  \/ MayFail /\ o = Outcome(h, a)
           \/ Made(h, o, Text(h, a) \o Text(h, b))
<1> DEFINE t == Text(h, a) \o Text(h, b)
<1>1. Text(h, a) \in Texts /\ Text(h, b) \in Texts  BY TextType
<1>2. t \in Texts /\ Len(t) \in Nat  BY <1>1 DEF Texts
<1>3. PICK n \in Alloc(h, Len(t)) :
         o = IF n.ptr = Null THEN Outcome(n.heap, a) ELSE Outcome(Write(n.heap, n.ptr, t), n.ptr)
  BY DEF AddStr
<1> HIDE DEF t
<1>4. CASE n.ptr = Null
  <2>1. MayFail /\ n.heap = h  BY <1>2, <1>4, FailedIs DEF Outcome
  <2> QED  BY <1>3, <1>4, <2>1
<1>5. CASE n.ptr # Null
  <2>1. Made(h, Outcome(Write(n.heap, n.ptr, t), n.ptr), t)  BY <1>2, <1>5, MadeIs
  <2> QED  BY <1>3, <1>5, <2>1 DEF t
<1> QED  BY <1>4, <1>5

\* A part of a text is one.
LEMMA CutType ==
    ASSUME NEW t \in Texts, NEW lo \in Nat, NEW hi \in Nat
    PROVE  Cut(t, lo, hi) \in Texts /\ Len(Cut(t, lo, hi)) \in Nat
  BY DEF Cut, Texts

\* StrSlice gives the part in a new block, or NULL for none.
LEMMA SliceIs ==
    ASSUME TypeInv, NEW h, HeapOK(h), NEW p \in Pointers, NEW lo \in Nat, NEW hi \in Nat,
           NEW o \in StrSlice(h, p, lo, hi)
    PROVE  \/ o = Outcome(h, Null) /\ (Cut(Text(h, p), lo, hi) = <<>> \/ MayFail)
           \/ Made(h, o, Cut(Text(h, p), lo, hi))
<1> DEFINE t == Cut(Text(h, p), lo, hi)
<1>1. t \in Texts /\ Len(t) \in Nat  BY TextType, CutType
<1>2. CASE t = Empty  BY <1>2 DEF StrSlice, Empty
<1>3. CASE t # Empty
  <2>1. PICK a \in Alloc(h, Len(t)) :
           o = IF a.ptr = Null THEN a ELSE Outcome(Write(a.heap, a.ptr, t), a.ptr)
    BY <1>3 DEF StrSlice
  <2> HIDE DEF t
  <2>2. CASE a.ptr = Null
    <3>1. MayFail /\ a = Outcome(h, Null)  BY <1>1, <2>2, FailedIs
    <3> QED  BY <2>1, <2>2, <3>1
  <2>3. CASE a.ptr # Null
    <3>1. Made(h, Outcome(Write(a.heap, a.ptr, t), a.ptr), t)  BY <1>1, <2>3, MadeIs
    <3> QED  BY <2>1, <2>3, <3>1 DEF t
  <2> QED  BY <2>2, <2>3
<1> QED  BY <1>2, <1>3

\* StrAssign writes the text into the block the variable has, or into a new
\* one in its place; b's own block is never freed before it is copied, since
\* a text always fits the block it is in.
LEMMA AssignIs ==
    ASSUME TypeInv, NEW h, HeapOK(h), Tight(h), NEW a \in Pointers, NEW b \in Pointers,
           NEW o \in StrAssign(h, a, b)
    PROVE  \/ Fits(h, a, Len(Text(h, b))) /\ o = Outcome(Write(h, a, Text(h, b)), a)
           \/ Made(Free(h, a), o, Text(h, b))
           \/ MayFail /\ o = Outcome(Free(h, a), b)
<1> DEFINE t == Text(h, b)
           n == Len(t)
<1>1. t \in Texts /\ n \in Nat  BY TextType
<1>2. \A q \in DOMAIN h : h[q].text \in Texts /\ Len(h[q].text) \in Nat /\ h[q].room \in Nat
  BY DEF HeapOK, Blocks, Texts
<1>3. CASE Fits(h, a, n)
  <2>1. o = IF a = Null THEN Outcome(h, b) ELSE Outcome(Write(h, a, t), a)
    BY <1>3 DEF StrAssign, Outcome
  <2>2. a # Null  BY <1>3, StringsAssumption DEF Fits, HeapOK
  <2> QED  BY <1>3, <2>1, <2>2
<1>4. CASE ~ Fits(h, a, n)
  <2> DEFINE f == Free(h, a)
  <2>1. HeapOK(f) /\ DOMAIN f = DOMAIN h \ {a} /\ \A q \in DOMAIN h \ {a} : f[q] = h[q]
    BY FreeIs
  <2>2. PICK m \in Alloc(f, n) :
           o = IF m.ptr = Null THEN Outcome(m.heap, b)
               ELSE Outcome(Write(m.heap, m.ptr, Text(m.heap, b)), m.ptr)
    BY <1>4 DEF StrAssign, ReallocStr
  <2> HIDE DEF f
  <2>3. CASE m.ptr = Null
    <3>1. MayFail /\ m.heap = f  BY <1>1, <2>1, <2>3, FailedIs DEF Outcome
    <3> QED  BY <2>2, <2>3, <3>1 DEF f
  <2>4. CASE m.ptr # Null
    <3>1. PICK p \in Ptrs \ DOMAIN f, r \in n .. n + Waste :
             m = Outcome(With(f, p, r, Garbage), p)
      BY <1>1, <2>1, <2>4, AllocIs DEF Outcome
    <3>2. m.heap = With(f, p, r, Garbage) /\ m.ptr = p  BY <3>1 DEF Outcome
    <3>3. Garbage \in Texts /\ r \in Nat  BY <1>1, StringsAssumption DEF Garbage, Texts, Letters
    <3>4. /\ HeapOK(m.heap) /\ DOMAIN m.heap = DOMAIN f \union {p}
          /\ m.heap[p].text = Garbage
          /\ \A q \in DOMAIN f \ {p} : m.heap[q] = f[q]
      <4>1. p \in Ptrs /\ HeapOK(f) /\ Garbage \in Texts /\ r \in Nat  BY <2>1, <3>1, <3>3
      <4> HIDE DEF t, n
      <4>2. HeapOK(With(f, p, r, Garbage))  BY <4>1, WithIs
      <4>3. DOMAIN With(f, p, r, Garbage) = DOMAIN f \union {p}  BY <4>1, WithIs
      <4>4. With(f, p, r, Garbage)[p].text = Garbage  BY DEF With
      <4>5. \A q \in DOMAIN f \ {p} : With(f, p, r, Garbage)[q] = f[q]  BY DEF With
      <4> QED  BY <3>2, <4>2, <4>3, <4>4, <4>5
    <3>5. ~ (b = a /\ b \in DOMAIN h)
      <4>1. SUFFICES ASSUME b = a, b \in DOMAIN h  PROVE FALSE  OBVIOUS
      <4>2. t = h[a].text  BY <4>1, TextIs
      <4>3. h[a].room \in n .. n + Waste  BY <4>1, <4>2 DEF Tight
      <4>4. h[a].room >= n /\ h[a].room - n <= Waste
        BY <1>1, <1>2, <4>1, <4>3, StringsAssumption
      <4> QED  BY <1>4, <4>1, <4>4 DEF Fits
    <3>6. Text(m.heap, b) = t
      <4>1. CASE b \in DOMAIN h
        <5>1. b \in DOMAIN f \ {p}  BY <2>1, <3>1, <3>5, <4>1
        <5>2. m.heap[b] = h[b] /\ b \in DOMAIN m.heap  BY <2>1, <3>4, <5>1
        <5> QED  BY <3>4, <4>1, <5>2, TextIs
      <4>2. CASE b \in Ptrs \ DOMAIN h
        <5>1. t = Garbage  BY <4>2, TextIs
        <5>2. Text(m.heap, b) = Garbage
          BY <2>1, <3>4, <4>2, TextIs
        <5> QED  BY <5>1, <5>2
      <4>3. CASE b \in {Null, Literal}  BY <3>4, <4>3, TextIs
      <4> QED  BY <4>1, <4>2, <4>3 DEF Pointers
    <3>7. o = Outcome(With(f, p, r, t), p)
      <4>1. Write(m.heap, p, t) = With(f, p, r, t)  BY <3>2, WriteNew
      <4> QED  BY <2>2, <2>4, <3>2, <3>6, <4>1
    <3> QED  BY <3>7 DEF Made, f
  <2> QED  BY <2>3, <2>4
<1> QED  BY <1>3, <1>4

\* What a new block changes.
LEMMA NewIs ==
    ASSUME NEW h, HeapOK(h), NEW t \in Texts, NEW o, Made(h, o, t)
    PROVE  /\ HeapOK(o.heap) /\ (Tight(h) => Tight(o.heap))
           /\ o.ptr \in Ptrs \ DOMAIN h
           /\ DOMAIN o.heap = DOMAIN h \union {o.ptr}
           /\ \A q \in DOMAIN h : o.heap[q] = h[q]
           /\ o.heap[o.ptr].text = t
<1>1. PICK p \in Ptrs \ DOMAIN h, r \in Len(t) .. Len(t) + Waste : o = Outcome(With(h, p, r, t), p)
  BY DEF Made
<1>2. o.heap = With(h, p, r, t) /\ o.ptr = p  BY <1>1 DEF Outcome
<1>3. Len(t) \in Nat /\ r \in Nat /\ p \in Ptrs  BY <1>1, StringsAssumption DEF Texts
<1>4. HeapOK(With(h, p, r, t))  BY <1>3, WithIs
<1>5. Tight(h) => Tight(With(h, p, r, t))  BY <1>1, <1>3, WithIs
<1>6. With(h, p, r, t)[p].text = t  BY DEF With
<1>7. \A q \in DOMAIN h : With(h, p, r, t)[q] = h[q]  BY <1>1 DEF With
<1>8. DOMAIN With(h, p, r, t) = DOMAIN h \union {p}  BY DEF With
<1> QED  BY <1>1, <1>2, <1>4, <1>5, <1>6, <1>7, <1>8

\* Writing a text that fits changes one block.
LEMMA WriteIs ==
    ASSUME NEW h, HeapOK(h), NEW a, NEW t \in Texts, Fits(h, a, Len(t))
    PROVE  /\ HeapOK(Write(h, a, t)) /\ (Tight(h) => Tight(Write(h, a, t)))
           /\ DOMAIN Write(h, a, t) = DOMAIN h
           /\ Write(h, a, t)[a].text = t
           /\ \A q \in DOMAIN h \ {a} : Write(h, a, t)[q] = h[q]
<1> DEFINE b == h[a]
           c == [b EXCEPT !.text = t]
           w == Write(h, a, t)
<1>1. a \in DOMAIN h /\ b \in Blocks /\ b.room >= Len(t) /\ b.room - Len(t) <= Waste
  BY DEF Fits, HeapOK
<1>2. c \in Blocks /\ c.text = t /\ c.room = b.room  BY <1>1 DEF Blocks
<1>3. w = [q \in DOMAIN h |-> IF q = a THEN c ELSE h[q]]  BY DEF Write
<1>4. b.room \in Nat /\ Len(t) \in Nat  BY <1>1 DEF Blocks, Texts
<1>5. b.room \in Len(t) .. Len(t) + Waste  BY <1>1, <1>4, StringsAssumption
<1> HIDE DEF b, c, w
<1>6. HeapOK(w) /\ DOMAIN w = DOMAIN h /\ w[a] = c /\ \A q \in DOMAIN h \ {a} : w[q] = h[q]
  BY <1>1, <1>2, <1>3 DEF HeapOK
<1>7. Tight(h) => Tight(w)  BY <1>1, <1>2, <1>5, <1>6 DEF Tight
<1> QED  BY <1>2, <1>6, <1>7 DEF w

\* What is left of a stack.
LEMMA PoppedIs ==
    ASSUME NEW S, NEW s \in Seq(S), NEW n \in 0 .. Len(s)
    PROVE  /\ Popped(s, n) \in Seq(S) /\ Len(Popped(s, n)) = Len(s) - n
           /\ \A i \in 1 .. Len(s) - n : Popped(s, n)[i] = s[i]
<1>1. Len(s) \in Nat  OBVIOUS
<1> QED  BY <1>1 DEF Popped

\* What a push on top of it gives.
LEMMA PushedIs ==
    ASSUME NEW S, NEW s \in Seq(S), NEW n \in 0 .. Len(s), NEW e \in S
    PROVE  LET t == Append(Popped(s, n), e)
           IN  /\ t \in Seq(S) /\ Len(t) = Len(s) - n + 1
               /\ \A i \in 1 .. Len(s) - n : t[i] = s[i]
               /\ t[Len(s) - n + 1] = e
<1> DEFINE p == Popped(s, n)
<1>1. /\ p \in Seq(S) /\ Len(p) = Len(s) - n
      /\ \A i \in 1 .. Len(s) - n : p[i] = s[i]
  BY PoppedIs
<1> HIDE DEF p
<1>2. Len(s) \in Nat  OBVIOUS
<1>3. /\ Append(p, e) \in Seq(S) /\ Len(Append(p, e)) = Len(p) + 1
      /\ \A i \in 1 .. Len(p) : Append(p, e)[i] = p[i]
      /\ Append(p, e)[Len(p) + 1] = e
  BY <1>1, AppendProperties
<1> QED  BY <1>1, <1>2, <1>3 DEF p
-----------------------------------------------------------------------------
(* Operands.                                                                 *)

\* An operand is a pointer, and its value a text.
LEMMA OperandType ==
    ASSUME TypeInv, NEW x \in Named, NEW d \in 0 .. Len(stack), d + Temps(x) <= Len(stack)
    PROVE  Ptr(x, d) \in Pointers /\ Value(x, d) \in Texts
<1>1. CASE x \in [kind : {"var"}, v : Vars]
  BY <1>1 DEF Ptr, Value, TypeInv
<1>2. CASE x \in [kind : {"lit"}]
  BY <1>2 DEF Ptr, Value, TypeInv, Pointers
<1>3. CASE x \in [kind : {"tmp"}]
  <2>1. Len(stack) \in Nat  BY DEF TypeInv
  <2>2. Len(stack) - d \in 1 .. Len(stack)  BY <1>3, <2>1 DEF Temps, IsTemp
  <2> QED  BY <1>3, <2>2 DEF Ptr, Value, TypeInv
<1> QED  BY <1>1, <1>2, <1>3 DEF Named

\* An operand takes one temporary off the stack or none.
LEMMA TempsIs ==
    ASSUME NEW x \in Named
    PROVE  Temps(x) = (IF x.kind = "tmp" THEN 1 ELSE 0) /\ Temps(x) \in Nat
  BY DEF Temps, IsTemp

\* A temporary's block is freed, and no other.
LEMMA FreeTempIs ==
    ASSUME NEW h, HeapOK(h), NEW x, NEW p
    PROVE  /\ HeapOK(FreeTemp(h, x, p)) /\ (Tight(h) => Tight(FreeTemp(h, x, p)))
           /\ DOMAIN FreeTemp(h, x, p) = DOMAIN h \ (IF x.kind = "tmp" THEN {p} ELSE {})
           /\ \A q \in DOMAIN FreeTemp(h, x, p) : FreeTemp(h, x, p)[q] = h[q]
  BY FreeIs DEF FreeTemp, IsTemp
-----------------------------------------------------------------------------
(* Types, and texts that fit: these hold even when memory runs out.          *)

\* A routine's result, pushed.
LEMMA PushType ==
    ASSUME TightInv, NEW n \in 0 .. Len(stack), NEW o, NEW text \in Texts,
           HeapOK(o.heap), Tight(o.heap), o.ptr \in Pointers, Push(n, o, text)
    PROVE  TightInv'
<1>1. /\ stack' \in Seq(Pointers) /\ Len(stack') = Len(stack) - n + 1
      /\ tval' \in Seq(Texts) /\ Len(tval') = Len(stack) - n + 1
  <2>1. stack \in Seq(Pointers) /\ tval \in Seq(Texts) /\ Len(tval) = Len(stack)
    BY DEF TightInv, TypeInv
  <2>2. stack' = Append(Popped(stack, n), o.ptr) /\ tval' = Append(Popped(tval, n), text)
    BY DEF Push
  <2>3. stack' \in Seq(Pointers) /\ Len(stack') = Len(stack) - n + 1
    BY <2>1, <2>2, PushedIs
  <2>4. tval' \in Seq(Texts) /\ Len(tval') = Len(stack) - n + 1
    <3>1. n \in 0 .. Len(tval)  BY <2>1
    <3>2. /\ Append(Popped(tval, n), text) \in Seq(Texts)
          /\ Len(Append(Popped(tval, n), text)) = Len(tval) - n + 1
      BY <2>1, <3>1, PushedIs
    <3> QED  BY <2>1, <2>2, <3>2
  <2> QED  BY <2>3, <2>4
<1>2. UNCHANGED <<lit, var, val>> /\ heap' = o.heap  BY DEF Push
<1> QED  BY <1>1, <1>2 DEF TightInv, TypeInv, HeapOK, Tight

\* What a routine returns is a heap with a pointer.
LEMMA OutcomesType ==
    ASSUME TypeInv, NEW h, HeapOK(h), Tight(h), NEW p \in Pointers, NEW q \in Pointers,
           NEW lo \in Nat, NEW hi \in Nat,
           NEW o \in LoadStr(h, p) \union AddStr(h, p, q) \union StrSlice(h, p, lo, hi)
    PROVE  HeapOK(o.heap) /\ Tight(o.heap) /\ o.ptr \in Pointers
<1>1. /\ Text(h, p) \in Texts /\ Text(h, q) \in Texts
      /\ Cut(Text(h, p), lo, hi) \in Texts
  BY TextType, CutType
<1>2. Text(h, p) \o Text(h, q) \in Texts  BY <1>1 DEF Texts
<1>3. \A t \in Texts : Made(h, o, t) => HeapOK(o.heap) /\ Tight(o.heap) /\ o.ptr \in Pointers
  BY NewIs DEF Pointers
<1>4. \A r \in Pointers : o = Outcome(h, r) => HeapOK(o.heap) /\ Tight(o.heap) /\ o.ptr \in Pointers
  BY DEF Outcome
<1>5. Null \in Pointers  BY DEF Pointers
<1>6. CASE o \in LoadStr(h, p)  BY <1>1, <1>3, <1>4, <1>5, <1>6, LoadIs
<1>7. CASE o \in AddStr(h, p, q)  BY <1>2, <1>3, <1>4, <1>7, AddIs
<1>8. CASE o \in StrSlice(h, p, lo, hi)  BY <1>1, <1>3, <1>4, <1>5, <1>8, SliceIs
<1> QED  BY <1>6, <1>7, <1>8

\* Assigning keeps types, and gives the variable a pointer.
LEMMA AssignType ==
    ASSUME TypeInv, NEW h, HeapOK(h), Tight(h), NEW a \in Pointers, NEW b \in Pointers,
           NEW o \in StrAssign(h, a, b)
    PROVE  HeapOK(o.heap) /\ Tight(o.heap) /\ o.ptr \in Pointers
<1>1. Text(h, b) \in Texts  BY TextType
<1>2. HeapOK(Free(h, a)) /\ Tight(Free(h, a))  BY FreeIs
<1>3. CASE Fits(h, a, Len(Text(h, b))) /\ o = Outcome(Write(h, a, Text(h, b)), a)
  BY <1>1, <1>3, WriteIs DEF Outcome
<1>4. CASE Made(Free(h, a), o, Text(h, b))  BY <1>1, <1>2, <1>4, NewIs DEF Pointers
<1>5. CASE o = Outcome(Free(h, a), b)  BY <1>2, <1>5 DEF Outcome
<1> QED  BY <1>3, <1>4, <1>5, AssignIs

\* Every action keeps types and texts within their blocks.
LEMMA StepType ==
    ASSUME TightInv, Next
    PROVE  TightInv'
<1> USE DEF TightInv
<1>0. TypeInv /\ HeapOK(heap) /\ Tight(heap) /\ Len(stack) \in Nat  BY DEF TypeInv
<1>1. CASE NextLiteral
  <2>1. \A c \in Chars : <<c>> \in Texts  BY DEF Texts, Letters
  <2> QED  BY <1>0, <1>1, <2>1 DEF NextLiteral, TypeInv, HeapOK, Tight, Literals
<1>2. ASSUME NEW v \in Vars, NEW x \in Named, StoreStr(v, x)  PROVE TightInv'
  <2>1. Temps(x) = 0  BY <1>2 DEF StoreStr, Temps
  <2>2. Ptr(x, 0) \in Pointers /\ Value(x, 0) \in Texts  BY <1>0, <2>1, OperandType
  <2>3. PICK o \in StrAssign(heap, var[v], Ptr(x, 0)) :
           heap' = o.heap /\ var' = [var EXCEPT ![v] = o.ptr]
    BY <1>2 DEF StoreStr
  <2>4. var[v] \in Pointers  BY DEF TypeInv
  <2>5. HeapOK(o.heap) /\ Tight(o.heap) /\ o.ptr \in Pointers
    BY <1>0, <2>2, <2>4, AssignType
  <2>6. val' = [val EXCEPT ![v] = Value(x, 0)] /\ UNCHANGED <<lit, stack, tval>>
    BY <1>2 DEF StoreStr
  <2> QED  BY <2>2, <2>3, <2>5, <2>6 DEF TypeInv, HeapOK, Tight
<1>3. ASSUME NEW v \in Vars, StoreStr2(v)  PROVE TightInv'
  <2>1. Len(stack) > 0 /\ Len(stack) \in 1 .. Len(stack)  BY <1>0, <1>3 DEF StoreStr2, TypeInv
  <2>2. stack[Len(stack)] \in Pointers /\ tval[Len(stack)] \in Texts  BY <2>1 DEF TypeInv
  <2>3. /\ stack' \in Seq(Pointers) /\ Len(stack') = Len(stack) - 1
        /\ tval' \in Seq(Texts) /\ Len(tval') = Len(stack) - 1
    BY <1>0, <1>3, <2>1, PoppedIs DEF StoreStr2, TypeInv
  <2>4. HeapOK(Free(heap, var[v])) /\ Tight(Free(heap, var[v]))  BY <1>0, FreeIs
  <2>5. heap' = Free(heap, var[v]) /\ lit' = lit  BY <1>3 DEF StoreStr2
  <2>6. HeapOK(heap') /\ Tight(heap')  BY <2>4, <2>5
  <2>7. var' \in [Vars -> Pointers] /\ val' \in [Vars -> Texts]
    BY <1>3, <2>2 DEF StoreStr2, TypeInv
  <2> QED  BY <2>3, <2>5, <2>6, <2>7 DEF TypeInv, HeapOK, Tight
<1>4. ASSUME NEW x \in Named, Load(x)  PROVE TightInv'
  <2>1. Temps(x) = 0  BY <1>4 DEF Load, Temps
  <2>2. Ptr(x, 0) \in Pointers /\ Value(x, 0) \in Texts  BY <1>0, <2>1, OperandType
  <2>3. PICK o \in LoadStr(heap, Ptr(x, 0)) : Push(0, o, Value(x, 0))  BY <1>4 DEF Load
  <2>4. HeapOK(o.heap) /\ Tight(o.heap) /\ o.ptr \in Pointers  BY <1>0, <2>2, OutcomesType
  <2> QED  BY <1>0, <2>2, <2>3, <2>4, PushType
<1>5. ASSUME NEW x \in Named, NEW y \in Named, Add(x, y)  PROVE TightInv'
  <2> DEFINE n == Temps(x) + Temps(y)
             p == Ptr(x, Temps(y))
             q == Ptr(y, 0)
  <2>1. Temps(x) \in 0 .. 1 /\ Temps(y) \in 0 .. 1 /\ n \in 0 .. Len(stack)
    BY <1>0, <1>5, TempsIs DEF Add
  <2>2. /\ p \in Pointers /\ q \in Pointers
        /\ Value(x, Temps(y)) \in Texts /\ Value(y, 0) \in Texts
    BY <1>0, <2>1, OperandType
  <2>3. Value(x, Temps(y)) \o Value(y, 0) \in Texts  BY <2>2 DEF Texts
  <2>4. PICK o \in AddStr(heap, p, q) :
           Push(n, Outcome(FreeTemp(FreeTemp(o.heap, x, p), y, q), o.ptr),
                Value(x, Temps(y)) \o Value(y, 0))
    BY <1>5 DEF Add
  <2> HIDE DEF n, p, q
  <2>5. HeapOK(o.heap) /\ Tight(o.heap) /\ o.ptr \in Pointers  BY <1>0, <2>2, OutcomesType
  <2>6. HeapOK(FreeTemp(o.heap, x, p)) /\ Tight(FreeTemp(o.heap, x, p))  BY <2>5, FreeTempIs
  <2> DEFINE h == FreeTemp(FreeTemp(o.heap, x, p), y, q)
  <2>7. HeapOK(h) /\ Tight(h)  BY <2>6, FreeTempIs
  <2> HIDE DEF h
  <2>8. Outcome(h, o.ptr).heap = h /\ Outcome(h, o.ptr).ptr = o.ptr  BY DEF Outcome
  <2> QED  BY <2>1, <2>3, <2>4, <2>5, <2>7, <2>8, PushType DEF h
<1>6. ASSUME NEW x \in Named, NEW lo \in 0 .. MaxLen - 1, NEW hi \in 0 .. MaxLen - 1,
             Slice(x, lo, hi)
      PROVE  TightInv'
  <2> DEFINE p == Ptr(x, 0)
  <2>1. Temps(x) \in 0 .. Len(stack) /\ 0 + Temps(x) <= Len(stack) /\ lo \in Nat /\ hi \in Nat
    BY <1>0, <1>6, TempsIs DEF Slice
  <2>2. p \in Pointers /\ Value(x, 0) \in Texts  BY <1>0, <2>1, OperandType
  <2>3. Cut(Value(x, 0), lo, hi) \in Texts  BY <2>1, <2>2, CutType
  <2>4. PICK o \in StrSlice(heap, p, lo, hi) :
           Push(Temps(x), Outcome(FreeTemp(o.heap, x, p), o.ptr), Cut(Value(x, 0), lo, hi))
    BY <1>6 DEF Slice
  <2> HIDE DEF p
  <2>5. HeapOK(o.heap) /\ Tight(o.heap) /\ o.ptr \in Pointers
    BY <1>0, <2>1, <2>2, OutcomesType
  <2> DEFINE h == FreeTemp(o.heap, x, p)
  <2>6. HeapOK(h) /\ Tight(h)  BY <2>5, FreeTempIs
  <2> HIDE DEF h
  <2>7. Outcome(h, o.ptr).heap = h /\ Outcome(h, o.ptr).ptr = o.ptr  BY DEF Outcome
  <2> QED  BY <2>1, <2>3, <2>4, <2>5, <2>6, <2>7, PushType DEF h
<1>7. ASSUME NEW x \in Named, CallFunction(x)  PROVE TightInv'
  <2> DEFINE p == Ptr(x, 0)
  <2>1. Temps(x) \in 0 .. Len(stack) /\ 0 + Temps(x) <= Len(stack)
    BY <1>0, <1>7, TempsIs DEF CallFunction
  <2>2. p \in Pointers /\ Value(x, 0) \in Texts  BY <1>0, <2>1, OperandType
  <2>3. PICK arg \in IF IsTemp(x) THEN {Outcome(heap, p)} ELSE LoadStr(heap, p) :
           \E r \in LoadStr(arg.heap, arg.ptr) :
              Push(Temps(x), Outcome(Free(r.heap, arg.ptr), r.ptr), Value(x, 0))
    BY <1>7 DEF CallFunction
  <2> HIDE DEF p
  <2>4. HeapOK(arg.heap) /\ Tight(arg.heap) /\ arg.ptr \in Pointers
    <3>1. CASE IsTemp(x)  BY <1>0, <2>2, <2>3, <3>1 DEF Outcome
    <3>2. CASE ~ IsTemp(x)  BY <1>0, <2>2, <2>3, <3>2, OutcomesType
    <3> QED  BY <3>1, <3>2
  <2>5. PICK r \in LoadStr(arg.heap, arg.ptr) :
           Push(Temps(x), Outcome(Free(r.heap, arg.ptr), r.ptr), Value(x, 0))
    BY <2>3
  <2>6. HeapOK(r.heap) /\ Tight(r.heap) /\ r.ptr \in Pointers
    BY <1>0, <2>4, OutcomesType
  <2> DEFINE h == Free(r.heap, arg.ptr)
  <2>7. HeapOK(h) /\ Tight(h)  BY <2>6, FreeIs
  <2> HIDE DEF h
  <2>8. Outcome(h, r.ptr).heap = h /\ Outcome(h, r.ptr).ptr = r.ptr  BY DEF Outcome
  <2> QED  BY <2>1, <2>2, <2>5, <2>6, <2>7, <2>8, PushType DEF h
<1>8. ASSUME NEW x \in Named, NEW y \in Named, Consume(x, y)  PROVE TightInv'
  <2> DEFINE n == Temps(x) + Temps(y)
             g == FreeTemp(heap, x, Ptr(x, Temps(y)))
             h == FreeTemp(g, y, Ptr(y, 0))
  <2>1. n \in 0 .. Len(stack)  BY <1>0, <1>8, TempsIs DEF Consume
  <2>2. HeapOK(g) /\ Tight(g)  BY <1>0, FreeTempIs
  <2>3. heap' = h /\ stack' = Popped(stack, n) /\ tval' = Popped(tval, n)
        /\ UNCHANGED <<lit, var, val>>
    BY <1>8 DEF Consume
  <2> HIDE DEF g, n
  <2>4. HeapOK(h) /\ Tight(h)  BY <2>2, FreeTempIs
  <2>5. /\ stack' \in Seq(Pointers) /\ Len(stack') = Len(stack) - n
        /\ tval' \in Seq(Texts) /\ Len(tval') = Len(stack) - n
    BY <2>1, <2>3, PoppedIs DEF TypeInv
  <2> HIDE DEF h
  <2> QED  BY <2>3, <2>4, <2>5 DEF TypeInv, HeapOK, Tight
<1>9. ASSUME NEW v \in Vars, Leave(v)  PROVE TightInv'
  <2>1. HeapOK(Free(heap, var[v])) /\ Tight(Free(heap, var[v]))  BY <1>0, FreeIs
  <2>2. heap' = Free(heap, var[v]) /\ UNCHANGED <<lit, stack, tval>>  BY <1>9 DEF Leave
  <2>3. HeapOK(heap') /\ Tight(heap')  BY <2>1, <2>2
  <2>4. Null \in Pointers /\ Empty \in Texts  BY DEF Pointers, Texts, Empty
  <2>5. var' \in [Vars -> Pointers] /\ val' \in [Vars -> Texts]
    BY <1>9, <2>4 DEF Leave, TypeInv
  <2> QED  BY <2>2, <2>3, <2>5 DEF TypeInv, HeapOK, Tight
<1> QED  BY <1>1, <1>2, <1>3, <1>4, <1>5, <1>6, <1>7, <1>8, <1>9 DEF Next
-----------------------------------------------------------------------------
(* Owners: what the actions do to the pointers.                              *)

\* The pointers to the n temporaries on top.
Tops(n) == {stack[i] : i \in Len(stack) - n + 1 .. Len(stack)}

\* Heap g is h without the blocks D.
Less(g, h, D) == DOMAIN g = DOMAIN h \ D /\ \A b \in DOMAIN h \ D : g[b] = h[b]

\* The block that an operand with pointer p gives back.
Used(x, p) == IF x.kind = "tmp" THEN {p} ELSE {}

\* A text is the same in a heap that has kept its block.
LEMMA TextKept ==
    ASSUME NEW g, HeapOK(g), NEW h, HeapOK(h),
           NEW p \in {Null} \union DOMAIN g, p \in DOMAIN g => p \in DOMAIN h /\ h[p] = g[p]
    PROVE  Text(h, p) = Text(g, p)
  BY TextIs

\* Temporaries are used, and the result r pushed: owners and texts are right
\* when the blocks of the used ones are freed and r is new.
LEMMA PushKeeps ==
    ASSUME OwnersInv, TightInv', UNCHANGED <<lit, var, val>>,
           NEW n \in 0 .. Len(stack), NEW r, NEW text,
           stack' = Append(Popped(stack, n), r), tval' = Append(Popped(tval, n), text),
           r \in {Null} \union (Ptrs \ DOMAIN heap),
           DOMAIN heap' = (DOMAIN heap \ Tops(n)) \union ({r} \ {Null}),
           \A q \in DOMAIN heap \ Tops(n) : heap'[q] = heap[q],
           r \in Pointers, text \in Texts, Text(heap', r) = text
    PROVE  OwnersInv'
<1> DEFINE m == Len(stack) - n
<1>1. /\ stack \in Seq(Pointers) /\ tval \in Seq(Texts) /\ Len(tval) = Len(stack)
      /\ HeapOK(heap) /\ HeapOK(heap') /\ Len(stack) \in Nat /\ m \in Nat /\ lit' = lit
  BY DEF OwnersInv, TightInv, TypeInv
<1>2. /\ Len(stack') = m + 1 /\ stack'[m + 1] = r
      /\ \A i \in 1 .. m : stack'[i] = stack[i]
  BY <1>1, PushedIs
<1>3. tval'[m + 1] = text /\ \A i \in 1 .. m : tval'[i] = tval[i]
  <2>1. n \in 0 .. Len(tval)  BY <1>1
  <2>2. /\ Append(Popped(tval, n), text)[Len(tval) - n + 1] = text
        /\ \A i \in 1 .. Len(tval) - n : Append(Popped(tval, n), text)[i] = tval[i]
    BY <1>1, <2>1, PushedIs
  <2> QED  BY <1>1, <2>2
<1>4. 1 .. Len(stack') = 1 .. m \union {m + 1} /\ 1 .. m \subseteq 1 .. Len(stack)
      /\ \A i \in 1 .. Len(stack) : i \in 1 .. m \/ i \in m + 1 .. Len(stack)
  BY <1>1, <1>2
<1>5. Tops(n) = {stack[i] : i \in m + 1 .. Len(stack)}  BY DEF Tops
<1> HIDE DEF m
<1> USE DEF OwnersInv
<1>6. \A v \in Vars : var[v] \in {Null} \union (DOMAIN heap \ Tops(n))
  <2>1. \A i \in m + 1 .. Len(stack) : i \in 1 .. Len(stack)  BY <1>1
  <2> QED  BY <1>5, <2>1 DEF AllOwned, Distinct
<1>7. \A i \in 1 .. m : stack[i] \in {Null} \union (DOMAIN heap \ Tops(n))
  <2>1. SUFFICES ASSUME NEW i \in 1 .. m, stack[i] # Null
                 PROVE  stack[i] \in DOMAIN heap \ Tops(n)
    OBVIOUS
  <2>2. i \in 1 .. Len(stack) /\ stack[i] \in DOMAIN heap  BY <1>4, <2>1 DEF AllOwned
  <2>3. ASSUME NEW j \in m + 1 .. Len(stack), stack[i] = stack[j]  PROVE FALSE
    <3>1. j \in 1 .. Len(stack) /\ i # j  BY <1>1
    <3> QED  BY <2>1, <2>2, <2>3, <3>1 DEF Distinct
  <2> QED  BY <1>5, <2>2, <2>3
<1>8. Distinct'
  <2>1. \A v, w \in Vars : var'[v] = var'[w] => v = w \/ var'[v] = Null  BY DEF Distinct
  <2>2. \A i \in 1 .. m : stack'[i] = r => stack'[i] = Null  BY <1>2, <1>7
  <2>3. \A i, j \in 1 .. Len(stack') : stack'[i] = stack'[j] => i = j \/ stack'[i] = Null
    <3>1. \A i, j \in 1 .. m : stack[i] = stack[j] => i = j \/ stack[i] = Null
      BY <1>4 DEF Distinct
    <3>2. SUFFICES ASSUME NEW i \in 1 .. Len(stack'), NEW j \in 1 .. Len(stack'),
                          stack'[i] = stack'[j], i # j
                   PROVE  stack'[i] = Null
      OBVIOUS
    <3>3. CASE i = m + 1  BY <1>2, <1>4, <2>2, <3>2, <3>3
    <3>4. CASE j = m + 1  BY <1>2, <1>4, <2>2, <3>2, <3>4
    <3>5. CASE i \in 1 .. m /\ j \in 1 .. m  BY <1>2, <3>1, <3>2, <3>5
    <3> QED  BY <1>4, <3>3, <3>4, <3>5
  <2>4. \A v \in Vars, i \in 1 .. Len(stack') : var'[v] = stack'[i] => var'[v] = Null
    <3>1. \A v \in Vars, i \in 1 .. m : var[v] = stack[i] => var[v] = Null
      BY <1>4 DEF Distinct
    <3> QED  BY <1>2, <1>4, <1>6, <3>1
  <2> QED  BY <2>1, <2>3, <2>4 DEF Distinct
<1>9. AllOwned'
  <2>1. \A p \in DOMAIN heap \ Tops(n) : \/ \E v \in Vars : var[v] = p
                                        \/ \E i \in 1 .. m : stack[i] = p
    BY <1>4, <1>5 DEF AllOwned
  <2> QED  BY <1>2, <1>4, <1>6, <1>7, <2>1 DEF AllOwned
<1>10. ValuesRight'
  <2>1. \A v \in Vars : Text(heap', var[v]) = val[v]
    BY <1>1, <1>6, TextKept DEF ValuesRight
  <2>2. \A i \in 1 .. m : Text(heap', stack[i]) = tval[i]
    BY <1>1, <1>4, <1>7, TextKept DEF ValuesRight
  <2>3. \A i \in 1 .. Len(stack') : Text(heap', stack'[i]) = tval'[i]
    BY <1>2, <1>3, <1>4, <2>2
  <2> QED  BY <1>1, <2>1, <2>3 DEF ValuesRight, Text
<1> QED  BY <1>8, <1>9, <1>10

\* Temporaries are used and freed, and nothing is pushed.
LEMMA PopKeeps ==
    ASSUME OwnersInv, TightInv', UNCHANGED <<lit, var, val>>,
           NEW n \in 0 .. Len(stack),
           stack' = Popped(stack, n), tval' = Popped(tval, n),
           DOMAIN heap' = DOMAIN heap \ Tops(n),
           \A q \in DOMAIN heap' : heap'[q] = heap[q]
    PROVE  OwnersInv'
<1> DEFINE m == Len(stack) - n
<1>1. /\ stack \in Seq(Pointers) /\ tval \in Seq(Texts) /\ Len(tval) = Len(stack)
      /\ HeapOK(heap) /\ HeapOK(heap') /\ Len(stack) \in Nat /\ m \in Nat /\ lit' = lit
  BY DEF OwnersInv, TightInv, TypeInv
<1>2. Len(stack') = m /\ \A i \in 1 .. m : stack'[i] = stack[i]  BY <1>1, PoppedIs
<1>3. \A i \in 1 .. m : tval'[i] = tval[i]
  <2>1. n \in 0 .. Len(tval)  BY <1>1
  <2>2. \A i \in 1 .. Len(tval) - n : Popped(tval, n)[i] = tval[i]  BY <1>1, <2>1, PoppedIs
  <2> QED  BY <1>1, <2>2
<1>4. /\ 1 .. m \subseteq 1 .. Len(stack)
      /\ \A i \in 1 .. Len(stack) : i \in 1 .. m \/ i \in m + 1 .. Len(stack)
      /\ \A i \in m + 1 .. Len(stack) : i \in 1 .. Len(stack) /\ i \notin 1 .. m
  BY <1>1
<1>5. Tops(n) = {stack[i] : i \in m + 1 .. Len(stack)}  BY DEF Tops
<1> HIDE DEF m
<1> USE DEF OwnersInv
<1>6. \A v \in Vars : var[v] \in {Null} \union DOMAIN heap'
  BY <1>4, <1>5 DEF AllOwned, Distinct
<1>7. \A i \in 1 .. m : stack[i] \in {Null} \union DOMAIN heap'
  <2>1. SUFFICES ASSUME NEW i \in 1 .. m, stack[i] # Null  PROVE stack[i] \in DOMAIN heap'
    OBVIOUS
  <2>2. i \in 1 .. Len(stack) /\ stack[i] \in DOMAIN heap  BY <1>4, <2>1 DEF AllOwned
  <2>3. ASSUME NEW j \in m + 1 .. Len(stack), stack[i] = stack[j]  PROVE FALSE
    <3>1. j \in 1 .. Len(stack) /\ i # j  BY <1>4
    <3> QED  BY <2>1, <2>2, <2>3, <3>1 DEF Distinct
  <2> QED  BY <1>5, <2>2, <2>3
<1>8. Distinct'
  <2>1. \A i, j \in 1 .. m : stack'[i] = stack'[j] => i = j \/ stack'[i] = Null
    BY <1>2, <1>4 DEF Distinct
  <2>2. \A v \in Vars, i \in 1 .. m : var[v] = stack'[i] => var[v] = Null
    BY <1>2, <1>4 DEF Distinct
  <2>3. \A v, w \in Vars : var'[v] = var'[w] => v = w \/ var'[v] = Null  BY DEF Distinct
  <2> QED  BY <1>2, <2>1, <2>2, <2>3 DEF Distinct
<1>9. AllOwned'
  <2>1. \A p \in DOMAIN heap' : \/ \E v \in Vars : var[v] = p
                               \/ \E i \in 1 .. m : stack[i] = p
    BY <1>4, <1>5 DEF AllOwned
  <2> QED  BY <1>2, <1>6, <1>7, <2>1 DEF AllOwned
<1>10. ValuesRight'
  <2>1. \A v \in Vars : Text(heap', var[v]) = val[v]
    BY <1>1, <1>6, TextKept DEF ValuesRight
  <2>2. \A i \in 1 .. m : Text(heap', stack[i]) = tval[i]
    BY <1>1, <1>4, <1>7, TextKept DEF ValuesRight
  <2>3. \A i \in 1 .. Len(stack') : Text(heap', stack'[i]) = tval'[i]
    BY <1>2, <1>3, <2>2
  <2> QED  BY <1>1, <2>1, <2>3 DEF ValuesRight, Text
<1> QED  BY <1>8, <1>9, <1>10

\* Variable v's block is freed or written, and it holds r from then on.
LEMMA StoreKeeps ==
    ASSUME OwnersInv, TightInv', UNCHANGED <<lit, stack, tval>>,
           NEW v \in Vars, NEW r, NEW text,
           var' = [var EXCEPT ![v] = r], val' = [val EXCEPT ![v] = text],
           r \in {Null} \union (Ptrs \ (DOMAIN heap \ {var[v]})),
           DOMAIN heap' = (DOMAIN heap \ {var[v]}) \union ({r} \ {Null}),
           \A q \in DOMAIN heap \ {var[v]} : heap'[q] = heap[q],
           Text(heap', r) = text
    PROVE  OwnersInv'
<1> USE DEF OwnersInv
<1>1. /\ HeapOK(heap) /\ HeapOK(heap') /\ lit' = lit
      /\ var \in [Vars -> Pointers] /\ val \in [Vars -> Texts]
  BY DEF TightInv, TypeInv
<1>2. /\ var'[v] = r /\ \A w \in Vars \ {v} : var'[w] = var[w]
      /\ val'[v] = text /\ \A w \in Vars \ {v} : val'[w] = val[w]
  BY <1>1
<1>3. \A w \in Vars \ {v} : var[w] \in {Null} \union (DOMAIN heap \ {var[v]})
  BY DEF AllOwned, Distinct
<1>4. \A i \in 1 .. Len(stack) : stack[i] \in {Null} \union (DOMAIN heap \ {var[v]})
  BY DEF AllOwned, Distinct
<1>5. Distinct'
  <2>1. \A w \in Vars \ {v} : var[w] = r => r = Null  BY <1>3
  <2>2. \A w, x \in Vars : var'[w] = var'[x] => w = x \/ var'[w] = Null
    <3>1. SUFFICES ASSUME NEW w \in Vars, NEW x \in Vars, var'[w] = var'[x], w # x
                   PROVE  var'[w] = Null
      OBVIOUS
    <3>2. CASE w = v  BY <1>2, <2>1, <3>1, <3>2
    <3>3. CASE x = v  BY <1>2, <2>1, <3>1, <3>3
    <3>4. CASE w # v /\ x # v  BY <1>2, <3>1, <3>4 DEF Distinct
    <3> QED  BY <3>2, <3>3, <3>4
  <2>3. \A w \in Vars, i \in 1 .. Len(stack) : var'[w] = stack[i] => var'[w] = Null
    BY <1>2, <1>4 DEF Distinct
  <2> QED  BY <2>2, <2>3 DEF Distinct
<1>6. AllOwned'
  <2>1. \A p \in DOMAIN heap \ {var[v]} : \/ \E w \in Vars \ {v} : var[w] = p
                                         \/ \E i \in 1 .. Len(stack) : stack[i] = p
    BY DEF AllOwned
  <2> QED  BY <1>2, <1>3, <1>4, <2>1 DEF AllOwned
<1>7. ValuesRight'
  <2>1. \A w \in Vars \ {v} : Text(heap', var[w]) = val[w]
    BY <1>1, <1>3, TextKept DEF ValuesRight
  <2>2. \A w \in Vars : Text(heap', var'[w]) = val'[w]  BY <1>2, <2>1
  <2>3. \A i \in 1 .. Len(stack) : Text(heap', stack[i]) = tval[i]
    BY <1>1, <1>4, TextKept DEF ValuesRight
  <2> QED  BY <1>1, <2>2, <2>3 DEF ValuesRight, Text
<1> QED  BY <1>5, <1>6, <1>7

\* The pointer on top of the stack is moved to variable v.
LEMMA MoveKeeps ==
    ASSUME OwnersInv, TightInv', NEW v \in Vars, StoreStr2(v)
    PROVE  OwnersInv'
<1> USE DEF OwnersInv
<1> DEFINE m == Len(stack)
           r == stack[m]
<1>1. /\ stack \in Seq(Pointers) /\ tval \in Seq(Texts) /\ Len(tval) = m
      /\ HeapOK(heap) /\ HeapOK(heap') /\ m \in Nat /\ m > 0 /\ lit' = lit
      /\ var \in [Vars -> Pointers] /\ val \in [Vars -> Texts]
  BY DEF TightInv, TypeInv, StoreStr2
<1>2. /\ Len(stack') = m - 1 /\ \A i \in 1 .. m - 1 : stack'[i] = stack[i]
      /\ \A i \in 1 .. m - 1 : tval'[i] = tval[i]
  <2>1. stack' = Popped(stack, 1) /\ tval' = Popped(tval, 1)  BY DEF StoreStr2
  <2>2. 1 \in 0 .. Len(stack) /\ 1 \in 0 .. Len(tval)  BY <1>1
  <2>3. /\ Len(Popped(stack, 1)) = Len(stack) - 1
        /\ \A i \in 1 .. Len(stack) - 1 : Popped(stack, 1)[i] = stack[i]
    BY <1>1, <2>2, PoppedIs
  <2>4. \A i \in 1 .. Len(tval) - 1 : Popped(tval, 1)[i] = tval[i]
    BY <1>1, <2>2, PoppedIs
  <2> QED  BY <1>1, <2>1, <2>3, <2>4
<1>3. /\ var'[v] = r /\ \A w \in Vars \ {v} : var'[w] = var[w]
      /\ val'[v] = tval[m] /\ \A w \in Vars \ {v} : val'[w] = val[w]
  BY <1>1 DEF StoreStr2
<1>4. /\ DOMAIN heap' = DOMAIN heap \ {var[v]}
      /\ \A q \in DOMAIN heap' : heap'[q] = heap[q]
  BY <1>1, FreeIs DEF StoreStr2
<1>5. /\ 1 .. m = 1 .. m - 1 \union {m} /\ m \in 1 .. m /\ m \notin 1 .. m - 1
      /\ 1 .. m - 1 \subseteq 1 .. m
  BY <1>1
<1>6. \A w \in Vars \ {v} : var[w] \in {Null} \union DOMAIN heap'
  BY <1>4 DEF AllOwned, Distinct
<1>7. \A i \in 1 .. m : stack[i] \in {Null} \union DOMAIN heap'
  BY <1>4 DEF AllOwned, Distinct
<1> HIDE DEF m
<1>8. Distinct'
  <2>1. \A w, x \in Vars : var'[w] = var'[x] => w = x \/ var'[w] = Null
    <3>1. SUFFICES ASSUME NEW w \in Vars, NEW x \in Vars, var'[w] = var'[x], w # x
                   PROVE  var'[w] = Null
      OBVIOUS
    <3>2. CASE w = v  BY <1>3, <1>5, <3>1, <3>2 DEF Distinct, m
    <3>3. CASE x = v  BY <1>3, <1>5, <3>1, <3>3 DEF Distinct, m
    <3>4. CASE w # v /\ x # v  BY <1>3, <3>1, <3>4 DEF Distinct
    <3> QED  BY <3>2, <3>3, <3>4
  <2>2. \A i, j \in 1 .. m - 1 : stack'[i] = stack'[j] => i = j \/ stack'[i] = Null
    BY <1>2, <1>5 DEF Distinct, m
  <2>3. \A i \in 1 .. m - 1 : r = stack[i] => r = Null
    BY <1>5 DEF Distinct, m
  <2>4. \A w \in Vars, i \in 1 .. m - 1 : var'[w] = stack'[i] => var'[w] = Null
    <3>1. SUFFICES ASSUME NEW w \in Vars, NEW i \in 1 .. m - 1, var'[w] = stack'[i]
                   PROVE  var'[w] = Null
      OBVIOUS
    <3>2. CASE w = v  BY <1>2, <1>3, <2>3, <3>1, <3>2
    <3>3. CASE w # v  BY <1>2, <1>3, <1>5, <3>1, <3>3 DEF Distinct, m
    <3> QED  BY <3>2, <3>3
  <2> QED  BY <1>2, <2>1, <2>2, <2>4 DEF Distinct
<1>9. AllOwned'
  <2>1. \A p \in DOMAIN heap' : \/ \E w \in Vars \ {v} : var[w] = p
                               \/ \E i \in 1 .. m : stack[i] = p
    BY <1>4 DEF AllOwned, m
  <2>2. \A p \in DOMAIN heap' : \/ \E w \in Vars : var'[w] = p
                               \/ \E i \in 1 .. m - 1 : stack'[i] = p
    BY <1>2, <1>3, <1>5, <2>1
  <2>3. \A w \in Vars : var'[w] \in {Null} \union DOMAIN heap'  BY <1>3, <1>5, <1>6, <1>7
  <2>4. \A i \in 1 .. m - 1 : stack'[i] \in {Null} \union DOMAIN heap'  BY <1>2, <1>5, <1>7
  <2> QED  BY <1>2, <2>2, <2>3, <2>4 DEF AllOwned
<1>10. ValuesRight'
  <2>1. \A w \in Vars \ {v} : Text(heap', var[w]) = val[w]
    BY <1>1, <1>4, <1>6, TextKept DEF ValuesRight
  <2>2. \A i \in 1 .. m : Text(heap', stack[i]) = tval[i]
    BY <1>1, <1>4, <1>7, TextKept DEF ValuesRight, m
  <2>3. \A w \in Vars : Text(heap', var'[w]) = val'[w]  BY <1>3, <1>5, <2>1, <2>2
  <2>4. \A i \in 1 .. Len(stack') : Text(heap', stack'[i]) = tval'[i]
    BY <1>2, <1>5, <2>2
  <2> QED  BY <1>1, <2>3, <2>4 DEF ValuesRight, Text
<1> QED  BY <1>8, <1>9, <1>10

\* An operand's text is its value.
LEMMA OperandValue ==
    ASSUME OwnersInv, NEW x \in Named, NEW d \in 0 .. Len(stack), d + Temps(x) <= Len(stack)
    PROVE  /\ Text(heap, Ptr(x, d)) = Value(x, d)
           /\ Ptr(x, d) \in {Null, Literal} \union DOMAIN heap
<1> USE DEF OwnersInv, TightInv
<1>1. CASE x \in [kind : {"var"}, v : Vars]
  BY <1>1 DEF Ptr, Value, ValuesRight, AllOwned
<1>2. CASE x \in [kind : {"lit"}]
  BY <1>2, TextIs DEF Ptr, Value, TypeInv
<1>3. CASE x \in [kind : {"tmp"}]
  <2>1. Len(stack) \in Nat  BY DEF TypeInv
  <2>2. Len(stack) - d \in 1 .. Len(stack)  BY <1>3, <2>1 DEF Temps, IsTemp
  <2> QED  BY <1>3, <2>2 DEF Ptr, Value, ValuesRight, AllOwned
<1> QED  BY <1>1, <1>2, <1>3 DEF Named

\* The temporaries that one operand uses.
LEMMA OneTop ==
    ASSUME TypeInv, NEW x \in Named, Temps(x) <= Len(stack)
    PROVE  Tops(Temps(x)) = Used(x, Ptr(x, 0))
<1>1. Len(stack) \in Nat  BY DEF TypeInv
<1>2. CASE x.kind = "tmp"
  <2>1. Temps(x) = 1 /\ Ptr(x, 0) = stack[Len(stack)]  BY <1>1, <1>2 DEF Temps, IsTemp, Ptr
  <2>2. Len(stack) - 1 + 1 .. Len(stack) = {Len(stack)}  BY <1>1
  <2> QED  BY <1>2, <2>1, <2>2 DEF Tops, Used
<1>3. CASE x.kind # "tmp"
  <2>1. Temps(x) = 0  BY <1>3 DEF Temps, IsTemp
  <2>2. Len(stack) - 0 + 1 .. Len(stack) = {}  BY <1>1
  <2> QED  BY <1>3, <2>1, <2>2 DEF Tops, Used
<1> QED  BY <1>2, <1>3

\* The temporaries that two operands use.
LEMMA TwoTops ==
    ASSUME TypeInv, NEW x \in Named, NEW y \in Named, Temps(x) + Temps(y) <= Len(stack)
    PROVE  Tops(Temps(x) + Temps(y)) =
              Used(x, Ptr(x, Temps(y))) \union Used(y, Ptr(y, 0))
<1>1. Len(stack) \in Nat  BY DEF TypeInv
<1>2. CASE x.kind = "tmp" /\ y.kind = "tmp"
  <2>1. /\ Temps(x) + Temps(y) = 2 /\ Ptr(x, Temps(y)) = stack[Len(stack) - 1]
        /\ Ptr(y, 0) = stack[Len(stack)]
    BY <1>1, <1>2 DEF Temps, IsTemp, Ptr
  <2>2. Len(stack) - 2 + 1 .. Len(stack) = {Len(stack) - 1, Len(stack)}  BY <1>1
  <2> QED  BY <1>2, <2>1, <2>2 DEF Tops, Used
<1>3. CASE y.kind # "tmp"
  <2>1. Temps(y) = 0 /\ Temps(x) \in Nat  BY <1>3 DEF Temps, IsTemp
  <2> QED  BY <1>3, <2>1, OneTop DEF Used
<1>4. CASE x.kind # "tmp"
  <2>1. Temps(x) = 0 /\ Temps(y) \in Nat  BY <1>4 DEF Temps, IsTemp
  <2> QED  BY <1>4, <2>1, OneTop DEF Used
<1> QED  BY <1>2, <1>3, <1>4

\* A routine's new block, pushed once the blocks of the operands are freed.
LEMMA ResultKeeps ==
    ASSUME OwnersInv, TightInv', NEW n \in 0 .. Len(stack), NEW o, NEW h, NEW text \in Texts,
           Made(heap, o, text), Push(n, Outcome(h, o.ptr), text),
           Less(h, o.heap, Tops(n))
    PROVE  OwnersInv'
<1>1. /\ TypeInv /\ HeapOK(heap) /\ stack \in Seq(Pointers) /\ Len(stack) \in Nat
      /\ HeapOK(heap')
  BY DEF OwnersInv, TightInv, TypeInv
<1>2. /\ o.ptr \in Ptrs \ DOMAIN heap /\ DOMAIN o.heap = DOMAIN heap \union {o.ptr}
      /\ \A q \in DOMAIN heap : o.heap[q] = heap[q]
      /\ o.heap[o.ptr].text = text
  BY <1>1, NewIs
<1>3. /\ heap' = h /\ stack' = Append(Popped(stack, n), o.ptr)
      /\ tval' = Append(Popped(tval, n), text) /\ UNCHANGED <<lit, var, val>>
  BY DEF Push, Outcome
<1>4. Tops(n) \subseteq {Null} \union DOMAIN heap
  <2>1. \A i \in Len(stack) - n + 1 .. Len(stack) : i \in 1 .. Len(stack)  BY <1>1
  <2> QED  BY <2>1 DEF Tops, OwnersInv, AllOwned
<1>5. o.ptr \notin Tops(n) /\ o.ptr # Null  BY <1>2, <1>4, StringsAssumption
<1>6. /\ DOMAIN heap' = (DOMAIN heap \ Tops(n)) \union ({o.ptr} \ {Null})
      /\ \A q \in DOMAIN heap \ Tops(n) : heap'[q] = heap[q]
  BY <1>2, <1>3, <1>5 DEF Less
<1>7. Text(heap', o.ptr) = text
  <2>1. o.ptr \in DOMAIN heap' /\ heap'[o.ptr].text = text  BY <1>2, <1>3, <1>5 DEF Less
  <2> QED  BY <1>1, <2>1, TextIs
<1>8. o.ptr \in Pointers  BY <1>2 DEF Pointers
<1> QED  BY <1>2, <1>3, <1>6, <1>7, <1>8, PushKeeps

\* NULL, the empty string, pushed once the blocks of the operands are freed.
LEMMA NullKeeps ==
    ASSUME OwnersInv, TightInv', NEW n \in 0 .. Len(stack), NEW h, NEW text, text = <<>>,
           Push(n, Outcome(h, Null), text),
           Less(h, heap, Tops(n))
    PROVE  OwnersInv'
<1>1. /\ heap' = h /\ stack' = Append(Popped(stack, n), Null)
      /\ tval' = Append(Popped(tval, n), text) /\ UNCHANGED <<lit, var, val>>
  BY DEF Push, Outcome
<1>2. HeapOK(heap')  BY DEF TightInv, TypeInv
<1>3. Text(heap', Null) = text  BY <1>2, TextIs
<1>4. Null \in Pointers /\ text \in Texts  BY DEF Pointers, Texts
<1>5. DOMAIN heap' = (DOMAIN heap \ Tops(n)) \union ({Null} \ {Null})  BY <1>1 DEF Less
<1>6. \A q \in DOMAIN heap \ Tops(n) : heap'[q] = heap[q]  BY <1>1 DEF Less
<1> QED  BY <1>1, <1>3, <1>4, <1>5, <1>6, PushKeeps

\* What is left of a heap when a block is freed, or an operand used.
LEMMA Freed ==
    ASSUME NEW h, NEW p
    PROVE  Less(Free(h, p), h, {p})
  BY DEF Free, Less

\* Freeing an operand frees its block only if it is a temporary one.
LEMMA FreedTemp ==
    ASSUME NEW h, NEW x, NEW p
    PROVE  Less(FreeTemp(h, x, p), h, Used(x, p))
<1>1. CASE x.kind = "tmp"  BY <1>1, Freed DEF FreeTemp, IsTemp, Used
<1>2. CASE x.kind # "tmp"  BY <1>2 DEF FreeTemp, IsTemp, Used, Less
<1> QED  BY <1>1, <1>2

\* Two blocks freed one after the other.
LEMMA FreedTwice ==
    ASSUME NEW f, NEW g, NEW h, NEW A, NEW B, Less(g, h, A), Less(f, g, B)
    PROVE  Less(f, h, A \union B)
  BY DEF Less

\* As long as memory does not run out, every action keeps the owners.
LEMMA StepOwners ==
    ASSUME OwnersInv, ~ MayFail, Next
    PROVE  OwnersInv'
<1>0. /\ TightInv' /\ TypeInv /\ HeapOK(heap) /\ Tight(heap) /\ Len(stack) \in Nat
      /\ lit \in Texts /\ var \in [Vars -> Pointers] /\ HeapOK(heap')
  BY StepType DEF OwnersInv, TightInv, TypeInv
<1>1. CASE NextLiteral
  <2>1. stack = <<>> /\ UNCHANGED <<heap, var, stack, val, tval>>  BY <1>1 DEF NextLiteral
  <2>2. Distinct' /\ AllOwned'  BY <2>1 DEF OwnersInv, Distinct, AllOwned
  <2>3. \A v \in Vars : var[v] # Literal
    BY <1>0, StringsAssumption DEF OwnersInv, AllOwned, HeapOK
  <2>4. \A v \in Vars : Text(heap, var[v])' = Text(heap, var[v])
    BY <2>1, <2>3 DEF Text
  <2>5. ValuesRight'
    BY <2>1, <2>4 DEF OwnersInv, ValuesRight
  <2> QED  BY <1>0, <2>2, <2>5 DEF OwnersInv
<1>2. ASSUME NEW v \in Vars, NEW x \in Named, StoreStr(v, x)  PROVE OwnersInv'
  <2> DEFINE t == Value(x, 0)
             f == Free(heap, var[v])
  <2>1. Temps(x) = 0  BY <1>2 DEF StoreStr, Temps
  <2>2. Ptr(x, 0) \in Pointers /\ t \in Texts /\ Text(heap, Ptr(x, 0)) = t
    BY <1>0, <2>1, OperandType, OperandValue
  <2>3. PICK o \in StrAssign(heap, var[v], Ptr(x, 0)) :
           heap' = o.heap /\ var' = [var EXCEPT ![v] = o.ptr]
    BY <1>2 DEF StoreStr
  <2>4. val' = [val EXCEPT ![v] = t] /\ UNCHANGED <<lit, stack, tval>>  BY <1>2 DEF StoreStr
  <2>5. var[v] \in Pointers  BY <1>0
  <2> HIDE DEF t, f
  <2>6. CASE Fits(heap, var[v], Len(t)) /\ o = Outcome(Write(heap, var[v], t), var[v])
    <3>1. heap' = Write(heap, var[v], t) /\ o.ptr = var[v]  BY <2>3, <2>6 DEF Outcome
    <3>2. /\ DOMAIN heap' = DOMAIN heap /\ heap'[var[v]].text = t
          /\ \A q \in DOMAIN heap \ {var[v]} : heap'[q] = heap[q]
      BY <1>0, <2>2, <2>6, <3>1, WriteIs
    <3>3. var[v] \in DOMAIN heap /\ var[v] \in Ptrs /\ var[v] # Null
      BY <1>0, <2>6, StringsAssumption DEF Fits, HeapOK
    <3>4. Text(heap', var[v]) = t  BY <1>0, <3>2, <3>3, TextIs
    <3>5. /\ DOMAIN heap' = (DOMAIN heap \ {var[v]}) \union ({o.ptr} \ {Null})
          /\ o.ptr \in {Null} \union (Ptrs \ (DOMAIN heap \ {var[v]}))
      BY <3>1, <3>2, <3>3
    <3> QED  BY <1>0, <2>3, <2>4, <3>1, <3>2, <3>4, <3>5, StoreKeeps
  <2>7. CASE Made(f, o, t)
    <3>1. /\ HeapOK(f) /\ DOMAIN f = DOMAIN heap \ {var[v]}
          /\ \A q \in DOMAIN heap \ {var[v]} : f[q] = heap[q]
      BY <1>0, FreeIs DEF f
    <3>2. /\ o.ptr \in Ptrs \ DOMAIN f /\ DOMAIN heap' = DOMAIN f \union {o.ptr}
          /\ \A q \in DOMAIN f : heap'[q] = f[q]
          /\ heap'[o.ptr].text = t
      BY <2>2, <2>3, <2>7, <3>1, NewIs
    <3>3. o.ptr # Null  BY <3>2, StringsAssumption
    <3>4. Text(heap', o.ptr) = t  BY <1>0, <3>2, TextIs
    <3>5. /\ DOMAIN heap' = (DOMAIN heap \ {var[v]}) \union ({o.ptr} \ {Null})
          /\ o.ptr \in {Null} \union (Ptrs \ (DOMAIN heap \ {var[v]}))
          /\ \A q \in DOMAIN heap \ {var[v]} : heap'[q] = heap[q]
      BY <3>1, <3>2, <3>3
    <3> QED  BY <1>0, <2>3, <2>4, <3>4, <3>5, StoreKeeps
  <2>8. \/ Fits(heap, var[v], Len(t)) /\ o = Outcome(Write(heap, var[v], t), var[v])
        \/ Made(f, o, t)
    <3>1. \/ /\ Fits(heap, var[v], Len(Text(heap, Ptr(x, 0))))
             /\ o = Outcome(Write(heap, var[v], Text(heap, Ptr(x, 0))), var[v])
          \/ Made(Free(heap, var[v]), o, Text(heap, Ptr(x, 0)))
          \/ MayFail /\ o = Outcome(Free(heap, var[v]), Ptr(x, 0))
      BY <1>0, <2>2, <2>3, <2>5, AssignIs
    <3> QED  BY <2>2, <3>1 DEF f
  <2> QED  BY <2>6, <2>7, <2>8
<1>3. ASSUME NEW v \in Vars, StoreStr2(v)  PROVE OwnersInv'
  BY <1>0, <1>3, MoveKeeps
<1>4. ASSUME NEW x \in Named, Load(x)  PROVE OwnersInv'
  <2> DEFINE p == Ptr(x, 0)
             t == Value(x, 0)
  <2>1. Temps(x) = 0  BY <1>4 DEF Load, Temps
  <2>2. p \in Pointers /\ t \in Texts /\ Text(heap, p) = t
    BY <1>0, <2>1, OperandType, OperandValue
  <2>3. PICK o \in LoadStr(heap, p) : Push(0, o, t)  BY <1>4 DEF Load
  <2>4. Tops(0) = {}
    <3>1. Len(stack) - 0 + 1 .. Len(stack) = {}  BY <1>0
    <3> QED  BY <3>1 DEF Tops
  <2> HIDE DEF p, t
  <2>5. CASE o = Outcome(heap, Null) /\ p = Null
    <3>1. t = <<>>  BY <1>0, <2>2, <2>5, TextIs
    <3>2. 0 \in 0 .. Len(stack)  BY <1>0
    <3>3. Push(0, Outcome(heap, Null), t)  BY <2>3, <2>5
    <3>4. Less(heap, heap, Tops(0))  BY <2>4 DEF Less
    <3> QED  BY <1>0, <3>1, <3>2, <3>3, <3>4, NullKeeps
  <2>6. CASE Made(heap, o, t)
    <3>1. 0 \in 0 .. Len(stack)  BY <1>0
    <3>2. Push(0, Outcome(o.heap, o.ptr), t)  BY <2>3 DEF Push, Outcome
    <3>3. Less(o.heap, o.heap, Tops(0))  BY <2>4 DEF Less
    <3> QED  BY <1>0, <2>2, <2>6, <3>1, <3>2, <3>3, ResultKeeps
  <2>7. \/ o = Outcome(heap, Null) /\ p = Null
        \/ Made(heap, o, t)
    BY <1>0, <2>2, <2>3, LoadIs
  <2> QED  BY <2>5, <2>6, <2>7
<1>5. ASSUME NEW x \in Named, NEW y \in Named, Add(x, y)  PROVE OwnersInv'
  <2> DEFINE n == Temps(x) + Temps(y)
             p == Ptr(x, Temps(y))
             q == Ptr(y, 0)
             t == Value(x, Temps(y)) \o Value(y, 0)
  <2>1. /\ Temps(x) \in 0 .. 1 /\ Temps(y) \in 0 .. 1
        /\ n \in 0 .. Len(stack) /\ n <= Len(stack)
    BY <1>0, <1>5, TempsIs DEF Add
  <2>2. /\ p \in Pointers /\ q \in Pointers
        /\ Value(x, Temps(y)) \in Texts /\ Value(y, 0) \in Texts
        /\ Text(heap, p) = Value(x, Temps(y)) /\ Text(heap, q) = Value(y, 0)
    BY <1>0, <2>1, OperandType, OperandValue
  <2>3. t \in Texts  BY <2>2 DEF Texts
  <2>4. PICK o \in AddStr(heap, p, q) :
           Push(n, Outcome(FreeTemp(FreeTemp(o.heap, x, p), y, q), o.ptr), t)
    BY <1>5 DEF Add
  <2>5. Tops(n) = Used(x, p) \union Used(y, q)
    BY <1>0, <2>1, TwoTops
  <2> HIDE DEF n, p, q
  <2>6. Made(heap, o, t)
    <3>1. \/ MayFail /\ o = Outcome(heap, p)
          \/ Made(heap, o, Text(heap, p) \o Text(heap, q))
      BY <1>0, <2>2, <2>4, AddIs
    <3> QED  BY <2>2, <3>1
  <2> HIDE DEF t
  <2> DEFINE g == FreeTemp(o.heap, x, p)
             h == FreeTemp(g, y, q)
  <2>8. Less(g, o.heap, Used(x, p))  BY FreedTemp
  <2>9. Less(h, g, Used(y, q))  BY FreedTemp
  <2>10. Push(n, Outcome(h, o.ptr), t)  BY <2>4 DEF g, h
  <2> HIDE DEF g, h
  <2>11. Less(h, o.heap, Tops(n))  BY <2>5, <2>8, <2>9, FreedTwice
  <2> QED  BY <1>0, <2>1, <2>3, <2>6, <2>10, <2>11, ResultKeeps
<1>6. ASSUME NEW x \in Named, NEW lo \in 0 .. MaxLen - 1, NEW hi \in 0 .. MaxLen - 1,
             Slice(x, lo, hi)
      PROVE  OwnersInv'
  <2> DEFINE n == Temps(x)
             p == Ptr(x, 0)
             t == Cut(Value(x, 0), lo, hi)
  <2>1. /\ n \in 0 .. Len(stack) /\ n <= Len(stack) /\ 0 + n <= Len(stack)
        /\ 0 \in 0 .. Len(stack) /\ lo \in Nat /\ hi \in Nat
    BY <1>0, <1>6, TempsIs DEF Slice
  <2>2. p \in Pointers /\ Value(x, 0) \in Texts /\ Text(heap, p) = Value(x, 0)
    BY <1>0, <2>1, OperandType, OperandValue
  <2>3. t \in Texts  BY <2>1, <2>2, CutType
  <2>4. PICK o \in StrSlice(heap, p, lo, hi) :
           Push(n, Outcome(FreeTemp(o.heap, x, p), o.ptr), t)
    BY <1>6 DEF Slice
  <2>5. Tops(n) = Used(x, p)
    BY <1>0, <2>1, OneTop
  <2> HIDE DEF n, p
  <2>6. \/ o = Outcome(heap, Null) /\ t = <<>>
        \/ Made(heap, o, t)
    <3>1. \/ o = Outcome(heap, Null) /\ (Cut(Text(heap, p), lo, hi) = <<>> \/ MayFail)
          \/ Made(heap, o, Cut(Text(heap, p), lo, hi))
      BY <1>0, <2>1, <2>2, <2>4, SliceIs
    <3> QED  BY <2>2, <3>1
  <2> HIDE DEF t
  <2> DEFINE h == FreeTemp(o.heap, x, p)
  <2>8. Less(h, o.heap, Tops(n))  BY <2>5, FreedTemp
  <2>9. Push(n, Outcome(h, o.ptr), t)  BY <2>4
  <2> HIDE DEF h
  <2>10. CASE o = Outcome(heap, Null) /\ t = <<>>
    <3>1. o.heap = heap /\ o.ptr = Null  BY <2>10 DEF Outcome
    <3> QED  BY <1>0, <2>1, <2>8, <2>9, <2>10, <3>1, NullKeeps
  <2>11. CASE Made(heap, o, t)
    BY <1>0, <2>1, <2>3, <2>8, <2>9, <2>11, ResultKeeps
  <2> QED  BY <2>6, <2>10, <2>11
<1>7. ASSUME NEW x \in Named, CallFunction(x)  PROVE OwnersInv'
  <2> DEFINE n == Temps(x)
             p == Ptr(x, 0)
             t == Value(x, 0)
  <2>1. /\ n \in 0 .. Len(stack) /\ n <= Len(stack) /\ 0 + n <= Len(stack)
        /\ 0 \in 0 .. Len(stack)
    BY <1>0, <1>7, TempsIs DEF CallFunction
  <2>2. /\ p \in Pointers /\ t \in Texts /\ Text(heap, p) = t
        /\ p \in {Null, Literal} \union DOMAIN heap
    BY <1>0, <2>1, OperandType, OperandValue
  <2>3. PICK arg \in IF IsTemp(x) THEN {Outcome(heap, p)} ELSE LoadStr(heap, p) :
           \E r \in LoadStr(arg.heap, arg.ptr) :
              Push(n, Outcome(Free(r.heap, arg.ptr), r.ptr), t)
    BY <1>7 DEF CallFunction
  <2>4. PICK r \in LoadStr(arg.heap, arg.ptr) :
           Push(n, Outcome(Free(r.heap, arg.ptr), r.ptr), t)
    BY <2>3
  <2>5. Tops(n) = Used(x, p)
    BY <1>0, <2>1, OneTop
  <2> HIDE DEF n, p, t
  <2> DEFINE h == Free(r.heap, arg.ptr)
  <2>6. CASE IsTemp(x)
    <3>1. arg.heap = heap /\ arg.ptr = p /\ Tops(n) = {p}
      BY <2>3, <2>5, <2>6 DEF Outcome, IsTemp, Used
    <3>2. (r = Outcome(heap, Null) /\ p = Null) \/ Made(heap, r, t)
      BY <1>0, <2>2, <2>4, <3>1, LoadIs
    <3>4. Less(h, r.heap, Tops(n))  BY <3>1, Freed
    <3>5. Push(n, Outcome(h, r.ptr), t)  BY <2>4
    <3> HIDE DEF h
    <3>6. CASE r = Outcome(heap, Null) /\ p = Null
      <4>1. r.heap = heap /\ r.ptr = Null  BY <3>6 DEF Outcome
      <4>2. t = <<>>  BY <1>0, <2>2, <3>6, TextIs
      <4> QED  BY <1>0, <2>1, <3>4, <3>5, <4>1, <4>2, NullKeeps
    <3>7. CASE Made(heap, r, t)
      BY <1>0, <2>1, <2>2, <3>4, <3>5, <3>7, ResultKeeps
    <3> QED  BY <3>2, <3>6, <3>7
  <2>7. CASE ~ IsTemp(x)
    <3>1. arg \in LoadStr(heap, p) /\ Tops(n) = {}  BY <2>3, <2>5, <2>7 DEF IsTemp, Used
    <3>2. (arg = Outcome(heap, Null) /\ p = Null) \/ Made(heap, arg, t)
      BY <1>0, <2>2, <3>1, LoadIs
    <3>3. Push(n, Outcome(h, r.ptr), t)  BY <2>4
    <3>4. CASE arg = Outcome(heap, Null) /\ p = Null
      <4>1. arg.heap = heap /\ arg.ptr = Null  BY <3>4 DEF Outcome
      <4>2. Null \in Pointers  BY DEF Pointers
      <4>4. r = Outcome(heap, Null)  BY <2>4, <4>1 DEF LoadStr
      <4>5. r.heap = heap /\ r.ptr = Null  BY <4>4 DEF Outcome
      <4>6. t = <<>>  BY <1>0, <2>2, <3>4, TextIs
      <4>7. Less(h, heap, Tops(n))
        <5>1. Null \notin DOMAIN heap  BY <1>0, StringsAssumption DEF HeapOK
        <5>2. Less(h, heap, {Null})  BY <4>1, <4>5, Freed
        <5> QED  BY <3>1, <5>1, <5>2 DEF Less
      <4> HIDE DEF h
      <4> QED  BY <1>0, <2>1, <3>3, <4>5, <4>6, <4>7, NullKeeps
    <3>5. CASE Made(heap, arg, t)
      <4>1. /\ HeapOK(arg.heap) /\ arg.ptr \in Ptrs \ DOMAIN heap
            /\ DOMAIN arg.heap = DOMAIN heap \union {arg.ptr}
            /\ \A q \in DOMAIN heap : arg.heap[q] = heap[q]
            /\ arg.heap[arg.ptr].text = t
        BY <1>0, <2>2, <3>5, NewIs
      <4>2. arg.ptr # Null /\ arg.ptr \in Pointers  BY <4>1, StringsAssumption DEF Pointers
      <4>3. Text(arg.heap, arg.ptr) = t  BY <4>1, TextIs
      <4>4. Made(arg.heap, r, t)
        <5>1. \/ r = Outcome(arg.heap, Null) /\ (arg.ptr = Null \/ MayFail)
              \/ arg.ptr # Null /\ Made(arg.heap, r, Text(arg.heap, arg.ptr))
          BY <1>0, <2>4, <4>1, <4>2, LoadIs
        <5> QED  BY <4>2, <4>3, <5>1
      <4>5. /\ HeapOK(r.heap) /\ r.ptr \in Ptrs \ DOMAIN arg.heap
            /\ DOMAIN r.heap = DOMAIN arg.heap \union {r.ptr}
            /\ \A q \in DOMAIN arg.heap : r.heap[q] = arg.heap[q]
            /\ r.heap[r.ptr].text = t
        BY <2>2, <4>1, <4>4, NewIs
      <4>6. Less(h, r.heap, {arg.ptr})  BY Freed
      <4> HIDE DEF h
      <4>7. heap' = h /\ stack' = Append(Popped(stack, n), r.ptr)
            /\ tval' = Append(Popped(tval, n), t) /\ UNCHANGED <<lit, var, val>>
        BY <3>3 DEF Push, Outcome
      <4>8. r.ptr # Null /\ r.ptr \in Pointers /\ r.ptr \notin DOMAIN heap /\ r.ptr # arg.ptr
        BY <4>1, <4>5, StringsAssumption DEF Pointers
      <4>9. DOMAIN heap' = (DOMAIN heap \ Tops(n)) \union ({r.ptr} \ {Null})
        BY <3>1, <4>1, <4>5, <4>6, <4>7, <4>8 DEF Less
      <4>10. \A q \in DOMAIN heap \ Tops(n) : heap'[q] = heap[q]
        BY <3>1, <4>1, <4>5, <4>6, <4>7 DEF Less
      <4>11. r.ptr \in DOMAIN heap' /\ heap'[r.ptr].text = t
        BY <4>5, <4>6, <4>7, <4>8 DEF Less
      <4>12. Text(heap', r.ptr) = t  BY <1>0, <4>11, TextIs
      <4>13. r.ptr \in {Null} \union (Ptrs \ DOMAIN heap)  BY <4>5, <4>8
      <4> QED  BY <1>0, <2>1, <2>2, <4>7, <4>8, <4>9, <4>10, <4>12, <4>13, PushKeeps
    <3> QED  BY <3>2, <3>4, <3>5
  <2> QED  BY <2>6, <2>7
<1>8. ASSUME NEW x \in Named, NEW y \in Named, Consume(x, y)  PROVE OwnersInv'
  <2> DEFINE n == Temps(x) + Temps(y)
             p == Ptr(x, Temps(y))
             q == Ptr(y, 0)
             g == FreeTemp(heap, x, p)
             h == FreeTemp(g, y, q)
  <2>1. n \in 0 .. Len(stack) /\ n <= Len(stack)  BY <1>0, <1>8, TempsIs DEF Consume
  <2>2. heap' = h /\ stack' = Popped(stack, n) /\ tval' = Popped(tval, n)
        /\ UNCHANGED <<lit, var, val>>
    BY <1>8 DEF Consume
  <2>3. Tops(n) = Used(x, p) \union Used(y, q)
    BY <1>0, <2>1, TwoTops
  <2> HIDE DEF n, p, q
  <2>4. Less(g, heap, Used(x, p))  BY FreedTemp
  <2>5. Less(h, g, Used(y, q))  BY FreedTemp
  <2> HIDE DEF g, h
  <2>6. DOMAIN heap' = DOMAIN heap \ Tops(n) /\ \A b \in DOMAIN heap' : heap'[b] = heap[b]
    BY <2>2, <2>3, <2>4, <2>5, FreedTwice DEF Less
  <2> QED  BY <1>0, <2>1, <2>2, <2>6, PopKeeps
<1>9. ASSUME NEW v \in Vars, Leave(v)  PROVE OwnersInv'
  <2>1. /\ heap' = Free(heap, var[v]) /\ UNCHANGED <<lit, stack, tval>>
        /\ var' = [var EXCEPT ![v] = Null] /\ val' = [val EXCEPT ![v] = <<>>]
    BY <1>9 DEF Leave, Empty
  <2>2. /\ DOMAIN heap' = (DOMAIN heap \ {var[v]}) \union ({Null} \ {Null})
        /\ \A q \in DOMAIN heap \ {var[v]} : heap'[q] = heap[q]
    BY <1>0, <2>1, FreeIs
  <2>3. Text(heap', Null) = <<>>  BY <1>0, TextIs
  <2> QED  BY <1>0, <2>1, <2>2, <2>3, StoreKeeps
<1> QED  BY <1>1, <1>2, <1>3, <1>4, <1>5, <1>6, <1>7, <1>8, <1>9 DEF Next
-----------------------------------------------------------------------------
(* The properties.                                                           *)

\* The counts of references, from the invariant.
LEMMA Owned ==
    ASSUME OwnersInv
    PROVE  OneOwner
<1>1. IsFiniteSet(1 .. Len(stack)) /\ Len(stack) \in Nat
  BY FS_Interval DEF OwnersInv, TightInv, TypeInv
<1>2. Literal \notin {Null} \union DOMAIN heap /\ Null \notin DOMAIN heap
      /\ DOMAIN heap \subseteq Ptrs /\ Null \notin Ptrs
  BY StringsAssumption DEF OwnersInv, TightInv, TypeInv, HeapOK
<1>3. ASSUME NEW p, p \notin {Null} \union DOMAIN heap  PROVE References(p) = 0
  <2>1. {v \in Vars : var[v] = p} = {} /\ {i \in 1 .. Len(stack) : stack[i] = p} = {}
    BY <1>3 DEF OwnersInv, AllOwned
  <2>2. Cardinality({}) = 0  BY FS_EmptySet
  <2>3. 0 + 0 = 0  OBVIOUS
  <2> QED  BY <2>1, <2>2, <2>3, Zenon DEF References
<1>4. ASSUME NEW p \in DOMAIN heap  PROVE References(p) = 1
  <2>3. Cardinality({}) = 0  BY FS_EmptySet
  <2>4. \A x : Cardinality({x}) = 1  BY FS_Singleton, Zenon
  <2>5. 1 + 0 = 1 /\ 0 + 1 = 1  OBVIOUS
  <2>1. CASE \E v \in Vars : var[v] = p
    <3>1. PICK v \in Vars : var[v] = p  BY <2>1
    <3>2. {w \in Vars : var[w] = p} = {v} /\ {i \in 1 .. Len(stack) : stack[i] = p} = {}
      BY <1>2, <3>1 DEF OwnersInv, Distinct
    <3> QED  BY <2>3, <2>4, <2>5, <3>2, Zenon DEF References
  <2>2. CASE ~ \E v \in Vars : var[v] = p
    <3>1. PICK i \in 1 .. Len(stack) : stack[i] = p  BY <2>2 DEF OwnersInv, AllOwned
    <3>2. {w \in Vars : var[w] = p} = {} /\ {k \in 1 .. Len(stack) : stack[k] = p} = {i}
      BY <1>2, <2>2, <3>1 DEF OwnersInv, Distinct
    <3> QED  BY <2>3, <2>4, <2>5, <3>2, Zenon DEF References
  <2> QED  BY <2>1, <2>2
<1> QED  BY <1>2, <1>3, <1>4 DEF OneOwner, NoDangling, NoSharing, NoLeak

\* The initial state has an empty heap, NULL variables and no temporaries.
LEMMA InitOwners ==
    ASSUME Init
    PROVE  OwnersInv
<1>1. /\ DOMAIN heap = {} /\ stack = <<>> /\ tval = <<>>
      /\ var = [v \in Vars |-> Null] /\ val = [v \in Vars |-> <<>>]
      /\ heap \in [DOMAIN heap -> Blocks]
  BY DEF Init, Empty
<1>2. \A c \in Chars : <<c>> \in Texts  BY DEF Texts, Letters
<1>3. <<>> \in Texts /\ Null \in Pointers /\ lit \in Texts
  <2>1. \E c \in Chars : lit = <<c>>  BY DEF Init, Literals
  <2> QED  BY <1>2, <2>1 DEF Texts, Pointers
<1>4. TypeInv  BY <1>1, <1>3 DEF TypeInv, HeapOK
<1>5. Tight(heap)  BY <1>1 DEF Tight
<1>6. Distinct /\ AllOwned  BY <1>1 DEF Distinct, AllOwned
<1>7. ValuesRight
  <2>1. Text(heap, Null) = <<>>  BY <1>4, TextIs DEF TypeInv
  <2>2. \A v \in Vars : Text(heap, var[v]) = val[v]  BY <1>1, <2>1
  <2>3. 1 .. Len(stack) = {}  BY <1>1
  <2> QED  BY <2>2, <2>3 DEF ValuesRight
<1> QED  BY <1>4, <1>5, <1>6, <1>7 DEF OwnersInv, TightInv

\* The routines that write strings never write beyond the block they are
\* given, whether or not allocations fail: a$ = b$ keeps a block only when the
\* text fits, and a new block is as long as the text that goes into it.
THEOREM FitsAlways == Spec => []TextFits
<1>1. Init => TightInv  BY InitOwners DEF OwnersInv
<1>2. TightInv /\ [Next]_vars => TightInv'
  <2>1. ASSUME TightInv, UNCHANGED vars  PROVE TightInv'
    BY <2>1 DEF vars, TightInv, TypeInv, HeapOK, Tight
  <2> QED  BY <2>1, StepType
<1>3. TightInv => TextFits
  <2>1. ASSUME TightInv, NEW p \in DOMAIN heap  PROVE Len(heap[p].text) <= heap[p].room
    <3>1. heap[p].text \in Texts /\ heap[p].room \in Len(heap[p].text) .. Len(heap[p].text) + Waste
      BY <2>1 DEF TightInv, TypeInv, HeapOK, Tight, Blocks
    <3> QED  BY <3>1, StringsAssumption DEF Texts
  <2> QED  BY <2>1 DEF TextFits
<1> QED  BY <1>1, <1>2, <1>3, PTL DEF Spec

\* What every behaviour keeps as long as memory does not run out.
LEMMA OwnersAlways == ASSUME ~ MayFail  PROVE Spec => []OwnersInv
<1>1. Init => OwnersInv  BY InitOwners
<1>2. OwnersInv /\ [Next]_vars => OwnersInv'
  <2>1. ASSUME OwnersInv, UNCHANGED vars  PROVE OwnersInv'
    <3>1. TightInv'  BY <2>1 DEF vars, OwnersInv, TightInv, TypeInv, HeapOK, Tight
    <3>2. Distinct' /\ AllOwned'  BY <2>1 DEF vars, OwnersInv, Distinct, AllOwned
    <3>3. ValuesRight'  BY <2>1 DEF vars, OwnersInv, ValuesRight, Text
    <3> QED  BY <3>1, <3>2, <3>3 DEF OwnersInv
  <2> QED  BY <2>1, StepOwners
<1> QED  BY <1>1, <1>2, PTL DEF Spec

\* When allocations do not fail, the statements and the routines neither lose
\* nor share a block, nor free one that is in use.
THEOREM OwnedAlways == ASSUME ~ MayFail  PROVE Spec => []OneOwner
<1>1. OwnersInv => OneOwner  BY Owned
<1> QED  BY <1>1, OwnersAlways, PTL

\* When allocations do not fail, variables and temporaries have the texts that
\* BASIC says: no statement changes a string that it does not name.
THEOREM ValuesAlways == ASSUME ~ MayFail  PROVE Spec => []ValuesRight
<1>1. OwnersInv => ValuesRight  BY DEF OwnersInv
<1> QED  BY <1>1, OwnersAlways, PTL
=============================================================================
