-------------------------- MODULE AsmMemoryProofs --------------------------
(* Proofs about AsmMemory, for any programs: a duplicate label is reported   *)
(* only when a name is declared twice in a scope, or in one of the two       *)
(* situations that the property names, and a name that is declared twice     *)
(* outside the reach of any LOCAL is always reported; when a program         *)
(* assembles, every operand has the address of a declaration it may mean and *)
(* is in the output where it was read; a program that keeps the rules has no *)
(* error of its labels.  AsmInvariants says by which invariants.             *)
EXTENDS AsmInvariants, FiniteSetTheorems

---------------------------
(* The program as read. *)

\* What the open PROCs are after a statement.
LEMMA ProcsNext ==
    ASSUME TypeInv, NextProcs
    PROVE  /\ procs' \in Seq(Nat)
           /\ \A j \in 1 .. Len(procs') : \/ j <= Len(procs) /\ procs'[j] = procs[j]
                                          \/ j = Len(procs) + 1 /\ procs'[j] = Now
           /\ Len(procs') <= Len(procs) + 1
<1>1. procs \in Seq(Nat) /\ Now \in Nat /\ Len(procs) \in Nat
  BY DEF TypeInv, IsSeq, Now
<1>2. CASE procs' = procs  BY <1>1, <1>2
<1>3. CASE procs' = Append(procs, Now)
  <2>1. /\ Append(procs, Now) \in Seq(Nat) /\ Len(Append(procs, Now)) = Len(procs) + 1
        /\ \A j \in 1 .. Len(procs) : Append(procs, Now)[j] = procs[j]
        /\ Append(procs, Now)[Len(procs) + 1] = Now
    BY <1>1, AppendProperties
  <2> QED  BY <1>1, <1>3, <2>1
<1>4. CASE procs # <<>> /\ procs' = SubSeq(procs, 1, Len(procs) - 1)
  <2>1. Len(procs) > 0  BY <1>1, <1>4
  <2> QED  BY <1>1, <1>4, <2>1, DroppedIs
<1> QED  BY <1>2, <1>3, <1>4 DEF NextProcs

\* What is known of a program after another statement.
LEMMA Noted ==
    ASSUME TypeInv, NEW note, note.procs = procs, log' = Append(log, note)
    PROVE  /\ IsSeq(log') /\ Len(log') = Now /\ DOMAIN log' = 1 .. Now /\ DOMAIN log = 1 .. Len(log)
           /\ Now \in Nat /\ Now \notin 1 .. Len(log)
           /\ \A i \in 1 .. Len(log) : log'[i] = log[i]
           /\ log'[Now] = note
           /\ \A i \in 1 .. Len(log') : log'[i].procs \in Seq(Nat)
<1>1. IsSeq(log) /\ procs \in Seq(Nat) /\ \A i \in 1 .. Len(log) : log[i].procs \in Seq(Nat)
  BY DEF TypeInv
<1>2. /\ IsSeq(log') /\ Len(log') = Now /\ \A i \in 1 .. Len(log) : log'[i] = log[i]
      /\ log'[Now] = note
  BY <1>1, AppendIs DEF Now
<1>3. /\ DOMAIN log' = 1 .. Len(log') /\ DOMAIN log = 1 .. Len(log) /\ Len(log) \in Nat
  BY <1>1, <1>2 DEF IsSeq
<1>4. ASSUME NEW i \in 1 .. Len(log') PROVE log'[i].procs \in Seq(Nat)
  <2>1. CASE i \in 1 .. Len(log)  BY <1>1, <1>2, <2>1
  <2>2. CASE i = Now  BY <1>1, <1>2, <2>2
  <2> QED  BY <1>2, <1>3, <2>1, <2>2 DEF Now
<1> QED  BY <1>2, <1>3, <1>4 DEF Now

\* PROCs stay nested.
LEMMA NestedNext ==
    ASSUME TypeInv, Nested, NEW note, note.procs = procs, log' = Append(log, note), NextProcs
    PROVE  Nested'
<1>1. /\ Len(log') = Now /\ Now \in Nat /\ Now = Len(log) + 1 /\ Len(log) \in Nat
      /\ \A i \in 1 .. Len(log) : log'[i] = log[i]
      /\ log'[Now] = note
  BY Noted DEF Now, TypeInv, IsSeq
<1>2. /\ \A j \in 1 .. Len(procs') : \/ j <= Len(procs) /\ procs'[j] = procs[j]
                                     \/ j = Len(procs) + 1 /\ procs'[j] = Now
      /\ Len(procs) \in Nat /\ Len(procs') \in Nat
      /\ \A j \in 1 .. Len(procs) : procs[j] \in Nat
  BY ProcsNext DEF TypeInv
<1>3. /\ \A j \in 1 .. Len(procs) : procs[j] \in 1 .. Len(log)
      /\ \A j, k \in 1 .. Len(procs) : j < k => procs[j] < procs[k]
  BY DEF Nested
<1>4. \A j \in 1 .. Len(procs') : procs'[j] \in 1 .. Len(log')  BY <1>1, <1>2, <1>3
<1>5. \A j, k \in 1 .. Len(procs') : j < k => procs'[j] < procs'[k]  BY <1>1, <1>2, <1>3
<1>6. ASSUME NEW i \in 1 .. Len(log')
      PROVE  LET p == log'[i].procs
             IN  /\ \A j \in 1 .. Len(p) : p[j] \in 1 .. i - 1
                 /\ \A j, k \in 1 .. Len(p) : j < k => p[j] < p[k]
                 /\ \A j \in 1 .. Len(procs') :
                       procs'[j] < i => j <= Len(p) /\ \A k \in 1 .. j : p[k] = procs'[k]
  <2> DEFINE p == log'[i].procs
  <2>1. CASE i \in 1 .. Len(log)
    <3>1. p = log[i].procs  BY <1>1, <2>1
    <3>2. /\ \A j \in 1 .. Len(p) : p[j] \in 1 .. i - 1
          /\ \A j, k \in 1 .. Len(p) : j < k => p[j] < p[k]
          /\ \A j \in 1 .. Len(procs) :
                procs[j] < i => j <= Len(p) /\ \A k \in 1 .. j : p[k] = procs[k]
      BY <2>1, <3>1 DEF Nested
    <3>3. ASSUME NEW j \in 1 .. Len(procs'), procs'[j] < i
          PROVE  j <= Len(p) /\ \A k \in 1 .. j : p[k] = procs'[k]
      <4>1. j <= Len(procs) /\ procs'[j] = procs[j]
        <5>1. i \in 1 .. Now - 1 /\ Now \in Nat  BY <1>1, <2>1
        <5>2. procs'[j] # Now  BY <3>3, <5>1
        <5> QED  BY <1>2, <3>3, <5>2
      <4>2. \A k \in 1 .. j : procs'[k] = procs[k]  BY <1>2, <4>1
      <4>3. j \in 1 .. Len(procs) /\ procs[j] < i  BY <1>2, <3>3, <4>1
      <4> HIDE DEF p
      <4>4. j <= Len(p) /\ \A k \in 1 .. j : p[k] = procs[k]  BY <3>2, <4>3
      <4> QED  BY <4>2, <4>4
    <3> QED  BY <3>2, <3>3
  <2>2. CASE i = Now
    <3>1. p = procs  BY <1>1, <2>2
    <3> HIDE DEF p
    <3>2. \A j \in 1 .. Len(p) : p[j] \in 1 .. i - 1  BY <1>1, <1>3, <2>2, <3>1
    <3>3. ASSUME NEW j \in 1 .. Len(procs'), procs'[j] < i
          PROVE  j <= Len(p) /\ \A k \in 1 .. j : p[k] = procs'[k]
      <4>1. j <= Len(procs)  BY <1>1, <1>2, <2>2, <3>3
      <4>2. \A k \in 1 .. j : procs'[k] = procs[k]  BY <1>2, <4>1
      <4> QED  BY <3>1, <4>1, <4>2
    <3> QED  BY <1>3, <3>1, <3>2, <3>3 DEF p
  <2> QED  BY <1>1, <2>1, <2>2
<1> QED  BY <1>4, <1>5, <1>6 DEF Nested

\* What the properties say of a program after another statement.
LEMMA LogNext ==
    ASSUME TypeInv, NEW note, note.procs = procs, log' = Append(log, note), NEW N, N = Now
    PROVE  /\ \A i \in 1 .. Len(log) : ProcOf(i)' = ProcOf(i)
           /\ ProcOf(N)' = Inner
           /\ \A w : Where(w)' = IF note.what = w THEN Where(w) \union {N} ELSE Where(w)
           /\ \A w : Where(w) \subseteq 1 .. Len(log)
           /\ \A n, p : Hidden(n, p)' <=> \/ Hidden(n, p)
                                          \/ /\ note.what = "local" /\ note.name = n
                                             /\ p = Inner /\ p # 0
<1>1. /\ Len(log') = N /\ N = Len(log) + 1 /\ N \in Nat /\ N \notin 1 .. Len(log)
      /\ DOMAIN log' = 1 .. N /\ DOMAIN log = 1 .. Len(log) /\ Len(log) \in Nat
      /\ \A i \in 1 .. Len(log) : log'[i] = log[i]
      /\ log'[N] = note
  BY Noted DEF Now, TypeInv, IsSeq
<1>2. \A i \in 1 .. Len(log) : ProcOf(i)' = ProcOf(i)  BY <1>1 DEF ProcOf
<1>3. ProcOf(N)' = Inner  BY <1>1 DEF ProcOf, Inner
<1>4. DOMAIN log' = DOMAIN log \union {N}  BY <1>1
<1>5. ASSUME NEW w PROVE Where(w)' = IF note.what = w THEN Where(w) \union {N} ELSE Where(w)
  BY <1>1, <1>4 DEF Where
<1>6. \A w : Where(w) \subseteq 1 .. Len(log)  BY <1>1 DEF Where
<1>7. ASSUME NEW n, NEW p
      PROVE  Hidden(n, p)' <=> \/ Hidden(n, p)
                               \/ note.what = "local" /\ note.name = n /\ p = Inner /\ p # 0
  <2>1. Hidden(n, p) <=> p # 0 /\ \E i \in Where("local") : log[i].name = n /\ ProcOf(i) = p
    BY <1>1, <1>6 DEF Hidden, LocalIn, End
  <2>2. \A i \in Where("local")' : i < End'
    <3>1. Where("local")' \subseteq DOMAIN log'  BY DEF Where
    <3> QED  BY <1>1, <3>1 DEF End
  <2>3. Hidden(n, p)' <=> p # 0 /\ \E i \in Where("local")' : log'[i].name = n /\ ProcOf(i)' = p
    BY <2>2 DEF Hidden, LocalIn
  <2>4. CASE note.what = "local"
    <3>1. Where("local")' = Where("local") \union {N}  BY <1>5, <2>4
    <3>2. \A i \in Where("local") : log'[i] = log[i] /\ ProcOf(i)' = ProcOf(i)  BY <1>1, <1>2, <1>6
    <3> QED  BY <1>1, <1>3, <2>1, <2>3, <2>4, <3>1, <3>2
  <2>5. CASE note.what # "local"
    <3>1. Where("local")' = Where("local")  BY <1>5, <2>5
    <3>2. \A i \in Where("local") : log'[i] = log[i] /\ ProcOf(i)' = ProcOf(i)  BY <1>1, <1>2, <1>6
    <3> QED  BY <2>1, <2>3, <2>5, <3>1, <3>2
  <2> QED  BY <2>4, <2>5
<1> QED  BY <1>2, <1>3, <1>5, <1>6, <1>7

\* A PROC begins before the statements in it.
LEMMA ProcBefore ==
    ASSUME TypeInv, Nested
    PROVE  /\ \A i \in 1 .. Len(log) : ProcOf(i) \in 0 .. i - 1
           /\ Inner \in 0 .. Len(log)
           /\ procs # <<>> => Inner = procs[Len(procs)] /\ Inner # 0
<1>1. procs \in Seq(Nat) /\ \A i \in 1 .. Len(log) : log[i].procs \in Seq(Nat)  BY DEF TypeInv
<1>2. ASSUME NEW i \in 1 .. Len(log) PROVE ProcOf(i) \in 0 .. i - 1
  <2> DEFINE p == log[i].procs
  <2>1. p \in Seq(Nat) /\ \A j \in 1 .. Len(p) : p[j] \in 1 .. i - 1  BY <1>1 DEF Nested
  <2>2. CASE p = <<>>  BY <2>2 DEF ProcOf
  <2>3. CASE p # <<>>
    <3>1. Len(p) \in 1 .. Len(p)  BY <2>1, <2>3
    <3>2. ProcOf(i) = p[Len(p)]  BY <2>3 DEF ProcOf, Last
    <3> QED  BY <2>1, <3>1, <3>2
  <2> QED  BY <2>2, <2>3
<1>3. CASE procs = <<>>
  <2>1. Inner = 0 /\ Len(log) \in Nat  BY <1>3 DEF Inner, TypeInv, IsSeq
  <2> QED  BY <1>2, <1>3, <2>1
<1>4. CASE procs # <<>>
  <2>1. Len(procs) \in 1 .. Len(procs) /\ Inner = procs[Len(procs)]  BY <1>1, <1>4 DEF Inner, Last
  <2>2. procs[Len(procs)] \in 1 .. Len(log)  BY <2>1 DEF Nested
  <2> QED  BY <1>2, <2>1, <2>2
<1> QED  BY <1>3, <1>4

\* A declaration of the whole program stays one, and unless a PROC ends no other
\* becomes one.
LEMMA SettledNext ==
    ASSUME TypeInv, Nested, NEW note, note.procs = procs, log' = Append(log, note), NextProcs
    PROVE  /\ \A d \in 1 .. Len(log) : Settled(d) => Settled(d)'
           /\ procs' \in {procs, Append(procs, Now)} =>
                 \A d \in 1 .. Len(log) : Settled(d) <=> Settled(d)'
<1>1. /\ \A i \in 1 .. Len(log) : log'[i] = log[i] /\ ProcOf(i)' = ProcOf(i)
      /\ \A n, p : Hidden(n, p)' <=> \/ Hidden(n, p)
                                     \/ /\ note.what = "local" /\ note.name = n
                                        /\ p = Inner /\ p # 0
  BY Noted, LogNext
<1>2. /\ \A j \in 1 .. Len(procs') : \/ j <= Len(procs) /\ procs'[j] = procs[j]
                                     \/ j = Len(procs) + 1 /\ procs'[j] = Now
      /\ Len(procs') \in Nat /\ Len(procs) \in Nat /\ Now \in Nat /\ Now = Len(log) + 1
  BY ProcsNext, Noted DEF TypeInv, Now
<1>3. /\ \A d \in 1 .. Len(log) : ProcOf(d) # Now
      /\ procs = <<>> => Inner = 0
      /\ procs # <<>> => Inner = procs[Len(procs)] /\ Len(procs) \in 1 .. Len(procs)
  <2>1. procs # <<>> => Len(procs) \in 1 .. Len(procs)  BY DEF TypeInv
  <2> QED  BY <1>2, <2>1, ProcBefore DEF Inner
<1>4. ASSUME NEW d \in 1 .. Len(log), Settled(d) PROVE Settled(d)'
  <2>1. \A j \in 1 .. Len(procs') : procs'[j] # ProcOf(d)  BY <1>2, <1>3, <1>4 DEF Settled
  <2>2. Inner # ProcOf(d) \/ Inner = 0  BY <1>3, <1>4 DEF Settled
  <2>3. ~ Hidden(log[d].name, ProcOf(d))'
    BY <1>1, <1>4, <2>2 DEF Settled
  <2> QED  BY <1>1, <2>1, <2>3 DEF Settled
<1>5. ASSUME procs' \in {procs, Append(procs, Now)}, NEW d \in 1 .. Len(log), Settled(d)'
      PROVE  Settled(d)
  <2>1. \A j \in 1 .. Len(procs) : procs[j] = procs'[j] /\ j \in 1 .. Len(procs')
    <3>1. procs \in Seq(Nat)  BY DEF TypeInv
    <3>2. /\ Len(Append(procs, Now)) = Len(procs) + 1
          /\ \A j \in 1 .. Len(procs) : Append(procs, Now)[j] = procs[j]
      BY <1>2, <3>1, AppendProperties
    <3> QED  BY <1>2, <1>5, <3>2
  <2>2. log'[d].name = log[d].name /\ ProcOf(d)' = ProcOf(d)  BY <1>1
  <2>3. ~ Hidden(log[d].name, ProcOf(d))  BY <1>1, <1>5, <2>2 DEF Settled
  <2> QED  BY <1>5, <2>1, <2>2, <2>3 DEF Settled
<1> QED  BY <1>4, <1>5

\* A use in an open PROC comes before every declaration in a PROC opened inside it.
LEMMA UsedBefore ==
    ASSUME TypeInv, Nested, NEW k \in 1 .. Len(procs), NEW j \in 1 .. Len(procs), k < j,
           NEW u \in 1 .. Len(log), ProcOf(u) = procs[k],
           NEW d \in 1 .. Len(log), ProcOf(d) = procs[j], log[u].name = log[d].name
    PROVE  UsedAround(u, d)
<1>1. /\ procs[k] \in Nat /\ procs[j] \in Nat /\ procs[k] < procs[j] /\ procs[k] # 0 /\ procs[j] # 0
      /\ Len(procs) \in Nat
  BY DEF TypeInv, Nested
<1>2. ASSUME NEW i \in 1 .. Len(log), ProcOf(i) # 0
      PROVE  /\ Len(log[i].procs) \in 1 .. Len(log[i].procs)
             /\ ProcOf(i) = log[i].procs[Len(log[i].procs)]
             /\ \A m \in 1 .. Len(log[i].procs) : log[i].procs[m] \in 1 .. i - 1
             /\ \A l, m \in 1 .. Len(log[i].procs) : l < m => log[i].procs[l] < log[i].procs[m]
             /\ DOMAIN log[i].procs = 1 .. Len(log[i].procs)
  <2>1. log[i].procs \in Seq(Nat) /\ log[i].procs # <<>>  BY <1>2 DEF TypeInv, ProcOf
  <2>2. Len(log[i].procs) \in 1 .. Len(log[i].procs)  BY <2>1
  <2>3. ProcOf(i) = log[i].procs[Len(log[i].procs)]  BY <2>1 DEF ProcOf, Last
  <2>4. /\ \A m \in 1 .. Len(log[i].procs) : log[i].procs[m] \in 1 .. i - 1
        /\ \A l, m \in 1 .. Len(log[i].procs) : l < m => log[i].procs[l] < log[i].procs[m]
    BY DEF Nested
  <2>5. DOMAIN log[i].procs = 1 .. Len(log[i].procs)  BY <2>1
  <2> QED  BY <2>2, <2>3, <2>4, <2>5
<1>3. ~ (procs[j] < u)
  <2> SUFFICES ASSUME procs[j] < u PROVE FALSE  OBVIOUS
  <2> DEFINE p == log[u].procs
  <2>1. j <= Len(p) /\ p[j] = procs[j]  BY <1>1 DEF Nested
  <2>2. /\ Len(p) \in 1 .. Len(p) /\ procs[k] = p[Len(p)]
        /\ \A m \in 1 .. Len(p) : p[m] \in 1 .. u - 1
        /\ \A l, m \in 1 .. Len(p) : l < m => p[l] < p[m]
    BY <1>1, <1>2
  <2> HIDE DEF p
  <2>3. p[j] <= p[Len(p)]
    <3>1. CASE j = Len(p)  BY <1>1, <2>1, <3>1
    <3>2. CASE j # Len(p)
      <4>1. j \in 1 .. Len(p) /\ j < Len(p)  BY <2>1, <2>2, <3>2
      <4>2. p[j] < p[Len(p)]  BY <2>2, <4>1
      <4> QED  BY <1>1, <2>1, <2>2, <4>2
    <3> QED  BY <3>1, <3>2
  <2> QED  BY <1>1, <2>1, <2>2, <2>3
<1>4. procs[j] < d
  <2>1. procs[j] \in 0 .. d - 1  BY ProcBefore
  <2> QED  BY <1>1, <2>1
<1>5. k \in DOMAIN log[d].procs /\ log[d].procs[k] = procs[k]
  <2>1. j <= Len(log[d].procs) /\ \A m \in 1 .. j : log[d].procs[m] = procs[m]  BY <1>4 DEF Nested
  <2>2. DOMAIN log[d].procs = 1 .. Len(log[d].procs) /\ Len(log[d].procs) \in 1 .. Len(log[d].procs)
    BY <1>1, <1>2
  <2> QED  BY <1>1, <2>1, <2>2
<1>6. u < d  BY <1>1, <1>3, <1>4
<1> QED  BY <1>1, <1>5, <1>6 DEF UsedAround, Encloses

\* A statement that opens and closes no PROC leaves every declaration where it
\* belongs, and is itself in the innermost scope.
LEMMA BelongsNext ==
    ASSUME TypeInv, Nested, NEW note, note.procs = procs, log' = Append(log, note),
           procs' = procs, NEW N, N = Now
    PROVE  /\ \A d \in 1 .. Len(log), k \in 1 .. Len(scopes) : Belongs(d, k)' <=> Belongs(d, k)
           /\ \A k \in 1 .. Len(scopes) : Belongs(N, k)' <=> k = Len(scopes)
           /\ \A u, d \in 1 .. Len(log) : UsedAround(u, d)' <=> UsedAround(u, d)
<1>1. /\ \A i \in 1 .. Len(log) : log'[i] = log[i] /\ ProcOf(i)' = ProcOf(i)
      /\ ProcOf(N)' = Inner
      /\ \A n, p : Hidden(n, p)' <=> \/ Hidden(n, p)
                                     \/ /\ note.what = "local" /\ note.name = n
                                        /\ p = Inner /\ p # 0
  BY Noted, LogNext
<1>2. \A d \in 1 .. Len(log) : Settled(d) <=> Settled(d)'
  BY SettledNext DEF NextProcs
<1>3. \A d \in 1 .. Len(log), k \in 1 .. Len(scopes) : Belongs(d, k)' <=> Belongs(d, k)
  BY <1>1, <1>2 DEF Belongs
<1>4. \A u, d \in 1 .. Len(log) : UsedAround(u, d)' <=> UsedAround(u, d)
  BY <1>1 DEF UsedAround, Encloses
<1>5. procs \in Seq(Nat) /\ Len(scopes) = Len(procs) + 1 /\ Len(procs) \in Nat  BY DEF TypeInv, LabelsOK
<1>6. CASE procs = <<>>
  <2>1. Len(scopes) = 1 /\ Inner = 0 /\ \A j \in 1 .. Len(procs') : FALSE  BY <1>5, <1>6 DEF Inner
  <2>2. ~ Hidden(log[N].name, ProcOf(N))'  BY <1>1, <2>1 DEF Hidden, LocalIn
  <2>3. Settled(N)'  BY <2>1, <2>2 DEF Settled
  <2>4. \A k \in 1 .. Len(scopes) : Belongs(N, k)' <=> k = Len(scopes)  BY <2>1, <2>3 DEF Belongs
  <2> QED  BY <1>3, <1>4, <2>4
<1>7. CASE procs # <<>>
  <2>1. Len(procs) \in 1 .. Len(procs) /\ Inner = procs[Len(procs)]  BY <1>5, <1>7, ProcBefore
  <2>2. ~ Settled(N)'  BY <1>1, <2>1 DEF Settled
  <2>3. \A k \in 1 .. Len(procs) : procs[k] = procs[Len(procs)] => k = Len(procs)
    <3>1. ASSUME NEW k \in 1 .. Len(procs), k # Len(procs) PROVE procs[k] # procs[Len(procs)]
      <4>1. k < Len(procs)  BY <1>5, <3>1
      <4>2. procs[k] < procs[Len(procs)]  BY <2>1, <4>1 DEF Nested
      <4>3. procs[k] \in Nat /\ procs[Len(procs)] \in Nat  BY <1>5, <2>1
      <4> QED  BY <4>2, <4>3
    <3> QED  BY <3>1
  <2>4. ASSUME NEW k \in 1 .. Len(scopes) PROVE Belongs(N, k)' <=> k = Len(scopes)
    <3>1. CASE k = 1  BY <1>5, <2>1, <2>2, <3>1 DEF Belongs
    <3>2. CASE k # 1
      <4>1. k - 1 \in 1 .. Len(procs)  BY <1>5, <3>2
      <4>2. Belongs(N, k)' <=> procs[k - 1] = procs[Len(procs)]  BY <1>1, <2>1, <3>2 DEF Belongs
      <4> QED  BY <1>5, <2>1, <2>3, <4>1, <4>2
    <3> QED  BY <3>1, <3>2
  <2> QED  BY <1>3, <1>4, <2>4
<1> QED  BY <1>6, <1>7

---------------------------
(* The labels and the scopes. *)

\* Labels with another value, and local ones.
LEMMA LabelWith ==
    ASSUME NEW l, IsLabel(l), NEW v
    PROVE  /\ IsLabel([l EXCEPT !.value = v]) /\ IsLabel([l EXCEPT !.local = v])
           /\ [l EXCEPT !.value = v].value = v /\ [l EXCEPT !.value = v].local = l.local
           /\ [l EXCEPT !.local = v].local = v /\ [l EXCEPT !.local = v].value = l.value
<1>1. PICK a, b, c, d, e, f :
         l = [name |-> a, value |-> b, local |-> c, dir |-> d, file |-> e, line |-> f]
  BY DEF IsLabel
<1>2. /\ [l EXCEPT !.value = v] = [name |-> a, value |-> v, local |-> c, dir |-> d, file |-> e, line |-> f]
      /\ [l EXCEPT !.local = v] = [name |-> a, value |-> b, local |-> v, dir |-> d, file |-> e, line |-> f]
  BY <1>1
<1> QED  BY <1>1, <1>2 DEF IsLabel

\* A label with another value.
LEMMA ValueWith ==
    ASSUME NEW l, IsLabel(l), NEW v
    PROVE  /\ IsLabel([l EXCEPT !.value = v])
           /\ [l EXCEPT !.value = v].value = v /\ [l EXCEPT !.value = v].local = l.local
<1>1. PICK a, b, c, d, e, f :
         l = [name |-> a, value |-> b, local |-> c, dir |-> d, file |-> e, line |-> f]
  BY DEF IsLabel
<1>2. [l EXCEPT !.value = v] = [name |-> a, value |-> v, local |-> c, dir |-> d, file |-> e, line |-> f]
  BY <1>1
<1> QED  BY <1>1, <1>2 DEF IsLabel

\* Another label of a name, or none, leaves the scopes in order.
LEMMA LabelsGrow ==
    ASSUME TypeInv, kit' = kit, procs' = procs, scopes' = scopes,
           NEW l, IsLabel(l), labels' = labels \/ labels' = Append(labels, l)
    PROVE  /\ LabelsOK'
           /\ \A k \in 1 .. Len(scopes) : \A n \in DOMAIN scopes[k] : LabelAt(k, n)' = LabelAt(k, n)
<1>1. LabelsOK /\ Names' = Names  BY DEF TypeInv, Names
<1>2. CASE labels' = labels  BY <1>1, <1>2 DEF LabelsOK, LabelAt
<1>3. CASE labels' = Append(labels, l)
  <2>1. /\ IsSeq(labels') /\ Len(labels') = Len(labels) + 1 /\ Len(labels) \in Nat
        /\ \A i \in 1 .. Len(labels) : labels'[i] = labels[i]
        /\ labels'[Len(labels) + 1] = l
    <3>1. IsSeq(labels)  BY <1>1 DEF LabelsOK
    <3>2. Len(labels) \in Nat  BY <3>1 DEF IsSeq
    <3> QED  BY <1>3, <3>1, <3>2, AppendIs
  <2>2. ASSUME NEW i \in 1 .. Len(labels') PROVE IsLabel(labels'[i])
    <3>1. CASE i \in 1 .. Len(labels)  BY <1>1, <2>1, <3>1 DEF LabelsOK
    <3>2. CASE i = Len(labels) + 1
      <4>1. labels'[i] = l  BY <2>1, <3>2
      <4> QED  BY <4>1
    <3> QED  BY <2>1, <3>1, <3>2
  <2>3. \A k \in 1 .. Len(scopes) : \A n \in DOMAIN scopes[k] :
           n[2] \in Names /\ scopes[k][n] \in 1 .. Len(labels)
    BY <1>1 DEF LabelsOK
  <2>4. \A k \in 1 .. Len(scopes) : \A n \in DOMAIN scopes[k] : scopes[k][n] \in 1 .. Len(labels')
    BY <2>1, <2>3
  <2>5. LabelsOK'  BY <1>1, <2>1, <2>2, <2>3, <2>4 DEF LabelsOK
  <2> QED  BY <2>1, <2>3, <2>5 DEF LabelAt
<1> QED  BY <1>2, <1>3

\* What PutLabel does to the scopes.
LEMMA PutIs ==
    ASSUME TypeInv, kit' = kit, procs' = procs, NEW name, name[2] \in Names, NEW l, IsLabel(l),
           PutLabel(name, l), NEW K, K = Len(scopes)
    PROVE  /\ LabelsOK' /\ K \in 1 .. Len(scopes) /\ Len(scopes') = Len(scopes)
           /\ \A k \in 1 .. Len(scopes) :
                 DOMAIN scopes'[k] = DOMAIN scopes[k] \union (IF k = K THEN {name} ELSE {})
           /\ LabelAt(K, name)' = l
           /\ OneScope => OneScope'
           /\ OneScope => \A k \in 1 .. Len(scopes) : \A n \in DOMAIN scopes[k] :
                             k # K \/ n # name => LabelAt(k, n)' = LabelAt(k, n)
<1>1. /\ IsSeq(labels) /\ Len(labels) \in Nat /\ \A i \in 1 .. Len(labels) : IsLabel(labels[i])
      /\ IsSeq(scopes) /\ Len(scopes) = Len(procs) + 1 /\ Len(procs) \in Nat
      /\ \A k \in 1 .. Len(scopes) : \A n \in DOMAIN scopes[k] :
            n[2] \in Names /\ scopes[k][n] \in 1 .. Len(labels)
      /\ Names' = Names
  BY DEF TypeInv, LabelsOK, IsSeq, Names
<1>2. K \in 1 .. Len(scopes) /\ Last(scopes) = scopes[K]  BY <1>1 DEF Last
<1>3. CASE name \in DOMAIN Last(scopes) /\ labels' = [labels EXCEPT ![Last(scopes)[name]] = l] /\ scopes' = scopes
  <2> DEFINE id == scopes[K][name]
  <2>1. id \in 1 .. Len(labels)  BY <1>1, <1>2, <1>3
  <2>2. /\ IsSeq(labels') /\ Len(labels') = Len(labels) /\ labels'[id] = l
        /\ \A i \in 1 .. Len(labels) : i # id => labels'[i] = labels[i]
    <3>1. PICK S : labels \in Seq(S)  BY <1>1 DEF IsSeq
    <3>2. labels \in Seq(S \union {l})  BY <3>1, SeqMonotonic
    <3>3. labels' = [labels EXCEPT ![id] = l]  BY <1>2, <1>3
    <3> HIDE DEF id
    <3>4. labels' \in Seq(S \union {l}) /\ Len(labels') = Len(labels)  BY <2>1, <3>2, <3>3
    <3> QED  BY <2>1, <3>2, <3>3, <3>4 DEF IsSeq
  <2>3. ASSUME NEW i \in 1 .. Len(labels') PROVE IsLabel(labels'[i])
    <3>1. CASE i = id
      <4>1. labels'[i] = l  BY <2>2, <3>1
      <4> QED  BY <4>1
    <3>2. CASE i # id
      <4>1. labels'[i] = labels[i] /\ i \in 1 .. Len(labels)  BY <2>2, <3>2
      <4>2. IsLabel(labels[i])  BY <1>1, <4>1
      <4> QED  BY <4>1, <4>2
    <3> QED  BY <3>1, <3>2
  <2>4. LabelsOK'  BY <1>1, <1>3, <2>2, <2>3 DEF LabelsOK
  <2>5. \A k \in 1 .. Len(scopes) :
           DOMAIN scopes'[k] = DOMAIN scopes[k] \union (IF k = K THEN {name} ELSE {})
    BY <1>2, <1>3
  <2>6. LabelAt(K, name)' = l  BY <1>3, <2>2 DEF LabelAt
  <2>7. OneScope => OneScope'  BY <1>3 DEF OneScope
  <2>8. ASSUME OneScope, NEW k \in 1 .. Len(scopes), NEW n \in DOMAIN scopes[k], k # K \/ n # name
        PROVE  LabelAt(k, n)' = LabelAt(k, n)
    <3>1. scopes[k][n] # id  BY <1>2, <1>3, <2>8 DEF OneScope
    <3> QED  BY <1>1, <1>3, <2>2, <3>1 DEF LabelAt
  <2> QED  BY <1>2, <1>3, <2>4, <2>5, <2>6, <2>7, <2>8
<1>4. CASE /\ name \notin DOMAIN Last(scopes) /\ labels' = Append(labels, l)
           /\ scopes' = [scopes EXCEPT ![Len(scopes)] = Put(Last(scopes), name, Len(labels'))]
  <2> DEFINE id == Len(labels) + 1
             new == Put(scopes[K], name, id)
  <2>1. /\ IsSeq(labels') /\ Len(labels') = id /\ labels'[id] = l /\ id \notin 1 .. Len(labels)
        /\ \A i \in 1 .. Len(labels) : labels'[i] = labels[i]
    BY <1>1, <1>4, AppendIs
  <2>2. /\ DOMAIN new = DOMAIN scopes[K] \union {name} /\ new[name] = id
        /\ \A n \in DOMAIN scopes[K] : n # name => new[n] = scopes[K][n]
    BY DEF Put
  <2>3. /\ IsSeq(scopes') /\ Len(scopes') = Len(scopes) /\ scopes'[K] = new
        /\ \A k \in 1 .. Len(scopes) : k # K => scopes'[k] = scopes[k]
    <3>1. PICK S : scopes \in Seq(S)  BY <1>1 DEF IsSeq
    <3>2. scopes \in Seq(S \union {new})  BY <3>1, SeqMonotonic
    <3>3. scopes' = [scopes EXCEPT ![K] = new]  BY <1>2, <1>4, <2>1
    <3> HIDE DEF new
    <3>4. scopes' \in Seq(S \union {new}) /\ Len(scopes') = Len(scopes)  BY <1>2, <3>2, <3>3
    <3> QED  BY <1>2, <3>2, <3>3, <3>4 DEF IsSeq
  <2>4. ASSUME NEW i \in 1 .. Len(labels') PROVE IsLabel(labels'[i])
    <3>1. CASE i = id
      <4>1. labels'[i] = l  BY <2>1, <3>1
      <4> QED  BY <4>1
    <3>2. CASE i # id
      <4>1. i \in 1 .. Len(labels)  BY <1>1, <2>1, <3>2
      <4>2. labels'[i] = labels[i] /\ IsLabel(labels[i])  BY <1>1, <2>1, <4>1
      <4> QED  BY <4>2
    <3> QED  BY <3>1, <3>2
  <2> HIDE DEF new
  <2>5. \A k \in 1 .. Len(scopes) :
           DOMAIN scopes'[k] = DOMAIN scopes[k] \union (IF k = K THEN {name} ELSE {})
    BY <1>2, <2>2, <2>3
  <2>6. \A k \in 1 .. Len(scopes) : \A n \in DOMAIN scopes[k] :
           k # K \/ n # name => scopes'[k][n] = scopes[k][n]
    BY <1>2, <2>2, <2>3
  <2>7. ASSUME NEW k \in 1 .. Len(scopes), NEW n \in DOMAIN scopes'[k]
        PROVE  \/ k = K /\ n = name /\ scopes'[k][n] = id
               \/ /\ k # K \/ n # name
                  /\ n \in DOMAIN scopes[k] /\ scopes'[k][n] = scopes[k][n]
                  /\ n[2] \in Names /\ scopes[k][n] \in 1 .. Len(labels)
    <3>1. CASE k = K /\ n = name  BY <1>2, <2>2, <2>3, <3>1
    <3>2. CASE k # K \/ n # name
      <4>1. n \in DOMAIN scopes[k]  BY <2>5, <3>2
      <4> QED  BY <1>1, <2>6, <3>2, <4>1
    <3> QED  BY <3>1, <3>2
  <2>8. LabelsOK'
    <3>1. \A k \in 1 .. Len(scopes') : \A n \in DOMAIN scopes'[k] :
             n[2] \in Names' /\ scopes'[k][n] \in 1 .. Len(labels')
      BY <1>1, <2>1, <2>3, <2>7
    <3> QED  BY <1>1, <2>1, <2>3, <2>4, <3>1 DEF LabelsOK
  <2>9. LabelAt(K, name)' = l  BY <2>1, <2>2, <2>3 DEF LabelAt
  <2>10. ASSUME OneScope PROVE OneScope'
    <3> SUFFICES ASSUME NEW j \in 1 .. Len(scopes), NEW k \in 1 .. Len(scopes),
                        NEW m \in DOMAIN scopes'[j], NEW n \in DOMAIN scopes'[k],
                        scopes'[j][m] = scopes'[k][n]
                 PROVE  j = k /\ m = n
      BY <2>3 DEF OneScope
    <3>1. CASE j = K /\ m = name  BY <2>1, <2>7, <3>1
    <3>2. CASE k = K /\ n = name  BY <2>1, <2>7, <3>2
    <3>3. CASE (j # K \/ m # name) /\ (k # K \/ n # name)
      <4>1. /\ m \in DOMAIN scopes[j] /\ n \in DOMAIN scopes[k] /\ scopes[j][m] = scopes[k][n]
        BY <2>7, <3>3
      <4> QED  BY <2>10, <4>1 DEF OneScope
    <3> QED  BY <3>1, <3>2, <3>3
  <2>11. \A k \in 1 .. Len(scopes) : \A n \in DOMAIN scopes[k] :
            k # K \/ n # name => LabelAt(k, n)' = LabelAt(k, n)
    BY <1>1, <2>1, <2>6 DEF LabelAt
  <2> QED  BY <1>2, <2>3, <2>5, <2>8, <2>9, <2>10, <2>11
<1> QED  BY <1>3, <1>4 DEF PutLabel

\* What EnterProc does to the scopes.
LEMMA EnterIs ==
    ASSUME TypeInv, kit' = kit, labels' = labels, procs' = Append(procs, Now),
           scopes' = Append(scopes, [n \in {} |-> 0])
    PROVE  /\ LabelsOK' /\ Len(scopes') = Len(scopes) + 1 /\ Len(scopes) \in Nat
           /\ \A k \in 1 .. Len(scopes) : scopes'[k] = scopes[k]
           /\ DOMAIN scopes'[Len(scopes) + 1] = {}
<1>1. LabelsOK /\ procs \in Seq(Nat) /\ Now \in Nat /\ Names' = Names
  BY DEF TypeInv, Names, Now, IsSeq
<1>2. IsSeq(scopes) /\ Len(scopes) \in Nat /\ Len(scopes) = Len(procs) + 1  BY <1>1 DEF LabelsOK, IsSeq
<1>3. /\ IsSeq(scopes') /\ Len(scopes') = Len(scopes) + 1
      /\ \A k \in 1 .. Len(scopes) : scopes'[k] = scopes[k]
      /\ scopes'[Len(scopes) + 1] = [n \in {} |-> 0]
  BY <1>2, AppendIs
<1>4. DOMAIN scopes'[Len(scopes) + 1] = {}  BY <1>3
<1>5. Len(procs') = Len(procs) + 1  BY <1>1, AppendProperties
<1>6. ASSUME NEW k \in 1 .. Len(scopes'), NEW n \in DOMAIN scopes'[k]
      PROVE  n[2] \in Names' /\ scopes'[k][n] \in 1 .. Len(labels')
  <2>1. k # Len(scopes) + 1  BY <1>4, <1>6
  <2>2. k \in 1 .. Len(scopes)  BY <1>2, <1>3, <2>1
  <2> QED  BY <1>1, <1>3, <2>2 DEF LabelsOK
<1>7. LabelsOK'  BY <1>1, <1>2, <1>3, <1>5, <1>6 DEF LabelsOK
<1> QED  BY <1>2, <1>3, <1>4, <1>7

\* What ExitProc does to the scopes and to the errors, when there is a PROC to end.
LEMMA ExitIs ==
    ASSUME TypeInv, ExitProc, Len(scopes) # 1
    PROVE  /\ labels' = [i \in DOMAIN labels |-> Handover(i)]
           /\ \/ Missing # {} /\ scopes' = Moved /\ procs' = procs
              \/ /\ Missing = {} /\ scopes' = SubSeq(Moved, 1, Len(Moved) - 1)
                 /\ procs' = SubSeq(procs, 1, Len(procs) - 1)
           /\ errors' = errors
                 \union (IF \E n \in Handed : n \in DOMAIN scopes[1] /\ Clash(LabelAt(1, n))
                         THEN {"duplicate"} ELSE {})
                 \union (IF Missing # {} THEN {"undefined local"} ELSE {})
<1> DEFINE clash == {n \in Handed : n \in DOMAIN scopes[1]}
<1>1. /\ labels' = [i \in DOMAIN labels |->
                      LET for == {n \in clash : scopes[1][n] = i}
                      IN  IF for = {} THEN labels[i]
                          ELSE Define(labels[i], labels[Last(scopes)[CHOOSE n \in for : TRUE]].value)]
      /\ errors' = errors
           \union (IF \E n \in clash : Clash(labels[scopes[1][n]]) THEN {"duplicate"} ELSE {})
           \union (IF Missing # {} THEN {"undefined local"} ELSE {})
      /\ IF Missing # {} THEN scopes' = Moved /\ UNCHANGED procs
         ELSE /\ scopes' = SubSeq(Moved, 1, Len(Moved) - 1)
              /\ procs' = SubSeq(procs, 1, Len(procs) - 1)
  BY Zenon DEF ExitProc, Handed, Missing, Moved
<1>2. labels' = [i \in DOMAIN labels |-> Handover(i)]
  BY <1>1, Zenon DEF Handover
<1>3. (\E n \in clash : Clash(labels[scopes[1][n]]))
        <=> \E n \in Handed : n \in DOMAIN scopes[1] /\ Clash(LabelAt(1, n))
  BY DEF LabelAt
<1> QED  BY <1>1, <1>2, <1>3

\* The scopes once the names are handed over, one by one.
LEMMA MovedIs ==
    ASSUME TypeInv, Len(scopes) # 1, NEW K, K = Len(scopes)
    PROVE  /\ K \in Nat /\ K > 1 /\ Last(scopes) = scopes[K]
           /\ IsSeq(Moved) /\ Len(Moved) = K
           /\ \A k \in 2 .. K : Moved[k] = scopes[k]
           /\ Handed \subseteq DOMAIN scopes[K]
           /\ DOMAIN Moved[1] = DOMAIN scopes[1] \union Handed
           /\ \A n \in DOMAIN scopes[1] : Moved[1][n] = scopes[1][n]
           /\ \A n \in Handed : n \notin DOMAIN scopes[1] => Moved[1][n] = scopes[K][n]
<1>1. IsSeq(scopes) /\ Len(scopes) = Len(procs) + 1 /\ Len(procs) \in Nat  BY DEF TypeInv, LabelsOK
<1>2. K \in Nat /\ K > 1 /\ Last(scopes) = scopes[K] /\ 1 \in 1 .. Len(scopes)  BY <1>1 DEF Last
<1> DEFINE first == [n \in DOMAIN scopes[1] \union Handed |->
                       IF n \in DOMAIN scopes[1] THEN scopes[1][n] ELSE Last(scopes)[n]]
<1>3. Handed \subseteq DOMAIN scopes[K]  BY <1>2 DEF Handed, Outgoing
<1>4. /\ DOMAIN first = DOMAIN scopes[1] \union Handed
      /\ \A n \in DOMAIN scopes[1] : first[n] = scopes[1][n]
      /\ \A n \in Handed : n \notin DOMAIN scopes[1] => first[n] = scopes[K][n]
  BY <1>2
<1>5. Moved = [scopes EXCEPT ![1] = first]  BY DEF Moved
<1> HIDE DEF first
<1>6. IsSeq(Moved) /\ Len(Moved) = Len(scopes) /\ Moved[1] = first /\ \A k \in 2 .. K : Moved[k] = scopes[k]
  <2>1. PICK S : scopes \in Seq(S)  BY <1>1 DEF IsSeq
  <2>2. scopes \in Seq(S \union {first})  BY <2>1, SeqMonotonic
  <2>3. Moved \in Seq(S \union {first}) /\ Len(Moved) = Len(scopes)  BY <1>2, <1>5, <2>2
  <2> QED  BY <1>2, <1>5, <2>2, <2>3 DEF IsSeq
<1> QED  BY <1>2, <1>3, <1>4, <1>6

\* A label stays one at an ENDP, local if it was, with its value unless the whole
\* program knows it under a name that is handed over.
LEMMA HandoverIs ==
    ASSUME TypeInv, Len(scopes) # 1, NEW K, K = Len(scopes)
    PROVE  /\ \A i \in 1 .. Len(labels) : IsLabel(Handover(i)) /\ Handover(i).local = labels[i].local
           /\ \A i \in 1 .. Len(labels) :
                 (\A n \in Handed : n \in DOMAIN scopes[1] => scopes[1][n] # i) => Handover(i) = labels[i]
           /\ OneScope =>
                 \A n \in Handed : n \in DOMAIN scopes[1] =>
                    Handover(scopes[1][n]).value = LabelAt(K, n).value
<1>1. \A i \in 1 .. Len(labels) : IsLabel(labels[i])  BY DEF TypeInv, LabelsOK
<1>2. K \in Nat /\ K > 1 /\ Last(scopes) = scopes[K]  BY MovedIs
<1> DEFINE For(i) == {n \in {n \in Handed : n \in DOMAIN scopes[1]} : scopes[1][n] = i}
           Lent(i) == labels[scopes[K][CHOOSE n \in For(i) : TRUE]].value
<1>3. ASSUME NEW i
      PROVE  /\ For(i) = {} => Handover(i) = labels[i]
             /\ For(i) # {} => Handover(i) = [labels[i] EXCEPT !.value = Lent(i)]
  BY <1>2, Zenon DEF Handover, Define
<1>5. \A i : For(i) = {} <=> \A n \in Handed : n \in DOMAIN scopes[1] => scopes[1][n] # i  OBVIOUS
<1>6. ASSUME OneScope, NEW n \in Handed, n \in DOMAIN scopes[1]
      PROVE  For(scopes[1][n]) = {n}
  <2>1. 1 \in 1 .. Len(scopes)  BY <1>2
  <2>2. \A m \in DOMAIN scopes[1] : scopes[1][m] = scopes[1][n] => m = n  BY <1>6, <2>1 DEF OneScope
  <2> QED  BY <1>6, <2>2
<1> HIDE DEF For
<1>7. ASSUME NEW i \in 1 .. Len(labels), NEW v
      PROVE  /\ IsLabel([labels[i] EXCEPT !.value = v])
             /\ [labels[i] EXCEPT !.value = v].local = labels[i].local
             /\ [labels[i] EXCEPT !.value = v].value = v
  <2>1. IsLabel(labels[i])  BY <1>1
  <2> QED  BY <2>1, LabelWith
<1>8. ASSUME NEW i \in 1 .. Len(labels)
      PROVE  IsLabel(Handover(i)) /\ Handover(i).local = labels[i].local
  <2>1. CASE For(i) = {}
    <3>1. Handover(i) = labels[i] /\ IsLabel(labels[i])  BY <1>1, <1>3, <2>1
    <3> QED  BY <3>1
  <2>2. CASE For(i) # {}
    <3>1. Handover(i) = [labels[i] EXCEPT !.value = Lent(i)]  BY <1>3, <2>2
    <3> HIDE DEF Lent
    <3>2. /\ IsLabel([labels[i] EXCEPT !.value = Lent(i)])
          /\ [labels[i] EXCEPT !.value = Lent(i)].local = labels[i].local
      BY <1>7
    <3> QED  BY <3>1, <3>2
  <2> QED  BY <2>1, <2>2
<1>9. ASSUME OneScope, NEW n \in Handed, n \in DOMAIN scopes[1]
      PROVE  Handover(scopes[1][n]).value = LabelAt(K, n).value
  <2> DEFINE i == scopes[1][n]
  <2>1. i \in 1 .. Len(labels)
    <3>1. 1 \in 1 .. Len(scopes)  BY <1>2
    <3> QED  BY <1>9, <3>1 DEF TypeInv, LabelsOK
  <2>2. For(i) = {n}  BY <1>6, <1>9
  <2>3. (CHOOSE m \in For(i) : TRUE) = n  BY <2>2
  <2>4. Lent(i) = LabelAt(K, n).value  BY <2>3 DEF LabelAt
  <2>5. Handover(i) = [labels[i] EXCEPT !.value = Lent(i)]  BY <1>3, <2>2
  <2> HIDE DEF Lent, i
  <2>6. [labels[i] EXCEPT !.value = Lent(i)].value = Lent(i)  BY <1>7, <2>1
  <2>7. Handover(i).value = LabelAt(K, n).value  BY <2>4, <2>5, <2>6
  <2> QED  BY <2>7 DEF i
<1> QED  BY <1>3, <1>5, <1>8, <1>9

\* Scopes stay in order at an ENDP.
LEMMA ExitType ==
    ASSUME TypeInv, ExitProc, kit' = kit
    PROVE  LabelsOK' /\ NextProcs
<1>1. /\ IsSeq(labels) /\ DOMAIN labels = 1 .. Len(labels) /\ Len(labels) \in Nat
      /\ IsSeq(scopes) /\ Len(scopes) = Len(procs) + 1 /\ procs \in Seq(Nat) /\ Len(procs) \in Nat
      /\ \A k \in 1 .. Len(scopes) : \A n \in DOMAIN scopes[k] :
            n[2] \in Names /\ scopes[k][n] \in 1 .. Len(labels)
      /\ Names' = Names /\ LabelsOK
  BY DEF TypeInv, LabelsOK, IsSeq, Names
<1>2. CASE Len(scopes) = 1
  <2>1. UNCHANGED <<scopes, procs, labels>>  BY <1>2 DEF ExitProc
  <2> QED  BY <1>1, <2>1 DEF LabelsOK, NextProcs
<1>3. CASE Len(scopes) # 1
  <2> DEFINE K == Len(scopes)
  <2>1. /\ labels' = [i \in DOMAIN labels |-> Handover(i)]
        /\ \/ scopes' = Moved /\ procs' = procs
           \/ /\ scopes' = SubSeq(Moved, 1, Len(Moved) - 1)
              /\ procs' = SubSeq(procs, 1, Len(procs) - 1)
    BY <1>3, ExitIs
  <2>2. \A i \in 1 .. Len(labels) : IsLabel(Handover(i))  BY <1>3, HandoverIs
  <2>3. IsSeq(labels') /\ Len(labels') = Len(labels) /\ \A i \in 1 .. Len(labels') : IsLabel(labels'[i])
    <3>1. labels' = [i \in 1 .. Len(labels) |-> Handover(i)]  BY <1>1, <2>1
    <3>2. labels' \in Seq({Handover(i) : i \in 1 .. Len(labels)}) /\ Len(labels') = Len(labels)
      BY <1>1, <3>1
    <3>3. \A i \in 1 .. Len(labels) : labels'[i] = Handover(i)  BY <3>1
    <3>4. ASSUME NEW i \in 1 .. Len(labels') PROVE IsLabel(labels'[i])
      <4>1. labels'[i] = Handover(i) /\ IsLabel(Handover(i))  BY <2>2, <3>2, <3>3
      <4> QED  BY <4>1
    <3> QED  BY <3>2, <3>4 DEF IsSeq
  <2>4. /\ K \in Nat /\ K > 1 /\ IsSeq(Moved) /\ Len(Moved) = K
        /\ \A k \in 2 .. K : Moved[k] = scopes[k]
        /\ Handed \subseteq DOMAIN scopes[K]
        /\ DOMAIN Moved[1] = DOMAIN scopes[1] \union Handed
        /\ \A n \in DOMAIN scopes[1] : Moved[1][n] = scopes[1][n]
        /\ \A n \in Handed : n \notin DOMAIN scopes[1] => Moved[1][n] = scopes[K][n]
    BY <1>3, MovedIs
  <2>5. ASSUME NEW k \in 1 .. K, NEW n \in DOMAIN Moved[k]
        PROVE  n[2] \in Names /\ Moved[k][n] \in 1 .. Len(labels)
    <3>1. 1 \in 1 .. K /\ K \in 1 .. K  BY <2>4
    <3>2. CASE k = 1 /\ n \in DOMAIN scopes[1]  BY <1>1, <2>4, <3>1, <3>2
    <3>3. CASE k = 1 /\ n \notin DOMAIN scopes[1]  BY <1>1, <2>4, <2>5, <3>1, <3>3
    <3>4. CASE k # 1
      <4>1. k \in 2 .. K  BY <2>4, <3>4
      <4>2. Moved[k] = scopes[k]  BY <2>4, <4>1
      <4> QED  BY <1>1, <2>5, <4>2
    <3> QED  BY <3>2, <3>3, <3>4
  <2>6. CASE scopes' = Moved /\ procs' = procs
    <3>1. \A k \in 1 .. Len(scopes') : \A n \in DOMAIN scopes'[k] :
             n[2] \in Names' /\ scopes'[k][n] \in 1 .. Len(labels')
      BY <1>1, <2>3, <2>4, <2>5, <2>6
    <3>2. IsSeq(scopes') /\ Len(scopes') = Len(procs') + 1  BY <1>1, <2>4, <2>6
    <3> QED  BY <2>3, <2>6, <3>1, <3>2 DEF LabelsOK, NextProcs
  <2>7. CASE scopes' = SubSeq(Moved, 1, Len(Moved) - 1) /\ procs' = SubSeq(procs, 1, Len(procs) - 1)
    <3>1. /\ IsSeq(scopes') /\ Len(scopes') = K - 1
          /\ \A k \in 1 .. K - 1 : scopes'[k] = Moved[k]
      <4>1. PICK S : Moved \in Seq(S)  BY <2>4 DEF IsSeq
      <4>2. Len(Moved) > 0 /\ Len(Moved) = K  BY <2>4
      <4> HIDE DEF K
      <4>3. /\ SubSeq(Moved, 1, Len(Moved) - 1) \in Seq(S)
            /\ Len(SubSeq(Moved, 1, Len(Moved) - 1)) = Len(Moved) - 1
            /\ \A k \in 1 .. Len(Moved) - 1 : SubSeq(Moved, 1, Len(Moved) - 1)[k] = Moved[k]
        BY <4>1, <4>2, DroppedIs
      <4> QED  BY <2>7, <4>2, <4>3 DEF IsSeq
    <3>2. \A k \in 1 .. Len(scopes') : \A n \in DOMAIN scopes'[k] :
             n[2] \in Names' /\ scopes'[k][n] \in 1 .. Len(labels')
      <4> SUFFICES ASSUME NEW k \in 1 .. Len(scopes'), NEW n \in DOMAIN scopes'[k]
                   PROVE  n[2] \in Names /\ scopes'[k][n] \in 1 .. Len(labels)
        BY <1>1, <2>3
      <4>1. k \in 1 .. K - 1 /\ k \in 1 .. K  BY <2>4, <3>1
      <4>2. scopes'[k] = Moved[k]  BY <3>1, <4>1
      <4> HIDE DEF K
      <4> QED  BY <2>5, <4>1, <4>2
    <3>3. procs # <<>> /\ Len(procs') = Len(procs) - 1
      <4>1. Len(procs) > 0  BY <1>1, <1>3
      <4> QED  BY <1>1, <2>7, <4>1, DroppedIs
    <3> QED  BY <1>1, <2>3, <2>7, <3>1, <3>2, <3>3 DEF LabelsOK, NextProcs
  <2> QED  BY <2>1, <2>6, <2>7
<1> QED  BY <1>2, <1>3

---------------------------
(* The scopes after each statement. *)

\* A statement that is no declaration of a name, and no LOCAL, leaves the scopes right.
LEMMA OtherScopes ==
    ASSUME TypeInv, Nested, ScopesInv, kit' = kit, procs' = procs, scopes' = scopes,
           NEW l, IsLabel(l), labels' = labels \/ labels' = Append(labels, l),
           NEW note, note.procs = procs, log' = Append(log, note), note.what # "local",
           note.what = "label" => note.name[2] \notin Names
    PROVE  ScopesInv'
<1> DEFINE N == Now
<1>1. /\ \A k \in 1 .. Len(scopes) : \A n \in DOMAIN scopes[k] : LabelAt(k, n)' = LabelAt(k, n)
      /\ Names' = Names
      /\ \A k \in 1 .. Len(scopes) : \A n \in DOMAIN scopes[k] : n[2] \in Names
      /\ Len(scopes) = Len(procs) + 1 /\ Len(procs) \in Nat
  BY LabelsGrow DEF TypeInv, LabelsOK, Names
<1>2. /\ \A i \in 1 .. Len(log) : log'[i] = log[i] /\ ProcOf(i)' = ProcOf(i)
      /\ log'[N] = note
      /\ \A w : Where(w)' = IF note.what = w THEN Where(w) \union {N} ELSE Where(w)
      /\ \A w : Where(w) \subseteq 1 .. Len(log)
      /\ \A n, p : Hidden(n, p)' <=> Hidden(n, p)
  BY Noted, LogNext
<1>3. /\ \A d \in 1 .. Len(log), k \in 1 .. Len(scopes) : Belongs(d, k)' <=> Belongs(d, k)
      /\ \A u, d \in 1 .. Len(log) : UsedAround(u, d)' <=> UsedAround(u, d)
      /\ \A d \in 1 .. Len(log) : Settled(d)' <=> Settled(d)
  BY BelongsNext, SettledNext DEF NextProcs
<1> HIDE DEF N
<1>4. OneScope'  BY DEF ScopesInv, OneScope
<1>5. LocalsKnown'
  <2>1. Where("local")' = Where("local")  BY <1>2
  <2>2. \A k \in 2 .. Len(scopes) :
           /\ \A n \in DOMAIN scopes[k] : LabelAt(k, n).local => Hidden(n, procs[k - 1])
           /\ \A i \in Where("local") :
                 ProcOf(i) = procs[k - 1] => log[i].name \in DOMAIN scopes[k] /\ LabelAt(k, log[i].name).local
    BY DEF ScopesInv, LocalsKnown
  <2>3. \A k \in 2 .. Len(scopes) : k \in 1 .. Len(scopes)  OBVIOUS
  <2>4. \A k \in 2 .. Len(scopes) :
           /\ \A n \in DOMAIN scopes[k] : LabelAt(k, n)'.local => Hidden(n, procs[k - 1])'
           /\ \A i \in Where("local")' :
                 ProcOf(i)' = procs'[k - 1] => log'[i].name \in DOMAIN scopes[k] /\ LabelAt(k, log[i].name)'.local
    BY <1>1, <1>2, <2>1, <2>2, <2>3
  <2> QED  BY <1>2, <2>1, <2>4 DEF LocalsKnown, LabelAt
<1>6. ValuesDeclared'
  <2> SUFFICES ASSUME NEW k \in 1 .. Len(scopes), NEW n \in DOMAIN scopes[k], Clash(LabelAt(k, n))'
               PROVE  \E d \in Where("label")' : log'[d].name = n /\ Belongs(d, k)'
    BY DEF ValuesDeclared
  <2>1. Clash(LabelAt(k, n))  BY <1>1 DEF Clash
  <2>2. PICK d \in Where("label") : log[d].name = n /\ Belongs(d, k)
    BY <2>1 DEF ScopesInv, ValuesDeclared
  <2> QED  BY <1>2, <1>3, <2>2
<1>7. WaitingUsed'
  <2> SUFFICES ASSUME NEW k \in 2 .. Len(scopes), NEW n \in DOMAIN scopes[k],
                      ~ LabelAt(k, n)'.local, ~ Clash(LabelAt(k, n))'
               PROVE  UsedFirst(n, procs[k - 1])'
    BY DEF WaitingUsed
  <2>1. k \in 1 .. Len(scopes) /\ n[2] \in Names  BY <1>1
  <2>2. ~ LabelAt(k, n).local /\ ~ Clash(LabelAt(k, n))  BY <1>1, <2>1 DEF Clash
  <2>3. UsedFirst(n, procs[k - 1])  BY <2>2 DEF ScopesInv, WaitingUsed
  <2>4. PICK u \in Where("use") :
           /\ log[u].name = n /\ ProcOf(u) = procs[k - 1]
           /\ \A d \in Where("label") : log[d].name = n /\ Settled(d) => UsedAround(u, d)
    BY <2>3 DEF UsedFirst
  <2>5. ASSUME NEW d \in Where("label")', log'[d].name = n, Settled(d)' PROVE UsedAround(u, d)'
    <3>1. d \in Where("label")  BY <1>2, <2>1, <2>5
    <3> QED  BY <1>2, <1>3, <2>4, <2>5, <3>1
  <2>6. u \in Where("use")' /\ log'[u].name = n /\ ProcOf(u)' = procs'[k - 1]  BY <1>2, <2>4
  <2> QED  BY <2>5, <2>6 DEF UsedFirst
<1>8. DeclarationsKnown'
  <2> SUFFICES ASSUME NEW d \in Where("label")', NEW k \in 1 .. Len(scopes),
                      log'[d].name[2] \in Names, Belongs(d, k)'
               PROVE  log'[d].name \in DOMAIN scopes[k] /\ Clash(LabelAt(k, log[d].name))'
    BY <1>1 DEF DeclarationsKnown
  <2>1. d \in Where("label") /\ log'[d] = log[d] /\ Belongs(d, k)  BY <1>2, <1>3
  <2>2. log[d].name \in DOMAIN scopes[k] /\ Clash(LabelAt(k, log[d].name))
    BY <2>1 DEF ScopesInv, DeclarationsKnown
  <2> QED  BY <1>1, <2>1, <2>2 DEF Clash
<1>9. DeclaredOnce'
  <2> SUFFICES ASSUME NEW c \in Where("label")', NEW d \in Where("label")', NEW k \in 1 .. Len(scopes),
                      log'[c].name[2] \in Names, log'[c].name = log'[d].name,
                      Belongs(c, k)', Belongs(d, k)'
               PROVE  c = d
    BY <1>1 DEF DeclaredOnce
  <2>1. /\ c \in Where("label") /\ log'[c] = log[c] /\ Belongs(c, k)
        /\ d \in Where("label") /\ log'[d] = log[d] /\ Belongs(d, k)
    BY <1>2, <1>3
  <2> QED  BY <2>1 DEF ScopesInv, DeclaredOnce
<1> QED  BY <1>4, <1>5, <1>6, <1>7, <1>8, <1>9 DEF ScopesInv

\* LOCAL of a name, its declaration, and its first use, leave the scopes right: the
\* LOCAL one keeps the value, the declared one had none, the used one is known nowhere.
LEMMA PutScopes ==
    ASSUME TypeInv, Nested, ScopesInv, kit' = kit, procs' = procs,
           NEW name, name[2] \in Names, NEW l, IsLabel(l), PutLabel(name, l),
           NEW note, note.procs = procs, note.name = name, log' = Append(log, note),
           NEW K, K = Len(scopes), NEW N, N = Now,
           \/ /\ note.what = "local" /\ l.local
              /\ Clash(l) => name \in DOMAIN scopes[K]
              /\ name \in DOMAIN scopes[K] => (Clash(l) <=> Clash(LabelAt(K, name)))
           \/ /\ note.what = "label" /\ Clash(l)
              /\ l.local => name \in DOMAIN scopes[K]
              /\ name \in DOMAIN scopes[K] => (l.local <=> LabelAt(K, name).local) /\ ~ Clash(LabelAt(K, name))
           \/ /\ note.what = "use" /\ ~ Clash(l) /\ ~ l.local
              /\ \A k \in 1 .. Len(scopes) : name \notin DOMAIN scopes[k]
    PROVE  ScopesInv'
<1>1. /\ K \in 1 .. Len(scopes) /\ Len(scopes') = Len(scopes)
      /\ \A k \in 1 .. Len(scopes) :
            DOMAIN scopes'[k] = DOMAIN scopes[k] \union (IF k = K THEN {name} ELSE {})
      /\ LabelAt(K, name)' = l
      /\ OneScope'
      /\ \A k \in 1 .. Len(scopes) : \A n \in DOMAIN scopes[k] :
            k # K \/ n # name => LabelAt(k, n)' = LabelAt(k, n)
  BY PutIs DEF ScopesInv
<1>2. /\ Names' = Names /\ Len(scopes) = Len(procs) + 1 /\ Len(procs) \in Nat /\ procs \in Seq(Nat)
      /\ \A k \in 2 .. Len(scopes) : k \in 1 .. Len(scopes) /\ procs # <<>>
  BY DEF TypeInv, LabelsOK, Names
<1>3. /\ \A i \in 1 .. Len(log) : log'[i] = log[i] /\ ProcOf(i)' = ProcOf(i)
      /\ log'[N] = note /\ ProcOf(N)' = Inner /\ N \notin 1 .. Len(log)
      /\ \A w : Where(w)' = IF note.what = w THEN Where(w) \union {N} ELSE Where(w)
      /\ \A w : Where(w) \subseteq 1 .. Len(log)
      /\ \A n, p : Hidden(n, p)' <=> \/ Hidden(n, p)
                                     \/ /\ note.what = "local" /\ note.name = n
                                        /\ p = Inner /\ p # 0
  BY Noted, LogNext
<1>4. /\ \A d \in 1 .. Len(log), k \in 1 .. Len(scopes) : Belongs(d, k)' <=> Belongs(d, k)
      /\ \A k \in 1 .. Len(scopes) : Belongs(N, k)' <=> k = K
      /\ \A u, d \in 1 .. Len(log) : UsedAround(u, d)' <=> UsedAround(u, d)
      /\ \A d \in 1 .. Len(log) : Settled(d)' <=> Settled(d)
  BY BelongsNext, SettledNext DEF NextProcs
<1>5. \A k \in 2 .. Len(scopes) : procs[k - 1] = Inner <=> k = K
  <2> SUFFICES ASSUME NEW k \in 2 .. Len(scopes) PROVE procs[k - 1] = Inner <=> k = K  OBVIOUS
  <2>1. k \in 1 .. Len(scopes) /\ k # 1 /\ Belongs(N, k)' <=> k = K  BY <1>4
  <2>2. Belongs(N, k)' <=> Inner = procs[k - 1]  BY <1>3 DEF Belongs
  <2> QED  BY <1>4, <2>1, <2>2
<1>6. \A k \in 2 .. Len(scopes) : Inner # 0  BY <1>2, ProcBefore
<1>7. ASSUME NEW k \in 1 .. Len(scopes), NEW n \in DOMAIN scopes'[k]
      PROVE  \/ k = K /\ n = name /\ LabelAt(k, n)' = l
             \/ /\ n \in DOMAIN scopes[k] /\ (k # K \/ n # name)
                /\ LabelAt(k, n)' = LabelAt(k, n)
  BY <1>1
<1>8. LocalsKnown'
  <2>1. ASSUME NEW k \in 2 .. Len(scopes), NEW n \in DOMAIN scopes'[k], LabelAt(k, n)'.local
        PROVE  Hidden(n, procs[k - 1])'
    <3>1. \A m \in DOMAIN scopes[k] : LabelAt(k, m).local => Hidden(m, procs[k - 1])
      BY DEF ScopesInv, LocalsKnown
    <3>2. CASE n \in DOMAIN scopes[k] /\ LabelAt(k, n)' = LabelAt(k, n)
      <4>1. Hidden(n, procs[k - 1])  BY <2>1, <3>1, <3>2
      <4> QED  BY <1>3, <4>1
    <3>3. CASE k = K /\ n = name /\ LabelAt(k, n)' = l
      <4>1. procs[k - 1] = Inner /\ Inner # 0  BY <1>5, <1>6, <3>3
      <4>2. CASE note.what = "local"  BY <1>3, <3>3, <4>1, <4>2
      <4>3. CASE note.what # "local"
        <5>1. n \in DOMAIN scopes[k] /\ LabelAt(k, n).local  BY <2>1, <3>3, <4>3
        <5> QED  BY <1>3, <3>1, <5>1
      <4> QED  BY <4>2, <4>3
    <3> QED  BY <1>2, <1>7, <3>2, <3>3
  <2>2. ASSUME NEW k \in 2 .. Len(scopes), NEW i \in Where("local")', ProcOf(i)' = procs[k - 1]
        PROVE  log'[i].name \in DOMAIN scopes'[k] /\ LabelAt(k, log[i].name)'.local
    <3>1. CASE i \in Where("local")
      <4>1. log'[i] = log[i] /\ ProcOf(i) = procs[k - 1]  BY <1>3, <2>2, <3>1
      <4>2. log[i].name \in DOMAIN scopes[k] /\ LabelAt(k, log[i].name).local
        BY <3>1, <4>1 DEF ScopesInv, LocalsKnown
      <4>3. log[i].name \in DOMAIN scopes'[k]  BY <1>1, <1>2, <4>2
      <4> PICK n : n = log[i].name  OBVIOUS
      <4>4. LabelAt(k, n)'.local
        <5>1. n \in DOMAIN scopes[k] /\ LabelAt(k, n).local /\ n \in DOMAIN scopes'[k]  BY <4>1, <4>2, <4>3
        <5>2. CASE k = K /\ n = name /\ LabelAt(k, n)' = l  BY <5>1, <5>2
        <5>3. CASE LabelAt(k, n)' = LabelAt(k, n)  BY <5>1, <5>3
        <5> QED  BY <1>2, <1>7, <5>1, <5>2, <5>3
      <4> QED  BY <4>1, <4>3, <4>4 DEF LabelAt
    <3>2. CASE i = N /\ note.what = "local"
      <4>1. k = K /\ log'[i].name = name  BY <1>3, <1>5, <2>2, <3>2
      <4>2. name \in DOMAIN scopes'[k] /\ LabelAt(K, name)' = l  BY <1>1, <1>2, <4>1
      <4> QED  BY <3>2, <4>1, <4>2 DEF LabelAt
    <3> QED  BY <1>3, <3>1, <3>2
  <2> QED  BY <1>1, <2>1, <2>2 DEF LocalsKnown
<1>9. ValuesDeclared'
  <2> SUFFICES ASSUME NEW k \in 1 .. Len(scopes), NEW n \in DOMAIN scopes'[k], Clash(LabelAt(k, n))'
               PROVE  \E d \in Where("label")' : log'[d].name = n /\ Belongs(d, k)'
    BY <1>1 DEF ValuesDeclared
  <2>1. CASE n \in DOMAIN scopes[k] /\ Clash(LabelAt(k, n))
    <3>1. PICK d \in Where("label") : log[d].name = n /\ Belongs(d, k)
      BY <2>1 DEF ScopesInv, ValuesDeclared
    <3> QED  BY <1>3, <1>4, <3>1
  <2>2. CASE k = K /\ n = name /\ note.what = "label"  BY <1>3, <1>4, <2>2
  <2>3. CASE n \in DOMAIN scopes[k] /\ LabelAt(k, n)' = LabelAt(k, n)
    <3>1. Clash(LabelAt(k, n))  BY <2>3 DEF Clash
    <3> QED  BY <2>1, <2>3, <3>1
  <2>4. CASE k = K /\ n = name /\ LabelAt(k, n)' = l
    <3>1. Clash(l)  BY <2>4 DEF Clash
    <3> QED  BY <2>1, <2>2, <2>4, <3>1
  <2> QED  BY <1>7, <2>3, <2>4
<1>10. WaitingUsed'
  <2> SUFFICES ASSUME NEW k \in 2 .. Len(scopes), NEW n \in DOMAIN scopes'[k],
                      ~ LabelAt(k, n)'.local, ~ Clash(LabelAt(k, n))'
               PROVE  UsedFirst(n, procs[k - 1])'
    BY <1>1 DEF WaitingUsed
  <2>1. ~ Settled(N)' /\ K # 1 /\ k \in 1 .. Len(scopes)
    <3>1. 1 \in 1 .. Len(scopes) /\ K # 1  BY <1>2
    <3>2. ~ Belongs(N, 1)'  BY <1>4, <3>1
    <3> QED  BY <1>2, <3>1, <3>2 DEF Belongs
  <2>2. CASE n \in DOMAIN scopes[k] /\ LabelAt(k, n)' = LabelAt(k, n)
    <3>1. ~ LabelAt(k, n).local /\ ~ Clash(LabelAt(k, n))  BY <2>2 DEF Clash
    <3>2. UsedFirst(n, procs[k - 1])  BY <2>2, <3>1 DEF ScopesInv, WaitingUsed
    <3>3. PICK u \in Where("use") :
             /\ log[u].name = n /\ ProcOf(u) = procs[k - 1]
             /\ \A d \in Where("label") : log[d].name = n /\ Settled(d) => UsedAround(u, d)
      BY <3>2 DEF UsedFirst
    <3>4. ASSUME NEW d \in Where("label")', log'[d].name = n, Settled(d)' PROVE UsedAround(u, d)'
      <4>1. d \in Where("label")  BY <1>3, <2>1, <3>4
      <4> QED  BY <1>3, <1>4, <3>3, <3>4, <4>1
    <3>5. u \in Where("use")' /\ log'[u].name = n /\ ProcOf(u)' = procs'[k - 1]  BY <1>3, <3>3
    <3> QED  BY <3>4, <3>5 DEF UsedFirst
  <2>3. CASE k = K /\ n = name /\ LabelAt(k, n)' = l
    <3>1. note.what = "use" /\ \A j \in 1 .. Len(scopes) : name \notin DOMAIN scopes[j]
      BY <2>3 DEF Clash
    <3>2. N \in Where("use")' /\ log'[N].name = n /\ ProcOf(N)' = procs'[k - 1]
      BY <1>3, <1>5, <2>3, <3>1
    <3>3. ASSUME NEW d \in Where("label")', log'[d].name = n, Settled(d)' PROVE FALSE
      <4>1. d \in Where("label") /\ log[d].name = name /\ Settled(d)  BY <1>3, <1>4, <2>3, <3>1, <3>3
      <4>2. Belongs(d, 1) /\ 1 \in 1 .. Len(scopes)  BY <1>2, <4>1 DEF Belongs
      <4>3. name \in DOMAIN scopes[1]  BY <4>1, <4>2 DEF ScopesInv, DeclarationsKnown
      <4> QED  BY <3>1, <4>2, <4>3
    <3> QED  BY <3>2, <3>3 DEF UsedFirst
  <2> QED  BY <1>7, <2>1, <2>2, <2>3
<1>11. ASSUME NEW d \in Where("label"), log[d].name = name, Belongs(d, K)
       PROVE  name \in DOMAIN scopes[K] /\ Clash(LabelAt(K, name)) /\ note.what = "local" /\ Clash(l)
  BY <1>1, <1>11 DEF ScopesInv, DeclarationsKnown
<1>12. DeclarationsKnown'
  <2> SUFFICES ASSUME NEW d \in Where("label")', NEW k \in 1 .. Len(scopes),
                      log'[d].name[2] \in Names, Belongs(d, k)'
               PROVE  log'[d].name \in DOMAIN scopes'[k] /\ Clash(LabelAt(k, log[d].name))'
    BY <1>1, <1>2 DEF DeclarationsKnown
  <2>1. CASE d = N
    <3>1. k = K /\ note.what = "label" /\ log'[d].name = name  BY <1>3, <1>4, <2>1
    <3>2. Clash(LabelAt(K, name))'  BY <1>1, <3>1 DEF Clash
    <3> QED  BY <1>1, <3>1, <3>2 DEF LabelAt, Clash
  <2>2. CASE d \in Where("label")
    <3>1. log'[d] = log[d] /\ Belongs(d, k)  BY <1>3, <1>4, <2>2
    <3>2. log[d].name \in DOMAIN scopes[k] /\ Clash(LabelAt(k, log[d].name))
      BY <2>2, <3>1 DEF ScopesInv, DeclarationsKnown
    <3> PICK n : n = log[d].name  OBVIOUS
    <3>3. n \in DOMAIN scopes'[k] /\ Clash(LabelAt(k, n))'
      <4>1. n \in DOMAIN scopes[k] /\ Clash(LabelAt(k, n)) /\ n \in DOMAIN scopes'[k]  BY <1>1, <3>2
      <4>2. CASE LabelAt(k, n)' = LabelAt(k, n)  BY <4>1, <4>2 DEF Clash
      <4>3. CASE k = K /\ n = name /\ LabelAt(k, n)' = l
        <5>1. Clash(l)  BY <1>11, <2>2, <3>1, <4>3
        <5> QED  BY <4>1, <4>3, <5>1 DEF Clash
      <4> QED  BY <1>7, <4>1, <4>2, <4>3
    <3> QED  BY <3>1, <3>3 DEF LabelAt, Clash
  <2> QED  BY <1>3, <2>1, <2>2
<1>13. DeclaredOnce'
  <2> SUFFICES ASSUME NEW c \in Where("label")', NEW d \in Where("label")', NEW k \in 1 .. Len(scopes),
                      log'[c].name[2] \in Names, log'[c].name = log'[d].name,
                      Belongs(c, k)', Belongs(d, k)'
               PROVE  c = d
    BY <1>1, <1>2 DEF DeclaredOnce
  <2>1. ASSUME NEW e \in Where("label"), log[e].name = name, Belongs(e, k)', Belongs(N, k)', N \in Where("label")'
        PROVE  FALSE
    <3>1. k = K /\ Belongs(e, K) /\ note.what = "label"  BY <1>3, <1>4, <2>1
    <3> QED  BY <1>11, <2>1, <3>1
  <2>2. CASE c = N  BY <1>3, <2>1, <2>2
  <2>3. CASE d = N  BY <1>3, <2>1, <2>3
  <2>4. CASE c # N /\ d # N
    <3>1. /\ c \in Where("label") /\ log'[c] = log[c] /\ Belongs(c, k)
          /\ d \in Where("label") /\ log'[d] = log[d] /\ Belongs(d, k)
      BY <1>3, <1>4, <2>4
    <3> QED  BY <3>1 DEF ScopesInv, DeclaredOnce
  <2> QED  BY <2>2, <2>3, <2>4
<1> QED  BY <1>1, <1>8, <1>9, <1>10, <1>12, <1>13 DEF ScopesInv

\* PROC opens a scope that knows no name.
LEMMA EnterScopes ==
    ASSUME TypeInv, Nested, ScopesInv, kit' = kit, labels' = labels, procs' = Append(procs, Now),
           scopes' = Append(scopes, [n \in {} |-> 0]),
           NEW note, note.procs = procs, note.what = "proc", log' = Append(log, note),
           NEW K, K = Len(scopes)
    PROVE  ScopesInv'
<1>1. /\ K \in Nat /\ K = Len(procs) + 1 /\ Len(procs) \in Nat /\ procs \in Seq(Nat)
      /\ Len(scopes') = K + 1 /\ DOMAIN scopes'[K + 1] = {} /\ Names' = Names
      /\ \A k \in 1 .. K : scopes'[k] = scopes[k]
  BY EnterIs DEF TypeInv, LabelsOK, Names
<1>2. /\ \A i \in 1 .. Len(log) : log'[i] = log[i] /\ ProcOf(i)' = ProcOf(i)
      /\ \A w \in {"local", "label", "use"} : Where(w)' = Where(w)
      /\ \A w : Where(w) \subseteq 1 .. Len(log)
      /\ \A n, p : Hidden(n, p)' <=> Hidden(n, p)
      /\ Now \notin 1 .. Len(log)
  BY Noted, LogNext
<1>3. \A d \in 1 .. Len(log) : ProcOf(d) # Now
  BY Noted, ProcBefore DEF Now
<1>4. procs'[K] = Now /\ \A k \in 2 .. K : procs'[k - 1] = procs[k - 1]
  <2>1. Now \in Nat  BY Noted
  <2>2. /\ procs'[Len(procs) + 1] = Now
        /\ \A j \in 1 .. Len(procs) : procs'[j] = procs[j]
    BY <1>1, <2>1, AppendProperties
  <2>3. \A k \in 2 .. K : k - 1 \in 1 .. Len(procs)  BY <1>1
  <2> QED  BY <1>1, <2>2, <2>3
<1>5. \A d \in 1 .. Len(log) : Settled(d)' <=> Settled(d)  BY SettledNext DEF NextProcs
<1>6. \A d \in 1 .. Len(log), k \in 1 .. K : Belongs(d, k)' <=> Belongs(d, k)
  <2> SUFFICES ASSUME NEW d \in 1 .. Len(log), NEW k \in 1 .. K PROVE Belongs(d, k)' <=> Belongs(d, k)
    OBVIOUS
  <2>1. CASE k = 1  BY <1>5, <2>1 DEF Belongs
  <2>2. CASE k # 1
    <3>1. k \in 2 .. K  BY <1>1, <2>2
    <3> QED  BY <1>2, <1>4, <2>2, <3>1 DEF Belongs
  <2> QED  BY <2>1, <2>2
<1>7. \A d \in 1 .. Len(log) : ~ Belongs(d, K + 1)'
  <2>1. PICK k : k = K + 1  OBVIOUS
  <2>2. k # 1 /\ k - 1 = K  BY <1>1, <2>1
  <2>3. \A d \in 1 .. Len(log) : Belongs(d, k)' <=> ProcOf(d)' = procs'[k - 1]  BY <2>2 DEF Belongs
  <2>4. \A d \in 1 .. Len(log) : Belongs(d, k)' <=> ProcOf(d) = Now  BY <1>2, <1>4, <2>2, <2>3
  <2> QED  BY <1>3, <2>1, <2>4
<1>8. \A u, d \in 1 .. Len(log) : UsedAround(u, d)' <=> UsedAround(u, d)
  BY <1>2 DEF UsedAround, Encloses
<1>9. /\ \A k \in 1 .. K + 1 : \A n \in DOMAIN scopes'[k] : k \in 1 .. K /\ n \in DOMAIN scopes[k]
      /\ \A k \in 1 .. K : \A n : LabelAt(k, n)' = LabelAt(k, n)
  <2>1. \A k \in 1 .. K + 1 : k = K + 1 \/ k \in 1 .. K  BY <1>1
  <2> QED  BY <1>1, <2>1 DEF LabelAt
<1>10. K = Len(scopes)  OBVIOUS
<1>11. OneScope'
  <2> SUFFICES ASSUME NEW j \in 1 .. K + 1, NEW k \in 1 .. K + 1,
                      NEW m \in DOMAIN scopes'[j], NEW n \in DOMAIN scopes'[k],
                      scopes'[j][m] = scopes'[k][n]
               PROVE  j = k /\ m = n
    BY <1>1 DEF OneScope
  <2>1. j \in 1 .. K /\ k \in 1 .. K /\ m \in DOMAIN scopes[j] /\ n \in DOMAIN scopes[k]  BY <1>9
  <2>2. scopes[j][m] = scopes[k][n]  BY <1>1, <2>1
  <2> QED  BY <1>10, <2>1, <2>2 DEF ScopesInv, OneScope
<1>12. LocalsKnown'
  <2>1. ASSUME NEW k \in 2 .. K + 1, NEW n \in DOMAIN scopes'[k], LabelAt(k, n)'.local
        PROVE  Hidden(n, procs[k - 1])'
    <3>1. k \in 1 .. K + 1 /\ k \in 2 .. K /\ n \in DOMAIN scopes[k]  BY <1>1, <1>9
    <3>2. LabelAt(k, n).local  BY <1>9, <2>1, <3>1
    <3>3. Hidden(n, procs[k - 1])  BY <1>10, <3>1, <3>2 DEF ScopesInv, LocalsKnown
    <3> QED  BY <1>2, <1>4, <3>1, <3>3
  <2>2. ASSUME NEW k \in 2 .. K + 1, NEW i \in Where("local")', ProcOf(i)' = procs'[k - 1]
        PROVE  log'[i].name \in DOMAIN scopes'[k] /\ LabelAt(k, log[i].name)'.local
    <3>1. i \in Where("local") /\ log'[i] = log[i] /\ ProcOf(i) = procs'[k - 1]  BY <1>2, <2>2
    <3>2. k \in 2 .. K
      <4>1. k # K + 1
        <5>1. k = K + 1 => k - 1 = K  BY <1>1
        <5>2. ProcOf(i) # Now  BY <1>2, <1>3, <3>1
        <5> QED  BY <1>4, <3>1, <5>1, <5>2
      <4> QED  BY <1>1, <4>1
    <3>3. ProcOf(i) = procs[k - 1] /\ k \in 1 .. K  BY <1>1, <1>4, <3>1, <3>2
    <3>4. log[i].name \in DOMAIN scopes[k] /\ LabelAt(k, log[i].name).local
      BY <1>10, <3>1, <3>2, <3>3 DEF ScopesInv, LocalsKnown
    <3>5. PICK n : n = log[i].name  OBVIOUS
    <3>6. n \in DOMAIN scopes'[k] /\ LabelAt(k, n)'.local  BY <1>1, <1>9, <3>3, <3>4, <3>5
    <3> QED  BY <3>1, <3>5, <3>6 DEF LabelAt
  <2> QED  BY <1>1, <2>1, <2>2 DEF LocalsKnown
<1>13. ValuesDeclared'
  <2> SUFFICES ASSUME NEW k \in 1 .. K + 1, NEW n \in DOMAIN scopes'[k], Clash(LabelAt(k, n))'
               PROVE  \E d \in Where("label")' : log'[d].name = n /\ Belongs(d, k)'
    BY <1>1 DEF ValuesDeclared
  <2>1. k \in 1 .. K /\ n \in DOMAIN scopes[k] /\ LabelAt(k, n)' = LabelAt(k, n)  BY <1>9
  <2>2. Clash(LabelAt(k, n))  BY <2>1 DEF Clash
  <2>3. PICK d \in Where("label") : log[d].name = n /\ Belongs(d, k)
    BY <1>10, <2>1, <2>2 DEF ScopesInv, ValuesDeclared
  <2> QED  BY <1>2, <1>6, <2>1, <2>3
<1>14. WaitingUsed'
  <2> SUFFICES ASSUME NEW k \in 2 .. K + 1, NEW n \in DOMAIN scopes'[k],
                      ~ LabelAt(k, n)'.local, ~ Clash(LabelAt(k, n))'
               PROVE  UsedFirst(n, procs[k - 1])'
    BY <1>1 DEF WaitingUsed
  <2>1. k \in 1 .. K + 1 /\ k \in 2 .. K /\ n \in DOMAIN scopes[k] /\ LabelAt(k, n)' = LabelAt(k, n)
    BY <1>1, <1>9
  <2>2. ~ LabelAt(k, n).local /\ ~ Clash(LabelAt(k, n))  BY <2>1 DEF Clash
  <2>3. UsedFirst(n, procs[k - 1])  BY <1>10, <2>1, <2>2 DEF ScopesInv, WaitingUsed
  <2>4. PICK u \in Where("use") :
           /\ log[u].name = n /\ ProcOf(u) = procs[k - 1]
           /\ \A d \in Where("label") : log[d].name = n /\ Settled(d) => UsedAround(u, d)
    BY <2>3 DEF UsedFirst
  <2>5. ASSUME NEW d \in Where("label")', log'[d].name = n, Settled(d)' PROVE UsedAround(u, d)'
    BY <1>2, <1>5, <1>8, <2>4, <2>5
  <2>6. u \in Where("use")' /\ log'[u].name = n /\ ProcOf(u)' = procs'[k - 1]  BY <1>2, <1>4, <2>1, <2>4
  <2> QED  BY <2>5, <2>6 DEF UsedFirst
<1>15. \A d \in Where("label")', k \in 1 .. K + 1 :
          Belongs(d, k)' => /\ d \in Where("label") /\ k \in 1 .. K /\ Belongs(d, k)
                            /\ log'[d] = log[d]
  <2>1. \A k \in 1 .. K + 1 : k = K + 1 \/ k \in 1 .. K  BY <1>1
  <2> QED  BY <1>2, <1>6, <1>7, <2>1
<1>16. DeclarationsKnown'
  <2> SUFFICES ASSUME NEW d \in Where("label")', NEW k \in 1 .. K + 1,
                      log'[d].name[2] \in Names, Belongs(d, k)'
               PROVE  log'[d].name \in DOMAIN scopes'[k] /\ Clash(LabelAt(k, log[d].name))'
    BY <1>1 DEF DeclarationsKnown
  <2>1. d \in Where("label") /\ k \in 1 .. K /\ Belongs(d, k) /\ log'[d] = log[d]  BY <1>15
  <2>2. log[d].name \in DOMAIN scopes[k] /\ Clash(LabelAt(k, log[d].name))
    BY <1>10, <2>1 DEF ScopesInv, DeclarationsKnown
  <2>3. scopes'[k] = scopes[k]  BY <1>1, <2>1
  <2> QED  BY <2>1, <2>2, <2>3 DEF Clash, LabelAt
<1>17. DeclaredOnce'
  <2> SUFFICES ASSUME NEW c \in Where("label")', NEW d \in Where("label")', NEW k \in 1 .. K + 1,
                      log'[c].name[2] \in Names, log'[c].name = log'[d].name,
                      Belongs(c, k)', Belongs(d, k)'
               PROVE  c = d
    BY <1>1 DEF DeclaredOnce
  <2>1. /\ c \in Where("label") /\ log'[c] = log[c] /\ Belongs(c, k)
        /\ d \in Where("label") /\ log'[d] = log[d] /\ Belongs(d, k) /\ k \in 1 .. K
    BY <1>15
  <2> QED  BY <1>10, <2>1 DEF ScopesInv, DeclaredOnce
<1> QED  BY <1>11, <1>12, <1>13, <1>14, <1>16, <1>17 DEF ScopesInv

\* What ENDP does to the scopes when no LOCAL label is left without a value: the
\* others are handed over, those that the whole program knows with their values.
LEMMA ExitFacts ==
    ASSUME TypeInv, ScopesInv, ExitProc, kit' = kit, Len(scopes) # 1, Missing = {}, NEW K, K = Len(scopes)
    PROVE  /\ K \in Nat /\ K > 1 /\ Len(scopes') = K - 1 /\ K = Len(procs) + 1
           /\ procs # <<>> /\ procs' = SubSeq(procs, 1, Len(procs) - 1)
           /\ \A j \in 1 .. K - 2 : procs'[j] = procs[j]
           /\ Handed = {n \in DOMAIN scopes[K] : ~ LabelAt(K, n).local}
           /\ \A k \in 2 .. K - 1 : scopes'[k] = scopes[k]
           /\ \A k \in 2 .. K - 1 : \A n \in DOMAIN scopes[k] : LabelAt(k, n)' = LabelAt(k, n)
           /\ DOMAIN scopes'[1] = DOMAIN scopes[1] \union Handed
           /\ \A n \in DOMAIN scopes[1] : scopes'[1][n] = scopes[1][n]
           /\ \A n \in Handed : n \notin DOMAIN scopes[1] => scopes'[1][n] = scopes[K][n]
           /\ \A n \in DOMAIN scopes[1] : n \notin Handed => LabelAt(1, n)' = LabelAt(1, n)
           /\ \A n \in Handed : LabelAt(1, n)'.value = LabelAt(K, n).value
<1>1. /\ IsSeq(labels) /\ DOMAIN labels = 1 .. Len(labels) /\ Len(labels) \in Nat
      /\ Len(scopes) = Len(procs) + 1 /\ procs \in Seq(Nat) /\ Len(procs) \in Nat
      /\ \A k \in 1 .. Len(scopes) : \A n \in DOMAIN scopes[k] : scopes[k][n] \in 1 .. Len(labels)
  BY DEF TypeInv, LabelsOK, IsSeq
<1>2. /\ labels' = [i \in DOMAIN labels |-> Handover(i)]
      /\ scopes' = SubSeq(Moved, 1, Len(Moved) - 1)
      /\ procs' = SubSeq(procs, 1, Len(procs) - 1)
  BY ExitIs
<1>3. \A i \in 1 .. Len(labels) : labels'[i] = Handover(i)  BY <1>1, <1>2
<1>4. /\ K \in Nat /\ K > 1 /\ Last(scopes) = scopes[K] /\ IsSeq(Moved) /\ Len(Moved) = K
      /\ \A k \in 2 .. K : Moved[k] = scopes[k]
      /\ Handed \subseteq DOMAIN scopes[K]
      /\ DOMAIN Moved[1] = DOMAIN scopes[1] \union Handed
      /\ \A n \in DOMAIN scopes[1] : Moved[1][n] = scopes[1][n]
      /\ \A n \in Handed : n \notin DOMAIN scopes[1] => Moved[1][n] = scopes[K][n]
  BY MovedIs
<1>5. Len(scopes') = K - 1 /\ \A k \in 1 .. K - 1 : scopes'[k] = Moved[k]
  <2>1. PICK S : Moved \in Seq(S)  BY <1>4 DEF IsSeq
  <2>2. Len(Moved) > 0 /\ Len(Moved) = K  BY <1>4
  <2>3. /\ Len(SubSeq(Moved, 1, Len(Moved) - 1)) = Len(Moved) - 1
        /\ \A k \in 1 .. Len(Moved) - 1 : SubSeq(Moved, 1, Len(Moved) - 1)[k] = Moved[k]
    BY <2>1, <2>2, DroppedIs
  <2> QED  BY <1>2, <2>2, <2>3
<1>6. procs # <<>> /\ \A j \in 1 .. K - 2 : procs'[j] = procs[j]
  <2>1. Len(procs) > 0 /\ Len(procs) - 1 = K - 2  BY <1>1, <1>4
  <2> QED  BY <1>1, <1>2, <2>1, DroppedIs
<1>7. /\ \A i \in 1 .. Len(labels) :
            (\A n \in Handed : n \in DOMAIN scopes[1] => scopes[1][n] # i) => Handover(i) = labels[i]
      /\ \A n \in Handed : n \in DOMAIN scopes[1] => Handover(scopes[1][n]).value = LabelAt(K, n).value
  BY HandoverIs DEF ScopesInv
<1>8. Handed = {n \in DOMAIN scopes[K] : ~ LabelAt(K, n).local}
  BY <1>4 DEF Handed, Outgoing, LabelAt
<1>9. 1 \in 1 .. K /\ 1 \in 1 .. K - 1 /\ K \in 1 .. K /\ \A k \in 2 .. K - 1 : k \in 1 .. K - 1 /\ k \in 2 .. K /\ k \in 1 .. K /\ k # 1
  BY <1>4
<1>10. \A k \in 2 .. K - 1 : scopes'[k] = scopes[k]  BY <1>4, <1>5, <1>9
<1>11. \A j, k \in 1 .. K : \A m \in DOMAIN scopes[j], n \in DOMAIN scopes[k] :
          scopes[j][m] = scopes[k][n] => j = k /\ m = n
  BY DEF ScopesInv, OneScope
<1>12. ASSUME NEW k \in 2 .. K - 1, NEW n \in DOMAIN scopes[k] PROVE LabelAt(k, n)' = LabelAt(k, n)
  <2>1. scopes[k][n] \in 1 .. Len(labels) /\ scopes'[k][n] = scopes[k][n]  BY <1>1, <1>9, <1>10
  <2>2. \A m \in Handed : m \in DOMAIN scopes[1] => scopes[1][m] # scopes[k][n]  BY <1>9, <1>11
  <2>3. Handover(scopes[k][n]) = labels[scopes[k][n]]  BY <1>7, <2>1, <2>2
  <2> QED  BY <1>3, <2>1, <2>3 DEF LabelAt
<1>13. /\ DOMAIN scopes'[1] = DOMAIN scopes[1] \union Handed
       /\ \A n \in DOMAIN scopes[1] : scopes'[1][n] = scopes[1][n]
       /\ \A n \in Handed : n \notin DOMAIN scopes[1] => scopes'[1][n] = scopes[K][n]
  BY <1>4, <1>5, <1>9
<1>14. ASSUME NEW n \in DOMAIN scopes[1], n \notin Handed PROVE LabelAt(1, n)' = LabelAt(1, n)
  <2>1. scopes[1][n] \in 1 .. Len(labels) /\ scopes'[1][n] = scopes[1][n]  BY <1>1, <1>9, <1>13
  <2>2. \A m \in Handed : m \in DOMAIN scopes[1] => scopes[1][m] # scopes[1][n]  BY <1>9, <1>11, <1>14
  <2>3. Handover(scopes[1][n]) = labels[scopes[1][n]]  BY <1>7, <2>1, <2>2
  <2> QED  BY <1>3, <2>1, <2>3 DEF LabelAt
<1>15. ASSUME NEW n \in Handed PROVE LabelAt(1, n)'.value = LabelAt(K, n).value
  <2>1. CASE n \in DOMAIN scopes[1]
    <3>1. scopes[1][n] \in 1 .. Len(labels) /\ scopes'[1][n] = scopes[1][n]  BY <1>1, <1>9, <1>13, <2>1
    <3>2. labels'[scopes'[1][n]] = Handover(scopes[1][n])  BY <1>3, <3>1
    <3> QED  BY <1>7, <2>1, <3>2 DEF LabelAt
  <2>2. CASE n \notin DOMAIN scopes[1]
    <3>1. n \in DOMAIN scopes[K]  BY <1>4
    <3>2. scopes[K][n] \in 1 .. Len(labels) /\ scopes'[1][n] = scopes[K][n]  BY <1>1, <1>9, <1>13, <2>2, <3>1
    <3>3. \A m \in Handed : m \in DOMAIN scopes[1] => scopes[1][m] # scopes[K][n]  BY <1>4, <1>9, <1>11, <3>1
    <3>4. Handover(scopes[K][n]) = labels[scopes[K][n]]  BY <1>7, <3>2, <3>3
    <3>5. labels'[scopes'[1][n]] = labels[scopes[K][n]]  BY <1>3, <3>2, <3>4
    <3> QED  BY <3>5 DEF LabelAt
  <2> QED  BY <2>1, <2>2
<1> QED  BY <1>1, <1>2, <1>4, <1>5, <1>6, <1>8, <1>10, <1>12, <1>13, <1>14, <1>15

\* The declarations of a PROC that are not LOCAL belong to the whole program once it
\* is closed; the others stay where they are.
LEMMA ExitBelongs ==
    ASSUME TypeInv, Nested, ScopesInv, ExitProc, kit' = kit, Len(scopes) # 1, Missing = {},
           NEW K, K = Len(scopes),
           NEW note, note.procs = procs, note.what = "endp", log' = Append(log, note)
    PROVE  /\ \A d \in 1 .. Len(log), k \in 2 .. K - 1 : Belongs(d, k)' <=> Belongs(d, k)
           /\ \A d \in 1 .. Len(log) :
                 Settled(d)' <=> \/ Settled(d)
                                 \/ Belongs(d, K) /\ ~ Hidden(log[d].name, procs[K - 1])
           /\ \A d \in 1 .. Len(log) : Settled(d) => ~ Belongs(d, K)
           /\ \A u, d \in 1 .. Len(log) : UsedAround(u, d)' <=> UsedAround(u, d)
<1>1. /\ K \in Nat /\ K > 1 /\ K = Len(procs) + 1
      /\ procs # <<>> /\ procs' = SubSeq(procs, 1, Len(procs) - 1)
      /\ \A j \in 1 .. K - 2 : procs'[j] = procs[j]
  BY ExitFacts
<1>2. /\ procs \in Seq(Nat) /\ Len(procs) = K - 1 /\ Len(procs') = K - 2 /\ K # 1
      /\ K - 1 \in 1 .. Len(procs)
  <2>1. procs \in Seq(Nat) /\ Len(procs) = K - 1 /\ Len(procs) > 0  BY <1>1 DEF TypeInv
  <2> QED  BY <1>1, <2>1, DroppedIs
<1>3. /\ \A i \in 1 .. Len(log) : log'[i] = log[i] /\ ProcOf(i)' = ProcOf(i)
      /\ \A n, p : Hidden(n, p)' <=> Hidden(n, p)
  BY Noted, LogNext
<1>4. ASSUME NEW d \in 1 .. Len(log), NEW k \in 2 .. K - 1 PROVE Belongs(d, k)' <=> Belongs(d, k)
  <2>1. k # 1 /\ k - 1 \in 1 .. K - 2  BY <1>1
  <2> QED  BY <1>1, <1>3, <2>1 DEF Belongs
<1>5. \A d \in 1 .. Len(log) : Belongs(d, K) <=> ProcOf(d) = procs[K - 1]  BY <1>2 DEF Belongs
<1>6. \A d \in 1 .. Len(log) : Settled(d) => ~ Belongs(d, K)  BY <1>2, <1>5 DEF Settled
<1>7. \A d \in 1 .. Len(log) : Settled(d) => Settled(d)'
  <2>1. NextProcs  BY <1>1 DEF NextProcs
  <2> QED  BY <2>1, SettledNext
<1>8. ASSUME NEW d \in 1 .. Len(log), Belongs(d, K), ~ Hidden(log[d].name, procs[K - 1])
      PROVE  Settled(d)'
  <2>1. ASSUME NEW j \in 1 .. Len(procs') PROVE procs'[j] # ProcOf(d)
    <3>1. j \in 1 .. Len(procs) /\ j < K - 1 /\ procs'[j] = procs[j]
      <4>1. j \in 1 .. K - 2  BY <1>2
      <4>2. procs'[j] = procs[j]  BY <1>1, <4>1, Zenon
      <4>3. Len(procs) = K - 1 /\ K \in Nat  BY <1>1, <1>2, Zenon
      <4> QED  BY <4>1, <4>2, <4>3
    <3>2. procs[j] < procs[K - 1]  BY <1>2, <3>1 DEF Nested
    <3>3. procs[j] \in Nat /\ procs[K - 1] \in Nat
      <4>1. \A i \in 1 .. Len(procs) : procs[i] \in Nat
        <5>1. procs \in Seq(Nat)  BY <1>2, Zenon
        <5> QED  BY <5>1
      <4>2. j \in 1 .. Len(procs) /\ K - 1 \in 1 .. Len(procs)  BY <1>2, <3>1
      <4> QED  BY <4>1, <4>2, Zenon
    <3> QED  BY <1>5, <1>8, <3>1, <3>2, <3>3
  <2>2. ProcOf(d) = procs[K - 1]  BY <1>5, <1>8
  <2>3. ~ Hidden(log[d].name, ProcOf(d))'  BY <1>3, <1>8, <2>2
  <2> QED  BY <1>3, <2>1, <2>3 DEF Settled
<1>9. ASSUME NEW d \in 1 .. Len(log), Settled(d)', ~ Settled(d)
      PROVE  Belongs(d, K) /\ ~ Hidden(log[d].name, procs[K - 1])
  <2>1. ~ Hidden(log[d].name, ProcOf(d))  BY <1>3, <1>9 DEF Settled
  <2>2. PICK j \in 1 .. Len(procs) : procs[j] = ProcOf(d)  BY <1>9, <2>1 DEF Settled
  <2>3. \A i \in 1 .. Len(procs') : procs'[i] # ProcOf(d)  BY <1>3, <1>9 DEF Settled
  <2>4. j = K - 1
    <3>1. \A i \in 1 .. K - 2 : procs[i] # ProcOf(d)  BY <1>1, <1>2, <2>3
    <3>2. j \notin 1 .. K - 2  BY <2>2, <3>1
    <3>3. j \in 1 .. K - 1 /\ K \in Nat  BY <1>1, <1>2
    <3> QED  BY <3>2, <3>3
  <2> QED  BY <1>5, <2>1, <2>2, <2>4
<1>10. \A u, d \in 1 .. Len(log) : UsedAround(u, d)' <=> UsedAround(u, d)
  BY <1>3 DEF UsedAround, Encloses
<1> QED  BY <1>4, <1>6, <1>7, <1>8, <1>9, <1>10

\* ENDP of a PROC whose LOCAL labels have values leaves the scopes right, unless it
\* reports a duplicate.
LEMMA ExitScopes ==
    ASSUME TypeInv, Nested, ScopesInv, ExitProc, kit' = kit, Len(scopes) # 1, Missing = {},
           \A n \in Handed : n \in DOMAIN scopes[1] => ~ Clash(LabelAt(1, n)),
           NEW note, note.procs = procs, note.what = "endp", log' = Append(log, note)
    PROVE  ScopesInv'
<1> PICK K : K = Len(scopes)  OBVIOUS
<1>1. /\ K \in Nat /\ K > 1 /\ Len(scopes') = K - 1 /\ K = Len(procs) + 1 /\ Len(scopes) = K
      /\ \A j \in 1 .. K - 2 : procs'[j] = procs[j]
      /\ Handed = {n \in DOMAIN scopes[K] : ~ LabelAt(K, n).local}
      /\ \A k \in 2 .. K - 1 : scopes'[k] = scopes[k]
      /\ \A k \in 2 .. K - 1 : \A n \in DOMAIN scopes[k] : LabelAt(k, n)' = LabelAt(k, n)
  BY ExitFacts
<1>2. /\ DOMAIN scopes'[1] = DOMAIN scopes[1] \union Handed
      /\ \A n \in DOMAIN scopes[1] : scopes'[1][n] = scopes[1][n]
      /\ \A n \in Handed : n \notin DOMAIN scopes[1] => scopes'[1][n] = scopes[K][n]
      /\ \A n \in DOMAIN scopes[1] : n \notin Handed => LabelAt(1, n)' = LabelAt(1, n)
      /\ \A n \in Handed : LabelAt(1, n)'.value = LabelAt(K, n).value
  BY ExitFacts
<1>3. /\ \A i \in 1 .. Len(log) : log'[i] = log[i] /\ ProcOf(i)' = ProcOf(i)
      /\ \A w \in {"local", "label", "use"} : Where(w)' = Where(w)
      /\ \A w : Where(w) \subseteq 1 .. Len(log)
      /\ \A n, p : Hidden(n, p)' <=> Hidden(n, p)
  BY Noted, LogNext
<1>4. /\ \A d \in 1 .. Len(log), k \in 2 .. K - 1 : Belongs(d, k)' <=> Belongs(d, k)
      /\ \A d \in 1 .. Len(log) :
            Settled(d)' <=> \/ Settled(d)
                            \/ Belongs(d, K) /\ ~ Hidden(log[d].name, procs[K - 1])
      /\ \A d \in 1 .. Len(log) : Settled(d) => ~ Belongs(d, K)
      /\ \A u, d \in 1 .. Len(log) : UsedAround(u, d)' <=> UsedAround(u, d)
  BY ExitBelongs
<1>5. /\ 1 \in 1 .. K /\ 1 \in 1 .. K - 1 /\ K \in 1 .. K /\ K \in 2 .. K /\ K # 1
      /\ \A k \in 2 .. K - 1 : k \in 1 .. K /\ k \in 2 .. K /\ k # 1 /\ k # K /\ k - 1 \in 1 .. K - 2
      /\ \A k \in 1 .. K - 1 : k = 1 \/ k \in 2 .. K - 1
      /\ Names' = Names
      /\ \A k \in 2 .. K - 1 : procs'[k - 1] = procs[k - 1]
  <2>1. \A k \in 2 .. K - 1 : k \in 1 .. K /\ k \in 2 .. K /\ k # 1 /\ k # K /\ k - 1 \in 1 .. K - 2  BY <1>1
  <2>2. \A k \in 1 .. K - 1 : k = 1 \/ k \in 2 .. K - 1  BY <1>1
  <2> QED  BY <1>1, <2>1, <2>2 DEF Names
<1>6. \A d \in 1 .. Len(log) : Belongs(d, 1)' <=> Settled(d)'  BY DEF Belongs
<1>7. \A j, k \in 1 .. K : \A m \in DOMAIN scopes[j], n \in DOMAIN scopes[k] :
         scopes[j][m] = scopes[k][n] => j = k /\ m = n
  BY <1>1 DEF ScopesInv, OneScope
<1>8. OneScope'
  <2>1. ASSUME NEW k \in 1 .. K - 1, NEW n \in DOMAIN scopes'[k]
        PROVE  \/ n \in DOMAIN scopes[k] /\ scopes'[k][n] = scopes[k][n]
               \/ k = 1 /\ n \in DOMAIN scopes[K] /\ scopes'[k][n] = scopes[K][n]
    BY <1>1, <1>2, <1>5
  <2>2. \A k \in 1 .. K - 1 : k \in 1 .. K /\ k # K  BY <1>1
  <2>3. ASSUME NEW j \in 1 .. K - 1, NEW k \in 1 .. K - 1,
               NEW m \in DOMAIN scopes'[j], NEW n \in DOMAIN scopes'[k], scopes'[j][m] = scopes'[k][n]
        PROVE  j = k /\ m = n
    <3>1. PICK a \in {j, K} : /\ m \in DOMAIN scopes[a] /\ scopes'[j][m] = scopes[a][m]
                              /\ a = K => j = 1
      BY <2>1, <2>2
    <3>2. PICK b \in {k, K} : /\ n \in DOMAIN scopes[b] /\ scopes'[k][n] = scopes[b][n]
                              /\ b = K => k = 1
      BY <2>1, <2>2
    <3>3. a \in 1 .. K /\ b \in 1 .. K  BY <1>5, <2>2, <2>3
    <3>4. scopes[a][m] = scopes[b][n]  BY <2>3, <3>1, <3>2, Zenon
    <3>5. \A i \in DOMAIN scopes[a], h \in DOMAIN scopes[b] :
             scopes[a][i] = scopes[b][h] => a = b /\ i = h
      BY <1>7, <3>3, Zenon
    <3>6. a = b /\ m = n  BY <3>1, <3>2, <3>4, <3>5
    <3> QED  BY <2>2, <3>1, <3>2, <3>6
  <2> QED  BY <1>1, <2>3 DEF OneScope
<1>9. LocalsKnown'
  <2>1. ASSUME NEW k \in 2 .. K - 1, NEW n \in DOMAIN scopes'[k], LabelAt(k, n)'.local
        PROVE  Hidden(n, procs[k - 1])'
    <3>1. n \in DOMAIN scopes[k] /\ LabelAt(k, n).local  BY <1>1, <2>1
    <3>2. Hidden(n, procs[k - 1])  BY <1>1, <1>5, <3>1 DEF ScopesInv, LocalsKnown
    <3> QED  BY <1>3, <1>5, <3>2
  <2>2. ASSUME NEW k \in 2 .. K - 1, NEW i \in Where("local")', ProcOf(i)' = procs'[k - 1]
        PROVE  log'[i].name \in DOMAIN scopes'[k] /\ LabelAt(k, log[i].name)'.local
    <3>1. i \in Where("local") /\ log'[i] = log[i] /\ ProcOf(i) = procs[k - 1]  BY <1>3, <1>5, <2>2
    <3>2. log[i].name \in DOMAIN scopes[k] /\ LabelAt(k, log[i].name).local
      BY <1>1, <1>5, <3>1 DEF ScopesInv, LocalsKnown
    <3>3. PICK n : n = log[i].name  OBVIOUS
    <3>4. n \in DOMAIN scopes'[k] /\ LabelAt(k, n)'.local  BY <1>1, <3>2, <3>3
    <3> QED  BY <3>1, <3>3, <3>4 DEF LabelAt
  <2> QED  BY <1>1, <2>1, <2>2 DEF LocalsKnown
<1>10. \A n, d : d \in Where("label") /\ log[d].name = n /\ Belongs(d, K) =>
          /\ n \in Handed => Settled(d)'
          /\ n[2] \in Names /\ Settled(d)' => n \in Handed /\ Clash(LabelAt(K, n))
  <2> SUFFICES ASSUME NEW d \in Where("label"), Belongs(d, K), NEW n, n = log[d].name
               PROVE  /\ n \in Handed => Settled(d)'
                      /\ n[2] \in Names /\ Settled(d)' => n \in Handed /\ Clash(LabelAt(K, n))
    OBVIOUS
  <2>1. ASSUME n \in Handed PROVE Settled(d)'
    <3>1. ~ Hidden(n, procs[K - 1])
      <4>1. ~ LabelAt(K, n).local  BY <1>1, <2>1
      <4>2. \A i \in Where("local") : ProcOf(i) = procs[K - 1] => log[i].name # n
        BY <1>1, <1>5, <4>1 DEF ScopesInv, LocalsKnown
      <4> QED  BY <4>2 DEF Hidden, LocalIn
    <3> QED  BY <1>3, <1>4, <3>1
  <2>2. ASSUME n[2] \in Names, Settled(d)' PROVE n \in Handed /\ Clash(LabelAt(K, n))
    <3>1. n \in DOMAIN scopes[K] /\ Clash(LabelAt(K, n))
      BY <1>1, <1>5, <2>2 DEF ScopesInv, DeclarationsKnown
    <3>2. ~ Hidden(n, procs[K - 1])  BY <1>3, <1>4, <2>2
    <3>3. ~ LabelAt(K, n).local  BY <1>1, <1>5, <3>1, <3>2 DEF ScopesInv, LocalsKnown
    <3> QED  BY <1>1, <3>1, <3>3
  <2> QED  BY <2>1, <2>2
<1>11. ASSUME NEW d \in Where("label"), Settled(d), log[d].name[2] \in Names
       PROVE  /\ log[d].name \in DOMAIN scopes[1] /\ Clash(LabelAt(1, log[d].name))
              /\ log[d].name \notin Handed
  <2>1. Belongs(d, 1)  BY <1>11 DEF Belongs
  <2> QED  BY <1>1, <1>5, <1>11, <2>1 DEF ScopesInv, DeclarationsKnown
<1>12. ValuesDeclared'
  <2> SUFFICES ASSUME NEW k \in 1 .. K - 1, NEW n \in DOMAIN scopes'[k], Clash(LabelAt(k, n))'
               PROVE  \E d \in Where("label")' : log'[d].name = n /\ Belongs(d, k)'
    BY <1>1 DEF ValuesDeclared
  <2>1. CASE k \in 2 .. K - 1
    <3>1. n \in DOMAIN scopes[k] /\ LabelAt(k, n)' = LabelAt(k, n)  BY <1>1, <2>1
    <3>2. Clash(LabelAt(k, n))  BY <3>1 DEF Clash
    <3>3. PICK d \in Where("label") : log[d].name = n /\ Belongs(d, k)
      BY <1>1, <1>5, <2>1, <3>1, <3>2 DEF ScopesInv, ValuesDeclared
    <3> QED  BY <1>3, <1>4, <2>1, <3>3
  <2>2. CASE k = 1 /\ n \in Handed
    <3>1. Clash(LabelAt(K, n)) /\ n \in DOMAIN scopes[K]  BY <1>1, <1>2, <2>2 DEF Clash
    <3>2. PICK d \in Where("label") : log[d].name = n /\ Belongs(d, K)
      BY <1>1, <1>5, <3>1 DEF ScopesInv, ValuesDeclared
    <3>3. Settled(d)'  BY <1>10, <2>2, <3>2
    <3> QED  BY <1>3, <1>6, <2>2, <3>2, <3>3
  <2>3. CASE k = 1 /\ n \notin Handed
    <3>1. n \in DOMAIN scopes[1] /\ LabelAt(1, n)' = LabelAt(1, n)  BY <1>2, <2>3
    <3>2. Clash(LabelAt(1, n))  BY <2>3, <3>1 DEF Clash
    <3>3. PICK d \in Where("label") : log[d].name = n /\ Belongs(d, 1)
      BY <1>1, <1>5, <3>1, <3>2 DEF ScopesInv, ValuesDeclared
    <3>4. Settled(d)'  BY <1>3, <1>4, <3>3 DEF Belongs
    <3> QED  BY <1>3, <1>6, <2>3, <3>3, <3>4
  <2> QED  BY <1>5, <2>1, <2>2, <2>3
<1>13. WaitingUsed'
  <2> SUFFICES ASSUME NEW k \in 2 .. K - 1, NEW n \in DOMAIN scopes'[k],
                      ~ LabelAt(k, n)'.local, ~ Clash(LabelAt(k, n))'
               PROVE  UsedFirst(n, procs[k - 1])'
    BY <1>1 DEF WaitingUsed
  <2>1. n \in DOMAIN scopes[k] /\ LabelAt(k, n)' = LabelAt(k, n)  BY <1>1
  <2>2. ~ LabelAt(k, n).local /\ ~ Clash(LabelAt(k, n))  BY <2>1 DEF Clash
  <2>3. UsedFirst(n, procs[k - 1])  BY <1>1, <1>5, <2>1, <2>2 DEF ScopesInv, WaitingUsed
  <2>4. PICK u \in Where("use") :
           /\ log[u].name = n /\ ProcOf(u) = procs[k - 1]
           /\ \A d \in Where("label") : log[d].name = n /\ Settled(d) => UsedAround(u, d)
    BY <2>3 DEF UsedFirst
  <2>5. ASSUME NEW d \in Where("label")', log'[d].name = n, Settled(d)' PROVE UsedAround(u, d)'
    <3>1. d \in Where("label") /\ d \in 1 .. Len(log) /\ u \in 1 .. Len(log) /\ log[d].name = n
      BY <1>3, <2>5
    <3>2. CASE Settled(d)  BY <1>4, <2>4, <3>1, <3>2
    <3>3. CASE Belongs(d, K)
      <4>1. /\ k - 1 \in 1 .. Len(procs) /\ K - 1 \in 1 .. Len(procs) /\ k - 1 < K - 1
            /\ ProcOf(d) = procs[K - 1]
        BY <1>1, <1>5, <3>3 DEF Belongs
      <4>2. UsedAround(u, d)  BY <2>4, <3>1, <4>1, UsedBefore
      <4> QED  BY <1>4, <3>1, <4>2
    <3> QED  BY <1>4, <2>5, <3>1, <3>2, <3>3
  <2>6. u \in Where("use")' /\ log'[u].name = n /\ ProcOf(u)' = procs'[k - 1]  BY <1>3, <1>5, <2>4
  <2> QED  BY <2>5, <2>6 DEF UsedFirst
<1>14. DeclarationsKnown'
  <2> SUFFICES ASSUME NEW d \in Where("label")', NEW k \in 1 .. K - 1,
                      log'[d].name[2] \in Names, Belongs(d, k)'
               PROVE  log'[d].name \in DOMAIN scopes'[k] /\ Clash(LabelAt(k, log[d].name))'
    BY <1>1, <1>5 DEF DeclarationsKnown
  <2>1. d \in Where("label") /\ d \in 1 .. Len(log) /\ log'[d] = log[d]  BY <1>3
  <2>2. PICK n : n = log[d].name  OBVIOUS
  <2>3. n \in DOMAIN scopes'[k] /\ Clash(LabelAt(k, n))'
    <3>1. CASE k \in 2 .. K - 1
      <4>1. Belongs(d, k)  BY <1>4, <2>1, <3>1
      <4>2. n \in DOMAIN scopes[k] /\ Clash(LabelAt(k, n))
        BY <1>1, <1>5, <2>1, <2>2, <3>1, <4>1 DEF ScopesInv, DeclarationsKnown
      <4>3. LabelAt(k, n)' = LabelAt(k, n)  BY <1>1, <3>1, <4>2
      <4> QED  BY <1>1, <3>1, <4>2, <4>3 DEF Clash
    <3>2. CASE k = 1 /\ Settled(d)
      <4>1. n \in DOMAIN scopes[1] /\ Clash(LabelAt(1, n)) /\ n \notin Handed
        BY <1>11, <2>1, <2>2, <3>2
      <4>2. LabelAt(1, n)' = LabelAt(1, n)  BY <1>2, <4>1
      <4> QED  BY <1>2, <3>2, <4>1, <4>2 DEF Clash
    <3>3. CASE k = 1 /\ Belongs(d, K)
      <4>1. Settled(d)'  BY <1>6, <2>1, <3>3
      <4>2. n \in Handed /\ Clash(LabelAt(K, n))  BY <1>10, <2>1, <2>2, <3>3, <4>1
      <4>3. LabelAt(1, n)'.value = LabelAt(K, n).value  BY <1>2, <4>2
      <4> QED  BY <1>2, <3>3, <4>2, <4>3 DEF Clash
    <3> QED  BY <1>4, <1>5, <1>6, <2>1, <3>1, <3>2, <3>3
  <2> QED  BY <2>1, <2>2, <2>3 DEF LabelAt, Clash
<1>15. DeclaredOnce'
  <2> SUFFICES ASSUME NEW c \in Where("label")', NEW d \in Where("label")', NEW k \in 1 .. K - 1,
                      log'[c].name[2] \in Names, log'[c].name = log'[d].name,
                      Belongs(c, k)', Belongs(d, k)'
               PROVE  c = d
    BY <1>1, <1>5 DEF DeclaredOnce
  <2>1. /\ c \in Where("label") /\ c \in 1 .. Len(log) /\ log'[c] = log[c]
        /\ d \in Where("label") /\ d \in 1 .. Len(log) /\ log'[d] = log[d]
    BY <1>3
  <2>2. \A j \in 1 .. K : Belongs(c, j) /\ Belongs(d, j) => c = d
    BY <1>1, <2>1 DEF ScopesInv, DeclaredOnce
  <2>3. ASSUME NEW a \in Where("label"), NEW b \in Where("label"), log[a].name[2] \in Names,
               log[a].name = log[b].name, Settled(a), Settled(b)', Belongs(b, K)
        PROVE  FALSE
    <3>1. log[a].name \notin Handed  BY <1>11, <2>3
    <3>2. log[b].name \in Handed  BY <1>10, <2>3
    <3> QED  BY <2>3, <3>1, <3>2
  <2>4. CASE k \in 2 .. K - 1  BY <1>4, <1>5, <2>1, <2>2, <2>4
  <2>5. CASE k = 1
    <3>1. Settled(c)' /\ Settled(d)'  BY <1>6, <2>1, <2>5
    <3>2. (Settled(c) \/ Belongs(c, K)) /\ (Settled(d) \/ Belongs(d, K))  BY <1>4, <2>1, <3>1
    <3>3. Settled(c) /\ Settled(d) => Belongs(c, 1) /\ Belongs(d, 1)  BY DEF Belongs
    <3> QED  BY <1>5, <2>1, <2>2, <2>3, <3>1, <3>2, <3>3
  <2> QED  BY <1>5, <2>4, <2>5
<1> QED  BY <1>8, <1>9, <1>12, <1>13, <1>14, <1>15 DEF ScopesInv

---------------------------
(* The invariant. *)

\* What shows that a name is declared twice, or used around its declaration, always will.
LEMMA ForGood ==
    ASSUME TypeInv, Nested, NEW note, note.procs = procs, log' = Append(log, note), NextProcs,
           TwiceForGood \/ AroundForGood
    PROVE  TwiceForGood' \/ AroundForGood'
<1>1. /\ \A i \in 1 .. Len(log) : log'[i] = log[i] /\ ProcOf(i)' = ProcOf(i)
      /\ \A w : Where(w) \subseteq Where(w)' /\ Where(w) \subseteq 1 .. Len(log)
  BY Noted, LogNext
<1>2. \A d \in 1 .. Len(log) : Settled(d) => Settled(d)'  BY SettledNext
<1>3. \A u, d \in 1 .. Len(log) : UsedAround(u, d) => UsedAround(u, d)'
  BY <1>1 DEF UsedAround, Encloses
<1>4. CASE TwiceForGood
  <2>1. PICK c \in Where("label"), d \in Where("label") :
           /\ c # d /\ log[c].name = log[d].name
           /\ \/ ProcOf(c) = ProcOf(d)
              \/ Settled(c) /\ Settled(d)
    BY <1>4 DEF TwiceForGood
  <2>2. /\ c \in Where("label")' /\ d \in Where("label")' /\ log'[c].name = log'[d].name
        /\ \/ ProcOf(c)' = ProcOf(d)'
           \/ Settled(c)' /\ Settled(d)'
    BY <1>1, <1>2, <2>1
  <2> QED  BY <2>1, <2>2 DEF TwiceForGood
<1>5. CASE AroundForGood
  <2>1. PICK u \in Where("use"), d \in Where("label") : UsedAround(u, d)  BY <1>5 DEF AroundForGood
  <2>2. u \in Where("use")' /\ d \in Where("label")' /\ UsedAround(u, d)'  BY <1>1, <1>3, <2>1
  <2> QED  BY <2>2 DEF AroundForGood
<1> QED  BY <1>4, <1>5

\* A second declaration in the innermost scope is for good.
LEMMA DeclaredAgain ==
    ASSUME TypeInv, Nested, ScopesInv, procs' = procs,
           NEW note, note.procs = procs, note.what = "label", log' = Append(log, note),
           NEW K, K = Len(scopes), note.name \in DOMAIN scopes[K], Clash(LabelAt(K, note.name))
    PROVE  TwiceForGood'
<1> PICK N : N = Now  OBVIOUS
<1>1. K \in 1 .. Len(scopes) /\ K = Len(procs) + 1 /\ Len(procs) \in Nat
  BY DEF TypeInv, LabelsOK
<1>2. PICK d \in Where("label") : log[d].name = note.name /\ Belongs(d, K)
  BY <1>1 DEF ScopesInv, ValuesDeclared
<1>3. /\ \A i \in 1 .. Len(log) : log'[i] = log[i]
      /\ log'[N] = note /\ N \notin 1 .. Len(log)
      /\ Where("label")' = Where("label") \union {N} /\ Where("label") \subseteq 1 .. Len(log)
  BY Noted, LogNext
<1>4. Belongs(d, K)' /\ Belongs(N, K)'  BY <1>1, <1>2, <1>3, BelongsNext
<1>5. \/ ProcOf(d)' = ProcOf(N)'
      \/ Settled(d)' /\ Settled(N)'
  BY <1>4 DEF Belongs
<1>6. d # N /\ log'[d].name = log'[N].name /\ d \in Where("label")' /\ N \in Where("label")'
  BY <1>2, <1>3
<1> QED  BY <1>5, <1>6 DEF TwiceForGood

\* A name that ENDP hands over to a program that knows it already was declared
\* twice for good, or used around its declaration.
LEMMA HandedTwice ==
    ASSUME TypeInv, Nested, ScopesInv, ExitProc, kit' = kit, Len(scopes) # 1, Missing = {},
           NEW n \in Handed, n \in DOMAIN scopes[1], Clash(LabelAt(1, n)),
           NEW note, note.procs = procs, note.what = "endp", log' = Append(log, note)
    PROVE  TwiceForGood' \/ AroundForGood'
<1> PICK K : K = Len(scopes)  OBVIOUS
<1>1. /\ K \in Nat /\ K > 1 /\ K = Len(procs) + 1 /\ Len(scopes) = K /\ K # 1
      /\ n \in DOMAIN scopes[K] /\ ~ LabelAt(K, n).local
      /\ 1 \in 1 .. K /\ K \in 1 .. K /\ K \in 2 .. K
  BY ExitFacts
<1>2. /\ \A i \in 1 .. Len(log) : log'[i] = log[i] /\ ProcOf(i)' = ProcOf(i)
      /\ \A w \in {"label", "use"} : Where(w)' = Where(w) /\ Where(w) \subseteq 1 .. Len(log)
  BY Noted, LogNext
<1>3. PICK d \in Where("label") : log[d].name = n /\ Belongs(d, 1)
  BY <1>1 DEF ScopesInv, ValuesDeclared
<1>4. /\ Settled(d) /\ Settled(d)' /\ ~ Belongs(d, K)
      /\ \A c \in 1 .. Len(log) : Belongs(c, K) /\ ~ Hidden(log[c].name, procs[K - 1]) => Settled(c)'
      /\ \A u, e \in 1 .. Len(log) : UsedAround(u, e)' <=> UsedAround(u, e)
  BY <1>2, <1>3, ExitBelongs DEF Belongs
<1>5. CASE Clash(LabelAt(K, n))
  <2>1. PICK c \in Where("label") : log[c].name = n /\ Belongs(c, K)
    BY <1>1, <1>5 DEF ScopesInv, ValuesDeclared
  <2>2. ~ Hidden(n, procs[K - 1])
    <3>1. \A i \in Where("local") : ProcOf(i) = procs[K - 1] => log[i].name # n
      BY <1>1 DEF ScopesInv, LocalsKnown
    <3> QED  BY <3>1 DEF Hidden, LocalIn
  <2>3. Settled(c)' /\ c # d  BY <1>2, <1>4, <2>1, <2>2
  <2>4. c \in Where("label")' /\ d \in Where("label")' /\ log'[c].name = log'[d].name
    BY <1>2, <1>3, <2>1
  <2> QED  BY <1>4, <2>3, <2>4 DEF TwiceForGood
<1>6. CASE ~ Clash(LabelAt(K, n))
  <2>1. UsedFirst(n, procs[K - 1])  BY <1>1, <1>6 DEF ScopesInv, WaitingUsed
  <2>2. PICK u \in Where("use") : UsedAround(u, d)  BY <1>3, <1>4, <2>1 DEF UsedFirst
  <2>3. u \in Where("use")' /\ d \in Where("label")' /\ UsedAround(u, d)'  BY <1>2, <1>3, <1>4, <2>2
  <2> QED  BY <2>3 DEF AroundForGood
<1> QED  BY <1>5, <1>6

\* What a statement must do to keep the invariant.
LEMMA StatementKeeps ==
    ASSUME DuplicatesInv, kit' = kit, index' \in Nat, LabelsOK', NextProcs, phase' # "done",
           NEW note, note.procs = procs, log' = Append(log, note), errors \subseteq errors',
           Quiet' => ScopesInv',
           "duplicate" \in errors' /\ "undefined local" \notin errors' /\ Quiet =>
              TwiceForGood' \/ AroundForGood'
    PROVE  DuplicatesInv'
<1>1. TypeInv /\ Nested  BY DEF DuplicatesInv
<1>2. TypeInv'
  <2>1. procs' \in Seq(Nat)  BY <1>1, ProcsNext
  <2>2. IsSeq(log') /\ \A i \in 1 .. Len(log') : log'[i].procs \in Seq(Nat)  BY <1>1, Noted
  <2> QED  BY <1>1, <2>1, <2>2 DEF TypeInv
<1>3. Nested'  BY <1>1, NestedNext
<1>4. ASSUME "duplicate" \in errors', "undefined local" \notin errors'
      PROVE  TwiceForGood' \/ AroundForGood'
  <2>1. CASE "duplicate" \in errors
    <3>1. TwiceForGood \/ AroundForGood  BY <1>4, <2>1 DEF DuplicatesInv
    <3> QED  BY <1>1, <3>1, ForGood
  <2>2. CASE "duplicate" \notin errors  BY <1>4, <2>2 DEF Quiet
  <2> QED  BY <2>1, <2>2
<1> QED  BY <1>2, <1>3, <1>4 DEF DuplicatesInv

\* What a new Label is.
LEMMA LabelIs ==
    \A name, value, dir : /\ IsLabel(Label(name, value, dir))
                          /\ Label(name, value, dir).value = value
                          /\ Label(name, value, dir).local = FALSE
  BY DEF Label, IsLabel

\* A statement that is no declaration of a name, no LOCAL, and reports nothing about
\* labels, keeps the invariant.
LEMMA OtherKeeps ==
    ASSUME DuplicatesInv, kit' = kit, index' \in Nat, scopes' = scopes, procs' = procs, phase' # "done",
           NEW l, IsLabel(l), labels' = labels \/ labels' = Append(labels, l),
           NEW note, note.procs = procs, log' = Append(log, note), note.what # "local",
           note.what = "label" => note.name[2] \notin Names,
           errors \subseteq errors', Quiet' <=> Quiet
    PROVE  DuplicatesInv'
<1>1. TypeInv /\ Nested /\ (Quiet => ScopesInv)  BY DEF DuplicatesInv
<1>2. LabelsOK'  BY <1>1, LabelsGrow
<1>3. NextProcs  BY DEF NextProcs
<1>4. Quiet' => ScopesInv'  BY <1>1, OtherScopes
<1>5. ~ ("duplicate" \in errors' /\ "undefined local" \notin errors' /\ Quiet)  BY DEF Quiet
<1> QED  BY <1>2, <1>3, <1>4, <1>5, StatementKeeps

\* So does PROC.
LEMMA EnterKeeps ==
    ASSUME DuplicatesInv, kit' = kit, EnterProc
    PROVE  DuplicatesInv'
<1> DEFINE note == Note("proc", NoName, None)
<1>1. TypeInv /\ Nested /\ (Quiet => ScopesInv)  BY DEF DuplicatesInv
<1>2. /\ log' = Append(log, note) /\ scopes' = Append(scopes, [n \in {} |-> 0])
      /\ procs' = Append(procs, Len(log')) /\ phase' = "reading"
      /\ UNCHANGED <<index, labels, errors>>
  BY DEF EnterProc, Read
<1>3. note.procs = procs /\ note.what = "proc"  BY DEF Note
<1> HIDE DEF note
<1>4. procs' = Append(procs, Now)
  <2>1. Len(log') = Now  BY <1>1, <1>2, <1>3, Noted
  <2> QED  BY <1>2, <2>1
<1>5. LabelsOK'  BY <1>1, <1>2, <1>4, EnterIs
<1>6. NextProcs  BY <1>4 DEF NextProcs
<1>7. Quiet' => ScopesInv'
  <2>1. Quiet' <=> Quiet  BY <1>2 DEF Quiet
  <2>2. ScopesInv => ScopesInv'  BY <1>1, <1>2, <1>3, <1>4, EnterScopes
  <2> QED  BY <1>1, <2>1, <2>2
<1>8. index' \in Nat /\ errors \subseteq errors' /\ phase' # "done"  BY <1>1, <1>2 DEF TypeInv
<1>9. ~ ("duplicate" \in errors' /\ "undefined local" \notin errors' /\ Quiet)  BY <1>2 DEF Quiet
<1> QED  BY <1>2, <1>3, <1>5, <1>6, <1>7, <1>8, <1>9, StatementKeeps

\* So does ENDP.
LEMMA ExitKeeps ==
    ASSUME DuplicatesInv, kit' = kit, ExitProc
    PROVE  DuplicatesInv'
<1> DEFINE note == Note("endp", NoName, None)
<1>1. TypeInv /\ Nested /\ (Quiet => ScopesInv)  BY DEF DuplicatesInv
<1>2. log' = Append(log, note) /\ phase' = "reading" /\ UNCHANGED index
  BY DEF ExitProc, Read
<1>3. note.procs = procs /\ note.what = "endp" /\ index' \in Nat /\ phase' # "done"
  BY <1>1, <1>2 DEF TypeInv, Note
<1> HIDE DEF note
<1>4. LabelsOK' /\ NextProcs  BY <1>1, ExitType
<1>5. CASE Len(scopes) = 1
  <2>1. UNCHANGED <<scopes, procs, labels>> /\ errors' = errors \union {"no proc"}
    BY <1>5 DEF ExitProc
  <2>2. (Quiet' <=> Quiet) /\ errors \subseteq errors'  BY <2>1 DEF Quiet
  <2>3. PICK l : IsLabel(l)  BY LabelIs
  <2> QED  BY <1>2, <1>3, <2>1, <2>2, <2>3, OtherKeeps
<1>6. CASE Len(scopes) # 1
  <2>1. errors' = errors
           \union (IF \E n \in Handed : n \in DOMAIN scopes[1] /\ Clash(LabelAt(1, n))
                   THEN {"duplicate"} ELSE {})
           \union (IF Missing # {} THEN {"undefined local"} ELSE {})
    BY <1>1, <1>6, ExitIs
  <2>2. /\ errors \subseteq errors'
        /\ "undefined local" \notin errors' => Missing = {}
        /\ Quiet' => Quiet /\ \A n \in Handed : n \in DOMAIN scopes[1] => ~ Clash(LabelAt(1, n))
        /\ "duplicate" \in errors' => "duplicate" \in errors \/ \E n \in Handed : n \in DOMAIN scopes[1] /\ Clash(LabelAt(1, n))
    BY <2>1 DEF Quiet
  <2>3. Quiet' => ScopesInv'
    <3>1. Quiet' => Missing = {} /\ ScopesInv  BY <1>1, <2>2 DEF Quiet
    <3> QED  BY <1>1, <1>2, <1>3, <1>6, <2>2, <3>1, ExitScopes
  <2>4. ASSUME "duplicate" \in errors', "undefined local" \notin errors', Quiet
        PROVE  TwiceForGood' \/ AroundForGood'
    <3>1. PICK n \in Handed : n \in DOMAIN scopes[1] /\ Clash(LabelAt(1, n))  BY <2>2, <2>4 DEF Quiet
    <3>2. Missing = {} /\ ScopesInv  BY <1>1, <2>2, <2>4
    <3> QED  BY <1>1, <1>2, <1>3, <1>6, <3>1, <3>2, HandedTwice
  <2> QED  BY <1>2, <1>3, <1>4, <2>2, <2>3, <2>4, StatementKeeps
<1> QED  BY <1>5, <1>6

\* So does a statement that changes the label of one name, if it reports a duplicate
\* whenever it declares the name again.
LEMMA PutKeeps ==
    ASSUME DuplicatesInv, kit' = kit, index' \in Nat, procs' = procs, phase' # "done",
           NEW name, name[2] \in Names, NEW l, IsLabel(l), PutLabel(name, l),
           NEW note, note.procs = procs, note.name = name, log' = Append(log, note),
           NEW K, K = Len(scopes),
           Entered(name, l, note, K)
    PROVE  DuplicatesInv'
<1> USE DEF Entered
<1>1. TypeInv /\ Nested /\ (Quiet => ScopesInv)  BY DEF DuplicatesInv
<1>2. LabelsOK'  BY <1>1, PutIs
<1>3. NextProcs  BY DEF NextProcs
<1>4. /\ errors \subseteq errors' /\ (Quiet' => Quiet)
      /\ Quiet' /\ note.what = "label" => (name \in DOMAIN scopes[K] => ~ Clash(LabelAt(K, name)))
      /\ "duplicate" \in errors' /\ Quiet =>
            note.what = "label" /\ name \in DOMAIN scopes[K] /\ Clash(LabelAt(K, name))
  BY DEF Quiet
<1>5. ASSUME Quiet' PROVE ScopesInv'
  <2>1. ScopesInv  BY <1>1, <1>4, <1>5
  <2>2. CASE note.what = "local"  BY <1>1, <2>1, <2>2, PutScopes
  <2>3. CASE note.what = "label"  BY <1>1, <1>4, <1>5, <2>1, <2>3, PutScopes
  <2>4. CASE note.what = "use"  BY <1>1, <2>1, <2>4, PutScopes
  <2> QED  BY <2>2, <2>3, <2>4
<1>6. ASSUME "duplicate" \in errors', Quiet PROVE TwiceForGood'
  BY <1>1, <1>4, <1>6, DeclaredAgain
<1> QED  BY <1>2, <1>3, <1>4, <1>5, <1>6, StatementKeeps

\* The innermost scope and the labels it knows.
LEMMA Innermost ==
    ASSUME TypeInv, NEW K, K = Len(scopes)
    PROVE  /\ K \in 1 .. Len(scopes) /\ DOMAIN scopes = 1 .. K /\ Last(scopes) = scopes[K]
           /\ \A n \in DOMAIN Last(scopes) :
                 /\ Last(scopes)[n] \in DOMAIN labels
                 /\ labels[Last(scopes)[n]] = LabelAt(K, n) /\ IsLabel(LabelAt(K, n))
<1>1. /\ IsSeq(labels) /\ \A i \in 1 .. Len(labels) : IsLabel(labels[i])
      /\ IsSeq(scopes) /\ Len(scopes) = Len(procs) + 1 /\ Len(procs) \in Nat
      /\ \A k \in 1 .. Len(scopes) : \A n \in DOMAIN scopes[k] : scopes[k][n] \in 1 .. Len(labels)
  BY DEF TypeInv, LabelsOK
<1>2. DOMAIN labels = 1 .. Len(labels) /\ DOMAIN scopes = 1 .. K  BY <1>1 DEF IsSeq
<1>3. K \in 1 .. Len(scopes) /\ Last(scopes) = scopes[K]  BY <1>1 DEF Last
<1>4. ASSUME NEW n \in DOMAIN Last(scopes)
      PROVE  /\ Last(scopes)[n] \in 1 .. Len(labels)
             /\ labels[Last(scopes)[n]] = LabelAt(K, n) /\ IsLabel(LabelAt(K, n))
  <2>1. Last(scopes)[n] \in 1 .. Len(labels)  BY <1>1, <1>3
  <2>2. labels[Last(scopes)[n]] = LabelAt(K, n)  BY <1>3 DEF LabelAt
  <2>3. IsLabel(labels[Last(scopes)[n]])  BY <1>1, <2>1
  <2> QED  BY <2>1, <2>2, <2>3
<1> QED  BY <1>2, <1>3, <1>4

\* LOCAL keeps the invariant.
LEMMA LocalKeeps ==
    ASSUME DuplicatesInv, kit' = kit, NEW n \in Names, LocalLabel(n)
    PROVE  DuplicatesInv'
<1> PICK K : K = Len(scopes)  OBVIOUS
<1> PICK name : name = Qualified(n)  OBVIOUS
<1> DEFINE note == Note("local", name, None)
<1>1. TypeInv  BY DEF DuplicatesInv
<1>2. /\ log' = Append(log, note) /\ phase' = "reading"
      /\ UNCHANGED <<index, procs, errors>>
      /\ IF name \in DOMAIN Last(scopes) THEN
            /\ labels' = [labels EXCEPT ![Last(scopes)[name]].local = TRUE]
            /\ UNCHANGED scopes
         ELSE
            /\ labels' = Append(labels, [Label(name, None, 0) EXCEPT !.local = TRUE])
            /\ scopes' = [scopes EXCEPT ![Len(scopes)] = Put(Last(scopes), name, Len(labels'))]
  BY DEF LocalLabel, Read
<1>3. name[2] \in Names /\ note.what = "local" /\ note.name = name /\ note.procs = procs
  BY DEF Note, Qualified
<1> HIDE DEF note
<1>4. index' \in Nat /\ phase' # "done"  BY <1>1, <1>2 DEF TypeInv
<1>5. /\ K \in 1 .. Len(scopes) /\ Last(scopes) = scopes[K]
      /\ name \in DOMAIN Last(scopes) =>
            labels[Last(scopes)[name]] = LabelAt(K, name) /\ IsLabel(LabelAt(K, name))
  BY <1>1, Innermost
<1>6. CASE name \in DOMAIN Last(scopes)
  <2> PICK l : l = [LabelAt(K, name) EXCEPT !.local = TRUE]  OBVIOUS
  <2>1. IsLabel(l) /\ l.local /\ l.value = LabelAt(K, name).value  BY <1>5, <1>6, LabelWith
  <2>2. labels' = [labels EXCEPT ![Last(scopes)[name]] = l]  BY <1>2, <1>5, <1>6
  <2>3. PutLabel(name, l)  BY <1>2, <1>6, <2>2 DEF PutLabel
  <2>4. Clash(l) <=> Clash(LabelAt(K, name))  BY <2>1 DEF Clash
  <2>5. name \in DOMAIN scopes[K]  BY <1>5, <1>6
  <2>6. Entered(name, l, note, K)  BY <1>2, <1>3, <2>1, <2>4, <2>5 DEF Entered
  <2> QED  BY <1>2, <1>3, <1>4, <2>1, <2>3, <2>6, PutKeeps
<1>7. CASE name \notin DOMAIN Last(scopes)
  <2>1. PICK l : /\ l = [Label(name, None, 0) EXCEPT !.local = TRUE]
                 /\ IsLabel(l) /\ l.local /\ l.value = None
    <3>1. IsLabel(Label(name, None, 0)) /\ Label(name, None, 0).value = None  BY LabelIs, Zenon
    <3> DEFINE new == Label(name, None, 0)
    <3>2. /\ IsLabel([new EXCEPT !.local = TRUE]) /\ [new EXCEPT !.local = TRUE].local = TRUE
          /\ [new EXCEPT !.local = TRUE].value = new.value
      <4> HIDE DEF new
      <4>1. IsLabel(new)  BY <3>1 DEF new
      <4> QED  BY <4>1, LabelWith
    <3> QED  BY <3>1, <3>2, Zenon
  <2>2. PutLabel(name, l)  BY <1>2, <1>7, <2>1 DEF PutLabel
  <2>3. ~ Clash(l)  BY <2>1 DEF Clash, Undefined
  <2>4. name \notin DOMAIN scopes[K]  BY <1>5, <1>7
  <2>5. Entered(name, l, note, K)  BY <1>2, <1>3, <2>1, <2>3, <2>4 DEF Entered
  <2> QED  BY <1>2, <1>3, <1>4, <2>1, <2>2, <2>5, PutKeeps
<1> QED  BY <1>6, <1>7

\* So does the declaration of a name.
LEMMA DeclareKeeps ==
    ASSUME DuplicatesInv, kit' = kit, NEW n \in Names, DeclareLabel(n)
    PROVE  DuplicatesInv'
<1> PICK K : K = Len(scopes)  OBVIOUS
<1> PICK name : name = Qualified(n)  OBVIOUS
<1> DEFINE note == Note("label", name, None)
<1>1. TypeInv  BY DEF DuplicatesInv
<1>2. /\ log' = Append(log, note) /\ phase' = "reading"
      /\ UNCHANGED <<index, procs>>
      /\ IF name \in DOMAIN Last(scopes) THEN
            /\ labels' = [labels EXCEPT ![Last(scopes)[name]] = Define(@, index)]
            /\ errors' = errors \union (IF Clash(labels[Last(scopes)[name]]) THEN {"duplicate"} ELSE {})
            /\ UNCHANGED scopes
         ELSE
            /\ labels' = Append(labels, Label(name, index, 0))
            /\ scopes' = [scopes EXCEPT ![Len(scopes)] = Put(Last(scopes), name, Len(labels'))]
            /\ UNCHANGED errors
  BY DEF DeclareLabel, Read
<1>3. name[2] \in Names /\ note.what = "label" /\ note.name = name /\ note.procs = procs
  BY DEF Note, Qualified
<1> HIDE DEF note
<1>4. index' \in Nat /\ phase' # "done" /\ index # None  BY <1>1, <1>2 DEF TypeInv, None
<1>5. /\ K \in 1 .. Len(scopes) /\ Last(scopes) = scopes[K]
      /\ name \in DOMAIN Last(scopes) =>
            /\ Last(scopes)[name] \in DOMAIN labels
            /\ labels[Last(scopes)[name]] = LabelAt(K, name) /\ IsLabel(LabelAt(K, name))
  BY <1>1, Innermost
<1>6. CASE name \in DOMAIN Last(scopes)
  <2> PICK l : l = [LabelAt(K, name) EXCEPT !.value = index]  OBVIOUS
  <2>1. IsLabel(l) /\ l.value = index /\ l.local = LabelAt(K, name).local
    <3>1. \A a, v : IsLabel(a) => /\ IsLabel([a EXCEPT !.value = v])
                                  /\ [a EXCEPT !.value = v].value = v
                                  /\ [a EXCEPT !.value = v].local = a.local
      BY ValueWith, Zenon
    <3>2. IsLabel(LabelAt(K, name))  BY <1>5, <1>6
    <3>3. /\ IsLabel([LabelAt(K, name) EXCEPT !.value = index])
          /\ [LabelAt(K, name) EXCEPT !.value = index].value = index
          /\ [LabelAt(K, name) EXCEPT !.value = index].local = LabelAt(K, name).local
      BY <3>1, <3>2, Zenon
    <3> QED  BY <3>3, Zenon
  <2>2. labels' = [labels EXCEPT ![Last(scopes)[name]] = l]  BY <1>2, <1>5, <1>6 DEF Define
  <2>3. PutLabel(name, l)  BY <1>2, <1>6, <2>2 DEF PutLabel
  <2>4. Clash(l) /\ (l.local <=> LabelAt(K, name).local)  BY <1>4, <2>1 DEF Clash, Undefined
  <2>5. name \in DOMAIN scopes[K]  BY <1>5, <1>6
  <2>6. errors' = errors \union (IF name \in DOMAIN scopes[K] /\ Clash(LabelAt(K, name))
                                 THEN {"duplicate"} ELSE {})
    BY <1>2, <1>5, <1>6
  <2>7. Entered(name, l, note, K)  BY <1>3, <2>1, <2>4, <2>5, <2>6 DEF Entered
  <2> QED  BY <1>2, <1>3, <1>4, <2>1, <2>3, <2>7, PutKeeps
<1>7. CASE name \notin DOMAIN Last(scopes)
  <2>1. PICK l : l = Label(name, index, 0) /\ IsLabel(l) /\ l.local = FALSE /\ l.value = index
    <3>1. /\ IsLabel(Label(name, index, 0)) /\ Label(name, index, 0).local = FALSE
          /\ Label(name, index, 0).value = index
      BY LabelIs, Zenon
    <3> QED  BY <3>1, Zenon
  <2>2. PutLabel(name, l)  BY <1>2, <1>7, <2>1 DEF PutLabel
  <2>3. Clash(l)  BY <1>4, <2>1 DEF Clash, Undefined
  <2>4. name \notin DOMAIN scopes[K]  BY <1>5, <1>7
  <2>5. errors' = errors \union (IF name \in DOMAIN scopes[K] /\ Clash(LabelAt(K, name))
                                 THEN {"duplicate"} ELSE {})
    BY <1>2, <1>7, <2>4
  <2>6. Entered(name, l, note, K)  BY <1>3, <2>1, <2>3, <2>4, <2>5 DEF Entered
  <2> QED  BY <1>2, <1>3, <1>4, <2>1, <2>2, <2>6, PutKeeps
<1> QED  BY <1>6, <1>7

\* A set of places that is not empty has a highest one.
LEMMA HighestIs ==
    ASSUME NEW m \in Nat, NEW S \in SUBSET (1 .. m), S # {}
    PROVE  Highest(S) \in S
<1>1. S \in SUBSET (0 .. m)  OBVIOUS
<1>2. PICK x \in S : \A y \in S : x >= y  BY <1>1, GreatestExists
<1> QED  BY <1>2 DEF Highest

\* So does the use of a name.
LEMMA UseKeeps ==
    ASSUME DuplicatesInv, kit' = kit, NEW n \in Names, UseLabel(n)
    PROVE  DuplicatesInv'
<1> PICK K : K = Len(scopes)  OBVIOUS
<1> PICK name : name = Qualified(n)  OBVIOUS
<1> DEFINE id == IF Known(name) = 0 THEN Len(labels) + 1 ELSE scopes[Known(name)][name]
           note == Note("use", name, id)
<1>1. TypeInv  BY DEF DuplicatesInv
<1>2. /\ log' = Append(log, note) /\ phase' = "reading"
      /\ UNCHANGED <<procs, errors>>
      /\ IF Known(name) = 0 THEN
            /\ labels' = Append(labels, Label(name, None, 0))
            /\ scopes' = [scopes EXCEPT ![Len(scopes)] = Put(@, name, Len(labels) + 1)]
         ELSE UNCHANGED <<labels, scopes>>
      /\ index' = index \/ index' = index + 1
  BY DEF UseLabel, Read, AddInstruction
<1>3. name[2] \in Names /\ note.what = "use" /\ note.name = name /\ note.procs = procs
  BY DEF Note, Qualified
<1> HIDE DEF note
<1>4. index' \in Nat /\ phase' # "done"  BY <1>1, <1>2 DEF TypeInv
<1>5. K \in 1 .. Len(scopes) /\ DOMAIN scopes = 1 .. K /\ Last(scopes) = scopes[K]
  BY <1>1, Innermost
<1>6. CASE Known(name) = 0
  <2>1. PICK l : l = Label(name, None, 0) /\ IsLabel(l) /\ l.local = FALSE /\ l.value = None
    <3>1. /\ IsLabel(Label(name, None, 0)) /\ Label(name, None, 0).local = FALSE
          /\ Label(name, None, 0).value = None
      BY LabelIs, Zenon
    <3> QED  BY <3>1, Zenon
  <2>2. ~ Clash(l)  BY <2>1 DEF Clash, Undefined
  <2>3. \A k \in 1 .. Len(scopes) : name \notin DOMAIN scopes[k]
    <3> DEFINE S == {k \in DOMAIN scopes : name \in DOMAIN scopes[k]}
    <3>1. K \in Nat /\ S \in SUBSET (1 .. K)  BY <1>5
    <3>2. S # {} => Highest(S) \in S  BY <3>1, HighestIs
    <3>3. Known(name) = IF S = {} THEN 0 ELSE Highest(S)  BY DEF Known
    <3>4. S = {}
      <4> HIDE DEF S
      <4> QED  BY <1>6, <3>1, <3>2, <3>3
    <3> QED  BY <1>5, <3>4
  <2>4. PutLabel(name, l)
    <3>1. Len(labels') = Len(labels) + 1
      <4>1. IsSeq(labels)  BY <1>1 DEF TypeInv, LabelsOK
      <4> QED  BY <1>2, <1>6, <4>1, AppendIs
    <3>2. name \notin DOMAIN Last(scopes)  BY <1>5, <2>3
    <3>3. scopes' = [scopes EXCEPT ![Len(scopes)] = Put(Last(scopes), name, Len(labels'))]
      BY <1>2, <1>5, <1>6, <3>1
    <3> QED  BY <1>2, <1>6, <2>1, <3>2, <3>3 DEF PutLabel
  <2>5. Entered(name, l, note, K)  BY <1>2, <1>3, <2>1, <2>2, <2>3 DEF Entered
  <2> QED  BY <1>2, <1>3, <1>4, <2>1, <2>4, <2>5, PutKeeps
<1>7. CASE Known(name) # 0
  <2>1. UNCHANGED <<labels, scopes>>  BY <1>2, <1>7
  <2>2. Quiet' <=> Quiet  BY <1>2 DEF Quiet
  <2>3. PICK l : IsLabel(l)  BY LabelIs
  <2> QED  BY <1>2, <1>3, <1>4, <2>1, <2>2, <2>3, OtherKeeps
<1> QED  BY <1>6, <1>7

\* The end of the program keeps it, and so does a step in which nothing is read.
LEMMA NothingRead ==
    ASSUME DuplicatesInv, kit' = kit, UNCHANGED <<index, labels, scopes, procs, log>>,
           Quiet' <=> Quiet,
           "duplicate" \in errors' <=> "duplicate" \in errors,
           "undefined local" \in errors' <=> "undefined local" \in errors,
           phase' = "done" /\ errors' = {} => procs' = <<>>
    PROVE  DuplicatesInv'
<1>1. /\ labels' = labels /\ scopes' = scopes /\ procs' = procs /\ log' = log
      /\ index' = index /\ kit' = kit
  OBVIOUS
<1>2. TypeInv' /\ Nested'
  <2>1. TypeInv /\ Nested  BY DEF DuplicatesInv
  <2>2. LabelsOK'  BY <1>1, <2>1 DEF TypeInv, LabelsOK, Names
  <2>3. TypeInv'  BY <1>1, <2>1, <2>2 DEF TypeInv
  <2>4. Nested'
    <3>1. Nested  BY <2>1
    <3>2. /\ \A j \in 1 .. Len(procs') : procs'[j] \in 1 .. Len(log')
          /\ \A j, k \in 1 .. Len(procs') : j < k => procs'[j] < procs'[k]
      BY <1>1, <3>1 DEF Nested
    <3>3. ASSUME NEW i \in 1 .. Len(log')
          PROVE  LET p == log'[i].procs
                 IN  /\ \A j \in 1 .. Len(p) : p[j] \in 1 .. i - 1
                     /\ \A j, k \in 1 .. Len(p) : j < k => p[j] < p[k]
                     /\ \A j \in 1 .. Len(procs') :
                           procs'[j] < i => j <= Len(p) /\ \A k \in 1 .. j : p[k] = procs'[k]
      <4>1. i \in 1 .. Len(log) /\ log'[i].procs = log[i].procs  BY <1>1
      <4> QED  BY <1>1, <3>1, <4>1 DEF Nested
    <3> QED  BY <3>2, <3>3 DEF Nested
  <2> QED  BY <2>3, <2>4
<1>3. /\ \A d : ProcOf(d)' = ProcOf(d) /\ (Settled(d)' <=> Settled(d))
      /\ \A u, d : UsedAround(u, d)' <=> UsedAround(u, d)
      /\ \A n, p : Hidden(n, p)' <=> Hidden(n, p)
      /\ \A w : Where(w)' = Where(w)
  BY <1>1 DEF ProcOf, Settled, Hidden, LocalIn, End, Where, UsedAround, Encloses
<1>4. ScopesInv => ScopesInv'
  <2> SUFFICES ASSUME ScopesInv PROVE ScopesInv'  OBVIOUS
  <2>1. /\ \A d, k : Belongs(d, k)' <=> Belongs(d, k)
        /\ \A k, n : LabelAt(k, n)' = LabelAt(k, n)
        /\ \A k, n : Clash(LabelAt(k, n))' <=> Clash(LabelAt(k, n))
    BY <1>1, <1>3 DEF Belongs, LabelAt, Clash
  <2>2. \A n, p : UsedFirst(n, p)' <=> UsedFirst(n, p)
    BY <1>1, <1>3 DEF UsedFirst
  <2>3. OneScope'
    <3> SUFFICES ASSUME NEW j \in 1 .. Len(scopes), NEW k \in 1 .. Len(scopes),
                        NEW m \in DOMAIN scopes[j], NEW n \in DOMAIN scopes[k],
                        scopes[j][m] = scopes[k][n]
                 PROVE  j = k /\ m = n
      BY <1>1 DEF OneScope
    <3>1. OneScope  BY DEF ScopesInv
    <3> QED  BY <3>1 DEF OneScope
  <2>4. LocalsKnown'
    BY <1>1, <1>3, <2>1 DEF ScopesInv, LocalsKnown, LabelAt
  <2>5. ValuesDeclared'  BY <1>1, <1>3, <2>1 DEF ScopesInv, ValuesDeclared
  <2>6. WaitingUsed'  BY <1>1, <2>1, <2>2 DEF ScopesInv, WaitingUsed
  <2>7. DeclarationsKnown'
    BY <1>1, <1>3, <2>1 DEF ScopesInv, DeclarationsKnown, LabelAt, Clash, Names
  <2>8. DeclaredOnce'
    <3> SUFFICES ASSUME NEW c \in Where("label"), NEW d \in Where("label"),
                        NEW k \in 1 .. Len(scopes), log[c].name[2] \in Names,
                        log[c].name = log[d].name, Belongs(c, k), Belongs(d, k)
                 PROVE  c = d
      <4>1. Names' = Names  BY <1>1 DEF Names
      <4>2. Where("label")' = Where("label")  BY <1>3
      <4>3. \A d, k : Belongs(d, k)' <=> Belongs(d, k)  BY <2>1
      <4> QED  BY <1>1, <4>1, <4>2, <4>3 DEF DeclaredOnce
    <3>1. DeclaredOnce  BY DEF ScopesInv
    <3> QED  BY <3>1 DEF DeclaredOnce
  <2> QED  BY <2>3, <2>4, <2>5, <2>6, <2>7, <2>8 DEF ScopesInv
<1>5. (TwiceForGood => TwiceForGood') /\ (AroundForGood => AroundForGood')
  BY <1>1, <1>3 DEF TwiceForGood, AroundForGood
<1> QED  BY <1>2, <1>4, <1>5 DEF DuplicatesInv

\* So does the end of the program.
LEMMA FinishKeeps ==
    ASSUME DuplicatesInv, kit' = kit, Finish
    PROVE  DuplicatesInv'
<1>1. /\ UNCHANGED <<index, labels, scopes, procs, log>> /\ errors \subseteq errors'
      /\ errors' \subseteq errors \union {"no endp", "undefined"}
      /\ procs # <<>> => "no endp" \in errors'
  BY DEF Finish
<1>2. (Quiet' <=> Quiet) /\ ("duplicate" \in errors' <=> "duplicate" \in errors)
      /\ ("undefined local" \in errors' <=> "undefined local" \in errors)
  BY <1>1 DEF Quiet
<1>3. errors' = {} => procs' = <<>>  BY <1>1
<1> QED  BY <1>1, <1>2, <1>3, NothingRead

\* The invariant holds of the empty program.
LEMMA DuplicatesInit ==
    Init => DuplicatesInv
<1> SUFFICES ASSUME Init PROVE DuplicatesInv  OBVIOUS
<1>1. /\ kit \in Kits /\ index = 0 /\ labels = <<>> /\ procs = <<>> /\ log = <<>> /\ errors = {}
      /\ scopes = <<[n \in {} |-> 0]>> /\ phase = "reading"
  BY DEF Init
<1>2. Len(scopes) = 1 /\ DOMAIN scopes[1] = {} /\ scopes \in Seq({[n \in {} |-> 0]})  BY <1>1
<1>3. Len(labels) = 0 /\ Len(procs) = 0 /\ Len(log) = 0 /\ \A w : Where(w) = {}
  BY <1>1 DEF Where
<1>4. LabelsOK
  <2>1. labels \in Seq({}) /\ Len(scopes) = Len(procs) + 1  BY <1>1, <1>2, <1>3
  <2>2. IsSeq(labels) /\ IsSeq(scopes)  BY <1>2, <2>1 DEF IsSeq
  <2> QED  BY <1>2, <1>3, <2>1, <2>2 DEF LabelsOK
<1>5. TypeInv
  <2>1. log \in Seq({}) /\ procs \in Seq(Nat)  BY <1>1
  <2> QED  BY <1>1, <1>3, <1>4, <2>1 DEF TypeInv, IsSeq
<1>6. Nested  BY <1>3 DEF Nested
<1>7. OneScope /\ ValuesDeclared  BY <1>2 DEF OneScope, ValuesDeclared
<1>8. LocalsKnown /\ WaitingUsed  BY <1>2 DEF LocalsKnown, WaitingUsed
<1>9. DeclarationsKnown /\ DeclaredOnce  BY <1>3 DEF DeclarationsKnown, DeclaredOnce
<1> QED  BY <1>1, <1>5, <1>6, <1>7, <1>8, <1>9 DEF DuplicatesInv, ScopesInv

\* Every statement keeps it.
LEMMA DuplicatesNext ==
    DuplicatesInv /\ [Next]_vars => DuplicatesInv'
<1> SUFFICES ASSUME DuplicatesInv, [Next]_vars PROVE DuplicatesInv'  OBVIOUS
<1>1. TypeInv /\ kit \in Kits /\ index \in Nat  BY DEF DuplicatesInv, TypeInv
<1>2. PICK l : IsLabel(l)  BY LabelIs
<1>3. ASSUME NEW note, note.procs = procs, log' = Append(log, note), kit' = kit, index' \in Nat,
             phase' # "done", UNCHANGED <<scopes, procs, labels>>, note.what \notin {"local", "label"},
             errors \subseteq errors', Quiet' <=> Quiet
      PROVE  DuplicatesInv'
  BY <1>2, <1>3, OtherKeeps
<1>4. CASE UNCHANGED vars
  <2>1. /\ UNCHANGED <<index, labels, scopes, procs, log>>
        /\ kit' = kit /\ errors' = errors /\ phase' = phase
    BY <1>4 DEF vars
  <2>2. phase = "done" /\ errors = {} => procs = <<>>  BY DEF DuplicatesInv
  <2>3. Quiet' <=> Quiet  BY <2>1 DEF Quiet
  <2> QED  BY <2>1, <2>2, <2>3, NothingRead
<1>5. CASE Next
  <2>1. kit' = kit  BY <1>5 DEF Next
  <2>2. CASE EnterProc  BY <2>1, <2>2, EnterKeeps
  <2>3. CASE ExitProc  BY <2>1, <2>3, ExitKeeps
  <2>4. CASE Finish  BY <2>1, <2>4, FinishKeeps
  <2>5. ASSUME NEW n \in Names, LocalLabel(n) PROVE DuplicatesInv'  BY <2>1, <2>5, LocalKeeps
  <2>6. ASSUME NEW n \in Names, DeclareLabel(n) PROVE DuplicatesInv'  BY <2>1, <2>6, DeclareKeeps
  <2>7. ASSUME NEW n \in Names, UseLabel(n) PROVE DuplicatesInv'  BY <2>1, <2>7, UseKeeps
  <2>8. CASE AddEmpty
    <3> PICK note : note = Note("empty", NoName, None)  OBVIOUS
    <3>1. /\ log' = Append(log, note) /\ phase' = "reading"
          /\ UNCHANGED <<labels, scopes, procs, errors>> /\ (index' = index \/ index' = index + 0)
      BY <2>8 DEF AddEmpty, Read, AddInstruction
    <3>2. note.what = "empty" /\ note.procs = procs  BY DEF Note
    <3>3. (Quiet' <=> Quiet) /\ index' \in Nat  BY <1>1, <3>1 DEF Quiet
    <3> QED  BY <1>3, <2>1, <3>1, <3>2, <3>3
  <2>9. CASE PopNamespace
    <3> PICK note : note = Note("namespace", NoName, None)  OBVIOUS
    <3>1. /\ log' = Append(log, note) /\ phase' = "reading"
          /\ UNCHANGED <<labels, scopes, procs, index>>
          /\ errors' = errors \/ errors' = errors \union {"no namespace"}
      BY <2>9 DEF PopNamespace, SwitchNamespace
    <3>2. note.what = "namespace" /\ note.procs = procs  BY DEF Note
    <3>3. (Quiet' <=> Quiet) /\ errors \subseteq errors'  BY <3>1 DEF Quiet
    <3> QED  BY <1>1, <1>3, <2>1, <3>1, <3>2, <3>3
  <2>10. ASSUME NEW ns \in Namespaces, PushNamespace(ns) PROVE DuplicatesInv'
    <3> PICK note : note = Note("namespace", NoName, None)  OBVIOUS
    <3>1. /\ log' = Append(log, note) /\ phase' = "reading"
          /\ UNCHANGED <<labels, scopes, procs, index, errors>>
      BY <2>10 DEF PushNamespace, SwitchNamespace
    <3>2. note.what = "namespace" /\ note.procs = procs  BY DEF Note
    <3>3. Quiet' <=> Quiet  BY <3>1 DEF Quiet
    <3> QED  BY <1>1, <1>3, <2>1, <3>1, <3>2, <3>3
  <2>11. ASSUME NEW a \in Lines, NEW f \in Files, LineDirective(a, f) PROVE DuplicatesInv'
    <3> PICK note : note = Note("line", NoName, None)  OBVIOUS
    <3>1. /\ log' = Append(log, note) /\ phase' = "reading"
          /\ UNCHANGED <<labels, scopes, procs, index, errors>>
      BY <2>11 DEF LineDirective
    <3>2. note.what = "line" /\ note.procs = procs  BY DEF Note
    <3>3. Quiet' <=> Quiet  BY <3>1 DEF Quiet
    <3> QED  BY <1>1, <1>3, <2>1, <3>1, <3>2, <3>3
  <2>12. ASSUME NEW a \in Origins, SetOrg(a) PROVE DuplicatesInv'
    <3> PICK note : note = Note("org", NoName, None)  OBVIOUS
    <3>1. /\ log' = Append(log, note) /\ phase' = "reading" /\ index' = a
          /\ UNCHANGED <<labels, scopes, procs>>
          /\ errors' = errors \/ errors' = errors \union {"org"}
      BY <2>12 DEF SetOrg, Read
    <3>2. note.what = "org" /\ note.procs = procs  BY DEF Note
    <3>3. (Quiet' <=> Quiet) /\ errors \subseteq errors'  BY <3>1 DEF Quiet
    <3>4. a \in Nat  BY <1>1, AsmAssumption DEF Origins
    <3> QED  BY <1>3, <2>1, <3>1, <3>2, <3>3, <3>4
  <2>13. ASSUME NEW t \in Temporaries, DeclareTemporary(t) PROVE DuplicatesInv'
    <3> PICK note : note = Note("label", Qualified(t), None)  OBVIOUS
    <3>1. /\ log' = Append(log, note) /\ phase' # "done"
          /\ UNCHANGED <<labels, scopes, procs, index, errors>>
      BY <2>13 DEF DeclareTemporary, Read
    <3>2. note.what = "label" /\ note.procs = procs /\ note.name[2] = t  BY DEF Note, Qualified
    <3>3. Quiet' <=> Quiet  BY <3>1 DEF Quiet
    <3>4. t \notin Names  BY <1>1, AsmAssumption DEF Names, Temporaries
    <3> QED  BY <1>1, <1>2, <2>1, <3>1, <3>2, <3>3, <3>4, OtherKeeps
  <2>14. ASSUME NEW t \in Temporaries, NEW dir \in {-1, 1}, UseTemporary(t, dir) PROVE DuplicatesInv'
    <3> PICK note : note = Note(IF dir < 0 THEN "back" ELSE "forth", Qualified(t), Len(labels) + 1)
      OBVIOUS
    <3> PICK m : m = Label(Qualified(t), None, dir)  OBVIOUS
    <3>1. /\ log' = Append(log, note) /\ phase' # "done" /\ labels' = Append(labels, m)
          /\ UNCHANGED <<scopes, procs, errors>>
          /\ index' = index \/ index' = index + 1
      BY <2>14 DEF UseTemporary, Read, AddInstruction
    <3>2. note.what \in {"back", "forth"} /\ note.procs = procs  BY DEF Note
    <3>3. (Quiet' <=> Quiet) /\ index' \in Nat  BY <1>1, <3>1 DEF Quiet
    <3>4. IsLabel(m)
      <4>1. IsLabel(Label(Qualified(t), None, dir))  BY LabelIs
      <4> QED  BY <4>1
    <3> QED  BY <2>1, <3>1, <3>2, <3>3, <3>4, OtherKeeps
  <2> QED
    BY <1>5, <2>2, <2>3, <2>4, <2>5, <2>6, <2>7, <2>8, <2>9, <2>10, <2>11, <2>12, <2>13, <2>14
    DEF Next, Statement
<1> QED  BY <1>4, <1>5

\* What the invariant says of duplicates.
LEMMA DuplicatesFollow ==
    DuplicatesInv => DuplicatesRight
<1> SUFFICES ASSUME DuplicatesInv PROVE DuplicatesRight  OBVIOUS
<1>1. DuplicateMeansTwo
  <2>1. AroundForGood => \E u \in Where("use"), d \in Where("label") : UsedAround(u, d)
    BY DEF AroundForGood
  <2>2. TwiceForGood => DeclaredTwice
    BY DEF TwiceForGood, DeclaredTwice, Settled, Hidden
  <2> QED  BY <2>1, <2>2 DEF DuplicatesInv, DuplicateMeansTwo
<1>2. DuplicatesReported
  <2> SUFFICES ASSUME phase = "done", NEW c \in Where("label"), NEW d \in Where("label"),
                      c # d, log[c].name = log[d].name, log[c].name[2] \in Names,
                      ~ LocalIn(log[c].name, ProcOf(c), End), ~ LocalIn(log[d].name, ProcOf(d), End),
                      errors = {}
               PROVE  FALSE
    BY DEF DuplicatesReported
  <2>1. procs = <<>> /\ ScopesInv /\ LabelsOK  BY DEF DuplicatesInv, Quiet, TypeInv
  <2>2. Settled(c) /\ Settled(d)  BY <2>1 DEF Settled, Hidden
  <2>3. 1 \in 1 .. Len(scopes)  BY <2>1 DEF LabelsOK
  <2>4. Belongs(c, 1) /\ Belongs(d, 1)  BY <2>2 DEF Belongs
  <2> QED  BY <2>1, <2>3, <2>4 DEF ScopesInv, DeclaredOnce
<1> QED  BY <1>1, <1>2 DEF DuplicatesRight

\* A duplicate is reported only for a name declared twice in its scope, or in the two
\* situations of PROCs that DuplicateMeansTwo names; and a name declared twice where
\* no LOCAL hides it is always reported, whatever PROCs, LOCALs, namespaces and
\* errors the program has.
THEOREM DuplicatesAlways == Spec => []DuplicatesRight
<1>1. Init => DuplicatesInv  BY DuplicatesInit
<1>2. DuplicatesInv /\ [Next]_vars => DuplicatesInv'  BY DuplicatesNext
<1>3. DuplicatesInv => DuplicatesRight  BY DuplicatesFollow
<1> QED  BY <1>1, <1>2, <1>3, PTL DEF Spec

---------------------------
(* Operands. *)

\* The PROCs around a statement are those that were open when it was read.
LEMMA AroundIs ==
    ASSUME TypeInv, NEW note, note.procs = procs, log' = Append(log, note), NEW N, N = Now
    PROVE  /\ \A u \in 1 .. Len(log) : \A p : Encloses(p, u)' <=> Encloses(p, u)
           /\ \A p : Encloses(p, N)' <=> p = 0 \/ \E k \in 1 .. Len(procs) : procs[k] = p
           /\ \A u \in 1 .. Len(log) : \A q : InReach(u, q)' <=> InReach(u, q)
           /\ \A q : InReach(N, q)' <=>
                 \A k \in 1 .. Len(procs) : Hidden(note.name, procs[k]) => q >= procs[k]
<1>1. /\ \A i \in 1 .. Len(log) : log'[i] = log[i] /\ ProcOf(i)' = ProcOf(i)
      /\ log'[N] = note /\ N = Len(log) + 1 /\ Len(log) \in Nat
      /\ \A w : Where(w)' = IF note.what = w THEN Where(w) \union {N} ELSE Where(w)
      /\ \A w : Where(w) \subseteq 1 .. Len(log)
  <2>1. N = Len(log) + 1 /\ Len(log) \in Nat  BY DEF Now, TypeInv, IsSeq
  <2>2. \A i \in 1 .. Len(log) : log'[i] = log[i]  BY Noted
  <2>3. log'[N] = note  BY Noted
  <2> QED  BY <2>1, <2>2, <2>3, LogNext
<1>2. \A u \in 1 .. Len(log) : \A p : Encloses(p, u)' <=> Encloses(p, u)  BY <1>1 DEF Encloses
<1>3. \A p : Encloses(p, N)' <=> p = 0 \/ \E k \in 1 .. Len(procs) : procs[k] = p
  <2>1. DOMAIN log'[N].procs = 1 .. Len(procs)  BY <1>1 DEF TypeInv
  <2> QED  BY <1>1, <2>1 DEF Encloses
<1>4. ASSUME NEW u \in 1 .. N, NEW n, NEW p
      PROVE  LocalIn(n, p, u)' <=>
                p # 0 /\ \E i \in Where("local") : i < u /\ log[i].name = n /\ ProcOf(i) = p
  <2>1. \A i \in Where("local")' : i < u => i \in Where("local") /\ i \in 1 .. Len(log)
    <3>1. ~ (N < u) /\ Where("local")' \subseteq Where("local") \union {N}  BY <1>1
    <3> QED  BY <1>1, <3>1
  <2>2. \A i \in Where("local") : i \in Where("local")' /\ i \in 1 .. Len(log)  BY <1>1
  <2> QED  BY <1>1, <2>1, <2>2 DEF LocalIn
<1>5. ASSUME NEW u \in 1 .. Len(log), NEW q PROVE InReach(u, q)' <=> InReach(u, q)
  <2>1. \A n, p : LocalIn(n, p, u)' <=> LocalIn(n, p, u)  BY <1>1, <1>4 DEF LocalIn
  <2> QED  BY <1>1, <2>1 DEF InReach
<1>6. ASSUME NEW q
      PROVE  InReach(N, q)' <=> \A k \in 1 .. Len(procs) : Hidden(note.name, procs[k]) => q >= procs[k]
  <2>1. \A n, p : LocalIn(n, p, N)' <=> Hidden(n, p)
    <3>1. \A i \in Where("local") : i < N /\ i < End  BY <1>1 DEF End
    <3> QED  BY <1>1, <1>4, <3>1 DEF Hidden, LocalIn
  <2> QED  BY <1>1, <2>1 DEF InReach
<1> QED  BY <1>2, <1>3, <1>5, <1>6

\* What an operand may mean, it may mean for good.
LEMMA MeansKept ==
    ASSUME TypeInv, Nested, NEW note, note.procs = procs, log' = Append(log, note), NextProcs
    PROVE  \A u, d \in 1 .. Len(log) : Means(u, d) => Means(u, d)'
<1>1. /\ \A i \in 1 .. Len(log) : log'[i] = log[i] /\ ProcOf(i)' = ProcOf(i)
  BY Noted, LogNext
<1>2. \A d \in 1 .. Len(log) : Settled(d) => Settled(d)'  BY SettledNext
<1>3. /\ \A u \in 1 .. Len(log) : \A p : Encloses(p, u)' <=> Encloses(p, u)
      /\ \A u \in 1 .. Len(log) : \A q : InReach(u, q)' <=> InReach(u, q)
  BY AroundIs
<1> QED  BY <1>1, <1>2, <1>3 DEF Means

\* Operands that had an answer keep it, and those that get one have it for good.
LEMMA AnsweredNext ==
    ASSUME TypeInv, Nested, Answered, Steady, NEW note, note.procs = procs, log' = Append(log, note), NextProcs
    PROVE  \A u \in Uses : Clash(LabelOf(u))' =>
              \E d \in Where("label")' : Means(u, d)' /\ LabelOf(u)'.value = log'[d].addr
<1> SUFFICES ASSUME NEW u \in Uses, Clash(LabelOf(u))'
             PROVE  \E d \in Where("label")' : Means(u, d)' /\ LabelOf(u)'.value = log'[d].addr
  OBVIOUS
<1>1. CASE Clash(LabelOf(u))
  <2>1. LabelOf(u)'.value = LabelOf(u).value  BY <1>1 DEF Steady
  <2>2. PICK d \in Where("label") : Means(u, d) /\ LabelOf(u).value = log[d].addr
    BY <1>1 DEF Answered
  <2>3. /\ u \in 1 .. Len(log) /\ d \in 1 .. Len(log) /\ log'[d] = log[d] /\ d \in Where("label")'
    BY Noted, LogNext DEF Uses
  <2>4. Means(u, d)'  BY <2>2, <2>3, MeansKept
  <2> QED  BY <2>1, <2>2, <2>3, <2>4
<1>2. CASE ~ Clash(LabelOf(u))  BY <1>2 DEF Steady
<1> QED  BY <1>1, <1>2

\* Which label PutLabel changes.
LEMMA PutIds ==
    ASSUME TypeInv, NEW name, NEW l, PutLabel(name, l), NEW K, K = Len(scopes)
    PROVE  \E id \in 1 .. Len(labels') :
              /\ labels'[id] = l /\ name \in DOMAIN scopes'[K] /\ scopes'[K][name] = id
              /\ \A i \in 1 .. Len(labels) : i \in 1 .. Len(labels') /\ (i # id => labels'[i] = labels[i])
              /\ IF name \in DOMAIN scopes[K] THEN id = scopes[K][name] /\ id \in 1 .. Len(labels)
                 ELSE id = Len(labels) + 1 /\ id \notin 1 .. Len(labels)
              /\ \A k \in 1 .. Len(scopes) : \A n \in DOMAIN scopes[k] : scopes'[k][n] = scopes[k][n]
<1>1. /\ IsSeq(labels) /\ Len(labels) \in Nat
      /\ IsSeq(scopes) /\ Len(scopes) = Len(procs) + 1 /\ Len(procs) \in Nat
      /\ \A k \in 1 .. Len(scopes) : \A n \in DOMAIN scopes[k] : scopes[k][n] \in 1 .. Len(labels)
  BY DEF TypeInv, LabelsOK, IsSeq
<1>2. K \in 1 .. Len(scopes) /\ Last(scopes) = scopes[K] /\ DOMAIN scopes = 1 .. Len(scopes)
  BY <1>1 DEF Last, IsSeq
<1>3. CASE name \in DOMAIN Last(scopes) /\ labels' = [labels EXCEPT ![Last(scopes)[name]] = l] /\ scopes' = scopes
  <2> PICK id : id = scopes[K][name]  OBVIOUS
  <2>1. id \in 1 .. Len(labels)  BY <1>1, <1>2, <1>3
  <2>2. /\ Len(labels') = Len(labels) /\ labels'[id] = l
        /\ \A i \in 1 .. Len(labels) : i # id => labels'[i] = labels[i]
    <3>1. PICK S : labels \in Seq(S)  BY <1>1 DEF IsSeq
    <3>2. labels \in Seq(S \union {l})  BY <3>1, SeqMonotonic
    <3>3. labels' = [labels EXCEPT ![id] = l]  BY <1>2, <1>3
    <3> QED  BY <2>1, <3>2, <3>3
  <2> QED  BY <1>2, <1>3, <2>1, <2>2
<1>4. CASE /\ name \notin DOMAIN Last(scopes) /\ labels' = Append(labels, l)
           /\ scopes' = [scopes EXCEPT ![Len(scopes)] = Put(Last(scopes), name, Len(labels'))]
  <2> PICK id : id = Len(labels) + 1  OBVIOUS
  <2>1. /\ Len(labels') = id /\ labels'[id] = l /\ id \notin 1 .. Len(labels)
        /\ \A i \in 1 .. Len(labels) : labels'[i] = labels[i]
    BY <1>1, <1>4, AppendIs
  <2> PICK new : new = Put(scopes[K], name, id)  OBVIOUS
  <2>2. /\ DOMAIN new = DOMAIN scopes[K] \union {name} /\ new[name] = id
        /\ \A n \in DOMAIN scopes[K] : n # name => new[n] = scopes[K][n]
    BY DEF Put
  <2>3. scopes' = [scopes EXCEPT ![K] = new]  BY <1>2, <1>4, <2>1
  <2>4. /\ scopes'[K] = new /\ \A k \in 1 .. Len(scopes) : k # K => scopes'[k] = scopes[k]
    BY <1>2, <2>3
  <2>5. \A k \in 1 .. Len(scopes) : \A n \in DOMAIN scopes[k] : scopes'[k][n] = scopes[k][n]
    BY <1>2, <1>4, <2>2, <2>4
  <2>6. id \in 1 .. Len(labels') /\ \A i \in 1 .. Len(labels) : i \in 1 .. Len(labels')
    BY <1>1, <2>1
  <2> QED  BY <1>2, <1>4, <2>1, <2>2, <2>4, <2>5, <2>6
<1> QED  BY <1>3, <1>4 DEF PutLabel

\* A statement that changes the label of one name answers the operands that wait for it.
LEMMA PutSteady ==
    ASSUME TypeInv, Nested, OperandsInv, kit' = kit, procs' = procs,
           NEW name, name[2] \in Names, NEW l, PutLabel(name, l),
           NEW note, note.procs = procs, note.name = name, log' = Append(log, note),
           NEW K, K = Len(scopes), Placing(name, l, note, K)
    PROVE  Steady
<1>1. PICK id \in 1 .. Len(labels') :
         /\ labels'[id] = l
         /\ \A i \in 1 .. Len(labels) : i # id => labels'[i] = labels[i]
         /\ IF name \in DOMAIN scopes[K] THEN id = scopes[K][name] /\ id \in 1 .. Len(labels)
            ELSE id \notin 1 .. Len(labels)
  BY PutIds
<1> PICK N : N = Now  OBVIOUS
<1>2. /\ \A i \in 1 .. Len(log) : log'[i] = log[i]
      /\ log'[N] = note /\ N = Len(log) + 1 /\ Len(log) \in Nat /\ ProcOf(N)' = Inner
      /\ \A w : Where(w)' = IF note.what = w THEN Where(w) \union {N} ELSE Where(w)
      /\ Uses \subseteq 1 .. Len(log)
  <2>1. N = Len(log) + 1 /\ Len(log) \in Nat  BY DEF Now, TypeInv, IsSeq
  <2>2. \A i \in 1 .. Len(log) : log'[i] = log[i]  BY Noted
  <2>3. log'[N] = note  BY Noted
  <2> QED  BY <2>1, <2>2, <2>3, LogNext DEF Uses
<1>3. K \in 1 .. Len(scopes) /\ ProcAt(K) = Inner
  <2>1. procs \in Seq(Nat) /\ K = Len(procs) + 1 /\ Len(procs) \in Nat  BY DEF TypeInv, LabelsOK
  <2>2. procs = <<>> <=> Len(procs) = 0  BY <2>1
  <2> QED  BY <2>1, <2>2 DEF ProcAt, Inner, Last
<1>4. ASSUME NEW u \in Uses
      PROVE  IF Clash(LabelOf(u)) THEN LabelOf(u)'.value = LabelOf(u).value
             ELSE Clash(LabelOf(u))' =>
                     \E d \in Where("label")' : u < d /\ Means(u, d)' /\ LabelOf(u)'.value = log'[d].addr
  <2>1. /\ log[u].id \in 1 .. Len(labels) /\ u \in 1 .. Len(log) /\ log'[u] = log[u] /\ u < N
        /\ LabelOf(u)' = labels'[log[u].id]
    BY <1>2 DEF OperandsInv, UsesNamed, LabelOf
  <2>2. CASE log[u].id # id
    <3>1. LabelOf(u)' = LabelOf(u)  BY <1>1, <2>1, <2>2 DEF LabelOf
    <3> QED  BY <3>1 DEF Clash
  <2>3. CASE log[u].id = id
    <3>1. name \in DOMAIN scopes[K] /\ log[u].id = scopes[K][name] /\ LabelOf(u) = LabelAt(K, name)
          /\ LabelOf(u)' = l
      BY <1>1, <2>1, <2>3 DEF LabelOf, LabelAt
    <3>2. log[u].name = name /\ Encloses(ProcAt(K), u)  BY <1>3, <3>1 DEF OperandsInv, Inside
    <3>3. CASE note.what = "local"
      <4>1. LabelOf(u)'.value = LabelOf(u).value  BY <3>1, <3>3 DEF Placing
      <4> QED  BY <3>1, <4>1 DEF Clash
    <3>4. CASE note.what = "label"
      <4>1. ~ Clash(LabelAt(K, name)) /\ l.value = note.addr  BY <3>1, <3>4 DEF Placing
      <4>2. InReach(u, ProcAt(K))  BY <1>3, <3>1, <4>1 DEF OperandsInv, Waits
      <4>3. InReach(u, ProcAt(K))' /\ Encloses(ProcAt(K), u)'
        <5>1. ProcAt(K)' = ProcAt(K)  BY DEF ProcAt
        <5>2. \A q : InReach(u, q) => InReach(u, q)'  BY <2>1, AroundIs
        <5>3. \A q : Encloses(q, u) => Encloses(q, u)'  BY <2>1, AroundIs
        <5>4. PICK q : q = ProcAt(K) /\ q = ProcAt(K)'  BY <5>1
        <5>5. InReach(u, q)' /\ Encloses(q, u)'  BY <3>2, <4>2, <5>2, <5>3, <5>4
        <5> QED  BY <5>4, <5>5 DEF InReach, Encloses
      <4>4. ProcOf(N)' = ProcAt(K)'  BY <1>2, <1>3 DEF ProcAt
      <4>5. Means(u, N)'
        <5>1. InReach(u, ProcOf(N))' /\ Encloses(ProcOf(N), u)'  BY <4>3, <4>4 DEF InReach, Encloses
        <5> QED  BY <1>2, <2>1, <3>2, <5>1 DEF Means
      <4>6. N \in Where("label")' /\ LabelOf(u)'.value = log'[N].addr  BY <1>2, <3>1, <3>4, <4>1
      <4> QED  BY <2>1, <3>1, <4>1, <4>5, <4>6
    <3>5. CASE note.what = "use"  BY <1>3, <3>1, <3>5 DEF Placing
    <3> QED  BY <3>3, <3>4, <3>5 DEF Placing
  <2> QED  BY <2>2, <2>3
<1> QED  BY <1>4 DEF Steady

\* So it keeps what is known of operands.
LEMMA PutOperands ==
    ASSUME TypeInv, Nested, ScopesInv, OperandsInv, kit' = kit, procs' = procs,
           NEW name, name[2] \in Names, NEW l, IsLabel(l), PutLabel(name, l),
           NEW note, note.procs = procs, note.name = name, log' = Append(log, note),
           NEW K, K = Len(scopes), Placing(name, l, note, K)
    PROVE  OperandsInv' /\ Steady
<1>1. PICK id \in 1 .. Len(labels') :
         /\ labels'[id] = l /\ name \in DOMAIN scopes'[K] /\ scopes'[K][name] = id
         /\ \A i \in 1 .. Len(labels) : i \in 1 .. Len(labels') /\ (i # id => labels'[i] = labels[i])
         /\ IF name \in DOMAIN scopes[K] THEN id = scopes[K][name] /\ id \in 1 .. Len(labels)
            ELSE id = Len(labels) + 1 /\ id \notin 1 .. Len(labels)
         /\ \A k \in 1 .. Len(scopes) : \A n \in DOMAIN scopes[k] : scopes'[k][n] = scopes[k][n]
  BY PutIds
<1> PICK N : N = Now  OBVIOUS
<1>2. /\ \A i \in 1 .. Len(log) : log'[i] = log[i]
      /\ log'[N] = note /\ N = Len(log) + 1 /\ Len(log) \in Nat
      /\ \A w : Where(w)' = IF note.what = w THEN Where(w) \union {N} ELSE Where(w)
      /\ Uses \subseteq 1 .. Len(log) /\ Where("label") \subseteq 1 .. Len(log)
      /\ Uses' = IF note.what = "use" THEN Uses \union {N} ELSE Uses
  <2>1. N = Len(log) + 1 /\ Len(log) \in Nat  BY DEF Now, TypeInv, IsSeq
  <2>2. \A i \in 1 .. Len(log) : log'[i] = log[i]  BY Noted
  <2>3. log'[N] = note  BY Noted
  <2> QED  BY <2>1, <2>2, <2>3, LogNext DEF Uses
<1>3. /\ K \in 1 .. Len(scopes) /\ Len(scopes') = Len(scopes)
      /\ \A k \in 1 .. Len(scopes) :
            DOMAIN scopes'[k] = DOMAIN scopes[k] \union (IF k = K THEN {name} ELSE {})
      /\ LabelAt(K, name)' = l
      /\ \A k \in 1 .. Len(scopes) : \A n \in DOMAIN scopes[k] :
            k # K \/ n # name => LabelAt(k, n)' = LabelAt(k, n)
  BY PutIs DEF ScopesInv
<1>4. /\ procs \in Seq(Nat) /\ K = Len(procs) + 1 /\ Len(procs) \in Nat /\ K \in Nat
      /\ \A k : ProcAt(k)' = ProcAt(k)
      /\ \A k \in 1 .. Len(scopes) : \A n \in DOMAIN scopes[k] : scopes[k][n] \in 1 .. Len(labels)
      /\ Len(labels) \in Nat /\ Names' = Names
  BY DEF TypeInv, LabelsOK, ProcAt, IsSeq, Names
<1>5. Steady  BY PutSteady
<1>6. ASSUME NEW u \in Uses
      PROVE  /\ u \in 1 .. Len(log) /\ log'[u] = log[u] /\ u < N /\ u # N
             /\ log[u].id \in 1 .. Len(labels) /\ log[u].name[2] \in Names
             /\ \A k \in 1 .. Len(scopes) : \A n \in DOMAIN scopes'[k] :
                   log'[u].id = scopes'[k][n] => n \in DOMAIN scopes[k] /\ log[u].id = scopes[k][n]
  <2>1. u \in 1 .. Len(log) /\ log'[u] = log[u] /\ u < N  BY <1>2
  <2>2. log[u].id \in 1 .. Len(labels) /\ log[u].name[2] \in Names  BY DEF OperandsInv, UsesNamed
  <2>3. ASSUME NEW k \in 1 .. Len(scopes), NEW n \in DOMAIN scopes'[k], log'[u].id = scopes'[k][n]
        PROVE  n \in DOMAIN scopes[k] /\ log[u].id = scopes[k][n]
    <3>1. CASE n \in DOMAIN scopes[k]  BY <1>1, <2>1, <2>3, <3>1
    <3>2. CASE n \notin DOMAIN scopes[k]
      <4>1. k = K /\ n = name /\ scopes'[k][n] = id /\ id \notin 1 .. Len(labels)  BY <1>1, <1>3, <3>2
      <4> QED  BY <2>1, <2>2, <2>3, <4>1
    <3> QED  BY <3>1, <3>2
  <2> QED  BY <1>2, <2>1, <2>2, <2>3
<1>7. ASSUME NEW u \in Uses', u \notin Uses
      PROVE  /\ u = N /\ note.what = "use" /\ log'[u] = note /\ note.id = id /\ id = Len(labels) + 1 /\ ~ Clash(l)
             /\ \A k \in 1 .. Len(scopes) : name \notin DOMAIN scopes[k]
             /\ \A k \in 1 .. Len(scopes) : \A n \in DOMAIN scopes'[k] :
                   log'[u].id = scopes'[k][n] => k = K /\ n = name
  <2>1. /\ u = N /\ note.what = "use" /\ log'[u] = note  BY <1>2, <1>7
  <2>2. /\ ~ Clash(l) /\ note.id = Len(labels) + 1
        /\ \A k \in 1 .. Len(scopes) : name \notin DOMAIN scopes[k]
    BY <2>1 DEF Placing
  <2>3. id = Len(labels) + 1 /\ id \notin 1 .. Len(labels)  BY <1>1, <1>3, <2>2
  <2>4. ASSUME NEW k \in 1 .. Len(scopes), NEW n \in DOMAIN scopes'[k], log'[u].id = scopes'[k][n]
        PROVE  k = K /\ n = name
    <3>1. CASE n \in DOMAIN scopes[k]
      <4>1. scopes'[k][n] \in 1 .. Len(labels)  BY <1>1, <1>4, <3>1
      <4> QED  BY <2>1, <2>2, <2>3, <2>4, <4>1
    <3>2. CASE n \notin DOMAIN scopes[k]  BY <1>3, <3>2
    <3> QED  BY <3>1, <3>2
  <2> QED  BY <2>1, <2>2, <2>3, <2>4
<1>8. UsesNamed'
  <2> SUFFICES ASSUME NEW u \in Uses' PROVE log'[u].name[2] \in Names /\ log'[u].id \in 1 .. Len(labels')
    BY <1>4 DEF UsesNamed
  <2>1. CASE u \in Uses  BY <1>1, <1>6, <2>1
  <2>2. CASE u \notin Uses  BY <1>7, <2>2
  <2> QED  BY <2>1, <2>2
<1>9. Inside'
  <2> SUFFICES ASSUME NEW u \in Uses', NEW k \in 1 .. Len(scopes), NEW n \in DOMAIN scopes'[k],
                      log'[u].id = scopes'[k][n]
               PROVE  log'[u].name = n /\ Encloses(ProcAt(k), u)'
    BY <1>3 DEF Inside
  <2> PICK q : q = ProcAt(k) /\ q = ProcAt(k)'  BY <1>4
  <2>1. CASE u \in Uses
    <3>0. n \in DOMAIN scopes[k] /\ log[u].id = scopes[k][n]  BY <1>6, <2>1
    <3>1. log[u].name = n /\ Encloses(ProcAt(k), u)  BY <2>1, <3>0 DEF OperandsInv, Inside
    <3>2. Encloses(q, u)'
      <4>1. Encloses(q, u)  BY <3>1
      <4>2. u \in 1 .. Len(log)  BY <1>6, <2>1
      <4> QED  BY <4>1, <4>2, AroundIs
    <3> QED  BY <1>6, <2>1, <3>1, <3>2 DEF Encloses
  <2>2. CASE u \notin Uses
    <3>1. u = N /\ log'[u] = note /\ k = K /\ n = name  BY <1>7, <2>2
    <3>2. q = 0 \/ \E m \in 1 .. Len(procs) : procs[m] = q
      <4>1. CASE K = 1  BY <3>1, <4>1 DEF ProcAt
      <4>2. CASE K # 1
        <5>1. K - 1 \in 1 .. Len(procs) /\ q = procs[K - 1]  BY <1>4, <3>1, <4>2 DEF ProcAt
        <5> QED  BY <5>1
      <4> QED  BY <4>1, <4>2
    <3>3. Encloses(q, N)'  BY <3>2, AroundIs
    <3> QED  BY <3>1, <3>3 DEF Encloses
  <2> QED  BY <2>1, <2>2
<1>10. NoneAround'
  <2> SUFFICES ASSUME NEW k \in 2 .. Len(scopes), NEW n \in DOMAIN scopes'[k],
                      ~ LabelAt(k, n)'.local, ~ Clash(LabelAt(k, n))',
                      NEW j \in 1 .. k - 1, n \in DOMAIN scopes'[j]
               PROVE  j = 1 /\ Clash(LabelAt(1, n))'
    BY <1>3 DEF NoneAround
  <2>1. j # K /\ 1 # K /\ j \in 1 .. Len(scopes) /\ 1 \in 1 .. Len(scopes) /\ n \in DOMAIN scopes[j]
    BY <1>3, <1>4
  <2>2. CASE k = K /\ n = name
    <3>1. ~ l.local /\ ~ Clash(l)  BY <1>3, <2>2 DEF Clash
    <3> QED  BY <2>1, <2>2, <3>1 DEF Placing
  <2>3. CASE ~ (k = K /\ n = name)
    <3>1. n \in DOMAIN scopes[k] /\ LabelAt(k, n)' = LabelAt(k, n)  BY <1>3, <2>3
    <3>2. ~ LabelAt(k, n).local /\ ~ Clash(LabelAt(k, n))  BY <3>1 DEF Clash
    <3>3. j = 1 /\ Clash(LabelAt(1, n))  BY <2>1, <3>1, <3>2 DEF OperandsInv, NoneAround
    <3>4. LabelAt(1, n)' = LabelAt(1, n)  BY <1>3, <2>1, <3>3
    <3> QED  BY <3>3, <3>4 DEF Clash
  <2> QED  BY <2>2, <2>3
<1>11. Waits'
  <2> SUFFICES ASSUME NEW u \in Uses', NEW k \in 1 .. Len(scopes), NEW n \in DOMAIN scopes'[k],
                      log'[u].id = scopes'[k][n], ~ Clash(LabelAt(k, n))'
               PROVE  InReach(u, ProcAt(k))'
    BY <1>3 DEF Waits
  <2> PICK q : q = ProcAt(k) /\ q = ProcAt(k)'  BY <1>4
  <2>1. CASE u \in Uses
    <3>1. n \in DOMAIN scopes[k] /\ log[u].id = scopes[k][n]  BY <1>6, <2>1
    <3>2. ~ Clash(LabelAt(k, n))
      <4>1. CASE k = K /\ n = name  BY <1>3, <3>1, <4>1 DEF Placing, Clash
      <4>2. CASE ~ (k = K /\ n = name)  BY <1>3, <3>1, <4>2 DEF Clash
      <4> QED  BY <4>1, <4>2
    <3>3. InReach(u, q)  BY <2>1, <3>1, <3>2 DEF OperandsInv, Waits
    <3>4. InReach(u, q)'  BY <1>6, <2>1, <3>3, AroundIs
    <3> QED  BY <3>4 DEF InReach
  <2>2. CASE u \notin Uses
    <3>1. u = N /\ k = K  BY <1>7, <2>2
    <3>2. ASSUME NEW m \in 1 .. Len(procs) PROVE q >= procs[m]
      <4>1. K - 1 \in 1 .. Len(procs) /\ q = procs[K - 1] /\ m <= K - 1 /\ q \in Nat /\ procs[m] \in Nat
        <5>1. K # 1 /\ K - 1 \in 1 .. Len(procs) /\ m <= K - 1  BY <1>4
        <5>2. q = procs[K - 1]  BY <3>1, <5>1, Zenon DEF ProcAt
        <5>3. \A i \in 1 .. Len(procs) : procs[i] \in Nat  BY DEF TypeInv
        <5>4. procs[K - 1] \in Nat /\ procs[m] \in Nat  BY <5>1, <5>3, Zenon
        <5> QED  BY <5>1, <5>2, <5>4, Zenon
      <4>2. m = K - 1 \/ procs[m] < procs[K - 1]
        <5>1. m = K - 1 \/ m < K - 1  BY <1>4, <4>1
        <5>2. \A i, j \in 1 .. Len(procs) : i < j => procs[i] < procs[j]  BY DEF Nested
        <5> QED  BY <4>1, <5>1, <5>2
      <4> QED  BY <4>1, <4>2
    <3>3. InReach(N, q)'  BY <3>2, AroundIs
    <3> QED  BY <3>1, <3>3 DEF InReach
  <2> QED  BY <2>1, <2>2
<1>12. /\ \A d \in 1 .. Len(log), k \in 1 .. Len(scopes) : Belongs(d, k)' <=> Belongs(d, k)
       /\ Belongs(N, K)'
  BY <1>3, BelongsNext
<1>13. ASSUME NEW d \in Where("label")', d \notin Where("label") PROVE d = N /\ note.what = "label"
  BY <1>2, <1>13
<1>14. Before'
  <2> SUFFICES ASSUME NEW u \in Uses', NEW d \in Where("label")', NEW k \in 2 .. Len(scopes),
                      NEW n \in DOMAIN scopes'[1], log'[u].id = scopes'[1][n], ~ Clash(LabelAt(1, n))',
                      log'[d].name = n, Belongs(d, k)'
               PROVE  u < d
    BY <1>3 DEF Before
  <2>1. 1 # K /\ 1 \in 1 .. Len(scopes)  BY <1>3, <1>4
  <2>2. n \in DOMAIN scopes[1] /\ LabelAt(1, n)' = LabelAt(1, n)  BY <1>3, <2>1
  <2>3. u \in Uses  BY <1>7, <2>1
  <2>4. CASE d \in Where("label")
    <3>1. d \in 1 .. Len(log) /\ log'[d] = log[d] /\ Belongs(d, k)  BY <1>2, <1>12, <2>4
    <3>2. log[u].id = scopes[1][n] /\ ~ Clash(LabelAt(1, n))  BY <1>6, <2>1, <2>2, <2>3 DEF Clash
    <3> QED  BY <2>2, <2>3, <2>4, <3>1, <3>2 DEF OperandsInv, Before
  <2>5. CASE d \notin Where("label")  BY <1>6, <1>13, <2>3, <2>5
  <2> QED  BY <2>4, <2>5
<1>15. Traced'
  <2> SUFFICES ASSUME NEW k \in 1 .. Len(scopes'), NEW n \in DOMAIN scopes'[k], Clash(LabelAt(k, n))'
               PROVE  \E d \in Where("label")' :
                         log'[d].name = n /\ Belongs(d, k)' /\ LabelAt(k, n)'.value = log'[d].addr
    BY Zenon DEF Traced
  <2>0. k \in 1 .. Len(scopes)  BY <1>3
  <2>1. ASSUME n \in DOMAIN scopes[k], LabelAt(k, n)'.value = LabelAt(k, n).value
        PROVE  \E d \in Where("label")' :
                  log'[d].name = n /\ Belongs(d, k)' /\ LabelAt(k, n)'.value = log'[d].addr
    <3>1. Clash(LabelAt(k, n))  BY <2>1 DEF Clash
    <3>2. PICK d \in Where("label") : log[d].name = n /\ Belongs(d, k) /\ LabelAt(k, n).value = log[d].addr
      BY <2>0, <2>1, <3>1 DEF OperandsInv, Traced
    <3>3. d \in 1 .. Len(log) /\ log'[d] = log[d] /\ d \in Where("label")'  BY <1>2
    <3>4. Belongs(d, k)'  BY <1>12, <2>0, <3>2, <3>3
    <3> QED  BY <2>1, <3>2, <3>3, <3>4
  <2>2. CASE k = K /\ n = name
    <3>1. Clash(l) /\ LabelAt(k, n)' = l  BY <1>3, <2>2 DEF Clash
    <3>2. CASE note.what = "local"
      <4>1. name \in DOMAIN scopes[K] /\ l.value = LabelAt(K, name).value  BY <3>1, <3>2 DEF Placing
      <4> QED  BY <2>1, <2>2, <3>1, <4>1
    <3>3. CASE note.what = "label"
      <4>1. N \in Where("label")' /\ log'[N].name = n /\ l.value = log'[N].addr
        BY <1>2, <2>2, <3>3 DEF Placing
      <4> QED  BY <1>12, <2>2, <3>1, <4>1
    <3> QED  BY <3>1, <3>2, <3>3 DEF Placing
  <2>3. CASE ~ (k = K /\ n = name)
    <3>1. n \in DOMAIN scopes[k] /\ LabelAt(k, n)' = LabelAt(k, n)  BY <1>3, <2>3
    <3> QED  BY <2>1, <3>1
  <2> QED  BY <2>2, <2>3
<1>16. Waiting'
  <2> SUFFICES ASSUME NEW u \in Uses', ~ Clash(LabelOf(u))'
               PROVE  \E k \in 1 .. Len(scopes) : \E n \in DOMAIN scopes'[k] : scopes'[k][n] = log'[u].id
    BY <1>3 DEF Waiting
  <2>1. CASE u \in Uses
    <3>1. CASE log[u].id = id
      <4>1. log'[u].id = id  BY <1>6, <2>1, <3>1
      <4> QED  BY <1>1, <1>3, <4>1
    <3>2. CASE log[u].id # id
      <4>1. LabelOf(u)' = LabelOf(u)  BY <1>1, <1>6, <2>1, <3>2 DEF LabelOf
      <4>2. ~ Clash(LabelOf(u))  BY <4>1 DEF Clash
      <4>3. PICK k \in 1 .. Len(scopes) : \E n \in DOMAIN scopes[k] : scopes[k][n] = log[u].id
        BY <2>1, <4>2 DEF OperandsInv, Waiting
      <4>4. PICK n \in DOMAIN scopes[k] : scopes[k][n] = log[u].id  BY <4>3
      <4>5. n \in DOMAIN scopes'[k]  BY <1>3
      <4>6. scopes'[k][n] = log'[u].id  BY <1>1, <1>6, <2>1, <4>4
      <4> QED  BY <4>5, <4>6
    <3> QED  BY <3>1, <3>2
  <2>2. CASE u \notin Uses
    <3>1. log'[u].id = id  BY <1>7, <2>2
    <3> QED  BY <1>1, <1>3, <3>1
  <2> QED  BY <2>1, <2>2
<1>17. Answered'
  <2> SUFFICES ASSUME NEW u \in Uses', Clash(LabelOf(u))'
               PROVE  \E d \in Where("label")' : Means(u, d)' /\ LabelOf(u)'.value = log'[d].addr
    BY DEF Answered
  <2>1. CASE u \in Uses
    <3>1. NextProcs /\ Answered  BY DEF NextProcs, OperandsInv
    <3> QED  BY <1>5, <2>1, <3>1, AnsweredNext
  <2>2. CASE u \notin Uses
    <3>1. LabelOf(u)' = l  BY <1>1, <1>7, <2>2 DEF LabelOf
    <3> QED  BY <1>7, <2>2, <3>1 DEF Clash
  <2> QED  BY <2>1, <2>2
<1> QED  BY <1>5, <1>8, <1>9, <1>10, <1>11, <1>14, <1>15, <1>16, <1>17 DEF OperandsInv

\* The label reached is in the scope of every LOCAL of that name around the operand.
LEMMA ReachedLocals ==
    ASSUME TypeInv, Nested, ScopesInv, NEW note, note.procs = procs, log' = Append(log, note),
           NEW N, N = Now, NEW at, Reaches(note, at)
    PROVE  /\ \A q : at = 1 \/ q = ProcAt(at) => InReach(N, q)'
           /\ \A q : q = ProcAt(at) => Encloses(q, N)'
<1>1. /\ procs \in Seq(Nat) /\ Len(scopes) = Len(procs) + 1 /\ Len(procs) \in Nat
      /\ \A j \in 1 .. Len(procs) : procs[j] \in Nat
      /\ \A i, j \in 1 .. Len(procs) : i < j => procs[i] < procs[j]
  <2>1. procs \in Seq(Nat) /\ Len(scopes) = Len(procs) + 1  BY DEF TypeInv, LabelsOK
  <2> QED  BY <2>1 DEF Nested
<1>2. at \in 1 .. Len(scopes) /\ \A k \in 1 .. Len(scopes) : note.name \in DOMAIN scopes[k] => k <= at
  BY DEF Reaches
<1>3. ASSUME NEW j \in 1 .. Len(procs), Hidden(note.name, procs[j])
      PROVE  at # 1 /\ ProcAt(at) >= procs[j]
  <2>1. PICK i \in Where("local") : log[i].name = note.name /\ ProcOf(i) = procs[j]
    BY <1>3 DEF Hidden, LocalIn
  <2>2. PICK k : k = j + 1  OBVIOUS
  <2>3. k \in 2 .. Len(scopes) /\ k - 1 = j /\ k \in 1 .. Len(scopes)  BY <1>1, <2>2
  <2>4. note.name \in DOMAIN scopes[k]  BY <2>1, <2>3 DEF ScopesInv, LocalsKnown
  <2>5. k <= at  BY <1>2, <2>3, <2>4
  <2>6. at # 1 /\ at - 1 \in 1 .. Len(procs) /\ (j = at - 1 \/ j < at - 1)  BY <1>1, <1>2, <2>3, <2>5
  <2>7. procs[at - 1] >= procs[j]
    <3>1. PICK m : m = at - 1  OBVIOUS
    <3>2. m \in 1 .. Len(procs) /\ (j = m \/ j < m)  BY <2>6, <3>1
    <3> QED  BY <1>1, <3>1, <3>2
  <2> QED  BY <2>6, <2>7 DEF ProcAt
<1>4. ASSUME NEW q, at = 1 \/ q = ProcAt(at) PROVE InReach(N, q)'
  <2>1. \A k \in 1 .. Len(procs) : Hidden(note.name, procs[k]) => q >= procs[k]  BY <1>3, <1>4
  <2> QED  BY <2>1, AroundIs
<1>5. ProcAt(at) = 0 \/ \E k \in 1 .. Len(procs) : procs[k] = ProcAt(at)
  <2>1. CASE at = 1  BY <2>1 DEF ProcAt
  <2>2. CASE at # 1
    <3>1. at - 1 \in 1 .. Len(procs)  BY <1>1, <1>2, <2>2
    <3> QED  BY <2>2, <3>1 DEF ProcAt
  <2> QED  BY <2>1, <2>2
<1>6. ASSUME NEW q, q = ProcAt(at) PROVE Encloses(q, N)'
  BY <1>5, <1>6, AroundIs
<1> QED  BY <1>4, <1>6

\* A statement that changes no label of a scope, and uses no name but those the
\* scopes know, keeps what is known of operands.
LEMMA OtherOperands ==
    ASSUME TypeInv, Nested, ScopesInv, OperandsInv, kit' = kit, procs' = procs, scopes' = scopes,
           NEW l, IsLabel(l), labels' = labels \/ labels' = Append(labels, l),
           NEW note, note.procs = procs, log' = Append(log, note), note.what # "local",
           note.what = "label" => note.name[2] \notin Names,
           note.what = "use" => note.name[2] \in Names /\ \E at : Reaches(note, at)
    PROVE  OperandsInv' /\ Steady
<1> PICK N : N = Now  OBVIOUS
<1>1. /\ \A i \in 1 .. Len(labels) : labels'[i] = labels[i] /\ i \in 1 .. Len(labels')
      /\ Len(labels) \in Nat
  <2>1. IsSeq(labels) /\ Len(labels) \in Nat  BY DEF TypeInv, LabelsOK, IsSeq
  <2>2. CASE labels' = labels  BY <2>2
  <2>3. CASE labels' = Append(labels, l)  BY <2>1, <2>3, AppendIs
  <2> QED  BY <2>1, <2>2, <2>3
<1>2. /\ \A i \in 1 .. Len(log) : log'[i] = log[i]
      /\ log'[N] = note /\ N = Len(log) + 1 /\ Len(log) \in Nat
      /\ \A w : Where(w)' = IF note.what = w THEN Where(w) \union {N} ELSE Where(w)
      /\ Uses \subseteq 1 .. Len(log) /\ Where("label") \subseteq 1 .. Len(log)
      /\ Uses' = IF note.what = "use" THEN Uses \union {N} ELSE Uses
      /\ \A u \in 1 .. Len(log) : u < N /\ u # N
  <2>1. N = Len(log) + 1 /\ Len(log) \in Nat  BY DEF Now, TypeInv, IsSeq
  <2>2. \A i \in 1 .. Len(log) : log'[i] = log[i]  BY Noted
  <2>3. log'[N] = note  BY Noted
  <2> QED  BY <2>1, <2>2, <2>3, LogNext DEF Uses
<1>3. /\ \A k \in 1 .. Len(scopes) : \A n \in DOMAIN scopes[k] :
            LabelAt(k, n)' = LabelAt(k, n) /\ scopes[k][n] \in 1 .. Len(labels) /\ n[2] \in Names
      /\ \A k : ProcAt(k)' = ProcAt(k)
      /\ Names' = Names /\ Len(scopes) = Len(procs) + 1 /\ Len(procs) \in Nat
  <2>1. \A k \in 1 .. Len(scopes) : \A n \in DOMAIN scopes[k] : scopes[k][n] \in 1 .. Len(labels) /\ n[2] \in Names
    BY DEF TypeInv, LabelsOK
  <2> QED  BY <1>1, <2>1 DEF LabelAt, ProcAt, TypeInv, LabelsOK, Names
<1>4. ASSUME NEW u \in Uses
      PROVE  /\ u \in 1 .. Len(log) /\ log'[u] = log[u] /\ log[u].id \in 1 .. Len(labels)
             /\ LabelOf(u)' = LabelOf(u) /\ log[u].name[2] \in Names
  BY <1>1, <1>2 DEF OperandsInv, UsesNamed, LabelOf
<1>5. ASSUME NEW u \in Uses', u \notin Uses
      PROVE  /\ u = N /\ note.what = "use" /\ log'[u] = note /\ note.name[2] \in Names
             /\ \E at : Reaches(note, at)
  BY <1>2, <1>5
<1>6. /\ \A d \in 1 .. Len(log), k \in 1 .. Len(scopes) : Belongs(d, k)' <=> Belongs(d, k)
      /\ \A d \in 1 .. Len(log) : Settled(d) => Settled(d)'
  BY BelongsNext, SettledNext DEF NextProcs
<1>7. ASSUME NEW u \in Uses', u \notin Uses, NEW at, Reaches(note, at)
      PROVE  /\ at \in 1 .. Len(scopes) /\ note.name \in DOMAIN scopes[at]
             /\ note.id \in 1 .. Len(labels) /\ note.id = scopes[at][note.name]
             /\ LabelOf(u)' = LabelAt(at, note.name)
             /\ \A k \in 1 .. Len(scopes) : note.name \in DOMAIN scopes[k] => k <= at
             /\ \A k \in 1 .. Len(scopes) : \A n \in DOMAIN scopes[k] :
                   note.id = scopes[k][n] => k = at /\ n = note.name
             /\ \A q : at = 1 \/ q = ProcAt(at) => InReach(u, q)'
             /\ \A q : q = ProcAt(at) => Encloses(q, u)'
  <2>1. /\ at \in 1 .. Len(scopes) /\ note.name \in DOMAIN scopes[at]
        /\ note.id = scopes[at][note.name]
        /\ \A k \in 1 .. Len(scopes) : note.name \in DOMAIN scopes[k] => k <= at
    BY <1>7 DEF Reaches
  <2>2. note.id \in 1 .. Len(labels)  BY <1>3, <2>1
  <2>3. \A k \in 1 .. Len(scopes) : \A n \in DOMAIN scopes[k] :
           note.id = scopes[k][n] => k = at /\ n = note.name
    BY <2>1 DEF ScopesInv, OneScope
  <2>4. u = N /\ log'[u] = note  BY <1>5, <1>7
  <2>5. LabelOf(u)' = LabelAt(at, note.name)  BY <1>1, <2>1, <2>2, <2>4 DEF LabelOf, LabelAt
  <2>6. /\ \A q : at = 1 \/ q = ProcAt(at) => InReach(N, q)'
        /\ \A q : q = ProcAt(at) => Encloses(q, N)'
    BY <1>7, ReachedLocals
  <2>7. /\ \A q : at = 1 \/ q = ProcAt(at) => InReach(u, q)'
        /\ \A q : q = ProcAt(at) => Encloses(q, u)'
    BY <2>4, <2>6 DEF InReach, Encloses
  <2> QED  BY <2>1, <2>2, <2>3, <2>5, <2>7
<1>8. Steady  BY <1>4 DEF Steady, Clash
<1>9. UsesNamed'
  <2> SUFFICES ASSUME NEW u \in Uses' PROVE log'[u].name[2] \in Names /\ log'[u].id \in 1 .. Len(labels')
    BY <1>3 DEF UsesNamed
  <2>1. CASE u \in Uses  BY <1>1, <1>4, <2>1
  <2>2. CASE u \notin Uses
    <3>1. PICK at : Reaches(note, at)  BY <1>5, <2>2
    <3>2. note.id \in 1 .. Len(labels)  BY <1>7, <2>2, <3>1
    <3> QED  BY <1>1, <1>5, <2>2, <3>2
  <2> QED  BY <2>1, <2>2
<1>10. Inside'
  <2> SUFFICES ASSUME NEW u \in Uses', NEW k \in 1 .. Len(scopes), NEW n \in DOMAIN scopes[k],
                      log'[u].id = scopes[k][n]
               PROVE  log'[u].name = n /\ Encloses(ProcAt(k), u)'
    BY DEF Inside
  <2> PICK q : q = ProcAt(k) /\ q = ProcAt(k)'  BY <1>3
  <2>1. CASE u \in Uses
    <3>1. log[u].name = n /\ Encloses(q, u) /\ u \in 1 .. Len(log)
      BY <1>4, <2>1 DEF OperandsInv, Inside
    <3>2. Encloses(q, u)'  BY <3>1, AroundIs
    <3> QED  BY <1>4, <2>1, <3>1, <3>2 DEF Encloses
  <2>2. CASE u \notin Uses
    <3>1. PICK at : Reaches(note, at)  BY <1>5, <2>2
    <3>2. log'[u] = note  BY <1>5, <2>2
    <3>3. k = at /\ n = note.name  BY <1>7, <2>2, <3>1, <3>2
    <3>4. \A r : r = ProcAt(at) => Encloses(r, u)'  BY <1>7, <2>2, <3>1
    <3>5. Encloses(q, u)'  BY <3>3, <3>4
    <3> QED  BY <3>2, <3>3, <3>5 DEF Encloses
  <2> QED  BY <2>1, <2>2
<1>11. NoneAround'
  <2> SUFFICES ASSUME NEW k \in 2 .. Len(scopes), NEW n \in DOMAIN scopes[k],
                      ~ LabelAt(k, n)'.local, ~ Clash(LabelAt(k, n))',
                      NEW j \in 1 .. k - 1, n \in DOMAIN scopes[j]
               PROVE  j = 1 /\ Clash(LabelAt(1, n))'
    BY DEF NoneAround
  <2>1. k \in 1 .. Len(scopes) /\ 1 \in 1 .. Len(scopes)  BY <1>3
  <2>2. ~ LabelAt(k, n).local /\ ~ Clash(LabelAt(k, n))  BY <1>3, <2>1 DEF Clash
  <2>3. j = 1 /\ Clash(LabelAt(1, n))  BY <2>2 DEF OperandsInv, NoneAround
  <2>4. LabelAt(1, n)' = LabelAt(1, n)  BY <1>3, <2>1, <2>3
  <2> QED  BY <2>3, <2>4 DEF Clash
<1>12. Waits'
  <2> SUFFICES ASSUME NEW u \in Uses', NEW k \in 1 .. Len(scopes), NEW n \in DOMAIN scopes[k],
                      log'[u].id = scopes[k][n], ~ Clash(LabelAt(k, n))'
               PROVE  InReach(u, ProcAt(k))'
    BY DEF Waits
  <2> PICK q : q = ProcAt(k) /\ q = ProcAt(k)'  BY <1>3
  <2>1. CASE u \in Uses
    <3>1. ~ Clash(LabelAt(k, n))  BY <1>3 DEF Clash
    <3>2. InReach(u, q) /\ u \in 1 .. Len(log)  BY <1>4, <2>1, <3>1 DEF OperandsInv, Waits
    <3>3. InReach(u, q)'  BY <3>2, AroundIs
    <3> QED  BY <3>3 DEF InReach
  <2>2. CASE u \notin Uses
    <3>1. PICK at : Reaches(note, at)  BY <1>5, <2>2
    <3>2. log'[u] = note  BY <1>5, <2>2
    <3>3. k = at  BY <1>7, <2>2, <3>1, <3>2
    <3>4. \A r : r = ProcAt(at) => InReach(u, r)'  BY <1>7, <2>2, <3>1
    <3>5. InReach(u, q)'  BY <3>3, <3>4
    <3> QED  BY <3>5 DEF InReach
  <2> QED  BY <2>1, <2>2
<1>13. ASSUME NEW d \in Where("label")', NEW k \in 1 .. Len(scopes), d \notin Where("label")
       PROVE  d = N /\ note.what = "label" /\ log'[d] = note /\ log'[d].name[2] \notin Names
  BY <1>2, <1>13
<1>14. Before'
  <2> SUFFICES ASSUME NEW u \in Uses', NEW d \in Where("label")', NEW k \in 2 .. Len(scopes),
                      NEW n \in DOMAIN scopes[1], log'[u].id = scopes[1][n], ~ Clash(LabelAt(1, n))',
                      log'[d].name = n, Belongs(d, k)'
               PROVE  u < d
    BY DEF Before
  <2>1. k \in 1 .. Len(scopes) /\ 1 \in 1 .. Len(scopes) /\ ~ (k <= 1)  BY <1>3
  <2>2. n[2] \in Names  BY <1>3, <2>1
  <2>3. d \in Where("label") /\ d \in 1 .. Len(log) /\ log'[d] = log[d]
    BY <1>2, <1>13, <2>1, <2>2
  <2>4. log[d].name = n /\ Belongs(d, k)  BY <1>6, <2>1, <2>3
  <2>5. CASE u \in Uses
    <3>1. ~ Clash(LabelAt(1, n)) /\ log[u].id = scopes[1][n]  BY <1>3, <1>4, <2>1, <2>5 DEF Clash
    <3> QED  BY <2>3, <2>4, <2>5, <3>1 DEF OperandsInv, Before
  <2>6. CASE u \notin Uses
    <3>1. PICK at : Reaches(note, at)  BY <1>5, <2>6
    <3>2. log'[u] = note  BY <1>5, <2>6
    <3>3. at = 1 /\ n = note.name  BY <1>7, <2>1, <2>6, <3>1, <3>2
    <3>4. note.name \in DOMAIN scopes[k]
      BY <2>1, <2>2, <2>3, <2>4, <3>3 DEF ScopesInv, DeclarationsKnown
    <3>5. k <= at  BY <1>7, <2>1, <2>6, <3>1, <3>4
    <3> QED  BY <2>1, <3>3, <3>5
  <2> QED  BY <2>5, <2>6
<1>15. ASSUME NEW k \in 1 .. Len(scopes), NEW n \in DOMAIN scopes[k], Clash(LabelAt(k, n))
       PROVE  \E d \in Where("label")' :
                 /\ d \in 1 .. Len(log) /\ log'[d] = log[d] /\ log[d].name = n
                 /\ Belongs(d, k) /\ Belongs(d, k)' /\ LabelAt(k, n).value = log[d].addr
  <2>1. PICK d \in Where("label") : log[d].name = n /\ Belongs(d, k) /\ LabelAt(k, n).value = log[d].addr
    BY <1>15 DEF OperandsInv, Traced
  <2>2. d \in 1 .. Len(log) /\ log'[d] = log[d] /\ d \in Where("label")'  BY <1>2
  <2>3. Belongs(d, k)'  BY <1>6, <2>1, <2>2
  <2> QED  BY <2>1, <2>2, <2>3
<1>16. Traced'
  <2> SUFFICES ASSUME NEW k \in 1 .. Len(scopes), NEW n \in DOMAIN scopes[k], Clash(LabelAt(k, n))'
               PROVE  \E d \in Where("label")' :
                         log'[d].name = n /\ Belongs(d, k)' /\ LabelAt(k, n)'.value = log'[d].addr
    BY DEF Traced
  <2>1. Clash(LabelAt(k, n)) /\ LabelAt(k, n)' = LabelAt(k, n)  BY <1>3 DEF Clash
  <2>2. PICK d \in Where("label")' :
           log'[d] = log[d] /\ log[d].name = n /\ Belongs(d, k)' /\ LabelAt(k, n).value = log[d].addr
    BY <1>15, <2>1
  <2> QED  BY <2>1, <2>2
<1>17. Waiting'
  <2> SUFFICES ASSUME NEW u \in Uses', ~ Clash(LabelOf(u))'
               PROVE  \E k \in 1 .. Len(scopes) : \E n \in DOMAIN scopes[k] : scopes[k][n] = log'[u].id
    BY DEF Waiting
  <2>1. CASE u \in Uses
    <3>1. ~ Clash(LabelOf(u))  BY <1>4, <2>1 DEF Clash
    <3> QED  BY <1>4, <2>1, <3>1 DEF OperandsInv, Waiting
  <2>2. CASE u \notin Uses
    <3>1. PICK at : Reaches(note, at)  BY <1>5, <2>2
    <3>2. at \in 1 .. Len(scopes) /\ note.name \in DOMAIN scopes[at] /\ note.id = scopes[at][note.name]
      BY <1>7, <2>2, <3>1
    <3> QED  BY <1>5, <2>2, <3>2
  <2> QED  BY <2>1, <2>2
<1>18. Answered'
  <2> SUFFICES ASSUME NEW u \in Uses', Clash(LabelOf(u))'
               PROVE  \E d \in Where("label")' : Means(u, d)' /\ LabelOf(u)'.value = log'[d].addr
    BY DEF Answered
  <2>1. CASE u \in Uses
    <3>1. NextProcs /\ Answered  BY DEF NextProcs, OperandsInv
    <3> QED  BY <1>8, <2>1, <3>1, AnsweredNext
  <2>2. CASE u \notin Uses
    <3>1. PICK at : Reaches(note, at)  BY <1>5, <2>2
    <3>2. /\ at \in 1 .. Len(scopes) /\ note.name \in DOMAIN scopes[at] /\ u = N /\ log'[u] = note
          /\ LabelOf(u)' = LabelAt(at, note.name)
      BY <1>5, <1>7, <2>2, <3>1
    <3>3. Clash(LabelAt(at, note.name))  BY <3>2 DEF Clash
    <3>4. PICK d \in Where("label")' :
             /\ d \in 1 .. Len(log) /\ log'[d] = log[d] /\ log[d].name = note.name
             /\ Belongs(d, at) /\ Belongs(d, at)' /\ LabelAt(at, note.name).value = log[d].addr
      BY <1>15, <3>2, <3>3
    <3>5. at = 1 \/ ProcOf(d) = ProcAt(at)  BY <3>4 DEF Belongs, ProcAt
    <3>6. PICK p : p = ProcOf(d) /\ p = ProcOf(d)'
      <4>1. ProcOf(d)' = ProcOf(d)  BY <3>4, LogNext
      <4> QED  BY <4>1
    <3>7. InReach(u, p)'
      <4>1. \A q : at = 1 \/ q = ProcAt(at) => InReach(u, q)'  BY <1>7, <2>2, <3>1
      <4> QED  BY <3>5, <3>6, <4>1
    <3>8. Settled(d)' \/ Encloses(p, u)'
      <4>1. CASE at = 1  BY <3>4, <4>1 DEF Belongs
      <4>2. CASE at # 1
        <5>1. \A q : q = ProcAt(at) => Encloses(q, u)'  BY <1>7, <2>2, <3>1
        <5> QED  BY <3>5, <3>6, <4>2, <5>1
      <4> QED  BY <4>1, <4>2
    <3>9. Means(u, d)'
      <4>1. InReach(u, ProcOf(d))'  BY <3>6, <3>7 DEF InReach
      <4>2. Settled(d)' \/ Encloses(ProcOf(d), u)'  BY <3>6, <3>8 DEF Encloses
      <4>3. log'[d].name = log'[u].name  BY <3>2, <3>4
      <4> QED  BY <4>1, <4>2, <4>3 DEF Means
    <3> QED  BY <3>2, <3>4, <3>9
  <2> QED  BY <2>1, <2>2
<1> QED  BY <1>8, <1>9, <1>10, <1>11, <1>12, <1>14, <1>16, <1>17, <1>18 DEF OperandsInv

\* PROC changes nothing for the operands before it.
LEMMA EnterOperands ==
    ASSUME TypeInv, Nested, OperandsInv, kit' = kit, labels' = labels, procs' = Append(procs, Now),
           scopes' = Append(scopes, [n \in {} |-> 0]),
           NEW note, note.procs = procs, note.what = "proc", log' = Append(log, note)
    PROVE  OperandsInv' /\ Steady
<1> PICK K : K = Len(scopes)  OBVIOUS
<1>1. /\ K \in Nat /\ K = Len(procs) + 1 /\ Len(procs) \in Nat /\ procs \in Seq(Nat)
      /\ Len(scopes') = K + 1 /\ DOMAIN scopes'[K + 1] = {} /\ Names' = Names /\ Len(scopes) = K
      /\ \A k \in 1 .. K : scopes'[k] = scopes[k]
  BY EnterIs DEF TypeInv, LabelsOK, Names
<1>2. /\ \A i \in 1 .. Len(log) : log'[i] = log[i] /\ ProcOf(i)' = ProcOf(i)
      /\ \A w \in {"local", "label", "use"} : Where(w)' = Where(w)
      /\ \A w : Where(w) \subseteq 1 .. Len(log)
  BY Noted, LogNext
<1>3. /\ Uses' = Uses /\ Where("label")' = Where("label")
      /\ Uses \subseteq 1 .. Len(log) /\ Where("label") \subseteq 1 .. Len(log)
  BY <1>2 DEF Uses
<1>4. procs'[K] = Now /\ \A k \in 2 .. K : procs'[k - 1] = procs[k - 1]
  <2>1. Now \in Nat  BY Noted
  <2>2. /\ procs'[Len(procs) + 1] = Now
        /\ \A j \in 1 .. Len(procs) : procs'[j] = procs[j]
    BY <1>1, <2>1, AppendProperties
  <2>3. \A k \in 2 .. K : k - 1 \in 1 .. Len(procs)  BY <1>1
  <2> QED  BY <1>1, <2>2, <2>3
<1>5. \A k \in 1 .. K : ProcAt(k)' = ProcAt(k)
  <2>1. \A k \in 1 .. K : k = 1 \/ k \in 2 .. K  BY <1>1
  <2> QED  BY <1>4, <2>1 DEF ProcAt
<1>6. \A d \in 1 .. Len(log) : Settled(d)' <=> Settled(d)  BY SettledNext DEF NextProcs
<1>7. \A d \in 1 .. Len(log), k \in 1 .. K : Belongs(d, k)' <=> Belongs(d, k)
  <2> SUFFICES ASSUME NEW d \in 1 .. Len(log), NEW k \in 1 .. K PROVE Belongs(d, k)' <=> Belongs(d, k)
    OBVIOUS
  <2>1. CASE k = 1  BY <1>6, <2>1 DEF Belongs
  <2>2. CASE k # 1
    <3>1. k \in 2 .. K  BY <1>1, <2>2
    <3> QED  BY <1>2, <1>4, <2>2, <3>1 DEF Belongs
  <2> QED  BY <2>1, <2>2
<1>8. \A d \in 1 .. Len(log) : ~ Belongs(d, K + 1)'
  <2>1. PICK k : k = K + 1  OBVIOUS
  <2>2. k # 1 /\ k - 1 = K  BY <1>1, <2>1
  <2>3. \A d \in 1 .. Len(log) : ProcOf(d) # Now  BY Noted, ProcBefore DEF Now
  <2>4. \A d \in 1 .. Len(log) : Belongs(d, k)' <=> ProcOf(d)' = procs'[k - 1]  BY <2>2 DEF Belongs
  <2>5. \A d \in 1 .. Len(log) : Belongs(d, k)' <=> ProcOf(d) = Now  BY <1>2, <1>4, <2>2, <2>4
  <2> QED  BY <2>1, <2>3, <2>5
<1>9. /\ \A k \in 1 .. K + 1 : \A n \in DOMAIN scopes'[k] :
            k \in 1 .. K /\ n \in DOMAIN scopes[k] /\ scopes'[k][n] = scopes[k][n]
      /\ \A k \in 1 .. K : \A n : LabelAt(k, n)' = LabelAt(k, n)
      /\ \A u : u \in Uses => log'[u] = log[u] /\ LabelOf(u)' = LabelOf(u)
  <2>1. \A k \in 1 .. K + 1 : k = K + 1 \/ k \in 1 .. K  BY <1>1
  <2>2. \A u : u \in Uses => log'[u] = log[u] /\ LabelOf(u)' = LabelOf(u)  BY <1>2, <1>3 DEF LabelOf
  <2> QED  BY <1>1, <2>1, <2>2 DEF LabelAt
<1>10. Steady  BY <1>9 DEF Steady, Clash
<1>11. UsesNamed'  BY <1>1, <1>3, <1>9 DEF OperandsInv, UsesNamed
<1>12. Inside'
  <2> SUFFICES ASSUME NEW u \in Uses, NEW k \in 1 .. K + 1, NEW n \in DOMAIN scopes'[k],
                      log'[u].id = scopes'[k][n]
               PROVE  log'[u].name = n /\ Encloses(ProcAt(k), u)'
    BY <1>1, <1>3 DEF Inside
  <2>1. k \in 1 .. K /\ n \in DOMAIN scopes[k] /\ log[u].id = scopes[k][n] /\ log'[u] = log[u]  BY <1>9
  <2> PICK q : q = ProcAt(k) /\ q = ProcAt(k)'  BY <1>5, <2>1
  <2>2. log[u].name = n /\ Encloses(ProcAt(k), u)  BY <1>1, <2>1 DEF OperandsInv, Inside
  <2>3. Encloses(q, u)'
    <3>1. Encloses(q, u)  BY <2>2
    <3> QED  BY <1>3, <3>1, AroundIs
  <2> QED  BY <2>1, <2>2, <2>3 DEF Encloses
<1>13. NoneAround'
  <2> SUFFICES ASSUME NEW k \in 2 .. K + 1, NEW n \in DOMAIN scopes'[k],
                      ~ LabelAt(k, n)'.local, ~ Clash(LabelAt(k, n))',
                      NEW j \in 1 .. k - 1, n \in DOMAIN scopes'[j]
               PROVE  j = 1 /\ Clash(LabelAt(1, n))'
    BY <1>1 DEF NoneAround
  <2>1. k \in 1 .. K + 1 /\ j \in 1 .. K + 1 /\ 1 \in 1 .. K + 1  BY <1>1
  <2>2. /\ k \in 1 .. K /\ n \in DOMAIN scopes[k] /\ LabelAt(k, n)' = LabelAt(k, n)
        /\ j \in 1 .. K /\ n \in DOMAIN scopes[j]
    BY <1>9, <2>1
  <2>3. ~ LabelAt(k, n).local /\ ~ Clash(LabelAt(k, n)) /\ k \in 2 .. K  BY <1>1, <2>2 DEF Clash
  <2>4. j = 1 /\ Clash(LabelAt(1, n))  BY <1>1, <2>2, <2>3 DEF OperandsInv, NoneAround
  <2>5. LabelAt(1, n)' = LabelAt(1, n)  BY <1>9, <2>2, <2>4
  <2> QED  BY <2>4, <2>5 DEF Clash
<1>14. Waits'
  <2> SUFFICES ASSUME NEW u \in Uses, NEW k \in 1 .. K + 1, NEW n \in DOMAIN scopes'[k],
                      log'[u].id = scopes'[k][n], ~ Clash(LabelAt(k, n))'
               PROVE  InReach(u, ProcAt(k))'
    BY <1>1, <1>3 DEF Waits
  <2>1. /\ k \in 1 .. K /\ n \in DOMAIN scopes[k] /\ log[u].id = scopes[k][n]
        /\ LabelAt(k, n)' = LabelAt(k, n)
    BY <1>9
  <2>2. ~ Clash(LabelAt(k, n))  BY <2>1 DEF Clash
  <2> PICK q : q = ProcAt(k) /\ q = ProcAt(k)'  BY <1>5, <2>1
  <2>3. InReach(u, q)  BY <1>1, <2>1, <2>2 DEF OperandsInv, Waits
  <2>4. InReach(u, q)'  BY <1>3, <2>3, AroundIs
  <2> QED  BY <2>4 DEF InReach
<1>15. Before'
  <2> SUFFICES ASSUME NEW u \in Uses, NEW d \in Where("label"), NEW k \in 2 .. K + 1,
                      NEW n \in DOMAIN scopes'[1], log'[u].id = scopes'[1][n], ~ Clash(LabelAt(1, n))',
                      log'[d].name = n, Belongs(d, k)'
               PROVE  u < d
    BY <1>1, <1>3 DEF Before
  <2>1. 1 \in 1 .. K + 1 /\ k \in 1 .. K + 1  BY <1>1
  <2>2. /\ 1 \in 1 .. K /\ n \in DOMAIN scopes[1] /\ log[u].id = scopes[1][n]
        /\ LabelAt(1, n)' = LabelAt(1, n) /\ log[d].name = n /\ d \in 1 .. Len(log)
    BY <1>2, <1>3, <1>9, <2>1
  <2>3. k \in 2 .. K /\ k \in 1 .. K
    <3>1. k # K + 1  BY <1>8, <2>2
    <3> QED  BY <1>1, <3>1
  <2>4. ~ Clash(LabelAt(1, n)) /\ Belongs(d, k)  BY <1>7, <2>2, <2>3 DEF Clash
  <2> QED  BY <1>1, <2>2, <2>3, <2>4 DEF OperandsInv, Before
<1>16. Traced'
  <2> SUFFICES ASSUME NEW k \in 1 .. K + 1, NEW n \in DOMAIN scopes'[k], Clash(LabelAt(k, n))'
               PROVE  \E d \in Where("label") :
                         log'[d].name = n /\ Belongs(d, k)' /\ LabelAt(k, n)'.value = log'[d].addr
    BY <1>1, <1>3 DEF Traced
  <2>1. k \in 1 .. K /\ n \in DOMAIN scopes[k] /\ LabelAt(k, n)' = LabelAt(k, n)  BY <1>9
  <2>2. Clash(LabelAt(k, n))  BY <2>1 DEF Clash
  <2>3. PICK d \in Where("label") : log[d].name = n /\ Belongs(d, k) /\ LabelAt(k, n).value = log[d].addr
    BY <1>1, <2>1, <2>2 DEF OperandsInv, Traced
  <2>4. d \in 1 .. Len(log) /\ log'[d] = log[d] /\ Belongs(d, k)'  BY <1>2, <1>3, <1>7, <2>1, <2>3
  <2> QED  BY <2>1, <2>3, <2>4
<1>17. Waiting'
  <2> SUFFICES ASSUME NEW u \in Uses', ~ Clash(LabelOf(u))'
               PROVE  \E k \in 1 .. Len(scopes') : \E n \in DOMAIN scopes'[k] : scopes'[k][n] = log'[u].id
    BY Zenon DEF Waiting
  <2>0. u \in Uses  BY <1>3
  <2>1. ~ Clash(LabelOf(u)) /\ log'[u] = log[u]  BY <1>9, <2>0 DEF Clash
  <2>2. PICK k \in 1 .. K : \E n \in DOMAIN scopes[k] : scopes[k][n] = log[u].id
    BY <1>1, <2>0, <2>1 DEF OperandsInv, Waiting
  <2>3. k \in 1 .. Len(scopes') /\ scopes'[k] = scopes[k]  BY <1>1
  <2> QED  BY <2>1, <2>2, <2>3
<1>18. Answered'
  <2>1. NextProcs /\ Answered  BY DEF NextProcs, OperandsInv
  <2>2. \A u \in Uses : Clash(LabelOf(u))' =>
           \E d \in Where("label")' : Means(u, d)' /\ LabelOf(u)'.value = log'[d].addr
    BY <1>10, <2>1, AnsweredNext
  <2> QED  BY <1>3, <2>2 DEF Answered
<1> QED  BY <1>10, <1>11, <1>12, <1>13, <1>14, <1>15, <1>16, <1>17, <1>18 DEF OperandsInv

\* A name that ENDP hands over is not LOCAL in the PROC; an operand that waits for
\* it follows no LOCAL of it in any PROC around.
LEMMA HandedFree ==
    ASSUME TypeInv, Nested, ScopesInv, OperandsInv, NEW K, K = Len(scopes), K > 1,
           NEW n \in DOMAIN scopes[K], ~ LabelAt(K, n).local
    PROVE  /\ ~ Hidden(n, procs[K - 1])
           /\ ~ Clash(LabelAt(K, n)) =>
                 /\ \A k \in 2 .. K - 1 : n \notin DOMAIN scopes[k]
                 /\ n \in DOMAIN scopes[1] => Clash(LabelAt(1, n))
                 /\ \A u \in Uses : log[u].id = scopes[K][n] => InReach(u, 0)
<1>1. /\ procs \in Seq(Nat) /\ K = Len(procs) + 1 /\ Len(procs) \in Nat /\ K \in Nat
      /\ K \in 2 .. Len(scopes) /\ K \in 1 .. Len(scopes) /\ K # 1 /\ K - 1 \in 1 .. Len(procs)
  BY DEF TypeInv, LabelsOK
<1>2. ASSUME NEW j \in 1 .. Len(procs), Hidden(n, procs[j])
      PROVE  n \in DOMAIN scopes[j + 1] /\ LabelAt(j + 1, n).local
  <2>1. PICK i \in Where("local") : log[i].name = n /\ ProcOf(i) = procs[j]
    BY <1>2 DEF Hidden, LocalIn
  <2>2. PICK k : k = j + 1  OBVIOUS
  <2>3. k \in 2 .. Len(scopes) /\ k - 1 = j  BY <1>1, <2>2
  <2> QED  BY <2>1, <2>2, <2>3 DEF ScopesInv, LocalsKnown
<1>3. ~ Hidden(n, procs[K - 1])
  <2> SUFFICES ASSUME Hidden(n, procs[K - 1]) PROVE FALSE  OBVIOUS
  <2>1. PICK j : j = K - 1  OBVIOUS
  <2>2. j \in 1 .. Len(procs) /\ j + 1 = K  BY <1>1, <2>1
  <2> QED  BY <1>2, <2>1, <2>2
<1>4. ASSUME ~ Clash(LabelAt(K, n))
      PROVE  /\ \A k \in 2 .. K - 1 : n \notin DOMAIN scopes[k]
             /\ n \in DOMAIN scopes[1] => Clash(LabelAt(1, n))
  <2>1. \A j \in 1 .. K - 1 : n \in DOMAIN scopes[j] => j = 1 /\ Clash(LabelAt(1, n))
    BY <1>1, <1>4 DEF OperandsInv, NoneAround
  <2>2. 1 \in 1 .. K - 1 /\ \A k \in 2 .. K - 1 : k \in 1 .. K - 1 /\ k # 1  BY <1>1
  <2> QED  BY <2>1, <2>2
<1>5. ASSUME ~ Clash(LabelAt(K, n)), NEW u \in Uses, log[u].id = scopes[K][n] PROVE InReach(u, 0)
  <2>1. InReach(u, procs[K - 1])
    <3>1. ProcAt(K) = procs[K - 1]  BY <1>1 DEF ProcAt
    <3>2. InReach(u, ProcAt(K))  BY <1>1, <1>5 DEF OperandsInv, Waits
    <3> QED  BY <3>1, <3>2
  <2>2. log[u].name = n /\ Encloses(procs[K - 1], u)
    <3>1. ProcAt(K) = procs[K - 1]  BY <1>1 DEF ProcAt
    <3>2. log[u].name = n /\ Encloses(ProcAt(K), u)  BY <1>1, <1>5 DEF OperandsInv, Inside
    <3> QED  BY <3>1, <3>2
  <2>3. /\ u \in 1 .. Len(log) /\ log[u].procs \in Seq(Nat) /\ Len(log) \in Nat
    <3>1. u \in 1 .. Len(log)  BY DEF Uses, Where, TypeInv, IsSeq
    <3> QED  BY <3>1 DEF TypeInv, IsSeq
  <2> PICK p : p = log[u].procs  OBVIOUS
  <2>4. /\ p \in Seq(Nat) /\ Len(p) \in Nat /\ DOMAIN p = 1 .. Len(p)
        /\ \A i \in 1 .. Len(p) : p[i] \in 1 .. u - 1
        /\ \A i, j \in 1 .. Len(p) : i < j => p[i] < p[j]
        /\ \A j \in 1 .. Len(procs) :
              procs[j] < u => j <= Len(p) /\ \A k \in 1 .. j : p[k] = procs[k]
    BY <2>3 DEF Nested
  <2>5. procs[K - 1] # 0 /\ procs[K - 1] \in Nat  BY <1>1 DEF Nested
  <2>6. PICK m \in 1 .. Len(p) : p[m] = procs[K - 1]  BY <2>2, <2>4, <2>5 DEF Encloses
  <2>7. procs[K - 1] < u
    <3>1. p[m] \in 1 .. u - 1  BY <2>4
    <3> QED  BY <2>3, <2>6, <3>1
  <2>8. K - 1 <= Len(p) /\ \A k \in 1 .. K - 1 : p[k] = procs[k]  BY <1>1, <2>4, <2>7
  <2>9. ASSUME NEW k \in 1 .. Len(p), LocalIn(log[u].name, p[k], u) PROVE FALSE
    <3>1. procs[K - 1] >= p[k]  BY <2>1, <2>9 DEF InReach
    <3>2. k <= K - 1
      <4> SUFFICES ASSUME k > K - 1 PROVE FALSE  BY <1>1
      <4>1. PICK j : j = K - 1  OBVIOUS
      <4>2. j \in 1 .. Len(p) /\ j < k /\ p[j] = procs[j]  BY <1>1, <2>4, <2>8, <4>1
      <4>3. p[j] < p[k]  BY <2>4, <4>2
      <4>4. \A i \in 1 .. Len(p) : p[i] \in Nat
        <5>1. \A i \in 1 .. Len(p) : p[i] \in 1 .. u - 1  BY <2>4
        <5>2. \A x \in 1 .. u - 1 : x \in Nat  BY <2>3
        <5> QED  BY <5>1, <5>2, Zenon
      <4>5. p[j] \in Nat /\ p[k] \in Nat  BY <4>2, <4>4
      <4> QED  BY <3>1, <4>1, <4>2, <4>3, <4>5
    <3>3. k \in 1 .. K - 1 /\ k \in 1 .. Len(procs) /\ p[k] = procs[k]  BY <1>1, <2>8, <3>2
    <3>4. Hidden(n, procs[k])
      <4>1. /\ procs[k] # 0
            /\ \E i \in Where("local") : i < u /\ log[i].name = n /\ ProcOf(i) = procs[k]
        BY <2>2, <2>9, <3>3 DEF LocalIn
      <4>2. \A i \in Where("local") : i < End  BY <2>3 DEF Where, End, TypeInv, IsSeq
      <4> QED  BY <4>1, <4>2 DEF Hidden, LocalIn
    <3>5. n \in DOMAIN scopes[k + 1] /\ LabelAt(k + 1, n).local  BY <1>2, <3>3, <3>4
    <3>6. k + 1 = K \/ k + 1 \in 2 .. K - 1  BY <1>1, <3>3
    <3> QED  BY <1>4, <1>5, <3>5, <3>6
  <2> QED  BY <2>9 DEF InReach
<1> QED  BY <1>3, <1>4, <1>5

\* ENDP gives the operands that wait in the global scope the values of the PROC's
\* labels, and leaves the others as they are.
LEMMA ExitSteady ==
    ASSUME TypeInv, Nested, ScopesInv, OperandsInv, ExitProc, kit' = kit, Len(scopes) # 1, Missing = {},
           \A n \in Handed : n \in DOMAIN scopes[1] => ~ Clash(LabelAt(1, n)),
           NEW note, note.procs = procs, note.what = "endp", log' = Append(log, note)
    PROVE  /\ Steady /\ Len(labels') = Len(labels)
           /\ \A u \in Uses : LabelOf(u)' = LabelOf(u) \/ ~ Clash(LabelOf(u))
<1> PICK K : K = Len(scopes)  OBVIOUS
<1>1. /\ K \in Nat /\ K > 1 /\ K = Len(procs) + 1 /\ Len(scopes) = K /\ NextProcs
      /\ Handed = {n \in DOMAIN scopes[K] : ~ LabelAt(K, n).local}
      /\ \A n \in DOMAIN scopes[1] : scopes'[1][n] = scopes[1][n]
      /\ \A n \in Handed : LabelAt(1, n)'.value = LabelAt(K, n).value
  BY ExitFacts, ExitType
<1>2. /\ DOMAIN labels = 1 .. Len(labels) /\ Len(labels) \in Nat
      /\ labels' = [i \in DOMAIN labels |-> Handover(i)]
      /\ \A i \in 1 .. Len(labels) :
            (\A n \in Handed : n \in DOMAIN scopes[1] => scopes[1][n] # i) => Handover(i) = labels[i]
  BY ExitIs, HandoverIs DEF TypeInv, LabelsOK, IsSeq
<1>3. Len(labels') = Len(labels)
  <2>1. labels' = [i \in 1 .. Len(labels) |-> Handover(i)]  BY <1>2
  <2> QED  BY <1>2, <2>1
<1>4. /\ \A i \in 1 .. Len(log) : log'[i] = log[i] /\ ProcOf(i)' = ProcOf(i)
      /\ \A w \in {"local", "label", "use"} : Where(w)' = Where(w)
      /\ \A w : Where(w) \subseteq 1 .. Len(log)
  BY Noted, LogNext
<1>5. ASSUME NEW u \in Uses
      PROVE  /\ u \in 1 .. Len(log) /\ log'[u] = log[u] /\ log[u].id \in 1 .. Len(labels)
             /\ LabelOf(u)' = labels'[log[u].id]
             /\ \/ LabelOf(u)' = LabelOf(u)
                \/ \E n \in Handed : n \in DOMAIN scopes[1] /\ scopes[1][n] = log[u].id
  <2>1. u \in 1 .. Len(log) /\ log'[u] = log[u] /\ log[u].id \in 1 .. Len(labels)
    BY <1>4 DEF Uses, OperandsInv, UsesNamed
  <2>2. LabelOf(u)' = labels'[log[u].id] /\ labels'[log[u].id] = Handover(log[u].id)
    BY <1>2, <2>1 DEF LabelOf
  <2> QED  BY <1>2, <2>1, <2>2 DEF LabelOf
<1>6. ASSUME NEW u \in Uses, NEW n \in Handed, n \in DOMAIN scopes[1], scopes[1][n] = log[u].id
      PROVE  /\ LabelOf(u) = LabelAt(1, n) /\ ~ Clash(LabelOf(u))
             /\ LabelOf(u)'.value = LabelAt(K, n).value
  <2>1. LabelOf(u) = LabelAt(1, n) /\ ~ Clash(LabelOf(u))  BY <1>6 DEF LabelOf, LabelAt
  <2>2. LabelOf(u)' = LabelAt(1, n)'  BY <1>1, <1>5, <1>6 DEF LabelAt
  <2> QED  BY <1>1, <2>1, <2>2
<1>7. ASSUME NEW u \in Uses, NEW n \in Handed, n \in DOMAIN scopes[1], scopes[1][n] = log[u].id,
             Clash(LabelOf(u))'
      PROVE  \E d \in Where("label")' : u < d /\ Means(u, d)' /\ LabelOf(u)'.value = log'[d].addr
  <2>0. K \in 2 .. Len(scopes) /\ K \in 1 .. Len(scopes) /\ 1 \in 1 .. Len(scopes) /\ K # 1  BY <1>1
  <2>1. n \in DOMAIN scopes[K] /\ ~ LabelAt(K, n).local /\ ~ Hidden(n, procs[K - 1])
    BY <1>1, HandedFree
  <2>2. LabelOf(u)'.value = LabelAt(K, n).value /\ Clash(LabelAt(K, n))
    BY <1>6, <1>7 DEF Clash
  <2>3. PICK d \in Where("label") : log[d].name = n /\ Belongs(d, K) /\ LabelAt(K, n).value = log[d].addr
    BY <2>0, <2>1, <2>2 DEF OperandsInv, Traced
  <2>4. d \in 1 .. Len(log) /\ log'[d] = log[d] /\ d \in Where("label")' /\ ProcOf(d)' = ProcOf(d)  BY <1>4
  <2>5. ~ Clash(LabelAt(1, n))  BY <1>6, <1>7
  <2>6. u < d  BY <1>7, <2>0, <2>3, <2>5 DEF OperandsInv, Before
  <2>7. Settled(d)'  BY <1>1, <2>1, <2>3, <2>4, ExitBelongs
  <2>8. log[u].name = n  BY <1>7, <2>0 DEF OperandsInv, Inside
  <2>9. \A q : InReach(u, q)
    <3>1. InReach(u, 0)
      <4>1. InReach(u, ProcAt(1))  BY <1>7, <2>0, <2>5 DEF OperandsInv, Waits
      <4> QED  BY <4>1 DEF ProcAt
    <3>2. \A j \in 1 .. Len(log[u].procs) : log[u].procs[j] \in 1 .. u - 1  BY <1>5 DEF Nested
    <3>3. \A j \in 1 .. Len(log[u].procs) : ~ (0 >= log[u].procs[j])  BY <3>2
    <3> QED  BY <3>1, <3>3 DEF InReach
  <2>10. \A q : InReach(u, q)'
    <3>1. u \in 1 .. Len(log)  BY <1>5
    <3> QED  BY <2>9, <3>1, AroundIs
  <2>11. InReach(u, ProcOf(d))'
    <3> PICK q : q = ProcOf(d)'  OBVIOUS
    <3>1. InReach(u, q)'  BY <2>10
    <3> QED  BY <3>1 DEF InReach
  <2>12. Means(u, d)'  BY <1>5, <2>3, <2>4, <2>7, <2>8, <2>11 DEF Means
  <2> QED  BY <2>2, <2>3, <2>4, <2>6, <2>12
<1>8. Steady
  <2> SUFFICES ASSUME NEW u \in Uses
               PROVE  IF Clash(LabelOf(u)) THEN LabelOf(u)'.value = LabelOf(u).value
                      ELSE Clash(LabelOf(u))' =>
                              \E d \in Where("label")' :
                                 u < d /\ Means(u, d)' /\ LabelOf(u)'.value = log'[d].addr
    BY DEF Steady
  <2>1. CASE LabelOf(u)' = LabelOf(u)  BY <2>1 DEF Clash
  <2>2. CASE \E n \in Handed : n \in DOMAIN scopes[1] /\ scopes[1][n] = log[u].id
    BY <1>6, <1>7, <2>2
  <2> QED  BY <1>5, <2>1, <2>2
<1> QED  BY <1>3, <1>5, <1>6, <1>8

\* ENDP keeps what is known of operands, unless it reports an error of labels.
LEMMA ExitOperands ==
    ASSUME TypeInv, Nested, ScopesInv, OperandsInv, ExitProc, kit' = kit, Len(scopes) # 1, Missing = {},
           \A n \in Handed : n \in DOMAIN scopes[1] => ~ Clash(LabelAt(1, n)),
           NEW note, note.procs = procs, note.what = "endp", log' = Append(log, note)
    PROVE  OperandsInv'
<1> PICK K : K = Len(scopes)  OBVIOUS
<1>1. /\ K \in Nat /\ K > 1 /\ Len(scopes') = K - 1 /\ K = Len(procs) + 1 /\ Len(scopes) = K
      /\ \A j \in 1 .. K - 2 : procs'[j] = procs[j]
      /\ Handed = {n \in DOMAIN scopes[K] : ~ LabelAt(K, n).local}
      /\ \A k \in 2 .. K - 1 : scopes'[k] = scopes[k]
      /\ \A k \in 2 .. K - 1 : \A n \in DOMAIN scopes[k] : LabelAt(k, n)' = LabelAt(k, n)
  BY ExitFacts
<1>2. /\ DOMAIN scopes'[1] = DOMAIN scopes[1] \union Handed
      /\ \A n \in DOMAIN scopes[1] : scopes'[1][n] = scopes[1][n]
      /\ \A n \in Handed : n \notin DOMAIN scopes[1] => scopes'[1][n] = scopes[K][n]
      /\ \A n \in DOMAIN scopes[1] : n \notin Handed => LabelAt(1, n)' = LabelAt(1, n)
      /\ \A n \in Handed : LabelAt(1, n)'.value = LabelAt(K, n).value
  BY ExitFacts
<1>3. /\ \A i \in 1 .. Len(log) : log'[i] = log[i] /\ ProcOf(i)' = ProcOf(i)
      /\ Where("label")' = Where("label") /\ Uses' = Uses
      /\ Uses \subseteq 1 .. Len(log) /\ Where("label") \subseteq 1 .. Len(log)
  <2>1. /\ \A w \in {"local", "label", "use"} : Where(w)' = Where(w)
        /\ \A w : Where(w) \subseteq 1 .. Len(log)
    BY LogNext
  <2> QED  BY <2>1, Noted, LogNext DEF Uses
<1>4. /\ \A d \in 1 .. Len(log), k \in 2 .. K - 1 : Belongs(d, k)' <=> Belongs(d, k)
      /\ \A d \in 1 .. Len(log) :
            Settled(d)' <=> \/ Settled(d)
                            \/ Belongs(d, K) /\ ~ Hidden(log[d].name, procs[K - 1])
  BY ExitBelongs
<1>5. /\ 1 \in 1 .. K /\ 1 \in 1 .. K - 1 /\ K \in 1 .. K /\ K \in 2 .. K /\ K # 1
      /\ \A k \in 2 .. K - 1 : k \in 1 .. K /\ k \in 2 .. K /\ k # 1 /\ k # K /\ k - 1 \in 1 .. K - 2
      /\ \A k \in 1 .. K - 1 : k = 1 \/ k \in 2 .. K - 1
      /\ Names' = Names
      /\ \A k \in 1 .. K - 1 : ProcAt(k)' = ProcAt(k)
  <2>1. \A k \in 2 .. K - 1 : k \in 1 .. K /\ k \in 2 .. K /\ k # 1 /\ k # K /\ k - 1 \in 1 .. K - 2  BY <1>1
  <2>2. \A k \in 1 .. K - 1 : k = 1 \/ k \in 2 .. K - 1  BY <1>1
  <2>3. \A k \in 1 .. K - 1 : ProcAt(k)' = ProcAt(k)  BY <1>1, <2>1, <2>2 DEF ProcAt
  <2> QED  BY <1>1, <2>1, <2>2, <2>3 DEF Names
<1>6. /\ Steady /\ Len(labels') = Len(labels)
      /\ \A u \in Uses : LabelOf(u)' = LabelOf(u) \/ ~ Clash(LabelOf(u))
      /\ \A u \in Uses : u \in 1 .. Len(log) /\ log'[u] = log[u]
  BY <1>3, ExitSteady

\* Where the names of the remaining scopes come from.
<1>7. ASSUME NEW k \in 1 .. K - 1, NEW n \in DOMAIN scopes'[k]
      PROVE  \/ n \in DOMAIN scopes[k] /\ scopes'[k][n] = scopes[k][n]
             \/ /\ k = 1 /\ n \in Handed /\ n \notin DOMAIN scopes[1] /\ n \in DOMAIN scopes[K]
                /\ scopes'[1][n] = scopes[K][n]
  BY <1>1, <1>2, <1>5
<1>8. ASSUME NEW n \in Handed
      PROVE  /\ n \in DOMAIN scopes[K] /\ ~ LabelAt(K, n).local
             /\ ~ Hidden(n, procs[K - 1])
             /\ ~ Clash(LabelAt(K, n)) =>
                   /\ \A k \in 2 .. K - 1 : n \notin DOMAIN scopes[k]
                   /\ n \notin DOMAIN scopes[1]
                   /\ \A u \in Uses : log[u].id = scopes[K][n] => InReach(u, 0)
  BY <1>1, HandedFree
\* Names that the whole program knew without a value, and still does.
<1>9. \A n \in DOMAIN scopes[1] : ~ Clash(LabelAt(1, n))' => ~ Clash(LabelAt(1, n))
  <2> SUFFICES ASSUME NEW n \in DOMAIN scopes[1], ~ Clash(LabelAt(1, n))' PROVE ~ Clash(LabelAt(1, n))
    OBVIOUS
  <2>1. CASE n \in Handed  BY <2>1
  <2>2. CASE n \notin Handed
    <3>1. LabelAt(1, n)' = LabelAt(1, n)  BY <1>2, <2>2
    <3> QED  BY <3>1 DEF Clash
  <2> QED  BY <2>1, <2>2
<1>10. UsesNamed'
  <2>1. \A u \in Uses : log[u].name[2] \in Names /\ log[u].id \in 1 .. Len(labels)
    BY DEF OperandsInv, UsesNamed
  <2> QED  BY <1>3, <1>5, <1>6, <2>1 DEF UsesNamed
<1>11. Inside'
  <2> SUFFICES ASSUME NEW u \in Uses', NEW k \in 1 .. Len(scopes'), NEW n \in DOMAIN scopes'[k],
                      log'[u].id = scopes'[k][n]
               PROVE  log'[u].name = n /\ Encloses(ProcAt(k), u)'
    BY Zenon DEF Inside
  <2>0. u \in Uses /\ log'[u] = log[u] /\ k \in 1 .. K - 1 /\ k \in 1 .. K /\ u \in 1 .. Len(log)
    BY <1>1, <1>3, <1>6
  <2> PICK q : q = ProcAt(k) /\ q = ProcAt(k)'  BY <1>5, <2>0
  <2>1. CASE n \in DOMAIN scopes[k] /\ scopes'[k][n] = scopes[k][n]
    <3>1. log[u].name = n /\ Encloses(ProcAt(k), u)  BY <1>1, <2>0, <2>1 DEF OperandsInv, Inside
    <3>2. Encloses(q, u)  BY <3>1
    <3>3. Encloses(q, u)'  BY <2>0, <3>2, AroundIs
    <3> QED  BY <2>0, <3>1, <3>3 DEF Encloses
  <2>2. CASE k = 1 /\ n \in DOMAIN scopes[K] /\ scopes'[1][n] = scopes[K][n]
    <3>1. log[u].name = n  BY <1>1, <1>5, <2>0, <2>2 DEF OperandsInv, Inside
    <3>2. q = 0  BY <2>2 DEF ProcAt
    <3> QED  BY <2>0, <3>1, <3>2 DEF Encloses
  <2> QED  BY <1>7, <2>0, <2>1, <2>2
<1>12. NoneAround'
  <2> SUFFICES ASSUME NEW k \in 2 .. Len(scopes'), NEW n \in DOMAIN scopes'[k],
                      ~ LabelAt(k, n)'.local, ~ Clash(LabelAt(k, n))',
                      NEW j \in 1 .. k - 1, n \in DOMAIN scopes'[j]
               PROVE  j = 1 /\ Clash(LabelAt(1, n))'
    BY Zenon DEF NoneAround
  <2>0. k \in 2 .. K - 1 /\ j \in 1 .. K - 1 /\ k \in 2 .. K  BY <1>1
  <2>1. /\ n \in DOMAIN scopes[k] /\ LabelAt(k, n)' = LabelAt(k, n)  BY <1>1, <2>0
  <2>2. ~ LabelAt(k, n).local /\ ~ Clash(LabelAt(k, n))  BY <2>1 DEF Clash
  <2>3. \A i \in 1 .. k - 1 : n \in DOMAIN scopes[i] => i = 1 /\ Clash(LabelAt(1, n))
    BY <1>1, <2>0, <2>1, <2>2 DEF OperandsInv, NoneAround
  <2>4. CASE n \in DOMAIN scopes[j]
    <3>1. j = 1 /\ Clash(LabelAt(1, n))  BY <2>3, <2>4
    <3>2. n \notin Handed /\ LabelAt(1, n)' = LabelAt(1, n)  BY <1>2, <2>4, <3>1
    <3> QED  BY <3>1, <3>2 DEF Clash
  <2>5. CASE j = 1 /\ n \in Handed /\ n \notin DOMAIN scopes[1]
    <3>1. Clash(LabelAt(K, n))  BY <1>8, <2>0, <2>1, <2>5
    <3>2. LabelAt(1, n)'.value = LabelAt(K, n).value  BY <1>2, <2>5
    <3> QED  BY <2>5, <3>1, <3>2 DEF Clash
  <2> QED  BY <1>7, <2>0, <2>4, <2>5
<1>13. Waits'
  <2> SUFFICES ASSUME NEW u \in Uses', NEW k \in 1 .. Len(scopes'), NEW n \in DOMAIN scopes'[k],
                      log'[u].id = scopes'[k][n], ~ Clash(LabelAt(k, n))'
               PROVE  InReach(u, ProcAt(k))'
    BY Zenon DEF Waits
  <2>0. u \in Uses /\ log'[u] = log[u] /\ k \in 1 .. K - 1 /\ k \in 1 .. K /\ u \in 1 .. Len(log)
    BY <1>1, <1>3, <1>6
  <2> PICK q : q = ProcAt(k) /\ q = ProcAt(k)'  BY <1>5, <2>0
  <2>1. InReach(u, q)
    <3>1. CASE n \in DOMAIN scopes[k] /\ scopes'[k][n] = scopes[k][n]
      <4>1. ~ Clash(LabelAt(k, n))
        <5>1. CASE k = 1  BY <1>9, <3>1, <5>1
        <5>2. CASE k # 1
          <6>1. LabelAt(k, n)' = LabelAt(k, n)  BY <1>1, <1>5, <2>0, <3>1, <5>2
          <6> QED  BY <6>1 DEF Clash
        <5> QED  BY <5>1, <5>2
      <4>2. InReach(u, ProcAt(k))  BY <1>1, <2>0, <3>1, <4>1 DEF OperandsInv, Waits
      <4> QED  BY <4>2
    <3>2. CASE k = 1 /\ n \in Handed /\ scopes'[1][n] = scopes[K][n]
      <4>1. LabelAt(1, n)'.value = LabelAt(K, n).value  BY <1>2, <3>2
      <4>2. ~ Clash(LabelAt(K, n))  BY <3>2, <4>1 DEF Clash
      <4>3. InReach(u, 0)  BY <1>8, <2>0, <3>2, <4>2
      <4>4. q = 0  BY <3>2 DEF ProcAt
      <4> QED  BY <4>3, <4>4
    <3> QED  BY <1>7, <2>0, <3>1, <3>2
  <2>2. InReach(u, q)'  BY <2>0, <2>1, AroundIs
  <2> QED  BY <2>2 DEF InReach
<1>14. Before'
  <2> SUFFICES ASSUME NEW u \in Uses', NEW d \in Where("label")', NEW k \in 2 .. Len(scopes'),
                      NEW n \in DOMAIN scopes'[1], log'[u].id = scopes'[1][n], ~ Clash(LabelAt(1, n))',
                      log'[d].name = n, Belongs(d, k)'
               PROVE  u < d
    BY Zenon DEF Before
  <2>0. /\ u \in Uses /\ log'[u] = log[u] /\ d \in Where("label") /\ log'[d] = log[d] /\ d \in 1 .. Len(log)
        /\ k \in 2 .. K - 1 /\ k \in 2 .. K /\ k \in 1 .. K
    BY <1>1, <1>3, <1>6
  <2>1. Belongs(d, k) /\ log[d].name = n  BY <1>4, <2>0
  <2>2. CASE n \in DOMAIN scopes[1] /\ scopes'[1][n] = scopes[1][n]
    <3>1. ~ Clash(LabelAt(1, n))  BY <1>9, <2>2
    <3> QED  BY <1>1, <2>0, <2>1, <2>2, <3>1 DEF OperandsInv, Before
  <2>3. CASE n \in Handed
    <3>1. LabelAt(1, n)'.value = LabelAt(K, n).value  BY <1>2, <2>3
    <3>2. ~ Clash(LabelAt(K, n))  BY <3>1 DEF Clash
    <3>3. n \notin DOMAIN scopes[k] /\ n \in DOMAIN scopes[K]  BY <1>8, <2>0, <2>3, <3>2
    <3>4. n[2] \in Names  BY <1>1, <1>5, <3>3 DEF TypeInv, LabelsOK
    <3>5. n \in DOMAIN scopes[k]  BY <1>1, <2>0, <2>1, <3>4 DEF ScopesInv, DeclarationsKnown
    <3> QED  BY <3>3, <3>5
  <2> QED  BY <1>5, <1>7, <2>2, <2>3
<1>15. Traced'
  <2> SUFFICES ASSUME NEW k \in 1 .. Len(scopes'), NEW n \in DOMAIN scopes'[k], Clash(LabelAt(k, n))'
               PROVE  \E d \in Where("label")' :
                         log'[d].name = n /\ Belongs(d, k)' /\ LabelAt(k, n)'.value = log'[d].addr
    BY Zenon DEF Traced
  <2>0. k \in 1 .. K - 1 /\ k \in 1 .. K  BY <1>1
  <2>1. ASSUME NEW j \in 1 .. K, n \in DOMAIN scopes[j], Clash(LabelAt(j, n)),
               LabelAt(k, n)'.value = LabelAt(j, n).value,
               \A d \in 1 .. Len(log) : log[d].name = n /\ Belongs(d, j) => Belongs(d, k)'
        PROVE  \E d \in Where("label")' :
                  log'[d].name = n /\ Belongs(d, k)' /\ LabelAt(k, n)'.value = log'[d].addr
    <3>1. PICK d \in Where("label") : log[d].name = n /\ Belongs(d, j) /\ LabelAt(j, n).value = log[d].addr
      BY <1>1, <2>1 DEF OperandsInv, Traced
    <3>2. d \in 1 .. Len(log) /\ log'[d] = log[d] /\ d \in Where("label")'  BY <1>3
    <3> QED  BY <2>1, <3>1, <3>2
  <2>2. CASE k # 1
    <3>1. k \in 2 .. K - 1 /\ n \in DOMAIN scopes[k] /\ LabelAt(k, n)' = LabelAt(k, n)
      BY <1>1, <1>5, <2>0, <2>2
    <3>2. Clash(LabelAt(k, n))  BY <3>1 DEF Clash
    <3>3. \A d \in 1 .. Len(log) : Belongs(d, k) => Belongs(d, k)'  BY <1>4, <3>1
    <3> QED  BY <2>0, <2>1, <3>1, <3>2, <3>3
  <2>3. CASE k = 1 /\ n \in Handed
    <3>1. LabelAt(k, n)'.value = LabelAt(K, n).value /\ n \in DOMAIN scopes[K]  BY <1>2, <1>8, <2>3
    <3>2. Clash(LabelAt(K, n))  BY <3>1 DEF Clash
    <3>3. \A d \in 1 .. Len(log) : log[d].name = n /\ Belongs(d, K) => Settled(d)'
      BY <1>4, <1>8, <2>3
    <3>4. \A d \in 1 .. Len(log) : Belongs(d, k)' <=> Settled(d)'  BY <2>3 DEF Belongs
    <3> QED  BY <1>5, <2>1, <3>1, <3>2, <3>3, <3>4
  <2>4. CASE k = 1 /\ n \notin Handed
    <3>1. n \in DOMAIN scopes[1] /\ LabelAt(k, n)' = LabelAt(k, n)  BY <1>2, <2>4
    <3>2. Clash(LabelAt(1, n)) /\ LabelAt(k, n)'.value = LabelAt(1, n).value  BY <2>4, <3>1 DEF Clash
    <3>3. \A d \in 1 .. Len(log) : Belongs(d, 1) => Settled(d)'  BY <1>4 DEF Belongs
    <3>4. \A d \in 1 .. Len(log) : Belongs(d, k)' <=> Settled(d)'  BY <2>4 DEF Belongs
    <3> QED  BY <1>5, <2>1, <3>1, <3>2, <3>3, <3>4
  <2> QED  BY <2>2, <2>3, <2>4
<1>16. Waiting'
  <2> SUFFICES ASSUME NEW u \in Uses', ~ Clash(LabelOf(u))'
               PROVE  \E k \in 1 .. Len(scopes') : \E n \in DOMAIN scopes'[k] : scopes'[k][n] = log'[u].id
    BY Zenon DEF Waiting
  <2>0. u \in Uses /\ log'[u] = log[u]  BY <1>3, <1>6
  <2>1. ~ Clash(LabelOf(u))
    <3>1. LabelOf(u)' = LabelOf(u) \/ ~ Clash(LabelOf(u))  BY <1>6, <2>0
    <3> QED  BY <3>1 DEF Clash
  <2>2. PICK k \in 1 .. K : \E n \in DOMAIN scopes[k] : scopes[k][n] = log[u].id
    BY <1>1, <2>0, <2>1 DEF OperandsInv, Waiting
  <2>3. PICK n \in DOMAIN scopes[k] : scopes[k][n] = log[u].id  BY <2>2
  <2>4. CASE k # K
    <3>1. k \in 1 .. Len(scopes')  BY <1>1, <2>4
    <3>2. n \in DOMAIN scopes'[k] /\ scopes'[k][n] = scopes[k][n]
      <4>1. CASE k = 1  BY <1>2, <4>1
      <4>2. CASE k # 1  BY <1>1, <1>5, <3>1, <4>2
      <4> QED  BY <4>1, <4>2
    <3> QED  BY <2>0, <2>3, <3>1, <3>2
  <2>5. CASE k = K
    <3>1. LabelAt(K, n) = LabelOf(u) /\ ~ Clash(LabelAt(K, n))  BY <2>1, <2>3, <2>5 DEF LabelAt, LabelOf
    <3>2. n \in Handed
      <4>1. Last(scopes) = scopes[K]  BY <1>1 DEF Last
      <4>2. n \notin Missing  OBVIOUS
      <4>3. ~ LabelAt(K, n).local  BY <2>5, <3>1, <4>1, <4>2 DEF Missing, LabelAt, Clash
      <4> QED  BY <1>1, <2>5, <4>3
    <3>3. n \notin DOMAIN scopes[1]  BY <1>8, <3>1, <3>2
    <3>4. n \in DOMAIN scopes'[1] /\ scopes'[1][n] = scopes[K][n]  BY <1>2, <3>2, <3>3
    <3>5. 1 \in 1 .. Len(scopes')  BY <1>1
    <3> QED  BY <2>0, <2>3, <2>5, <3>4, <3>5
  <2> QED  BY <2>4, <2>5
<1>17. Answered'
  <2>1. NextProcs /\ Answered /\ Steady  BY <1>6, ExitType DEF OperandsInv
  <2>2. \A u \in Uses : Clash(LabelOf(u))' =>
           \E d \in Where("label")' : Means(u, d)' /\ LabelOf(u)'.value = log'[d].addr
    BY <2>1, AnsweredNext
  <2> QED  BY <1>3, <2>2 DEF Answered
<1> QED  BY <1>10, <1>11, <1>12, <1>13, <1>14, <1>15, <1>16, <1>17 DEF OperandsInv

\* Nothing is read: nothing changes for the operands.
LEMMA SameOperands ==
    ASSUME OperandsInv, kit' = kit, UNCHANGED <<labels, scopes, procs, log>>
    PROVE  OperandsInv' /\ Steady
<1>1. labels' = labels /\ scopes' = scopes /\ procs' = procs /\ log' = log /\ Names' = Names
  BY DEF Names
<1>2. /\ \A d : ProcOf(d)' = ProcOf(d) /\ (Settled(d)' <=> Settled(d))
      /\ \A n, p, u : LocalIn(n, p, u)' <=> LocalIn(n, p, u)
      /\ \A p, u : Encloses(p, u)' <=> Encloses(p, u)
      /\ \A w : Where(w)' = Where(w)
  BY <1>1 DEF ProcOf, Settled, Hidden, LocalIn, End, Where, Encloses
<1>3. /\ Uses' = Uses /\ Where("label")' = Where("label")
      /\ \A k : ProcAt(k)' = ProcAt(k)
      /\ \A u : LabelOf(u)' = LabelOf(u)
      /\ \A k, n : LabelAt(k, n)' = LabelAt(k, n)
      /\ \A d, k : Belongs(d, k)' <=> Belongs(d, k)
      /\ \A u, q : InReach(u, q)' <=> InReach(u, q)
  BY <1>1, <1>2 DEF Uses, ProcAt, LabelOf, LabelAt, Belongs, InReach
<1>4. /\ \A u, d : Means(u, d)' <=> Means(u, d)
      /\ \A u : Clash(LabelOf(u))' <=> Clash(LabelOf(u))
      /\ \A k, n : Clash(LabelAt(k, n))' <=> Clash(LabelAt(k, n))
      /\ \A k, u : InReach(u, ProcAt(k))' <=> InReach(u, ProcAt(k))
      /\ \A k, u : Encloses(ProcAt(k), u)' <=> Encloses(ProcAt(k), u)
  BY <1>1, <1>2, <1>3 DEF Means, Clash, InReach, Encloses
<1>5. Steady  BY <1>3, <1>4 DEF Steady
<1>6. UsesNamed' /\ Inside'  BY <1>1, <1>3, <1>4 DEF OperandsInv, UsesNamed, Inside
<1>7. NoneAround'  BY <1>1, <1>3, <1>4 DEF OperandsInv, NoneAround
<1>8. Waits'  BY <1>1, <1>3, <1>4 DEF OperandsInv, Waits
<1>9. Before'  BY <1>1, <1>3, <1>4 DEF OperandsInv, Before
<1>10. Traced'  BY <1>1, <1>3, <1>4 DEF OperandsInv, Traced
<1>11. Waiting'  BY <1>1, <1>3, <1>4 DEF OperandsInv, Waiting
<1>12. Answered'  BY <1>1, <1>3, <1>4 DEF OperandsInv, Answered
<1> QED  BY <1>5, <1>6, <1>7, <1>8, <1>9, <1>10, <1>11, <1>12 DEF OperandsInv

---------------------------
(* The statements. *)

\* A label that becomes a local one.
LEMMA LocalWith ==
    ASSUME NEW l, IsLabel(l)
    PROVE  \A v : /\ IsLabel([l EXCEPT !.local = v]) /\ [l EXCEPT !.local = v].local = v
                  /\ [l EXCEPT !.local = v].value = l.value /\ [l EXCEPT !.local = v].dir = l.dir
<1> SUFFICES ASSUME NEW v
             PROVE  /\ IsLabel([l EXCEPT !.local = v]) /\ [l EXCEPT !.local = v].local = v
                    /\ [l EXCEPT !.local = v].value = l.value /\ [l EXCEPT !.local = v].dir = l.dir
  OBVIOUS
<1>1. PICK a, b, c, d, e, f :
         l = [name |-> a, value |-> b, local |-> c, dir |-> d, file |-> e, line |-> f]
  BY DEF IsLabel
<1>2. [l EXCEPT !.local = v] = [name |-> a, value |-> b, local |-> v, dir |-> d, file |-> e, line |-> f]
  BY <1>1
<1> QED  BY <1>1, <1>2 DEF IsLabel

\* LOCAL marks the label.
LEMMA LocalTrue ==
    ASSUME NEW l, IsLabel(l)
    PROVE  /\ IsLabel([l EXCEPT !.local = TRUE]) /\ [l EXCEPT !.local = TRUE].local
           /\ [l EXCEPT !.local = TRUE].value = l.value /\ [l EXCEPT !.local = TRUE].dir = l.dir
<1>1. \A v : /\ IsLabel([l EXCEPT !.local = v]) /\ [l EXCEPT !.local = v].local = v
             /\ [l EXCEPT !.local = v].value = l.value /\ [l EXCEPT !.local = v].dir = l.dir
  BY LocalWith
<1>2. /\ IsLabel([l EXCEPT !.local = TRUE]) /\ [l EXCEPT !.local = TRUE].local = TRUE
      /\ [l EXCEPT !.local = TRUE].value = l.value /\ [l EXCEPT !.local = TRUE].dir = l.dir
  BY <1>1, Zenon
<1> QED  BY <1>2, Zenon

\* A label that gets a value.
LEMMA ValueOne ==
    ASSUME NEW l, IsLabel(l), NEW v
    PROVE  \E m : m = [l EXCEPT !.value = v] /\ IsLabel(m) /\ m.value = v /\ m.dir = l.dir
<1>1. PICK a, b, c, d, e, f :
         l = [name |-> a, value |-> b, local |-> c, dir |-> d, file |-> e, line |-> f]
  BY DEF IsLabel
<1> PICK m : m = [name |-> a, value |-> v, local |-> c, dir |-> d, file |-> e, line |-> f]  OBVIOUS
<1>2. m = [l EXCEPT !.value = v]  BY <1>1
<1>3. IsLabel(m) /\ m.value = v /\ m.dir = l.dir  BY <1>1 DEF IsLabel
<1> QED  BY <1>2, <1>3

\* What a new label is.
LEMMA NewLabel ==
    \A name, value, dir :
       \E l : /\ l = Label(name, value, dir) /\ IsLabel(l)
              /\ l.value = value /\ l.dir = dir /\ l.local = FALSE
<1> SUFFICES ASSUME NEW name, NEW value, NEW dir
             PROVE  \E l : /\ l = Label(name, value, dir) /\ IsLabel(l)
                           /\ l.value = value /\ l.dir = dir /\ l.local = FALSE
  OBVIOUS
<1> PICK l : l = Label(name, value, dir)  OBVIOUS
<1>1. l.value = value /\ l.dir = dir /\ l.local = FALSE  BY DEF Label
<1>2. IsLabel(l)  BY LabelIs, Zenon
<1> QED  BY <1>1, <1>2

\* LOCAL puts a local label.
LEMMA LocalPuts ==
    ASSUME TypeInv, NEW n \in Names, LocalLabel(n)
    PROVE  \E name, note :
              /\ name = Qualified(n) /\ note = Note("local", name, None) /\ name[2] \in Names
              /\ note.what = "local" /\ note.name = name /\ note.procs = procs
              /\ log' = Append(log, note) /\ procs' = procs /\ Puts(name, note)
<1> PICK K : K = Len(scopes)  OBVIOUS
<1> PICK name : name = Qualified(n)  OBVIOUS
<1> PICK note : note = Note("local", name, None)  OBVIOUS
<1>2. /\ log' = Append(log, note) /\ procs' = procs
      /\ IF name \in DOMAIN Last(scopes) THEN
            /\ labels' = [labels EXCEPT ![Last(scopes)[name]].local = TRUE]
            /\ UNCHANGED scopes
         ELSE
            /\ labels' = Append(labels, [Label(name, None, 0) EXCEPT !.local = TRUE])
            /\ scopes' = [scopes EXCEPT ![Len(scopes)] = Put(Last(scopes), name, Len(labels'))]
  BY DEF LocalLabel, Read
<1>3. name[2] \in Names /\ note.what = "local" /\ note.name = name /\ note.procs = procs
  BY DEF Note, Qualified
<1>5. /\ K \in 1 .. Len(scopes) /\ Last(scopes) = scopes[K]
      /\ name \in DOMAIN Last(scopes) =>
            labels[Last(scopes)[name]] = LabelAt(K, name) /\ IsLabel(LabelAt(K, name))
  BY Innermost
<1>6. CASE name \in DOMAIN Last(scopes)
  <2> PICK old : old = LabelAt(K, name)  OBVIOUS
  <2>1. IsLabel(old)  BY <1>5, <1>6
  <2> PICK l : l = [old EXCEPT !.local = TRUE]  OBVIOUS
  <2>2. IsLabel(l) /\ l.local /\ l.value = old.value /\ l.dir = old.dir
    <3>1. \A m : m = l => IsLabel(m) /\ m.local /\ m.value = old.value /\ m.dir = old.dir
      BY <2>1, LocalTrue, Zenon
    <3> QED  BY <3>1, Zenon
  <2>3. labels' = [labels EXCEPT ![Last(scopes)[name]] = l]  BY <1>2, <1>5, <1>6, <2>2
  <2>4. PutLabel(name, l)  BY <1>2, <1>6, <2>3 DEF PutLabel
  <2>5. Placing(name, l, note, K)  BY <1>3, <1>5, <1>6, <2>2 DEF Placing
  <2>6. Puts(name, note)  BY <1>6, <2>2, <2>4, <2>5 DEF Puts
  <2> QED  BY <1>2, <1>3, <2>6
<1>7. CASE name \notin DOMAIN Last(scopes)
  <2>1. PICK new : new = Label(name, None, 0) /\ IsLabel(new) /\ new.value = None /\ new.dir = 0
    BY NewLabel
  <2> PICK l : l = [new EXCEPT !.local = TRUE]  OBVIOUS
  <2>2. IsLabel(l) /\ l.local /\ l.value = None /\ l.dir = 0
    <3>1. \A m : m = l => IsLabel(m) /\ m.local /\ m.value = new.value /\ m.dir = new.dir
      BY <2>1, LocalTrue, Zenon
    <3> QED  BY <2>1, <3>1, Zenon
  <2>3. PutLabel(name, l)  BY <1>2, <1>7, <2>1, <2>2 DEF PutLabel
  <2>4. ~ Clash(l) /\ name \notin DOMAIN scopes[K]  BY <1>5, <1>7, <2>2 DEF Clash, Undefined
  <2>5. Placing(name, l, note, K)  BY <1>3, <2>2, <2>4 DEF Placing
  <2>6. Puts(name, note)
    <3>1. \E m : IsLabel(m) /\ m.dir = 0 /\ PutLabel(name, m) /\ Placing(name, m, note, K)
      BY <2>2, <2>3, <2>5, Zenon
    <3> HIDE <2>2, <2>3, <2>5
    <3> QED  BY <1>7, <3>1 DEF Puts
  <2> QED  BY <1>2, <1>3, <2>6
<1> QED  BY <1>6, <1>7

\* A declaration puts one with its address, unless it is a duplicate.
LEMMA DeclarePuts ==
    ASSUME TypeInv, NEW n \in Names, DeclareLabel(n), Quiet'
    PROVE  \E name, note :
              /\ name = Qualified(n) /\ note = Note("label", name, None) /\ name[2] \in Names
              /\ note.what = "label" /\ note.name = name /\ note.procs = procs /\ note.addr = index
              /\ log' = Append(log, note) /\ procs' = procs /\ Puts(name, note)
<1> PICK K : K = Len(scopes)  OBVIOUS
<1> PICK name : name = Qualified(n)  OBVIOUS
<1> PICK note : note = Note("label", name, None)  OBVIOUS
<1>2. /\ log' = Append(log, note) /\ procs' = procs
      /\ IF name \in DOMAIN Last(scopes) THEN
            /\ labels' = [labels EXCEPT ![Last(scopes)[name]] = Define(@, index)]
            /\ errors' = errors \union (IF Clash(labels[Last(scopes)[name]]) THEN {"duplicate"} ELSE {})
            /\ UNCHANGED scopes
         ELSE
            /\ labels' = Append(labels, Label(name, index, 0))
            /\ scopes' = [scopes EXCEPT ![Len(scopes)] = Put(Last(scopes), name, Len(labels'))]
            /\ UNCHANGED errors
  BY DEF DeclareLabel, Read
<1>3. name[2] \in Names /\ note.what = "label" /\ note.name = name /\ note.procs = procs /\ note.addr = index
  BY DEF Note, Qualified
<1>4. index # None  BY DEF TypeInv, None
<1>5. /\ K \in 1 .. Len(scopes) /\ Last(scopes) = scopes[K]
      /\ name \in DOMAIN Last(scopes) =>
            /\ Last(scopes)[name] \in DOMAIN labels
            /\ labels[Last(scopes)[name]] = LabelAt(K, name) /\ IsLabel(LabelAt(K, name))
  BY Innermost
<1>6. CASE name \in DOMAIN Last(scopes)
  <2> PICK old : old = LabelAt(K, name)  OBVIOUS
  <2>1. IsLabel(old) /\ labels[Last(scopes)[name]] = old /\ Last(scopes)[name] \in DOMAIN labels  BY <1>5, <1>6
  <2>2. PICK l : l = [old EXCEPT !.value = index] /\ IsLabel(l) /\ l.value = index /\ l.dir = old.dir
    BY <2>1, ValueOne
  <2>3. labels' = [labels EXCEPT ![Last(scopes)[name]] = l]  BY <1>2, <1>6, <2>1, <2>2 DEF Define
  <2>4. PutLabel(name, l)  BY <1>2, <1>6, <2>3 DEF PutLabel
  <2>5. ~ Clash(old)  BY <1>2, <1>6, <2>1 DEF Quiet
  <2>6. Clash(l)  BY <1>4, <2>2 DEF Clash, Undefined
  <2>7. Placing(name, l, note, K)  BY <1>3, <1>5, <1>6, <2>2, <2>5, <2>6 DEF Placing
  <2>8. Puts(name, note)  BY <1>6, <2>2, <2>4, <2>7 DEF Puts
  <2> QED  BY <1>2, <1>3, <2>8
<1>7. CASE name \notin DOMAIN Last(scopes)
  <2>1. PICK l : l = Label(name, index, 0) /\ IsLabel(l) /\ l.value = index /\ l.dir = 0
    BY NewLabel
  <2>2. PutLabel(name, l)  BY <1>2, <1>7, <2>1 DEF PutLabel
  <2>3. Clash(l) /\ name \notin DOMAIN scopes[K]  BY <1>4, <1>5, <1>7, <2>1 DEF Clash, Undefined
  <2>4. Placing(name, l, note, K)  BY <1>3, <2>1, <2>3 DEF Placing
  <2>5. Puts(name, note)  BY <1>7, <2>1, <2>2, <2>4 DEF Puts
  <2> QED  BY <1>2, <1>3, <2>5
<1> QED  BY <1>6, <1>7

\* No place is above the highest one.
LEMMA TopIs ==
    ASSUME NEW m \in Nat, NEW S \in SUBSET (1 .. m), S # {}
    PROVE  \A y \in S : y <= Highest(S)
<1>1. S \in SUBSET (0 .. m)  OBVIOUS
<1>2. PICK x \in S : \A y \in S : x >= y  BY <1>1, GreatestExists
<1>3. \A y \in S : Highest(S) >= y  BY <1>2 DEF Highest
<1>4. Highest(S) \in 1 .. m  BY HighestIs
<1> QED  BY <1>3, <1>4

\* The first use of a name puts one without a value; another use reaches one.
LEMMA UsePuts ==
    ASSUME TypeInv, NEW n \in Names, UseLabel(n)
    PROVE  \E name, note, id :
              /\ name = Qualified(n) /\ note = Note("use", name, id) /\ name[2] \in Names
              /\ note.what = "use" /\ note.name = name /\ note.procs = procs /\ note.id = id
              /\ id = IF Known(name) = 0 THEN Len(labels) + 1 ELSE scopes[Known(name)][name]
              /\ log' = Append(log, note) /\ procs' = procs
              /\ \/ Known(name) = 0 /\ Puts(name, note)
                 \/ Known(name) # 0 /\ labels' = labels /\ scopes' = scopes /\ Reaches(note, Known(name))
<1> PICK K : K = Len(scopes)  OBVIOUS
<1> PICK name : name = Qualified(n)  OBVIOUS
<1> PICK at : at = Known(name)  OBVIOUS
<1> PICK id : id = IF at = 0 THEN Len(labels) + 1 ELSE scopes[at][name]  OBVIOUS
<1> PICK note : note = Note("use", name, id)  OBVIOUS
<1>2. /\ log' = Append(log, note) /\ procs' = procs
      /\ IF at = 0 THEN
            /\ labels' = Append(labels, Label(name, None, 0))
            /\ scopes' = [scopes EXCEPT ![Len(scopes)] = Put(@, name, Len(labels) + 1)]
         ELSE UNCHANGED <<labels, scopes>>
  BY DEF UseLabel, Read
<1>3. name[2] \in Names /\ note.what = "use" /\ note.name = name /\ note.procs = procs /\ note.id = id
  BY DEF Note, Qualified
<1>5. K \in 1 .. Len(scopes) /\ DOMAIN scopes = 1 .. K /\ Last(scopes) = scopes[K]
  BY Innermost
<1> PICK S : S = {k \in DOMAIN scopes : name \in DOMAIN scopes[k]}  OBVIOUS
<1>6. /\ K \in Nat /\ S \in SUBSET (1 .. K) /\ at = IF S = {} THEN 0 ELSE Highest(S)
  BY <1>5 DEF Known
<1>7. S # {} => at \in S /\ \A k \in S : k <= at
  <2>1. S # {} => Highest(S) \in S  BY <1>6, HighestIs
  <2>2. S # {} => \A k \in S : k <= Highest(S)  BY <1>6, TopIs
  <2> QED  BY <1>6, <2>1, <2>2
<1>8. CASE at = 0
  <2>1. \A k \in 1 .. Len(scopes) : name \notin DOMAIN scopes[k]
    <3>1. S = {}  BY <1>6, <1>7, <1>8
    <3> QED  BY <1>5, <3>1
  <2>2. PICK l : l = Label(name, None, 0) /\ IsLabel(l) /\ l.value = None /\ l.dir = 0
    BY NewLabel
  <2>3. PutLabel(name, l)
    <3>1. Len(labels') = Len(labels) + 1
      <4>1. IsSeq(labels)  BY DEF TypeInv, LabelsOK
      <4> QED  BY <1>2, <1>8, <4>1, AppendIs
    <3>2. name \notin DOMAIN Last(scopes)  BY <1>5, <2>1
    <3>3. scopes' = [scopes EXCEPT ![Len(scopes)] = Put(Last(scopes), name, Len(labels'))]
      BY <1>2, <1>5, <1>8, <3>1
    <3> QED  BY <1>2, <1>8, <2>2, <3>2, <3>3 DEF PutLabel
  <2>4. ~ Clash(l)  BY <2>2 DEF Clash, Undefined
  <2>5. Placing(name, l, note, K)  BY <1>3, <1>8, <2>1, <2>4 DEF Placing
  <2>6. Puts(name, note)  BY <1>5, <2>1, <2>2, <2>3, <2>5 DEF Puts
  <2> QED  BY <1>2, <1>3, <1>8, <2>6
<1>9. CASE at # 0
  <2>1. at \in S /\ \A k \in S : k <= at  BY <1>6, <1>7, <1>9
  <2>2. Reaches(note, at)  BY <1>3, <1>5, <1>9, <2>1 DEF Reaches
  <2> QED  BY <1>2, <1>3, <1>9, <2>2
<1> QED  BY <1>8, <1>9

\* Errors are not taken back.
LEMMA ErrorsStay ==
    ASSUME DuplicatesInv, [Next]_vars
    PROVE  errors \subseteq errors'
<1>1. CASE UNCHANGED vars  BY <1>1 DEF vars
<1>2. CASE Next
  <2>1. ASSUME Finish PROVE errors \subseteq errors'  BY <2>1 DEF Finish
  <2>2. ASSUME ExitProc PROVE errors \subseteq errors'  BY <2>2, Zenon DEF ExitProc
  <2>3. ASSUME EnterProc \/ AddEmpty \/ PopNamespace PROVE errors \subseteq errors'
    BY <2>3 DEF EnterProc, AddEmpty, PopNamespace
  <2>4. ASSUME NEW n \in Names, LocalLabel(n) \/ DeclareLabel(n) \/ UseLabel(n)
        PROVE  errors \subseteq errors'
    <3>1. errors' = errors \/ \E S : errors' = errors \union S
      BY <2>4, Zenon DEF LocalLabel, DeclareLabel, UseLabel
    <3> QED  BY <3>1
  <2>5. ASSUME NEW t \in Temporaries, DeclareTemporary(t) PROVE errors \subseteq errors'
    BY <2>5, Zenon DEF DeclareTemporary
  <2>6. ASSUME NEW t \in Temporaries, NEW dir \in {-1, 1}, UseTemporary(t, dir) PROVE errors \subseteq errors'
    BY <2>6, Zenon DEF UseTemporary
  <2>7. ASSUME NEW a \in Origins, SetOrg(a) PROVE errors \subseteq errors'  BY <2>7 DEF SetOrg
  <2>8. ASSUME NEW l \in Lines, NEW f \in Files, LineDirective(l, f) PROVE errors \subseteq errors'
    BY <2>8 DEF LineDirective
  <2>9. ASSUME NEW ns \in Namespaces, PushNamespace(ns) PROVE errors \subseteq errors'
    BY <2>9 DEF PushNamespace
  <2> QED  BY <1>2, <2>1, <2>2, <2>3, <2>4, <2>5, <2>6, <2>7, <2>8, <2>9 DEF Next, Statement
<1> QED  BY <1>1, <1>2

\* ENDP keeps what is known of operands, unless it reports a label.
LEMMA ExitKnown ==
    ASSUME OperandsKnown, kit' = kit, ExitProc, Quiet, Quiet'
    PROVE  OperandsInv' /\ Steady
<1>1. TypeInv /\ Nested /\ ScopesInv /\ OperandsInv  BY DEF OperandsKnown, DuplicatesInv
<1> PICK note : note = Note("endp", NoName, None)  OBVIOUS
<1>2. log' = Append(log, note) /\ note.procs = procs /\ note.what = "endp"
  BY DEF ExitProc, Read, Note
<1>3. CASE Len(scopes) = 1
  <2>1. scopes' = scopes /\ procs' = procs /\ labels' = labels  BY <1>3 DEF ExitProc
  <2>2. PICK l : IsLabel(l)  BY LabelIs
  <2> QED  BY <1>1, <1>2, <2>1, <2>2, OtherOperands
<1>4. CASE Len(scopes) # 1
  <2>1. errors' = errors
           \union (IF \E n \in Handed : n \in DOMAIN scopes[1] /\ Clash(LabelAt(1, n))
                   THEN {"duplicate"} ELSE {})
           \union (IF Missing # {} THEN {"undefined local"} ELSE {})
    BY <1>1, <1>4, ExitIs
  <2>2. Missing = {} /\ \A n \in Handed : n \in DOMAIN scopes[1] => ~ Clash(LabelAt(1, n))
    BY <2>1 DEF Quiet
  <2>3. Steady  BY <1>1, <1>2, <1>4, <2>2, ExitSteady
  <2>4. OperandsInv'  BY <1>1, <1>2, <1>4, <2>2, ExitOperands
  <2> QED  BY <2>3, <2>4
<1> QED  BY <1>3, <1>4

\* So do the statements about names.
LEMMA NamesKnown ==
    ASSUME OperandsKnown, kit' = kit, Quiet, Quiet', NEW n \in Names,
           LocalLabel(n) \/ DeclareLabel(n) \/ UseLabel(n)
    PROVE  OperandsInv' /\ Steady
<1>1. TypeInv /\ Nested /\ ScopesInv /\ OperandsInv  BY DEF OperandsKnown, DuplicatesInv
<1> PICK K : K = Len(scopes)  OBVIOUS
<1>2. ASSUME NEW name, name[2] \in Names, NEW note, note.procs = procs, note.name = name,
             log' = Append(log, note), procs' = procs, Puts(name, note)
      PROVE  OperandsInv' /\ Steady
  <2>1. PICK l : IsLabel(l) /\ PutLabel(name, l) /\ Placing(name, l, note, K)  BY <1>2 DEF Puts
  <2> QED  BY <1>1, <1>2, <2>1, PutOperands
<1>3. CASE LocalLabel(n)
  <2>1. PICK name, note :
              /\ name = Qualified(n) /\ note = Note("local", name, None) /\ name[2] \in Names
              /\ note.what = "local" /\ note.name = name /\ note.procs = procs
              /\ log' = Append(log, note) /\ procs' = procs /\ Puts(name, note)
    BY <1>1, <1>3, LocalPuts
  <2> QED  BY <1>2, <2>1
<1>4. CASE DeclareLabel(n)
  <2>1. PICK name, note :
              /\ name = Qualified(n) /\ note = Note("label", name, None) /\ name[2] \in Names
              /\ note.what = "label" /\ note.name = name /\ note.procs = procs /\ note.addr = index
              /\ log' = Append(log, note) /\ procs' = procs /\ Puts(name, note)
    BY <1>1, <1>4, DeclarePuts
  <2> QED  BY <1>2, <2>1
<1>5. CASE UseLabel(n)
  <2>1. PICK name, note, id :
              /\ name = Qualified(n) /\ note = Note("use", name, id) /\ name[2] \in Names
              /\ note.what = "use" /\ note.name = name /\ note.procs = procs /\ note.id = id
              /\ id = IF Known(name) = 0 THEN Len(labels) + 1 ELSE scopes[Known(name)][name]
              /\ log' = Append(log, note) /\ procs' = procs
              /\ \/ Known(name) = 0 /\ Puts(name, note)
                 \/ Known(name) # 0 /\ labels' = labels /\ scopes' = scopes /\ Reaches(note, Known(name))
    BY <1>1, <1>5, UsePuts
  <2>2. CASE Puts(name, note)  BY <1>2, <2>1, <2>2
  <2>3. CASE labels' = labels /\ scopes' = scopes /\ Reaches(note, Known(name))
    <3>1. PICK l : IsLabel(l)  BY LabelIs
    <3> QED  BY <1>1, <2>1, <2>3, <3>1, OtherOperands
  <2> QED  BY <2>1, <2>2, <2>3
<1> QED  BY <1>3, <1>4, <1>5

\* So does every statement: what an operand was given by a declaration it keeps, and
\* what it gets it gets from one that it may mean.
LEMMA OperandsNext ==
    ASSUME OperandsKnown, [Next]_vars, Quiet'
    PROVE  Quiet /\ OperandsInv' /\ Steady
<1>0. DuplicatesInv  BY DEF OperandsKnown
<1>1. Quiet
  <2>1. errors \subseteq errors'  BY <1>0, ErrorsStay
  <2> QED  BY <2>1 DEF Quiet
<1>2. TypeInv /\ Nested /\ ScopesInv /\ OperandsInv /\ kit \in Kits
  BY <1>1 DEF OperandsKnown, DuplicatesInv, TypeInv
<1>3. ASSUME kit' = kit, UNCHANGED <<labels, scopes, procs, log>> PROVE OperandsInv' /\ Steady
  BY <1>2, <1>3, SameOperands
<1>4. ASSUME NEW note, note.procs = procs, log' = Append(log, note), kit' = kit,
             UNCHANGED <<scopes, procs, labels>>, note.what \notin {"local", "label", "use"}
      PROVE  OperandsInv' /\ Steady
  <2>1. PICK l : IsLabel(l)  BY LabelIs
  <2>2. scopes' = scopes /\ procs' = procs /\ labels' = labels  BY <1>4
  <2> QED  BY <1>2, <1>4, <2>1, <2>2, OtherOperands
<1>5. CASE UNCHANGED vars
  <2>1. kit' = kit /\ UNCHANGED <<labels, scopes, procs, log>>  BY <1>5 DEF vars
  <2> QED  BY <1>1, <1>3, <2>1
<1>6. CASE Next
  <2>1. kit' = kit  BY <1>6 DEF Next
  <2>2. CASE EnterProc
    <3> PICK note : note = Note("proc", NoName, None)  OBVIOUS
    <3>1. /\ log' = Append(log, note) /\ scopes' = Append(scopes, [n \in {} |-> 0])
          /\ procs' = Append(procs, Len(log')) /\ labels' = labels
      BY <2>2 DEF EnterProc, Read
    <3>2. note.procs = procs /\ note.what = "proc"  BY DEF Note
    <3>3. procs' = Append(procs, Now)
      <4>1. Len(log') = Now  BY <1>2, <3>1, <3>2, Noted
      <4> QED  BY <3>1, <4>1
    <3> QED  BY <1>1, <1>2, <2>1, <3>1, <3>2, <3>3, EnterOperands
  <2>3. CASE ExitProc  BY <1>1, <2>1, <2>3, ExitKnown
  <2>4. CASE Finish
    <3>1. UNCHANGED <<labels, scopes, procs, log>>  BY <2>4 DEF Finish
    <3> QED  BY <1>1, <1>3, <2>1, <3>1
  <2>5. ASSUME NEW n \in Names, LocalLabel(n) \/ DeclareLabel(n) \/ UseLabel(n) PROVE OperandsInv' /\ Steady
    BY <1>1, <2>1, <2>5, NamesKnown
  <2>6. CASE AddEmpty
    <3> PICK note : note = Note("empty", NoName, None)  OBVIOUS
    <3>1. log' = Append(log, note) /\ UNCHANGED <<labels, scopes, procs>>
      BY <2>6 DEF AddEmpty, Read
    <3>2. note.what = "empty" /\ note.procs = procs  BY DEF Note
    <3> QED  BY <1>1, <1>4, <2>1, <3>1, <3>2
  <2>7. ASSUME NEW stack, SwitchNamespace(stack) PROVE OperandsInv' /\ Steady
    <3> PICK note : note = Note("namespace", NoName, None)  OBVIOUS
    <3>1. log' = Append(log, note) /\ UNCHANGED <<labels, scopes, procs>>
      BY <2>7 DEF SwitchNamespace
    <3>2. note.what = "namespace" /\ note.procs = procs  BY DEF Note
    <3> QED  BY <1>4, <2>1, <3>1, <3>2
  <2>8. CASE PopNamespace
    <3>1. \E stack : SwitchNamespace(stack)  BY <2>8, Zenon DEF PopNamespace
    <3> QED  BY <1>1, <2>7, <3>1
  <2>9. ASSUME NEW ns \in Namespaces, PushNamespace(ns) PROVE OperandsInv' /\ Steady
    <3>1. \E stack : SwitchNamespace(stack)  BY <2>9, Zenon DEF PushNamespace
    <3> QED  BY <2>7, <3>1
  <2>10. ASSUME NEW a \in Lines, NEW f \in Files, LineDirective(a, f) PROVE OperandsInv' /\ Steady
    <3> PICK note : note = Note("line", NoName, None)  OBVIOUS
    <3>1. log' = Append(log, note) /\ UNCHANGED <<labels, scopes, procs>>
      BY <2>10 DEF LineDirective
    <3>2. note.what = "line" /\ note.procs = procs  BY DEF Note
    <3> QED  BY <1>4, <2>1, <3>1, <3>2
  <2>11. ASSUME NEW a \in Origins, SetOrg(a) PROVE OperandsInv' /\ Steady
    <3> PICK note : note = Note("org", NoName, None)  OBVIOUS
    <3>1. log' = Append(log, note) /\ UNCHANGED <<labels, scopes, procs>>
      BY <2>11 DEF SetOrg, Read
    <3>2. note.what = "org" /\ note.procs = procs  BY DEF Note
    <3> QED  BY <1>4, <2>1, <3>1, <3>2
  <2>12. ASSUME NEW t \in Temporaries, DeclareTemporary(t) PROVE OperandsInv' /\ Steady
    <3> PICK note : note = Note("label", Qualified(t), None)  OBVIOUS
    <3>1. log' = Append(log, note) /\ labels' = labels /\ scopes' = scopes /\ procs' = procs
      BY <2>12 DEF DeclareTemporary, Read
    <3>2. note.what = "label" /\ note.procs = procs /\ note.name[2] = t  BY DEF Note, Qualified
    <3>3. t \notin Names  BY <1>2, AsmAssumption DEF Names, Temporaries
    <3>4. PICK l : IsLabel(l)  BY LabelIs
    <3> QED  BY <1>2, <2>1, <3>1, <3>2, <3>3, <3>4, OtherOperands
  <2>13. ASSUME NEW t \in Temporaries, NEW dir \in {-1, 1}, UseTemporary(t, dir) PROVE OperandsInv' /\ Steady
    <3> PICK note : note = Note(IF dir < 0 THEN "back" ELSE "forth", Qualified(t), Len(labels) + 1)
      OBVIOUS
    <3> PICK m : m = Label(Qualified(t), None, dir)  OBVIOUS
    <3>1. log' = Append(log, note) /\ labels' = Append(labels, m) /\ scopes' = scopes /\ procs' = procs
      BY <2>13 DEF UseTemporary, Read
    <3>2. note.what \in {"back", "forth"} /\ note.procs = procs  BY DEF Note
    <3>3. IsLabel(m)
      <4>1. IsLabel(Label(Qualified(t), None, dir))  BY LabelIs
      <4> QED  BY <4>1
    <3> QED  BY <1>2, <2>1, <3>1, <3>2, <3>3, OtherOperands
  <2>14. OperandsInv' /\ Steady
    BY <1>6, <2>2, <2>3, <2>4, <2>5, <2>6, <2>8, <2>9, <2>10, <2>11, <2>12, <2>13
    DEF Next, Statement
  <2> QED  BY <1>1, <2>14
<1> QED  BY <1>5, <1>6

\* What is known of the operands of the empty program, and of any other.
LEMMA KnownInit ==
    Init => OperandsKnown
<1> SUFFICES ASSUME Init PROVE OperandsKnown  OBVIOUS
<1>1. DuplicatesInv  BY DuplicatesInit
<1>2. log = <<>> /\ scopes = <<[n \in {} |-> 0]>>  BY DEF Init
<1>3. Uses = {} /\ Where("label") = {}  BY <1>2 DEF Uses, Where
<1>4. Len(scopes) = 1 /\ DOMAIN scopes[1] = {}  BY <1>2
<1>5. UsesNamed /\ Inside /\ Waits /\ Before /\ Waiting /\ Answered
  BY <1>3 DEF UsesNamed, Inside, Waits, Before, Waiting, Answered
<1>6. NoneAround /\ Traced  BY <1>4 DEF NoneAround, Traced
<1> QED  BY <1>1, <1>5, <1>6 DEF OperandsKnown, OperandsInv

\* What is known of the operands is kept by every statement.
LEMMA KnownNext ==
    ASSUME OperandsKnown, [Next]_vars
    PROVE  OperandsKnown'
<1>1. DuplicatesInv'  BY DuplicatesNext DEF OperandsKnown
<1>2. Quiet' => OperandsInv'  BY OperandsNext
<1> QED  BY <1>1, <1>2 DEF OperandsKnown

---------------------------
(* The memory. *)

\* What set_memory_slot does.
LEMMA SlotIs ==
    ASSUME Laid
    PROVE  /\ DOMAIN SlotAt(slots, index) = DOMAIN slots \union {index}
           /\ \A a \in DOMAIN slots : SlotAt(slots, index)[a] = slots[a]
           /\ index \notin DOMAIN slots => SlotAt(slots, index)[index] = <<>>
           /\ DOMAIN CellAt(index) = DOMAIN cells \union {index}
           /\ \A a \in DOMAIN cells : CellAt(index)[a] = cells[a]
<1>1. DOMAIN slots = DOMAIN cells  BY DEF Laid
<1>2. CASE index \in DOMAIN slots  BY <1>1, <1>2 DEF SlotAt, CellAt
<1>3. CASE index \notin DOMAIN slots
  <2>1. SlotAt(slots, index) = Put(slots, index, <<>>) /\ CellAt(index) = Put(cells, index, 0)
    BY <1>3 DEF SlotAt, CellAt
  <2>2. /\ DOMAIN Put(slots, index, <<>>) = DOMAIN slots \union {index}
        /\ \A a \in DOMAIN slots : Put(slots, index, <<>>)[a] = slots[a]
        /\ Put(slots, index, <<>>)[index] = <<>>
    BY <1>3 DEF Put
  <2>3. /\ DOMAIN Put(cells, index, 0) = DOMAIN cells \union {index}
        /\ \A a \in DOMAIN cells : Put(cells, index, 0)[a] = cells[a]
    BY <1>1, <1>3 DEF Put
  <2> QED  BY <2>1, <2>2, <2>3
<1> QED  BY <1>2, <1>3

\* A declaration adds at most an address without instructions.
LEMMA MarkGrows ==
    ASSUME Laid, slots' = SlotAt(slots, index), cells' = CellAt(index)
    PROVE  Grown
<1> PICK D : D = {index}  OBVIOUS
<1>1. DOMAIN slots = DOMAIN cells  BY DEF Laid
<1>2. /\ DOMAIN slots' = DOMAIN slots \union D /\ DOMAIN cells' = DOMAIN cells \union D
      /\ \A a \in DOMAIN slots : slots'[a] = slots[a] /\ cells'[a] = cells[a]
      /\ \A a \in D : a \notin DOMAIN slots => slots'[a] = <<>>
  BY <1>1, SlotIs
<1> QED  BY <1>2 DEF Grown

\* A statement that stores nothing adds no address.
LEMMA SameGrows ==
    ASSUME slots' = slots, cells' = cells
    PROVE  Grown
<1> PICK D : D = {}  OBVIOUS
<1>1. /\ DOMAIN slots' = DOMAIN slots \union D /\ DOMAIN cells' = DOMAIN cells \union D
      /\ \A a \in DOMAIN slots : slots'[a] = slots[a] /\ cells'[a] = cells[a]
      /\ \A a \in D : a \notin DOMAIN slots => slots'[a] = <<>>
  OBVIOUS
<1>2. D \in SUBSET {index}  OBVIOUS
<1> QED  BY <1>1, <1>2 DEF Grown

\* What add_instruction does.
LEMMA AddGives ==
    ASSUME Laid, errors = {}, NEW instr, NEW size, NEW value, AddInstruction(instr, size, value),
           NEW note, note.addr = index, note.id = instr.id
    PROVE  Given(note, instr, size, value)
<1>1. /\ slots' = [SlotAt(slots, index) EXCEPT ![index] = Append(@, instr)]
      /\ cells' = IF size = 0 THEN CellAt(index) ELSE Put(cells, index, value)
  BY DEF AddInstruction
<1>2. DOMAIN slots = DOMAIN cells  BY DEF Laid
<1> PICK s : s = SlotAt(slots, index)  OBVIOUS
<1>3. /\ DOMAIN s = DOMAIN slots \union {index} /\ \A a \in DOMAIN slots : s[a] = slots[a]
      /\ s[index] = Here
  BY SlotIs DEF Here
<1>4. slots' = [s EXCEPT ![index] = Append(s[index], instr)]  BY <1>1
<1>5. /\ DOMAIN slots' = DOMAIN slots \union {index}
      /\ \A a \in DOMAIN slots : a # index => slots'[a] = slots[a]
      /\ slots'[index] = Append(Here, instr)
  BY <1>3, <1>4
<1>6. /\ DOMAIN cells' = DOMAIN cells \union {index}
      /\ \A a \in DOMAIN cells : a # index => cells'[a] = cells[a]
      /\ IF size = 0 THEN index \in DOMAIN cells => cells'[index] = cells[index]
         ELSE cells'[index] = value
  <2>1. CASE size = 0
    <3>1. cells' = CellAt(index)  BY <1>1, <2>1
    <3>2. DOMAIN cells' = DOMAIN cells \union {index} /\ \A a \in DOMAIN cells : cells'[a] = cells[a]
      BY <3>1, SlotIs
    <3> QED  BY <2>1, <3>2
  <2>2. CASE size # 0  BY <1>1, <2>2 DEF Put
  <2> QED  BY <2>1, <2>2
<1> QED  BY <1>2, <1>5, <1>6 DEF Given

\* The operands and the empty instructions of a program after another statement.
LEMMA AskingNext ==
    ASSUME TypeInv, NEW note, note.procs = procs, log' = Append(log, note), NEW N, N = Now
    PROVE  /\ Uses' = IF note.what = "use" THEN Uses \union {N} ELSE Uses
           /\ Temps' = IF note.what \in {"back", "forth"} THEN Temps \union {N} ELSE Temps
           /\ Asking' = IF note.what \in Operands THEN Asking \union {N} ELSE Asking
           /\ \A u \in Asking : u \in 1 .. Len(log) /\ log'[u] = log[u] /\ u # N
           /\ log'[N] = note
           /\ \A a : EmptyAt(a) \/ (note.what = "empty" /\ note.addr = a) => EmptyAt(a)'
           /\ \A u \in Asking : Alone(u)' =>
                 Alone(u) /\ (note.what \in Operands => note.addr # log[u].addr)
           /\ note.what \in Operands /\ Alone(N)' => \A u \in Asking : log[u].addr # note.addr
<1>1. /\ \A i \in 1 .. Len(log) : log'[i] = log[i]
      /\ log'[N] = note /\ N \notin 1 .. Len(log)
      /\ \A w : Where(w)' = IF note.what = w THEN Where(w) \union {N} ELSE Where(w)
      /\ \A w : Where(w) \subseteq 1 .. Len(log)
  <2>1. N \notin 1 .. Len(log)  BY Noted
  <2>2. \A i \in 1 .. Len(log) : log'[i] = log[i]  BY Noted
  <2>3. log'[N] = note  BY Noted
  <2> QED  BY <2>1, <2>2, <2>3, LogNext
<1>2. /\ Uses' = IF note.what = "use" THEN Uses \union {N} ELSE Uses
      /\ Temps' = IF note.what \in {"back", "forth"} THEN Temps \union {N} ELSE Temps
  BY <1>1 DEF Uses, Temps
<1>3. Asking' = IF note.what \in Operands THEN Asking \union {N} ELSE Asking
  BY <1>2 DEF Asking, Operands
<1>4. \A u \in Asking : u \in 1 .. Len(log) /\ log'[u] = log[u] /\ u # N
  BY <1>1 DEF Asking, Uses, Temps
<1>5. \A a : EmptyAt(a) \/ (note.what = "empty" /\ note.addr = a) => EmptyAt(a)'
  BY <1>1 DEF EmptyAt
<1>6. \A u \in Asking : Alone(u)' =>
                 Alone(u) /\ (note.what \in Operands => note.addr # log[u].addr)
  BY <1>1, <1>3, <1>4 DEF Alone
<1>7. note.what \in Operands /\ Alone(N)' => \A u \in Asking : log[u].addr # note.addr
  BY <1>1, <1>3, <1>4 DEF Alone
<1> QED  BY <1>1, <1>2, <1>3, <1>4, <1>5, <1>6, <1>7

\* The memory stays within what has been written.
LEMMA LaidGrown ==
    ASSUME TypeInv, Laid, Grown, NEW note, note.procs = procs, log' = Append(log, note)
    PROVE  Laid'
<1>1. PICK D \in SUBSET {index} :
       /\ DOMAIN slots' = DOMAIN slots \union D /\ DOMAIN cells' = DOMAIN cells \union D
       /\ \A a \in DOMAIN slots : slots'[a] = slots[a] /\ cells'[a] = cells[a]
       /\ \A a \in D : a \notin DOMAIN slots => slots'[a] = <<>>
  BY DEF Grown
<1>2. DOMAIN slots' = DOMAIN cells'  BY <1>1 DEF Laid
<1>3. \E b \in Nat : \A a \in DOMAIN cells' : a \in 0 .. b
  <2>1. PICK b \in Nat : \A a \in DOMAIN cells : a \in 0 .. b  BY DEF Laid
  <2>2. index \in Nat  BY DEF TypeInv
  <2>3. b + index \in Nat /\ index \in 0 .. b + index /\ \A a \in 0 .. b : a \in 0 .. b + index  BY <2>2
  <2>4. \A a \in DOMAIN cells' : a \in 0 .. b + index  BY <1>1, <2>1, <2>2, <2>3
  <2> QED  BY <2>3, <2>4
<1>4. \A a \in DOMAIN slots' : IsSeq(slots'[a])
  <2>1. IsSeq(<<>>)
    <3>1. <<>> \in Seq({})  OBVIOUS
    <3> QED  BY <3>1 DEF IsSeq
  <2>2. \A a \in DOMAIN slots : IsSeq(slots[a])  BY DEF Laid
  <2> QED  BY <1>1, <2>1, <2>2
<1>5. ASSUME NEW a \in DOMAIN slots', slots'[a] # <<>>
      PROVE  \/ slots'[a][1].id = None /\ EmptyAt(a)'
             \/ \E v \in Asking' : log'[v].addr = a /\ slots'[a][1].id = log'[v].id
  <2>1. a \in DOMAIN slots /\ slots'[a] = slots[a]  BY <1>1, <1>5
  <2>2. \/ slots[a][1].id = None /\ EmptyAt(a)
        \/ \E v \in Asking : log[v].addr = a /\ slots[a][1].id = log[v].id
    BY <1>5, <2>1 DEF Laid
  <2>3. \A v \in Asking : v \in Asking' /\ log'[v] = log[v]
    <3> PICK N : N = Now  OBVIOUS
    <3>1. /\ Asking' = IF note.what \in Operands THEN Asking \union {N} ELSE Asking
          /\ \A u \in Asking : log'[u] = log[u]
      BY AskingNext
    <3> QED  BY <3>1
  <2>4. EmptyAt(a) => EmptyAt(a)'  BY AskingNext
  <2> QED  BY <2>1, <2>2, <2>3, <2>4
<1> QED  BY <1>2, <1>3, <1>4, <1>5 DEF Laid

\* So it does after another instruction.
LEMMA LaidGiven ==
    ASSUME TypeInv, Laid, NEW note, note.procs = procs, log' = Append(log, note),
           NEW instr, NEW size, NEW value, Given(note, instr, size, value),
           note.what \in Operands \/ (note.what = "empty" /\ note.id = None)
    PROVE  Laid'
<1>1. /\ note.addr = index /\ note.id = instr.id
      /\ DOMAIN slots' = DOMAIN slots \union {index} /\ DOMAIN cells' = DOMAIN cells \union {index}
      /\ \A a \in DOMAIN slots : a # index => slots'[a] = slots[a]
      /\ slots'[index] = Append(Here, instr)
  BY DEF Given
<1>2. DOMAIN slots' = DOMAIN cells'  BY <1>1 DEF Laid
<1>3. \E b \in Nat : \A a \in DOMAIN cells' : a \in 0 .. b
  <2>1. PICK b \in Nat : \A a \in DOMAIN cells : a \in 0 .. b  BY DEF Laid
  <2>2. index \in Nat  BY DEF TypeInv
  <2>3. b + index \in Nat /\ index \in 0 .. b + index /\ \A a \in 0 .. b : a \in 0 .. b + index  BY <2>2
  <2>4. DOMAIN cells' = DOMAIN cells \union {index}  BY <1>1
  <2>5. \A a \in DOMAIN cells' : a \in 0 .. b + index  BY <2>1, <2>3, <2>4, Zenon
  <2> QED  BY <2>3, <2>5
<1>4. IsSeq(Here)
  <2>1. IsSeq(<<>>)
    <3>1. <<>> \in Seq({})  OBVIOUS
    <3> QED  BY <3>1 DEF IsSeq
  <2>2. \A a \in DOMAIN slots : IsSeq(slots[a])  BY DEF Laid
  <2> QED  BY <2>1, <2>2 DEF Here
<1>5. /\ IsSeq(slots'[index]) /\ slots'[index] # <<>>
      /\ slots'[index][1] = IF Here = <<>> THEN instr ELSE Here[1]
  BY <1>1, <1>4, FirstIs
<1>6. \A a \in DOMAIN slots' : IsSeq(slots'[a])
  <2>1. \A a \in DOMAIN slots : IsSeq(slots[a])  BY DEF Laid
  <2> QED  BY <1>1, <1>5, <2>1
<1> PICK N : N = Now  OBVIOUS
<1>7. /\ Asking' = IF note.what \in Operands THEN Asking \union {N} ELSE Asking
      /\ \A u \in Asking : log'[u] = log[u]
      /\ log'[N] = note
      /\ \A a : EmptyAt(a) \/ (note.what = "empty" /\ note.addr = a) => EmptyAt(a)'
  <2>1. /\ Asking' = IF note.what \in Operands THEN Asking \union {N} ELSE Asking
        /\ \A u \in Asking : log'[u] = log[u]
    BY AskingNext
  <2>2. log'[N] = note  BY AskingNext
  <2>3. \A a : EmptyAt(a) \/ (note.what = "empty" /\ note.addr = a) => EmptyAt(a)'  BY AskingNext
  <2> QED  BY <2>1, <2>2, <2>3
<1>8. ASSUME NEW a \in DOMAIN slots, slots[a] # <<>>, slots'[a][1] = slots[a][1]
      PROVE  \/ slots'[a][1].id = None /\ EmptyAt(a)'
             \/ \E v \in Asking' : log'[v].addr = a /\ slots'[a][1].id = log'[v].id
  <2>1. \/ slots[a][1].id = None /\ EmptyAt(a)
        \/ \E v \in Asking : log[v].addr = a /\ slots[a][1].id = log[v].id
    BY <1>8 DEF Laid
  <2> QED  BY <1>7, <1>8, <2>1
<1>9. ASSUME NEW a \in DOMAIN slots', slots'[a] # <<>>
      PROVE  \/ slots'[a][1].id = None /\ EmptyAt(a)'
             \/ \E v \in Asking' : log'[v].addr = a /\ slots'[a][1].id = log'[v].id
  <2>1. CASE a # index
    <3>1. a \in DOMAIN slots /\ slots'[a] = slots[a]  BY <1>1, <2>1
    <3> QED  BY <1>8, <1>9, <3>1
  <2>2. CASE a = index /\ Here # <<>>
    <3>1. a \in DOMAIN slots /\ Here = slots[a]  BY <2>2 DEF Here
    <3>2. slots'[a][1] = slots[a][1]  BY <1>5, <2>2, <3>1
    <3> QED  BY <1>8, <2>2, <3>1, <3>2
  <2>3. CASE a = index /\ Here = <<>>
    <3>1. slots'[a][1].id = note.id /\ note.addr = a  BY <1>1, <1>5, <2>3
    <3>2. CASE note.what \in Operands
      <4>1. N \in Asking'  BY <1>7, <3>2
      <4> QED  BY <1>7, <3>1, <4>1, Zenon
    <3>3. CASE note.what = "empty" /\ note.id = None
      <4>1. EmptyAt(a)'  BY <1>7, <3>1, <3>3, Zenon
      <4> QED  BY <3>1, <3>3, <4>1, Zenon
    <3> QED  BY <3>2, <3>3, Zenon
  <2> QED  BY <2>1, <2>2, <2>3
<1> QED  BY <1>2, <1>3, <1>6, <1>9 DEF Laid

\* An operand stays ready as long as its address is left alone.
LEMMA ReadyNext ==
    ASSUME TypeInv, Nested, Steady, NEW note, note.procs = procs, log' = Append(log, note), NextProcs,
           NEW u \in Asking, Ready(u), slots'[log[u].addr][1] = slots[log[u].addr][1],
           cells'[log[u].addr] = cells[log[u].addr]
    PROVE  Ready(u)'
<1>1. u \in 1 .. Len(log) /\ log'[u] = log[u]
  BY AskingNext
<1> PICK N : N = Now  OBVIOUS
<1>2. /\ u \in Uses => u \in Uses'
      /\ u \in Uses' => u \in Uses
  <2>1. Uses' = IF note.what = "use" THEN Uses \union {N} ELSE Uses  BY AskingNext
  <2>2. u # N  BY <1>1, Noted
  <2> QED  BY <2>1, <2>2
<1>3. ASSUME u \in Uses, Clash(LabelOf(u))
      PROVE  LabelOf(u)'.value = LabelOf(u).value /\ Clash(LabelOf(u))'
  <2>1. LabelOf(u)'.value = LabelOf(u).value  BY <1>3 DEF Steady
  <2> QED  BY <1>3, <2>1 DEF Clash
<1>4. ASSUME u \in Uses, Written(u) PROVE Written(u)'
  <2>1. Clash(LabelOf(u)) /\ cells[log[u].addr] = LabelOf(u).value  BY <1>4 DEF Written
  <2>2. LabelOf(u)'.value = LabelOf(u).value /\ Clash(LabelOf(u))'  BY <1>3, <1>4, <2>1
  <2>3. cells'[log'[u].addr] = LabelOf(u)'.value  BY <1>1, <2>1, <2>2
  <2> QED  BY <2>2, <2>3 DEF Written
<1>5. ASSUME u \in Uses, Late(u) PROVE Late(u)'
  <2>1. SUFFICES ASSUME Clash(LabelOf(u))'
                 PROVE  \E d \in Where("label")' : u < d /\ Means(u, d)' /\ LabelOf(u)'.value = log'[d].addr
    BY DEF Late
  <2>2. CASE ~ Clash(LabelOf(u))  BY <1>5, <2>1, <2>2 DEF Steady
  <2>3. CASE Clash(LabelOf(u))
    <3>1. PICK d \in Where("label") : u < d /\ Means(u, d) /\ LabelOf(u).value = log[d].addr
      BY <1>5, <2>3 DEF Late
    <3>2. d \in 1 .. Len(log) /\ log'[d] = log[d] /\ d \in Where("label")'
      BY Noted, LogNext
    <3>3. Means(u, d)'  BY <1>1, <3>1, <3>2, MeansKept
    <3>4. LabelOf(u)'.value = LabelOf(u).value  BY <1>3, <1>5, <2>3
    <3> QED  BY <3>1, <3>2, <3>3, <3>4
  <2> QED  BY <2>2, <2>3
<1>6. /\ slots'[log'[u].addr][1].id = log'[u].id
           => slots'[log'[u].addr][1].pending \/ (u \in Uses' /\ Written(u)')
      /\ u \in Uses' => Late(u)' \/ Written(u)'
  <2>1. PICK first : first = slots[log[u].addr][1]  OBVIOUS
  <2>2. /\ first.id = log[u].id => first.pending \/ (u \in Uses /\ Written(u))
        /\ u \in Uses => Late(u) \/ Written(u)
    BY <2>1 DEF Ready
  <2>3. slots'[log'[u].addr][1] = first  BY <1>1, <2>1
  <2>4. first.id = log'[u].id => first.pending \/ (u \in Uses' /\ Written(u)')
    BY <1>1, <1>2, <1>4, <2>2
  <2>5. u \in Uses' => Late(u)' \/ Written(u)'  BY <1>2, <1>4, <1>5, <2>2
  <2> QED  BY <2>3, <2>4, <2>5
<1> QED  BY <1>6, Zenon DEF Ready

\* The operands stay stored when nothing is.
LEMMA StoredGrown ==
    ASSUME TypeInv, Nested, Laid, Stored, Steady, Grown,
           NEW note, note.procs = procs, log' = Append(log, note), NextProcs, note.what \notin Operands
    PROVE  Stored'
<1>1. /\ DOMAIN slots \subseteq DOMAIN slots'
      /\ \A a \in DOMAIN slots : slots'[a] = slots[a] /\ cells'[a] = cells[a]
  BY DEF Grown
<1>2. /\ Asking' = Asking
      /\ \A u \in Asking : log'[u] = log[u] /\ (Alone(u)' => Alone(u))
  BY AskingNext
<1>3. ASSUME NEW u \in Asking
      PROVE  /\ log'[u].addr \in DOMAIN slots' /\ slots'[log'[u].addr] # <<>>
             /\ Alone(u)' => Ready(u)'
  <2>1. log[u].addr \in DOMAIN slots /\ slots[log[u].addr] # <<>> /\ (Alone(u) => Ready(u))
    BY DEF Stored
  <2>2. slots'[log[u].addr] = slots[log[u].addr] /\ cells'[log[u].addr] = cells[log[u].addr]
    BY <1>1, <2>1
  <2>3. Alone(u)' => Ready(u)'
    <3>1. SUFFICES ASSUME Alone(u)' PROVE Ready(u)'  OBVIOUS
    <3>2. Ready(u)  BY <1>2, <2>1, <3>1
    <3>3. slots'[log[u].addr][1] = slots[log[u].addr][1]  BY <2>2
    <3> QED  BY <2>2, <3>2, <3>3, ReadyNext
  <2> QED  BY <1>1, <1>2, <2>1, <2>2, <2>3
<1> QED  BY <1>2, <1>3 DEF Stored

\* They stay stored when an instruction is, and its operand is stored too.
LEMMA StoredGiven ==
    ASSUME TypeInv, Nested, Laid, Stored, Steady,
           NEW note, note.procs = procs, log' = Append(log, note), NextProcs,
           NEW instr, NEW size, NEW value, Given(note, instr, size, value),
           note.what \in Operands => note.id # None,
           note.what \in Operands \/ (note.what = "empty" /\ size = 0),
           NEW N, N = Now,
           note.what = "use" =>
              /\ size # 0
              /\ IF instr.pending THEN ~ Clash(LabelOf(N))'
                 ELSE Clash(LabelOf(N))' /\ LabelOf(N)'.value = value,
           note.what \in {"back", "forth"} => instr.pending
    PROVE  Stored'
<1>1. /\ note.addr = index /\ note.id = instr.id
      /\ DOMAIN slots' = DOMAIN slots \union {index}
      /\ \A a \in DOMAIN slots : a # index => slots'[a] = slots[a] /\ cells'[a] = cells[a]
      /\ slots'[index] = Append(Here, instr)
      /\ IF size = 0 THEN index \in DOMAIN cells => cells'[index] = cells[index]
         ELSE cells'[index] = value
      /\ DOMAIN slots = DOMAIN cells
  BY DEF Given, Laid
<1>2. IsSeq(Here)
  <2>1. IsSeq(<<>>)
    <3>1. <<>> \in Seq({})  OBVIOUS
    <3> QED  BY <3>1 DEF IsSeq
  <2>2. \A a \in DOMAIN slots : IsSeq(slots[a])  BY DEF Laid
  <2> QED  BY <2>1, <2>2 DEF Here
<1>3. slots'[index] # <<>> /\ slots'[index][1] = IF Here = <<>> THEN instr ELSE Here[1]
  BY <1>1, <1>2, FirstIs
<1>4. /\ Asking' = IF note.what \in Operands THEN Asking \union {N} ELSE Asking
      /\ Uses' = IF note.what = "use" THEN Uses \union {N} ELSE Uses
      /\ \A u \in Asking : log'[u] = log[u] /\ u # N /\ u \in 1 .. Len(log)
      /\ log'[N] = note
      /\ \A u \in Asking : Alone(u)' =>
            Alone(u) /\ (note.what \in Operands => note.addr # log[u].addr)
      /\ note.what \in Operands /\ Alone(N)' => \A u \in Asking : log[u].addr # note.addr
  <2>1. Asking' = IF note.what \in Operands THEN Asking \union {N} ELSE Asking  BY AskingNext
  <2>2. Uses' = IF note.what = "use" THEN Uses \union {N} ELSE Uses  BY AskingNext
  <2>3. \A u \in Asking : log'[u] = log[u] /\ u # N /\ u \in 1 .. Len(log)  BY AskingNext
  <2>4. log'[N] = note  BY AskingNext
  <2>5. \A u \in Asking : Alone(u)' =>
            Alone(u) /\ (note.what \in Operands => note.addr # log[u].addr)
    BY AskingNext
  <2>6. note.what \in Operands /\ Alone(N)' => \A u \in Asking : log[u].addr # note.addr
    BY AskingNext
  <2> QED  BY <2>1, <2>2, <2>3, <2>4, <2>5, <2>6
<1>5. ASSUME NEW u \in Asking
      PROVE  /\ log'[u].addr \in DOMAIN slots' /\ slots'[log'[u].addr] # <<>>
             /\ Alone(u)' => Ready(u)'
  <2> PICK a : a = log[u].addr  OBVIOUS
  <2>1. a \in DOMAIN slots /\ slots[a] # <<>> /\ (Alone(u) => Ready(u))
    BY DEF Stored
  <2>2. slots'[a] # <<>> /\ slots'[a][1] = slots[a][1]
    <3>1. CASE a # index  BY <1>1, <2>1, <3>1
    <3>2. CASE a = index
      <4>1. Here = slots[a]  BY <2>1, <3>2 DEF Here
      <4> QED  BY <1>3, <2>1, <3>2, <4>1
    <3> QED  BY <3>1, <3>2
  <2>3. ASSUME Alone(u)' PROVE Ready(u)'
    <3>1. Ready(u)  BY <1>4, <2>1, <2>3
    <3>2. cells'[a] = cells[a]
      <4>1. CASE a # index  BY <1>1, <2>1, <4>1
      <4>2. CASE a = index
        <5>1. note.what \notin Operands  BY <1>1, <1>4, <2>3, <4>2
        <5>2. size = 0  BY <5>1
        <5> QED  BY <1>1, <2>1, <4>2, <5>2
      <4> QED  BY <4>1, <4>2
    <3> QED  BY <2>2, <3>1, <3>2, ReadyNext
  <2> QED  BY <1>1, <1>4, <2>1, <2>2, <2>3
<1>6. ASSUME note.what \in Operands
      PROVE  /\ log'[N].addr \in DOMAIN slots' /\ slots'[log'[N].addr] # <<>>
             /\ Alone(N)' => Ready(N)'
  <2>1. log'[N].addr = index /\ log'[N].id = instr.id /\ instr.id # None  BY <1>1, <1>4, <1>6
  <2>2. ASSUME Alone(N)' PROVE Ready(N)'
    <3>1. \A u \in Asking : log[u].addr # index  BY <1>1, <1>4, <1>6, <2>2
    <3> PICK first : first = slots'[index][1]  OBVIOUS
    <3>2. first = instr \/ first.id = None
      <4>1. CASE Here = <<>>  BY <1>3, <4>1
      <4>2. CASE Here # <<>>
        <5>1. index \in DOMAIN slots /\ Here = slots[index]  BY <4>2 DEF Here
        <5>2. slots[index][1].id = None  BY <3>1, <4>2, <5>1 DEF Laid
        <5> QED  BY <1>3, <4>2, <5>1, <5>2
      <4> QED  BY <4>1, <4>2
    <3>3. ASSUME note.what = "use", ~ instr.pending PROVE Written(N)'
      <4>1. Clash(LabelOf(N))' /\ LabelOf(N)'.value = value /\ size # 0  BY <3>3
      <4>2. cells'[log'[N].addr] = value  BY <1>1, <2>1, <4>1
      <4> QED  BY <4>1, <4>2 DEF Written
    <3>4. ASSUME note.what = "use", instr.pending PROVE Late(N)'
      <4>1. ~ Clash(LabelOf(N))'  BY <3>4
      <4> QED  BY <4>1 DEF Late
    <3>5. N \in Uses' => note.what = "use"
      <4>1. N \notin Uses
        <5>1. N \notin Asking  BY <1>4
        <5> QED  BY <5>1 DEF Asking
      <4> QED  BY <1>4, <4>1
    <3>6. note.what = "use" => N \in Uses'  BY <1>4
    <3>7. note.what \in {"back", "forth"} => instr.pending  OBVIOUS
    <3>8. first.id = log'[N].id => first.pending \/ (N \in Uses' /\ Written(N)')
      <4>1. CASE first.id = None  BY <2>1, <4>1
      <4>2. CASE first = instr
        <5>1. note.what = "use" \/ note.what \in {"back", "forth"}  BY <1>6 DEF Operands
        <5> QED  BY <3>3, <3>6, <3>7, <4>2, <5>1
      <4> QED  BY <3>2, <4>1, <4>2
    <3>9. N \in Uses' => Late(N)' \/ Written(N)'  BY <3>3, <3>4, <3>5
    <3>10. slots'[log'[N].addr][1] = first  BY <2>1
    <3> QED  BY <3>8, <3>9, <3>10, Zenon DEF Ready
  <2> QED  BY <1>1, <1>3, <2>1, <2>2
<1> QED  BY <1>4, <1>5, <1>6 DEF Stored

\* The labels of temporary operands stay their own.
LEMMA OwnNext ==
    ASSUME TypeInv, UsesNamed, Own, NEW note, note.procs = procs, log' = Append(log, note),
           \A i \in 1 .. Len(labels) : i \in 1 .. Len(labels'),
           note.what \in {"back", "forth"} => note.id = Len(labels) + 1 /\ note.id \in 1 .. Len(labels'),
           note.what = "use" =>
              \/ note.id = Len(labels) + 1
              \/ \E k \in 1 .. Len(scopes) : \E n \in DOMAIN scopes[k] : note.id = scopes[k][n],
           \A k \in 1 .. Len(scopes') : \A n \in DOMAIN scopes'[k] :
              \/ \E j \in 1 .. Len(scopes) : \E m \in DOMAIN scopes[j] : scopes'[k][n] = scopes[j][m]
              \/ scopes'[k][n] = Len(labels) + 1 /\ note.what \notin {"back", "forth"},
           \/ pending' = pending \/ pending' = <<>>
           \/ note.what \in {"back", "forth"} /\ pending' = Append(pending, note.id)
    PROVE  Own'
<1> PICK N : N = Now  OBVIOUS
<1>1. /\ Temps' = IF note.what \in {"back", "forth"} THEN Temps \union {N} ELSE Temps
      /\ Asking' = IF note.what \in Operands THEN Asking \union {N} ELSE Asking
      /\ \A u \in Asking : log'[u] = log[u] /\ u # N
      /\ log'[N] = note
  <2>1. Temps' = IF note.what \in {"back", "forth"} THEN Temps \union {N} ELSE Temps  BY AskingNext
  <2>2. Asking' = IF note.what \in Operands THEN Asking \union {N} ELSE Asking  BY AskingNext
  <2>3. \A u \in Asking : log'[u] = log[u] /\ u # N  BY AskingNext
  <2>4. log'[N] = note  BY AskingNext
  <2> QED  BY <2>1, <2>2, <2>3, <2>4
<1>2. /\ Len(labels) \in Nat
      /\ \A k \in 1 .. Len(scopes) : \A n \in DOMAIN scopes[k] : scopes[k][n] \in 1 .. Len(labels)
      /\ \A u \in Asking : log[u].id \in 1 .. Len(labels)
  <2>1. Len(labels) \in Nat  BY DEF TypeInv, LabelsOK, IsSeq
  <2>2. \A k \in 1 .. Len(scopes) : \A n \in DOMAIN scopes[k] : scopes[k][n] \in 1 .. Len(labels)
    BY DEF TypeInv, LabelsOK
  <2>3. \A u \in Asking : log[u].id \in 1 .. Len(labels)  BY DEF Asking, UsesNamed, Own
  <2> QED  BY <2>1, <2>2, <2>3
<1> PICK new : new = Len(labels) + 1  OBVIOUS
<1>3. new \notin 1 .. Len(labels)  BY <1>2
<1>4. /\ Temps \subseteq Asking
      /\ \A v \in Temps : \A u \in Asking : log[u].id = log[v].id => u = v
      /\ \A v \in Temps : \A k \in 1 .. Len(scopes) : \A n \in DOMAIN scopes[k] : scopes[k][n] # log[v].id
      /\ IsSeq(pending) /\ \A k \in 1 .. Len(pending) : \E v \in Temps : pending[k] = log[v].id
  BY DEF Own, Asking
<1>5. ASSUME NEW v \in Temps
      PROVE  /\ log'[v].id \in 1 .. Len(labels')
             /\ \A k \in 1 .. Len(scopes') : \A n \in DOMAIN scopes'[k] : scopes'[k][n] # log'[v].id
             /\ \A u \in Asking' : log'[u].id = log'[v].id => u = v
  <2>1. v \in Asking /\ log'[v] = log[v] /\ log[v].id \in 1 .. Len(labels) /\ log[v].id # new
    BY <1>1, <1>2, <1>3, <1>4
  <2>2. \A k \in 1 .. Len(scopes') : \A n \in DOMAIN scopes'[k] : scopes'[k][n] # log'[v].id
    BY <1>4, <2>1
  <2>3. note.what \in Operands => note.id # log[v].id
    <3>1. CASE note.id = new  BY <2>1, <3>1
    <3>2. CASE \E k \in 1 .. Len(scopes) : \E n \in DOMAIN scopes[k] : note.id = scopes[k][n]
      BY <1>4, <3>2
    <3>3. note.what \in Operands =>
             note.id = new \/ \E k \in 1 .. Len(scopes) : \E n \in DOMAIN scopes[k] : note.id = scopes[k][n]
      BY DEF Operands
    <3> QED  BY <3>1, <3>2, <3>3
  <2>4. \A u \in Asking' : log'[u].id = log'[v].id => u = v
    <3> SUFFICES ASSUME NEW u \in Asking', log'[u].id = log'[v].id PROVE u = v  OBVIOUS
    <3>1. CASE u \in Asking  BY <1>1, <1>4, <2>1, <3>1
    <3>2. CASE u = N /\ note.what \in Operands  BY <1>1, <2>1, <2>3, <3>2
    <3> QED  BY <1>1, <3>1, <3>2
  <2> QED  BY <2>1, <2>2, <2>4
<1>6. ASSUME note.what \in {"back", "forth"}
      PROVE  /\ log'[N].id \in 1 .. Len(labels')
             /\ \A k \in 1 .. Len(scopes') : \A n \in DOMAIN scopes'[k] : scopes'[k][n] # log'[N].id
             /\ \A u \in Asking' : log'[u].id = log'[N].id => u = N
  <2>1. log'[N].id = new /\ new \in 1 .. Len(labels')  BY <1>1, <1>6
  <2>2. \A k \in 1 .. Len(scopes') : \A n \in DOMAIN scopes'[k] : scopes'[k][n] # new
    BY <1>2, <1>3, <1>6
  <2>3. \A u \in Asking : log'[u].id # new  BY <1>1, <1>2, <1>3
  <2> QED  BY <1>1, <2>1, <2>2, <2>3
<1>7. IsSeq(pending') /\ \A k \in 1 .. Len(pending') : \E v \in Temps' : pending'[k] = log'[v].id
  <2>1. \A k \in 1 .. Len(pending) : \E v \in Temps' : pending[k] = log'[v].id
    <3>1. \A v \in Temps : v \in Temps' /\ log'[v].id = log[v].id  BY <1>1, <1>4
    <3>2. \A k \in 1 .. Len(pending) : \E v \in Temps : pending[k] = log[v].id  BY <1>4
    <3> QED  BY <3>1, <3>2, Zenon
  <2>2. CASE pending' = pending
    <3>1. IsSeq(pending)  BY <1>4
    <3> QED  BY <2>1, <2>2, <3>1, Zenon
  <2>3. CASE pending' = <<>>
    <3>1. <<>> \in Seq({})  OBVIOUS
    <3>2. IsSeq(pending') /\ Len(pending') = 0  BY <2>3, <3>1 DEF IsSeq
    <3> QED  BY <3>2
  <2>4. CASE note.what \in {"back", "forth"} /\ pending' = Append(pending, note.id)
    <3>1. /\ IsSeq(pending') /\ Len(pending') = Len(pending) + 1
          /\ \A k \in 1 .. Len(pending) : pending'[k] = pending[k]
      BY <1>4, <2>4, AppendIs
    <3>2. pending'[Len(pending) + 1] = note.id  BY <1>4, <2>4, AppendIs
    <3>3. Len(pending) \in Nat  BY <1>4 DEF IsSeq
    <3>4. N \in Temps' /\ log'[N].id = note.id  BY <1>1, <2>4
    <3>5. ASSUME NEW k \in 1 .. Len(pending') PROVE \E v \in Temps' : pending'[k] = log'[v].id
      <4>1. CASE k \in 1 .. Len(pending)
        <5>1. pending'[k] = pending[k]  BY <3>1, <4>1
        <5> QED  BY <2>1, <4>1, <5>1, Zenon
      <4>2. CASE k = Len(pending) + 1  BY <3>2, <3>4, <4>2, Zenon
      <4>3. k \in 1 .. Len(pending) \/ k = Len(pending) + 1
        <5> PICK m, l : m = Len(pending) /\ l = Len(pending')  OBVIOUS
        <5>1. m \in Nat /\ l = m + 1 /\ k \in 1 .. l  BY <3>1, <3>3
        <5> QED  BY <5>1
      <4> QED  BY <4>1, <4>2, <4>3, Zenon
    <3> QED  BY <3>1, <3>5
  <2> QED  BY <2>2, <2>3, <2>4
<1>8. \A v \in Temps' : v \in Temps \/ (v = N /\ note.what \in {"back", "forth"})  BY <1>1
<1>9. ASSUME NEW v \in Temps'
      PROVE  /\ log'[v].id \in 1 .. Len(labels')
             /\ \A k \in 1 .. Len(scopes') : \A n \in DOMAIN scopes'[k] : scopes'[k][n] # log'[v].id
             /\ \A u \in Asking' : log'[u].id = log'[v].id => u = v
  <2>1. CASE v \in Temps  BY <1>5, <2>1, Zenon
  <2>2. CASE v = N /\ note.what \in {"back", "forth"}  BY <1>6, <2>2, Zenon
  <2> QED  BY <1>8, <2>1, <2>2
<1> QED  BY <1>7, <1>9, Zenon DEF Own

\* They do when a label is put into the innermost scope.
LEMMA PutOwn ==
    ASSUME TypeInv, kit' = kit, procs' = procs, UsesNamed, Own,
           NEW name, name[2] \in Names, NEW l, IsLabel(l), PutLabel(name, l),
           NEW note, note.procs = procs, log' = Append(log, note),
           note.what \notin {"back", "forth"}, note.what = "use" => note.id = Len(labels) + 1,
           pending' = pending
    PROVE  Own'
<1> PICK K : K = Len(scopes)  OBVIOUS
<1>1. PICK id \in 1 .. Len(labels') :
         /\ labels'[id] = l /\ name \in DOMAIN scopes'[K] /\ scopes'[K][name] = id
         /\ \A i \in 1 .. Len(labels) : i \in 1 .. Len(labels') /\ (i # id => labels'[i] = labels[i])
         /\ IF name \in DOMAIN scopes[K] THEN id = scopes[K][name] /\ id \in 1 .. Len(labels)
            ELSE id = Len(labels) + 1 /\ id \notin 1 .. Len(labels)
         /\ \A k \in 1 .. Len(scopes) : \A n \in DOMAIN scopes[k] : scopes'[k][n] = scopes[k][n]
  BY PutIds
<1>2. /\ K \in 1 .. Len(scopes) /\ Len(scopes') = Len(scopes)
      /\ \A k \in 1 .. Len(scopes) :
            DOMAIN scopes'[k] = DOMAIN scopes[k] \union (IF k = K THEN {name} ELSE {})
  BY PutIs
<1>3. ASSUME NEW k \in 1 .. Len(scopes'), NEW n \in DOMAIN scopes'[k]
      PROVE  \/ \E j \in 1 .. Len(scopes) : \E m \in DOMAIN scopes[j] : scopes'[k][n] = scopes[j][m]
             \/ scopes'[k][n] = Len(labels) + 1 /\ note.what \notin {"back", "forth"}
  <2>1. CASE n \in DOMAIN scopes[k]
    <3>1. k \in 1 .. Len(scopes) /\ scopes'[k][n] = scopes[k][n]  BY <1>1, <1>2, <2>1
    <3> QED  BY <2>1, <3>1
  <2>2. CASE n \notin DOMAIN scopes[k]
    <3>1. k = K /\ n = name  BY <1>2, <2>2
    <3> QED  BY <1>1, <2>2, <3>1
  <2> QED  BY <2>1, <2>2
<1>4. \A i \in 1 .. Len(labels) : i \in 1 .. Len(labels')  BY <1>1
<1> QED  BY <1>3, <1>4, OwnNext

\* They do when a PROC ends.
LEMMA ExitOwn ==
    ASSUME TypeInv, Nested, ScopesInv, OperandsInv, ExitProc, kit' = kit, Len(scopes) # 1, Missing = {},
           \A n \in Handed : n \in DOMAIN scopes[1] => ~ Clash(LabelAt(1, n)), Own,
           NEW note, note.procs = procs, note.what = "endp", log' = Append(log, note), pending' = pending
    PROVE  Own'
<1> PICK K : K = Len(scopes)  OBVIOUS
<1>1. /\ K \in Nat /\ K > 1 /\ Len(scopes') = K - 1
      /\ Handed = {n \in DOMAIN scopes[K] : ~ LabelAt(K, n).local}
      /\ \A k \in 2 .. K - 1 : scopes'[k] = scopes[k]
      /\ DOMAIN scopes'[1] = DOMAIN scopes[1] \union Handed
      /\ \A n \in DOMAIN scopes[1] : scopes'[1][n] = scopes[1][n]
      /\ \A n \in Handed : n \notin DOMAIN scopes[1] => scopes'[1][n] = scopes[K][n]
  BY ExitFacts
<1>2. Len(labels') = Len(labels)  BY ExitSteady
<1>3. ASSUME NEW k \in 1 .. Len(scopes'), NEW n \in DOMAIN scopes'[k]
      PROVE  \E j \in 1 .. Len(scopes) : \E m \in DOMAIN scopes[j] : scopes'[k][n] = scopes[j][m]
  <2>1. CASE k # 1
    <3>1. k \in 2 .. K - 1 /\ k \in 1 .. Len(scopes)  BY <1>1, <2>1
    <3> QED  BY <1>1, <3>1
  <2>2. CASE k = 1 /\ n \in DOMAIN scopes[1]
    <3>1. 1 \in 1 .. Len(scopes)  BY <1>1
    <3> QED  BY <1>1, <2>2, <3>1
  <2>3. CASE k = 1 /\ n \notin DOMAIN scopes[1]
    <3>1. K \in 1 .. Len(scopes) /\ n \in DOMAIN scopes[K] /\ scopes'[1][n] = scopes[K][n]
      BY <1>1, <2>3
    <3> QED  BY <2>3, <3>1
  <2> QED  BY <2>1, <2>2, <2>3
<1>4. UsesNamed  BY DEF OperandsInv
<1>5. note.what \notin {"back", "forth"} /\ note.what # "use"  OBVIOUS
<1> QED  BY <1>2, <1>3, <1>4, <1>5, OwnNext

\* A name that an instruction uses: the cell is written, or waits for the label.
LEMMA UseMemory ==
    ASSUME TypeInv, Nested, UsesNamed, Own, Laid, Stored, Steady, kit' = kit, errors = {},
           NEW n \in Names, UseLabel(n)
    PROVE  Own' /\ Laid' /\ Stored'
<1>1. PICK name, note, id :
              /\ name = Qualified(n) /\ note = Note("use", name, id) /\ name[2] \in Names
              /\ note.what = "use" /\ note.name = name /\ note.procs = procs /\ note.id = id
              /\ id = IF Known(name) = 0 THEN Len(labels) + 1 ELSE scopes[Known(name)][name]
              /\ log' = Append(log, note) /\ procs' = procs
              /\ \/ Known(name) = 0 /\ Puts(name, note)
                 \/ Known(name) # 0 /\ labels' = labels /\ scopes' = scopes /\ Reaches(note, Known(name))
  BY UsePuts
<1> PICK N : N = Now  OBVIOUS
<1> PICK value : value = IF Known(name) = 0 THEN None ELSE labels[id].value  OBVIOUS
<1> PICK instr : instr = [id |-> id, pending |-> Undefined(value)]  OBVIOUS
<1> PICK cell : cell = IF Undefined(value) THEN 0 ELSE value  OBVIOUS
<1>2. AddInstruction(instr, 1, cell) /\ pending' = pending
  BY <1>1 DEF UseLabel
<1>3. note.addr = index  BY <1>1 DEF Note
<1>4. Given(note, instr, 1, cell)  BY <1>1, <1>2, <1>3, AddGives
<1>5. LabelOf(N)' = labels'[id]
  <2>1. log'[N] = note  BY <1>1, Noted
  <2> QED  BY <1>1, <2>1 DEF LabelOf
<1>6. NextProcs  BY <1>1 DEF NextProcs
<1>7. Len(labels) \in Nat /\ IsSeq(labels)
      /\ \A k \in 1 .. Len(scopes) : \A m \in DOMAIN scopes[k] : scopes[k][m] \in 1 .. Len(labels)
  BY DEF TypeInv, LabelsOK, IsSeq
<1>8. CASE Known(name) = 0 /\ Puts(name, note)
  <2>1. PICK l : IsLabel(l) /\ PutLabel(name, l) /\ Placing(name, l, note, Len(scopes))  BY <1>8 DEF Puts
  <2>2. Own'  BY <1>1, <1>2, <1>8, <2>1, PutOwn
  <2>3. ~ Clash(l) /\ name \notin DOMAIN scopes[Len(scopes)]
    <3>1. ~ Clash(l) /\ \A k \in 1 .. Len(scopes) : name \notin DOMAIN scopes[k]
      BY <1>1, <2>1 DEF Placing
    <3>2. Len(scopes) \in 1 .. Len(scopes)  BY Innermost
    <3> QED  BY <3>1, <3>2
  <2>4. labels'[id] = l
    <3> PICK K : K = Len(scopes)  OBVIOUS
    <3>1. PICK i \in 1 .. Len(labels') :
             /\ labels'[i] = l
             /\ IF name \in DOMAIN scopes[K] THEN i = scopes[K][name] ELSE i = Len(labels) + 1
      BY <2>1, PutIds
    <3> QED  BY <1>1, <1>8, <2>3, <3>1
  <2>5. ~ Clash(LabelOf(N))'  BY <1>5, <2>3, <2>4 DEF Clash
  <2>6. instr.pending /\ id # None
    <3>1. instr.pending <=> Undefined(value)  OBVIOUS
    <3>2. value = None  BY <1>8
    <3>3. Undefined(value)  BY <3>2 DEF Undefined
    <3>4. id # None  BY <1>1, <1>7, <1>8 DEF None
    <3> QED  BY <3>1, <3>3, <3>4
  <2>7. Laid'  BY <1>1, <1>4, LaidGiven DEF Operands
  <2>8. Stored'  BY <1>1, <1>4, <1>6, <2>5, <2>6, StoredGiven DEF Operands
  <2> QED  BY <2>2, <2>7, <2>8
<1>9. CASE Known(name) # 0 /\ labels' = labels /\ scopes' = scopes /\ Reaches(note, Known(name))
  <2>1. \E k \in 1 .. Len(scopes) : \E m \in DOMAIN scopes[k] : note.id = scopes[k][m]
    BY <1>9 DEF Reaches
  <2>2. \A k \in 1 .. Len(scopes') : \A m \in DOMAIN scopes'[k] :
           \E j \in 1 .. Len(scopes) : \E o \in DOMAIN scopes[j] : scopes'[k][m] = scopes[j][o]
    BY <1>9
  <2>3. Own'
    <3>1. note.what \notin {"back", "forth"} /\ labels' = labels  BY <1>1, <1>9
    <3> QED  BY <1>1, <1>2, <2>1, <2>2, <3>1, OwnNext
  <2>4. id \in 1 .. Len(labels) /\ id # None  BY <1>1, <1>7, <2>1 DEF None
  <2>5. value = labels[id].value /\ LabelOf(N)' = labels[id]  BY <1>5, <1>9
  <2>6. instr.pending <=> Undefined(value)  OBVIOUS
  <2>7. IF instr.pending THEN ~ Clash(LabelOf(N))' ELSE Clash(LabelOf(N))' /\ LabelOf(N)'.value = cell
    BY <2>5, <2>6 DEF Clash
  <2>8. Laid'  BY <1>1, <1>4, LaidGiven DEF Operands
  <2>9. Stored'  BY <1>1, <1>4, <1>6, <2>4, <2>7, StoredGiven DEF Operands
  <2> QED  BY <2>3, <2>8, <2>9
<1> QED  BY <1>1, <1>8, <1>9

\* Every statement keeps what is known of the memory.
LEMMA MemoryNext ==
    ASSUME MemoryKnown, [Next]_vars, errors' = {}
    PROVE  Own' /\ Laid' /\ Stored'
<1>1. OperandsKnown /\ DuplicatesInv /\ Quiet'  BY DEF MemoryKnown, OperandsKnown, Quiet
<1>2. Quiet /\ Steady  BY <1>1, OperandsNext
<1>3. errors = {}
  <2>1. errors \subseteq errors'  BY <1>1, ErrorsStay
  <2> QED  BY <2>1
<1>4. TypeInv /\ Nested /\ ScopesInv /\ OperandsInv /\ UsesNamed /\ kit \in Kits
  BY <1>2, <1>1 DEF OperandsKnown, DuplicatesInv, OperandsInv, TypeInv
<1>5. Own /\ Laid /\ Stored  BY <1>3 DEF MemoryKnown, MemoryInv
<1>6. ASSUME NEW note, note.procs = procs, log' = Append(log, note), NextProcs, Grown,
             note.what \notin Operands
      PROVE  Laid' /\ Stored'
  BY <1>2, <1>4, <1>5, <1>6, LaidGrown, StoredGrown
<1>7. ASSUME NEW note, note.procs = procs, log' = Append(log, note), labels' = labels, scopes' = scopes,
             note.what \notin Operands, pending' = pending \/ pending' = <<>>
      PROVE  Own'
  <2>1. \A k \in 1 .. Len(scopes') : \A m \in DOMAIN scopes'[k] :
           \E j \in 1 .. Len(scopes) : \E o \in DOMAIN scopes[j] : scopes'[k][m] = scopes[j][o]
    BY <1>7
  <2>2. note.what \notin {"back", "forth"} /\ note.what # "use"  BY <1>7 DEF Operands
  <2> QED  BY <1>4, <1>5, <1>7, <2>1, <2>2, OwnNext
<1>8. ASSUME NEW note, note.procs = procs, log' = Append(log, note),
             UNCHANGED <<labels, scopes, procs, slots, cells>>,
             note.what \notin Operands, pending' = pending \/ pending' = <<>>
      PROVE  Own' /\ Laid' /\ Stored'
  <2>1. labels' = labels /\ scopes' = scopes /\ procs' = procs /\ slots' = slots /\ cells' = cells  BY <1>8
  <2>2. NextProcs /\ Grown  BY <2>1, SameGrows DEF NextProcs
  <2> QED  BY <1>6, <1>7, <1>8, <2>1, <2>2
<1>9. ASSUME UNCHANGED <<labels, scopes, procs, slots, cells, log, pending>> PROVE Own' /\ Laid' /\ Stored'
  <2>1. /\ labels' = labels /\ scopes' = scopes /\ slots' = slots /\ cells' = cells /\ log' = log
        /\ pending' = pending /\ procs' = procs
    BY <1>9
  <2>2. \A w : Where(w)' = Where(w)  BY <2>1 DEF Where
  <2>3. Uses' = Uses /\ Temps' = Temps  BY <2>2 DEF Uses, Temps
  <2>4. Asking' = Asking  BY <2>3 DEF Asking
  <2>5. Own'
    <3>1. \A v \in Temps :
          /\ log[v].id \in 1 .. Len(labels)
          /\ \A k \in 1 .. Len(scopes) : \A n \in DOMAIN scopes[k] : scopes[k][n] # log[v].id
          /\ \A u \in Asking : log[u].id = log[v].id => u = v
      BY <1>5 DEF Own
    <3>2. IsSeq(pending) /\ \A k \in 1 .. Len(pending) : \E v \in Temps : pending[k] = log[v].id
      BY <1>5 DEF Own
    <3> QED  BY <2>1, <2>3, <2>4, <3>1, <3>2, Zenon DEF Own
  <2>6. \A a : EmptyAt(a)' <=> EmptyAt(a)  BY <2>1, <2>2 DEF EmptyAt
  <2>7. Laid'  BY <1>5, <2>1, <2>4, <2>6, Zenon DEF Laid
  <2>8. ASSUME NEW u \in Asking PROVE (Alone(u)' => Alone(u)) /\ (Ready(u) => Ready(u)')
    <3>1. Alone(u)' => Alone(u)  BY <2>1, <2>4 DEF Alone
    <3>2. LabelOf(u)' = LabelOf(u)  BY <2>1 DEF LabelOf
    <3>3. Clash(LabelOf(u))' <=> Clash(LabelOf(u))  BY <3>2 DEF Clash
    <3>4. Written(u)' <=> Written(u)  BY <2>1, <3>2, <3>3 DEF Written
    <3>5. /\ \A d : ProcOf(d)' = ProcOf(d) /\ (Settled(d)' <=> Settled(d))
          /\ \A n, p, v : LocalIn(n, p, v)' <=> LocalIn(n, p, v)
          /\ \A p, v : Encloses(p, v)' <=> Encloses(p, v)
      BY <2>1, <2>2 DEF ProcOf, Settled, Hidden, LocalIn, End, Where, Encloses
    <3>6. \A v, d : Means(v, d)' <=> Means(v, d)  BY <2>1, <3>5 DEF Means, InReach
    <3>7. Late(u)' <=> Late(u)  BY <2>1, <2>2, <3>2, <3>3, <3>6 DEF Late
    <3>8. Ready(u) => Ready(u)'  BY <2>1, <2>3, <3>4, <3>7 DEF Ready
    <3> QED  BY <3>1, <3>8
  <2>9. Stored'
    <3>1. \A u \in Asking : /\ log[u].addr \in DOMAIN slots /\ slots[log[u].addr] # <<>>
                            /\ Alone(u) => Ready(u)
      BY <1>5 DEF Stored
    <3> QED  BY <2>1, <2>4, <2>8, <3>1, Zenon DEF Stored
  <2> QED  BY <2>5, <2>7, <2>9
<1>10. CASE UNCHANGED vars
  <2>1. UNCHANGED <<labels, scopes, procs, slots, cells, log, pending>>  BY <1>10 DEF vars
  <2> QED  BY <1>9, <2>1
<1>11. CASE Next
  <2>1. kit' = kit  BY <1>11 DEF Next
  <2>2. CASE EnterProc
    <3> PICK note : note = Note("proc", NoName, None)  OBVIOUS
    <3>1. /\ log' = Append(log, note) /\ scopes' = Append(scopes, [n \in {} |-> 0])
          /\ procs' = Append(procs, Len(log')) /\ UNCHANGED <<labels, slots, cells, pending>>
      BY <2>2 DEF EnterProc, Read
    <3>2. note.procs = procs /\ note.what = "proc"  BY DEF Note
    <3>3. procs' = Append(procs, Now)
      <4>1. Len(log') = Now  BY <1>4, <3>1, <3>2, Noted
      <4> QED  BY <3>1, <4>1
    <3>4. NextProcs /\ Grown  BY <3>1, <3>3, SameGrows DEF NextProcs
    <3>5. Laid' /\ Stored'  BY <1>6, <3>1, <3>2, <3>4 DEF Operands
    <3>6. Own'
      <4> PICK K : K = Len(scopes)  OBVIOUS
      <4>1. labels' = labels /\ pending' = pending  BY <3>1
      <4>2. /\ Len(scopes') = K + 1 /\ K \in Nat
            /\ \A k \in 1 .. K : scopes'[k] = scopes[k]
            /\ DOMAIN scopes'[K + 1] = {}
        BY <1>4, <2>1, <3>1, <3>3, <4>1, EnterIs
      <4>3. ASSUME NEW k \in 1 .. Len(scopes'), NEW m \in DOMAIN scopes'[k]
            PROVE  \E j \in 1 .. Len(scopes) : \E o \in DOMAIN scopes[j] : scopes'[k][m] = scopes[j][o]
        <5>1. k # K + 1  BY <4>2
        <5>2. k \in 1 .. K  BY <4>2, <5>1
        <5> QED  BY <4>2, <5>2
      <4>4. note.what \notin {"back", "forth"} /\ note.what # "use"  BY <3>2
      <4> QED  BY <1>4, <1>5, <3>1, <3>2, <4>1, <4>3, <4>4, OwnNext
    <3> QED  BY <3>5, <3>6
  <2>3. CASE ExitProc
    <3> PICK note : note = Note("endp", NoName, None)  OBVIOUS
    <3>1. log' = Append(log, note) /\ note.procs = procs /\ note.what = "endp"
      BY <2>3 DEF ExitProc, Read, Note
    <3>2. UNCHANGED <<slots, cells, pending>>  BY <2>3 DEF ExitProc
    <3>3. CASE Len(scopes) = 1
      <4>1. errors' = errors \union {"no proc"}  BY <2>3, <3>3 DEF ExitProc
      <4> QED  BY <4>1
    <3>4. CASE Len(scopes) # 1
      <4>1. errors' = errors
               \union (IF \E n \in Handed : n \in DOMAIN scopes[1] /\ Clash(LabelAt(1, n))
                       THEN {"duplicate"} ELSE {})
               \union (IF Missing # {} THEN {"undefined local"} ELSE {})
        BY <1>4, <2>3, <3>4, ExitIs
      <4>2. Missing = {} /\ \A n \in Handed : n \in DOMAIN scopes[1] => ~ Clash(LabelAt(1, n))
        BY <4>1
      <4>3. pending' = pending  BY <3>2
      <4>4. Own'  BY <1>4, <1>5, <2>1, <2>3, <3>1, <3>4, <4>2, <4>3, ExitOwn
      <4>5. NextProcs /\ Grown  BY <1>4, <2>1, <2>3, <3>2, ExitType, SameGrows
      <4>6. Laid' /\ Stored'  BY <1>6, <3>1, <4>5 DEF Operands
      <4> QED  BY <4>4, <4>6
    <3> QED  BY <3>3, <3>4
  <2>4. CASE Finish
    <3>1. UNCHANGED <<labels, scopes, procs, slots, cells, log, pending>>  BY <2>4 DEF Finish
    <3> QED  BY <1>9, <3>1
  <2>5. ASSUME NEW n \in Names, LocalLabel(n) PROVE Own' /\ Laid' /\ Stored'
    <3>1. PICK name, note :
              /\ name = Qualified(n) /\ note = Note("local", name, None) /\ name[2] \in Names
              /\ note.what = "local" /\ note.name = name /\ note.procs = procs
              /\ log' = Append(log, note) /\ procs' = procs /\ Puts(name, note)
      BY <1>4, <2>5, LocalPuts
    <3>2. UNCHANGED <<slots, cells, pending>>  BY <2>5 DEF LocalLabel
    <3>3. PICK l : IsLabel(l) /\ PutLabel(name, l)  BY <3>1 DEF Puts
    <3>4. Own'  BY <1>4, <1>5, <2>1, <3>1, <3>2, <3>3, PutOwn
    <3>5. NextProcs /\ Grown  BY <3>1, <3>2, SameGrows DEF NextProcs
    <3>6. Laid' /\ Stored'  BY <1>6, <3>1, <3>5 DEF Operands
    <3> QED  BY <3>4, <3>6
  <2>6. ASSUME NEW n \in Names, DeclareLabel(n) PROVE Own' /\ Laid' /\ Stored'
    <3>1. PICK name, note :
              /\ name = Qualified(n) /\ note = Note("label", name, None) /\ name[2] \in Names
              /\ note.what = "label" /\ note.name = name /\ note.procs = procs /\ note.addr = index
              /\ log' = Append(log, note) /\ procs' = procs /\ Puts(name, note)
      BY <1>1, <1>4, <2>6, DeclarePuts
    <3>2. slots' = SlotAt(slots, index) /\ cells' = CellAt(index) /\ pending' = pending
      BY <2>6 DEF DeclareLabel
    <3>3. PICK l : IsLabel(l) /\ PutLabel(name, l)  BY <3>1 DEF Puts
    <3>4. Own'  BY <1>4, <1>5, <2>1, <3>1, <3>2, <3>3, PutOwn
    <3>5. NextProcs /\ Grown  BY <1>5, <3>1, <3>2, MarkGrows DEF NextProcs
    <3>6. Laid' /\ Stored'  BY <1>6, <3>1, <3>5 DEF Operands
    <3> QED  BY <3>4, <3>6
  <2>7. ASSUME NEW n \in Names, UseLabel(n) PROVE Own' /\ Laid' /\ Stored'
    BY <1>2, <1>3, <1>4, <1>5, <2>1, <2>7, UseMemory
  <2>8. CASE AddEmpty
    <3> PICK note : note = Note("empty", NoName, None)  OBVIOUS
    <3> PICK instr : instr = [id |-> None, pending |-> TRUE]  OBVIOUS
    <3>1. log' = Append(log, note) /\ UNCHANGED <<labels, scopes, procs, pending>> /\ AddInstruction(instr, 0, 0)
      BY <2>8 DEF AddEmpty, Read
    <3>2. note.what = "empty" /\ note.procs = procs /\ note.addr = index /\ note.id = None  BY DEF Note
    <3>3. note.id = instr.id  BY <3>2
    <3>4. Given(note, instr, 0, 0)  BY <1>3, <1>5, <3>1, <3>2, <3>3, AddGives
    <3>5. NextProcs  BY <3>1 DEF NextProcs
    <3> PICK N : N = Now  OBVIOUS
    <3>6. Laid'  BY <1>4, <1>5, <3>1, <3>2, <3>4, LaidGiven
    <3>7. note.what \notin Operands /\ note.what # "use" /\ note.what \notin {"back", "forth"}
      BY <3>2 DEF Operands
    <3>8. Stored'  BY <1>2, <1>4, <1>5, <3>1, <3>2, <3>4, <3>5, <3>7, StoredGiven
    <3>9. Own'
      <4>1. labels' = labels /\ scopes' = scopes /\ pending' = pending  BY <3>1
      <4> QED  BY <1>7, <3>1, <3>2, <3>7, <4>1
    <3> QED  BY <3>6, <3>8, <3>9
  <2>9. ASSUME NEW stack, SwitchNamespace(stack) PROVE Own' /\ Laid' /\ Stored'
    <3> PICK note : note = Note("namespace", NoName, None)  OBVIOUS
    <3>1. log' = Append(log, note) /\ UNCHANGED <<labels, scopes, procs, slots, cells, pending>>
      BY <2>9 DEF SwitchNamespace
    <3>2. note.what = "namespace" /\ note.procs = procs  BY DEF Note
    <3> QED  BY <1>8, <3>1, <3>2 DEF Operands
  <2>10. CASE PopNamespace
    <3>1. \E stack : SwitchNamespace(stack)  BY <2>10, Zenon DEF PopNamespace
    <3> QED  BY <2>9, <3>1
  <2>11. ASSUME NEW ns \in Namespaces, PushNamespace(ns) PROVE Own' /\ Laid' /\ Stored'
    <3>1. \E stack : SwitchNamespace(stack)  BY <2>11, Zenon DEF PushNamespace
    <3> QED  BY <2>9, <3>1
  <2>12. ASSUME NEW a \in Lines, NEW f \in Files, LineDirective(a, f) PROVE Own' /\ Laid' /\ Stored'
    <3> PICK note : note = Note("line", NoName, None)  OBVIOUS
    <3>1. log' = Append(log, note) /\ UNCHANGED <<labels, scopes, procs, slots, cells, pending>>
      BY <2>12 DEF LineDirective
    <3>2. note.what = "line" /\ note.procs = procs  BY DEF Note
    <3> QED  BY <1>8, <3>1, <3>2 DEF Operands
  <2>13. ASSUME NEW a \in Origins, SetOrg(a) PROVE Own' /\ Laid' /\ Stored'
    <3> PICK note : note = Note("org", NoName, None)  OBVIOUS
    <3>1. log' = Append(log, note) /\ UNCHANGED <<labels, scopes, procs, slots, cells>> /\ pending' = <<>>
      BY <2>13 DEF SetOrg, Read
    <3>2. note.what = "org" /\ note.procs = procs  BY DEF Note
    <3> QED  BY <1>8, <3>1, <3>2 DEF Operands
  <2>14. ASSUME NEW t \in Temporaries, DeclareTemporary(t) PROVE Own' /\ Laid' /\ Stored'
    <3> PICK note : note = Note("label", Qualified(t), None)  OBVIOUS
    <3>1. log' = Append(log, note) /\ UNCHANGED <<labels, scopes, procs, slots, cells, pending>>
      BY <2>14 DEF DeclareTemporary, Read
    <3>2. note.what = "label" /\ note.procs = procs  BY DEF Note
    <3> QED  BY <1>8, <3>1, <3>2 DEF Operands
  <2>15. ASSUME NEW t \in Temporaries, NEW dir \in {-1, 1}, UseTemporary(t, dir)
         PROVE  Own' /\ Laid' /\ Stored'
    <3> PICK m : m = Label(Qualified(t), None, dir)  OBVIOUS
    <3> PICK id : id = Len(labels) + 1  OBVIOUS
    <3> PICK note : note = Note(IF dir < 0 THEN "back" ELSE "forth", Qualified(t), id)  OBVIOUS
    <3> PICK instr : instr = [id |-> id, pending |-> TRUE]  OBVIOUS
    <3>1. /\ log' = Append(log, note) /\ labels' = Append(labels, m) /\ scopes' = scopes /\ procs' = procs
          /\ pending' = Append(pending, Len(labels'))
          /\ AddInstruction([id |-> Len(labels'), pending |-> TRUE], 1, 0)
      BY <2>15 DEF UseTemporary, Read
    <3>2. /\ IsSeq(labels) /\ Len(labels) \in Nat /\ Len(labels') = id
          /\ \A i \in 1 .. Len(labels) : i \in 1 .. Len(labels')
      <4>1. IsSeq(labels)  BY <1>4 DEF TypeInv, LabelsOK
      <4>2. Len(labels) \in Nat  BY <4>1 DEF IsSeq
      <4>3. Len(labels') = Len(labels) + 1  BY <3>1, <4>1, AppendIs
      <4> QED  BY <4>1, <4>2, <4>3
    <3>3. pending' = Append(pending, id) /\ AddInstruction(instr, 1, 0)  BY <3>1, <3>2
    <3>4. /\ note.what \in {"back", "forth"} /\ note.procs = procs /\ note.addr = index /\ note.id = id
          /\ note.what # "use"
      BY DEF Note
    <3>5. note.id = instr.id /\ note.id # None /\ note.id \in 1 .. Len(labels')  BY <3>2, <3>4 DEF None
    <3>6. instr.pending  OBVIOUS
    <3>7. Given(note, instr, 1, 0)  BY <1>3, <1>5, <3>3, <3>4, <3>5, AddGives
    <3>8. NextProcs  BY <3>1 DEF NextProcs
    <3>9. note.what \in Operands  BY <3>4 DEF Operands
    <3>10. Laid'  BY <1>4, <1>5, <3>1, <3>4, <3>7, <3>9, LaidGiven
    <3>11. Stored'
      <4> PICK N : N = Now  OBVIOUS
      <4> QED  BY <1>2, <1>4, <1>5, <3>1, <3>4, <3>5, <3>6, <3>7, <3>8, <3>9, StoredGiven
    <3>12. Own'
      <4>1. \A k \in 1 .. Len(scopes') : \A n \in DOMAIN scopes'[k] :
               \E j \in 1 .. Len(scopes) : \E o \in DOMAIN scopes[j] : scopes'[k][n] = scopes[j][o]
        BY <3>1
      <4> QED  BY <1>4, <1>5, <3>1, <3>2, <3>3, <3>4, <3>5, <4>1, OwnNext
    <3> QED  BY <3>10, <3>11, <3>12
  <2> QED
    BY <1>11, <2>2, <2>3, <2>4, <2>5, <2>6, <2>7, <2>8, <2>10, <2>11, <2>12, <2>13, <2>14, <2>15
    DEF Next, Statement
<1> QED  BY <1>10, <1>11

\* The memory of the empty program.
LEMMA MemoryInit ==
    Init => MemoryKnown
<1> SUFFICES ASSUME Init PROVE MemoryKnown  OBVIOUS
<1>1. OperandsKnown  BY KnownInit
<1>2. log = <<>> /\ cells = [a \in {} |-> 0] /\ slots = [a \in {} |-> <<>>] /\ pending = <<>>
  BY DEF Init
<1>3. \A w : Where(w) = {}  BY <1>2 DEF Where
<1>4. Temps = {} /\ Asking = {}  BY <1>3 DEF Temps, Asking, Uses
<1>5. IsSeq(pending) /\ Len(pending) = 0
  <2>1. <<>> \in Seq({})  OBVIOUS
  <2> QED  BY <1>2, <2>1 DEF IsSeq
<1>6. Own  BY <1>4, <1>5 DEF Own
<1>7. DOMAIN slots = {} /\ DOMAIN cells = {}  BY <1>2
<1>8. Laid
  <2>1. 0 \in Nat /\ \A a \in DOMAIN cells : a \in 0 .. 0  BY <1>7
  <2> QED  BY <1>7, <2>1 DEF Laid
<1>9. Stored  BY <1>4 DEF Stored
<1> QED  BY <1>1, <1>6, <1>8, <1>9 DEF MemoryKnown, MemoryInv

\* What is known of the memory is kept by every statement.
LEMMA MemoryStays ==
    MemoryKnown /\ [Next]_vars => MemoryKnown'
<1> SUFFICES ASSUME MemoryKnown, [Next]_vars PROVE MemoryKnown'  OBVIOUS
<1>1. OperandsKnown'  BY KnownNext DEF MemoryKnown
<1>2. errors' = {} => Own' /\ Laid' /\ Stored'  BY MemoryNext
<1> QED  BY <1>1, <1>2 DEF MemoryKnown, MemoryInv

---------------------------
(* The dump. *)

\* The program is what the recursive function of Dumped gives.
LEMMA DumpedIs ==
    ASSUME NEW w, Dumps(w, Lowest(DOMAIN cells), Highest(DOMAIN cells))
    PROVE  \E f : /\ Dumps(f, Lowest(DOMAIN cells), Highest(DOMAIN cells))
                  /\ Dumped = f[Highest(DOMAIN cells)].out
<1> PICK lo, hi : lo = Lowest(DOMAIN cells) /\ hi = Highest(DOMAIN cells)  OBVIOUS
<1>1. PICK f : f = CHOOSE g : Dumps(g, lo, hi)  OBVIOUS
<1>2. Dumps(f, lo, hi)  BY <1>1
<1>3. Dumped = f[hi].out  BY <1>1 DEF Dumped, Dumps, Dumping, CellOf, Nothing
<1> QED  BY <1>2, <1>3

\* The addresses are dumped one after the other, whatever the program.
LEMMA DumpExists ==
    ASSUME NEW lo \in Nat, NEW hi \in Nat, lo <= hi
    PROVE  \E f : Dumps(f, lo, hi)
<1> DEFINE T == {x \in Nat : \E f : Dumps(f, lo, lo - 1 + x)}
<1>1. 0 \in T
  <2> DEFINE f == [a \in (lo - 1) .. (lo - 1) |-> Nothing]
  <2>1. lo - 1 + 0 = lo - 1 /\ (lo - 1) .. (lo - 1) = {lo - 1}  OBVIOUS
  <2>2. Dumps(f, lo, lo - 1)  BY <2>1 DEF Dumps
  <2> HIDE DEF f
  <2> QED  BY <2>1, <2>2, Zenon
<1>2. ASSUME NEW x \in Nat, x \in T PROVE x + 1 \in T
  <2>1. PICK h : h = lo + x /\ h \in Nat /\ lo - 1 + x = h - 1 /\ lo - 1 + (x + 1) = h /\ h - 1 \in Int /\ lo - 1 < h
    OBVIOUS
  <2>2. PICK f : Dumps(f, lo, h - 1)  BY <1>2, <2>1, Zenon
  <2> DEFINE g == [a \in (lo - 1) .. h |-> IF a = h THEN Dumping(f[h - 1], h) ELSE f[a]]
  <2>3. (lo - 1) .. h = ((lo - 1) .. (h - 1)) \union {h} /\ h \notin (lo - 1) .. (h - 1) /\ h - 1 \in (lo - 1) .. (h - 1)
    BY <2>1
  <2>4. \A a \in (lo - 1) .. (h - 1) : g[a] = f[a]
    <3>1. \A a \in (lo - 1) .. (h - 1) : a \in (lo - 1) .. h /\ a # h  BY <2>3
    <3> QED  BY <3>1
  <2>5. g[h] = Dumping(g[h - 1], h)
    <3>1. h \in (lo - 1) .. h  BY <2>3
    <3>2. g[h] = Dumping(f[h - 1], h)  BY <3>1
    <3>3. g[h - 1] = f[h - 1]  BY <2>3, <2>4
    <3> QED  BY <3>2, <3>3
  <2>6. \A a \in (lo - 1) .. (h - 1) : f[a] = IF a = lo - 1 THEN Nothing ELSE Dumping(f[a - 1], a)
    <3> HIDE DEF g
    <3> QED  BY <2>2 DEF Dumps
  <2>7. g = [a \in (lo - 1) .. h |-> g[a]]  OBVIOUS
  <2> HIDE DEF g
  <2>8. ASSUME NEW a \in (lo - 1) .. h PROVE g[a] = IF a = lo - 1 THEN Nothing ELSE Dumping(g[a - 1], a)
    <3>1. CASE a = h
      <4>1. a # lo - 1  BY <3>1, <2>1
      <4> QED  BY <3>1, <4>1, <2>5
    <3>2. CASE a # h
      <4>1. a \in (lo - 1) .. (h - 1) /\ (a # lo - 1 => a - 1 \in (lo - 1) .. (h - 1))  BY <3>2, <2>1
      <4>2. g[a] = f[a] /\ (a # lo - 1 => g[a - 1] = f[a - 1])  BY <4>1, <2>4
      <4> QED  BY <4>1, <4>2, <2>6
    <3> QED  BY <3>1, <3>2
  <2>9. Dumps(g, lo, h)
    <3>1. [a \in (lo - 1) .. h |-> g[a]] = [a \in (lo - 1) .. h |-> IF a = lo - 1 THEN Nothing ELSE Dumping(g[a - 1], a)]
      BY <2>8
    <3> QED  BY <2>7, <3>1 DEF Dumps
  <2>10. x + 1 \in Nat  OBVIOUS
  <2> QED  BY <2>1, <2>9, <2>10, Zenon
<1> HIDE DEF T
<1>3. Nat \subseteq T  BY <1>1, <1>2, SetInduction
<1>4. hi - lo + 1 \in Nat /\ lo - 1 + (hi - lo + 1) = hi  OBVIOUS
<1>5. hi - lo + 1 \in T  BY <1>3, <1>4
<1> QED  BY <1>4, <1>5 DEF T

\* One more address is dumped or held back.
LEMMA DumpStep ==
    ASSUME NEW lo \in Nat, NEW x \in Nat, NEW p, DumpsTo(p, lo, x)
    PROVE  DumpsTo(Dumping(p, lo + x), lo, x + 1)
<1> PICK a : a = lo + x  OBVIOUS
<1>1. PICK o, h : /\ p = [out |-> o, held |-> h]
                  /\ IsSeq(o) /\ IsSeq(h) /\ Len(o) + Len(h) = x
                  /\ \A b \in 1 .. x : lo - 1 + b \in DOMAIN slots /\ slots[lo - 1 + b] # <<>> =>
                        b <= Len(o) /\ o[b] = CellOf(lo - 1 + b)
  BY DEF DumpsTo
<1>2. /\ p.out = o /\ p.held = h
      /\ \A v : [p EXCEPT !.held = v] = [out |-> o, held |-> v]
      /\ \A v : [p EXCEPT !.out = v] = [out |-> v, held |-> h]
  BY <1>1
<1>3. PICK n, m : n = Len(o) /\ m = Len(h) /\ n \in Nat /\ m \in Nat /\ n + m = x
  <2>1. Len(o) \in Nat /\ Len(h) \in Nat  BY <1>1 DEF IsSeq
  <2> QED  BY <1>1, <2>1
<1>4. ASSUME NEW b \in 1 .. x + 1 PROVE b \in 1 .. x \/ (b = x + 1 /\ lo - 1 + b = a)  OBVIOUS
<1>5. CASE a \in DOMAIN slots /\ slots[a] = <<>>
  <2>1. Dumping(p, a) = [out |-> o, held |-> Append(h, 0)]  BY <1>5, <1>2 DEF Dumping
  <2>2. IsSeq(Append(h, 0)) /\ Len(Append(h, 0)) = m + 1  BY <1>1, <1>3, AppendIs
  <2>3. n + (m + 1) = x + 1  BY <1>3
  <2>4. \A b \in 1 .. x + 1 : lo - 1 + b \in DOMAIN slots /\ slots[lo - 1 + b] # <<>> =>
           b <= Len(o) /\ o[b] = CellOf(lo - 1 + b)
    BY <1>1, <1>4, <1>5, Zenon
  <2>5. DumpsTo([out |-> o, held |-> Append(h, 0)], lo, x + 1)
    <3>1. Len(o) + Len(Append(h, 0)) = x + 1  BY <2>2, <2>3, <1>3, Zenon
    <3> QED  BY <1>1, <2>2, <2>4, <3>1, Zenon DEF DumpsTo
  <2> QED  BY <2>1, <2>5
<1>6. CASE a \in DOMAIN slots /\ slots[a] # <<>>
  <2> PICK q : q = o \o h  OBVIOUS
  <2> PICK r : r = Append(q, CellOf(a))  OBVIOUS
  <2>1. IsSeq(q) /\ Len(q) = n + m /\ \A i \in 1 .. n : q[i] = o[i]  BY <1>1, <1>3, JoinIs
  <2>2. Dumping(p, a) = [out |-> r, held |-> <<>>]  BY <1>6, <1>2 DEF Dumping, Flush
  <2>3. /\ IsSeq(r) /\ Len(r) = n + m + 1 /\ r[n + m + 1] = CellOf(a)
        /\ \A i \in 1 .. n + m : r[i] = q[i]
    BY <2>1, AppendIs
  <2>4. Len(r) = x + 1 /\ r[x + 1] = CellOf(a) /\ \A i \in 1 .. n : r[i] = o[i]
    <3>1. \A i \in 1 .. n : i \in 1 .. n + m  BY <1>3
    <3> QED  BY <2>1, <2>3, <3>1, <1>3
  <2>5. ASSUME NEW b \in 1 .. x + 1, lo - 1 + b \in DOMAIN slots, slots[lo - 1 + b] # <<>>
        PROVE  b <= Len(r) /\ r[b] = CellOf(lo - 1 + b)
    <3>1. b <= Len(r)
      <4>1. b <= x + 1  OBVIOUS
      <4> QED  BY <4>1, <2>4
    <3>2. CASE b \in 1 .. x
      <4>1. b <= n /\ o[b] = CellOf(lo - 1 + b)  BY <3>2, <2>5, <1>1, <1>3
      <4>2. b \in 1 .. n  BY <4>1, <1>3
      <4> QED  BY <3>1, <4>1, <4>2, <2>4
    <3>3. CASE b = x + 1 /\ lo - 1 + b = a  BY <3>1, <3>3, <2>4, Zenon
    <3> QED  BY <3>2, <3>3, <1>4
  <2>6. IsSeq(<<>>) /\ Len(r) + Len(<<>>) = x + 1
    <3>1. <<>> \in Seq({}) /\ Len(<<>>) = 0  OBVIOUS
    <3>2. Len(r) + 0 = x + 1  BY <2>4
    <3> QED  BY <3>1, <3>2 DEF IsSeq
  <2>7. DumpsTo([out |-> r, held |-> <<>>], lo, x + 1)  BY <2>3, <2>5, <2>6, Zenon DEF DumpsTo
  <2> QED  BY <2>2, <2>7
<1>7. CASE a \notin DOMAIN slots
  <2> PICK r : r = Append(o, CellOf(a))  OBVIOUS
  <2>1. Dumping(p, a) = [out |-> r, held |-> h]  BY <1>7, <1>2 DEF Dumping
  <2>2. IsSeq(r) /\ Len(r) = n + 1 /\ \A i \in 1 .. n : r[i] = o[i]  BY <1>1, <1>3, AppendIs
  <2>3. ASSUME NEW b \in 1 .. x + 1, lo - 1 + b \in DOMAIN slots, slots[lo - 1 + b] # <<>>
        PROVE  b <= Len(r) /\ r[b] = CellOf(lo - 1 + b)
    <3>1. b \in 1 .. x  BY <2>3, <1>4, <1>7
    <3>2. b <= n /\ o[b] = CellOf(lo - 1 + b)  BY <3>1, <2>3, <1>1, <1>3
    <3>3. b \in 1 .. n /\ b <= n + 1  BY <3>1, <3>2, <1>3
    <3> QED  BY <3>2, <3>3, <2>2
  <2>4. Len(r) + Len(h) = x + 1
    <3>1. n + 1 + m = x + 1  BY <1>3
    <3> QED  BY <3>1, <2>2, <1>3, Zenon
  <2>5. DumpsTo([out |-> r, held |-> h], lo, x + 1)  BY <1>1, <2>2, <2>3, <2>4, Zenon DEF DumpsTo
  <2> QED  BY <2>1, <2>5
<1> QED  BY <1>5, <1>6, <1>7

\* All of them are.
LEMMA DumpTo ==
    ASSUME NEW lo \in Nat, NEW hi \in Nat, lo <= hi, NEW f, Dumps(f, lo, hi)
    PROVE  DumpsTo(f[hi], lo, hi - lo + 1)
<1> DEFINE T == {x \in Nat : lo - 1 + x <= hi => DumpsTo(f[lo - 1 + x], lo, x)}
<1>1. \A a \in (lo - 1) .. hi : f[a] = IF a = lo - 1 THEN Nothing ELSE Dumping(f[a - 1], a)
  BY DEF Dumps
<1>2. 0 \in T
  <2>1. f[lo - 1] = Nothing
    <3>1. lo - 1 \in (lo - 1) .. hi  OBVIOUS
    <3> QED  BY <1>1, <3>1
  <2>2. IsSeq(<<>>) /\ Len(<<>>) + Len(<<>>) = 0
    <3>1. <<>> \in Seq({}) /\ Len(<<>>) = 0  OBVIOUS
    <3> QED  BY <3>1 DEF IsSeq
  <2>3. \A b \in 1 .. 0 : FALSE  OBVIOUS
  <2>4. DumpsTo(Nothing, lo, 0)
    <3>1. Nothing = [out |-> <<>>, held |-> <<>>]  BY DEF Nothing
    <3> HIDE DEF T
    <3> QED  BY <2>2, <2>3, <3>1 DEF DumpsTo
  <2>5. lo - 1 + 0 = lo - 1 /\ 0 \in Nat  OBVIOUS
  <2> QED  BY <2>1, <2>4, <2>5
<1>3. ASSUME NEW x \in Nat, x \in T PROVE x + 1 \in T
  <2>1. SUFFICES ASSUME lo - 1 + (x + 1) <= hi PROVE DumpsTo(f[lo - 1 + (x + 1)], lo, x + 1)
    OBVIOUS
  <2>2. /\ lo - 1 + (x + 1) = lo + x /\ lo - 1 + x = lo + x - 1 /\ lo + x \in (lo - 1) .. hi /\ lo + x # lo - 1
        /\ lo - 1 + x <= hi
    BY <2>1
  <2>3. DumpsTo(f[lo + x - 1], lo, x)  BY <1>3, <2>2
  <2>4. f[lo + x] = Dumping(f[lo + x - 1], lo + x)  BY <1>1, <2>2
  <2>5. DumpsTo(Dumping(f[lo + x - 1], lo + x), lo, x + 1)  BY <2>3, DumpStep
  <2> QED  BY <2>2, <2>4, <2>5
<1> HIDE DEF T
<1>4. Nat \subseteq T  BY <1>2, <1>3, SetInduction
<1>5. hi - lo + 1 \in Nat /\ lo - 1 + (hi - lo + 1) = hi /\ hi <= hi  OBVIOUS
<1>6. hi - lo + 1 \in T  BY <1>4, <1>5
<1> QED  BY <1>5, <1>6 DEF T

\* The lowest and the highest of a set of addresses.
LEMMA EndsAre ==
    ASSUME NEW b \in Nat, NEW S \in SUBSET (0 .. b), S # {}
    PROVE  /\ Lowest(S) \in S /\ \A y \in S : Lowest(S) <= y
           /\ Highest(S) \in S /\ \A y \in S : y <= Highest(S)
<1>1. S \in SUBSET Nat  OBVIOUS
<1>2. PICK x \in S : \A y \in S : ~ (y < x)  BY <1>1, LeastExists
<1>3. \A y \in S : x <= y  BY <1>1, <1>2
<1>4. Lowest(S) \in S /\ \A y \in S : Lowest(S) <= y  BY <1>3 DEF Lowest
<1>5. PICK h \in S : \A y \in S : h >= y  BY GreatestExists
<1>6. Highest(S) \in S /\ \A y \in S : Highest(S) >= y  BY <1>5 DEF Highest
<1>7. \A y \in S : y <= Highest(S)
  <2>1. PICK z : z = Highest(S)  OBVIOUS
  <2> QED  BY <2>1, <1>6, <1>1
<1> QED  BY <1>4, <1>6, <1>7

\* The dump has the cell of every address with an instruction at its place.
LEMMA DumpIs ==
    ASSUME Laid, DOMAIN cells # {}
    PROVE  /\ IsSeq(Dumped)
           /\ \A a \in DOMAIN slots : slots[a] # <<>> =>
                 /\ a \in Nat /\ Lowest(DOMAIN cells) \in Nat
                 /\ a - Lowest(DOMAIN cells) + 1 \in 1 .. Len(Dumped)
                 /\ Dumped[a - Lowest(DOMAIN cells) + 1] = CellOf(a)
<1>1. PICK b \in Nat : DOMAIN cells \in SUBSET (0 .. b)  BY DEF Laid
<1> PICK lo, hi : lo = Lowest(DOMAIN cells) /\ hi = Highest(DOMAIN cells)  OBVIOUS
<1>2. /\ lo \in DOMAIN cells /\ hi \in DOMAIN cells
      /\ \A y \in DOMAIN cells : lo <= y /\ y <= hi
  BY <1>1, EndsAre
<1>3. lo \in Nat /\ hi \in Nat /\ lo <= hi  BY <1>1, <1>2
<1>4. PICK w : Dumps(w, lo, hi)  BY <1>3, DumpExists
<1>5. PICK f : Dumps(f, lo, hi) /\ Dumped = f[hi].out  BY <1>4, DumpedIs
<1>6. DumpsTo(f[hi], lo, hi - lo + 1)  BY <1>3, <1>5, DumpTo
<1>7. PICK o, h : /\ f[hi] = [out |-> o, held |-> h]
                  /\ IsSeq(o) /\ IsSeq(h)
                  /\ \A x \in 1 .. hi - lo + 1 : lo - 1 + x \in DOMAIN slots /\ slots[lo - 1 + x] # <<>> =>
                        x <= Len(o) /\ o[x] = CellOf(lo - 1 + x)
  BY <1>6, Zenon DEF DumpsTo
<1>8. Dumped = o  BY <1>5, <1>7
<1>9. PICK n : n = Len(o) /\ n \in Nat  BY <1>7 DEF IsSeq
<1>10. ASSUME NEW a \in DOMAIN slots, slots[a] # <<>>
       PROVE  a \in Nat /\ a - lo + 1 \in 1 .. n /\ o[a - lo + 1] = CellOf(a)
  <2>1. a \in DOMAIN cells  BY DEF Laid
  <2>2. a \in Nat /\ lo <= a /\ a <= hi  BY <2>1, <1>1, <1>2
  <2>3. PICK x : x = a - lo + 1 /\ x \in 1 .. hi - lo + 1 /\ lo - 1 + x = a  BY <2>2, <1>3
  <2>4. x <= n /\ o[x] = CellOf(a)  BY <1>7, <1>9, <1>10, <2>3
  <2> QED  BY <2>2, <2>3, <2>4, <1>9
<1> QED  BY <1>3, <1>7, <1>8, <1>9, <1>10

---------------------------
(* The end of the program. *)

\* When the program ends without an error, every label of an operand has a value,
\* and the dump shows it.
LEMMA DumpedUses ==
    ASSUME MemoryKnown, errors = {}, procs = <<>>, NEW u \in Uses,
           \A n \in DOMAIN scopes[1] : ~ Undefined(labels[scopes[1][n]].value)
    PROVE  /\ Clash(LabelOf(u))
           /\ log[u].addr \in DOMAIN cells /\ cells # <<>>
           /\ log[u].addr - Lowest(DOMAIN cells) + 1 \in 1 .. Len(Dumped)
           /\ Alone(u) /\ (~ EmptyAt(log[u].addr) \/ ~ Late(u)) =>
                 Dumped[log[u].addr - Lowest(DOMAIN cells) + 1] = LabelOf(u).value
<1>1. Quiet /\ OperandsInv /\ Own /\ Laid /\ Stored /\ TypeInv
  BY DEF MemoryKnown, MemoryInv, OperandsKnown, Quiet, DuplicatesInv
<1> PICK a, id : a = log[u].addr /\ id = log[u].id  OBVIOUS
<1>2. Len(scopes) = 1
  <2>1. Len(procs) = 0  OBVIOUS
  <2>2. Len(scopes) = Len(procs) + 1  BY <1>1 DEF TypeInv, LabelsOK
  <2> QED  BY <2>1, <2>2
<1>3. Clash(LabelOf(u))
  <2> SUFFICES ASSUME ~ Clash(LabelOf(u)) PROVE FALSE  OBVIOUS
  <2>1. PICK k \in 1 .. Len(scopes) : \E n \in DOMAIN scopes[k] : scopes[k][n] = id
    BY <1>1 DEF OperandsInv, Waiting
  <2>2. k = 1  BY <1>2
  <2>3. PICK n \in DOMAIN scopes[1] : scopes[1][n] = id  BY <2>1, <2>2
  <2> QED  BY <2>3 DEF Clash, LabelOf
<1>4. /\ a \in DOMAIN slots /\ slots[a] # <<>> /\ (Alone(u) => Ready(u))
      /\ DOMAIN slots = DOMAIN cells /\ a \in DOMAIN cells
  BY <1>1 DEF Stored, Asking, Laid
<1>5. DOMAIN cells # {} /\ cells # <<>>  BY <1>4
<1>6. a - Lowest(DOMAIN cells) + 1 \in 1 .. Len(Dumped) /\ Dumped[a - Lowest(DOMAIN cells) + 1] = CellOf(a)
  BY <1>1, <1>4, <1>5, DumpIs
<1>7. id # None /\ id \in 1 .. Len(labels)
  <2>1. id \in 1 .. Len(labels)  BY <1>1 DEF OperandsInv, UsesNamed
  <2>2. -1 \notin 1 .. Len(labels)  OBVIOUS
  <2> QED  BY <2>1, <2>2 DEF None
<1>8. Value(id) = LabelOf(u).value
  <2>1. \A k \in DOMAIN pending : pending[k] # id
    <3>1. DOMAIN pending = 1 .. Len(pending)  BY <1>1 DEF Own, IsSeq
    <3>2. ASSUME NEW k \in DOMAIN pending, pending[k] = id PROVE FALSE
      <4>1. PICK v \in Temps : pending[k] = log[v].id  BY <1>1, <3>1 DEF Own
      <4>2. u = v  BY <1>1, <3>2, <4>1 DEF Own, Asking
      <4>3. log[u].what = "use" /\ (log[u].what = "back" \/ log[u].what = "forth")
        BY <4>1, <4>2 DEF Uses, Temps, Where
      <4> QED  BY <4>3
    <3> QED  BY <3>2
  <2> QED  BY <2>1 DEF Value, LabelOf
<1>9. ASSUME Alone(u), ~ EmptyAt(a) \/ ~ Late(u) PROVE CellOf(a) = LabelOf(u).value
  <2>1. Ready(u)  BY <1>4, <1>9
  <2>2. Late(u) \/ Written(u)  BY <2>1 DEF Ready
  <2>3. (slots[a][1].id = None /\ EmptyAt(a)) \/ slots[a][1].id = id
    <3>1. \/ slots[a][1].id = None /\ EmptyAt(a)
          \/ \E v \in Asking : log[v].addr = a /\ slots[a][1].id = log[v].id
      BY <1>1, <1>4 DEF Laid
    <3> QED  BY <3>1, <1>9 DEF Alone
  <2>4. CASE slots[a][1].id = None /\ EmptyAt(a)
    <3>1. Written(u)  BY <2>2, <2>4, <1>9
    <3>2. CellOf(a) = cells[a]  BY <1>4, <2>4 DEF CellOf
    <3> QED  BY <3>1, <3>2 DEF Written
  <2>5. CASE slots[a][1].id = id
    <3>1. slots[a][1].pending \/ Written(u)  BY <2>1, <2>5 DEF Ready
    <3>2. CASE slots[a][1].pending  BY <1>4, <1>7, <1>8, <2>5, <3>2 DEF CellOf
    <3>3. CASE ~ slots[a][1].pending /\ Written(u)
      <4>1. CellOf(a) = cells[a]  BY <1>4, <3>3 DEF CellOf
      <4> QED  BY <4>1, <3>3 DEF Written
    <3> QED  BY <3>1, <3>2, <3>3
  <2> QED  BY <2>3, <2>4, <2>5
<1> QED  BY <1>3, <1>4, <1>5, <1>6, <1>9

\* The end of the program prints its operands.
LEMMA FinishFinal ==
    ASSUME MemoryKnown, Finish
    PROVE  Final'
<1> SUFFICES ASSUME errors' = {} PROVE Printed' /\ procs' = <<>>  BY Zenon DEF Final
<1>1. /\ cells' = cells /\ log' = log /\ labels' = labels /\ scopes' = scopes /\ procs' = procs
  BY DEF Finish
<1>2. errors = {} /\ procs = <<>>
  <2>1. errors' = {} => errors = {} /\ (IF procs # <<>> THEN {"no endp"} ELSE {}) = {}  BY DEF Finish
  <2> QED  BY <2>1
<1>3. cells # <<>> =>
         /\ \A n \in DOMAIN scopes[1] : ~ Undefined(labels[scopes[1][n]].value)
         /\ output' = Dumped
  <2> SUFFICES ASSUME cells # <<>> PROVE /\ \A n \in DOMAIN scopes[1] : ~ Undefined(labels[scopes[1][n]].value)
                                         /\ output' = Dumped
    OBVIOUS
  <2>1. output' = Dumped  BY Zenon DEF Finish
  <2>2. ~ \E n \in DOMAIN scopes[1] : Undefined(labels[scopes[1][n]].value)
    <3>1. "undefined" \notin errors'  OBVIOUS
    <3> QED  BY <3>1 DEF Finish
  <2> QED  BY <2>1, <2>2
<1>4. Uses' = Uses  BY <1>1 DEF Uses, Where
<1>5. ASSUME NEW u \in Uses'
      PROVE  /\ Clash(LabelOf(u))'
             /\ log'[u].addr \in DOMAIN cells'
             /\ log'[u].addr - Lowest(DOMAIN cells') + 1 \in 1 .. Len(output')
             /\ (Alone(u) /\ (~ EmptyAt(log[u].addr) \/ ~ Late(u)))' =>
                   output'[log'[u].addr - Lowest(DOMAIN cells') + 1] = LabelOf(u).value'
  <2>1. u \in Uses  BY <1>4, <1>5
  <2>2. cells # <<>>
    <3>1. log[u].addr \in DOMAIN slots /\ DOMAIN slots = DOMAIN cells
      BY <1>2, <2>1 DEF MemoryKnown, MemoryInv, Stored, Laid, Asking
    <3> QED  BY <3>1
  <2>3. \A n \in DOMAIN scopes[1] : ~ Undefined(labels[scopes[1][n]].value)  BY <1>3, <2>2
  <2>4. /\ Clash(LabelOf(u))
        /\ log[u].addr \in DOMAIN cells
        /\ log[u].addr - Lowest(DOMAIN cells) + 1 \in 1 .. Len(Dumped)
        /\ Alone(u) /\ (~ EmptyAt(log[u].addr) \/ ~ Late(u)) =>
              Dumped[log[u].addr - Lowest(DOMAIN cells) + 1] = LabelOf(u).value
    BY <1>2, <2>1, <2>3, DumpedUses
  <2>5. output' = Dumped  BY <1>3, <2>2
  <2>6. (LabelOf(u) = LabelOf(u)') /\ (Clash(LabelOf(u)) <=> Clash(LabelOf(u))')  BY <1>1 DEF LabelOf, Clash, Undefined
  <2>7. Alone(u)' <=> Alone(u)
    <3>1. Asking' = Asking  BY <1>1 DEF Asking, Temps, Uses, Where
    <3> QED  BY <1>1, <3>1 DEF Alone
  <2>8. EmptyAt(log[u].addr)' <=> EmptyAt(log[u].addr)  BY <1>1 DEF EmptyAt, Where
  <2>9. Late(u)' <=> Late(u)
    <3>1. \A d : Means(u, d)' <=> Means(u, d)
      BY <1>1, Zenon DEF Means, Settled, Hidden, LocalIn, Where, ProcOf, Encloses, InReach, End, Last
    <3>2. Where("label")' = Where("label")  BY <1>1 DEF Where
    <3> QED  BY <1>1, <2>6, <3>1, <3>2, Zenon DEF Late
  <2>10. PICK lo : lo = Lowest(DOMAIN cells) /\ lo = Lowest(DOMAIN cells')  BY <1>1, Zenon
  <2>11. log'[u].addr \in DOMAIN cells' /\ log'[u].addr - lo + 1 \in 1 .. Len(output')
    BY <1>1, <2>4, <2>5, <2>10, Zenon
  <2>12. (Alone(u) /\ (~ EmptyAt(log[u].addr) \/ ~ Late(u)))' => output'[log'[u].addr - lo + 1] = LabelOf(u).value'
    BY <1>1, <2>4, <2>5, <2>6, <2>7, <2>8, <2>9, <2>10, Zenon
  <2> QED  BY <2>4, <2>6, <2>10, <2>11, <2>12, Zenon
<1> QED  BY <1>1, <1>2, <1>5, Zenon DEF Printed

\* What is printed stays so.
LEMMA PrintedStays ==
    ASSUME Printed, UNCHANGED vars
    PROVE  Printed'
<1>1. /\ cells' = cells /\ log' = log /\ labels' = labels /\ scopes' = scopes /\ procs' = procs
      /\ output' = output
  BY DEF vars
<1>2. Uses' = Uses  BY <1>1 DEF Uses, Where
<1>3. ASSUME NEW u \in Uses'
      PROVE  /\ Clash(LabelOf(u))'
             /\ log'[u].addr \in DOMAIN cells'
             /\ log'[u].addr - Lowest(DOMAIN cells') + 1 \in 1 .. Len(output')
             /\ (Alone(u) /\ (~ EmptyAt(log[u].addr) \/ ~ Late(u)))' =>
                   output'[log'[u].addr - Lowest(DOMAIN cells') + 1] = LabelOf(u).value'
  <2>1. u \in Uses  BY <1>2, <1>3
  <2>2. PICK lo : lo = Lowest(DOMAIN cells) /\ lo = Lowest(DOMAIN cells')  BY <1>1, Zenon
  <2>4. /\ Clash(LabelOf(u))
        /\ log[u].addr \in DOMAIN cells
        /\ log[u].addr - lo + 1 \in 1 .. Len(output)
        /\ Alone(u) /\ (~ EmptyAt(log[u].addr) \/ ~ Late(u)) => output[log[u].addr - lo + 1] = LabelOf(u).value
    BY <2>1, <2>2, Zenon DEF Printed
  <2>6. (LabelOf(u) = LabelOf(u)') /\ (Clash(LabelOf(u)) <=> Clash(LabelOf(u))')  BY <1>1 DEF LabelOf, Clash, Undefined
  <2>7. Alone(u)' <=> Alone(u)
    <3>1. Asking' = Asking  BY <1>1 DEF Asking, Temps, Uses, Where
    <3> QED  BY <1>1, <3>1 DEF Alone
  <2>8. EmptyAt(log[u].addr)' <=> EmptyAt(log[u].addr)  BY <1>1 DEF EmptyAt, Where
  <2>9. Late(u)' <=> Late(u)
    <3>1. \A d : Means(u, d)' <=> Means(u, d)
      BY <1>1, Zenon DEF Means, Settled, Hidden, LocalIn, Where, ProcOf, Encloses, InReach, End, Last
    <3>2. Where("label")' = Where("label")  BY <1>1 DEF Where
    <3> QED  BY <1>1, <2>6, <3>1, <3>2, Zenon DEF Late
  <2>11. log'[u].addr \in DOMAIN cells' /\ log'[u].addr - lo + 1 \in 1 .. Len(output')
    BY <1>1, <2>4, Zenon
  <2>12. (Alone(u) /\ (~ EmptyAt(log[u].addr) \/ ~ Late(u)))' => output'[log'[u].addr - lo + 1] = LabelOf(u).value'
    BY <1>1, <2>4, <2>6, <2>7, <2>8, <2>9, Zenon
  <2> QED  BY <2>4, <2>6, <2>2, <2>11, <2>12, Zenon
<1> QED  BY <1>1, <1>3, Zenon DEF Printed

\* Nothing is printed of the empty program.
LEMMA FinalInit == Init => OperandsFinal
<1>1. Init => phase = "reading"  BY DEF Init
<1> QED  BY <1>1, MemoryInit DEF OperandsFinal, Final

\* Only the end of the program ends it.
LEMMA NotDone ==
    ASSUME Next, ~ Finish
    PROVE  phase' # "done"
<1>1. ASSUME NEW note, NEW stays, Read(note, stays), phase' = phase PROVE phase' # "done"
  BY <1>1 DEF Read
<1>2. CASE EnterProc  BY <1>2, <1>1, Zenon DEF EnterProc
<1>3. CASE ExitProc  BY <1>3, <1>1, Zenon DEF ExitProc
<1>4. CASE AddEmpty  BY <1>4, <1>1, Zenon DEF AddEmpty
<1>5. CASE PopNamespace
  <2>1. \A stack : SwitchNamespace(stack) => phase' = phase /\ phase = "reading"  BY DEF SwitchNamespace
  <2> QED  BY <1>5, <2>1 DEF PopNamespace
<1>6. ASSUME NEW n \in Names, LocalLabel(n) \/ DeclareLabel(n) \/ UseLabel(n) PROVE phase' # "done"
  <2>1. CASE LocalLabel(n)  BY <2>1, <1>1, Zenon DEF LocalLabel
  <2>2. CASE DeclareLabel(n)
    <3>1. phase' = phase /\ \E stays \in BOOLEAN : Read(Note("label", Qualified(n), None), stays)
      BY <2>2, Zenon DEF DeclareLabel
    <3> QED  BY <3>1, <1>1, Zenon
  <2>3. CASE UseLabel(n)
    <3>1. phase' = phase /\ phase = "reading"  BY <2>3 DEF UseLabel, Read
    <3> QED  BY <3>1
  <2> QED  BY <1>6, <2>1, <2>2, <2>3
<1>7. ASSUME NEW t \in Temporaries, DeclareTemporary(t) PROVE phase' # "done"
  <2>1. phase = "reading" /\ (phase' = phase \/ phase' = "crashed")  BY <1>7 DEF DeclareTemporary, Read
  <2> QED  BY <2>1
<1>8. ASSUME NEW t \in Temporaries, NEW dir \in {-1, 1}, UseTemporary(t, dir) PROVE phase' # "done"
  BY <1>8, <1>1, Zenon DEF UseTemporary
<1>9. ASSUME NEW a \in Origins, SetOrg(a) PROVE phase' # "done"  BY <1>9, <1>1, Zenon DEF SetOrg
<1>10. ASSUME NEW l \in Lines, NEW f \in Files, LineDirective(l, f) PROVE phase' # "done"
  BY <1>10 DEF LineDirective
<1>11. ASSUME NEW ns \in Namespaces, PushNamespace(ns) PROVE phase' # "done"
  BY <1>11 DEF PushNamespace, SwitchNamespace
<1> QED  BY <1>2, <1>3, <1>4, <1>5, <1>6, <1>7, <1>8, <1>9, <1>10, <1>11 DEF Next, Statement

\* What is printed is right from then on.
LEMMA FinalNext ==
    OperandsFinal /\ [Next]_vars => OperandsFinal'
<1> SUFFICES ASSUME OperandsFinal, [Next]_vars PROVE OperandsFinal'  OBVIOUS
<1>1. MemoryKnown'  BY MemoryStays DEF OperandsFinal
<1>2. CASE UNCHANGED vars
  <2>1. phase' = phase /\ errors' = errors /\ procs' = procs  BY <1>2 DEF vars
  <2>2. Printed => Printed'  BY <1>2, PrintedStays
  <2>3. Final'  BY <2>1, <2>2, Zenon DEF OperandsFinal, Final
  <2> QED  BY <1>1, <2>3 DEF OperandsFinal
<1>3. CASE Finish
  <2>1. Final'  BY <1>3, FinishFinal DEF OperandsFinal
  <2> QED  BY <1>1, <2>1 DEF OperandsFinal
<1>5. CASE Next /\ ~ Finish
  <2>1. phase' # "done"  BY <1>5, NotDone
  <2>2. Final'  BY <2>1 DEF Final
  <2> QED  BY <1>1, <2>2 DEF OperandsFinal
<1> QED  BY <1>2, <1>3, <1>5

\* A declaration that an operand may mean is visible from it.
LEMMA MeansVisible ==
    ASSUME NEW u, NEW d \in Where("label"), Means(u, d)
    PROVE  d \in Visible(u)
BY DEF Means, Visible, Settled, Hidden

\* An operand alone among the operands is alone.
LEMMA AloneIs ==
    ASSUME NEW u, NEW K, Operands \subseteq K, AloneAt(u, K)
    PROVE  Alone(u)
<1>1. SUFFICES ASSUME NEW v \in Asking, log[v].addr = log[u].addr PROVE v = u  BY DEF Alone
<1>2. PICK kind \in Operands : v \in Where(kind)  BY DEF Asking, Uses, Temps, Operands
<1> QED  BY <1>1, <1>2, Zenon DEF AloneAt

\* The operands resolve, as they are printed.
LEMMA ResolveFollows == OperandsFinal => OperandsResolve
<1> SUFFICES ASSUME OperandsFinal, Assembled,
                    NEW u \in Where("use"), AloneAt(u, Operands \union {"empty"})
             PROVE  \E d \in Visible(u) :
                       /\ output[log[u].addr - Lowest(DOMAIN cells) + 1] = log[d].addr
                       /\ \A p \in {0} \union Where("proc") :
                             Encloses(p, u) /\ LocalIn(log[u].name, p, u) => ProcOf(d) >= p
  BY Zenon DEF OperandsResolve
<1>1. u \in Uses /\ Printed /\ OperandsInv /\ TypeInv
  BY DEF Uses, OperandsFinal, Final, Assembled, MemoryKnown, OperandsKnown, Quiet, DuplicatesInv
<1>2. Alone(u)  BY AloneIs
<1>3. ~ EmptyAt(log[u].addr)
  <2> SUFFICES ASSUME NEW v \in Where("empty"), log[v].addr = log[u].addr PROVE FALSE  BY DEF EmptyAt
  <2>1. v \in UNION {Where(kind) : kind \in Operands \union {"empty"}}  BY Zenon
  <2>2. v = u  BY <2>1, Zenon DEF AloneAt
  <2>3. log[u].what = "use" /\ log[u].what = "empty"  BY <2>2 DEF Where
  <2> QED  BY <2>3
<1>4. /\ Clash(LabelOf(u))
      /\ output[log[u].addr - Lowest(DOMAIN cells) + 1] = LabelOf(u).value
  BY <1>1, <1>2, <1>3, Zenon DEF Printed
<1>5. PICK d \in Where("label") : Means(u, d) /\ LabelOf(u).value = log[d].addr
  BY <1>1, <1>4 DEF OperandsInv, Answered
<1>6. d \in Visible(u)  BY <1>5, MeansVisible
<1>7. ASSUME NEW p \in {0} \union Where("proc"), Encloses(p, u), LocalIn(log[u].name, p, u)
      PROVE  ProcOf(d) >= p
  <2>1. p # 0  BY <1>7 DEF LocalIn
  <2>2. PICK k \in DOMAIN log[u].procs : log[u].procs[k] = p  BY <1>7, <2>1 DEF Encloses
  <2>3. k \in 1 .. Len(log[u].procs)
    <3>1. u \in 1 .. Len(log)  BY <1>1 DEF TypeInv, IsSeq, Where
    <3>2. log[u].procs \in Seq(Nat)  BY <1>1, <3>1 DEF TypeInv
    <3> QED  BY <3>2, <2>2
  <2> QED  BY <1>5, <1>7, <2>2, <2>3 DEF Means, InReach
<1> QED  BY <1>4, <1>5, <1>6, <1>7, Zenon

\* They are placed, as they are printed.
LEMMA PlacedFollows == OperandsFinal => OutputPlaced
<1> SUFFICES ASSUME OperandsFinal, Assembled PROVE OutputPlaced  BY DEF OutputPlaced
<1>1. Printed /\ OperandsInv /\ TypeInv /\ Laid
  BY DEF OperandsFinal, Final, Assembled, MemoryKnown, OperandsKnown, Quiet, DuplicatesInv, MemoryInv
<1> PICK lo : lo = Lowest(DOMAIN cells)  OBVIOUS
<1>2. ASSUME Where("use") # {}
      PROVE  Len(output) >= Highest({log[u].addr : u \in Where("use")}) - lo + 1
  <2> DEFINE S == {log[u].addr : u \in Where("use")}
  <2>1. S # {}  BY <1>2
  <2>2. PICK b \in Nat : \A a \in DOMAIN cells : a \in 0 .. b  BY <1>1 DEF Laid
  <2>3. S \in SUBSET DOMAIN cells  BY <1>1 DEF Printed, Uses
  <2>4. S \in SUBSET (0 .. b)  BY <2>2, <2>3
  <2>5. DOMAIN cells # {} /\ DOMAIN cells \in SUBSET (0 .. b)  BY <2>1, <2>2, <2>3
  <2>6. PICK h : h = Highest(S)  OBVIOUS
  <2>7. h \in S
    <3> HIDE DEF S
    <3> QED  BY <2>1, <2>4, <2>6, EndsAre
  <2>8. h - lo + 1 \in 1 .. Len(output)  BY <1>1, <2>7 DEF Printed, Uses
  <2>9. lo \in Nat
    <3>1. lo \in DOMAIN cells  BY <2>5, EndsAre
    <3> QED  BY <3>1, <2>5
  <2>10. h \in Nat  BY <2>4, <2>7
  <2>11. PICK n : n = Len(output)  OBVIOUS
  <2>12. n >= h - lo + 1
    <3> HIDE DEF S
    <3> QED  BY <2>8, <2>9, <2>10, <2>11
  <2> QED  BY <2>6, <2>11, <2>12
<1>3. ASSUME NEW u \in Where("use"), NEW d \in Where("label"), d < u, Visible(u) = {d}, AloneAt(u, Operands)
      PROVE  output[log[u].addr - lo + 1] = log[d].addr
  <2>1. Alone(u) /\ u \in Uses
    <3>1. Operands \subseteq Operands  OBVIOUS
    <3> QED  BY <1>3, <3>1, AloneIs DEF Uses
  <2>2. Clash(LabelOf(u))  BY <1>1, <2>1 DEF Printed
  <2>3. ~ Late(u)
    <3> SUFFICES ASSUME Late(u) PROVE FALSE  OBVIOUS
    <3>1. PICK e \in Where("label") : u < e /\ Means(u, e)  BY <2>2 DEF Late
    <3>2. e = d  BY <3>1, <1>3, MeansVisible
    <3>3. u \in Int /\ d \in Int
      <4>1. u \in 1 .. Len(log) /\ d \in 1 .. Len(log)  BY <1>1, <1>3 DEF TypeInv, IsSeq, Where
      <4> QED  BY <4>1
    <3> QED  BY <3>1, <3>2, <3>3, <1>3
  <2>4. output[log[u].addr - lo + 1] = LabelOf(u).value  BY <1>1, <2>1, <2>3, Zenon DEF Printed
  <2>5. PICK e \in Where("label") : Means(u, e) /\ LabelOf(u).value = log[e].addr
    BY <1>1, <2>1, <2>2 DEF OperandsInv, Answered
  <2>6. e = d  BY <2>5, <1>3, MeansVisible
  <2> QED  BY <2>4, <2>5, <2>6
<1> QED  BY <1>2, <1>3, Zenon DEF OutputPlaced

\* When any program assembles, every operand alone at its address has the address of
\* a declaration that is visible from it, and one that follows LOCAL in its PROC that
\* of the PROC or of one inside it.
THEOREM OperandsAlways == Spec => []OperandsResolve
<1>1. OperandsFinal => OperandsResolve  BY ResolveFollows
<1> QED  BY <1>1, FinalInit, FinalNext, PTL DEF Spec

\* The dump of any program reaches its last operand, and has each operand that was
\* known when it was read at its address.
THEOREM PlacedAlways == Spec => []OutputPlaced
<1>1. OperandsFinal => OutputPlaced  BY PlacedFollows
<1> QED  BY <1>1, FinalInit, FinalNext, PTL DEF Spec

---------------------------
(* Temporary labels. *)

\* The lines of a program are in order only if those of what came before are.
LEMMA OrderedBefore ==
    ASSUME TypeInv, NEW note, note.procs = procs, log' = Append(log, note), OrderedLines'
    PROVE  /\ OrderedLines
           /\ \A i \in 1 .. Len(log) :
                 log[i].file = note.file =>
                    /\ log[i].line <= note.line
                    /\ log[i].line = note.line /\ log[i].name[2] = note.name[2] /\ note.name # NoName =>
                          log[i].what = "label" /\ note.what \in {"back", "use"}
<1> PICK N : N = Now  OBVIOUS
<1> PICK m : m = Len(log)  OBVIOUS
<1>1. \A i \in 1 .. m : log'[i] = log[i]  BY Noted
<1>2. log'[N] = note  BY Noted
<1>3. m \in Nat /\ N = m + 1 /\ DOMAIN log = 1 .. m /\ DOMAIN log' = 1 .. N
  <2>1. IsSeq(log)  BY DEF TypeInv
  <2>2. IsSeq(log') /\ Len(log') = m + 1  BY <2>1, AppendIs
  <2> QED  BY <2>1, <2>2 DEF IsSeq, Now
<1> DEFINE In(a, b) ==
      a.file = b.file =>
         /\ a.line <= b.line
         /\ a.line = b.line /\ a.name[2] = b.name[2] /\ b.name # NoName =>
               a.what = "label" /\ b.what \in {"back", "use"}
<1>4. \A j \in 1 .. N : \A i \in 1 .. j - 1 : In(log'[i], log'[j])  BY <1>3 DEF OrderedLines
<1>5. \A j \in 1 .. m : j \in 1 .. N /\ \A i \in 1 .. j - 1 : i \in 1 .. m  BY <1>3
<1>6. OrderedLines
  <2>1. \A j \in 1 .. m : \A i \in 1 .. j - 1 : In(log[i], log[j])
    <3> HIDE DEF In
    <3> QED  BY <1>1, <1>4, <1>5
  <2> QED  BY <2>1, <1>3, Zenon DEF OrderedLines
<1>7. N \in 1 .. N /\ N - 1 = m  BY <1>3
<1>8. \A i \in 1 .. m : In(log[i], note)
  <2> HIDE DEF In
  <2> QED  BY <1>1, <1>2, <1>4, <1>7
<1> QED  BY <1>6, <1>8

\* What a statement makes of those after the last ORG, and of their entries.
LEMMA FreshNext ==
    ASSUME TypeInv, NEW note, note.procs = procs, log' = Append(log, note), NEW N, N = Now
    PROVE  /\ \A i \in 1 .. Len(log) : Fresh(i)' <=> Fresh(i) /\ note.what # "org"
           /\ note.what # "org" => Fresh(N)'
           /\ \A i \in 1 .. Len(log) : log'[i] = log[i] /\ Entry(i)' = Entry(i) /\ i # N
           /\ log'[N] = note
           /\ Entry(N)' = [file |-> note.file, line |-> note.line, name |-> note.name, value |-> note.addr]
           /\ \A w : Where(w)' = IF note.what = w THEN Where(w) \union {N} ELSE Where(w)
           /\ \A w : Where(w) \subseteq 1 .. Len(log)
<1>1. /\ \A i \in 1 .. Len(log) : log'[i] = log[i]
      /\ log'[N] = note /\ N \notin 1 .. Len(log)
      /\ \A w : Where(w)' = IF note.what = w THEN Where(w) \union {N} ELSE Where(w)
      /\ \A w : Where(w) \subseteq 1 .. Len(log)
  <2>1. N \notin 1 .. Len(log)  BY Noted
  <2>2. \A i \in 1 .. Len(log) : log'[i] = log[i]  BY Noted
  <2>3. log'[N] = note  BY Noted
  <2> QED  BY <2>1, <2>2, <2>3, LogNext
<1> PICK m : m = Len(log)  OBVIOUS
<1>2. m \in Nat /\ N = m + 1  BY DEF TypeInv, IsSeq, Now
<1>3. ASSUME NEW i \in 1 .. m PROVE Fresh(i)' <=> Fresh(i) /\ note.what # "org"
  <2>1. ~ (N < i)  BY <1>2, <1>3
  <2>2. CASE note.what = "org"
    <3>1. N \in Where("org")'  BY <1>1, <2>2
    <3> QED  BY <2>1, <2>2, <3>1 DEF Fresh
  <2>3. CASE note.what # "org"
    <3>1. Where("org")' = Where("org")  BY <1>1, <2>3
    <3> QED  BY <2>3, <3>1, Zenon DEF Fresh
  <2> QED  BY <2>2, <2>3
<1>4. note.what # "org" => Fresh(N)'
  <2> SUFFICES ASSUME note.what # "org", NEW j \in Where("org")' PROVE j < N  BY Zenon DEF Fresh
  <2>1. j \in 1 .. m  BY <1>1
  <2> QED  BY <2>1, <1>2
<1>5. \A i \in 1 .. m : Entry(i)' = Entry(i)  BY <1>1 DEF Entry
<1>6. Entry(N)' = [file |-> note.file, line |-> note.line, name |-> note.name, value |-> note.addr]
  BY <1>1 DEF Entry
<1>7. \A i \in 1 .. m : i # N  BY <1>1
<1> QED  BY <1>1, <1>3, <1>4, <1>5, <1>6, <1>7

\* A statement is read on the current line.
LEMMA LinedNext ==
    ASSUME TypeInv, Lined, NEW note, note.procs = procs, log' = Append(log, note), note.line = line, line' \in Nat
    PROVE  Lined'
<1> PICK N : N = Now  OBVIOUS
<1>1. /\ \A i \in 1 .. Len(log) : log'[i] = log[i]
      /\ log'[N] = note
  <2>1. \A i \in 1 .. Len(log) : log'[i] = log[i]  BY FreshNext
  <2>2. log'[N] = note  BY FreshNext
  <2> QED  BY <2>1, <2>2
<1>2. \A i \in 1 .. Len(log') : i \in 1 .. Len(log) \/ i = N
  <2>1. IsSeq(log)  BY DEF TypeInv
  <2>2. Len(log') = Len(log) + 1 /\ Len(log) \in Nat  BY <2>1, AppendIs DEF IsSeq
  <2> QED  BY <2>2 DEF Now
<1>3. note.line \in Nat  BY DEF Lined
<1> QED  BY <1>1, <1>2, <1>3, Zenon DEF Lined

\* A statement that is no temporary label leaves those kept, and ORG forgets them.
LEMMA KeptNext ==
    ASSUME TypeInv, Kept, NEW note, note.procs = procs, log' = Append(log, note), kit' = kit,
           note.what = "label" => note.name[2] \notin Temporaries,
           IF note.what = "org" THEN tmps' = <<>> ELSE tmps' = tmps
    PROVE  Kept'
<1> PICK N : N = Now  OBVIOUS
<1>1. /\ \A i \in 1 .. Len(log) : Fresh(i)' <=> Fresh(i) /\ note.what # "org"
      /\ \A i \in 1 .. Len(log) : log'[i] = log[i] /\ Entry(i)' = Entry(i) /\ i # N
      /\ log'[N] = note
      /\ Where("label")' = IF note.what = "label" THEN Where("label") \union {N} ELSE Where("label")
      /\ Where("label") \subseteq 1 .. Len(log)
  <2>1. \A i \in 1 .. Len(log) : Fresh(i)' <=> Fresh(i) /\ note.what # "org"  BY FreshNext
  <2>2. \A i \in 1 .. Len(log) : log'[i] = log[i] /\ Entry(i)' = Entry(i) /\ i # N  BY FreshNext
  <2>3. log'[N] = note  BY FreshNext
  <2>4. \A w : Where(w)' = IF note.what = w THEN Where(w) \union {N} ELSE Where(w)  BY FreshNext
  <2>5. \A w : Where(w) \subseteq 1 .. Len(log)  BY FreshNext
  <2> QED  BY <2>1, <2>2, <2>3, <2>4, <2>5
<1>2. Temporaries' = Temporaries  BY DEF Temporaries
<1>3. \A d \in Where("label")' : d \in Where("label") \/ log'[d].name[2] \notin Temporaries'
  BY <1>1, <1>2
<1>4. CASE note.what = "org"
  <2>1. tmps' = <<>>  BY <1>4
  <2>2. IsSeq(tmps') /\ Len(tmps') = 0
    <3>1. <<>> \in Seq({}) /\ Len(<<>>) = 0  OBVIOUS
    <3> QED  BY <2>1, <3>1 DEF IsSeq
  <2>3. \A i \in 1 .. Len(tmps') : FALSE  BY <2>2
  <2>4. \A d \in Where("label") : ~ Fresh(d)'  BY <1>1, <1>4
  <2> QED  BY <1>3, <2>2, <2>3, <2>4, Zenon DEF Kept
<1>5. CASE note.what # "org"
  <2>1. tmps' = tmps  BY <1>5
  <2>2. \A i \in 1 .. Len(tmps) : \E d \in Where("label")' : Fresh(d)' /\ tmps[i] = Entry(d)'
    BY <1>1, <1>5 DEF Kept
  <2>3. \A d \in Where("label")' : Fresh(d)' /\ log'[d].name[2] \in Temporaries' =>
           \E i \in 1 .. Len(tmps) : tmps[i] = Entry(d)'
    <3>1. \A d \in Where("label") : Fresh(d) /\ log[d].name[2] \in Temporaries =>
             \E i \in 1 .. Len(tmps) : tmps[i] = Entry(d)
      BY DEF Kept
    <3>2. ASSUME NEW d \in Where("label")', Fresh(d)', log'[d].name[2] \in Temporaries'
          PROVE  \E i \in 1 .. Len(tmps) : tmps[i] = Entry(d)'
      <4>1. d \in Where("label") /\ d \in 1 .. Len(log)  BY <1>1, <1>3, <3>2
      <4>2. Fresh(d) /\ log[d].name[2] \in Temporaries /\ Entry(d)' = Entry(d)
        BY <1>1, <1>2, <3>2, <4>1, Zenon
      <4> QED  BY <3>1, <4>1, <4>2
    <3> QED  BY <3>2
  <2>4. /\ IsSeq(tmps)
        /\ \A i, j \in 1 .. Len(tmps) :
              i < j /\ tmps[i].file = tmps[j].file => tmps[i].line <= tmps[j].line
    BY DEF Kept
  <2> QED  BY <2>1, <2>2, <2>3, <2>4, Zenon DEF Kept
<1> QED  BY <1>4, <1>5

\* A temporary operand stays as it is while its label is left alone.
LEMMA AsksNext ==
    ASSUME TypeInv, Own, NEW v \in Temps, Asks(v), NEW note, note.procs = procs, log' = Append(log, note),
           kit' = kit, labels'[log[v].id] = labels[log[v].id],
           IF note.what = "org" THEN pending' = <<>>
           ELSE \A k \in 1 .. Len(pending') : pending'[k] = log[v].id =>
                   \E j \in 1 .. Len(pending) : pending[j] = log[v].id
    PROVE  Asks(v)'
<1> PICK N : N = Now  OBVIOUS
<1>1. v \in 1 .. Len(log) /\ log'[v] = log[v] /\ (Fresh(v)' <=> Fresh(v) /\ note.what # "org")
  <2>1. v \in 1 .. Len(log)
    <3>1. \A w : Where(w) \subseteq 1 .. Len(log)  BY FreshNext
    <3> QED  BY <3>1 DEF Temps
  <2>2. log'[v] = log[v]  BY <2>1, FreshNext
  <2>3. Fresh(v)' <=> Fresh(v) /\ note.what # "org"  BY <2>1, FreshNext
  <2> QED  BY <2>1, <2>2, <2>3
<1>2. Temporaries' = Temporaries  BY DEF Temporaries
<1>3. ASSUME NEW k \in 1 .. Len(pending'), pending'[k] = log[v].id PROVE Fresh(v)'
  <2>1. note.what # "org"
    <3> SUFFICES ASSUME note.what = "org" PROVE FALSE  OBVIOUS
    <3>1. Len(pending') = 0  OBVIOUS
    <3> QED  BY <3>1
  <2>2. PICK j \in 1 .. Len(pending) : pending[j] = log[v].id  BY <1>3, <2>1
  <2>3. Fresh(v)  BY <2>2 DEF Asks
  <2> QED  BY <1>1, <2>1, <2>3
<1> QED  BY <1>1, <1>2, <1>3, Zenon DEF Asks

\* So do all of them.
LEMMA TempsPlain ==
    ASSUME TypeInv, Own, TempsInv, NEW note, note.procs = procs, log' = Append(log, note), kit' = kit,
           note.line = line, line' \in Nat, note.what \notin {"back", "forth"},
           note.what = "label" => note.name[2] \notin Temporaries,
           IF note.what = "org" THEN tmps' = <<>> /\ pending' = <<>> ELSE tmps' = tmps /\ pending' = pending,
           \A v \in Temps : labels'[log[v].id] = labels[log[v].id]
    PROVE  TempsInv'
<1> PICK N : N = Now  OBVIOUS
<1>1. Lined'  BY LinedNext DEF TempsInv
<1>2. Kept'  BY KeptNext DEF TempsInv
<1>3. Temps' = Temps  BY AskingNext
<1>4. ASSUME NEW v \in Temps PROVE Asks(v)'
  <2>1. Asks(v)  BY DEF TempsInv
  <2>2. IF note.what = "org" THEN pending' = <<>>
        ELSE \A k \in 1 .. Len(pending') : pending'[k] = log[v].id =>
                \E j \in 1 .. Len(pending) : pending[j] = log[v].id
    OBVIOUS
  <2> QED  BY <2>1, <2>2, AsksNext
<1> QED  BY <1>1, <1>2, <1>3, <1>4, Zenon DEF TempsInv

\* A temporary operand waits for its label.
LEMMA TempsUse ==
    ASSUME TypeInv, Own, TempsInv, kit' = kit, NEW t \in Temporaries, NEW dir \in {-1, 1}, UseTemporary(t, dir)
    PROVE  TempsInv'
<1> PICK m : m = Label(Qualified(t), None, dir)  OBVIOUS
<1> PICK id : id = Len(labels) + 1  OBVIOUS
<1> PICK note : note = Note(IF dir < 0 THEN "back" ELSE "forth", Qualified(t), id)  OBVIOUS
<1> PICK N : N = Now  OBVIOUS
<1>1. /\ log' = Append(log, note) /\ labels' = Append(labels, m) /\ tmps' = tmps
      /\ pending' = Append(pending, Len(labels')) /\ line' = line + 1
  BY DEF UseTemporary, Read
<1>2. /\ IsSeq(labels) /\ Len(labels) \in Nat /\ Len(labels') = id
      /\ \A i \in 1 .. Len(labels) : labels'[i] = labels[i] /\ i # id
      /\ labels'[id] = m
  <2>1. IsSeq(labels)  BY DEF TypeInv, LabelsOK
  <2>2. Len(labels) \in Nat  BY <2>1 DEF IsSeq
  <2>3. /\ Len(labels') = Len(labels) + 1 /\ labels'[Len(labels) + 1] = m
        /\ \A i \in 1 .. Len(labels) : labels'[i] = labels[i]
    BY <1>1, <2>1, AppendIs
  <2> QED  BY <2>1, <2>2, <2>3
<1>3. /\ note.procs = procs /\ note.id = id /\ note.name = Qualified(t) /\ note.file = file /\ note.line = line
      /\ note.what = IF dir < 0 THEN "back" ELSE "forth"
      /\ note.what \in {"back", "forth"} /\ note.what # "org" /\ note.what # "label"
      /\ (dir < 0 <=> note.what = "back")
  BY DEF Note
<1>4. line' \in Nat
  <2>1. line \in Nat  BY DEF TempsInv, Lined
  <2> QED  BY <1>1, <2>1
<1>5. Lined'  BY <1>1, <1>3, <1>4, LinedNext DEF TempsInv
<1>6. Kept'  BY <1>1, <1>3, KeptNext DEF TempsInv
<1>7. Temps' = Temps \union {N}
  <2>1. Temps' = IF note.what \in {"back", "forth"} THEN Temps \union {N} ELSE Temps  BY <1>1, <1>3, AskingNext
  <2> QED  BY <1>3, <2>1
<1>8. pending' = Append(pending, id)  BY <1>1, <1>2
<1>9. IsSeq(pending) /\ Len(pending') = Len(pending) + 1 /\ Len(pending) \in Nat
      /\ pending'[Len(pending) + 1] = id /\ \A k \in 1 .. Len(pending) : pending'[k] = pending[k]
  <2>1. IsSeq(pending)  BY DEF Own
  <2>2. Len(pending) \in Nat  BY <2>1 DEF IsSeq
  <2> QED  BY <1>8, <2>1, <2>2, AppendIs
<1>10. ASSUME NEW v \in Temps PROVE Asks(v)'
  <2>1. Asks(v)  BY DEF TempsInv
  <2>2. log[v].id \in 1 .. Len(labels)  BY DEF Own
  <2>3. labels'[log[v].id] = labels[log[v].id] /\ log[v].id # id  BY <1>2, <2>2
  <2>4. ASSUME NEW k \in 1 .. Len(pending'), pending'[k] = log[v].id
        PROVE  \E j \in 1 .. Len(pending) : pending[j] = log[v].id
    <3>1. k \in 1 .. Len(pending) \/ k = Len(pending) + 1  BY <1>9
    <3>2. k \in 1 .. Len(pending)  BY <1>9, <2>3, <2>4, <3>1
    <3> QED  BY <1>9, <2>4, <3>2
  <2> QED  BY <1>1, <1>3, <2>1, <2>3, <2>4, AsksNext
<1>11. Asks(N)'
  <2>0. log' = Append(log, note) /\ note.procs = procs  BY <1>1, <1>3
  <2>1. log'[N] = note  BY <2>0, FreshNext
  <2>2. Fresh(N)'
    <3>1. note.what # "org" => Fresh(N)'  BY <2>0, FreshNext
    <3> QED  BY <1>3, <3>1
  <2>3. /\ m.value = None /\ m.name = Qualified(t) /\ m.file = file /\ m.line = line /\ m.dir = dir
    BY DEF Label
  <2>4. Qualified(t)[2] \in Temporaries'  BY DEF Qualified, Temporaries
  <2> QED  BY <1>2, <1>3, <2>1, <2>2, <2>3, <2>4, Zenon DEF Asks
<1> QED  BY <1>5, <1>6, <1>7, <1>10, <1>11, Zenon DEF TempsInv

\* A temporary label is kept beside those before it.
LEMMA KeptDeclared ==
    ASSUME TypeInv, TempsInv, kit' = kit, NEW t \in Temporaries, DeclareTemporary(t), OrderedLines', phase' # "crashed"
    PROVE  Kept'
<1> PICK note : note = Note("label", Qualified(t), None)  OBVIOUS
<1> PICK new : new = [file |-> file, line |-> line, name |-> Qualified(t), value |-> index]  OBVIOUS
<1> PICK N : N = Now  OBVIOUS
<1> DEFINE here == {i \in DOMAIN tmps : tmps[i].file = file}
<1> DEFINE same == {i \in here : tmps[i].line = line /\ tmps[i].name[2] = t}
<1>1. log' = Append(log, note)  BY DEF DeclareTemporary, Read
<1>2. /\ note.procs = procs /\ note.name = Qualified(t) /\ note.file = file /\ note.line = line
      /\ note.what = "label" /\ note.addr = index /\ note.name[2] = t
  BY DEF Note, Qualified
<1>3. /\ ~ \E i \in here : tmps[i].line > line
      /\ tmps' = IF same = {} THEN Append(tmps, new) ELSE [tmps EXCEPT ![Lowest(same)] = new]
  BY DEF DeclareTemporary
<1>4. /\ \A i \in 1 .. Len(log) : Fresh(i)' <=> Fresh(i)
      /\ Fresh(N)'
      /\ \A i \in 1 .. Len(log) : log'[i] = log[i] /\ Entry(i)' = Entry(i) /\ i # N
      /\ log'[N] = note /\ Entry(N)' = new
      /\ Where("label")' = Where("label") \union {N}
      /\ Where("label") \subseteq 1 .. Len(log)
  <2>1. \A i \in 1 .. Len(log) : Fresh(i)' <=> Fresh(i) /\ note.what # "org"  BY <1>1, <1>2, FreshNext
  <2>2. \A i \in 1 .. Len(log) : log'[i] = log[i] /\ Entry(i)' = Entry(i) /\ i # N  BY <1>1, <1>2, FreshNext
  <2>3. log'[N] = note  BY <1>1, <1>2, FreshNext
  <2>4. \A w : Where(w)' = IF note.what = w THEN Where(w) \union {N} ELSE Where(w)  BY <1>1, <1>2, FreshNext
  <2>5. \A w : Where(w) \subseteq 1 .. Len(log)  BY <1>1, <1>2, FreshNext
  <2>6. note.what # "org" => Fresh(N)'  BY <1>1, <1>2, FreshNext
  <2>7. Entry(N)' = [file |-> note.file, line |-> note.line, name |-> note.name, value |-> note.addr]
    BY <1>1, <1>2, FreshNext
  <2>8. Entry(N)' = new  BY <1>2, <2>7
  <2> QED  BY <1>2, <2>1, <2>2, <2>3, <2>4, <2>5, <2>6, <2>8
<1>5. IsSeq(tmps) /\ DOMAIN tmps = 1 .. Len(tmps) /\ Len(tmps) \in Nat  BY DEF TempsInv, Kept, IsSeq
<1>6. same = {}
  <2> SUFFICES ASSUME NEW i \in same PROVE FALSE  OBVIOUS
  <2>1. i \in 1 .. Len(tmps) /\ tmps[i].file = file /\ tmps[i].line = line /\ tmps[i].name[2] = t  BY <1>5
  <2>2. PICK d \in Where("label") : tmps[i] = Entry(d)  BY <2>1 DEF TempsInv, Kept
  <2>3. d \in 1 .. Len(log) /\ log[d].file = file /\ log[d].line = line /\ log[d].name[2] = t
    BY <1>4, <2>1, <2>2 DEF Entry
  <2>4. note.name # NoName
    <3>1. t # ""  BY AsmAssumption DEF TypeInv, Temporaries
    <3>2. NoName[2] = ""  BY DEF NoName
    <3> QED  BY <1>2, <3>1, <3>2, Zenon
  <2>5. log[d].what = "label" /\ note.what \in {"back", "use"}
    <3>1. \A j \in 1 .. Len(log) :
             log[j].file = note.file =>
                    /\ log[j].line <= note.line
                    /\ log[j].line = note.line /\ log[j].name[2] = note.name[2] /\ note.name # NoName =>
                          log[j].what = "label" /\ note.what \in {"back", "use"}
      BY <1>1, <1>2, OrderedBefore
    <3> QED  BY <1>2, <2>3, <2>4, <3>1, Zenon
  <2> QED  BY <1>2, <2>5
<1>7. tmps' = Append(tmps, new)  BY <1>3, <1>6
<1> PICK n : n = Len(tmps)  OBVIOUS
<1>8. /\ IsSeq(tmps') /\ Len(tmps') = n + 1 /\ n \in Nat
      /\ tmps'[n + 1] = new /\ \A i \in 1 .. n : tmps'[i] = tmps[i]
      /\ \A i \in 1 .. n + 1 : i \in 1 .. n \/ i = n + 1
      /\ \A i \in 1 .. n : i \in 1 .. n + 1
      /\ n + 1 \in 1 .. n + 1
  <2>1. /\ IsSeq(tmps') /\ Len(tmps') = n + 1
        /\ tmps'[n + 1] = new /\ \A i \in 1 .. n : tmps'[i] = tmps[i]
    BY <1>5, <1>7, AppendIs
  <2>2. n \in Nat  BY <1>5
  <2>3. /\ \A i \in 1 .. n + 1 : i \in 1 .. n \/ i = n + 1
        /\ \A i \in 1 .. n : i \in 1 .. n + 1
        /\ n + 1 \in 1 .. n + 1
    BY <2>2
  <2> QED  BY <2>1, <2>2, <2>3
<1> HIDE DEF here, same
<1>9. ASSUME NEW i \in 1 .. n + 1 PROVE \E d \in Where("label")' : Fresh(d)' /\ tmps'[i] = Entry(d)'
  <2>1. CASE i = n + 1  BY <1>4, <1>8, <2>1
  <2>2. CASE i \in 1 .. n
    <3>1. PICK d \in Where("label") : Fresh(d) /\ tmps[i] = Entry(d)  BY <2>2 DEF TempsInv, Kept
    <3> QED  BY <1>4, <1>8, <2>2, <3>1
  <2> QED  BY <1>8, <2>1, <2>2
<1>10. ASSUME NEW d \in Where("label")', Fresh(d)', log'[d].name[2] \in Temporaries'
       PROVE  \E i \in 1 .. n + 1 : tmps'[i] = Entry(d)'
  <2>1. CASE d = N  BY <1>4, <1>8, <2>1
  <2>2. CASE d \in Where("label")
    <3>1. d \in 1 .. Len(log)  BY <1>4, <2>2
    <3>2. Fresh(d) /\ log'[d] = log[d] /\ Entry(d)' = Entry(d)  BY <1>4, <1>10, <3>1
    <3>3. log[d].name[2] \in Temporaries  BY <1>10, <3>2 DEF Temporaries
    <3>4. PICK i \in 1 .. n : tmps[i] = Entry(d)  BY <2>2, <3>2, <3>3 DEF TempsInv, Kept
    <3> QED  BY <1>8, <3>2, <3>4
  <2> QED  BY <1>4, <2>1, <2>2
<1>11. ASSUME NEW i \in 1 .. n + 1, NEW j \in 1 .. n + 1, i < j, tmps'[i].file = tmps'[j].file
       PROVE  tmps'[i].line <= tmps'[j].line
  <2>1. i \in 1 .. n  BY <1>8, <1>11
  <2>2. CASE j \in 1 .. n
    <3>1. \A k, l \in 1 .. n : k < l /\ tmps[k].file = tmps[l].file => tmps[k].line <= tmps[l].line
      BY DEF TempsInv, Kept
    <3>2. tmps'[i] = tmps[i] /\ tmps'[j] = tmps[j]  BY <1>8, <2>1, <2>2
    <3> QED  BY <1>11, <2>1, <2>2, <3>1, <3>2, Zenon
  <2>3. CASE j = n + 1
    <3>1. tmps'[i] = tmps[i] /\ tmps'[j] = new  BY <1>8, <2>1, <2>3
    <3>2. tmps[i].file = file  BY <1>11, <3>1
    <3>3. i \in here  BY <1>5, <2>1, <3>2 DEF here
    <3>4. ~ (tmps[i].line > line)  BY <1>3, <3>3
    <3>5. PICK x, y : x = tmps[i].line /\ y = line /\ x \in Nat /\ y \in Nat
      <4>1. PICK d \in Where("label") : tmps[i] = Entry(d)  BY <2>1 DEF TempsInv, Kept
      <4>2. tmps[i].line = log[d].line /\ d \in 1 .. Len(log)  BY <1>4, <4>1 DEF Entry
      <4>3. log[d].line \in Nat /\ line \in Nat  BY <4>2 DEF TempsInv, Lined
      <4> QED  BY <4>2, <4>3
    <3>6. x <= y
      <4>1. ~ (x > y)  BY <3>4, <3>5, Zenon
      <4> QED  BY <4>1, <3>5
    <3>7. tmps'[i].line = x /\ tmps'[j].line = y  BY <3>1, <3>5
    <3> QED  BY <3>6, <3>7, Zenon
  <2> QED  BY <1>8, <2>2, <2>3
<1> QED  BY <1>8, <1>9, <1>10, <1>11, Zenon DEF Kept

\* A temporary label keeps them all: its entry goes after those of its line.
LEMMA TempsDeclare ==
    ASSUME TypeInv, Own, TempsInv, kit' = kit, NEW t \in Temporaries, DeclareTemporary(t), OrderedLines', phase' # "crashed"
    PROVE  TempsInv'
<1> PICK note : note = Note("label", Qualified(t), None)  OBVIOUS
<1>1. log' = Append(log, note) /\ labels' = labels /\ pending' = pending /\ (line' = line \/ line' = line + 1)
  BY DEF DeclareTemporary, Read
<1>2. /\ note.procs = procs /\ note.line = line /\ note.what = "label"
      /\ note.what \notin {"back", "forth"} /\ note.what # "org"
  BY DEF Note
<1>3. line' \in Nat
  <2>1. line \in Nat  BY DEF TempsInv, Lined
  <2> QED  BY <1>1, <2>1
<1>4. Lined'  BY <1>1, <1>2, <1>3, LinedNext DEF TempsInv
<1>5. Kept'  BY KeptDeclared
<1>6. Temps' = Temps
  <2> PICK N : N = Now  OBVIOUS
  <2>1. Temps' = IF note.what \in {"back", "forth"} THEN Temps \union {N} ELSE Temps  BY <1>1, <1>2, AskingNext
  <2> QED  BY <1>2, <2>1
<1>7. ASSUME NEW v \in Temps PROVE Asks(v)'
  <2>1. Asks(v)  BY DEF TempsInv
  <2>2. labels'[log[v].id] = labels[log[v].id]  BY <1>1
  <2>3. \A k \in 1 .. Len(pending') : pending'[k] = log[v].id =>
                \E j \in 1 .. Len(pending) : pending[j] = log[v].id
    BY <1>1
  <2> QED  BY <1>1, <1>2, <2>1, <2>2, <2>3, AsksNext
<1> QED  BY <1>4, <1>5, <1>6, <1>7, Zenon DEF TempsInv

\* A name that is put into a scope is not the label of a temporary operand.
LEMMA PutTemps ==
    ASSUME TypeInv, kit' = kit, procs' = procs, Own,
           NEW name, name[2] \in Names, NEW l, IsLabel(l), PutLabel(name, l)
    PROVE  \A v \in Temps : labels'[log[v].id] = labels[log[v].id]
<1> PICK K : K = Len(scopes)  OBVIOUS
<1>1. PICK id \in 1 .. Len(labels') :
         /\ \A i \in 1 .. Len(labels) : i \in 1 .. Len(labels') /\ (i # id => labels'[i] = labels[i])
         /\ IF name \in DOMAIN scopes[K] THEN id = scopes[K][name] /\ id \in 1 .. Len(labels)
            ELSE id = Len(labels) + 1 /\ id \notin 1 .. Len(labels)
  BY PutIds
<1>2. K \in 1 .. Len(scopes)  BY PutIs
<1>3. ASSUME NEW v \in Temps PROVE labels'[log[v].id] = labels[log[v].id]
  <2>1. /\ log[v].id \in 1 .. Len(labels)
        /\ \A k \in 1 .. Len(scopes) : \A n \in DOMAIN scopes[k] : scopes[k][n] # log[v].id
    BY DEF Own
  <2>2. log[v].id # id  BY <1>1, <1>2, <2>1
  <2> QED  BY <1>1, <2>1, <2>2
<1> QED  BY <1>3

\* Nor is one that a PROC hands over.
LEMMA ExitTemps ==
    ASSUME TypeInv, Own, ExitProc
    PROVE  \A v \in Temps : labels'[log[v].id] = labels[log[v].id]
<1> SUFFICES ASSUME NEW v \in Temps PROVE labels'[log[v].id] = labels[log[v].id]  OBVIOUS
<1> PICK id : id = log[v].id  OBVIOUS
<1>1. /\ id \in 1 .. Len(labels)
      /\ \A k \in 1 .. Len(scopes) : \A n \in DOMAIN scopes[k] : scopes[k][n] # id
  BY DEF Own
<1>2. 1 \in 1 .. Len(scopes) /\ id \in DOMAIN labels
  <2>1. Len(scopes) = Len(procs) + 1 /\ Len(procs) \in Nat  BY DEF TypeInv, LabelsOK
  <2>2. DOMAIN labels = 1 .. Len(labels)  BY DEF TypeInv, LabelsOK, IsSeq
  <2> QED  BY <1>1, <2>1, <2>2
<1>3. \A n \in DOMAIN scopes[1] : scopes[1][n] # id  BY <1>1, <1>2
<1>4. CASE Len(scopes) = 1  BY <1>4 DEF ExitProc
<1>5. CASE Len(scopes) # 1
  <2>1. PICK clash, f :
           /\ clash \subseteq DOMAIN scopes[1]
           /\ labels' = [i \in DOMAIN labels |->
                              IF {n \in clash : scopes[1][n] = i} = {} THEN labels[i] ELSE f[i]]
    <3> DEFINE scope == Last(scopes)
    <3> DEFINE global == scopes[1]
    <3> DEFINE missing == {n \in DOMAIN scope : labels[scope[n]].local /\ Undefined(labels[scope[n]].value)}
    <3> DEFINE out == {n \in Outgoing(scope) : \A m \in missing : scope[n] < scope[m]}
    <3> DEFINE clash == {n \in out : n \in DOMAIN global}
    <3> DEFINE f == [i \in DOMAIN labels |->
                       Define(labels[i], labels[scope[CHOOSE n \in {n \in clash : global[n] = i} : TRUE]].value)]
    <3>1. labels' = [i \in DOMAIN labels |->
                              LET for == {n \in clash : global[n] = i}
                              IN  IF for = {} THEN labels[i]
                                  ELSE Define(labels[i], labels[scope[CHOOSE n \in for : TRUE]].value)]
      BY <1>5 DEF ExitProc
    <3>2. labels' = [i \in DOMAIN labels |->
                              IF {n \in clash : global[n] = i} = {} THEN labels[i] ELSE f[i]]
      BY <3>1
    <3>3. clash \subseteq DOMAIN scopes[1]  OBVIOUS
    <3> HIDE DEF clash, f
    <3> QED  BY <3>2, <3>3
  <2>2. {n \in clash : scopes[1][n] = id} = {}  BY <1>3, <2>1
  <2> QED  BY <1>2, <2>1, <2>2
<1> QED  BY <1>4, <1>5

\* The temporary labels and operands are as they should be after every statement.
LEMMA TempsNext ==
    ASSUME MemoryKnown, TempsKnown, [Next]_vars
    PROVE  TempsKnown'
<1> SUFFICES ASSUME errors' = {}, OrderedLines', phase' # "crashed" PROVE TempsInv'  BY DEF TempsKnown
<1>1. DuplicatesInv /\ TypeInv  BY DEF MemoryKnown, OperandsKnown, DuplicatesInv
<1>2. errors = {}
  <2>1. errors \subseteq errors'  BY <1>1, ErrorsStay
  <2> QED  BY <2>1
<1>3. Own /\ Quiet /\ OperandsInv
  BY <1>2 DEF MemoryKnown, MemoryInv, OperandsKnown, Quiet
<1>4. ASSUME UNCHANGED <<kit, line, log, tmps, pending, labels>>, phase # "crashed" PROVE TempsInv'
  <2>1. kit' = kit /\ line' = line /\ log' = log /\ tmps' = tmps /\ pending' = pending /\ labels' = labels
    BY <1>4
  <2>2. OrderedLines  BY <2>1 DEF OrderedLines
  <2>3. TempsInv  BY <1>2, <1>4, <2>2 DEF TempsKnown
  <2>4. \A w : Where(w)' = Where(w)  BY <2>1 DEF Where
  <2>5. \A i : (Fresh(i)' <=> Fresh(i)) /\ Entry(i)' = Entry(i)  BY <2>1, <2>4 DEF Fresh, Entry
  <2>6. Temps' = Temps /\ Temporaries' = Temporaries  BY <2>1, <2>4 DEF Temps, Temporaries
  <2>7. Lined'  BY <2>1, <2>3, Zenon DEF TempsInv, Lined
  <2>8. Kept'  BY <2>1, <2>3, <2>4, <2>5, <2>6, Zenon DEF TempsInv, Kept
  <2>9. \A v \in Temps : Asks(v)'  BY <2>1, <2>3, <2>5, <2>6, Zenon DEF TempsInv, Asks
  <2> QED  BY <2>6, <2>7, <2>8, <2>9, Zenon DEF TempsInv
<1>5. CASE UNCHANGED vars
  <2>1. UNCHANGED <<kit, line, log, tmps, pending, labels>> /\ phase' = phase  BY <1>5 DEF vars
  <2> QED  BY <1>4, <2>1
<1>6. CASE Next
  <2>1. kit' = kit  BY <1>6 DEF Next
  <2>2. ASSUME phase = "reading", NEW note, note.procs = procs, log' = Append(log, note)
        PROVE  TempsInv /\ line \in Nat /\ line + 1 \in Nat
    <3>1. OrderedLines  BY <1>1, <2>2, OrderedBefore
    <3>2. TempsInv  BY <1>2, <2>2, <3>1 DEF TempsKnown
    <3> QED  BY <3>2 DEF TempsInv, Lined
  <2>3. ASSUME phase = "reading", NEW note, note.procs = procs, log' = Append(log, note), note.line = line,
               line' \in Nat, note.what \notin {"back", "forth"},
               note.what = "label" => note.name[2] \notin Temporaries,
               IF note.what = "org" THEN tmps' = <<>> /\ pending' = <<>> ELSE tmps' = tmps /\ pending' = pending,
               \A v \in Temps : labels'[log[v].id] = labels[log[v].id]
        PROVE  TempsInv'
    <3>1. TempsInv  BY <2>2, <2>3
    <3> QED  BY <1>1, <1>3, <2>1, <2>3, <3>1, TempsPlain
  <2>4. ASSUME NEW note, note = Note(note.what, note.name, note.id), NEW stays, Read(note, stays),
               note.what \notin {"back", "forth"},
               note.what = "label" => note.name[2] \notin Temporaries,
               IF note.what = "org" THEN tmps' = <<>> /\ pending' = <<>> ELSE tmps' = tmps /\ pending' = pending,
               \A v \in Temps : labels'[log[v].id] = labels[log[v].id]
        PROVE  TempsInv'
    <3>1. note.procs = procs /\ note.line = line  BY <2>4 DEF Note
    <3>2. phase = "reading" /\ log' = Append(log, note) /\ (line' = line \/ line' = line + 1)  BY <2>4 DEF Read
    <3>3. line' \in Nat  BY <2>2, <3>1, <3>2
    <3> QED  BY <2>3, <2>4, <3>1, <3>2, <3>3
  <2>5. CASE EnterProc
    <3> PICK note : note = Note("proc", NoName, None)  OBVIOUS
    <3>1. Read(note, FALSE) /\ UNCHANGED <<tmps, pending, labels>>  BY <2>5 DEF EnterProc
    <3>2. note.what = "proc" /\ note = Note(note.what, note.name, note.id)  BY DEF Note
    <3> QED  BY <2>4, <3>1, <3>2
  <2>6. CASE ExitProc
    <3> PICK note : note = Note("endp", NoName, None)  OBVIOUS
    <3>1. Read(note, FALSE) /\ UNCHANGED <<tmps, pending>>  BY <2>6 DEF ExitProc
    <3>2. note.what = "endp" /\ note = Note(note.what, note.name, note.id)  BY DEF Note
    <3>3. \A v \in Temps : labels'[log[v].id] = labels[log[v].id]  BY <1>1, <1>3, <2>6, ExitTemps
    <3> QED  BY <2>4, <3>1, <3>2, <3>3
  <2>7. CASE AddEmpty
    <3> PICK note : note = Note("empty", NoName, None)  OBVIOUS
    <3>1. Read(note, FALSE) /\ UNCHANGED <<tmps, pending, labels>>  BY <2>7 DEF AddEmpty
    <3>2. note.what = "empty" /\ note = Note(note.what, note.name, note.id)  BY DEF Note
    <3> QED  BY <2>4, <3>1, <3>2
  <2>8. ASSUME NEW stack, SwitchNamespace(stack) PROVE TempsInv'
    <3> PICK note : note = Note("namespace", NoName, None)  OBVIOUS
    <3>1. /\ phase = "reading" /\ log' = Append(log, note) /\ line' = line + 1
          /\ UNCHANGED <<tmps, pending, labels>>
      BY <2>8 DEF SwitchNamespace
    <3>2. note.what = "namespace" /\ note.line = line /\ note.procs = procs  BY DEF Note
    <3>3. line' \in Nat  BY <2>2, <3>1, <3>2
    <3> QED  BY <2>3, <3>1, <3>2, <3>3
  <2>9. CASE PopNamespace
    <3>1. \E stack : SwitchNamespace(stack)  BY <2>9, Zenon DEF PopNamespace
    <3> QED  BY <2>8, <3>1
  <2>10. ASSUME NEW ns \in Namespaces, PushNamespace(ns) PROVE TempsInv'
    <3>1. \E stack : SwitchNamespace(stack)  BY <2>10, Zenon DEF PushNamespace
    <3> QED  BY <2>8, <3>1
  <2>11. ASSUME NEW l \in Lines, NEW f \in Files, LineDirective(l, f) PROVE TempsInv'
    <3> PICK note : note = Note("line", NoName, None)  OBVIOUS
    <3>1. phase = "reading" /\ log' = Append(log, note) /\ line' = l /\ UNCHANGED <<tmps, pending, labels>>
      BY <2>11 DEF LineDirective
    <3>2. note.what = "line" /\ note.line = line /\ note.procs = procs  BY DEF Note
    <3>3. line' \in Nat
      <4>1. l \in Nat  BY <1>1, <2>11, AsmAssumption DEF TypeInv, Lines
      <4> QED  BY <3>1, <4>1
    <3> QED  BY <2>3, <3>1, <3>2, <3>3
  <2>12. ASSUME NEW a \in Origins, SetOrg(a) PROVE TempsInv'
    <3> PICK note : note = Note("org", NoName, None)  OBVIOUS
    <3>1. Read(note, FALSE) /\ tmps' = <<>> /\ pending' = <<>> /\ labels' = labels  BY <2>12 DEF SetOrg
    <3>2. note.what = "org" /\ note = Note(note.what, note.name, note.id)  BY DEF Note
    <3> QED  BY <2>4, <3>1, <3>2
  <2>13. ASSUME NEW n \in Names, LocalLabel(n) PROVE TempsInv'
    <3>1. PICK name, note :
              /\ name[2] \in Names /\ log' = Append(log, note) /\ procs' = procs /\ Puts(name, note)
      BY <1>1, <2>13, LocalPuts
    <3>2. PICK l : IsLabel(l) /\ PutLabel(name, l)  BY <3>1 DEF Puts
    <3>3. \A v \in Temps : labels'[log[v].id] = labels[log[v].id]  BY <1>1, <1>3, <2>1, <3>1, <3>2, PutTemps
    <3> PICK noted : noted = Note("local", Qualified(n), None)  OBVIOUS
    <3>4. Read(noted, FALSE) /\ UNCHANGED <<tmps, pending>>  BY <2>13 DEF LocalLabel
    <3>5. noted.what = "local" /\ noted = Note(noted.what, noted.name, noted.id)  BY DEF Note
    <3> QED  BY <2>4, <3>3, <3>4, <3>5
  <2>14. ASSUME NEW n \in Names, DeclareLabel(n) PROVE TempsInv'
    <3>0. Quiet'  BY DEF Quiet
    <3>1. PICK name, note :
              /\ name[2] \in Names /\ log' = Append(log, note) /\ procs' = procs /\ Puts(name, note)
      BY <1>1, <2>14, <3>0, DeclarePuts
    <3>2. PICK l : IsLabel(l) /\ PutLabel(name, l)  BY <3>1 DEF Puts
    <3>3. \A v \in Temps : labels'[log[v].id] = labels[log[v].id]  BY <1>1, <1>3, <2>1, <3>1, <3>2, PutTemps
    <3> PICK noted : noted = Note("label", Qualified(n), None)  OBVIOUS
    <3>4. UNCHANGED <<tmps, pending>> /\ \E stays \in BOOLEAN : Read(noted, stays)  BY <2>14, Zenon DEF DeclareLabel
    <3>5. noted.what = "label" /\ noted = Note(noted.what, noted.name, noted.id) /\ noted.name[2] = n
      BY DEF Note, Qualified
    <3>6. n \notin Temporaries  BY <1>1, <2>14, AsmAssumption DEF TypeInv, Names, Temporaries
    <3>7. PICK stays \in BOOLEAN : Read(noted, stays)  BY <3>4
    <3>8. tmps' = tmps /\ pending' = pending  BY <3>4
    <3> QED  BY <2>4, <3>3, <3>5, <3>6, <3>7, <3>8
  <2>15. ASSUME NEW n \in Names, UseLabel(n) PROVE TempsInv'
    <3> PICK id, noted : noted = Note("use", Qualified(n), id) /\ Read(noted, FALSE)
      BY <2>15, Zenon DEF UseLabel
    <3>1. UNCHANGED <<tmps, pending, procs>>  BY <2>15 DEF UseLabel
    <3>2. noted.what = "use" /\ noted = Note(noted.what, noted.name, noted.id)  BY DEF Note
    <3>3. \A v \in Temps : labels'[log[v].id] = labels[log[v].id]
      <4>1. CASE labels' = labels  BY <4>1
      <4>2. CASE labels' = Append(labels, Label(Qualified(n), None, 0))
        <5>1. IsSeq(labels)  BY <1>1 DEF TypeInv, LabelsOK
        <5>2. \A i \in 1 .. Len(labels) : labels'[i] = labels[i]  BY <4>2, <5>1, AppendIs
        <5>3. \A v \in Temps : log[v].id \in 1 .. Len(labels)  BY <1>3 DEF Own
        <5> QED  BY <5>2, <5>3
      <4>3. labels' = labels \/ labels' = Append(labels, Label(Qualified(n), None, 0))
        BY <2>15 DEF UseLabel
      <4> QED  BY <4>1, <4>2, <4>3
    <3> QED  BY <2>4, <3>1, <3>2, <3>3
  <2>16. ASSUME NEW t \in Temporaries, DeclareTemporary(t) PROVE TempsInv'
    <3> PICK noted : noted = Note("label", Qualified(t), None)  OBVIOUS
    <3>1. phase = "reading" /\ log' = Append(log, noted)  BY <2>16 DEF DeclareTemporary, Read
    <3>2. noted.procs = procs  BY DEF Note
    <3>3. TempsInv  BY <2>2, <3>1, <3>2
    <3> QED  BY <1>1, <1>3, <2>1, <2>16, <3>3, TempsDeclare
  <2>17. ASSUME NEW t \in Temporaries, NEW dir \in {-1, 1}, UseTemporary(t, dir) PROVE TempsInv'
    <3> PICK noted : noted = Note(IF dir < 0 THEN "back" ELSE "forth", Qualified(t), Len(labels) + 1)  OBVIOUS
    <3>1. phase = "reading" /\ log' = Append(log, noted)  BY <2>17 DEF UseTemporary, Read
    <3>2. noted.procs = procs  BY DEF Note
    <3>3. TempsInv  BY <2>2, <3>1, <3>2
    <3> QED  BY <1>1, <1>3, <2>1, <2>17, <3>3, TempsUse
  <2>18. CASE Finish
    <3>1. line' = line /\ log' = log /\ tmps' = tmps /\ pending' = pending /\ labels' = labels /\ phase = "reading"
      BY <2>18 DEF Finish
    <3> QED  BY <1>4, <2>1, <3>1
  <2> QED
    BY <1>6, <2>5, <2>6, <2>7, <2>9, <2>10, <2>11, <2>12, <2>13, <2>14, <2>15, <2>16, <2>17, <2>18
    DEF Next, Statement
<1> QED  BY <1>5, <1>6

\* Two statements of a file, in order.
LEMMA InOrder ==
    ASSUME TypeInv, OrderedLines, NEW i \in 1 .. Len(log), NEW j \in 1 .. Len(log), i < j, log[i].file = log[j].file
    PROVE  /\ log[i].line <= log[j].line
           /\ log[i].line = log[j].line /\ log[i].name[2] = log[j].name[2] /\ log[j].name # NoName =>
                 log[i].what = "label" /\ log[j].what \in {"back", "use"}
<1>1. DOMAIN log = 1 .. Len(log) /\ Len(log) \in Nat  BY DEF TypeInv, IsSeq
<1>2. i \in 1 .. j - 1 /\ j \in DOMAIN log  BY <1>1
<1> QED  BY <1>2, Zenon DEF OrderedLines

\* The property's Meant is the address of that label.
LEMMA MeantIs ==
    ASSUME TypeInv, NEW u \in Temps, NEW d, IsMeant(u, d)
    PROVE  Meant(u) = log[d].addr
<1> DEFINE same == {e \in Where("label") : log[e].name = log[u].name /\ log[e].file = log[u].file}
<1> DEFINE back == {e \in same : e < u}
<1> DEFINE forth == {e \in same : e > u}
<1>1. Meant(u) = IF log[u].what = "back" THEN (IF back = {} THEN None ELSE log[Highest(back)].addr)
                 ELSE (IF forth = {} THEN None ELSE log[Lowest(forth)].addr)
  BY DEF Meant
<1>2. same \subseteq 1 .. Len(log) /\ u \in 1 .. Len(log) /\ Len(log) \in Nat /\ d \in same
  BY DEF TypeInv, IsSeq, Where, Temps, IsMeant
<1>3. back \in SUBSET (0 .. Len(log)) /\ forth \in SUBSET (0 .. Len(log))
  <2>1. \A x \in 1 .. Len(log) : x \in 0 .. Len(log)  BY <1>2
  <2> HIDE DEF same
  <2> QED  BY <1>2, <2>1
<1>4. CASE log[u].what = "back"
  <2>1. d \in back /\ \A e \in back : e <= d  BY <1>2, <1>4 DEF IsMeant
  <2> HIDE DEF back
  <2>2. Highest(back) \in back /\ d <= Highest(back)  BY <1>2, <1>3, <2>1, EndsAre
  <2>3. Highest(back) <= d  BY <2>1, <2>2
  <2>4. Highest(back) \in Nat /\ d \in Nat
    <3>1. \A x \in back : x \in 0 .. Len(log)  BY <1>3
    <3>2. \A x \in 0 .. Len(log) : x \in Nat  BY <1>2
    <3> QED  BY <2>1, <2>2, <3>1, <3>2, Zenon
  <2>5. PICK h : h = Highest(back)  OBVIOUS
  <2>6. h = d  BY <2>2, <2>3, <2>4, <2>5
  <2> QED  BY <1>1, <1>4, <2>1, <2>5, <2>6
<1>5. CASE log[u].what # "back"
  <2>1. d \in forth /\ \A e \in forth : d <= e
    <3>1. \A e \in 1 .. Len(log) : u < e <=> e > u  BY <1>2
    <3> QED  BY <1>2, <1>5, <3>1 DEF IsMeant
  <2> HIDE DEF forth
  <2>2. Lowest(forth) \in forth /\ Lowest(forth) <= d  BY <1>2, <1>3, <2>1, EndsAre
  <2>3. d <= Lowest(forth)  BY <2>1, <2>2
  <2>4. Lowest(forth) \in Nat /\ d \in Nat
    <3>1. \A x \in forth : x \in 0 .. Len(log)  BY <1>3
    <3>2. \A x \in 0 .. Len(log) : x \in Nat  BY <1>2
    <3> QED  BY <2>1, <2>2, <3>1, <3>2, Zenon
  <2>5. PICK h : h = Lowest(forth)  OBVIOUS
  <2>6. h = d  BY <2>2, <2>3, <2>4, <2>5
  <2> QED  BY <1>1, <1>5, <2>1, <2>5, <2>6
<1> QED  BY <1>4, <1>5

\* resolve_temporary_label finds it, among those declared since the last ORG.
LEMMA ResolvedMeant ==
    ASSUME TypeInv, TempsInv, OrderedLines, NEW u \in Temps, Fresh(u), Resolved(labels[log[u].id]) # None
    PROVE  \E d : IsMeant(u, d) /\ Resolved(labels[log[u].id]) = log[d].addr
<1> PICK l : l = labels[log[u].id]  OBVIOUS
<1> PICK n : n = Len(tmps)  OBVIOUS
<1> DEFINE there == {i \in DOMAIN tmps : /\ tmps[i].file = l.file
                                        /\ tmps[i].name = l.name
                                        /\ IF l.dir < 0 THEN tmps[i].line <= l.line
                                                        ELSE tmps[i].line >= l.line}
<1>1. Asks(u)  BY DEF TempsInv
<1>2. /\ l.file = log[u].file /\ l.name = log[u].name /\ l.line = log[u].line
      /\ (l.dir < 0 <=> log[u].what = "back")
  BY <1>1 DEF Asks
<1>3. there # {} /\ Resolved(l) = tmps[Nearest(there, l.dir)].value  BY DEF Resolved
<1>4. DOMAIN tmps = 1 .. n /\ n \in Nat  BY DEF TempsInv, Kept, IsSeq
<1>5. there \in SUBSET (0 .. n)
  <2>1. \A i \in 1 .. n : i \in 0 .. n  BY <1>4
  <2> QED  BY <1>4, <2>1
<1>6. PICK i : /\ i \in there /\ Resolved(l) = tmps[i].value
               /\ IF l.dir < 0 THEN \A j \in there : j <= i ELSE \A j \in there : i <= j
  <2> HIDE DEF there
  <2>1. /\ Lowest(there) \in there /\ \A y \in there : Lowest(there) <= y
        /\ Highest(there) \in there /\ \A y \in there : y <= Highest(there)
    BY <1>3, <1>4, <1>5, EndsAre
  <2>2. CASE l.dir < 0
    <3>1. Nearest(there, l.dir) = Highest(there)  BY <2>2 DEF Nearest
    <3> QED  BY <1>3, <2>1, <2>2, <3>1
  <2>3. CASE ~ (l.dir < 0)
    <3>1. Nearest(there, l.dir) = Lowest(there)  BY <2>3 DEF Nearest
    <3> QED  BY <1>3, <2>1, <2>3, <3>1
  <2> QED  BY <2>2, <2>3
<1>7. /\ i \in 1 .. n /\ tmps[i].file = log[u].file /\ tmps[i].name = log[u].name
      /\ IF log[u].what = "back" THEN tmps[i].line <= log[u].line ELSE tmps[i].line >= log[u].line
  BY <1>2, <1>4, <1>6
<1>8. \A j \in 1 .. n :
         /\ tmps[j].file = log[u].file /\ tmps[j].name = log[u].name
         /\ IF log[u].what = "back" THEN tmps[j].line <= log[u].line ELSE tmps[j].line >= log[u].line
         => j \in there
  BY <1>2, <1>4
<1>9. IF log[u].what = "back" THEN \A j \in there : j <= i ELSE \A j \in there : i <= j
  <2> HIDE DEF there
  <2> QED  BY <1>2, <1>6
<1> HIDE DEF there
<1>10. PICK d \in Where("label") : Fresh(d) /\ tmps[i] = Entry(d)  BY <1>7 DEF TempsInv, Kept
<1>11. /\ tmps[i].file = log[d].file /\ tmps[i].name = log[d].name /\ tmps[i].line = log[d].line
       /\ tmps[i].value = log[d].addr
  BY <1>10 DEF Entry
<1>12. /\ u \in 1 .. Len(log) /\ Len(log) \in Nat
       /\ Where("label") \subseteq 1 .. Len(log) /\ Where("org") \subseteq 1 .. Len(log)
       /\ (log[u].what = "back" \/ log[u].what = "forth")
       /\ \A e \in Where("label") : log[e].what = "label"
       /\ \A e \in 1 .. Len(log) : log[e].line \in Nat
  BY DEF TypeInv, IsSeq, Where, Temps, TempsInv, Lined
<1>13. log[u].name # NoName
  <2>1. log[u].name[2] \in Temporaries  BY <1>1 DEF Asks
  <2>2. "" \notin Temporaries  BY AsmAssumption DEF TypeInv, Temporaries
  <2>3. NoName[2] = ""  BY DEF NoName
  <2> QED  BY <2>1, <2>2, <2>3, Zenon
<1> PICK L : L = log[u].line  OBVIOUS
<1>14. ASSUME NEW e \in Where("label"), log[e].name = log[u].name, log[e].file = log[u].file
       PROVE  /\ e < u => log[e].line <= L
              /\ u < e => L <= log[e].line /\ L # log[e].line
              /\ e < u /\ log[u].what = "forth" => log[e].line # L
              /\ e # u
              /\ \A f \in Where("label") : /\ f < e /\ log[f].name = log[u].name /\ log[f].file = log[u].file
                                           => log[f].line <= log[e].line /\ log[f].line # log[e].line
  <2>1. e \in 1 .. Len(log) /\ log[e].what = "label" /\ e # u  BY <1>12, <1>14
  <2>2. ASSUME e < u PROVE log[e].line <= L /\ (log[e].line = L => log[u].what \in {"back", "use"})
    BY <1>12, <1>13, <1>14, <2>1, <2>2, InOrder
  <2>3. ASSUME u < e PROVE L <= log[e].line /\ L # log[e].line
    <3>1. L <= log[e].line /\ (L = log[e].line => log[e].what \in {"back", "use"})
      BY <1>12, <1>13, <1>14, <2>1, <2>3, InOrder
    <3>2. log[e].what \notin {"back", "use"}  BY <2>1
    <3> QED  BY <3>1, <3>2, Zenon
  <2>4. ASSUME NEW f \in Where("label"), f < e, log[f].name = log[u].name, log[f].file = log[u].file
        PROVE  log[f].line <= log[e].line /\ log[f].line # log[e].line
    <3>1. f \in 1 .. Len(log)  BY <1>12, <2>4
    <3>2. log[f].line <= log[e].line /\ (log[f].line = log[e].line => log[e].what \in {"back", "use"})
      BY <1>13, <1>14, <2>1, <2>4, <3>1, InOrder
    <3>3. log[e].what \notin {"back", "use"}  BY <2>1
    <3> QED  BY <3>2, <3>3, Zenon
  <2>5. log[u].what = "forth" => log[u].what \notin {"back", "use"}  OBVIOUS
  <2> QED  BY <2>1, <2>2, <2>3, <2>4, <2>5, Zenon
<1>15. \A e \in Where("label") : log[e].name = log[u].name /\ Fresh(e) =>
          \E j \in 1 .. n : tmps[j] = Entry(e)
  BY <1>1 DEF Asks, TempsInv, Kept
<1>16. \A j, k \in 1 .. n : j < k /\ tmps[j].file = tmps[k].file => tmps[j].line <= tmps[k].line
  BY DEF TempsInv, Kept
<1>17. log[d].name = log[u].name /\ log[d].file = log[u].file /\ d \in 1 .. Len(log)
       /\ log[d].line \in Nat /\ L \in Nat /\ u \in Nat /\ d \in Nat
  BY <1>7, <1>10, <1>11, <1>12
<1>18. CASE log[u].what = "back"
  <2>1. log[d].line <= L  BY <1>7, <1>11, <1>18
  <2>2. d < u
    <3>1. u < d => L <= log[d].line /\ L # log[d].line  BY <1>14, <1>17
    <3>2. d # u  BY <1>14, <1>17
    <3>3. PICK y : y = log[d].line  OBVIOUS
    <3>4. ~ (u < d)  BY <2>1, <3>1, <3>3, <1>17
    <3> QED  BY <1>17, <3>2, <3>4
  <2>3. ASSUME NEW e \in Where("label"), log[e].name = log[u].name, log[e].file = log[u].file, e < u
        PROVE  e <= d
    <3> SUFFICES ASSUME ~ (e <= d) PROVE FALSE  OBVIOUS
    <3>1. e \in 1 .. Len(log) /\ log[e].line \in Nat  BY <1>12
    <3>2. d < e  BY <1>17, <3>1
    <3>3. Fresh(e)
      <4>1. \A j \in Where("org") : j < d  BY <1>10 DEF Fresh
      <4>2. \A j \in Where("org") : j < e  BY <1>12, <1>17, <3>1, <3>2, <4>1
      <4> QED  BY <4>2 DEF Fresh
    <3>4. PICK j \in 1 .. n : tmps[j] = Entry(e)  BY <1>15, <2>3, <3>3
    <3>5. tmps[j].file = log[e].file /\ tmps[j].name = log[e].name /\ tmps[j].line = log[e].line  BY <3>4 DEF Entry
    <3>6. log[e].line <= L  BY <1>14, <2>3
    <3>7. j \in there  BY <1>8, <1>18, <2>3, <3>5, <3>6
    <3>8. j <= i  BY <1>9, <1>18, <3>7
    <3>9. log[d].line <= log[e].line /\ log[d].line # log[e].line  BY <1>14, <1>17, <2>3, <3>2
    <3>10. j = i \/ log[e].line <= log[d].line
      <4>1. j = i \/ j < i  BY <3>8, <1>7, <1>4
      <4> QED  BY <4>1, <1>7, <1>11, <1>16, <2>3, <3>5
    <3>11. log[e].line <= log[d].line
      <4>1. j = i => log[e].line = log[d].line  BY <3>5, <1>11
      <4> QED  BY <3>9, <3>10, <4>1, Zenon
    <3> PICK x, y : x = log[d].line /\ y = log[e].line  OBVIOUS
    <3> QED  BY <1>17, <3>1, <3>9, <3>11
  <2>4. IsMeant(u, d)  BY <1>17, <1>18, <2>2, <2>3, Zenon DEF IsMeant
  <2> QED  BY <1>6, <1>11, <2>4
<1>19. CASE log[u].what = "forth"
  <2>0. log[u].what # "back"  BY <1>19
  <2>1. log[d].line >= L  BY <1>7, <1>11, <2>0
  <2>2. u < d
    <3>1. d < u => log[d].line <= L /\ L # log[d].line  BY <1>14, <1>17, <1>19
    <3>2. d # u  BY <1>14, <1>17
    <3>3. PICK y : y = log[d].line  OBVIOUS
    <3>4. ~ (d < u)  BY <2>1, <3>1, <3>3, <1>17
    <3> QED  BY <1>17, <3>2, <3>4
  <2>3. ASSUME NEW e \in Where("label"), log[e].name = log[u].name, log[e].file = log[u].file, u < e
        PROVE  d <= e
    <3> SUFFICES ASSUME ~ (d <= e) PROVE FALSE  OBVIOUS
    <3>1. e \in 1 .. Len(log) /\ log[e].line \in Nat  BY <1>12
    <3>2. e < d  BY <1>17, <3>1
    <3>3. Fresh(e)
      <4>1. \A j \in Where("org") : j < u  BY DEF Fresh
      <4>2. \A j \in Where("org") : j < e  BY <1>12, <1>17, <2>3, <3>1, <4>1
      <4> QED  BY <4>2 DEF Fresh
    <3>4. PICK j \in 1 .. n : tmps[j] = Entry(e)  BY <1>15, <2>3, <3>3
    <3>5. tmps[j].file = log[e].file /\ tmps[j].name = log[e].name /\ tmps[j].line = log[e].line  BY <3>4 DEF Entry
    <3>6. L <= log[e].line  BY <1>14, <2>3
    <3>7. tmps[j].line >= log[u].line
      <4>1. PICK y : y = log[e].line  OBVIOUS
      <4>2. y >= L  BY <3>1, <3>6, <4>1, <1>17
      <4> QED  BY <3>5, <4>1, <4>2, Zenon
    <3>8. j \in there  BY <1>8, <2>0, <2>3, <3>5, <3>7
    <3>9. i <= j  BY <1>9, <2>0, <3>8
    <3>10. log[e].line <= log[d].line /\ log[e].line # log[d].line  BY <1>14, <1>17, <2>3, <3>2
    <3>11. j = i \/ log[d].line <= log[e].line
      <4>1. j = i \/ i < j  BY <3>9, <1>7, <1>4
      <4> QED  BY <4>1, <1>7, <1>11, <1>16, <2>3, <3>5
    <3>12. log[d].line <= log[e].line
      <4>1. j = i => log[e].line = log[d].line  BY <3>5, <1>11
      <4> QED  BY <3>10, <3>11, <4>1, Zenon
    <3> PICK x, y : x = log[d].line /\ y = log[e].line  OBVIOUS
    <3> QED  BY <1>17, <3>1, <3>10, <3>12
  <2>4. IsMeant(u, d)  BY <1>17, <2>0, <2>2, <2>3, Zenon DEF IsMeant
  <2> QED  BY <1>6, <1>11, <2>4
<1> QED  BY <1>12, <1>18, <1>19

\* When the program ends without an error, the dump shows it.
LEMMA DumpedTemps ==
    ASSUME MemoryKnown, errors = {}, TempsInv, OrderedLines, NEW u \in Temps,
           Alone(u), ~ EmptyAt(log[u].addr),
           \A a \in DOMAIN slots : slots[a] # <<>> /\ slots[a][1].pending /\ slots[a][1].id # None =>
              ~ Undefined(Value(slots[a][1].id))
    PROVE  /\ cells # <<>>
           /\ \E d : IsMeant(u, d) /\ Dumped[log[u].addr - Lowest(DOMAIN cells) + 1] = log[d].addr
<1> PICK a, id : a = log[u].addr /\ id = log[u].id  OBVIOUS
<1>1. Own /\ Laid /\ Stored /\ TypeInv /\ u \in Asking
  BY DEF MemoryKnown, MemoryInv, OperandsKnown, DuplicatesInv, Asking
<1>2. /\ a \in DOMAIN slots /\ slots[a] # <<>> /\ Ready(u)
      /\ DOMAIN slots = DOMAIN cells /\ a \in DOMAIN cells
  BY <1>1 DEF Stored, Laid
<1>3. DOMAIN cells # {} /\ cells # <<>>  BY <1>2
<1>4. Dumped[a - Lowest(DOMAIN cells) + 1] = CellOf(a)  BY <1>1, <1>2, <1>3, DumpIs
<1>5. id # None /\ id \in 1 .. Len(labels)
  <2>1. id \in 1 .. Len(labels)  BY <1>1 DEF Own
  <2>2. -1 \notin 1 .. Len(labels)  OBVIOUS
  <2> QED  BY <2>1, <2>2 DEF None
<1>6. slots[a][1].id = id
  <2>1. \/ slots[a][1].id = None /\ EmptyAt(a)
        \/ \E v \in Asking : log[v].addr = a /\ slots[a][1].id = log[v].id
    BY <1>1, <1>2 DEF Laid
  <2> QED  BY <2>1 DEF Alone
<1>7. slots[a][1].pending
  <2>1. u \notin Uses  BY DEF Uses, Temps, Where
  <2> QED  BY <1>2, <1>6, <2>1 DEF Ready
<1>8. CellOf(a) = Value(id) /\ Value(id) # None
  <2>1. CellOf(a) = Value(id)  BY <1>2, <1>5, <1>6, <1>7 DEF CellOf
  <2>2. ~ Undefined(Value(id))  BY <1>2, <1>5, <1>6, <1>7
  <2> QED  BY <2>1, <2>2 DEF Undefined
<1>9. Asks(u)  BY DEF TempsInv
<1>10. PICK k \in DOMAIN pending : pending[k] = id
  <2> SUFFICES ASSUME ~ \E k \in DOMAIN pending : pending[k] = id PROVE FALSE  OBVIOUS
  <2>1. Value(id) = labels[id].value  BY DEF Value
  <2> QED  BY <1>8, <1>9, <2>1 DEF Asks
<1>11. Value(id) = Resolved(labels[id])  BY <1>10 DEF Value
<1>12. Fresh(u)
  <2>1. k \in 1 .. Len(pending)  BY <1>1, <1>10 DEF Own, IsSeq
  <2> QED  BY <1>9, <1>10, <2>1 DEF Asks
<1>13. PICK d : IsMeant(u, d) /\ Resolved(labels[id]) = log[d].addr
  BY <1>1, <1>8, <1>11, <1>12, ResolvedMeant
<1> QED  BY <1>3, <1>4, <1>8, <1>11, <1>13

\* The end of the program shows its temporary operands.
LEMMA FinishTemps ==
    ASSUME MemoryKnown, TempsKnown, Finish
    PROVE  FinalTemps'
<1> SUFFICES ASSUME errors' = {}, OrderedLines' PROVE Shown'  BY Zenon DEF FinalTemps
<1>1. cells' = cells /\ log' = log /\ slots' = slots /\ phase = "reading"  BY DEF Finish
<1>2. errors = {}  BY DEF Finish
<1>3. OrderedLines  BY <1>1 DEF OrderedLines
<1>4. TempsInv  BY <1>1, <1>2, <1>3 DEF TempsKnown
<1>5. cells # <<>> =>
         /\ \A a \in DOMAIN slots : slots[a] # <<>> /\ slots[a][1].pending /\ slots[a][1].id # None =>
               ~ Undefined(Value(slots[a][1].id))
         /\ output' = Dumped
  <2> SUFFICES ASSUME cells # <<>>
               PROVE /\ \A a \in DOMAIN slots : slots[a] # <<>> /\ slots[a][1].pending /\ slots[a][1].id # None =>
                           ~ Undefined(Value(slots[a][1].id))
                     /\ output' = Dumped
    OBVIOUS
  <2>1. output' = Dumped  BY Zenon DEF Finish
  <2>2. ~ \E a \in DOMAIN slots :
             /\ slots[a] # <<>> /\ slots[a][1].pending /\ slots[a][1].id # None
             /\ Undefined(Value(slots[a][1].id))
    <3>1. "undefined" \notin errors'  OBVIOUS
    <3> QED  BY <3>1 DEF Finish
  <2> QED  BY <2>1, <2>2
<1>6. Temps' = Temps /\ Asking' = Asking /\ \A w : Where(w)' = Where(w)
  BY <1>1 DEF Temps, Asking, Uses, Where
<1>7. ASSUME NEW u \in Temps, Alone(u)', ~ EmptyAt(log[u].addr)'
      PROVE  \E d : IsMeant(u, d)' /\ output'[log'[u].addr - Lowest(DOMAIN cells') + 1] = log'[d].addr
  <2>1. Alone(u)  BY <1>1, <1>6, <1>7 DEF Alone
  <2>2. ~ EmptyAt(log[u].addr)  BY <1>1, <1>6, <1>7 DEF EmptyAt
  <2>3. cells # <<>>
    <3>1. log[u].addr \in DOMAIN slots /\ DOMAIN slots = DOMAIN cells
      BY <1>2, <1>7 DEF MemoryKnown, MemoryInv, Stored, Laid, Asking
    <3> QED  BY <3>1
  <2>4. PICK d : IsMeant(u, d) /\ Dumped[log[u].addr - Lowest(DOMAIN cells) + 1] = log[d].addr
    BY <1>2, <1>3, <1>4, <1>5, <2>1, <2>2, <2>3, DumpedTemps
  <2>5. IsMeant(u, d)'  BY <1>1, <1>6, <2>4, Zenon DEF IsMeant
  <2>6. output' = Dumped  BY <1>5, <2>3
  <2>7. PICK lo : lo = Lowest(DOMAIN cells) /\ lo = Lowest(DOMAIN cells')  BY <1>1, Zenon
  <2>8. output'[log'[u].addr - lo + 1] = log'[d].addr  BY <1>1, <2>4, <2>6, <2>7, Zenon
  <2> QED  BY <2>5, <2>7, <2>8, Zenon
<1> QED  BY <1>6, <1>7, Zenon DEF Shown

\* What is shown stays so.
LEMMA ShownStays ==
    ASSUME Shown, UNCHANGED vars
    PROVE  Shown'
<1>1. cells' = cells /\ log' = log /\ output' = output  BY DEF vars
<1>2. Temps' = Temps /\ Asking' = Asking /\ \A w : Where(w)' = Where(w)
  BY <1>1 DEF Temps, Asking, Uses, Where
<1>3. ASSUME NEW u \in Temps, Alone(u)', ~ EmptyAt(log[u].addr)'
      PROVE  \E d : IsMeant(u, d)' /\ output'[log'[u].addr - Lowest(DOMAIN cells') + 1] = log'[d].addr
  <2>1. Alone(u)  BY <1>1, <1>2, <1>3 DEF Alone
  <2>2. ~ EmptyAt(log[u].addr)  BY <1>1, <1>2, <1>3 DEF EmptyAt
  <2>3. PICK d : IsMeant(u, d) /\ output[log[u].addr - Lowest(DOMAIN cells) + 1] = log[d].addr
    BY <2>1, <2>2 DEF Shown
  <2>4. IsMeant(u, d)'  BY <1>1, <1>2, <2>3, Zenon DEF IsMeant
  <2>5. PICK lo : lo = Lowest(DOMAIN cells) /\ lo = Lowest(DOMAIN cells')  BY <1>1, Zenon
  <2>6. output'[log'[u].addr - lo + 1] = log'[d].addr  BY <1>1, <2>3, <2>5, Zenon
  <2> QED  BY <2>4, <2>5, <2>6, Zenon
<1> QED  BY <1>2, <1>3, Zenon DEF Shown

\* Nothing has been read at the beginning.
LEMMA TempsInit == Init => TempsFinal
<1> SUFFICES ASSUME Init PROVE TempsFinal  OBVIOUS
<1>1. log = <<>> /\ tmps = <<>> /\ line = 1 /\ phase = "reading"  BY DEF Init
<1>2. \A w : Where(w) = {}  BY <1>1 DEF Where
<1>3. Temps = {}  BY <1>2 DEF Temps
<1>4. IsSeq(tmps) /\ Len(tmps) = 0 /\ Len(log) = 0
  <2>1. <<>> \in Seq({})  OBVIOUS
  <2> QED  BY <1>1, <2>1 DEF IsSeq
<1>5. Kept  BY <1>2, <1>4 DEF Kept
<1>6. Lined  BY <1>1, <1>4 DEF Lined
<1>7. TempsKnown  BY <1>3, <1>5, <1>6 DEF TempsKnown, TempsInv
<1> QED  BY <1>1, <1>7, FinalInit DEF TempsFinal, FinalTemps

\* All of it holds for good.
LEMMA TempsStay ==
    TempsFinal /\ [Next]_vars => TempsFinal'
<1> SUFFICES ASSUME TempsFinal, [Next]_vars PROVE TempsFinal'  OBVIOUS
<1>1. OperandsFinal'  BY FinalNext DEF TempsFinal
<1>2. TempsKnown'  BY TempsNext DEF TempsFinal, OperandsFinal
<1>3. CASE UNCHANGED vars
  <2>1. phase' = phase /\ errors' = errors /\ log' = log  BY <1>3 DEF vars
  <2>2. OrderedLines' => OrderedLines  BY <2>1 DEF OrderedLines
  <2>3. Shown => Shown'  BY <1>3, ShownStays
  <2>4. FinalTemps'  BY <2>1, <2>2, <2>3, Zenon DEF TempsFinal, FinalTemps
  <2> QED  BY <1>1, <1>2, <2>4 DEF TempsFinal
<1>4. CASE Finish
  <2>1. FinalTemps'  BY <1>4, FinishTemps DEF TempsFinal, OperandsFinal
  <2> QED  BY <1>1, <1>2, <2>1 DEF TempsFinal
<1>5. CASE Next /\ ~ Finish
  <2>1. phase' # "done"  BY <1>5, NotDone
  <2>2. FinalTemps'  BY <2>1 DEF FinalTemps
  <2> QED  BY <1>1, <1>2, <2>2 DEF TempsFinal
<1> QED  BY <1>3, <1>4, <1>5

\* What the dump shows is what the property asks.
LEMMA TempsFollow == TempsFinal => TemporariesResolve
<1> SUFFICES ASSUME TempsFinal, Assembled, OrderedLines,
                    NEW u \in Where("back") \union Where("forth"), AloneAt(u, Operands \union {"empty"})
             PROVE  output[log[u].addr - Lowest(DOMAIN cells) + 1] = Meant(u)
  BY Zenon DEF TemporariesResolve
<1>1. u \in Temps /\ Shown /\ TypeInv
  BY DEF Temps, TempsFinal, FinalTemps, Assembled, OperandsFinal, MemoryKnown, OperandsKnown, DuplicatesInv
<1>2. Alone(u)  BY AloneIs
<1>3. ~ EmptyAt(log[u].addr)
  <2> SUFFICES ASSUME NEW v \in Where("empty"), log[v].addr = log[u].addr PROVE FALSE  BY DEF EmptyAt
  <2>1. v \in UNION {Where(kind) : kind \in Operands \union {"empty"}}  BY Zenon
  <2>2. v = u  BY <2>1, Zenon DEF AloneAt
  <2>3. (log[u].what = "back" \/ log[u].what = "forth") /\ log[u].what = "empty"  BY <2>2 DEF Where
  <2> QED  BY <2>3
<1>4. PICK d : IsMeant(u, d) /\ output[log[u].addr - Lowest(DOMAIN cells) + 1] = log[d].addr
  BY <1>1, <1>2, <1>3 DEF Shown
<1>5. Meant(u) = log[d].addr  BY <1>1, <1>4, MeantIs
<1> QED  BY <1>4, <1>5, Zenon

\* When a program whose lines are in order assembles, every temporary operand alone at its
\* address has the address of the label it means: the last of its name before it in the
\* file, or the first after it.
THEOREM TemporariesAlways == Spec => []TemporariesResolve
<1>1. TempsFinal => TemporariesResolve  BY TempsFollow
<1> QED  BY <1>1, TempsInit, TempsStay, PTL DEF Spec

---------------------------
(* Programs that keep the rules. *)

\* An instruction is the last one at its address, or is not stored.
LEMMA Laid1 ==
    ASSUME NEW instr, NEW size, NEW value, AddInstruction(instr, size, value)
    PROVE  \/ slots' = slots
           \/ slots' = [SlotAt(slots, index) EXCEPT ![index] = Append(@, instr)]
  BY DEF AddInstruction

\* Every statement is of one of these kinds.
LEMMA Kinds ==
    ASSUME DuplicatesInv, Next, ~ Finish
    PROVE  \E note : note.procs = procs /\ log' = Append(log, note) /\ Kind(note) /\ Laying(note)
<1>1. TypeInv  BY DEF DuplicatesInv
<1> DEFINE Goal == \E note : note.procs = procs /\ log' = Append(log, note) /\ Kind(note) /\ Laying(note)
<1>2. PICK m : IsLabel(m)  BY LabelIs
<1>3. CASE EnterProc
  <2> PICK note : note = Note("proc", NoName, None)  OBVIOUS
  <2>1. log' = Append(log, note) /\ slots' = slots /\ pending' = pending  BY <1>3 DEF EnterProc, Read
  <2>2. note.what = "proc" /\ note.procs = procs  BY DEF Note
  <2>3. Kind(note) /\ Laying(note)  BY <1>3, <2>1, <2>2, Zenon DEF Kind, Laying
  <2> QED  BY <2>1, <2>2, <2>3
<1>4. CASE ExitProc
  <2> PICK note : note = Note("endp", NoName, None)  OBVIOUS
  <2>1. log' = Append(log, note) /\ slots' = slots /\ pending' = pending
    BY <1>4, Zenon DEF ExitProc, Read
  <2>2. note.what = "endp" /\ note.procs = procs  BY DEF Note
  <2>3. Kind(note) /\ Laying(note)  BY <1>4, <2>1, <2>2, Zenon DEF Kind, Laying
  <2> QED  BY <2>1, <2>2, <2>3
<1>5. ASSUME NEW note, note.procs = procs, log' = Append(log, note), UNCHANGED <<scopes, procs, labels>>,
             note.what \notin {"proc", "endp", "local"}, Laying(note),
             errors' = errors \/ errors' = errors \union {"org"} \/ errors' = errors \union {"no namespace"}
      PROVE  Goal
  <2>1. errors \subseteq errors' /\ errors' \subseteq errors \union {"duplicate", "org", "no namespace"}
    BY <1>5
  <2>2. note.what # "local" /\ note.what \notin {"proc", "endp"} /\ scopes' = scopes /\ labels' = labels /\ procs' = procs
    BY <1>5
  <2>3. Kind(note)  BY <1>2, <2>1, <2>2, Zenon DEF Kind
  <2> QED  BY <1>5, <2>3, Zenon
<1>6. ASSUME NEW note, note.procs = procs, log' = Append(log, note), procs' = procs,
             note.what \notin {"proc", "endp"}, Laying(note),
             errors' = errors \/ errors' = errors \union {"duplicate"},
             Quiet' => \E name : name[2] \in Names /\ note.name = name /\ Puts(name, note)
      PROVE  Goal
  <2>1. errors \subseteq errors' /\ errors' \subseteq errors \union {"duplicate", "org", "no namespace"}
    BY <1>6
  <2>2. Kind(note)  BY <1>6, <2>1, Zenon DEF Kind
  <2> QED  BY <1>6, <2>2, Zenon
<1>7. CASE AddEmpty
  <2> PICK note : note = Note("empty", NoName, None)  OBVIOUS
  <2> PICK instr : instr = [id |-> None, pending |-> TRUE]  OBVIOUS
  <2>1. /\ log' = Append(log, note) /\ UNCHANGED <<scopes, procs, labels>> /\ errors' = errors
        /\ pending' = pending /\ AddInstruction(instr, 0, 0)
    BY <1>7 DEF AddEmpty, Read
  <2>2. note.what = "empty" /\ note.procs = procs  BY DEF Note
  <2>3. instr.id = None  OBVIOUS
  <2>4. \/ slots' = slots
        \/ slots' = [SlotAt(slots, index) EXCEPT ![index] = Append(@, instr)]
    BY <2>1, Laid1
  <2>5. \/ slots' = slots
        \/ \E i : /\ i.id = None \/ (note.what \in Operands /\ i.id = note.id)
                  /\ slots' = [SlotAt(slots, index) EXCEPT ![index] = Append(@, i)]
    BY <2>3, <2>4, Zenon
  <2>6. Laying(note)  BY <2>1, <2>5, Zenon DEF Laying
  <2> QED  BY <1>5, <2>1, <2>2, <2>6
<1>8. ASSUME NEW stack, SwitchNamespace(stack),
             errors' = errors \/ errors' = errors \union {"no namespace"}
      PROVE  Goal
  <2> PICK note : note = Note("namespace", NoName, None)  OBVIOUS
  <2>1. log' = Append(log, note) /\ UNCHANGED <<scopes, procs, labels>> /\ pending' = pending /\ slots' = slots
    BY <1>8 DEF SwitchNamespace
  <2>2. note.what = "namespace" /\ note.procs = procs  BY DEF Note
  <2>3. Laying(note)  BY <2>1, Zenon DEF Laying
  <2> QED  BY <1>5, <1>8, <2>1, <2>2, <2>3
<1>9. CASE PopNamespace
  <2>1. \E stack : SwitchNamespace(stack) /\ (errors' = errors \/ errors' = errors \union {"no namespace"})
    BY <1>9, Zenon DEF PopNamespace
  <2> QED  BY <1>8, <2>1
<1>10. ASSUME NEW ns \in Namespaces, PushNamespace(ns) PROVE Goal
  <2>1. \E stack : SwitchNamespace(stack) /\ errors' = errors  BY <1>10, Zenon DEF PushNamespace
  <2> QED  BY <1>8, <2>1
<1>11. ASSUME NEW a \in Lines, NEW f \in Files, LineDirective(a, f) PROVE Goal
  <2> PICK note : note = Note("line", NoName, None)  OBVIOUS
  <2>1. /\ log' = Append(log, note) /\ UNCHANGED <<scopes, procs, labels>> /\ pending' = pending /\ slots' = slots
        /\ errors' = errors
    BY <1>11 DEF LineDirective
  <2>2. note.what = "line" /\ note.procs = procs  BY DEF Note
  <2>3. Laying(note)  BY <2>1, Zenon DEF Laying
  <2> QED  BY <1>5, <2>1, <2>2, <2>3
<1>12. ASSUME NEW a \in Origins, SetOrg(a) PROVE Goal
  <2> PICK note : note = Note("org", NoName, None)  OBVIOUS
  <2>1. /\ log' = Append(log, note) /\ UNCHANGED <<scopes, procs, labels>> /\ pending' = <<>> /\ slots' = slots
        /\ errors' = errors \/ errors' = errors \union {"org"}
    BY <1>12 DEF SetOrg, Read
  <2>2. note.what = "org" /\ note.procs = procs  BY DEF Note
  <2>3. Laying(note)  BY <2>1, Zenon DEF Laying
  <2> QED  BY <1>5, <2>1, <2>2, <2>3
<1>13. ASSUME NEW t \in Temporaries, DeclareTemporary(t) PROVE Goal
  <2> PICK note : note = Note("label", Qualified(t), None)  OBVIOUS
  <2>1. /\ log' = Append(log, note) /\ UNCHANGED <<scopes, procs, labels>> /\ pending' = pending /\ slots' = slots
        /\ errors' = errors
    BY <1>13 DEF DeclareTemporary, Read
  <2>2. note.what = "label" /\ note.procs = procs  BY DEF Note
  <2>3. Laying(note)  BY <2>1, Zenon DEF Laying
  <2> QED  BY <1>5, <2>1, <2>2, <2>3
<1>14. ASSUME NEW t \in Temporaries, NEW dir \in {-1, 1}, UseTemporary(t, dir) PROVE Goal
  <2> PICK note : note = Note(IF dir < 0 THEN "back" ELSE "forth", Qualified(t), Len(labels) + 1)  OBVIOUS
  <2> PICK l : l = Label(Qualified(t), None, dir)  OBVIOUS
  <2> PICK instr : instr = [id |-> Len(labels'), pending |-> TRUE]  OBVIOUS
  <2>1. /\ log' = Append(log, note) /\ scopes' = scopes /\ procs' = procs /\ errors' = errors
        /\ labels' = Append(labels, l) /\ AddInstruction(instr, 1, 0)
    BY <1>14 DEF UseTemporary, Read
  <2>2. note.what \in {"back", "forth"} /\ note.procs = procs /\ note.id = Len(labels) + 1  BY DEF Note
  <2>3. IsLabel(l)  BY LabelIs
  <2>4. instr.id = note.id
    <3>1. IsSeq(labels)  BY <1>1 DEF TypeInv, LabelsOK
    <3>2. Len(labels') = Len(labels) + 1  BY <2>1, <3>1, AppendIs
    <3> QED  BY <2>2, <3>2
  <2>5. \/ slots' = slots
        \/ slots' = [SlotAt(slots, index) EXCEPT ![index] = Append(@, instr)]
    BY <2>1, Laid1
  <2>6. note.what \in Operands  BY <2>2 DEF Operands
  <2>7. Laying(note)  BY <2>2, <2>4, <2>5, <2>6, Zenon DEF Laying
  <2>8. note.what # "local" /\ note.what \notin {"proc", "endp"}  BY <2>2
  <2>9. errors \subseteq errors' /\ errors' \subseteq errors \union {"duplicate", "org", "no namespace"}  BY <2>1
  <2>10. Kind(note)  BY <2>1, <2>3, <2>8, <2>9, Zenon DEF Kind
  <2> QED  BY <2>1, <2>2, <2>7, <2>10
<1>15. ASSUME NEW n \in Names, LocalLabel(n) PROVE Goal
  <2>1. PICK name, note :
           /\ name[2] \in Names
           /\ note.what = "local" /\ note.name = name /\ note.procs = procs
           /\ log' = Append(log, note) /\ procs' = procs /\ Puts(name, note)
    BY <1>1, <1>15, LocalPuts
  <2>2. slots' = slots /\ pending' = pending /\ errors' = errors  BY <1>15 DEF LocalLabel
  <2>3. Laying(note)  BY <2>2, Zenon DEF Laying
  <2> QED  BY <1>6, <2>1, <2>2, <2>3
<1>16. ASSUME NEW n \in Names, DeclareLabel(n) PROVE Goal
  <2> PICK name, note : name = Qualified(n) /\ note = Note("label", name, None)  OBVIOUS
  <2>1. /\ log' = Append(log, note) /\ procs' = procs /\ slots' = SlotAt(slots, index) /\ pending' = pending
        /\ errors' = errors \/ errors' = errors \union {"duplicate"}
    BY <1>16 DEF DeclareLabel, Read
  <2>2. note.what = "label" /\ note.procs = procs /\ note.name = name  BY DEF Note
  <2>3. Laying(note)  BY <2>1, Zenon DEF Laying
  <2>4. ASSUME Quiet' PROVE name[2] \in Names /\ Puts(name, note)
    BY <1>1, <1>16, <2>4, DeclarePuts, Zenon
  <2> QED  BY <1>6, <2>1, <2>2, <2>3, <2>4
<1>17. ASSUME NEW n \in Names, UseLabel(n) PROVE Goal
  <2>1. PICK name, note, id :
              /\ name = Qualified(n) /\ note = Note("use", name, id) /\ name[2] \in Names
              /\ note.what = "use" /\ note.name = name /\ note.procs = procs /\ note.id = id
              /\ id = IF Known(name) = 0 THEN Len(labels) + 1 ELSE scopes[Known(name)][name]
              /\ log' = Append(log, note) /\ procs' = procs
              /\ \/ Known(name) = 0 /\ Puts(name, note)
                 \/ Known(name) # 0 /\ labels' = labels /\ scopes' = scopes /\ Reaches(note, Known(name))
    BY <1>1, <1>17, UsePuts
  <2> PICK value : value = IF Known(name) = 0 THEN None ELSE labels[id].value  OBVIOUS
  <2> PICK instr : instr = [id |-> id, pending |-> Undefined(value)]  OBVIOUS
  <2>2. /\ errors' = errors /\ pending' = pending
        /\ AddInstruction(instr, 1, IF Undefined(value) THEN 0 ELSE value)
    BY <1>17, <2>1 DEF UseLabel
  <2>3. \/ slots' = slots
        \/ slots' = [SlotAt(slots, index) EXCEPT ![index] = Append(@, instr)]
    BY <2>2, Laid1
  <2>4. instr.id = note.id /\ note.what \in Operands  BY <2>1 DEF Operands
  <2>5. Laying(note)  BY <2>2, <2>3, <2>4, Zenon DEF Laying
  <2>6. CASE Puts(name, note)  BY <1>6, <2>1, <2>2, <2>5, <2>6
  <2>7. CASE labels' = labels /\ scopes' = scopes
    <3>1. note.what \notin {"proc", "endp", "local"} /\ UNCHANGED <<scopes, procs, labels>>  BY <2>1, <2>7
    <3> QED  BY <1>5, <2>1, <2>2, <2>5, <3>1
  <2> QED  BY <2>1, <2>6, <2>7
<1> QED
  BY <1>3, <1>4, <1>7, <1>9, <1>10, <1>11, <1>12, <1>13, <1>14, <1>15, <1>16, <1>17 DEF Next, Statement

\* The counts after another statement.
LEMMA CountNext ==
    ASSUME TypeInv, NEW note, note.procs = procs, log' = Append(log, note), NEW N, N = Now
    PROVE  /\ \A w, i : Count(w, i) \in Nat
           /\ \A w : \A i \in 1 .. Len(log) : Count(w, i)' = Count(w, i)
           /\ \A w : Count(w, N)' = IF note.what = w THEN Count(w, Len(log)) + 1 ELSE Count(w, Len(log))
<1>1. /\ \A w : Where(w)' = IF note.what = w THEN Where(w) \union {N} ELSE Where(w)
      /\ \A w : Where(w) \subseteq 1 .. Len(log)
  BY LogNext
<1>2. N = Len(log) + 1 /\ Len(log) \in Nat  BY DEF Now, TypeInv, IsSeq
<1>3. \A w, i : IsFiniteSet({j \in Where(w) : j <= i})
  <2>1. IsFiniteSet(1 .. Len(log))  BY <1>2, FS_Interval
  <2>2. \A w, i : {j \in Where(w) : j <= i} \in SUBSET (1 .. Len(log))  BY <1>1
  <2>3. \A T \in SUBSET (1 .. Len(log)) : IsFiniteSet(T)  BY <2>1, FS_Subset
  <2> QED  BY <2>2, <2>3
<1>4. \A w, i : Count(w, i) \in Nat  BY <1>3, FS_CardinalityType DEF Count
<1>5. ASSUME NEW w, NEW i \in 1 .. Len(log) PROVE Count(w, i)' = Count(w, i)
  <2>1. ~ (N <= i)  BY <1>2
  <2>2. {j \in Where(w)' : j <= i} = {j \in Where(w) : j <= i}  BY <1>1, <2>1
  <2> QED  BY <2>2 DEF Count
<1>6. ASSUME NEW w
      PROVE  Count(w, N)' = IF note.what = w THEN Count(w, Len(log)) + 1 ELSE Count(w, Len(log))
  <2> PICK S : S = {j \in Where(w) : j <= Len(log)}  OBVIOUS
  <2>1. S = Where(w) /\ N \notin S /\ \A j \in S : j <= N
    <3>1. \A j \in 1 .. Len(log) : j <= Len(log) /\ j <= N /\ j # N  BY <1>2
    <3> QED  BY <1>1, <3>1
  <2>2. IsFiniteSet(S)  BY <1>3
  <2>3. Count(w, Len(log)) = Cardinality(S)  BY DEF Count
  <2>4. CASE note.what = w
    <3>1. {j \in Where(w)' : j <= N} = S \union {N}
      <4>1. N <= N  BY <1>2
      <4> QED  BY <1>1, <2>1, <2>4, <4>1
    <3>2. Cardinality(S \union {N}) = Cardinality(S) + 1  BY <2>1, <2>2, FS_AddElement
    <3> QED  BY <2>3, <2>4, <3>1, <3>2 DEF Count
  <2>5. CASE note.what # w
    <3>1. {j \in Where(w)' : j <= N} = S  BY <1>1, <2>1, <2>5
    <3> QED  BY <2>3, <2>5, <3>1 DEF Count
  <2> QED  BY <2>4, <2>5
<1> QED  BY <1>4, <1>5, <1>6

\* ENDP is counted, or reported.
LEMMA PairedExit ==
    ASSUME DuplicatesInv, kit' = kit, ExitProc
    PROVE  /\ errors \subseteq errors'
           /\ errors' \subseteq errors \union {"no proc", "duplicate", "undefined local"}
           /\ IF procs = <<>> THEN "no proc" \in errors' /\ procs' = procs
              ELSE /\ "no proc" \in errors' => "no proc" \in errors
                   /\ "undefined local" \in errors' \/ procs' = SubSeq(procs, 1, Len(procs) - 1)
<1>1. TypeInv  BY DEF DuplicatesInv
<1>2. Len(scopes) = Len(procs) + 1 /\ procs \in Seq(Nat)  BY <1>1 DEF TypeInv, LabelsOK
<1>3. procs = <<>> <=> Len(scopes) = 1  BY <1>2
<1>4. CASE Len(scopes) = 1
  <2>1. errors' = errors \union {"no proc"} /\ procs' = procs  BY <1>4 DEF ExitProc
  <2> QED  BY <1>3, <1>4, <2>1
<1>5. CASE Len(scopes) # 1
  <2>1. errors' = errors
           \union (IF \E n \in Handed : n \in DOMAIN scopes[1] /\ Clash(LabelAt(1, n))
                   THEN {"duplicate"} ELSE {})
           \union (IF Missing # {} THEN {"undefined local"} ELSE {})
    BY <1>1, <1>5, ExitIs
  <2>2. Missing # {} \/ procs' = SubSeq(procs, 1, Len(procs) - 1)  BY <1>1, <1>5, ExitIs
  <2>3. procs # <<>>  BY <1>3, <1>5
  <2> QED  BY <2>1, <2>2, <2>3
<1> QED  BY <1>4, <1>5

\* How many PROCs are open after a statement.
LEMMA LengthsNext ==
    ASSUME procs \in Seq(Nat), NEW x \in Nat
    PROVE  /\ Len(procs) \in Nat
           /\ procs' = Append(procs, x) => Len(procs') = Len(procs) + 1
           /\ procs # <<>> => /\ Len(procs) > 0
                              /\ procs' = SubSeq(procs, 1, Len(procs) - 1) => Len(procs') = Len(procs) - 1
           /\ procs = <<>> => Len(procs) = 0
<1>1. Len(procs) \in Nat /\ (procs = <<>> => Len(procs) = 0)  OBVIOUS
<1>2. procs' = Append(procs, x) => Len(procs') = Len(procs) + 1  OBVIOUS
<1>3. procs # <<>> => Len(procs) > 0  OBVIOUS
<1>4. ASSUME procs # <<>>, procs' = SubSeq(procs, 1, Len(procs) - 1) PROVE Len(procs') = Len(procs) - 1
  BY <1>1, <1>3, <1>4, DroppedIs
<1> QED  BY <1>1, <1>2, <1>3, <1>4

\* PROCs are counted by every statement.
LEMMA PairedNext ==
    ASSUME DuplicatesInv, Paired, kit' = kit,
           NEW note, note.procs = procs, log' = Append(log, note), Kind(note)
    PROVE  Paired'
<1>1. TypeInv  BY DEF DuplicatesInv
<1> PICK N : N = Now  OBVIOUS
<1>2. /\ \A w, i : Count(w, i) \in Nat
      /\ \A w : \A i \in 1 .. Len(log) : Count(w, i)' = Count(w, i)
      /\ \A w : Count(w, N)' = IF note.what = w THEN Count(w, Len(log)) + 1 ELSE Count(w, Len(log))
  BY <1>1, CountNext
<1>3. /\ Len(log') = N /\ N \in Nat /\ N = Len(log) + 1 /\ Len(log) \in Nat
      /\ procs \in Seq(Nat) /\ Len(procs) \in Nat
  <2>1. Len(log') = N /\ N \in Nat  BY <1>1, Noted
  <2> QED  BY <1>1, <2>1 DEF TypeInv, IsSeq, Now
<1>16. PICK m : m = Len(procs)  OBVIOUS
<1>13. /\ procs' = Append(procs, Len(log')) => Len(procs') = m + 1
       /\ procs # <<>> => m > 0 /\ (procs' = SubSeq(procs, 1, Len(procs) - 1) => Len(procs') = m - 1)
       /\ procs = <<>> => m = 0
       /\ procs' = procs => Len(procs') = m
       /\ m \in Nat
  BY <1>3, <1>16, LengthsNext
<1>14. m \in Nat  BY <1>13
<1>15. PICK a, b : a = Count("proc", Len(log)) /\ b = Count("endp", Len(log))  OBVIOUS
<1>4. a \in Nat /\ b \in Nat  BY <1>2, <1>15
<1>5. "undefined local" \notin errors =>
         IF "no proc" \in errors THEN Unpaired ELSE a = b + m
  BY <1>15, <1>16 DEF Paired
<1>6. Unpaired => Unpaired'
  <2>1. 1 .. Len(log) \subseteq 1 .. Len(log')  BY <1>3
  <2> QED  BY <1>2, <2>1 DEF Unpaired
<1>7. Count("proc", N)' = (IF note.what = "proc" THEN a + 1 ELSE a)
      /\ Count("endp", N)' = (IF note.what = "endp" THEN b + 1 ELSE b)
  BY <1>2, <1>15
<1>8. Count("proc", N)' < Count("endp", N)' => Unpaired'
  <2>1. N \in 1 .. Len(log')  BY <1>3
  <2> QED  BY <2>1 DEF Unpaired
<1> SUFFICES ASSUME "undefined local" \notin errors'
             PROVE  IF "no proc" \in errors' THEN Unpaired'
                    ELSE Count("proc", N)' = Count("endp", N)' + Len(procs')
  BY <1>3 DEF Paired
<1>9. CASE note.what = "proc" /\ EnterProc
  <2>1. errors' = errors /\ procs' = Append(procs, Len(log'))  BY <1>9 DEF EnterProc
  <2>2. Len(procs') = m + 1  BY <1>13, <2>1
  <2>3. "no proc" \in errors' => Unpaired'  BY <1>5, <1>6, <2>1
  <2>4. "no proc" \notin errors' => a = b + m  BY <1>5, <2>1
  <2>5. Count("proc", N)' = a + 1 /\ Count("endp", N)' = b  BY <1>7, <1>9
  <2>6. a = b + m => a + 1 = b + (m + 1)  BY ONLY <1>4, <1>14
  <2> QED  BY <2>2, <2>3, <2>4, <2>5, <2>6
<1>10. CASE note.what = "endp" /\ ExitProc
  <2>1. /\ errors \subseteq errors'
        /\ IF procs = <<>> THEN "no proc" \in errors' /\ procs' = procs
           ELSE /\ "no proc" \in errors' => "no proc" \in errors
                /\ "undefined local" \in errors' \/ procs' = SubSeq(procs, 1, Len(procs) - 1)
    BY <1>10, PairedExit
  <2>2. IF "no proc" \in errors THEN Unpaired ELSE a = b + m  BY <1>5, <2>1
  <2>6. Count("proc", N)' = a /\ Count("endp", N)' = b + 1  BY <1>7, <1>10
  <2>3. CASE "no proc" \in errors  BY <1>6, <2>1, <2>2, <2>3
  <2>4. CASE procs = <<>> /\ "no proc" \notin errors
    <3>1. a = b + m /\ m = 0  BY <1>13, <2>2, <2>4
    <3>4. a = b + m /\ m = 0 => a < b + 1  BY ONLY <1>4, <1>14
    <3>3. a < b + 1  BY <3>1, <3>4
    <3>2. Count("proc", N)' < Count("endp", N)'  BY <2>6, <3>3
    <3> QED  BY <1>8, <2>1, <2>4, <3>2
  <2>5. CASE procs # <<>> /\ "no proc" \notin errors
    <3>1. procs' = SubSeq(procs, 1, Len(procs) - 1) /\ "no proc" \notin errors'  BY <2>1, <2>5
    <3>2. m > 0 /\ Len(procs') = m - 1  BY <1>13, <2>5, <3>1
    <3>3. a = b + m  BY <2>2, <2>5
    <3>5. a = b + m => a = (b + 1) + (m - 1)  BY ONLY <1>4, <1>14
    <3>4. a = (b + 1) + (m - 1)  BY <3>3, <3>5
    <3> QED  BY <2>6, <3>1, <3>2, <3>4
  <2> QED  BY <2>3, <2>4, <2>5
<1>11. CASE /\ note.what \notin {"proc", "endp"} /\ procs' = procs
            /\ errors \subseteq errors' /\ errors' \subseteq errors \union {"duplicate", "org", "no namespace"}
  <2>1. ("no proc" \in errors' <=> "no proc" \in errors) /\ "undefined local" \notin errors  BY <1>11
  <2>2. Len(procs') = m  BY <1>11, <1>13
  <2>3. Count("proc", N)' = a /\ Count("endp", N)' = b  BY <1>7, <1>11
  <2> QED  BY <1>5, <1>6, <2>1, <2>2, <2>3
<1> QED  BY <1>9, <1>10, <1>11 DEF Kind

\* What the open PROCs are after a statement of any kind.
LEMMA KindProcs ==
    ASSUME TypeInv, kit' = kit, NEW note, note.procs = procs, log' = Append(log, note), Kind(note)
    PROVE  NextProcs
<1>1. CASE EnterProc
  <2>1. procs' = Append(procs, Len(log'))  BY <1>1 DEF EnterProc
  <2>2. Len(log') = Now  BY Noted
  <2> QED  BY <2>1, <2>2 DEF NextProcs
<1>2. CASE ExitProc  BY <1>2, ExitType
<1>3. CASE procs' = procs  BY <1>3 DEF NextProcs
<1> QED  BY <1>1, <1>2, <1>3 DEF Kind

\* A LOCAL without a declaration when its PROC ends stays one.
LEMMA LateStays ==
    ASSUME TypeInv, LateLocal, NEW note, note.procs = procs, log' = Append(log, note)
    PROVE  LateLocal'
<1> PICK N : N = Now  OBVIOUS
<1>1. /\ \A i \in 1 .. Len(log) : log'[i] = log[i] /\ ProcOf(i)' = ProcOf(i)
      /\ \A w : Where(w)' = IF note.what = w THEN Where(w) \union {N} ELSE Where(w)
      /\ \A w : Where(w) \subseteq 1 .. Len(log)
  BY Noted, LogNext
<1>2. \A i \in 1 .. Len(log) : i < N  BY DEF Now, TypeInv, IsSeq
<1>3. PICK i \in Where("local"), e \in Where("endp") :
         /\ ProcOf(i) # 0 /\ ProcOf(e) = ProcOf(i)
         /\ \A d \in Where("label") : log[d].name = log[i].name /\ ProcOf(d) = ProcOf(i) => e < d
  BY DEF LateLocal
<1>4. /\ i \in Where("local")' /\ i \in 1 .. Len(log) /\ e \in Where("endp")' /\ e \in 1 .. Len(log)
      /\ log'[i] = log[i] /\ ProcOf(i)' = ProcOf(i) /\ ProcOf(e)' = ProcOf(e)
  BY <1>1
<1>5. ASSUME NEW d \in Where("label")', log'[d].name = log[i].name, ProcOf(d)' = ProcOf(i) PROVE e < d
  <2>1. CASE d = N  BY <1>2, <1>4, <2>1
  <2>2. CASE d \in Where("label")  BY <1>1, <1>3, <1>5, <2>2
  <2> QED  BY <1>1, <2>1, <2>2
<1> QED  BY <1>3, <1>4, <1>5 DEF LateLocal

\* ENDP finds a LOCAL without a value only when there is no declaration of it yet.
LEMMA LateExit ==
    ASSUME TypeInv, Nested, ScopesInv, NEW note, note.procs = procs, note.what = "endp",
           log' = Append(log, note), Len(scopes) # 1, Missing # {}
    PROVE  LateLocal'
<1> PICK N : N = Now  OBVIOUS
<1>1. /\ \A i \in 1 .. Len(log) : log'[i] = log[i] /\ ProcOf(i)' = ProcOf(i)
      /\ ProcOf(N)' = Inner
      /\ \A w : Where(w)' = IF note.what = w THEN Where(w) \union {N} ELSE Where(w)
      /\ \A w : Where(w) \subseteq 1 .. Len(log)
  BY Noted, LogNext
<1> PICK K : K = Len(scopes)  OBVIOUS
<1>2. /\ K \in 2 .. Len(scopes) /\ K \in 1 .. Len(scopes) /\ K # 1 /\ Last(scopes) = scopes[K]
      /\ Inner = procs[K - 1] /\ Inner # 0
  <2>1. K = Len(procs) + 1 /\ Len(procs) \in Nat /\ procs \in Seq(Nat)  BY DEF TypeInv, LabelsOK
  <2>2. K > 1 /\ procs # <<>> /\ K - 1 = Len(procs)  BY <2>1
  <2>3. Inner = procs[Len(procs)] /\ Inner # 0  BY <2>2, ProcBefore
  <2> QED  BY <2>1, <2>2, <2>3 DEF Last
<1>3. PICK n \in DOMAIN scopes[K] : LabelAt(K, n).local /\ ~ Clash(LabelAt(K, n))
  BY <1>2 DEF Missing, LabelAt, Clash
<1>4. Hidden(n, Inner) /\ n[2] \in Names
  <2>1. Hidden(n, procs[K - 1])  BY <1>2, <1>3 DEF ScopesInv, LocalsKnown
  <2>2. n[2] \in Names  BY <1>2 DEF TypeInv, LabelsOK
  <2> QED  BY <1>2, <2>1, <2>2
<1>5. PICK i \in Where("local") : log[i].name = n /\ ProcOf(i) = Inner  BY <1>4 DEF Hidden, LocalIn
<1>6. i \in Where("local")' /\ N \in Where("endp")' /\ log'[i] = log[i] /\ ProcOf(i)' = Inner
  BY <1>1, <1>5
<1>7. ASSUME NEW d \in Where("label")', log'[d].name = n, ProcOf(d)' = Inner PROVE FALSE
  <2>1. d \in Where("label") /\ log[d].name = n /\ ProcOf(d) = Inner  BY <1>1, <1>7
  <2>2. Belongs(d, K)  BY <1>2, <2>1 DEF Belongs
  <2>3. Clash(LabelAt(K, n))  BY <1>2, <1>4, <2>1, <2>2 DEF ScopesInv, DeclarationsKnown
  <2> QED  BY <1>3, <2>3
<1> QED  BY <1>1, <1>2, <1>5, <1>6, <1>7 DEF LateLocal

\* Every statement reports what can be seen.
LEMMA ReportedNext ==
    ASSUME DuplicatesInv, DuplicatesInv', Reported, kit' = kit,
           NEW note, note.procs = procs, log' = Append(log, note), Kind(note)
    PROVE  Reported'
<1>1. TypeInv /\ Nested /\ (Quiet => ScopesInv)  BY DEF DuplicatesInv
<1>2. NextProcs  BY <1>1, KindProcs
<1> SUFFICES ASSUME ~ Quiet' PROVE LateLocal' \/ TwiceForGood' \/ AroundForGood'  BY DEF Reported
<1>3. CASE ~ Quiet
  <2>1. LateLocal \/ TwiceForGood \/ AroundForGood  BY <1>3 DEF Reported
  <2>2. CASE LateLocal  BY <1>1, <2>2, LateStays
  <2>3. CASE TwiceForGood \/ AroundForGood  BY <1>1, <1>2, <2>3, ForGood
  <2> QED  BY <2>1, <2>2, <2>3
<1>4. CASE "undefined local" \notin errors'
  <2>1. "duplicate" \in errors'  BY <1>4 DEF Quiet
  <2> QED  BY <1>4, <2>1 DEF DuplicatesInv
<1>5. CASE Quiet /\ "undefined local" \in errors'
  <2>1. "undefined local" \notin errors  BY <1>5 DEF Quiet
  <2>2. ~ EnterProc  BY <1>5, <2>1 DEF EnterProc
  <2>3. ~ (errors' \subseteq errors \union {"duplicate", "org", "no namespace"})  BY <1>5, <2>1
  <2>4. note.what = "endp" /\ ExitProc  BY <2>2, <2>3 DEF Kind
  <2>5. Len(scopes) # 1
    <3> SUFFICES ASSUME Len(scopes) = 1 PROVE FALSE  OBVIOUS
    <3>1. errors' = errors \union {"no proc"}  BY <2>4 DEF ExitProc
    <3> QED  BY <1>5, <2>1, <3>1
  <2>6. Missing # {}
    <3>1. errors' = errors
             \union (IF \E n \in Handed : n \in DOMAIN scopes[1] /\ Clash(LabelAt(1, n))
                     THEN {"duplicate"} ELSE {})
             \union (IF Missing # {} THEN {"undefined local"} ELSE {})
      BY <1>1, <2>4, <2>5, ExitIs
    <3> QED  BY <1>5, <2>1, <3>1
  <2> QED  BY <1>1, <1>5, <2>4, <2>5, <2>6, LateExit
<1> QED  BY <1>3, <1>4, <1>5

\* A label put into a scope is asked for by its statement.
LEMMA AskedPut ==
    ASSUME TypeInv, OneScope, Asked, kit' = kit, procs' = procs,
           NEW note, note.procs = procs, log' = Append(log, note),
           NEW name, name[2] \in Names, note.name = name, Puts(name, note)
    PROVE  Asked'
<1> PICK N : N = Now  OBVIOUS
<1> PICK K : K = Len(scopes)  OBVIOUS
<1>1. /\ \A i \in 1 .. Len(log) : log'[i] = log[i] /\ ProcOf(i)' = ProcOf(i)
      /\ ProcOf(N)' = Inner /\ log'[N] = note
      /\ \A w : Where(w)' = IF note.what = w THEN Where(w) \union {N} ELSE Where(w)
      /\ \A w : Where(w) \subseteq 1 .. Len(log)
  BY Noted, LogNext
<1>2. PICK l : IsLabel(l) /\ PutLabel(name, l) /\ Placing(name, l, note, K)  BY DEF Puts
<1>3. /\ K \in 1 .. Len(scopes) /\ Len(scopes') = Len(scopes)
      /\ \A k \in 1 .. Len(scopes) :
            DOMAIN scopes'[k] = DOMAIN scopes[k] \union (IF k = K THEN {name} ELSE {})
      /\ LabelAt(K, name)' = l
      /\ \A k \in 1 .. Len(scopes) : \A n \in DOMAIN scopes[k] :
            k # K \/ n # name => LabelAt(k, n)' = LabelAt(k, n)
  BY <1>2, PutIs
<1>4. PICK id : /\ scopes'[K][name] = id
                /\ name \notin DOMAIN scopes[K] => id = Len(labels) + 1
                /\ \A k \in 1 .. Len(scopes) : \A n \in DOMAIN scopes[k] : scopes'[k][n] = scopes[k][n]
  BY <1>2, PutIds
<1>5. \A k : ProcAt(k)' = ProcAt(k)  BY DEF ProcAt
<1>6. ProcAt(K) = Inner
  <2>1. K = Len(procs) + 1 /\ Len(procs) \in Nat /\ procs \in Seq(Nat)  BY DEF TypeInv, LabelsOK
  <2>2. CASE procs = <<>>  BY <2>1, <2>2 DEF ProcAt, Inner
  <2>3. CASE procs # <<>>
    <3>1. K # 1 /\ K - 1 = Len(procs)  BY <2>1, <2>3
    <3> QED  BY <2>3, <3>1 DEF ProcAt, Inner, Last
  <2> QED  BY <2>2, <2>3
<1>7. ASSUME NEW k \in 1 .. Len(scopes), NEW n \in DOMAIN scopes[k], k # K \/ n # name,
             ~ Clash(LabelAt(k, n))'
      PROVE  \/ \E u \in Uses' : log'[u].id = scopes'[k][n]
             \/ \E i \in Where("local")' : log'[i].name = n /\ ProcOf(i)' = ProcAt(k)'
  <2>1. ~ Clash(LabelAt(k, n)) /\ scopes'[k][n] = scopes[k][n]  BY <1>3, <1>4, <1>7 DEF Clash
  <2>2. CASE \E u \in Uses : log[u].id = scopes[k][n]
    <3>1. PICK u \in Uses : log[u].id = scopes[k][n]  BY <2>2
    <3>2. u \in Uses' /\ log'[u] = log[u]  BY <1>1 DEF Uses
    <3> QED  BY <2>1, <3>1, <3>2
  <2>3. CASE \E i \in Where("local") : log[i].name = n /\ ProcOf(i) = ProcAt(k)
    <3>1. PICK i \in Where("local") : log[i].name = n /\ ProcOf(i) = ProcAt(k)  BY <2>3
    <3>2. i \in Where("local")' /\ log'[i] = log[i] /\ ProcOf(i)' = ProcOf(i)  BY <1>1
    <3> QED  BY <1>5, <3>1, <3>2
  <2> QED  BY <2>1, <2>2, <2>3 DEF Asked
<1>8. ASSUME ~ Clash(LabelAt(K, name))'
      PROVE  \/ \E u \in Uses' : log'[u].id = scopes'[K][name]
             \/ \E i \in Where("local")' : log'[i].name = name /\ ProcOf(i)' = ProcAt(K)'
  <2>1. ~ Clash(l)  BY <1>3, <1>8 DEF Clash
  <2>2. CASE note.what = "local"
    <3>1. N \in Where("local")' /\ log'[N].name = name /\ ProcOf(N)' = ProcAt(K)'
      BY <1>1, <1>5, <1>6, <2>2
    <3> QED  BY <3>1
  <2>3. CASE note.what = "use" /\ note.id = Len(labels) + 1 /\ name \notin DOMAIN scopes[K]
    <3>1. N \in Uses' /\ log'[N].id = scopes'[K][name]  BY <1>1, <1>4, <2>3 DEF Uses
    <3> QED  BY <3>1
  <2> QED  BY <1>2, <1>3, <2>1, <2>2, <2>3 DEF Placing
<1>9. ASSUME NEW k \in 1 .. Len(scopes'), NEW n \in DOMAIN scopes'[k], ~ Clash(LabelAt(k, n))'
      PROVE  \/ \E u \in Uses' : log'[u].id = scopes'[k][n]
             \/ \E i \in Where("local")' : log'[i].name = n /\ ProcOf(i)' = ProcAt(k)'
  <2>1. CASE k = K /\ n = name  BY <1>8, <1>9, <2>1
  <2>2. CASE k # K \/ n # name
    <3>1. k \in 1 .. Len(scopes) /\ n \in DOMAIN scopes[k]  BY <1>3, <1>9, <2>2
    <3> QED  BY <1>7, <1>9, <2>2, <3>1
  <2> QED  BY <2>1, <2>2
<1> QED  BY <1>9 DEF Asked

\* A statement that leaves the labels in scopes alone, or opens a scope, keeps what is asked.
LEMMA AskedSame ==
    ASSUME TypeInv, Asked, NEW note, note.procs = procs, log' = Append(log, note),
           \A k \in 1 .. Len(scopes') :
              DOMAIN scopes'[k] = {} \/ (/\ k \in 1 .. Len(scopes) /\ scopes'[k] = scopes[k]
                                         /\ ProcAt(k)' = ProcAt(k)),
           \A k \in 1 .. Len(scopes) : \A n \in DOMAIN scopes[k] : LabelAt(k, n)' = LabelAt(k, n)
               \/ scopes'[k] # scopes[k]
    PROVE  Asked'
<1>1. /\ \A i \in 1 .. Len(log) : log'[i] = log[i] /\ ProcOf(i)' = ProcOf(i)
      /\ \A w : Where(w) \subseteq Where(w)'
      /\ \A w : Where(w) \subseteq 1 .. Len(log)
  <2> PICK N : N = Now  OBVIOUS
  <2>1. \A w : Where(w)' = IF note.what = w THEN Where(w) \union {N} ELSE Where(w)  BY LogNext
  <2>2. /\ \A i \in 1 .. Len(log) : log'[i] = log[i] /\ ProcOf(i)' = ProcOf(i)
        /\ \A w : Where(w) \subseteq 1 .. Len(log)
    BY Noted, LogNext
  <2> QED  BY <2>1, <2>2
<1>2. ASSUME NEW k \in 1 .. Len(scopes'), NEW n \in DOMAIN scopes'[k], ~ Clash(LabelAt(k, n))'
      PROVE  \/ \E u \in Uses' : log'[u].id = scopes'[k][n]
             \/ \E i \in Where("local")' : log'[i].name = n /\ ProcOf(i)' = ProcAt(k)'
  <2>1. k \in 1 .. Len(scopes) /\ scopes'[k] = scopes[k] /\ ProcAt(k)' = ProcAt(k)  BY <1>2
  <2>2. ~ Clash(LabelAt(k, n))  BY <1>2, <2>1 DEF Clash
  <2>3. CASE \E u \in Uses : log[u].id = scopes[k][n]
    <3>1. PICK u \in Uses : log[u].id = scopes[k][n]  BY <2>3
    <3>2. u \in Uses' /\ log'[u] = log[u]  BY <1>1 DEF Uses
    <3> QED  BY <2>1, <3>1, <3>2
  <2>4. CASE \E i \in Where("local") : log[i].name = n /\ ProcOf(i) = ProcAt(k)
    <3>1. PICK i \in Where("local") : log[i].name = n /\ ProcOf(i) = ProcAt(k)  BY <2>4
    <3>2. i \in Where("local")' /\ log'[i] = log[i] /\ ProcOf(i)' = ProcOf(i)  BY <1>1
    <3> QED  BY <2>1, <3>1, <3>2
  <2> QED  BY <1>2, <2>1, <2>2, <2>3, <2>4 DEF Asked
<1> QED  BY <1>2 DEF Asked

\* ENDP hands over what was asked for.
LEMMA AskedExit ==
    ASSUME TypeInv, ScopesInv, Asked, Quiet', ExitProc, kit' = kit, Len(scopes) # 1, Missing = {},
           NEW note, note.procs = procs, log' = Append(log, note)
    PROVE  Asked'
<1> PICK K : K = Len(scopes)  OBVIOUS
<1>1. /\ K \in Nat /\ K > 1 /\ Len(scopes') = K - 1
      /\ \A j \in 1 .. K - 2 : procs'[j] = procs[j]
      /\ Handed = {n \in DOMAIN scopes[K] : ~ LabelAt(K, n).local}
      /\ \A k \in 2 .. K - 1 : scopes'[k] = scopes[k]
      /\ \A k \in 2 .. K - 1 : \A n \in DOMAIN scopes[k] : LabelAt(k, n)' = LabelAt(k, n)
      /\ DOMAIN scopes'[1] = DOMAIN scopes[1] \union Handed
      /\ \A n \in DOMAIN scopes[1] : scopes'[1][n] = scopes[1][n]
      /\ \A n \in Handed : n \notin DOMAIN scopes[1] => scopes'[1][n] = scopes[K][n]
      /\ \A n \in DOMAIN scopes[1] : n \notin Handed => LabelAt(1, n)' = LabelAt(1, n)
      /\ \A n \in Handed : LabelAt(1, n)'.value = LabelAt(K, n).value
  BY ExitFacts
<1>2. \A n \in Handed : n \in DOMAIN scopes[1] => ~ Clash(LabelAt(1, n))
  <2>1. errors' = errors
           \union (IF \E n \in Handed : n \in DOMAIN scopes[1] /\ Clash(LabelAt(1, n))
                   THEN {"duplicate"} ELSE {})
           \union (IF Missing # {} THEN {"undefined local"} ELSE {})
    BY ExitIs
  <2> QED  BY <2>1 DEF Quiet
<1>3. /\ \A i \in 1 .. Len(log) : log'[i] = log[i] /\ ProcOf(i)' = ProcOf(i)
      /\ \A w : Where(w) \subseteq Where(w)'
      /\ \A w : Where(w) \subseteq 1 .. Len(log)
  <2> PICK N : N = Now  OBVIOUS
  <2>1. \A w : Where(w)' = IF note.what = w THEN Where(w) \union {N} ELSE Where(w)  BY LogNext
  <2>2. /\ \A i \in 1 .. Len(log) : log'[i] = log[i] /\ ProcOf(i)' = ProcOf(i)
        /\ \A w : Where(w) \subseteq 1 .. Len(log)
    BY Noted, LogNext
  <2> QED  BY <2>1, <2>2
<1>4. \A k \in 1 .. K - 1 : ProcAt(k)' = ProcAt(k) /\ k \in 1 .. Len(scopes)
  <2>1. \A k \in 1 .. K - 1 : k = 1 \/ (k # 1 /\ k - 1 \in 1 .. K - 2)  BY <1>1
  <2>2. \A k \in 1 .. K - 1 : k \in 1 .. Len(scopes)  BY <1>1
  <2> QED  BY <1>1, <2>1, <2>2 DEF ProcAt
<1> DEFINE Meant1(k, n) ==
             \/ \E u \in Uses : log[u].id = scopes'[k][n]
             \/ \E i \in Where("local") : log[i].name = n /\ ProcOf(i) = ProcAt(k)
<1>5. ASSUME NEW k \in 1 .. K - 1, NEW n, Meant1(k, n)
      PROVE  \/ \E u \in Uses' : log'[u].id = scopes'[k][n]
             \/ \E i \in Where("local")' : log'[i].name = n /\ ProcOf(i)' = ProcAt(k)'
  <2>1. CASE \E u \in Uses : log[u].id = scopes'[k][n]
    <3>1. PICK u \in Uses : log[u].id = scopes'[k][n]  BY <2>1
    <3>2. u \in Uses' /\ log'[u] = log[u]  BY <1>3 DEF Uses
    <3> QED  BY <3>1, <3>2
  <2>2. CASE \E i \in Where("local") : log[i].name = n /\ ProcOf(i) = ProcAt(k)
    <3>1. PICK i \in Where("local") : log[i].name = n /\ ProcOf(i) = ProcAt(k)  BY <2>2
    <3>2. i \in Where("local")' /\ log'[i] = log[i] /\ ProcOf(i)' = ProcOf(i)  BY <1>3
    <3> QED  BY <1>4, <3>1, <3>2
  <2> QED  BY <1>5, <2>1, <2>2
<1>6. ASSUME NEW k \in 1 .. K - 1, NEW n \in DOMAIN scopes'[k], ~ Clash(LabelAt(k, n))'
      PROVE  Meant1(k, n)
  <2>1. ASSUME n \in DOMAIN scopes[k], scopes'[k][n] = scopes[k][n], ~ Clash(LabelAt(k, n))
        PROVE  Meant1(k, n)
    BY <1>4, <2>1 DEF Asked
  <2>2. CASE k # 1
    <3>1. k \in 2 .. K - 1  BY <1>1, <2>2
    <3>2. scopes'[k] = scopes[k] /\ LabelAt(k, n)' = LabelAt(k, n)  BY <1>1, <1>6, <3>1
    <3> QED  BY <1>6, <2>1, <3>2 DEF Clash
  <2>3. CASE k = 1 /\ n \in DOMAIN scopes[1]
    <3>1. ~ Clash(LabelAt(1, n))  BY <1>1, <1>2, <1>6, <2>3 DEF Clash
    <3> QED  BY <1>1, <2>1, <2>3, <3>1
  <2>4. CASE k = 1 /\ n \notin DOMAIN scopes[1]
    <3>1. n \in Handed /\ n \in DOMAIN scopes[K] /\ ~ LabelAt(K, n).local /\ scopes'[1][n] = scopes[K][n]
      BY <1>1, <1>6, <2>4
    <3>2. ~ Clash(LabelAt(K, n))
      <4>1. LabelAt(1, n)'.value = LabelAt(K, n).value  BY <1>1, <3>1
      <4> QED  BY <1>6, <2>4, <4>1 DEF Clash
    <3>3. K \in 2 .. Len(scopes) /\ K \in 1 .. Len(scopes) /\ ProcAt(K) = procs[K - 1]
      BY <1>1 DEF ProcAt
    <3>4. ~ \E i \in Where("local") : log[i].name = n /\ ProcOf(i) = ProcAt(K)
      BY <3>1, <3>3 DEF ScopesInv, LocalsKnown
    <3>5. \E u \in Uses : log[u].id = scopes[K][n]  BY <3>1, <3>2, <3>3, <3>4 DEF Asked
    <3> QED  BY <2>4, <3>1, <3>5
  <2> QED  BY <2>2, <2>3, <2>4
<1> HIDE DEF Meant1
<1>7. ASSUME NEW k \in 1 .. Len(scopes'), NEW n \in DOMAIN scopes'[k], ~ Clash(LabelAt(k, n))'
      PROVE  \/ \E u \in Uses' : log'[u].id = scopes'[k][n]
             \/ \E i \in Where("local")' : log'[i].name = n /\ ProcOf(i)' = ProcAt(k)'
  <2>1. k \in 1 .. K - 1  BY <1>1, <1>7
  <2>2. Meant1(k, n)  BY <1>6, <1>7, <2>1
  <2> QED  BY <1>5, <2>1, <2>2
<1> QED  BY <1>7 DEF Asked

\* What labels without a value are there for, after a statement of any kind.
LEMMA AskedNext ==
    ASSUME DuplicatesInv, Quiet => Asked, kit' = kit,
           NEW note, note.procs = procs, log' = Append(log, note), Kind(note), Quiet'
    PROVE  Asked'
<1>1. TypeInv /\ (Quiet => ScopesInv)  BY DEF DuplicatesInv
<1>9. Quiet => ScopesInv /\ OneScope /\ Asked  BY <1>1 DEF ScopesInv
<1>10. Len(scopes) = Len(procs) + 1 /\ procs \in Seq(Nat) /\ Len(procs) \in Nat /\ Len(scopes) \in Nat
  BY <1>1 DEF TypeInv, LabelsOK
<1>2. CASE EnterProc
  <2>1. errors' = errors /\ scopes' = Append(scopes, [n \in {} |-> 0]) /\ procs' = Append(procs, Len(log'))
        /\ labels' = labels
    BY <1>2 DEF EnterProc
  <2>2. Len(log') = Now  BY <1>1, Noted
  <2>3. /\ Len(scopes') = Len(scopes) + 1
        /\ \A k \in 1 .. Len(scopes) : scopes'[k] = scopes[k]
        /\ DOMAIN scopes'[Len(scopes) + 1] = {}
    BY <1>1, <2>1, <2>2, EnterIs
  <2>4. Quiet /\ Asked  BY <1>9, <2>1 DEF Quiet
  <2>5. \A k \in 1 .. Len(scopes) : ProcAt(k)' = ProcAt(k)
    <3>1. \A j \in 1 .. Len(procs) : procs'[j] = procs[j]  BY <1>10, <2>1
    <3>2. \A k \in 1 .. Len(scopes) : k = 1 \/ (k # 1 /\ k - 1 \in 1 .. Len(procs))  BY <1>10
    <3> QED  BY <3>1, <3>2 DEF ProcAt
  <2>6. \A k \in 1 .. Len(scopes') :
           DOMAIN scopes'[k] = {} \/ (/\ k \in 1 .. Len(scopes) /\ scopes'[k] = scopes[k]
                                      /\ ProcAt(k)' = ProcAt(k))
    <3>1. \A k \in 1 .. Len(scopes') : k = Len(scopes) + 1 \/ k \in 1 .. Len(scopes)  BY <1>10, <2>3
    <3> QED  BY <2>3, <2>5, <3>1
  <2>7. \A k \in 1 .. Len(scopes) : \A n \in DOMAIN scopes[k] :
           LabelAt(k, n)' = LabelAt(k, n) \/ scopes'[k] # scopes[k]
    BY <2>1, <2>3 DEF LabelAt
  <2> QED  BY <1>1, <2>4, <2>6, <2>7, AskedSame
<1>3. CASE ExitProc /\ Len(scopes) = 1
  <2>1. errors' = errors \union {"no proc"} /\ UNCHANGED <<scopes, procs, labels>>  BY <1>3 DEF ExitProc
  <2>2. Asked  BY <1>9, <2>1 DEF Quiet
  <2>3. \A k : ProcAt(k)' = ProcAt(k)  BY <2>1 DEF ProcAt
  <2>4. \A k, n : LabelAt(k, n)' = LabelAt(k, n)  BY <2>1 DEF LabelAt
  <2> QED  BY <1>1, <2>1, <2>2, <2>3, <2>4, AskedSame
<1>4. CASE ExitProc /\ Len(scopes) # 1
  <2>1. errors' = errors
           \union (IF \E n \in Handed : n \in DOMAIN scopes[1] /\ Clash(LabelAt(1, n))
                   THEN {"duplicate"} ELSE {})
           \union (IF Missing # {} THEN {"undefined local"} ELSE {})
    BY <1>1, <1>4, ExitIs
  <2>2. Missing = {} /\ Quiet  BY <2>1 DEF Quiet
  <2> QED  BY <1>1, <1>4, <1>9, <2>2, AskedExit
<1>5. CASE /\ procs' = procs /\ errors \subseteq errors'
           /\ \E name : name[2] \in Names /\ note.name = name /\ Puts(name, note)
  <2>1. PICK name : name[2] \in Names /\ note.name = name /\ Puts(name, note)  BY <1>5
  <2>2. OneScope /\ Asked  BY <1>5, <1>9 DEF Quiet
  <2> QED  BY <1>1, <1>5, <2>1, <2>2, AskedPut
<1>6. CASE /\ procs' = procs /\ errors \subseteq errors' /\ scopes' = scopes
           /\ \E l : IsLabel(l) /\ (labels' = labels \/ labels' = Append(labels, l))
  <2>1. PICK l : IsLabel(l) /\ (labels' = labels \/ labels' = Append(labels, l))  BY <1>6
  <2>2. Asked  BY <1>6, <1>9 DEF Quiet
  <2>3. \A k \in 1 .. Len(scopes) : \A n \in DOMAIN scopes[k] : LabelAt(k, n)' = LabelAt(k, n)
    BY <1>1, <1>6, <2>1, LabelsGrow
  <2>4. \A k : ProcAt(k)' = ProcAt(k)  BY <1>6 DEF ProcAt
  <2> QED  BY <1>1, <1>6, <2>2, <2>3, <2>4, AskedSame
<1>7. \/ EnterProc \/ ExitProc
      \/ /\ procs' = procs /\ errors \subseteq errors'
         /\ \/ \E name : name[2] \in Names /\ note.name = name /\ Puts(name, note)
            \/ /\ scopes' = scopes
               /\ \E l : IsLabel(l) /\ (labels' = labels \/ labels' = Append(labels, l))
  BY Zenon DEF Kind
<1> QED  BY <1>2, <1>3, <1>4, <1>5, <1>6, <1>7

\* Statements are read before the end of the program.
LEMMA Reads ==
    ASSUME Next, ~ Finish
    PROVE  phase # "done"
<1>1. ASSUME NEW note, NEW stays, Read(note, stays) PROVE phase # "done"
  BY <1>1 DEF Read
<1>2. CASE EnterProc  BY <1>2, <1>1, Zenon DEF EnterProc
<1>3. CASE ExitProc  BY <1>3, <1>1, Zenon DEF ExitProc
<1>4. CASE AddEmpty  BY <1>4, <1>1, Zenon DEF AddEmpty
<1>5. CASE PopNamespace
  <2>1. \A stack : SwitchNamespace(stack) => phase = "reading"  BY DEF SwitchNamespace
  <2> QED  BY <1>5, <2>1 DEF PopNamespace
<1>6. ASSUME NEW n \in Names, LocalLabel(n) \/ DeclareLabel(n) \/ UseLabel(n) PROVE phase # "done"
  <2>1. CASE LocalLabel(n)  BY <2>1, <1>1, Zenon DEF LocalLabel
  <2>2. CASE DeclareLabel(n)
    <3>1. \E stays \in BOOLEAN : Read(Note("label", Qualified(n), None), stays)
      BY <2>2, Zenon DEF DeclareLabel
    <3> QED  BY <3>1, <1>1, Zenon
  <2>3. CASE UseLabel(n)  BY <2>3 DEF UseLabel, Read
  <2> QED  BY <1>6, <2>1, <2>2, <2>3
<1>7. ASSUME NEW t \in Temporaries, DeclareTemporary(t) PROVE phase # "done"
  BY <1>7 DEF DeclareTemporary, Read
<1>8. ASSUME NEW t \in Temporaries, NEW dir \in {-1, 1}, UseTemporary(t, dir) PROVE phase # "done"
  BY <1>8, <1>1, Zenon DEF UseTemporary
<1>9. ASSUME NEW a \in Origins, SetOrg(a) PROVE phase # "done"  BY <1>9, <1>1, Zenon DEF SetOrg
<1>10. ASSUME NEW l \in Lines, NEW f \in Files, LineDirective(l, f) PROVE phase # "done"
  BY <1>10 DEF LineDirective
<1>11. ASSUME NEW ns \in Namespaces, PushNamespace(ns) PROVE phase # "done"
  BY <1>11 DEF PushNamespace, SwitchNamespace
<1> QED  BY <1>2, <1>3, <1>4, <1>5, <1>6, <1>7, <1>8, <1>9, <1>10, <1>11 DEF Next, Statement

\* Statements report nothing else.
LEMMA EarlyNext ==
    ASSUME DuplicatesInv, Early, phase # "done", kit' = kit, NEW note, Kind(note)
    PROVE  Early'
<1>1. CASE EnterProc
  <2>1. errors' = errors  BY <1>1 DEF EnterProc
  <2> QED  BY <2>1 DEF Early
<1>2. CASE ExitProc
  <2>1. errors' \subseteq errors \union {"no proc", "duplicate", "undefined local"}  BY <1>2, PairedExit
  <2> QED  BY <2>1 DEF Early
<1>3. CASE errors' \subseteq errors \union {"duplicate", "org", "no namespace"}  BY <1>3 DEF Early
<1> QED  BY <1>1, <1>2, <1>3 DEF Kind

\* Without temporary operands none becomes pending.
LEMMA NoneNext ==
    ASSUME TypeInv, NonePending, NEW note, note.procs = procs, log' = Append(log, note), Laying(note)
    PROVE  NonePending'
<1> PICK N : N = Now  OBVIOUS
<1>1. Temps' = IF note.what \in {"back", "forth"} THEN Temps \union {N} ELSE Temps  BY AskingNext
<1>2. Temps' = {} => Temps = {} /\ note.what \notin {"back", "forth"}  BY <1>1
<1>3. pending' = pending \/ pending' = <<>> \/ note.what \in {"back", "forth"}  BY DEF Laying
<1> QED  BY <1>2, <1>3 DEF NonePending

\* The first instruction at an address stays of these kinds.
LEMMA FirstNext ==
    ASSUME TypeInv, First, NEW note, note.procs = procs, log' = Append(log, note), Laying(note)
    PROVE  First'
<1> PICK N : N = Now  OBVIOUS
<1>1. /\ Asking' = IF note.what \in Operands THEN Asking \union {N} ELSE Asking
      /\ \A u \in Asking : log'[u] = log[u]
      /\ log'[N] = note
  <2>1. /\ Asking' = IF note.what \in Operands THEN Asking \union {N} ELSE Asking
        /\ \A u \in Asking : log'[u] = log[u]
    BY AskingNext
  <2>2. log'[N] = note  BY AskingNext
  <2> QED  BY <2>1, <2>2
<1> PICK f : f = SlotAt(slots, index)  OBVIOUS
<1> DEFINE Right(s) == /\ IsSeq(s)
                       /\ s # <<>> => s[1].id = None \/ \E v \in Asking' : s[1].id = log'[v].id
<1>2. \A a \in DOMAIN slots : Right(slots[a])
  <2> SUFFICES ASSUME NEW a \in DOMAIN slots PROVE Right(slots[a])  OBVIOUS
  <2>1. IsSeq(slots[a])  BY DEF First
  <2>2. ASSUME NEW v \in Asking, slots[a][1].id = log[v].id
        PROVE  \E w \in Asking' : slots[a][1].id = log'[w].id
    BY <1>1, <2>2
  <2>3. slots[a] # <<>> => slots[a][1].id = None \/ \E v \in Asking : slots[a][1].id = log[v].id
    BY DEF First
  <2> QED  BY <2>1, <2>2, <2>3
<1>3. Right(<<>>)
  <2>1. <<>> \in Seq({})  OBVIOUS
  <2> QED  BY <2>1 DEF IsSeq
<1>4. index \in DOMAIN f /\ \A a \in DOMAIN f : Right(f[a])
  <2>1. CASE index \in DOMAIN slots
    <3>1. f = slots  BY <2>1 DEF SlotAt
    <3> QED  BY <1>2, <2>1, <3>1
  <2>2. CASE index \notin DOMAIN slots
    <3>1. f = [z \in DOMAIN slots \union {index} |-> IF z = index THEN <<>> ELSE slots[z]]
      BY <2>2 DEF SlotAt, Put
    <3>2. \A a \in DOMAIN f : f[a] = <<>> \/ (a \in DOMAIN slots /\ f[a] = slots[a])  BY <3>1
    <3> HIDE DEF Right
    <3> QED  BY <1>2, <1>3, <3>1, <3>2
  <2> QED  BY <2>1, <2>2
<1>5. ASSUME NEW instr, instr.id = None \/ (note.what \in Operands /\ instr.id = note.id),
             slots' = [f EXCEPT ![index] = Append(@, instr)]
      PROVE  \A a \in DOMAIN slots' : Right(slots'[a])
  <2>1. Right(f[index])  BY <1>4
  <2> PICK s : s = f[index]  OBVIOUS
  <2> PICK t : t = Append(s, instr)  OBVIOUS
  <2>2. /\ t # <<>> /\ IsSeq(t)
        /\ s # <<>> => t[1] = s[1]
        /\ s = <<>> => t[1] = instr
    BY <2>1, FirstIs
  <2>3. instr.id = None \/ \E v \in Asking' : instr.id = log'[v].id
    <3>1. note.what \in Operands => N \in Asking' /\ log'[N] = note  BY <1>1
    <3> QED  BY <1>5, <3>1
  <2>4. Right(t)
    <3>1. CASE s = <<>>  BY <2>2, <2>3, <3>1
    <3>2. CASE s # <<>>  BY <2>1, <2>2, <3>2
    <3> QED  BY <3>1, <3>2
  <2>5. \A a \in DOMAIN slots' : slots'[a] = t \/ (a \in DOMAIN f /\ slots'[a] = f[a])  BY <1>5
  <2> HIDE DEF Right
  <2> QED  BY <1>4, <2>4, <2>5
<1>6. \A a \in DOMAIN slots' : Right(slots'[a])
  <2> HIDE DEF Right
  <2>1. \/ slots' = slots
        \/ slots' = f
        \/ \E instr : /\ instr.id = None \/ (note.what \in Operands /\ instr.id = note.id)
                      /\ slots' = [f EXCEPT ![index] = Append(@, instr)]
    BY DEF Laying
  <2> QED  BY <1>2, <1>4, <1>5, <2>1
<1> QED  BY <1>6 DEF First

\* A program that keeps the rules has no error of its LOCALs or duplicates.
LEMMA ProperQuiet ==
    ASSUME TypeInv, Reported, Proper
    PROVE  Quiet
<1>1. \A w : Where(w) \subseteq 1 .. Len(log)  BY DEF Where, TypeInv, IsSeq
<1>2. CASE LateLocal
  <2>1. PICK i \in Where("local"), e \in Where("endp") :
           /\ ProcOf(i) # 0 /\ ProcOf(e) = ProcOf(i)
           /\ \A d \in Where("label") : log[d].name = log[i].name /\ ProcOf(d) = ProcOf(i) => e < d
    BY <1>2 DEF LateLocal
  <2>2. PICK d \in Where("label") :
           /\ log[d].name = log[i].name /\ ProcOf(d) = ProcOf(i)
           /\ \A x \in Where("endp") : ProcOf(x) = ProcOf(i) => d < x
    BY DEF Proper
  <2>3. d < e /\ e < d  BY <2>1, <2>2
  <2>4. d \in 1 .. Len(log) /\ e \in 1 .. Len(log)  BY <1>1
  <2> QED  BY <2>3, <2>4
<1>3. CASE TwiceForGood
  <2>1. PICK c, d \in Where("label") :
           /\ c # d /\ log[c].name = log[d].name
           /\ \/ ProcOf(c) = ProcOf(d)
              \/ Settled(c) /\ Settled(d)
    BY <1>3 DEF TwiceForGood
  <2>2. /\ ProcOf(c) # ProcOf(d)
        /\ LocalIn(log[c].name, ProcOf(c), End) \/ LocalIn(log[d].name, ProcOf(d), End)
    BY <2>1 DEF Proper
  <2> QED  BY <2>1, <2>2 DEF Settled, Hidden
<1>4. CASE AroundForGood  BY <1>4, Zenon DEF AroundForGood, Proper
<1> QED  BY <1>2, <1>3, <1>4 DEF Reported

\* The counts at the end.
LEMMA CountEnd ==
    ASSUME TypeInv
    PROVE  /\ \A w, i : Count(w, i) \in Nat
           /\ \A w : Count(w, End) = Count(w, Len(log))
<1>1. Len(log) \in Nat /\ \A w : Where(w) \subseteq 1 .. Len(log)  BY DEF Where, TypeInv, IsSeq
<1>2. ASSUME NEW w, NEW i PROVE Count(w, i) \in Nat
  <2>1. IsFiniteSet(1 .. Len(log))  BY <1>1, FS_Interval
  <2>2. {j \in Where(w) : j <= i} \in SUBSET (1 .. Len(log))  BY <1>1
  <2>3. IsFiniteSet({j \in Where(w) : j <= i})  BY <2>1, <2>2, FS_Subset
  <2> QED  BY <2>3, FS_CardinalityType DEF Count
<1>3. ASSUME NEW w PROVE Count(w, End) = Count(w, Len(log))
  <2>1. \A j \in 1 .. Len(log) : j <= Len(log) /\ j <= End  BY <1>1 DEF End
  <2>2. {j \in Where(w) : j <= End} = {j \in Where(w) : j <= Len(log)}  BY <1>1, <2>1
  <2> QED  BY <2>2 DEF Count
<1> QED  BY <1>2, <1>3

\* The PROCs of a balanced program are closed in the end, each by an ENDP of its own.
LEMMA BalancedClosed ==
    ASSUME TypeInv, Paired, Quiet, Balanced
    PROVE  "no proc" \notin errors /\ procs = <<>>
<1>1. Count("proc", End) = Count("endp", End) /\ \A i \in DOMAIN log : Count("proc", i) >= Count("endp", i)
  BY DEF Balanced, Count
<1>2. /\ \A w, i : Count(w, i) \in Nat
      /\ \A w : Count(w, End) = Count(w, Len(log))
  BY CountEnd
<1>3. DOMAIN log = 1 .. Len(log) /\ procs \in Seq(Nat)  BY DEF TypeInv, IsSeq
<1>4. ~ Unpaired
  <2> SUFFICES ASSUME NEW i \in 1 .. Len(log), Count("proc", i) < Count("endp", i) PROVE FALSE
    BY DEF Unpaired
  <2> PICK a, b : a = Count("proc", i) /\ b = Count("endp", i)  OBVIOUS
  <2>1. a \in Nat /\ b \in Nat /\ a >= b /\ a < b  BY <1>1, <1>2, <1>3
  <2> QED  BY <2>1
<1>5. "undefined local" \notin errors  BY DEF Quiet
<1>6. "no proc" \notin errors  BY <1>4, <1>5 DEF Paired
<1>7. Count("proc", Len(log)) = Count("endp", Len(log)) + Len(procs)  BY <1>5, <1>6 DEF Paired
<1>8. PICK a, m : a = Count("endp", Len(log)) /\ m = Len(procs)  OBVIOUS
<1>9. a \in Nat /\ m \in Nat /\ a = a + m  BY <1>1, <1>2, <1>3, <1>7, <1>8
<1>10. m = 0  BY ONLY <1>9
<1>11. Len(procs) = 0 /\ procs \in Seq(Nat)  BY <1>3, <1>8, <1>10
<1>12. procs = <<>>  BY ONLY <1>11
<1> QED  BY <1>6, <1>12

\* When the PROCs are closed, the labels of such a program have their values.
LEMMA AllKnown ==
    ASSUME TypeInv, Nested, ScopesInv, OperandsInv, Asked, Proper, procs = <<>>
    PROVE  \A n \in DOMAIN scopes[1] : Clash(LabelAt(1, n))
<1> SUFFICES ASSUME NEW n \in DOMAIN scopes[1], ~ Clash(LabelAt(1, n)) PROVE FALSE  OBVIOUS
<1>1. Len(log) \in Nat /\ \A w : Where(w) \subseteq 1 .. Len(log)  BY DEF Where, TypeInv, IsSeq
<1>2. /\ Len(scopes) = 1 /\ 1 \in 1 .. Len(scopes) /\ n[2] \in Names /\ ProcAt(1) = 0
  <2>1. Len(scopes) = 1  BY DEF TypeInv, LabelsOK
  <2>2. 1 \in 1 .. Len(scopes)  BY <2>1
  <2> QED  BY <2>1, <2>2 DEF TypeInv, LabelsOK, ProcAt
<1>3. PICK u \in Uses : log[u].id = scopes[1][n]
  <2>1. \A i \in Where("local") : ProcOf(i) # 0  BY DEF Proper
  <2> QED  BY <1>2, <2>1 DEF Asked
<1>4. log[u].name = n  BY <1>2, <1>3 DEF OperandsInv, Inside
<1>5. InReach(u, 0)  BY <1>2, <1>3 DEF OperandsInv, Waits
<1>6. u \in Where("use") /\ u \in 1 .. Len(log) /\ log[u].what = "use"
  BY <1>1 DEF Uses, Where
<1>7. PICK d \in Where("label") :
         log[d].name = n /\ (LocalIn(n, ProcOf(d), End) => Encloses(ProcOf(d), u))
  <2>1. Visible(u) # {}  BY <1>6 DEF Proper
  <2> QED  BY <1>4, <2>1 DEF Visible
<1>8. CASE ~ LocalIn(n, ProcOf(d), End)
  <2>1. Len(procs) = 0  OBVIOUS
  <2>2. Settled(d)  BY <1>7, <1>8, <2>1 DEF Settled, Hidden
  <2>3. Belongs(d, 1)  BY <2>2 DEF Belongs
  <2>4. Clash(LabelAt(1, n))  BY <1>2, <1>7, <2>3 DEF ScopesInv, DeclarationsKnown
  <2> QED  BY <2>4
<1>9. CASE LocalIn(n, ProcOf(d), End)
  <2> PICK p : p = ProcOf(d)  OBVIOUS
  <2>1. p # 0 /\ p \in Nat /\ Encloses(p, u)
    <3>1. d \in 1 .. Len(log)  BY <1>1
    <3>2. p \in 0 .. d - 1  BY <3>1, ProcBefore
    <3>3. p # 0  BY <1>9 DEF LocalIn
    <3> QED  BY <1>7, <1>9, <3>1, <3>2, <3>3
  <2>2. PICK i \in Where("local") : log[i].name = n /\ ProcOf(i) = p  BY <1>9 DEF LocalIn
  <2>3. i \in 1 .. Len(log) /\ log[i].what = "local"  BY <1>1 DEF Where
  <2>4. \A j \in 1 .. i : log[j].name = n /\ Encloses(p, j) => j = i
    <3>1. \A j \in 1 .. i : log[j].name = log[i].name /\ Encloses(ProcOf(i), j) => j = i  BY DEF Proper
    <3> QED  BY <2>2, <3>1
  <2>5. i < u
    <3>1. u \in 1 .. i => u = i  BY <1>4, <2>1, <2>4
    <3>2. u # i  BY <1>6, <2>3
    <3>3. u \notin 1 .. i  BY <3>1, <3>2
    <3> QED  BY <1>6, <2>3, <3>3
  <2>6. LocalIn(log[u].name, p, u)  BY <1>4, <2>1, <2>2, <2>5 DEF LocalIn
  <2>7. PICK k \in 1 .. Len(log[u].procs) : log[u].procs[k] = p
    <3>1. log[u].procs \in Seq(Nat)  BY <1>6 DEF TypeInv
    <3> QED  BY <2>1, <3>1 DEF Encloses
  <2>8. 0 >= p  BY <1>5, <2>6, <2>7 DEF InReach
  <2> QED  BY <2>1, <2>8
<1> QED  BY <1>8, <1>9

\* So have the operands at the first place of their addresses.
LEMMA SlotsKnown ==
    ASSUME TypeInv, OperandsInv, First, Temps = {}, pending = <<>>, procs = <<>>,
           \A n \in DOMAIN scopes[1] : Clash(LabelAt(1, n)),
           NEW a \in DOMAIN slots, slots[a] # <<>>, slots[a][1].id # None
    PROVE  ~ Undefined(Value(slots[a][1].id))
<1>1. PICK v \in Uses : slots[a][1].id = log[v].id  BY DEF First, Asking
<1>2. Value(slots[a][1].id) = labels[log[v].id].value
  <2>1. DOMAIN pending = {}  OBVIOUS
  <2> QED  BY <1>1, <2>1 DEF Value
<1>3. Len(scopes) = 1  BY DEF TypeInv, LabelsOK
<1>4. Clash(LabelOf(v))
  <2> SUFFICES ASSUME ~ Clash(LabelOf(v)) PROVE FALSE  OBVIOUS
  <2>5. PICK k \in 1 .. Len(scopes) : \E n \in DOMAIN scopes[k] : scopes[k][n] = log[v].id
    BY DEF OperandsInv, Waiting
  <2>1. PICK n \in DOMAIN scopes[k] : scopes[k][n] = log[v].id  BY <2>5
  <2>2. k = 1  BY <1>3
  <2>3. LabelAt(1, n) = LabelOf(v)  BY <2>1, <2>2 DEF LabelAt, LabelOf
  <2> QED  BY <2>1, <2>2, <2>3
<1> QED  BY <1>2, <1>4 DEF Clash, LabelOf

\* The rules of a program stay as they are when nothing is read.
LEMMA RulesStay ==
    ASSUME log' = log
    PROVE  (Temps' = Temps) /\ (Balanced' <=> Balanced) /\ (Proper' <=> Proper)
<1>1. (Temps' = Temps) /\ (Balanced' <=> Balanced)  BY DEF Temps, Where, Balanced, End
<1>2. /\ \A w : Where(w)' = Where(w)
      /\ \A i : ProcOf(i)' = ProcOf(i)
      /\ \A p, i : Encloses(p, i)' <=> Encloses(p, i)
      /\ End' = End
  BY DEF Where, ProcOf, Encloses, End
<1>3. \A n, p, i : LocalIn(n, p, i)' <=> LocalIn(n, p, i)  BY <1>2 DEF LocalIn
<1>4. \A u : Visible(u)' = Visible(u)  BY <1>2, <1>3 DEF Visible
<1>5. \A u, d : UsedAround(u, d)' <=> UsedAround(u, d)  BY <1>2, Zenon DEF UsedAround
<1> DEFINE LocalFirst(i) == /\ ProcOf(i) # 0
                            /\ \A j \in 1 .. i : log[j].name = log[i].name /\ Encloses(ProcOf(i), j) => j = i
                            /\ \E d \in Where("label") :
                                  /\ log[d].name = log[i].name /\ ProcOf(d) = ProcOf(i)
                                  /\ \A e \in Where("endp") : ProcOf(e) = ProcOf(i) => d < e
           Once(c, d) == c # d /\ log[c].name = log[d].name =>
                            /\ ProcOf(c) # ProcOf(d)
                            /\ LocalIn(log[c].name, ProcOf(c), End) \/ LocalIn(log[d].name, ProcOf(d), End)
           Seen(u) == Visible(u) # {} /\ \A d \in Where("label") : ~ UsedAround(u, d)
<1>6. \A i : LocalFirst(i)' <=> LocalFirst(i)  BY <1>2
<1>7. \A c, d : Once(c, d)' <=> Once(c, d)  BY <1>2, <1>3
<1>8. \A u : Seen(u)' <=> Seen(u)  BY <1>2, <1>4, <1>5
<1>9. Proper <=> /\ \A i \in Where("local") : LocalFirst(i)
                 /\ \A c, d \in Where("label") : Once(c, d)
                 /\ \A u \in Where("use") : Seen(u)
  BY Zenon DEF Proper
<1>10. Proper' <=> /\ \A i \in Where("local")' : LocalFirst(i)'
                   /\ \A c, d \in Where("label")' : Once(c, d)'
                   /\ \A u \in Where("use")' : Seen(u)'
  BY Zenon DEF Proper
<1> HIDE DEF LocalFirst, Once, Seen
<1>11. Proper' <=> Proper  BY <1>2, <1>6, <1>7, <1>8, <1>9, <1>10, Zenon
<1> QED  BY <1>1, <1>11

\* In the end no more is reported of a program that keeps the rules.
LEMMA FinishFair ==
    ASSUME OperandsKnown, ProperInv, Finish
    PROVE  Fair'
<1>1. log' = log /\ phase # "done"  BY DEF Finish
<1>2. (Temps' = Temps) /\ (Balanced' <=> Balanced) /\ (Proper' <=> Proper)  BY <1>1, RulesStay
<1> SUFFICES ASSUME Balanced, Proper, Temps = {} PROVE errors' \subseteq {"org", "no namespace"}
  BY <1>2 DEF Fair
<1>4. TypeInv /\ Nested  BY DEF OperandsKnown, DuplicatesInv
<1>5. Quiet  BY <1>4, ProperQuiet DEF ProperInv
<1>6. ScopesInv /\ OperandsInv /\ Asked /\ First
  BY <1>5 DEF OperandsKnown, DuplicatesInv, ProperInv
<1>7. "no proc" \notin errors /\ procs = <<>>  BY <1>4, <1>5, BalancedClosed DEF ProperInv
<1>8. errors \subseteq {"org", "no namespace"}
  BY <1>1, <1>5, <1>7 DEF ProperInv, Early, Quiet
<1>9. pending = <<>>  BY DEF ProperInv, NonePending
<1>10. \A n \in DOMAIN scopes[1] : Clash(LabelAt(1, n))  BY <1>4, <1>6, <1>7, AllKnown
<1>11. ~ \E k \in DOMAIN pending : Undefined(Value(pending[k]))
  <2>1. DOMAIN pending = {}  BY <1>9
  <2> QED  BY <2>1
<1>12. ~ \E n \in DOMAIN scopes[1] : Undefined(labels[scopes[1][n]].value)
  BY <1>10 DEF Clash, LabelAt
<1>13. ~ \E a \in DOMAIN slots :
            /\ slots[a] # <<>> /\ slots[a][1].pending /\ slots[a][1].id # None
            /\ Undefined(Value(slots[a][1].id))
  BY <1>4, <1>6, <1>7, <1>9, <1>10, SlotsKnown
<1>14. errors' = errors  BY <1>7, <1>11, <1>12, <1>13 DEF Finish
<1> QED  BY <1>8, <1>14

\* The rules are kept by the empty program.
LEMMA ProperInit == Init => ProperFinal
<1> SUFFICES ASSUME Init PROVE ProperFinal  OBVIOUS
<1>1. /\ procs = <<>> /\ log = <<>> /\ errors = {} /\ scopes = <<[n \in {} |-> 0]>>
      /\ slots = [a \in {} |-> <<>>] /\ pending = <<>> /\ phase = "reading"
  BY DEF Init
<1>2. OperandsKnown  BY KnownInit
<1>3. Quiet /\ Reported  BY <1>1 DEF Quiet, Reported
<1>4. Paired
  <2>1. \A w, i : {j \in Where(w) : j <= i} = {}  BY <1>1 DEF Where
  <2>2. \A w, i : Count(w, i) = 0
    <3>1. Cardinality({}) = 0  BY FS_EmptySet
    <3> QED  BY <2>1, <3>1 DEF Count
  <2>3. Len(procs) = 0 /\ "no proc" \notin errors  BY <1>1
  <2>5. Count("proc", Len(log)) = 0 /\ Count("endp", Len(log)) = 0  BY <2>2, Zenon
  <2>6. PICK a, b, c : a = Count("proc", Len(log)) /\ b = Count("endp", Len(log)) /\ c = Len(procs)
    OBVIOUS
  <2>7. a = 0 /\ b = 0 /\ c = 0  BY <2>3, <2>5, <2>6
  <2>8. a = b + c  BY ONLY <2>7
  <2>4. Count("proc", Len(log)) = Count("endp", Len(log)) + Len(procs)  BY <2>6, <2>8
  <2> QED  BY <2>3, <2>4, Zenon DEF Paired
<1>5. Asked
  <2>1. Len(scopes) = 1 /\ DOMAIN scopes[1] = {}  BY <1>1
  <2> QED  BY <2>1 DEF Asked
<1>6. First /\ NonePending /\ Early  BY <1>1 DEF First, NonePending, Early
<1> QED  BY <1>1, <1>2, <1>3, <1>4, <1>5, <1>6 DEF ProperFinal, ProperInv

\* What ProperInv says stays when no scope, operand or report changes.
LEMMA ProperSame ==
    ASSUME ProperInv, UNCHANGED <<log, procs, scopes, labels, slots, pending>>,
           errors \subseteq errors', errors' \subseteq errors \union {"no endp", "undefined"},
           phase' = "done" \/ (phase' = phase /\ errors' = errors)
    PROVE  ProperInv'
<1>1. ("no proc" \in errors' <=> "no proc" \in errors)
      /\ ("undefined local" \in errors' <=> "undefined local" \in errors) /\ (Quiet' <=> Quiet)
  BY DEF Quiet
<1>2. /\ \A w : Where(w)' = Where(w)
      /\ \A i : ProcOf(i)' = ProcOf(i)
      /\ \A k : ProcAt(k)' = ProcAt(k)
      /\ \A k, n : LabelAt(k, n)' = LabelAt(k, n)
      /\ (Uses' = Uses) /\ (Asking' = Asking) /\ (Temps' = Temps)
  BY DEF Where, ProcOf, ProcAt, LabelAt, Uses, Asking, Temps
<1>3. Paired'
  <2>1. \A w, i : Count(w, i)' = Count(w, i)  BY <1>2 DEF Count
  <2>2. Unpaired' <=> Unpaired  BY <2>1 DEF Unpaired
  <2>3. Paired  BY DEF ProperInv
  <2>4. "undefined local" \notin errors =>
           IF "no proc" \in errors THEN Unpaired
           ELSE Count("proc", Len(log)) = Count("endp", Len(log)) + Len(procs)
    BY <2>3, Zenon DEF Paired
  <2>5. "undefined local" \notin errors' =>
           IF "no proc" \in errors' THEN Unpaired'
           ELSE Count("proc", Len(log))' = Count("endp", Len(log))' + Len(procs)
    BY <1>1, <2>1, <2>2, <2>4
  <2> QED  BY <2>5 DEF Paired
<1>4. Reported'
  <2>1. LateLocal' <=> LateLocal  BY <1>2 DEF LateLocal
  <2>2. \A d : Settled(d)' <=> Settled(d)  BY <1>2 DEF Settled, Hidden, LocalIn, End
  <2>3. TwiceForGood' <=> TwiceForGood  BY <1>2, <2>2 DEF TwiceForGood
  <2>4. \A p, i : Encloses(p, i)' <=> Encloses(p, i)  BY DEF Encloses
  <2>5. \A u, d : UsedAround(u, d)' <=> UsedAround(u, d)  BY <1>2, <2>4, Zenon DEF UsedAround
  <2>6. AroundForGood' <=> AroundForGood  BY <1>2, <2>5 DEF AroundForGood
  <2> QED  BY <1>1, <2>1, <2>3, <2>6 DEF ProperInv, Reported
<1>5. Quiet' => Asked'
  <2>1. \A k, n : Clash(LabelAt(k, n))' <=> Clash(LabelAt(k, n))  BY <1>2 DEF Clash
  <2> SUFFICES ASSUME Quiet', NEW k \in 1 .. Len(scopes'), NEW n \in DOMAIN scopes'[k], ~ Clash(LabelAt(k, n))'
               PROVE  \/ \E u \in Uses' : log'[u].id = scopes'[k][n]
                      \/ \E i \in Where("local")' : log'[i].name = n /\ ProcOf(i)' = ProcAt(k)'
    BY DEF Asked
  <2>2. Asked /\ ~ Clash(LabelAt(k, n))  BY <1>1, <2>1 DEF ProperInv
  <2>3. k \in 1 .. Len(scopes) /\ n \in DOMAIN scopes[k]  OBVIOUS
  <2>4. \/ \E u \in Uses : log[u].id = scopes[k][n]
        \/ \E i \in Where("local") : log[i].name = n /\ ProcOf(i) = ProcAt(k)
    BY <2>2, <2>3 DEF Asked
  <2> QED  BY <1>2, <2>4
<1>6. First' /\ NonePending'  BY <1>2 DEF ProperInv, First, NonePending
<1>7. Early'  BY DEF ProperInv, Early
<1> QED  BY <1>3, <1>4, <1>5, <1>6, <1>7 DEF ProperInv

\* Every statement keeps to the rules.
LEMMA ProperNext ==
    ProperFinal /\ [Next]_vars => ProperFinal'
<1> SUFFICES ASSUME ProperFinal, [Next]_vars PROVE ProperFinal'  OBVIOUS
<1>1. OperandsKnown' /\ ProperInv  BY KnownNext DEF ProperFinal
<1>2. DuplicatesInv /\ DuplicatesInv' /\ TypeInv  BY <1>1 DEF ProperFinal, OperandsKnown, DuplicatesInv
<1>3. CASE UNCHANGED vars
  <2>1. /\ UNCHANGED <<log, procs, scopes, labels, slots, pending>>
        /\ errors' = errors /\ phase' = phase
    BY <1>3 DEF vars
  <2>2. ProperInv'  BY <1>1, <2>1, ProperSame
  <2>3. Fair' <=> Fair  BY <2>1, RulesStay DEF Fair
  <2> QED  BY <1>1, <2>1, <2>2, <2>3 DEF ProperFinal
<1>4. CASE Finish
  <2>1. /\ UNCHANGED <<log, procs, scopes, labels, slots, pending>>
        /\ errors \subseteq errors' /\ errors' \subseteq errors \union {"no endp", "undefined"}
        /\ phase' = "done"
    BY <1>4 DEF Finish
  <2>2. ProperInv'  BY <1>1, <2>1, ProperSame
  <2>3. Fair'  BY <1>1, <1>4, FinishFair DEF ProperFinal
  <2> QED  BY <1>1, <2>2, <2>3 DEF ProperFinal
<1>5. CASE Next /\ ~ Finish
  <2>1. kit' = kit  BY <1>5 DEF Next
  <2>2. PICK note : note.procs = procs /\ log' = Append(log, note) /\ Kind(note) /\ Laying(note)
    BY <1>2, <1>5, Kinds
  <2>3. Paired'  BY <1>1, <1>2, <2>1, <2>2, PairedNext DEF ProperInv
  <2>4. Reported'  BY <1>1, <1>2, <2>1, <2>2, ReportedNext DEF ProperInv
  <2>5. Quiet' => Asked'  BY <1>1, <1>2, <2>1, <2>2, AskedNext DEF ProperInv
  <2>6. First'  BY <1>1, <1>2, <2>2, FirstNext DEF ProperInv
  <2>7. NonePending'  BY <1>1, <1>2, <2>2, NoneNext DEF ProperInv
  <2>8. phase # "done" /\ phase' # "done"  BY <1>5, Reads, NotDone
  <2>9. Early'  BY <1>1, <1>2, <2>1, <2>2, <2>8, EarlyNext DEF ProperInv
  <2>10. ProperInv'  BY <2>3, <2>4, <2>5, <2>6, <2>7, <2>9 DEF ProperInv
  <2> QED  BY <1>1, <2>8, <2>10 DEF ProperFinal
<1> QED  BY <1>3, <1>4, <1>5

\* What is reported of a program that keeps the rules is what the property says.
LEMMA ProperFollows == ProperFinal => ProperAssembles
  BY DEF ProperFinal, ProperAssembles, Fair, Temps

\* A program that says LOCAL before it uses the name, declares each label once in its
\* scope, uses only labels it declares, and uses no name in a PROC before one inside it
\* declares it, is assembled without an error of its labels (memory.py, exit_proc,
\* set_label, declare_label and dump).
THEOREM ProperAlways == Spec => []ProperAssembles
<1>1. Init => ProperFinal  BY ProperInit
<1>2. ProperFinal /\ [Next]_vars => ProperFinal'  BY ProperNext
<1>3. ProperFinal => ProperAssembles  BY ProperFollows
<1> QED  BY <1>1, <1>2, <1>3, PTL DEF Spec
=============================================================================
