------------------------- MODULE SymbolTableProofs -------------------------
(* Proofs about SymbolTable, for any programs: the variables that a SUB      *)
(* keeps on its frame do not overlap, and in an accepted program every one   *)
(* that the code refers to has a place there.                                *)
(*                                                                           *)
(* Offsets are given when a scope is left, to the entries that it has then:  *)
(* an entry is placed once, with the others of its SUB, if nothing takes it  *)
(* from its scope before and no other SUB has the same namespace.  So the    *)
(* invariant (TableInv) says which entries a scope knows, and by which       *)
(* names, however these are written (Homes, Stale, Folded); that an entry    *)
(* which is not known yet for what it is hides nothing (Mids, Tops), so that *)
(* its move to the global scope changes no reference; that a namespace is    *)
(* entered once, the name of its SUB being declared from then on (Taken);    *)
(* and that the entries of open scopes have no place yet (Unplaced).  What   *)
(* is left of a frame then never changes (Apart).                            *)
(*                                                                           *)
(* One statement makes several changes to the table.  Each of them keeps     *)
(* TableInv and every reference that waits for a place or has one (Right),   *)
(* and so do two in a row.                                                   *)
EXTENDS SymbolTable, SequenceLemmas, FiniteSetTheorems, TLAPS

\* The parts of the k-th scope, and how many scopes there are.
Depth(s) == Len(s.table)
Sym(s, k) == s.table[k].symbols
Cas(s, k) == s.table[k].caseins
Ns(s, k) == s.table[k].ns
Knows(s, k) == Range(Sym(s, k)) \cup Range(Cas(s, k))

\* A namespace, or what begins one.
Starts(h, x) == Len(h) <= Len(x) /\ \A i \in 1 .. Len(h) : x[i] = h[i]

IsScope(scope) ==
    scope = [ns |-> scope.ns, symbols |-> scope.symbols, caseins |-> scope.caseins, statics |-> scope.statics]

IsEntry(e) ==
    /\ e = [name |-> e.name, class |-> e.class, declared |-> e.declared, accessed |-> e.accessed,
            scope |-> e.scope, home |-> e.home, fixed |-> e.fixed, offset |-> e.offset, mangled |-> e.mangled]
    /\ e.name \in Names /\ e.class \in Classes /\ e.scope \in {"global", "local", "parameter"}
    /\ e.declared \in BOOLEAN /\ e.fixed \in BOOLEAN /\ e.accessed \in BOOLEAN
    /\ e.offset \in Nat /\ IsSeq(e.home)

TypesOK(s) ==
    /\ s = [table |-> s.table, entries |-> s.entries]
    /\ IsSeq(s.table) /\ Depth(s) # 0 /\ IsSeq(s.entries)
    /\ \A e \in 1 .. Len(s.entries) : IsEntry(s.entries[e])
    /\ \A k \in 1 .. Depth(s) :
          /\ IsScope(s.table[k])
          /\ IsSeq(Ns(s, k)) /\ Len(Ns(s, k)) = 2 * (k - 1)
          /\ \A id \in DOMAIN Sym(s, k) :
                /\ id \in Names /\ Sym(s, k)[id] \in 1 .. Len(s.entries)
                /\ s.entries[Sym(s, k)[id]].name = id
          /\ \A f \in DOMAIN Cas(s, k) : CaseIns /\ Cas(s, k)[f] \in 1 .. Len(s.entries)

\* What a scope knows was made in it; what the global one knows is global.
Homes(s) ==
    /\ \A k \in 2 .. Depth(s) : \A e \in Knows(s, k) : s.entries[e].home = Ns(s, k)
    /\ \A e \in Knows(s, 1) : s.entries[e].scope = "global"

\* The names in any case that a scope has kept after they moved are global.
Stale(s) ==
    \A k \in 2 .. Depth(s) : \A e \in Range(Cas(s, k)) : e \in Range(Sym(s, k)) \/ s.entries[e].scope = "global"

\* A name is found in a scope however it is written.
Folded(s) ==
    CaseIns =>
       /\ \A k \in 1 .. Depth(s) : \A id \in DOMAIN Sym(s, k) : Fold[id] \in DOMAIN Cas(s, k)
       /\ \A k \in 2 .. Depth(s) : \A id \in DOMAIN Sym(s, k) : Cas(s, k)[Fold[id]] = Sym(s, k)[id]

ClassesOK(s) ==
    \A e \in 1 .. Len(s.entries) :
       /\ s.entries[e].declared => s.entries[e].class \in {"var", "label", "sub"}
       /\ s.entries[e].class = "sub" => s.entries[e].declared
CalledGlobal(s) ==
    \A e \in 1 .. Len(s.entries) : s.entries[e].class = "called" => s.entries[e].scope = "global"

\* A name that is not known for what it is yet is known in no scope around.
Mids(s) ==
    \A k \in 2 .. Depth(s) : \A id \in DOMAIN Sym(s, k) :
       ClassOf(s.entries[Sym(s, k)[id]]) = "unknown" /\ ~ s.entries[Sym(s, k)[id]].declared =>
          \A j \in 2 .. k - 1 : Get(s.table[j], id) = None

IsLabel(s, e) == s.entries[e].class = "label"

\* Nor is it known in the global scope, except as a label.
Tops(s) ==
    \A k \in 2 .. Depth(s) : \A id \in DOMAIN Sym(s, k) :
       ClassOf(s.entries[Sym(s, k)[id]]) \in {"unknown", "label"} /\ ~ s.entries[Sym(s, k)[id]].declared =>
          /\ id \in DOMAIN Sym(s, 1) => IsLabel(s, Sym(s, 1)[id])
          /\ Fold[id] \in DOMAIN Cas(s, 1) => IsLabel(s, Cas(s, 1)[Fold[id]])

\* Something was made in a namespace.
Used(s, h) ==
    \/ \E e \in 1 .. Len(s.entries) : Starts(h, s.entries[e].home)
    \/ \E k \in 1 .. Depth(s) : Starts(h, Ns(s, k))

\* The name of a SUB, or of what hides it, from the k-th scope.
Held(s, k, id) ==
    \E j \in 1 .. k :
       /\ Get(s.table[j], id) # None
       /\ \A i \in j + 1 .. k : Get(s.table[i], id) = None
       /\ s.entries[Get(s.table[j], id)].declared
       /\ s.entries[Get(s.table[j], id)].class \in {"sub", "var"}

\* A namespace is entered once.
Taken(s) ==
    \A k \in 1 .. Depth(s) : \A id \in Names : Used(s, Child(Ns(s, k), id)) => Held(s, k, id)

\* Variables have no place before their SUB ends.
Unplaced(s) ==
    \A k \in 2 .. Depth(s) : \A e \in 1 .. Len(s.entries) : s.entries[e].home = Ns(s, k) => s.entries[e].offset = None

Placed(s) == {e \in 1 .. Len(s.entries) : Resident(s.entries[e]) /\ s.entries[e].offset # None}
Cells(s, e) == s.entries[e].offset - EntrySize(s.entries[e]) .. s.entries[e].offset - 1
Apart(s) ==
    \A d, e \in Placed(s) : d # e /\ s.entries[d].home = s.entries[e].home => Cells(s, d) \cap Cells(s, e) = {}

TableInv(s) ==
    /\ TypesOK(s) /\ Homes(s) /\ Stale(s) /\ Folded(s) /\ ClassesOK(s)
    /\ Mids(s) /\ Tops(s) /\ Taken(s) /\ Unplaced(s) /\ Apart(s)

\* A variable the code refers to will have a place in its SUB, or has one.
Awaits(s, e) ==
    s.entries[e].class \notin {"label", "sub"} /\ s.entries[e].scope = "local" /\ ~ s.entries[e].fixed =>
       \/ s.entries[e].offset # None
       \/ \E k \in 2 .. Depth(s) : e \in Range(Sym(s, k)) /\ (Optimize > 1 => s.entries[e].accessed)
RefsOK == \A e \in refs : e \in 1 .. Len(entries) /\ Awaits(Here, e)

---------------------------------------------------------------------------
(* Folds over finite sets.                                                  *)

\* What the folds of LeaveScope and EnterScope do with an element e, coming
\* from u.
Step(kind, a, e, u) ==
    CASE kind = "sum" -> u + EntrySize(a[e])
      [] kind = "move" -> MoveToGlobalScope(u, u.entries[e].name)
      [] kind = "param" -> Declare(u, e, "var")

\* The element of a set that a fold takes first.
First(x) == CHOOSE y \in x : TRUE
Folds(kind, a, base, it, x) ==
    it[x] = IF x = {} THEN base ELSE Step(kind, a, First(x), it[x \ {First(x)}])

IsFold(kind, a, base, S, it) ==
    it = [x \in SUBSET S |-> IF x = {} THEN base ELSE Step(kind, a, First(x), it[x \ {First(x)}])]

\* What has all the natural numbers up to one has that one.
LEMMA FirstIn == ASSUME NEW x, x # {} PROVE First(x) \in x
BY DEF First

\* The function that a fold over a finite set is defined with exists.
LEMMA FoldExists ==
    ASSUME NEW kind, NEW a, NEW base, NEW S, IsFiniteSet(S)
    PROVE  \E it : IsFold(kind, a, base, S, it)
<1> DEFINE Upto(it, n) == \A x \in SUBSET S : Cardinality(x) <= n => Folds(kind, a, base, it, x)
           N == {n \in Nat : \E it : Upto(it, n)}
<1>1. \A x \in SUBSET S : IsFiniteSet(x) /\ Cardinality(x) \in Nat
  BY FS_Subset, FS_CardinalityType
<1>2. 0 \in N
  <2> DEFINE it == [x \in SUBSET S |-> base]
  <2>1. ASSUME NEW x \in SUBSET S, Cardinality(x) <= 0 PROVE Folds(kind, a, base, it, x)
    <3>1. Cardinality(x) = 0  BY <1>1, <2>1
    <3>2. x = {}  BY <1>1, <3>1, FS_EmptySet
    <3> QED  BY <3>2 DEF Folds
  <2> QED  BY <2>1
<1>3. ASSUME NEW n \in Nat, n \in N PROVE n + 1 \in N
  <2>1. PICK it : Upto(it, n)  BY <1>3
  <2> DEFINE jt == [x \in SUBSET S |-> IF Cardinality(x) <= n THEN it[x]
                                       ELSE Step(kind, a, First(x), it[x \ {First(x)}])]
  <2>2. ASSUME NEW x \in SUBSET S, Cardinality(x) <= n + 1 PROVE Folds(kind, a, base, jt, x)
    <3>1. CASE x = {}
      <4>1. Cardinality(x) <= n  BY <3>1, FS_EmptySet
      <4>2. Folds(kind, a, base, it, x)  BY <2>1, <4>1
      <4> QED  BY <3>1, <4>1, <4>2 DEF Folds
    <3>2. CASE x # {}
      <4> DEFINE y == x \ {First(x)}
      <4>1. First(x) \in x  BY <3>2, FirstIn
      <4>2. y \in SUBSET S  OBVIOUS
      <4>3. Cardinality(y) = Cardinality(x) - 1  BY <1>1, <4>1, FS_RemoveElement
      <4>4. Cardinality(y) <= n /\ (Cardinality(x) <= n \/ ~(Cardinality(x) <= n))
        <5> HIDE DEF y
        <5> QED  BY <1>1, <2>2, <4>3
      <4>5. jt[y] = it[y]  BY <4>2, <4>4
      <4>6. CASE Cardinality(x) <= n
        <5>1. Folds(kind, a, base, it, x)  BY <2>1, <4>6
        <5>2. jt[x] = it[x]  BY <4>6
        <5> QED  BY <3>2, <4>5, <5>1, <5>2 DEF Folds
      <4>7. CASE ~(Cardinality(x) <= n)
        <5>1. jt[x] = Step(kind, a, First(x), it[y])  BY <4>7
        <5> QED  BY <3>2, <4>5, <5>1 DEF Folds
      <4> QED  BY <4>6, <4>7
    <3> QED  BY <3>1, <3>2
  <2>3. Upto(jt, n + 1)  BY <2>2
  <2> HIDE DEF jt, Upto
  <2> QED  BY <2>3
<1> HIDE DEF N
<1>4. Nat \subseteq N  BY <1>2, <1>3, SetInduction
<1>5. Cardinality(S) \in N  BY <1>4, FS_CardinalityType
<1>6. PICK it : Upto(it, Cardinality(S))  BY <1>5 DEF N
<1> DEFINE jt == [x \in SUBSET S |-> it[x]]
<1>7. ASSUME NEW x \in SUBSET S
      PROVE  jt[x] = IF x = {} THEN base ELSE Step(kind, a, First(x), jt[x \ {First(x)}])
  <2>1. Cardinality(x) <= Cardinality(S)  BY FS_Subset
  <2>2. Folds(kind, a, base, it, x)  BY <1>6, <2>1
  <2>3. x \ {First(x)} \in SUBSET S  OBVIOUS
  <2> QED  BY <2>2, <2>3 DEF Folds
<1>8. jt = [x \in SUBSET S |-> IF x = {} THEN base ELSE Step(kind, a, First(x), jt[x \ {First(x)}])]
  <2> DEFINE kt == [x \in SUBSET S |-> IF x = {} THEN base ELSE Step(kind, a, First(x), jt[x \ {First(x)}])]
  <2>1. \A x \in SUBSET S : jt[x] = kt[x]  BY <1>7, Zenon
  <2>2. jt = [x \in SUBSET S |-> jt[x]]  OBVIOUS
  <2>3. kt = [x \in SUBSET S |-> kt[x]]  OBVIOUS
  <2> HIDE DEF jt, kt
  <2>4. jt = kt  BY <2>1, <2>2, <2>3
  <2> QED  BY <2>4 DEF kt
<1> HIDE DEF jt
<1> QED  BY <1>8 DEF IsFold

\* The sum of the sizes of some entries, as a fold.
SumIter(a, S) ==
    CHOOSE it : it = [x \in SUBSET S |-> IF x = {} THEN 0 ELSE it[x \ {First(x)}] + EntrySize(a[First(x)])]
MoveIter(s, S) ==
    CHOOSE it : it = [x \in SUBSET S |-> IF x = {} THEN s ELSE MoveToGlobalScope(it[x \ {First(x)}], it[x \ {First(x)}].entries[First(x)].name)]

\* The sum over a finite set takes its elements one by one.
LEMMA SumIterIs ==
    ASSUME NEW a, NEW S, IsFiniteSet(S)
    PROVE  \A x \in SUBSET S : SumIter(a, S)[x] = IF x = {} THEN 0 ELSE SumIter(a, S)[x \ {First(x)}] + EntrySize(a[First(x)])
<1>1. PICK it : IsFold("sum", a, 0, S, it)
  BY FoldExists
<1>2. it = [x \in SUBSET S |-> IF x = {} THEN 0 ELSE it[x \ {First(x)}] + EntrySize(a[First(x)])]
  BY <1>1 DEF Step, IsFold
<1>3. \E jt : jt = [x \in SUBSET S |-> IF x = {} THEN 0 ELSE jt[x \ {First(x)}] + EntrySize(a[First(x)])]
  BY <1>2
<1> DEFINE jt == SumIter(a, S)
<1>4. jt = [x \in SUBSET S |-> IF x = {} THEN 0 ELSE jt[x \ {First(x)}] + EntrySize(a[First(x)])]
  BY <1>3, Zenon DEF SumIter
<1> HIDE DEF jt
<1>5. \A x \in SUBSET S : jt[x] = IF x = {} THEN 0 ELSE jt[x \ {First(x)}] + EntrySize(a[First(x)])
  BY <1>4
<1> QED  BY <1>5 DEF jt

\* So do the moves to the global scope.
LEMMA MoveIterIs ==
    ASSUME NEW s, NEW S, IsFiniteSet(S)
    PROVE  \A x \in SUBSET S :
              MoveIter(s, S)[x] =
                 IF x = {} THEN s
                 ELSE MoveToGlobalScope(MoveIter(s, S)[x \ {First(x)}], MoveIter(s, S)[x \ {First(x)}].entries[First(x)].name)
<1>1. PICK it : IsFold("move", 0, s, S, it)
  BY FoldExists
<1>2. it = [x \in SUBSET S |-> IF x = {} THEN s ELSE MoveToGlobalScope(it[x \ {First(x)}], it[x \ {First(x)}].entries[First(x)].name)]
  BY <1>1 DEF Step, IsFold
<1>3. \E jt : jt = [x \in SUBSET S |-> IF x = {} THEN s ELSE MoveToGlobalScope(jt[x \ {First(x)}], jt[x \ {First(x)}].entries[First(x)].name)]
  BY <1>2
<1> DEFINE jt == MoveIter(s, S)
<1>4. jt = [x \in SUBSET S |-> IF x = {} THEN s ELSE MoveToGlobalScope(jt[x \ {First(x)}], jt[x \ {First(x)}].entries[First(x)].name)]
  BY <1>3, Zenon DEF MoveIter
<1> HIDE DEF jt
<1>5. \A x \in SUBSET S : jt[x] = IF x = {} THEN s ELSE MoveToGlobalScope(jt[x \ {First(x)}], jt[x \ {First(x)}].entries[First(x)].name)
  BY <1>4
<1> QED  BY <1>5 DEF jt

\* The parameters of a SUB that are declared, as a fold.
ParamIter(s, S) ==
    CHOOSE it : it = [x \in SUBSET S |-> IF x = {} THEN s ELSE Declare(it[x \ {First(x)}], First(x), "var")]

\* So do the declarations of parameters.
LEMMA ParamIterIs ==
    ASSUME NEW s, NEW S, IsFiniteSet(S)
    PROVE  \A x \in SUBSET S :
              ParamIter(s, S)[x] = IF x = {} THEN s ELSE Declare(ParamIter(s, S)[x \ {First(x)}], First(x), "var")
<1>1. PICK it : IsFold("param", 0, s, S, it)
  BY FoldExists
<1>2. it = [x \in SUBSET S |-> IF x = {} THEN s ELSE Declare(it[x \ {First(x)}], First(x), "var")]
  BY <1>1 DEF Step, IsFold
<1>3. \E jt : jt = [x \in SUBSET S |-> IF x = {} THEN s ELSE Declare(jt[x \ {First(x)}], First(x), "var")]
  BY <1>2
<1> DEFINE jt == ParamIter(s, S)
<1>4. jt = [x \in SUBSET S |-> IF x = {} THEN s ELSE Declare(jt[x \ {First(x)}], First(x), "var")]
  BY <1>3, Zenon DEF ParamIter
<1> HIDE DEF jt
<1>5. \A x \in SUBSET S : jt[x] = IF x = {} THEN s ELSE Declare(jt[x \ {First(x)}], First(x), "var")
  BY <1>4
<1> QED  BY <1>5 DEF jt

\* The folds of SymbolTable are those of this section: the sizes of entries,
LEMMA FoldSums ==
    ASSUME NEW s, NEW T
    PROVE  FoldSet(LAMBDA d, n : n + EntrySize(s.entries[d]), 0, T) = SumIter(s.entries, T)[T]
BY DEF FoldSet, MapThenFoldSet, SumIter, First

\* the moves of the entries of a set to the global scope,
LEMMA FoldMoves ==
    ASSUME NEW s, NEW T
    PROVE  FoldSet(LAMBDA e, u : MoveToGlobalScope(u, u.entries[e].name), s, T) = MoveIter(s, T)[T]
BY DEF FoldSet, MapThenFoldSet, MoveIter, First

\* and the declarations of the parameters of a SUB.
LEMMA FoldParams ==
    ASSUME NEW s, NEW T
    PROVE  FoldSet(LAMBDA p, u : Declare(u, p, "var"), s, T) = ParamIter(s, T)[T]
BY DEF FoldSet, MapThenFoldSet, ParamIter, First

\* The offset that leaving a scope gives to a variable is a sum of sizes.
LEMMA OffsetIs ==
    ASSUME NEW s, NEW locals, NEW e
    PROVE  LET key(d) == EntrySize(s.entries[d])
               before == {d \in locals : key(d) < key(e) \/ (key(d) = key(e) /\ d <= e)}
           IN  Offset(s, locals, e) = SumIter(s.entries, before)[before]
BY FoldSums DEF Offset, FoldSet, MapThenFoldSet, SumIter, First

\* Induction over the subsets of a finite set.
LEMMA SubsetInduction ==
    ASSUME NEW S, IsFiniteSet(S), NEW G, {} \in G,
           \A x \in SUBSET S : x # {} /\ (\A d \in x : x \ {d} \in G) => x \in G
    PROVE  SUBSET S \subseteq G
<1> DEFINE N == {n \in Nat : \A x \in SUBSET S : Cardinality(x) = n => x \in G}
<1>1. \A x \in SUBSET S : IsFiniteSet(x) /\ Cardinality(x) \in Nat
  BY FS_Subset, FS_CardinalityType
<1>2. 0 \in N
  <2>1. \A x \in SUBSET S : Cardinality(x) = 0 => x = {}  BY <1>1, FS_EmptySet
  <2> QED  BY <2>1
<1>3. ASSUME NEW n \in Nat, n \in N PROVE n + 1 \in N
  <2>1. SUFFICES ASSUME NEW x \in SUBSET S, Cardinality(x) = n + 1 PROVE x \in G  OBVIOUS
  <2>2. ASSUME NEW d \in x PROVE x \ {d} \in G
    <3>1. Cardinality(x \ {d}) = n + 1 - 1  BY <1>1, <2>1, FS_RemoveElement
    <3>2. n + 1 - 1 = n  OBVIOUS
    <3>3. Cardinality(x \ {d}) = n  BY <3>1, <3>2
    <3> QED  BY <1>3, <3>3
  <2>3. x # {}
    <3>1. n + 1 # 0  OBVIOUS
    <3> QED  BY <2>1, <3>1, FS_EmptySet
  <2> QED  BY <2>2, <2>3
<1> HIDE DEF N
<1>4. Nat \subseteq N  BY <1>2, <1>3, SetInduction
<1> QED  BY <1>1, <1>4 DEF N

\* A sum of sizes is a natural number.
LEMMA SumNat ==
    ASSUME NEW a, NEW S, IsFiniteSet(S), \A d \in S : EntrySize(a[d]) \in Nat
    PROVE  \A x \in SUBSET S : SumIter(a, S)[x] \in Nat
<1> DEFINE sum(x) == SumIter(a, S)[x]
           G == {x \in SUBSET S : sum(x) \in Nat}
<1>1. \A x \in SUBSET S : sum(x) = IF x = {} THEN 0 ELSE sum(x \ {First(x)}) + EntrySize(a[First(x)])
  BY SumIterIs
<1> HIDE DEF sum
<1>2. {} \in G
  <2>1. sum({}) = 0  BY <1>1
  <2> QED  BY <2>1
<1>3. ASSUME NEW x \in SUBSET S, x # {}, \A d \in x : x \ {d} \in G PROVE x \in G
  <2> DEFINE c == First(x)
  <2>1. c \in x  BY <1>3, FirstIn
  <2>2. sum(x) = sum(x \ {c}) + EntrySize(a[c])  BY <1>1, <1>3
  <2> HIDE DEF c
  <2>3. sum(x \ {c}) \in Nat /\ EntrySize(a[c]) \in Nat  BY <1>3, <2>1
  <2>4. sum(x) \in Nat  BY <2>2, <2>3
  <2> QED  BY <2>4
<1>4. SUBSET S \subseteq G
  <2> HIDE DEF G
  <2> QED  BY <1>2, <1>3, SubsetInduction
<1> QED  BY <1>4 DEF sum

\* A sum does not depend on which element is added last.
LEMMA SumTakes ==
    ASSUME NEW a, NEW S, IsFiniteSet(S), \A d \in S : EntrySize(a[d]) \in Nat
    PROVE  \A x \in SUBSET S :
              /\ SumIter(a, S)[x] \in Nat
              /\ \A d \in x : SumIter(a, S)[x] = SumIter(a, S)[x \ {d}] + EntrySize(a[d])
<1> DEFINE sum(x) == SumIter(a, S)[x]
           Takes(x) == sum(x) \in Nat /\ \A d \in x : sum(x) = sum(x \ {d}) + EntrySize(a[d])
           G == {x \in SUBSET S : Takes(x)}
<1>1. \A x \in SUBSET S : sum(x) = IF x = {} THEN 0 ELSE sum(x \ {First(x)}) + EntrySize(a[First(x)])
  BY SumIterIs
<1> HIDE DEF sum
<1>2. {} \in G
  <2>1. sum({}) = 0  BY <1>1
  <2> QED  BY <2>1
<1>3. ASSUME NEW x \in SUBSET S, x # {}, \A d \in x : x \ {d} \in G PROVE x \in G
  <2> DEFINE c == First(x)
  <2>1. c \in x  BY <1>3, FirstIn
  <2>2. sum(x) = sum(x \ {c}) + EntrySize(a[c])  BY <1>1, <1>3
  <2>3. Takes(x \ {c})  BY <1>3, <2>1
  <2> HIDE DEF c
  <2>4. sum(x \ {c}) \in Nat /\ EntrySize(a[c]) \in Nat  BY <2>1, <2>3
  <2>5. sum(x) \in Nat  BY <2>2, <2>4
  <2>6. ASSUME NEW d \in x, d # c PROVE sum(x) = sum(x \ {d}) + EntrySize(a[d])
    <3>1. Takes(x \ {d})  BY <1>3
    <3>2. d \in x \ {c} /\ c \in x \ {d} /\ (x \ {c}) \ {d} = (x \ {d}) \ {c}  BY <2>1, <2>6
    <3>3. sum(x \ {c}) = sum((x \ {c}) \ {d}) + EntrySize(a[d])  BY <2>3, <3>2
    <3>4. sum(x \ {d}) = sum((x \ {c}) \ {d}) + EntrySize(a[c])  BY <3>1, <3>2
    <3>5. EntrySize(a[d]) \in Nat /\ sum((x \ {c}) \ {d}) \in Nat  BY SumNat DEF sum
    <3> QED  BY <2>2, <2>4, <3>3, <3>4, <3>5
  <2> QED  BY <2>2, <2>5, <2>6
<1>4. SUBSET S \subseteq G
  <2> HIDE DEF G
  <2> QED  BY <1>2, <1>3, SubsetInduction
<1> QED  BY <1>4 DEF sum

\* A part of a set has at most the sum of the set.
LEMMA SumGrows ==
    ASSUME NEW a, NEW S, IsFiniteSet(S), \A d \in S : EntrySize(a[d]) \in Nat
    PROVE  \A x \in SUBSET S : \A y \in SUBSET x : SumIter(a, S)[y] <= SumIter(a, S)[x]
<1> DEFINE sum(x) == SumIter(a, S)[x]
           G == {x \in SUBSET S : \A y \in SUBSET x : sum(y) <= sum(x)}
<1>1. \A x \in SUBSET S : sum(x) \in Nat /\ \A d \in x : sum(x) = sum(x \ {d}) + EntrySize(a[d])
  BY SumTakes
<1> HIDE DEF sum
<1>2. {} \in G
  <2>1. \A y \in SUBSET {} : y = {}  OBVIOUS
  <2>2. sum({}) <= sum({})  BY <1>1
  <2> QED  BY <2>1, <2>2
<1>3. ASSUME NEW x \in SUBSET S, x # {}, \A d \in x : x \ {d} \in G PROVE x \in G
  <2>1. SUFFICES ASSUME NEW y \in SUBSET x PROVE sum(y) <= sum(x)  OBVIOUS
  <2>2. CASE y = x  BY <1>1, <2>2
  <2>3. CASE y # x
    <3>1. PICK d \in x : d \notin y  BY <2>3
    <3>2. sum(y) <= sum(x \ {d})
      <4>1. y \in SUBSET (x \ {d}) /\ x \ {d} \in G  BY <1>3, <3>1
      <4> QED  BY <4>1
    <3>3. sum(x) = sum(x \ {d}) + EntrySize(a[d]) /\ EntrySize(a[d]) \in Nat  BY <1>1, <3>1
    <3>4. sum(y) \in Nat /\ sum(x \ {d}) \in Nat
      <4>1. y \in SUBSET S /\ x \ {d} \in SUBSET S  OBVIOUS
      <4> QED  BY <1>1, <4>1
    <3> QED  BY <3>2, <3>3, <3>4
  <2> QED  BY <2>2, <2>3
<1>4. SUBSET S \subseteq G
  <2> HIDE DEF G
  <2> QED  BY <1>2, <1>3, SubsetInduction
<1> QED  BY <1>4 DEF sum

\* A sum does not depend on the set it is taken in.
LEMMA SumSame ==
    ASSUME NEW a, NEW S, IsFiniteSet(S), NEW T \in SUBSET S
    PROVE  \A x \in SUBSET T : SumIter(a, T)[x] = SumIter(a, S)[x]
<1> DEFINE G == {x \in SUBSET T : SumIter(a, T)[x] = SumIter(a, S)[x]}
           Is(f, x) == f[x] = IF x = {} THEN 0 ELSE f[x \ {First(x)}] + EntrySize(a[First(x)])
<1>1. IsFiniteSet(T)  BY FS_Subset
<1>2. \A x \in SUBSET T : Is(SumIter(a, T), x) /\ Is(SumIter(a, S), x)  BY <1>1, SumIterIs
<1>3. {} \in G  BY <1>2
<1>4. ASSUME NEW x \in SUBSET T, x # {}, \A d \in x : x \ {d} \in G PROVE x \in G
  <2>1. First(x) \in x  BY <1>4, FirstIn
  <2>2. SumIter(a, T)[x \ {First(x)}] = SumIter(a, S)[x \ {First(x)}]  BY <1>4, <2>1
  <2>3. Is(SumIter(a, T), x) /\ Is(SumIter(a, S), x)  BY <1>2
  <2> QED  BY <1>4, <2>2, <2>3
<1>5. SUBSET T \subseteq G
  <2> HIDE DEF G
  <2> QED  BY <1>1, <1>3, <1>4, SubsetInduction
<1> QED  BY <1>5

\* The places that compute_offsets gives the variables of a frame.
LEMMA OffsetsApart ==
    ASSUME NEW s, NEW locals, IsFiniteSet(locals), \A d \in locals : d \in Nat,
           \A d \in locals : EntrySize(s.entries[d]) \in Nat
    PROVE  /\ \A e \in locals : Offset(s, locals, e) \in Nat /\ EntrySize(s.entries[e]) <= Offset(s, locals, e)
           /\ \A d, e \in locals : d # e =>
                 \/ Offset(s, locals, d) <= Offset(s, locals, e) - EntrySize(s.entries[e])
                 \/ Offset(s, locals, e) <= Offset(s, locals, d) - EntrySize(s.entries[d])
<1>0. PICK a : a = s.entries  OBVIOUS
<1> DEFINE key(d) == EntrySize(a[d])
           before(e) == {d \in locals : key(d) < key(e) \/ (key(d) = key(e) /\ d <= e)}
           sum(x) == SumIter(a, locals)[x]
<1>1. ASSUME NEW e \in locals
      PROVE  Offset(s, locals, e) = sum(before(e)) /\ before(e) \in SUBSET locals /\ e \in before(e)
  <2>1. before(e) \in SUBSET locals /\ e \in before(e)
    <3> HIDE DEF key
    <3>1. e \in Nat /\ e <= e  OBVIOUS
    <3> QED  BY <3>1
  <2>2. Offset(s, locals, e) = SumIter(a, before(e))[before(e)]  BY <1>0, OffsetIs
  <2> HIDE DEF before
  <2>3. SumIter(a, before(e))[before(e)] = sum(before(e))  BY <2>1, SumSame
  <2> QED  BY <2>1, <2>2, <2>3
<1>2. \A x \in SUBSET locals : sum(x) \in Nat /\ \A d \in x : sum(x) = sum(x \ {d}) + key(d)
  <2>1. IsFiniteSet(locals) /\ \A d \in locals : EntrySize(a[d]) \in Nat  BY <1>0
  <2> QED  BY ONLY <2>1, SumTakes
<1>3. \A x \in SUBSET locals : \A y \in SUBSET x : sum(y) <= sum(x)  BY <1>0, SumGrows
<1>4. \A d \in locals : key(d) \in Nat  BY <1>0
<1>5. ASSUME NEW d \in locals, NEW e \in locals, d # e, d \in before(e)
      PROVE  sum(before(d)) <= sum(before(e)) - key(e)
  <2>1. before(d) \in SUBSET (before(e) \ {e})
    <3> HIDE DEF key
    <3>1. SUFFICES ASSUME NEW c \in before(d) PROVE c \in before(e) /\ c # e  OBVIOUS
    <3>2. c \in Nat /\ d \in Nat /\ e \in Nat /\ key(c) \in Nat /\ key(d) \in Nat /\ key(e) \in Nat  BY <1>4
    <3> QED  BY <1>5, <3>2
  <2>2. before(e) \in SUBSET locals /\ before(e) \ {e} \in SUBSET locals /\ before(d) \in SUBSET locals /\ e \in before(e)
    BY <1>1
  <2> HIDE DEF before, sum, key
  <2>3. sum(before(d)) <= sum(before(e) \ {e})  BY <1>3, <2>1, <2>2
  <2>4. sum(before(e)) = sum(before(e) \ {e}) + key(e)  BY <1>2, <2>2
  <2>5. sum(before(d)) \in Nat /\ sum(before(e) \ {e}) \in Nat /\ key(e) \in Nat  BY <1>2, <1>4, <2>2
  <2> QED  BY ONLY <2>3, <2>4, <2>5
<1>6. ASSUME NEW d \in locals, NEW e \in locals, d # e PROVE d \in before(e) \/ e \in before(d)
  <2> HIDE DEF key
  <2>1. d \in Nat /\ e \in Nat /\ key(d) \in Nat /\ key(e) \in Nat  BY <1>4
  <2> QED  BY <2>1
<1>7. ASSUME NEW e \in locals PROVE sum(before(e)) \in Nat /\ key(e) <= sum(before(e))
  <2>1. before(e) \in SUBSET locals /\ before(e) \ {e} \in SUBSET locals /\ e \in before(e)  BY <1>1
  <2> HIDE DEF before, sum, key
  <2>2. sum(before(e)) = sum(before(e) \ {e}) + key(e) /\ sum(before(e) \ {e}) \in Nat /\ key(e) \in Nat
    BY <1>2, <1>4, <2>1
  <2> QED  BY ONLY <2>2
<1> HIDE DEF before, sum
<1> QED  BY <1>0, <1>1, <1>5, <1>6, <1>7

---------------------------------------------------------------------------
(* The parts of a scope.                                                    *)
LEMMA PutIs ==
    ASSUME NEW scope, IsScope(scope), NEW id, NEW e
    PROVE  LET t == Put(scope, id, e)
           IN  /\ IsScope(t) /\ t.ns = scope.ns /\ t.statics = scope.statics
               /\ t.symbols = With(scope.symbols, id, e)
               /\ t.caseins = IF CaseIns THEN With(scope.caseins, Fold[id], e) ELSE scope.caseins
<1> DEFINE a == scope.ns
           b == scope.symbols
           c == scope.caseins
           d == scope.statics
           v == IF CaseIns THEN With(c, Fold[id], e) ELSE c
<1>1. scope = [ns |-> a, symbols |-> b, caseins |-> c, statics |-> d]  BY DEF IsScope
<1>2. Put(scope, id, e) = [ns |-> a, symbols |-> With(b, id, e), caseins |-> v, statics |-> d]
  <2>1. Put(scope, id, e) = [scope EXCEPT !.symbols = With(b, id, e), !.caseins = v]  BY DEF Put
  <2> HIDE DEF a, b, c, d, v
  <2> QED  BY <1>1, <2>1
<1> QED  BY <1>2 DEF IsScope

\* Deleting a name from a scope takes it from both of its dictionaries.
LEMMA DeleteIs ==
    ASSUME NEW scope, IsScope(scope), NEW id
    PROVE  LET t == Delete(scope, id)
           IN  /\ IsScope(t) /\ t.ns = scope.ns /\ t.statics = scope.statics
               /\ t.symbols = Without(scope.symbols, id) /\ t.caseins = Without(scope.caseins, id)
<1> DEFINE a == scope.ns
           b == scope.symbols
           c == scope.caseins
           d == scope.statics
<1>1. scope = [ns |-> a, symbols |-> b, caseins |-> c, statics |-> d]  BY DEF IsScope
<1>2. Delete(scope, id) = [ns |-> a, symbols |-> Without(b, id), caseins |-> Without(c, id), statics |-> d]
  <2>1. Delete(scope, id) = [scope EXCEPT !.symbols = Without(b, id), !.caseins = Without(c, id)]  BY DEF Delete
  <2> HIDE DEF a, b, c, d
  <2> QED  BY <1>1, <2>1
<1> QED  BY <1>2 DEF IsScope

Puts(f, g, k, v) ==
    DOMAIN g = DOMAIN f \cup {k} /\ g[k] = v /\ \A y \in DOMAIN f : y # k => g[y] = f[y]
Drops(f, g, k) ==
    DOMAIN g = DOMAIN f \ {k} /\ \A y \in DOMAIN f : y # k => g[y] = f[y]

\* What With does to a dictionary,
LEMMA WithIs ==
    ASSUME NEW f, NEW k, NEW v
    PROVE  Puts(f, With(f, k, v), k, v)
BY DEF With, Puts

\* and what its values are then.
LEMMA PutsRange ==
    ASSUME NEW f, NEW g, NEW k, NEW v, Puts(f, g, k, v)
    PROVE  /\ \A y \in Range(g) : y = v \/ y \in Range(f)
           /\ k \notin DOMAIN f => \A y \in Range(f) : y \in Range(g)
           /\ v \in Range(g)
BY DEF Puts, Range

\* What Without does to a dictionary,
LEMMA WithoutIs ==
    ASSUME NEW f, NEW k
    PROVE  Drops(f, Without(f, k), k)
BY DEF Without, Drops

\* and what its values are then.
LEMMA DropsRange ==
    ASSUME NEW f, NEW g, NEW k, Drops(f, g, k)
    PROVE  /\ \A y \in Range(g) : y \in Range(f)
           /\ \A y \in Range(f) : y \in Range(g) \/ (k \in DOMAIN f /\ y = f[k])
BY DEF Drops, Range

\* What Get means.
LEMMA GetIs ==
    ASSUME NEW scope, NEW id
    PROVE  /\ id \in DOMAIN scope.symbols => Get(scope, id) = scope.symbols[id]
           /\ id \notin DOMAIN scope.symbols /\ Fold[id] \in DOMAIN scope.caseins => Get(scope, id) = scope.caseins[Fold[id]]
           /\ id \notin DOMAIN scope.symbols /\ Fold[id] \notin DOMAIN scope.caseins => Get(scope, id) = None
BY DEF Get

\* What a scope knows is an entry.
LEMMA KnownIs ==
    ASSUME NEW s, TypesOK(s), NEW k \in 1 .. Depth(s)
    PROVE  /\ IsScope(s.table[k])
           /\ Depth(s) \in Nat \ {0} /\ Len(s.entries) \in Nat
           /\ \A e \in Knows(s, k) : e \in 1 .. Len(s.entries) /\ e # None
           /\ \A id : Get(s.table[k], id) # None => Get(s.table[k], id) \in Knows(s, k)
           /\ \A id : Get(s.table[k], id) = None <=> id \notin DOMAIN Sym(s, k) /\ Fold[id] \notin DOMAIN Cas(s, k)
<1>0. Depth(s) \in Nat \ {0} /\ Len(s.entries) \in Nat
  BY DEF TypesOK, IsSeq, Depth
<1>1. \A e \in Knows(s, k) : e \in 1 .. Len(s.entries)
  BY DEF Knows, TypesOK, Range
<1>2. \A e \in Knows(s, k) : e # None  BY <1>0, <1>1 DEF None
<1>3. ASSUME NEW id
      PROVE  /\ Get(s.table[k], id) # None => Get(s.table[k], id) \in Knows(s, k)
             /\ Get(s.table[k], id) = None <=> id \notin DOMAIN Sym(s, k) /\ Fold[id] \notin DOMAIN Cas(s, k)
  <2>1. id \in DOMAIN Sym(s, k) => Sym(s, k)[id] \in Knows(s, k)  BY DEF Knows, Range
  <2>2. Fold[id] \in DOMAIN Cas(s, k) => Cas(s, k)[Fold[id]] \in Knows(s, k)  BY DEF Knows, Range
  <2> QED  BY <1>2, <2>1, <2>2, GetIs DEF Sym, Cas
<1> QED  BY <1>0, <1>1, <1>2, <1>3 DEF TypesOK

\* A scope that is not the global one treats the spellings of a name alike.
LEMMA SameFold ==
    ASSUME NEW s, TypesOK(s), Folded(s), NEW k \in 2 .. Depth(s), NEW id, NEW jd, CaseIns, Fold[id] = Fold[jd]
    PROVE  /\ Get(s.table[k], id) = Get(s.table[k], jd)
           /\ id \in DOMAIN Sym(s, k) /\ jd \in DOMAIN Sym(s, k) => id = jd
<1>1. \A x \in DOMAIN Sym(s, k) : Fold[x] \in DOMAIN Cas(s, k) /\ Cas(s, k)[Fold[x]] = Sym(s, k)[x]
  <2>1. k \in 1 .. Depth(s)  OBVIOUS
  <2> QED  BY <2>1 DEF Folded
<1>2. \A x : Get(s.table[k], x) = IF x \in DOMAIN Sym(s, k) THEN Sym(s, k)[x]
                                  ELSE IF Fold[x] \in DOMAIN Cas(s, k) THEN Cas(s, k)[Fold[x]] ELSE None
  BY DEF Get, Sym, Cas
<1>3. Get(s.table[k], id) = Get(s.table[k], jd)  BY <1>1, <1>2
<1>4. ASSUME id \in DOMAIN Sym(s, k), jd \in DOMAIN Sym(s, k) PROVE id = jd
  <2>1. Sym(s, k)[id] = Sym(s, k)[jd]  BY <1>1, <1>4
  <2>2. k \in 1 .. Depth(s)  OBVIOUS
  <2>3. s.entries[Sym(s, k)[id]].name = id /\ s.entries[Sym(s, k)[jd]].name = jd  BY <1>4, <2>2 DEF TypesOK
  <2> QED  BY <2>1, <2>3
<1> QED  BY <1>3, <1>4

\* The global scope knows no spelling of a name it does not know.
LEMMA NoneFold ==
    ASSUME NEW s, TypesOK(s), Folded(s), NEW k \in 1 .. Depth(s), NEW id, NEW jd, CaseIns, Fold[id] = Fold[jd],
           Get(s.table[k], id) = None
    PROVE  Get(s.table[k], jd) = None
<1>1. \A x \in DOMAIN Sym(s, k) : Fold[x] \in DOMAIN Cas(s, k)  BY DEF Folded
<1>2. id \notin DOMAIN Sym(s, k) /\ Fold[id] \notin DOMAIN Cas(s, k)  BY KnownIs
<1>3. jd \notin DOMAIN Sym(s, k) /\ Fold[jd] \notin DOMAIN Cas(s, k)  BY <1>1, <1>2
<1> QED  BY <1>3, KnownIs

\* The entry found for a name has no place on a frame yet.
Loose(e) == e.offset = None \/ e.scope = "global"
\* An entry that a scope knows is one of the table, and global in the global scope.
LEMMA FoundIs ==
    ASSUME NEW s, TableInv(s), NEW k \in 1 .. Depth(s), NEW e \in Knows(s, k)
    PROVE  /\ e \in 1 .. Len(s.entries) /\ Loose(s.entries[e])
           /\ k = 1 => s.entries[e].scope = "global"
           /\ k # 1 => e \in Range(Sym(s, k)) \/ s.entries[e].scope = "global"
<1>1. e \in 1 .. Len(s.entries)  BY KnownIs DEF TableInv
<1>2. CASE k = 1
  <2>1. s.entries[e].scope = "global"  BY <1>2 DEF TableInv, Homes
  <2> QED  BY <1>1, <1>2, <2>1 DEF Loose
<1>3. CASE k # 1
  <2>1. k \in 2 .. Depth(s)  BY <1>3, KnownIs DEF TableInv
  <2>2. s.entries[e].home = Ns(s, k)  BY <2>1 DEF TableInv, Homes
  <2>3. s.entries[e].offset = None  BY <1>1, <2>1, <2>2 DEF TableInv, Unplaced
  <2>4. e \in Range(Sym(s, k)) \/ s.entries[e].scope = "global"  BY <2>1 DEF TableInv, Stale, Knows
  <2> QED  BY <1>1, <1>3, <2>3, <2>4 DEF Loose
<1> QED  BY <1>2, <1>3

\* The scope where a name is found.
Seen(s, id, k) ==
    /\ k \in 1 .. Depth(s)
    /\ Get(s.table[k], id) # None
    /\ \A i \in k + 1 .. Depth(s) : Get(s.table[i], id) = None

\* A name that is searched in all scopes is found in the innermost that knows it.
LEMMA EntryIs ==
    ASSUME NEW s, TypesOK(s), NEW id
    PROVE  \/ GetEntry(s.table, id) = None /\ \A k \in 1 .. Depth(s) : Get(s.table[k], id) = None
           \/ \E k : Seen(s, id, k) /\ GetEntry(s.table, id) = Get(s.table[k], id)
<1> DEFINE t == s.table
           n == Depth(s)
           known == {i \in DOMAIN t : Get(t[i], id) # None}
           T == {x \in Nat : \E i \in known : x = n - i}
<1>1. n \in Nat /\ DOMAIN t = 1 .. n  BY DEF TypesOK, IsSeq, Depth
<1>2. CASE known = {}
  <2>1. GetEntry(t, id) = None  BY <1>2 DEF GetEntry
  <2> QED  BY <1>1, <1>2, <2>1
<1>3. CASE known # {}
  <2> HIDE DEF t, n
  <2>1. \A i \in known : i \in Nat /\ n - i \in Nat  BY <1>1
  <2>2. T # {}  BY <1>3, <2>1
  <2> HIDE DEF T
  <2>3. PICK x \in T : \A y \in T : ~ (y < x)
    <3>1. T \in SUBSET Nat  BY DEF T
    <3> QED  BY <2>2, <3>1, LeastExists
  <2>4. PICK k \in known : x = n - k  BY <2>3 DEF T
  <2>5. \A i \in known : k >= i
    <3>1. SUFFICES ASSUME NEW i \in known PROVE k >= i  OBVIOUS
    <3>2. n - i \in T  BY <2>1 DEF T
    <3>3. ~ (n - i < n - k)  BY <2>3, <2>4, <3>2
    <3> QED  BY <1>1, <2>1, <3>3
  <2>6. \A j \in known : (\A i \in known : j >= i) => j = k  BY <2>1, <2>5
  <2>7. Max(known) = k  BY <2>5, <2>6 DEF Max
  <2>8. GetEntry(t, id) = Get(t[k], id)  BY <1>3, <2>7 DEF GetEntry
  <2>9. \A i \in k + 1 .. n : Get(t[i], id) = None
    <3>1. SUFFICES ASSUME NEW i \in k + 1 .. n, Get(t[i], id) # None PROVE FALSE  OBVIOUS
    <3>2. i \in 1 .. n /\ ~(k >= i)  BY <1>1, <2>1
    <3> QED  BY <1>1, <2>5, <3>1, <3>2
  <2>10. Seen(s, id, k)  BY <1>1, <2>9 DEF Seen, t, n
  <2> QED  BY <2>8, <2>10 DEF t
<1> QED  BY <1>2, <1>3

---------------------------------------------------------------------------
(* A new entry in the current scope.                                        *)

\* What the code refers to is not lost on the way from s to t.
Keeps(s, t) ==
    /\ Len(s.entries) <= Len(t.entries)
    /\ \A e \in 1 .. Len(s.entries) : Awaits(s, e) => Awaits(t, e)
Good(s, t) == TableInv(t) /\ Keeps(s, t)

Adds(s, id, x) ==
    [table |-> [s.table EXCEPT ![Len(s.table)] = Put(@, id, Len(s.entries) + 1)],
     entries |-> Append(s.entries, x)]
IsSet(x) == x.declared /\ x.class \in {"sub", "var"}
Addable(s, id, x) ==
    /\ id \in Names /\ IsEntry(x) /\ x.name = id /\ x.home = Ns(s, Depth(s)) /\ x.offset = None
    /\ Depth(s) = 1 => x.scope = "global"
    /\ x.declared => x.class \in {"var", "label", "sub"}
    /\ x.class = "sub" => x.declared
    /\ Get(s.table[Depth(s)], id) = None
    /\ ClassOf(x) = "unknown" => \A j \in 1 .. Depth(s) : Get(s.table[j], id) = None
    /\ ~IsSet(x) => Get(s.table[1], id) = None /\ \A k : Seen(s, id, k) => ~ s.entries[Get(s.table[k], id)].declared

\* What the table is after it.
Added(s, id, x, t) ==
    /\ t = [table |-> t.table, entries |-> t.entries]
    /\ IsSeq(t.table) /\ Depth(t) = Depth(s) /\ IsSeq(t.entries) /\ Len(t.entries) = Len(s.entries) + 1
    /\ \A e \in 1 .. Len(s.entries) : t.entries[e] = s.entries[e]
    /\ t.entries[Len(s.entries) + 1] = x
    /\ \A k \in 1 .. Depth(s) : k # Depth(s) => t.table[k] = s.table[k]
    /\ IsScope(t.table[Depth(s)]) /\ Ns(t, Depth(s)) = Ns(s, Depth(s))
    /\ id \notin DOMAIN Sym(s, Depth(s)) /\ Fold[id] \notin DOMAIN Cas(s, Depth(s))
    /\ Puts(Sym(s, Depth(s)), Sym(t, Depth(s)), id, Len(s.entries) + 1)
    /\ CaseIns => Puts(Cas(s, Depth(s)), Cas(t, Depth(s)), Fold[id], Len(s.entries) + 1)
    /\ ~CaseIns => Cas(t, Depth(s)) = Cas(s, Depth(s))

\* A new entry in the current scope changes nothing else of the table.
LEMMA AddsIs ==
    ASSUME NEW s, TypesOK(s), NEW id, NEW x, Addable(s, id, x)
    PROVE  Added(s, id, x, Adds(s, id, x))
<1> DEFINE t == Adds(s, id, x)
           n == Len(s.entries)
           K == Depth(s)
           scope == Put(s.table[K], id, n + 1)
<1>1. K \in 1 .. K /\ K \in Nat /\ n \in Nat /\ DOMAIN s.table = 1 .. K
  BY DEF TypesOK, IsSeq, Depth
<1>2. IsScope(scope) /\ scope.ns = s.table[K].ns /\ scope.symbols = With(s.table[K].symbols, id, n + 1)
      /\ scope.caseins = IF CaseIns THEN With(s.table[K].caseins, Fold[id], n + 1) ELSE s.table[K].caseins
  BY <1>1, KnownIs, PutIs
<1>3. t.table = [s.table EXCEPT ![K] = scope] /\ t.entries = Append(s.entries, x) /\ t = [table |-> t.table, entries |-> t.entries]
  BY DEF Adds, Depth
<1>4. IsSeq(t.entries) /\ Len(t.entries) = n + 1 /\ (\A e \in 1 .. n : t.entries[e] = s.entries[e]) /\ t.entries[n + 1] = x
  BY <1>3, AppendIs DEF TypesOK
<1>5. t.table[K] = scope /\ \A k \in 1 .. K : k # K => t.table[k] = s.table[k]
  BY <1>1, <1>3
<1>6. IsSeq(t.table) /\ Len(t.table) = K
  <2>1. PICK S : s.table \in Seq(S)  BY DEF TypesOK, IsSeq
  <2>2. s.table \in Seq(S \cup {scope})  BY <2>1, SeqMonotonic
  <2>3. t.table \in Seq(S \cup {scope}) /\ Len(t.table) = Len(s.table)  BY <1>1, <1>3, <2>2
  <2> QED  BY <2>3 DEF IsSeq, Depth
<1>7. id \notin DOMAIN Sym(s, K) /\ Fold[id] \notin DOMAIN Cas(s, K)
  <2>1. Get(s.table[K], id) = None  BY DEF Addable
  <2> QED  BY <1>1, <2>1, KnownIs
<1> HIDE DEF scope, t
<1>8. Depth(t) = K  BY <1>6 DEF Depth
<1>9. IsScope(t.table[K]) /\ Ns(t, K) = Ns(s, K) /\ Puts(Sym(s, K), Sym(t, K), id, n + 1)
      /\ (CaseIns => Puts(Cas(s, K), Cas(t, K), Fold[id], n + 1)) /\ (~CaseIns => Cas(t, K) = Cas(s, K))
  BY <1>2, <1>5, WithIs DEF Ns, Sym, Cas
<1> HIDE DEF K, n
<1> QED  BY <1>3, <1>4, <1>5, <1>6, <1>7, <1>8, <1>9 DEF Added, t, K, n

\* What is found in the scopes after it.
LEMMA AddedGets ==
    ASSUME NEW s, TypesOK(s), Folded(s), NEW id, NEW x, NEW t, Added(s, id, x, t)
    PROVE  /\ \A k \in 1 .. Depth(s) : k # Depth(s) => \A jd : Get(t.table[k], jd) = Get(s.table[k], jd)
           /\ \A jd : jd # id /\ ~(CaseIns /\ Fold[jd] = Fold[id]) =>
                         Get(t.table[Depth(s)], jd) = Get(s.table[Depth(s)], jd)
           /\ \A jd : jd = id \/ (CaseIns /\ Fold[jd] = Fold[id]) =>
                         Get(t.table[Depth(s)], jd) = Len(s.entries) + 1 /\ Get(s.table[Depth(s)], jd) = None
<1> DEFINE K == Depth(s)
           n == Len(s.entries)
<1>1. K \in 1 .. K  BY DEF TypesOK, IsSeq, Depth
<1>2. \A k \in 1 .. K : k # K => t.table[k] = s.table[k]  BY DEF Added
<1>3. \A k, u, jd : Get(u.table[k], jd) = IF jd \in DOMAIN Sym(u, k) THEN Sym(u, k)[jd]
                                          ELSE IF Fold[jd] \in DOMAIN Cas(u, k) THEN Cas(u, k)[Fold[jd]] ELSE None
  BY DEF Get, Sym, Cas
<1>4. Puts(Sym(s, K), Sym(t, K), id, n + 1)
      /\ (CaseIns => Puts(Cas(s, K), Cas(t, K), Fold[id], n + 1)) /\ (~CaseIns => Cas(t, K) = Cas(s, K))
      /\ id \notin DOMAIN Sym(s, K) /\ Fold[id] \notin DOMAIN Cas(s, K)
  BY DEF Added
<1>5. \A f : f \in DOMAIN Cas(s, K) => CaseIns  BY <1>1 DEF TypesOK
<1>6. CaseIns => \A jd \in DOMAIN Sym(s, K) : Fold[jd] \in DOMAIN Cas(s, K)  BY <1>1 DEF Folded
<1>7. DOMAIN Sym(t, K) = DOMAIN Sym(s, K) \cup {id} /\ Sym(t, K)[id] = n + 1
      /\ \A y \in DOMAIN Sym(s, K) : y # id => Sym(t, K)[y] = Sym(s, K)[y]
  BY <1>4 DEF Puts
<1>8. CaseIns => /\ DOMAIN Cas(t, K) = DOMAIN Cas(s, K) \cup {Fold[id]} /\ Cas(t, K)[Fold[id]] = n + 1
                 /\ \A y \in DOMAIN Cas(s, K) : y # Fold[id] => Cas(t, K)[y] = Cas(s, K)[y]
  BY <1>4 DEF Puts
<1>9. ~CaseIns => Cas(t, K) = Cas(s, K)  BY <1>4
<1> HIDE DEF K, n
<1>10. ASSUME NEW jd, jd # id, ~(CaseIns /\ Fold[jd] = Fold[id]) PROVE Get(t.table[K], jd) = Get(s.table[K], jd)
  BY <1>3, <1>5, <1>7, <1>8, <1>9, <1>10
<1>11. ASSUME NEW jd, jd = id \/ (CaseIns /\ Fold[jd] = Fold[id])
       PROVE  Get(t.table[K], jd) = n + 1 /\ Get(s.table[K], jd) = None
  <2>1. jd \notin DOMAIN Sym(s, K) /\ Fold[jd] \notin DOMAIN Cas(s, K)  BY <1>4, <1>6, <1>11
  <2>2. Get(s.table[K], jd) = None  BY <1>3, <2>1
  <2>3. CASE jd = id  BY <1>3, <1>7, <2>2, <2>3
  <2>4. CASE jd # id /\ CaseIns /\ Fold[jd] = Fold[id]
    <3>1. jd \notin DOMAIN Sym(t, K)  BY <1>7, <2>1, <2>4
    <3>2. Fold[jd] \in DOMAIN Cas(t, K) /\ Cas(t, K)[Fold[jd]] = n + 1  BY <1>8, <2>4
    <3> QED  BY <1>3, <2>2, <3>1, <3>2
  <2> QED  BY <1>11, <2>3, <2>4
<1> QED  BY <1>2, <1>10, <1>11 DEF K, n

\* The types of the table after it.
LEMMA AddedTypes ==
    ASSUME NEW s, TypesOK(s), NEW id, NEW x, Addable(s, id, x), NEW t, Added(s, id, x, t)
    PROVE  TypesOK(t)
<1> DEFINE K == Depth(s)
           n == Len(s.entries)
<1>1. K \in 1 .. K /\ K \in Nat \ {0} /\ n \in Nat  BY DEF TypesOK, IsSeq, Depth
<1>2. Len(t.entries) = n + 1 /\ (\A e \in 1 .. n : t.entries[e] = s.entries[e]) /\ t.entries[n + 1] = x /\ Depth(t) = K
      /\ \A k \in 1 .. K : k # K => t.table[k] = s.table[k]
  BY DEF Added
<1>3. IsEntry(x) /\ x.name = id /\ id \in Names  BY DEF Addable
<1>4. \A e \in 1 .. n + 1 : IsEntry(t.entries[e])
  <2>1. SUFFICES ASSUME NEW e \in 1 .. n + 1 PROVE IsEntry(t.entries[e])  OBVIOUS
  <2>2. e \in 1 .. n \/ e = n + 1  BY <1>1
  <2>3. \A d \in 1 .. n : IsEntry(s.entries[d])  BY DEF TypesOK
  <2> QED  BY <1>2, <1>3, <2>2, <2>3
<1>5. ASSUME NEW k \in 1 .. K
      PROVE  /\ IsScope(t.table[k])
             /\ IsSeq(Ns(t, k)) /\ Len(Ns(t, k)) = 2 * (k - 1)
             /\ \A jd \in DOMAIN Sym(t, k) : jd \in Names /\ Sym(t, k)[jd] \in 1 .. n + 1 /\ t.entries[Sym(t, k)[jd]].name = jd
             /\ \A f \in DOMAIN Cas(t, k) : CaseIns /\ Cas(t, k)[f] \in 1 .. n + 1
  <2>1. /\ IsScope(s.table[k])
        /\ IsSeq(Ns(s, k)) /\ Len(Ns(s, k)) = 2 * (k - 1)
        /\ \A jd \in DOMAIN Sym(s, k) : jd \in Names /\ Sym(s, k)[jd] \in 1 .. n /\ s.entries[Sym(s, k)[jd]].name = jd
        /\ \A f \in DOMAIN Cas(s, k) : CaseIns /\ Cas(s, k)[f] \in 1 .. n
    BY DEF TypesOK
  <2>2. 1 .. n \subseteq 1 .. n + 1 /\ n + 1 \in 1 .. n + 1  BY <1>1
  <2>3. CASE k # K
    <3>1. t.table[k] = s.table[k]  BY <1>2, <2>3
    <3>2. Sym(t, k) = Sym(s, k) /\ Cas(t, k) = Cas(s, k) /\ Ns(t, k) = Ns(s, k)  BY <3>1 DEF Sym, Cas, Ns
    <3> HIDE DEF K, n
    <3> QED  BY <1>2, <2>1, <2>2, <3>1, <3>2
  <2>4. CASE k = K
    <3>1. IsScope(t.table[k]) /\ Ns(t, k) = Ns(s, k) /\ Puts(Sym(s, k), Sym(t, k), id, n + 1)
          /\ (CaseIns => Puts(Cas(s, k), Cas(t, k), Fold[id], n + 1)) /\ (~CaseIns => Cas(t, k) = Cas(s, k))
      BY <2>4 DEF Added
    <3>2. DOMAIN Sym(t, k) = DOMAIN Sym(s, k) \cup {id} /\ Sym(t, k)[id] = n + 1
          /\ \A y \in DOMAIN Sym(s, k) : y # id => Sym(t, k)[y] = Sym(s, k)[y]
      BY <3>1 DEF Puts
    <3>3. CaseIns => /\ DOMAIN Cas(t, k) = DOMAIN Cas(s, k) \cup {Fold[id]} /\ Cas(t, k)[Fold[id]] = n + 1
                     /\ \A y \in DOMAIN Cas(s, k) : y # Fold[id] => Cas(t, k)[y] = Cas(s, k)[y]
      BY <3>1 DEF Puts
    <3>4. ~CaseIns => Cas(t, k) = Cas(s, k)  BY <3>1
    <3> HIDE DEF K, n
    <3>5. \A jd \in DOMAIN Sym(t, k) : jd \in Names /\ Sym(t, k)[jd] \in 1 .. n + 1 /\ t.entries[Sym(t, k)[jd]].name = jd
      <4>1. SUFFICES ASSUME NEW jd \in DOMAIN Sym(t, k)
                     PROVE  jd \in Names /\ Sym(t, k)[jd] \in 1 .. n + 1 /\ t.entries[Sym(t, k)[jd]].name = jd
        OBVIOUS
      <4>2. CASE jd = id  BY <1>2, <1>3, <2>2, <3>2, <4>2
      <4>3. CASE jd # id
        <5>1. jd \in DOMAIN Sym(s, k) /\ Sym(t, k)[jd] = Sym(s, k)[jd]  BY <3>2, <4>3
        <5>2. t.entries[Sym(s, k)[jd]] = s.entries[Sym(s, k)[jd]]  BY <1>2, <2>1, <5>1
        <5> QED  BY <2>1, <2>2, <5>1, <5>2
      <4> QED  BY <4>2, <4>3
    <3>6. \A f \in DOMAIN Cas(t, k) : CaseIns /\ Cas(t, k)[f] \in 1 .. n + 1
      BY <2>1, <2>2, <3>3, <3>4
    <3> QED  BY <2>1, <3>1, <3>5, <3>6
  <2> QED  BY <2>3, <2>4
<1>6. t = [table |-> t.table, entries |-> t.entries] /\ IsSeq(t.table) /\ IsSeq(t.entries) /\ Depth(t) # 0
  BY <1>1, <1>2 DEF Added
<1> HIDE DEF K, n
<1> QED  BY <1>2, <1>4, <1>5, <1>6 DEF TypesOK

\* What the scopes know after it.
LEMMA AddedNames ==
    ASSUME NEW s, TypesOK(s), NEW id, NEW x, NEW t, Added(s, id, x, t), NEW k \in 1 .. Depth(s)
    PROVE  /\ Ns(t, k) = Ns(s, k)
           /\ \A jd \in DOMAIN Sym(t, k) :
                 \/ jd \in DOMAIN Sym(s, k) /\ Sym(t, k)[jd] = Sym(s, k)[jd]
                 \/ k = Depth(s) /\ jd = id /\ Sym(t, k)[jd] = Len(s.entries) + 1
           /\ \A jd \in DOMAIN Sym(s, k) : jd \in DOMAIN Sym(t, k) /\ Sym(t, k)[jd] = Sym(s, k)[jd]
           /\ \A f \in DOMAIN Cas(t, k) :
                 \/ f \in DOMAIN Cas(s, k) /\ Cas(t, k)[f] = Cas(s, k)[f]
                 \/ k = Depth(s) /\ CaseIns /\ f = Fold[id] /\ Cas(t, k)[f] = Len(s.entries) + 1
           /\ \A f \in DOMAIN Cas(s, k) : f \in DOMAIN Cas(t, k) /\ Cas(t, k)[f] = Cas(s, k)[f]
           /\ \A e \in Knows(t, k) : e \in Knows(s, k) \/ (k = Depth(s) /\ e = Len(s.entries) + 1)
           /\ \A e \in Range(Sym(s, k)) : e \in Range(Sym(t, k))
           /\ \A e \in Range(Cas(t, k)) : e \in Range(Cas(s, k)) \/ (k = Depth(s) /\ e = Len(s.entries) + 1)
           /\ k = Depth(s) => id \in DOMAIN Sym(t, k) /\ Sym(t, k)[id] = Len(s.entries) + 1 /\ Len(s.entries) + 1 \in Range(Sym(t, k))
                              /\ (CaseIns => Fold[id] \in DOMAIN Cas(t, k) /\ Cas(t, k)[Fold[id]] = Len(s.entries) + 1)
<1> DEFINE K == Depth(s)
           n == Len(s.entries)
<1>1. CASE k # K
  <2>1. t.table[k] = s.table[k]  BY <1>1 DEF Added
  <2>2. Sym(t, k) = Sym(s, k) /\ Cas(t, k) = Cas(s, k) /\ Ns(t, k) = Ns(s, k)  BY <2>1 DEF Sym, Cas, Ns
  <2> QED  BY <1>1, <2>2 DEF Knows
<1>2. CASE k = K
  <2>1. Ns(t, k) = Ns(s, k) /\ Puts(Sym(s, k), Sym(t, k), id, n + 1)
        /\ (CaseIns => Puts(Cas(s, k), Cas(t, k), Fold[id], n + 1)) /\ (~CaseIns => Cas(t, k) = Cas(s, k))
        /\ id \notin DOMAIN Sym(s, k) /\ Fold[id] \notin DOMAIN Cas(s, k)
    BY <1>2 DEF Added
  <2>2. (\A y \in Range(Sym(t, k)) : y = n + 1 \/ y \in Range(Sym(s, k)))
        /\ (\A y \in Range(Sym(s, k)) : y \in Range(Sym(t, k))) /\ n + 1 \in Range(Sym(t, k))
    BY <2>1, PutsRange
  <2>3. \A y \in Range(Cas(t, k)) : y = n + 1 \/ y \in Range(Cas(s, k))
    <3>1. CASE CaseIns  BY <2>1, <3>1, PutsRange
    <3>2. CASE ~CaseIns  BY <2>1, <3>2
    <3> QED  BY <3>1, <3>2
  <2>4. (\A jd \in DOMAIN Sym(t, k) :
           \/ jd \in DOMAIN Sym(s, k) /\ Sym(t, k)[jd] = Sym(s, k)[jd]
           \/ jd = id /\ Sym(t, k)[jd] = n + 1)
        /\ (\A jd \in DOMAIN Sym(s, k) : jd \in DOMAIN Sym(t, k) /\ Sym(t, k)[jd] = Sym(s, k)[jd])
        /\ id \in DOMAIN Sym(t, k) /\ Sym(t, k)[id] = n + 1
    BY <2>1 DEF Puts
  <2>5. (\A f \in DOMAIN Cas(t, k) :
           \/ f \in DOMAIN Cas(s, k) /\ Cas(t, k)[f] = Cas(s, k)[f]
           \/ CaseIns /\ f = Fold[id] /\ Cas(t, k)[f] = n + 1)
        /\ (\A f \in DOMAIN Cas(s, k) : f \in DOMAIN Cas(t, k) /\ Cas(t, k)[f] = Cas(s, k)[f])
        /\ (CaseIns => Fold[id] \in DOMAIN Cas(t, k) /\ Cas(t, k)[Fold[id]] = n + 1)
    <3>1. CASE CaseIns  BY <2>1, <3>1 DEF Puts
    <3>2. CASE ~CaseIns  BY <2>1, <3>2
    <3> QED  BY <3>1, <3>2
  <2> QED  BY <1>2, <2>1, <2>2, <2>3, <2>4, <2>5 DEF Knows
<1> QED  BY <1>1, <1>2

\* A namespace is used by what is made in it, or by a scope.
LEMMA AddedUsed ==
    ASSUME NEW s, TypesOK(s), NEW id, NEW x, Addable(s, id, x), NEW t, Added(s, id, x, t), NEW h, Used(t, h)
    PROVE  Used(s, h)
<1> DEFINE K == Depth(s)
           n == Len(s.entries)
<1>1. K \in 1 .. K /\ n \in Nat  BY DEF TypesOK, IsSeq, Depth
<1>2. Len(t.entries) = n + 1 /\ (\A e \in 1 .. n : t.entries[e] = s.entries[e]) /\ t.entries[n + 1] = x /\ Depth(t) = K
  BY DEF Added
<1>3. x.home = Ns(s, K)  BY DEF Addable
<1>4. \A k \in 1 .. K : Ns(t, k) = Ns(s, k)  BY AddedNames
<1> HIDE DEF K, n
<1>5. CASE \E k \in 1 .. K : Starts(h, Ns(t, k))  BY <1>4, <1>5 DEF Used, K
<1>6. CASE \E e \in 1 .. n + 1 : Starts(h, t.entries[e].home)
  <2>1. PICK e \in 1 .. n + 1 : Starts(h, t.entries[e].home)  BY <1>6
  <2>2. CASE e = n + 1
    <3>1. Starts(h, Ns(s, K))  BY <1>2, <1>3, <2>1, <2>2
    <3> QED  BY <1>1, <3>1 DEF Used, K
  <2>3. CASE e # n + 1
    <3>1. e \in 1 .. n  BY <1>1, <2>3
    <3>2. Starts(h, s.entries[e].home)  BY <1>2, <2>1, <3>1
    <3> QED  BY <3>1, <3>2 DEF Used, n
  <2> QED  BY <2>2, <2>3
<1> QED  BY <1>2, <1>5, <1>6 DEF Used

\* A new entry keeps the names of the SUBs that have been entered.
LEMMA AddedHeld ==
    ASSUME NEW s, TypesOK(s), Folded(s), NEW id, NEW x, Addable(s, id, x), NEW t, Added(s, id, x, t),
           NEW k \in 1 .. Depth(s), NEW jd, Held(s, k, jd)
    PROVE  Held(t, k, jd)
<1> DEFINE K == Depth(s)
           n == Len(s.entries)
<1>1. K \in 1 .. K /\ K \in Nat /\ n \in Nat  BY DEF TypesOK, IsSeq, Depth
<1>2. (\A e \in 1 .. n : t.entries[e] = s.entries[e]) /\ t.entries[n + 1] = x  BY DEF Added
<1>3. PICK j \in 1 .. k :
         /\ Get(s.table[j], jd) # None
         /\ \A i \in j + 1 .. k : Get(s.table[i], jd) = None
         /\ s.entries[Get(s.table[j], jd)].declared
         /\ s.entries[Get(s.table[j], jd)].class \in {"sub", "var"}
  BY DEF Held
<1>4. j \in 1 .. K  BY <1>1
<1>5. Get(s.table[j], jd) \in 1 .. n
  BY <1>3, <1>4, KnownIs
<1>6. /\ \A i \in 1 .. K : i # K => \A fd : Get(t.table[i], fd) = Get(s.table[i], fd)
      /\ \A fd : fd # id /\ ~(CaseIns /\ Fold[fd] = Fold[id]) => Get(t.table[K], fd) = Get(s.table[K], fd)
      /\ \A fd : fd = id \/ (CaseIns /\ Fold[fd] = Fold[id]) =>
                    Get(t.table[K], fd) = n + 1 /\ Get(s.table[K], fd) = None
  BY AddedGets
<1> HIDE DEF K, n
<1>7. ASSUME \A i \in 1 .. k : Get(t.table[i], jd) = Get(s.table[i], jd) PROVE Held(t, k, jd)
  <2>1. \A i \in j + 1 .. k : i \in 1 .. k  BY <1>4, <1>1
  <2>2. \A i \in j + 1 .. k : Get(t.table[i], jd) = None  BY <1>3, <1>7, <2>1
  <2>3. t.entries[Get(t.table[j], jd)] = s.entries[Get(s.table[j], jd)]  BY <1>2, <1>5, <1>7
  <2>4. Get(t.table[j], jd) = Get(s.table[j], jd)  BY <1>7
  <2> QED  BY <1>3, <2>2, <2>3, <2>4 DEF Held
<1>8. CASE k # K
  <2>1. \A i \in 1 .. k : i \in 1 .. K /\ i # K  BY <1>1, <1>8 DEF K
  <2> QED  BY <1>6, <1>7, <2>1
<1>9. CASE jd # id /\ ~(CaseIns /\ Fold[jd] = Fold[id])
  <2>1. \A i \in 1 .. k : i \in 1 .. K  BY <1>1 DEF K
  <2> QED  BY <1>6, <1>7, <1>9, <2>1
<1>10. CASE k = K /\ (jd = id \/ (CaseIns /\ Fold[jd] = Fold[id]))
  <2>1. Get(t.table[K], jd) = n + 1 /\ Get(s.table[K], jd) = None  BY <1>6, <1>10
  <2>2. CASE IsSet(x)
    <3>1. n + 1 # None  BY <1>1 DEF None
    <3>2. \A i \in K + 1 .. K : FALSE  BY <1>1
    <3>3. K \in 1 .. k  BY <1>1, <1>10
    <3>4. x.declared /\ x.class \in {"sub", "var"}  BY <2>2 DEF IsSet
    <3> QED  BY <1>2, <1>10, <2>1, <3>1, <3>2, <3>3, <3>4 DEF Held
  <2>3. CASE ~IsSet(x)
    <3>1. Get(s.table[1], id) = None /\ \A i : Seen(s, id, i) => ~ s.entries[Get(s.table[i], id)].declared
      BY <2>3 DEF Addable
    <3>2. \A i \in 2 .. K : Get(s.table[i], id) = Get(s.table[i], jd)
      BY <1>10, SameFold DEF K
    <3>3. 1 \in 1 .. K /\ Get(s.table[1], jd) = None
      <4>1. 1 \in 1 .. K  BY <1>1
      <4> QED  BY <1>10, <3>1, <4>1, NoneFold DEF K
    <3>4. j \in 2 .. K  BY <1>1, <1>3, <1>4, <3>3
    <3>5. \A i \in j + 1 .. K : i \in 2 .. K /\ i \in j + 1 .. k  BY <1>1, <1>10, <3>4
    <3>6. Seen(s, id, j)
      <4>1. Get(s.table[j], id) # None  BY <1>3, <3>2, <3>4
      <4>2. \A i \in j + 1 .. K : Get(s.table[i], id) = None  BY <1>3, <3>2, <3>5
      <4> QED  BY <1>4, <4>1, <4>2 DEF Seen, K
    <3>7. Get(s.table[j], id) = Get(s.table[j], jd)  BY <3>2, <3>4
    <3> QED  BY <1>3, <3>1, <3>6, <3>7
  <2> QED  BY <2>2, <2>3
<1> QED  BY <1>8, <1>9, <1>10

\* A new entry keeps the table right.
LEMMA AddKeeps ==
    ASSUME NEW s, TableInv(s), NEW id, NEW x, Addable(s, id, x), NEW t, Added(s, id, x, t)
    PROVE  Good(s, t)
<1> DEFINE K == Depth(s)
           n == Len(s.entries)
<1>1. K \in 1 .. K /\ K \in Nat \ {0} /\ n \in Nat  BY DEF TableInv, TypesOK, IsSeq, Depth
<1>2. Len(t.entries) = n + 1 /\ (\A e \in 1 .. n : t.entries[e] = s.entries[e]) /\ t.entries[n + 1] = x /\ Depth(t) = K
  BY DEF Added
<1>3. /\ TypesOK(s) /\ Homes(s) /\ Stale(s) /\ Folded(s) /\ ClassesOK(s)
      /\ Mids(s) /\ Tops(s) /\ Taken(s) /\ Unplaced(s) /\ Apart(s)
  BY DEF TableInv
<1>4. TypesOK(t)  BY <1>3, AddedTypes
<1>5. ASSUME NEW k \in 1 .. K
      PROVE  /\ Ns(t, k) = Ns(s, k)
             /\ \A jd \in DOMAIN Sym(t, k) :
                   \/ jd \in DOMAIN Sym(s, k) /\ Sym(t, k)[jd] = Sym(s, k)[jd]
                   \/ k = K /\ jd = id /\ Sym(t, k)[jd] = n + 1
             /\ \A jd \in DOMAIN Sym(s, k) : jd \in DOMAIN Sym(t, k) /\ Sym(t, k)[jd] = Sym(s, k)[jd]
             /\ \A f \in DOMAIN Cas(t, k) :
                   \/ f \in DOMAIN Cas(s, k) /\ Cas(t, k)[f] = Cas(s, k)[f]
                   \/ k = K /\ CaseIns /\ f = Fold[id] /\ Cas(t, k)[f] = n + 1
             /\ \A f \in DOMAIN Cas(s, k) : f \in DOMAIN Cas(t, k) /\ Cas(t, k)[f] = Cas(s, k)[f]
             /\ \A e \in Knows(t, k) : e \in Knows(s, k) \/ (k = K /\ e = n + 1)
             /\ \A e \in Range(Sym(s, k)) : e \in Range(Sym(t, k))
             /\ \A e \in Range(Cas(t, k)) : e \in Range(Cas(s, k)) \/ (k = K /\ e = n + 1)
             /\ k = K => id \in DOMAIN Sym(t, k) /\ Sym(t, k)[id] = n + 1 /\ n + 1 \in Range(Sym(t, k))
                         /\ (CaseIns => Fold[id] \in DOMAIN Cas(t, k) /\ Cas(t, k)[Fold[id]] = n + 1)
  BY <1>3, AddedNames
<1>6. \A k \in 1 .. K : \A e \in Knows(s, k) : e \in 1 .. n  BY <1>3, KnownIs
<1>7. /\ IsEntry(x) /\ x.name = id /\ x.home = Ns(s, K) /\ x.offset = None
      /\ K = 1 => x.scope = "global"
      /\ x.declared => x.class \in {"var", "label", "sub"}
      /\ x.class = "sub" => x.declared
      /\ ClassOf(x) = "unknown" => \A j \in 1 .. K : Get(s.table[j], id) = None
      /\ ~IsSet(x) => Get(s.table[1], id) = None
  BY DEF Addable
<1>8. \A k \in 1 .. K : k # K => \A jd : Get(t.table[k], jd) = Get(s.table[k], jd)  BY <1>3, AddedGets
<1>9. \A k \in 1 .. K : \A jd \in DOMAIN Sym(s, k) : Sym(s, k)[jd] \in 1 .. n  BY <1>6 DEF Knows, Range
<1>9a. \A k \in 1 .. K : \A f \in DOMAIN Cas(s, k) : Cas(s, k)[f] \in 1 .. n  BY <1>6 DEF Knows, Range
<1>10. \A k \in 2 .. K : k \in 1 .. K  OBVIOUS
<1>11. 1 \in 1 .. K /\ (1 = K \/ 1 # K) /\ \A k \in 2 .. K : K # 1  BY <1>1
<1>12. \A e \in 1 .. n + 1 : e \in 1 .. n \/ e = n + 1  BY <1>1
<1>13. n + 1 \notin 1 .. n /\ n <= n + 1 /\ \A e \in 1 .. n : e \in 1 .. n + 1  BY <1>1
<1> HIDE DEF K, n
<1>14. Homes(t)
  <2>1. ASSUME NEW k \in 2 .. K, NEW e \in Knows(t, k) PROVE t.entries[e].home = Ns(t, k)
    <3>1. CASE e \in Knows(s, k)
      <4>1. s.entries[e].home = Ns(s, k)  BY <1>3, <3>1 DEF Homes, K
      <4> QED  BY <1>2, <1>5, <1>6, <1>10, <3>1, <4>1
    <3>2. CASE k = K /\ e = n + 1  BY <1>2, <1>5, <1>7, <1>10, <3>2
    <3> QED  BY <1>5, <1>10, <2>1, <3>1, <3>2
  <2>2. ASSUME NEW e \in Knows(t, 1) PROVE t.entries[e].scope = "global"
    <3>1. CASE e \in Knows(s, 1)
      <4>1. s.entries[e].scope = "global"  BY <1>3, <3>1 DEF Homes
      <4> QED  BY <1>2, <1>6, <1>11, <3>1, <4>1
    <3>2. CASE 1 = K /\ e = n + 1  BY <1>2, <1>7, <3>2
    <3> QED  BY <1>5, <1>11, <2>2, <3>1, <3>2
  <2> QED  BY <1>2, <2>1, <2>2 DEF Homes
<1>15. Stale(t)
  <2>1. ASSUME NEW k \in 2 .. K, NEW e \in Range(Cas(t, k)) PROVE e \in Range(Sym(t, k)) \/ t.entries[e].scope = "global"
    <3>1. CASE e \in Range(Cas(s, k))
      <4>1. e \in Range(Sym(s, k)) \/ s.entries[e].scope = "global"  BY <1>3, <3>1 DEF Stale, K
      <4>2. e \in 1 .. n  BY <1>6, <1>10, <3>1 DEF Knows
      <4> QED  BY <1>2, <1>5, <1>10, <4>1, <4>2
    <3>2. CASE k = K /\ e = n + 1  BY <1>5, <1>10, <3>2
    <3> QED  BY <1>5, <1>10, <2>1, <3>1, <3>2
  <2> QED  BY <1>2, <2>1 DEF Stale
<1>16. Folded(t)
  <2>1. ASSUME CaseIns, NEW k \in 1 .. K, NEW jd \in DOMAIN Sym(t, k) PROVE Fold[jd] \in DOMAIN Cas(t, k)
    <3>1. CASE jd \in DOMAIN Sym(s, k)
      <4>1. Fold[jd] \in DOMAIN Cas(s, k)  BY <1>3, <2>1, <3>1 DEF Folded, K
      <4> QED  BY <1>5, <4>1
    <3>2. CASE k = K /\ jd = id  BY <1>5, <2>1, <3>2
    <3> QED  BY <1>5, <2>1, <3>1, <3>2
  <2>2. ASSUME CaseIns, NEW k \in 2 .. K, NEW jd \in DOMAIN Sym(t, k) PROVE Cas(t, k)[Fold[jd]] = Sym(t, k)[jd]
    <3>1. CASE jd \in DOMAIN Sym(s, k)
      <4>1. Fold[jd] \in DOMAIN Cas(s, k) /\ Cas(s, k)[Fold[jd]] = Sym(s, k)[jd]
        BY <1>3, <1>10, <2>2, <3>1 DEF Folded, K
      <4> QED  BY <1>5, <1>10, <3>1, <4>1
    <3>2. CASE k = K /\ jd = id  BY <1>5, <1>10, <2>2, <3>2
    <3> QED  BY <1>5, <1>10, <2>2, <3>1, <3>2
  <2> QED  BY <1>2, <2>1, <2>2 DEF Folded
<1>17. ClassesOK(t)
  <2>1. \A e \in 1 .. n : (s.entries[e].declared => s.entries[e].class \in {"var", "label", "sub"})
                          /\ (s.entries[e].class = "sub" => s.entries[e].declared)
    BY <1>3 DEF ClassesOK, n
  <2> QED  BY <1>2, <1>7, <1>12, <2>1 DEF ClassesOK
<1>18. Mids(t)
  <2>1. SUFFICES ASSUME NEW k \in 2 .. K, NEW jd \in DOMAIN Sym(t, k),
                        ClassOf(t.entries[Sym(t, k)[jd]]) = "unknown" /\ ~ t.entries[Sym(t, k)[jd]].declared,
                        NEW j \in 2 .. k - 1
                 PROVE  Get(t.table[j], jd) = None
    BY <1>2 DEF Mids
  <2>2. j \in 1 .. K /\ j # K  BY <1>1 DEF K
  <2>3. Get(t.table[j], jd) = Get(s.table[j], jd)  BY <1>8, <2>2
  <2>4. CASE jd \in DOMAIN Sym(s, k) /\ Sym(t, k)[jd] = Sym(s, k)[jd]
    <3>1. t.entries[Sym(t, k)[jd]] = s.entries[Sym(s, k)[jd]]  BY <1>2, <1>9, <1>10, <2>4
    <3> QED  BY <1>3, <2>1, <2>3, <2>4, <3>1 DEF Mids, K
  <2>5. CASE k = K /\ jd = id /\ Sym(t, k)[jd] = n + 1
    <3>1. ClassOf(x) = "unknown"  BY <1>2, <2>1, <2>5
    <3> QED  BY <1>7, <2>2, <2>3, <2>5, <3>1
  <2> QED  BY <1>5, <1>10, <2>4, <2>5
<1>19. Tops(t)
  <2>1. SUFFICES ASSUME NEW k \in 2 .. K, NEW jd \in DOMAIN Sym(t, k),
                        ClassOf(t.entries[Sym(t, k)[jd]]) \in {"unknown", "label"} /\ ~ t.entries[Sym(t, k)[jd]].declared
                 PROVE  /\ jd \in DOMAIN Sym(t, 1) => IsLabel(t, Sym(t, 1)[jd])
                        /\ Fold[jd] \in DOMAIN Cas(t, 1) => IsLabel(t, Cas(t, 1)[Fold[jd]])
    BY <1>2 DEF Tops
  <2>2. /\ jd \in DOMAIN Sym(t, 1) => jd \in DOMAIN Sym(s, 1) /\ Sym(t, 1)[jd] = Sym(s, 1)[jd]
        /\ Fold[jd] \in DOMAIN Cas(t, 1) => Fold[jd] \in DOMAIN Cas(s, 1) /\ Cas(t, 1)[Fold[jd]] = Cas(s, 1)[Fold[jd]]
    BY <1>5, <1>11
  <2>3. CASE jd \in DOMAIN Sym(s, k) /\ Sym(t, k)[jd] = Sym(s, k)[jd]
    <3>1. t.entries[Sym(t, k)[jd]] = s.entries[Sym(s, k)[jd]]  BY <1>2, <1>9, <1>10, <2>3
    <3>2. /\ jd \in DOMAIN Sym(s, 1) => IsLabel(s, Sym(s, 1)[jd])
          /\ Fold[jd] \in DOMAIN Cas(s, 1) => IsLabel(s, Cas(s, 1)[Fold[jd]])
      BY <1>3, <2>1, <2>3, <3>1 DEF Tops, K
    <3> QED  BY <1>2, <1>9, <1>9a, <1>11, <2>2, <3>2 DEF IsLabel
  <2>4. CASE k = K /\ jd = id /\ Sym(t, k)[jd] = n + 1
    <3>1. ~IsSet(x)  BY <1>2, <2>1, <2>4 DEF IsSet
    <3>2. Get(s.table[1], id) = None  BY <1>7, <3>1
    <3>3. id \notin DOMAIN Sym(s, 1) /\ Fold[id] \notin DOMAIN Cas(s, 1)  BY <1>3, <1>11, <3>2, KnownIs DEF K
    <3> QED  BY <2>2, <2>4, <3>3
  <2> QED  BY <1>5, <1>10, <2>3, <2>4
<1>20. Taken(t)
  <2>1. SUFFICES ASSUME NEW k \in 1 .. K, NEW jd \in Names, Used(t, Child(Ns(t, k), jd)) PROVE Held(t, k, jd)
    BY <1>2 DEF Taken
  <2>2. Used(s, Child(Ns(s, k), jd))  BY <1>3, <1>5, <2>1, AddedUsed
  <2>3. Held(s, k, jd)  BY <1>3, <2>2 DEF Taken, K
  <2> QED  BY <1>3, <2>3, AddedHeld DEF K
<1>21. Unplaced(t)
  <2>1. \A k \in 2 .. K : \A e \in 1 .. n : s.entries[e].home = Ns(s, k) => s.entries[e].offset = None
    BY <1>3 DEF Unplaced, K, n
  <2>2. \A k \in 2 .. K : Ns(t, k) = Ns(s, k)  BY <1>5, <1>10
  <2> QED  BY <1>2, <1>7, <1>12, <2>1, <2>2 DEF Unplaced
<1>22. Apart(t)
  <2>1. \A e \in Placed(t) : e \in Placed(s) /\ t.entries[e] = s.entries[e]
    BY <1>2, <1>7, <1>12 DEF Placed, n
  <2>2. \A e \in Placed(t) : Cells(t, e) = Cells(s, e)  BY <2>1 DEF Cells
  <2> QED  BY <1>3, <2>1, <2>2 DEF Apart
<1>23. Keeps(s, t)
  <2>1. SUFFICES ASSUME NEW e \in 1 .. n, Awaits(s, e) PROVE Awaits(t, e)
    BY <1>2, <1>13 DEF Keeps, n
  <2>2. t.entries[e] = s.entries[e]  BY <1>2
  <2>3. \A k \in 2 .. K : e \in Range(Sym(s, k)) => e \in Range(Sym(t, k))  BY <1>5, <1>10
  <2> QED  BY <1>2, <2>1, <2>2, <2>3 DEF Awaits, K
<1> QED  BY <1>4, <1>14, <1>15, <1>16, <1>17, <1>18, <1>19, <1>20, <1>21, <1>22, <1>23 DEF Good, TableInv

---------------------------------------------------------------------------
(* Entries that change.                                                     *)
Tentative(e) == ClassOf(e) \in {"unknown", "label"} /\ ~ e.declared
Revised(x, y) ==
    \/ y = x
    \/ /\ IsEntry(y) /\ y.name = x.name /\ y.home = x.home /\ y.offset = x.offset
       /\ y.scope = x.scope \/ y.scope = "global"
       /\ Loose(x)
       /\ y.declared => y.class \in {"var", "label", "sub"}
       /\ y.class = "sub" => y.declared
       /\ ClassOf(y) = "unknown" /\ ~ y.declared => ClassOf(x) = "unknown" /\ ~ x.declared
       /\ Tentative(y) => Tentative(x)
       /\ x.class = "label" => y.class = "label"
       /\ IsSet(x) => IsSet(y)
       /\ x.accessed => y.accessed
       /\ x.fixed => y.fixed
       /\ y.class \notin {"label", "sub"} => x.class \notin {"label", "sub"}
Redone(s, t) ==
    /\ t = [table |-> t.table, entries |-> t.entries]
    /\ IsSeq(t.table) /\ Depth(t) = Depth(s) /\ IsSeq(t.entries) /\ Len(t.entries) = Len(s.entries)
    /\ \A k \in 1 .. Depth(s) :
          IsScope(t.table[k]) /\ Ns(t, k) = Ns(s, k) /\ Sym(t, k) = Sym(s, k) /\ Cas(t, k) = Cas(s, k)
    /\ \A e \in 1 .. Len(s.entries) : Revised(s.entries[e], t.entries[e])

\* A change to an entry that is allowed keeps it an entry of its place.
LEMMA RevisedIs ==
    ASSUME NEW x, NEW y, Revised(x, y), IsEntry(x),
           x.declared => x.class \in {"var", "label", "sub"}, x.class = "sub" => x.declared
    PROVE  /\ IsEntry(y) /\ y.name = x.name /\ y.home = x.home /\ y.offset = x.offset
           /\ y.scope = x.scope \/ y.scope = "global"
           /\ y = x \/ Loose(x)
           /\ y.declared => y.class \in {"var", "label", "sub"}
           /\ y.class = "sub" => y.declared
           /\ ClassOf(y) = "unknown" /\ ~ y.declared => ClassOf(x) = "unknown" /\ ~ x.declared
           /\ Tentative(y) => Tentative(x)
           /\ x.class = "label" => y.class = "label"
           /\ IsSet(x) => IsSet(y)
           /\ x.accessed => y.accessed
           /\ x.fixed => y.fixed
           /\ y.class \notin {"label", "sub"} => x.class \notin {"label", "sub"}
BY Zenon DEF Revised

\* Changes of what the entries are keep the table right.
LEMMA RedoneKeeps ==
    ASSUME NEW s, TableInv(s), NEW t, Redone(s, t)
    PROVE  Good(s, t)
<1> DEFINE K == Depth(s)
           n == Len(s.entries)
<1>1. K \in 1 .. K /\ K \in Nat \ {0} /\ n \in Nat  BY DEF TableInv, TypesOK, IsSeq, Depth
<1>2. /\ t = [table |-> t.table, entries |-> t.entries]
      /\ IsSeq(t.table) /\ Depth(t) = K /\ IsSeq(t.entries) /\ Len(t.entries) = n
  BY DEF Redone
<1>3. /\ TypesOK(s) /\ Homes(s) /\ Stale(s) /\ Folded(s) /\ ClassesOK(s)
      /\ Mids(s) /\ Tops(s) /\ Taken(s) /\ Unplaced(s) /\ Apart(s)
  BY DEF TableInv
<1>4. \A k \in 1 .. K : IsScope(t.table[k]) /\ Ns(t, k) = Ns(s, k) /\ Sym(t, k) = Sym(s, k) /\ Cas(t, k) = Cas(s, k)
  BY DEF Redone
<1>5. ASSUME NEW e \in 1 .. n
      PROVE  LET x == s.entries[e]
                 y == t.entries[e]
             IN  /\ IsEntry(y) /\ y.name = x.name /\ y.home = x.home /\ y.offset = x.offset
                 /\ y.scope = x.scope \/ y.scope = "global"
                 /\ y = x \/ Loose(x)
                 /\ y.declared => y.class \in {"var", "label", "sub"}
                 /\ y.class = "sub" => y.declared
                 /\ ClassOf(y) = "unknown" /\ ~ y.declared => ClassOf(x) = "unknown" /\ ~ x.declared
                 /\ Tentative(y) => Tentative(x)
                 /\ x.class = "label" => y.class = "label"
                 /\ IsSet(x) => IsSet(y)
                 /\ x.accessed => y.accessed
                 /\ x.fixed => y.fixed
                 /\ y.class \notin {"label", "sub"} => x.class \notin {"label", "sub"}
  <2>1. Revised(s.entries[e], t.entries[e])  BY DEF Redone
  <2>2. IsEntry(s.entries[e])  BY <1>3 DEF TypesOK
  <2>3. (s.entries[e].declared => s.entries[e].class \in {"var", "label", "sub"})
        /\ (s.entries[e].class = "sub" => s.entries[e].declared)
    BY <1>3 DEF ClassesOK
  <2> QED  BY <2>1, <2>2, <2>3, RevisedIs
<1>6. \A k \in 1 .. K : Knows(t, k) = Knows(s, k)  BY <1>4 DEF Knows
<1>7. \A k \in 1 .. K : \A e \in Knows(s, k) : e \in 1 .. n  BY <1>3, KnownIs
<1>8. \A k \in 1 .. K : \A jd : Get(t.table[k], jd) = Get(s.table[k], jd)  BY <1>4 DEF Get, Sym, Cas
<1>9. \A k \in 1 .. K : \A jd \in DOMAIN Sym(s, k) : Sym(s, k)[jd] \in 1 .. n  BY <1>7 DEF Knows, Range
<1>10. \A k \in 1 .. K : \A f \in DOMAIN Cas(s, k) : Cas(s, k)[f] \in 1 .. n  BY <1>7 DEF Knows, Range
<1>11. 1 \in 1 .. K /\ \A k \in 2 .. K : k \in 1 .. K  BY <1>1
<1> HIDE DEF K, n
<1>12. TypesOK(t)
  <2>1. \A k \in 1 .. K :
           /\ IsSeq(Ns(s, k)) /\ Len(Ns(s, k)) = 2 * (k - 1)
           /\ \A jd \in DOMAIN Sym(s, k) : jd \in Names /\ Sym(s, k)[jd] \in 1 .. n /\ s.entries[Sym(s, k)[jd]].name = jd
           /\ \A f \in DOMAIN Cas(s, k) : CaseIns /\ Cas(s, k)[f] \in 1 .. n
    BY <1>3 DEF TypesOK, K, n
  <2>2. \A k \in 1 .. K :
           /\ IsSeq(Ns(t, k)) /\ Len(Ns(t, k)) = 2 * (k - 1)
           /\ \A jd \in DOMAIN Sym(t, k) : jd \in Names /\ Sym(t, k)[jd] \in 1 .. n /\ t.entries[Sym(t, k)[jd]].name = jd
           /\ \A f \in DOMAIN Cas(t, k) : CaseIns /\ Cas(t, k)[f] \in 1 .. n
    BY <1>4, <1>5, <2>1
  <2>3. K # 0  BY <1>1
  <2> QED  BY <1>2, <1>4, <1>5, <2>2, <2>3 DEF TypesOK
<1>13. Homes(t)
  <2>1. \A k \in 2 .. K : \A e \in Knows(s, k) : s.entries[e].home = Ns(s, k)  BY <1>3 DEF Homes, K
  <2>2. \A e \in Knows(s, 1) : s.entries[e].scope = "global"  BY <1>3 DEF Homes
  <2>3. \A k \in 2 .. K : \A e \in Knows(t, k) : t.entries[e].home = Ns(t, k)
    BY <1>4, <1>5, <1>6, <1>7, <1>11, <2>1
  <2>4. \A e \in Knows(t, 1) : t.entries[e].scope = "global"
    BY <1>5, <1>6, <1>7, <1>11, <2>2
  <2> QED  BY <1>2, <2>3, <2>4 DEF Homes
<1>14. Stale(t)
  <2>1. SUFFICES ASSUME NEW k \in 2 .. K, NEW e \in Range(Cas(t, k))
                 PROVE  e \in Range(Sym(t, k)) \/ t.entries[e].scope = "global"
    BY <1>2 DEF Stale
  <2>2. e \in Range(Cas(s, k)) /\ e \in 1 .. n  BY <1>4, <1>7, <1>11, <2>1 DEF Knows
  <2>3. e \in Range(Sym(s, k)) \/ s.entries[e].scope = "global"  BY <1>3, <2>2 DEF Stale, K
  <2> QED  BY <1>4, <1>5, <1>11, <2>2, <2>3
<1>15. Folded(t)  BY <1>2, <1>3, <1>4, <1>11 DEF Folded, K
<1>16. ClassesOK(t)  BY <1>2, <1>5 DEF ClassesOK
<1>17. Mids(t)
  <2>1. SUFFICES ASSUME NEW k \in 2 .. K, NEW jd \in DOMAIN Sym(t, k),
                        ClassOf(t.entries[Sym(t, k)[jd]]) = "unknown" /\ ~ t.entries[Sym(t, k)[jd]].declared,
                        NEW j \in 2 .. k - 1
                 PROVE  Get(t.table[j], jd) = None
    BY <1>2 DEF Mids
  <2>2. j \in 1 .. K  BY <1>1 DEF K
  <2>3. Sym(t, k) = Sym(s, k) /\ Sym(s, k)[jd] \in 1 .. n  BY <1>4, <1>9, <1>11
  <2>4. ClassOf(s.entries[Sym(s, k)[jd]]) = "unknown" /\ ~ s.entries[Sym(s, k)[jd]].declared  BY <1>5, <2>1, <2>3
  <2>5. Get(s.table[j], jd) = None  BY <1>3, <2>3, <2>4 DEF Mids, K
  <2> QED  BY <1>8, <2>2, <2>5
<1>18. Tops(t)
  <2>1. SUFFICES ASSUME NEW k \in 2 .. K, NEW jd \in DOMAIN Sym(t, k), Tentative(t.entries[Sym(t, k)[jd]])
                 PROVE  /\ jd \in DOMAIN Sym(t, 1) => IsLabel(t, Sym(t, 1)[jd])
                        /\ Fold[jd] \in DOMAIN Cas(t, 1) => IsLabel(t, Cas(t, 1)[Fold[jd]])
    BY <1>2 DEF Tops, Tentative
  <2>2. Sym(t, k) = Sym(s, k) /\ Sym(s, k)[jd] \in 1 .. n  BY <1>4, <1>9, <1>11
  <2>3. Tentative(s.entries[Sym(s, k)[jd]])  BY <1>5, <2>1, <2>2
  <2>4. /\ jd \in DOMAIN Sym(s, 1) => IsLabel(s, Sym(s, 1)[jd])
        /\ Fold[jd] \in DOMAIN Cas(s, 1) => IsLabel(s, Cas(s, 1)[Fold[jd]])
    BY <1>3, <2>2, <2>3 DEF Tops, Tentative, K
  <2>5. Sym(t, 1) = Sym(s, 1) /\ Cas(t, 1) = Cas(s, 1)  BY <1>4, <1>11
  <2>6. \A e \in 1 .. n : IsLabel(s, e) => IsLabel(t, e)  BY <1>5 DEF IsLabel
  <2> QED  BY <1>9, <1>10, <1>11, <2>4, <2>5, <2>6
<1>19. Taken(t)
  <2>1. SUFFICES ASSUME NEW k \in 1 .. K, NEW jd \in Names, Used(t, Child(Ns(t, k), jd)) PROVE Held(t, k, jd)
    BY <1>2 DEF Taken
  <2>2. Ns(t, k) = Ns(s, k)  BY <1>4
  <2>3. Used(s, Child(Ns(s, k), jd))
    <3>1. CASE \E e \in 1 .. n : Starts(Child(Ns(s, k), jd), t.entries[e].home)
      BY <1>5, <3>1 DEF Used, n
    <3>2. CASE \E i \in 1 .. K : Starts(Child(Ns(s, k), jd), Ns(t, i))
      BY <1>4, <3>2 DEF Used, K
    <3> QED  BY <1>2, <2>1, <2>2, <3>1, <3>2 DEF Used
  <2>4. Held(s, k, jd)  BY <1>3, <2>3 DEF Taken, K
  <2>5. PICK j \in 1 .. k :
           /\ Get(s.table[j], jd) # None
           /\ \A i \in j + 1 .. k : Get(s.table[i], jd) = None
           /\ s.entries[Get(s.table[j], jd)].declared
           /\ s.entries[Get(s.table[j], jd)].class \in {"sub", "var"}
    BY <2>4 DEF Held
  <2>6. j \in 1 .. K /\ \A i \in j + 1 .. k : i \in 1 .. K  BY <1>1 DEF K
  <2>7. Get(s.table[j], jd) \in 1 .. n  BY <1>3, <1>7, <2>5, <2>6, KnownIs DEF K
  <2>8. IsSet(s.entries[Get(s.table[j], jd)])  BY <2>5 DEF IsSet
  <2>9. IsSet(t.entries[Get(t.table[j], jd)])  BY <1>5, <1>8, <2>6, <2>7, <2>8
  <2>10. Get(t.table[j], jd) # None /\ \A i \in j + 1 .. k : Get(t.table[i], jd) = None  BY <1>8, <2>5, <2>6
  <2> QED  BY <2>9, <2>10 DEF Held, IsSet
<1>20. Unplaced(t)
  <2>1. \A k \in 2 .. K : \A e \in 1 .. n : s.entries[e].home = Ns(s, k) => s.entries[e].offset = None
    BY <1>3 DEF Unplaced, K, n
  <2>2. \A k \in 2 .. K : Ns(t, k) = Ns(s, k)  BY <1>4, <1>11
  <2> QED  BY <1>2, <1>5, <2>1, <2>2 DEF Unplaced
<1>21. Apart(t)
  <2>1. \A e \in Placed(t) : e \in Placed(s) /\ t.entries[e] = s.entries[e]
    <3>1. SUFFICES ASSUME NEW e \in 1 .. n, Resident(t.entries[e]), t.entries[e].offset # None
                   PROVE  e \in Placed(s) /\ t.entries[e] = s.entries[e]
      BY <1>2 DEF Placed
    <3>2. CASE t.entries[e] = s.entries[e]  BY <3>1, <3>2 DEF Placed, n
    <3>3. CASE Loose(s.entries[e])
      <4>1. t.entries[e].offset = s.entries[e].offset /\ (t.entries[e].scope = s.entries[e].scope \/ t.entries[e].scope = "global")
        BY <1>5
      <4> QED  BY <3>1, <3>3, <4>1 DEF Loose, Resident
    <3> QED  BY <1>5, <3>2, <3>3
  <2>2. \A e \in Placed(t) : Cells(t, e) = Cells(s, e)  BY <2>1 DEF Cells
  <2> QED  BY <1>3, <2>1, <2>2 DEF Apart
<1>22. Keeps(s, t)
  <2>1. SUFFICES ASSUME NEW e \in 1 .. n, Awaits(s, e) PROVE Awaits(t, e)
    <3>1. n <= Len(t.entries)  BY <1>1, <1>2 DEF n
    <3> QED  BY <3>1 DEF Keeps, n
  <2>2. LET x == s.entries[e]
            y == t.entries[e]
        IN  /\ y.offset = x.offset
            /\ y.scope = x.scope \/ y.scope = "global"
            /\ x.accessed => y.accessed
            /\ x.fixed => y.fixed
            /\ y.class \notin {"label", "sub"} => x.class \notin {"label", "sub"}
    BY <1>5
  <2>3. \A k \in 2 .. K : Sym(t, k) = Sym(s, k)  BY <1>4, <1>11
  <2> QED  BY <1>2, <2>1, <2>2, <2>3 DEF Awaits, K
<1> QED  BY <1>12, <1>13, <1>14, <1>15, <1>16, <1>17, <1>18, <1>19, <1>20, <1>21, <1>22 DEF Good, TableInv

---------------------------------------------------------------------------
(* Entries that move to the global scope.                                   *)
Movable(s, id) ==
    /\ Depth(s) # 1
    /\ id \in DOMAIN Sym(s, Depth(s))
    /\ Tentative(s.entries[Sym(s, Depth(s))[id]])

\* What an entry is when its scope is the global one.
Globalized(x, y) ==
    /\ IsEntry(y) /\ y.name = x.name /\ y.class = x.class /\ y.declared = x.declared /\ y.accessed = x.accessed
    /\ y.home = x.home /\ y.fixed = x.fixed /\ y.scope = "global" /\ y.offset = None

\* What the table is when an entry e has moved.
Moved(s, id, e, t) ==
    /\ t = [table |-> t.table, entries |-> t.entries]
    /\ IsSeq(t.table) /\ Depth(t) = Depth(s) /\ IsSeq(t.entries) /\ Len(t.entries) = Len(s.entries)
    /\ e \in 1 .. Len(s.entries)
    /\ \A d \in 1 .. Len(s.entries) : d # e => t.entries[d] = s.entries[d]
    /\ Globalized(s.entries[e], t.entries[e])
    /\ \A k \in 2 .. Depth(s) : k # Depth(s) => t.table[k] = s.table[k]
    /\ \A k \in 1 .. Depth(s) : IsScope(t.table[k]) /\ Ns(t, k) = Ns(s, k)
    /\ Puts(Sym(s, 1), Sym(t, 1), id, e)
    /\ CaseIns => Puts(Cas(s, 1), Cas(t, 1), Fold[id], e)
    /\ ~CaseIns => Cas(t, 1) = Cas(s, 1)
    /\ Drops(Sym(s, Depth(s)), Sym(t, Depth(s)), id)
    /\ Drops(Cas(s, Depth(s)), Cas(t, Depth(s)), id)

\* What a change to one field of an entry leaves alone.
LEMMA EntryExcept ==
    ASSUME NEW a, NEW b, NEW c, NEW d, NEW g, NEW h, NEW i, NEW j, NEW k, NEW v,
           NEW x, x = [name |-> a, class |-> b, declared |-> c, accessed |-> d, scope |-> g, home |-> h,
                       fixed |-> i, offset |-> j, mangled |-> k]
    PROVE  /\ [x EXCEPT !.scope = v] =
                 [name |-> a, class |-> b, declared |-> c, accessed |-> d, scope |-> v, home |-> h,
                  fixed |-> i, offset |-> j, mangled |-> k]
           /\ [x EXCEPT !.offset = v] =
                 [name |-> a, class |-> b, declared |-> c, accessed |-> d, scope |-> g, home |-> h,
                  fixed |-> i, offset |-> v, mangled |-> k]
           /\ [x EXCEPT !.mangled = v] =
                 [name |-> a, class |-> b, declared |-> c, accessed |-> d, scope |-> g, home |-> h,
                  fixed |-> i, offset |-> j, mangled |-> v]
OBVIOUS

\* An entry that moves to the global scope changes its scope, offset and mangled name.
LEMMA GlobalizedIs ==
    ASSUME NEW x, IsEntry(x), NEW m
    PROVE  Globalized(x, [x EXCEPT !.scope = "global", !.offset = None, !.mangled = m])
<1>1. PICK a, b, c, d, g, h, i, j, k :
         x = [name |-> a, class |-> b, declared |-> c, accessed |-> d, scope |-> g, home |-> h,
              fixed |-> i, offset |-> j, mangled |-> k]
  BY Zenon DEF IsEntry
<1> DEFINE y == [name |-> a, class |-> b, declared |-> c, accessed |-> d, scope |-> "global", home |-> h,
                 fixed |-> i, offset |-> None, mangled |-> m]
<1>2. [x EXCEPT !.scope = "global", !.offset = None, !.mangled = m] = y
  <2>1. [x EXCEPT !.scope = "global"] =
           [name |-> a, class |-> b, declared |-> c, accessed |-> d, scope |-> "global", home |-> h,
            fixed |-> i, offset |-> j, mangled |-> k]
    BY <1>1, EntryExcept
  <2>2. PICK u : u = [x EXCEPT !.scope = "global"]  OBVIOUS
  <2>3. [u EXCEPT !.offset = None] =
           [name |-> a, class |-> b, declared |-> c, accessed |-> d, scope |-> "global", home |-> h,
            fixed |-> i, offset |-> None, mangled |-> k]
    <3>1. u = [name |-> a, class |-> b, declared |-> c, accessed |-> d, scope |-> "global", home |-> h,
               fixed |-> i, offset |-> j, mangled |-> k]
      BY <2>1, <2>2
    <3> QED  BY ONLY <3>1, EntryExcept
  <2>4. PICK v : v = [u EXCEPT !.offset = None]  OBVIOUS
  <2>5. [v EXCEPT !.mangled = m] = y
    <3>1. v = [name |-> a, class |-> b, declared |-> c, accessed |-> d, scope |-> "global", home |-> h,
               fixed |-> i, offset |-> None, mangled |-> k]
      BY <2>3, <2>4
    <3> QED  BY ONLY <3>1, EntryExcept
  <2>6. [x EXCEPT !.scope = "global", !.offset = None, !.mangled = m] =
        [[[x EXCEPT !.scope = "global"] EXCEPT !.offset = None] EXCEPT !.mangled = m]
    OBVIOUS
  <2> QED  BY <2>2, <2>4, <2>5, <2>6
<1>3. Globalized(x, y)
  <2>1. /\ x.name \in Names /\ x.class \in Classes
        /\ x.declared \in BOOLEAN /\ x.fixed \in BOOLEAN /\ x.accessed \in BOOLEAN
        /\ IsSeq(x.home)
    BY DEF IsEntry
  <2>2. None \in Nat  BY DEF None
  <2>3. x.name = a /\ x.class = b /\ x.declared = c /\ x.accessed = d /\ x.home = h /\ x.fixed = i  BY <1>1
  <2> QED  BY <2>1, <2>2, <2>3 DEF Globalized, IsEntry
<1> QED  BY <1>2, <1>3

\* A move to the global scope, by what it does to the table.
LEMMA MoveIs ==
    ASSUME NEW s, TypesOK(s), NEW id, Movable(s, id)
    PROVE  Moved(s, id, Sym(s, Depth(s))[id], MoveToGlobalScope(s, id))
<1> DEFINE n == Len(s.entries)
           K == Depth(s)
           e == Sym(s, K)[id]
           put == Put(s.table[1], id, e)
           del == Delete(s.table[K], id)
           m == IF s.entries[e].class = "label" THEN s.entries[e].mangled ELSE <<"_", id>>
           y == [s.entries[e] EXCEPT !.scope = "global", !.offset = None, !.mangled = m]
           t == MoveToGlobalScope(s, id)
<1>1. K \in 1 .. K /\ K \in Nat /\ n \in Nat /\ DOMAIN s.table = 1 .. K /\ 1 \in 1 .. K /\ K # 1
      /\ DOMAIN s.entries = 1 .. n
  BY DEF TypesOK, IsSeq, Depth, Movable
<1>2. e \in 1 .. n
  <2>1. id \in DOMAIN Sym(s, K)  BY DEF Movable
  <2> QED  BY <1>1, <2>1 DEF TypesOK
<1>3. /\ t.table = [i \in DOMAIN s.table |-> IF i = 1 THEN put ELSE IF i = Len(s.table) THEN del ELSE s.table[i]]
      /\ t.entries = [s.entries EXCEPT ![e].scope = "global", ![e].offset = None,
                                       ![e].mangled = IF s.entries[e].class = "label" THEN @ ELSE <<"_", id>>]
      /\ t = [table |-> t.table, entries |-> t.entries]
  BY DEF MoveToGlobalScope, Movable, Current, Sym, Depth
<1>4. t.entries = [s.entries EXCEPT ![e] = y]
  BY <1>1, <1>2, <1>3
<1> HIDE DEF t, m
<1>5. Globalized(s.entries[e], y)
  <2>1. IsEntry(s.entries[e])  BY <1>2 DEF TypesOK
  <2> QED  BY <2>1, GlobalizedIs
<1> HIDE DEF y
<1>6. IsSeq(t.entries) /\ Len(t.entries) = n /\ t.entries[e] = y /\ \A d \in 1 .. n : d # e => t.entries[d] = s.entries[d]
  <2>1. PICK S : s.entries \in Seq(S)  BY DEF TypesOK, IsSeq
  <2>2. s.entries \in Seq(S \cup {y})  BY <2>1, SeqMonotonic
  <2> HIDE DEF e
  <2>3. t.entries \in Seq(S \cup {y}) /\ Len(t.entries) = Len(s.entries)  BY <1>1, <1>2, <1>4, <2>2
  <2> QED  BY <1>1, <1>2, <1>4, <2>3 DEF IsSeq
<1> HIDE DEF put, del
<1>6a. t.table = [i \in 1 .. K |-> IF i = 1 THEN put ELSE IF i = K THEN del ELSE s.table[i]]
  BY <1>1, <1>3 DEF Depth
<1>7. t.table[1] = put /\ t.table[K] = del /\ \A k \in 2 .. K : k # K => t.table[k] = s.table[k]
  <2> HIDE DEF K, e, n
  <2> QED  BY <1>1, <1>6a
<1>8. IsSeq(t.table) /\ Len(t.table) = K
  <2>1. PICK S : s.table \in Seq(S)  BY DEF TypesOK, IsSeq
  <2>0. \A k \in 1 .. K : s.table[k] \in S  BY <1>1, <2>1
  <2> HIDE DEF K, e, n
  <2>2. \A k \in 1 .. K : t.table[k] \in S \cup {put, del}  BY <1>6a, <2>0
  <2>3. t.table \in [1 .. K -> S \cup {put, del}]  BY <1>6a, <2>2
  <2>4. t.table \in Seq(S \cup {put, del}) /\ Len(t.table) = K  BY <1>1, <2>3
  <2> QED  BY <2>4 DEF IsSeq
<1>9. IsScope(put) /\ put.ns = s.table[1].ns /\ Puts(s.table[1].symbols, put.symbols, id, e)
      /\ (CaseIns => Puts(s.table[1].caseins, put.caseins, Fold[id], e)) /\ (~CaseIns => put.caseins = s.table[1].caseins)
  <2>1. IsScope(s.table[1])  BY <1>1 DEF TypesOK
  <2> QED  BY <2>1, PutIs, WithIs DEF put
<1>10. IsScope(del) /\ del.ns = s.table[K].ns /\ Drops(s.table[K].symbols, del.symbols, id) /\ Drops(s.table[K].caseins, del.caseins, id)
  <2>1. IsScope(s.table[K])  BY <1>1 DEF TypesOK
  <2> QED  BY <2>1, DeleteIs, WithoutIs DEF del
<1>11. \A k \in 1 .. K : IsScope(t.table[k]) /\ Ns(t, k) = Ns(s, k)
  <2>1. \A k \in 1 .. K : IsScope(s.table[k])  BY DEF TypesOK
  <2>2. \A k \in 1 .. K : k = 1 \/ k = K \/ (k \in 2 .. K /\ k # K)  BY <1>1
  <2> QED  BY <1>7, <1>9, <1>10, <2>1, <2>2 DEF Ns
<1> HIDE DEF e, K, n
<1>12. Puts(Sym(s, 1), Sym(t, 1), id, e) /\ (CaseIns => Puts(Cas(s, 1), Cas(t, 1), Fold[id], e))
       /\ (~CaseIns => Cas(t, 1) = Cas(s, 1)) /\ Drops(Sym(s, K), Sym(t, K), id) /\ Drops(Cas(s, K), Cas(t, K), id)
  BY <1>7, <1>9, <1>10 DEF Sym, Cas
<1>13. Depth(t) = K  BY <1>8 DEF Depth
<1> QED  BY <1>2, <1>3, <1>5, <1>6, <1>7, <1>8, <1>11, <1>12, <1>13 DEF Moved, t, e, K, n

\* What a scope knows after it.
KnowsMoved(s, id, e, t, k) ==
    /\ \A jd \in DOMAIN Sym(t, k) :
          \/ jd \in DOMAIN Sym(s, k) /\ Sym(t, k)[jd] = Sym(s, k)[jd] /\ ~(k = Depth(s) /\ jd = id)
          \/ k = 1 /\ jd = id /\ Sym(t, k)[jd] = e
    /\ \A jd \in DOMAIN Sym(s, k) : jd # id \/ k \notin {1, Depth(s)} => jd \in DOMAIN Sym(t, k) /\ Sym(t, k)[jd] = Sym(s, k)[jd]
    /\ \A f \in DOMAIN Cas(t, k) :
          \/ f \in DOMAIN Cas(s, k) /\ Cas(t, k)[f] = Cas(s, k)[f] /\ ~(k = Depth(s) /\ f = id)
          \/ k = 1 /\ CaseIns /\ f = Fold[id] /\ Cas(t, k)[f] = e
    /\ k # 1 => \A f \in DOMAIN Cas(s, k) : ~(k = Depth(s) /\ f = id) => f \in DOMAIN Cas(t, k) /\ Cas(t, k)[f] = Cas(s, k)[f]
    /\ k = 1 => /\ \A f \in DOMAIN Cas(s, k) : f \in DOMAIN Cas(t, k) /\ (f # Fold[id] => Cas(t, k)[f] = Cas(s, k)[f])
                /\ id \in DOMAIN Sym(t, k) /\ Sym(t, k)[id] = e
                /\ CaseIns => Fold[id] \in DOMAIN Cas(t, k) /\ Cas(t, k)[Fold[id]] = e
    /\ \A d \in Knows(t, k) : d \in Knows(s, k) \/ (k = 1 /\ d = e)
    /\ \A d \in Range(Cas(t, k)) : d \in Range(Cas(s, k)) \/ (k = 1 /\ d = e)
    /\ k # 1 => \A d \in Range(Sym(s, k)) : d \in Range(Sym(t, k)) \/ (k = Depth(s) /\ d = e)

\* What the scopes know after it.
LEMMA MovedNames ==
    ASSUME NEW s, TypesOK(s), NEW id, Movable(s, id), NEW e, e = Sym(s, Depth(s))[id], NEW t, Moved(s, id, e, t),
           NEW k \in 1 .. Depth(s)
    PROVE  KnowsMoved(s, id, e, t, k)
<1> DEFINE K == Depth(s)
           n == Len(s.entries)
<1>1. K # 1  BY DEF Movable
<1>2. CASE k = 1
  <2>1. Puts(Sym(s, k), Sym(t, k), id, e)
        /\ (CaseIns => Puts(Cas(s, k), Cas(t, k), Fold[id], e)) /\ (~CaseIns => Cas(t, k) = Cas(s, k))
    BY <1>2 DEF Moved
  <2>2. \A y \in Range(Sym(t, k)) : y = e \/ y \in Range(Sym(s, k))  BY <2>1, PutsRange
  <2>3. \A y \in Range(Cas(t, k)) : y = e \/ y \in Range(Cas(s, k))
    <3>1. CASE CaseIns  BY <2>1, <3>1, PutsRange
    <3>2. CASE ~CaseIns  BY <2>1, <3>2
    <3> QED  BY <3>1, <3>2
  <2>4. (\A jd \in DOMAIN Sym(t, k) :
           \/ jd \in DOMAIN Sym(s, k) /\ Sym(t, k)[jd] = Sym(s, k)[jd]
           \/ jd = id /\ Sym(t, k)[jd] = e)
        /\ (\A jd \in DOMAIN Sym(s, k) : jd # id => jd \in DOMAIN Sym(t, k) /\ Sym(t, k)[jd] = Sym(s, k)[jd])
        /\ id \in DOMAIN Sym(t, k) /\ Sym(t, k)[id] = e
    BY <2>1 DEF Puts
  <2>5. (\A f \in DOMAIN Cas(t, k) :
           \/ f \in DOMAIN Cas(s, k) /\ Cas(t, k)[f] = Cas(s, k)[f]
           \/ CaseIns /\ f = Fold[id] /\ Cas(t, k)[f] = e)
        /\ (\A f \in DOMAIN Cas(s, k) : f \in DOMAIN Cas(t, k) /\ (f # Fold[id] => Cas(t, k)[f] = Cas(s, k)[f]))
        /\ (CaseIns => Fold[id] \in DOMAIN Cas(t, k) /\ Cas(t, k)[Fold[id]] = e)
    <3>1. CASE CaseIns  BY <2>1, <3>1 DEF Puts
    <3>2. CASE ~CaseIns  BY <2>1, <3>2
    <3> QED  BY <3>1, <3>2
  <2> HIDE DEF K, n
  <2> QED  BY <1>1, <1>2, <2>2, <2>3, <2>4, <2>5 DEF Knows, K, KnowsMoved
<1>3. CASE k # 1 /\ k # K
  <2>1. k \in 2 .. K  BY <1>3 DEF TypesOK, IsSeq, Depth
  <2>2. t.table[k] = s.table[k]  BY <1>3, <2>1 DEF Moved
  <2>3. Sym(t, k) = Sym(s, k) /\ Cas(t, k) = Cas(s, k)  BY <2>2 DEF Sym, Cas
  <2> QED  BY <1>3, <2>3 DEF Knows, KnowsMoved
<1>4. CASE k = K
  <2>1. Drops(Sym(s, k), Sym(t, k), id) /\ Drops(Cas(s, k), Cas(t, k), id) /\ e = Sym(s, k)[id]
    BY <1>4 DEF Moved
  <2>2. (\A y \in Range(Sym(t, k)) : y \in Range(Sym(s, k)))
        /\ \A y \in Range(Sym(s, k)) : y \in Range(Sym(t, k)) \/ y = e
    BY <2>1, DropsRange
  <2>3. \A y \in Range(Cas(t, k)) : y \in Range(Cas(s, k))  BY <2>1, DropsRange
  <2>4. (\A jd \in DOMAIN Sym(t, k) : jd \in DOMAIN Sym(s, k) /\ Sym(t, k)[jd] = Sym(s, k)[jd] /\ jd # id)
        /\ (\A jd \in DOMAIN Sym(s, k) : jd # id => jd \in DOMAIN Sym(t, k) /\ Sym(t, k)[jd] = Sym(s, k)[jd])
        /\ (\A f \in DOMAIN Cas(t, k) : f \in DOMAIN Cas(s, k) /\ Cas(t, k)[f] = Cas(s, k)[f] /\ f # id)
        /\ (\A f \in DOMAIN Cas(s, k) : f # id => f \in DOMAIN Cas(t, k) /\ Cas(t, k)[f] = Cas(s, k)[f])
    BY <2>1 DEF Drops
  <2> HIDE DEF K, n
  <2> QED  BY <1>1, <1>4, <2>2, <2>3, <2>4 DEF Knows, K, KnowsMoved
<1> QED  BY <1>2, <1>3, <1>4

\* What is found in the scopes after it.
GetsMoved(s, e, t) ==
    /\ \A k \in 2 .. Depth(s) : k # Depth(s) => \A jd : Get(t.table[k], jd) = Get(s.table[k], jd)
    /\ \A jd \in Names :
          \/ Get(t.table[Depth(s)], jd) = Get(s.table[Depth(s)], jd)
          \/ Get(t.table[Depth(s)], jd) = None /\ Get(s.table[Depth(s)], jd) = e
    /\ \A jd \in Names :
          \/ Get(t.table[1], jd) = Get(s.table[1], jd)
          \/ Get(t.table[1], jd) = e /\ (Get(s.table[1], jd) = None \/ IsLabel(s, Get(s.table[1], jd)))

\* The names that are found after a move.
LEMMA MovedGets ==
    ASSUME NEW s, TableInv(s), NEW id, Movable(s, id), NEW e, e = Sym(s, Depth(s))[id], NEW t, Moved(s, id, e, t)
    PROVE  GetsMoved(s, e, t)
<1> DEFINE K == Depth(s)
           n == Len(s.entries)
<1>1. K \in 2 .. K /\ K \in 1 .. K /\ 1 \in 1 .. K /\ K # 1 /\ id \in DOMAIN Sym(s, K) /\ Tentative(s.entries[e])
  <2>1. id \in DOMAIN Sym(s, K) /\ Tentative(s.entries[e]) /\ K # 1  BY DEF Movable
  <2>2. K \in Nat \ {0}  BY DEF TableInv, TypesOK, IsSeq, Depth
  <2> HIDE DEF K
  <2> QED  BY <2>1, <2>2
<1>2. TypesOK(s) /\ Folded(s) /\ Tops(s)  BY DEF TableInv
<1>3. \A k, u, jd : Get(u.table[k], jd) = IF jd \in DOMAIN Sym(u, k) THEN Sym(u, k)[jd]
                                          ELSE IF Fold[jd] \in DOMAIN Cas(u, k) THEN Cas(u, k)[Fold[jd]] ELSE None
  BY DEF Get, Sym, Cas
<1>4. \A k \in 2 .. K : k # K => \A jd : Get(t.table[k], jd) = Get(s.table[k], jd)
  BY DEF Moved
<1>5. id \in Names /\ (\A jd \in DOMAIN Sym(s, K) : jd \in Names) /\ (DOMAIN Cas(s, K) # {} => CaseIns)
  BY <1>1, <1>2 DEF TypesOK
<1>6. CaseIns => Fold[id] \in DOMAIN Cas(s, K) /\ Cas(s, K)[Fold[id]] = e
  BY <1>1, <1>2 DEF Folded
<1>7. \A jd \in Names : Fold[jd] = id => Fold[id] = id
  BY <1>5, SymbolTableAssumption DEF SymbolTableAssumption
<1>8. /\ \A jd \in DOMAIN Sym(t, K) : jd \in DOMAIN Sym(s, K) /\ Sym(t, K)[jd] = Sym(s, K)[jd] /\ jd # id
      /\ \A jd \in DOMAIN Sym(s, K) : jd # id => jd \in DOMAIN Sym(t, K) /\ Sym(t, K)[jd] = Sym(s, K)[jd]
      /\ \A f \in DOMAIN Cas(t, K) : f \in DOMAIN Cas(s, K) /\ Cas(t, K)[f] = Cas(s, K)[f] /\ f # id
      /\ \A f \in DOMAIN Cas(s, K) : f # id => f \in DOMAIN Cas(t, K) /\ Cas(t, K)[f] = Cas(s, K)[f]
  BY DEF Moved, Drops
<1>9. /\ DOMAIN Sym(t, 1) = DOMAIN Sym(s, 1) \cup {id} /\ Sym(t, 1)[id] = e
      /\ \A jd \in DOMAIN Sym(s, 1) : jd # id => Sym(t, 1)[jd] = Sym(s, 1)[jd]
      /\ CaseIns => /\ DOMAIN Cas(t, 1) = DOMAIN Cas(s, 1) \cup {Fold[id]} /\ Cas(t, 1)[Fold[id]] = e
                    /\ \A f \in DOMAIN Cas(s, 1) : f # Fold[id] => Cas(t, 1)[f] = Cas(s, 1)[f]
      /\ ~CaseIns => Cas(t, 1) = Cas(s, 1)
  BY DEF Moved, Puts
<1>10. /\ id \in DOMAIN Sym(s, 1) => IsLabel(s, Sym(s, 1)[id])
       /\ Fold[id] \in DOMAIN Cas(s, 1) => IsLabel(s, Cas(s, 1)[Fold[id]])
  BY <1>1, <1>2 DEF Tops, Tentative
<1>11. Sym(s, K)[id] = e  OBVIOUS
<1>12. DOMAIN Cas(s, 1) # {} => CaseIns  BY <1>1, <1>2 DEF TypesOK
<1> HIDE DEF K, n
<1>13. ASSUME NEW jd \in Names
       PROVE  \/ Get(t.table[K], jd) = Get(s.table[K], jd)
              \/ Get(t.table[K], jd) = None /\ Get(s.table[K], jd) = e
  <2>1. CASE jd = id
    <3>1. Get(s.table[K], jd) = e  BY <1>1, <1>3, <1>11, <2>1
    <3>2. jd \notin DOMAIN Sym(t, K)  BY <1>8, <2>1
    <3>3. CASE Fold[jd] \in DOMAIN Cas(t, K)
      <4>1. Fold[jd] \in DOMAIN Cas(s, K) /\ Cas(t, K)[Fold[jd]] = Cas(s, K)[Fold[jd]]  BY <1>8, <3>3
      <4>2. Cas(s, K)[Fold[jd]] = e  BY <1>5, <1>6, <2>1, <4>1
      <4> QED  BY <1>3, <3>1, <3>2, <3>3, <4>1, <4>2
    <3>4. CASE Fold[jd] \notin DOMAIN Cas(t, K)  BY <1>3, <3>1, <3>2, <3>4
    <3> QED  BY <3>3, <3>4
  <2>2. CASE jd # id /\ jd \in DOMAIN Sym(s, K)
    <3>1. jd \in DOMAIN Sym(t, K) /\ Sym(t, K)[jd] = Sym(s, K)[jd]  BY <1>8, <2>2
    <3> QED  BY <1>3, <2>2, <3>1
  <2>3. CASE jd # id /\ jd \notin DOMAIN Sym(s, K) /\ Fold[jd] # id
    <3>1. jd \notin DOMAIN Sym(t, K)  BY <1>8, <2>3
    <3>2. CASE Fold[jd] \in DOMAIN Cas(s, K)
      <4>1. Fold[jd] \in DOMAIN Cas(t, K) /\ Cas(t, K)[Fold[jd]] = Cas(s, K)[Fold[jd]]  BY <1>8, <2>3, <3>2
      <4> QED  BY <1>3, <2>3, <3>1, <3>2, <4>1
    <3>3. CASE Fold[jd] \notin DOMAIN Cas(s, K)
      <4>1. Fold[jd] \notin DOMAIN Cas(t, K)  BY <1>8, <3>3
      <4> QED  BY <1>3, <2>3, <3>1, <3>3, <4>1
    <3> QED  BY <3>2, <3>3
  <2>4. CASE jd # id /\ jd \notin DOMAIN Sym(s, K) /\ Fold[jd] = id
    <3>1. jd \notin DOMAIN Sym(t, K)  BY <1>8, <2>4
    <3>2. Fold[jd] \notin DOMAIN Cas(t, K)  BY <1>8, <2>4
    <3>3. Get(t.table[K], jd) = None  BY <1>3, <3>1, <3>2
    <3>4. CASE Fold[jd] \in DOMAIN Cas(s, K)
      <4>1. Get(s.table[K], jd) = Cas(s, K)[Fold[jd]]  BY <1>3, <2>4, <3>4
      <4>2. Fold[jd] = Fold[id] /\ CaseIns  BY <1>5, <1>7, <2>4, <3>4
      <4> QED  BY <1>6, <3>3, <4>1, <4>2
    <3>5. CASE Fold[jd] \notin DOMAIN Cas(s, K)
      <4>1. Get(s.table[K], jd) = None  BY <1>3, <2>4, <3>5
      <4> QED  BY <3>3, <4>1
    <3> QED  BY <3>4, <3>5
  <2> QED  BY <2>1, <2>2, <2>3, <2>4
<1>14. ASSUME NEW jd \in Names
       PROVE  \/ Get(t.table[1], jd) = Get(s.table[1], jd)
              \/ Get(t.table[1], jd) = e /\ (Get(s.table[1], jd) = None \/ IsLabel(s, Get(s.table[1], jd)))
  <2>1. CASE jd = id
    <3>1. Get(t.table[1], jd) = e  BY <1>3, <1>9, <2>1
    <3>2. Get(s.table[1], jd) = None \/ IsLabel(s, Get(s.table[1], jd))  BY <1>3, <1>10, <2>1
    <3> QED  BY <3>1, <3>2
  <2>2. CASE jd # id /\ jd \in DOMAIN Sym(s, 1)
    <3>1. jd \in DOMAIN Sym(t, 1) /\ Sym(t, 1)[jd] = Sym(s, 1)[jd]  BY <1>9, <2>2
    <3> QED  BY <1>3, <2>2, <3>1
  <2>3. CASE jd # id /\ jd \notin DOMAIN Sym(s, 1)
    <3>1. jd \notin DOMAIN Sym(t, 1)  BY <1>9, <2>3
    <3>2. CASE CaseIns /\ Fold[jd] = Fold[id]
      <4>1. Get(t.table[1], jd) = e  BY <1>3, <1>9, <3>1, <3>2
      <4>2. Get(s.table[1], jd) = None \/ IsLabel(s, Get(s.table[1], jd))  BY <1>3, <1>10, <2>3, <3>2
      <4> QED  BY <4>1, <4>2
    <3>3. CASE CaseIns /\ Fold[jd] # Fold[id]
      <4>1. Fold[jd] \in DOMAIN Cas(t, 1) <=> Fold[jd] \in DOMAIN Cas(s, 1)  BY <1>9, <3>3
      <4>2. Fold[jd] \in DOMAIN Cas(s, 1) => Cas(t, 1)[Fold[jd]] = Cas(s, 1)[Fold[jd]]  BY <1>9, <3>3
      <4>3. Get(t.table[1], jd) = IF Fold[jd] \in DOMAIN Cas(t, 1) THEN Cas(t, 1)[Fold[jd]] ELSE None  BY <1>3, <3>1
      <4>4. Get(s.table[1], jd) = IF Fold[jd] \in DOMAIN Cas(s, 1) THEN Cas(s, 1)[Fold[jd]] ELSE None  BY <1>3, <2>3
      <4> QED  BY <4>1, <4>2, <4>3, <4>4
    <3>4. CASE ~CaseIns
      <4>1. Cas(t, 1) = Cas(s, 1)  BY <1>9, <3>4
      <4>3. Get(t.table[1], jd) = IF Fold[jd] \in DOMAIN Cas(t, 1) THEN Cas(t, 1)[Fold[jd]] ELSE None  BY <1>3, <3>1
      <4>4. Get(s.table[1], jd) = IF Fold[jd] \in DOMAIN Cas(s, 1) THEN Cas(s, 1)[Fold[jd]] ELSE None  BY <1>3, <2>3
      <4> QED  BY <4>1, <4>3, <4>4
    <3> QED  BY <3>2, <3>3, <3>4
  <2> QED  BY <2>1, <2>2, <2>3
<1> QED  BY <1>4, <1>13, <1>14 DEF K, GetsMoved

\* A name moves only to where it is not defined: no SUB that has been entered
\* is hidden or lost.
LEMMA MovedHeld ==
    ASSUME NEW s, TableInv(s), NEW id, Movable(s, id), NEW e, e = Sym(s, Depth(s))[id], NEW t, Moved(s, id, e, t),
           NEW k \in 1 .. Depth(s), NEW jd \in Names, Held(s, k, jd)
    PROVE  Held(t, k, jd)
<1> DEFINE K == Depth(s)
           n == Len(s.entries)
<1>1. K \in Nat \ {0} /\ n \in Nat /\ K # 1  BY DEF TableInv, TypesOK, IsSeq, Depth, Movable
<1>2. TypesOK(s)  BY DEF TableInv
<1>3. PICK j \in 1 .. k :
         /\ Get(s.table[j], jd) # None
         /\ \A i \in j + 1 .. k : Get(s.table[i], jd) = None
         /\ s.entries[Get(s.table[j], jd)].declared
         /\ s.entries[Get(s.table[j], jd)].class \in {"sub", "var"}
  BY DEF Held
<1>4. j \in 1 .. K /\ \A i \in j + 1 .. k : i \in 2 .. K  BY <1>1
<1>5. Get(s.table[j], jd) \in 1 .. n  BY <1>2, <1>3, <1>4, KnownIs
<1>6. /\ \A i \in 2 .. K : i # K => \A fd : Get(t.table[i], fd) = Get(s.table[i], fd)
      /\ Get(t.table[K], jd) = Get(s.table[K], jd) \/ (Get(t.table[K], jd) = None /\ Get(s.table[K], jd) = e)
      /\ \/ Get(t.table[1], jd) = Get(s.table[1], jd)
         \/ Get(t.table[1], jd) = e /\ (Get(s.table[1], jd) = None \/ IsLabel(s, Get(s.table[1], jd)))
  <2>1. GetsMoved(s, e, t)  BY MovedGets
  <2> QED  BY <2>1 DEF GetsMoved
<1>7. Tentative(s.entries[e])  BY DEF Movable
<1>8. Get(s.table[j], jd) # e  BY <1>3, <1>7 DEF Tentative
<1>9. ~ IsLabel(s, Get(s.table[j], jd))  BY <1>3 DEF IsLabel
<1>10. \A d \in 1 .. n : d # e => t.entries[d] = s.entries[d]  BY DEF Moved
<1> HIDE DEF K, n
<1>11. Get(t.table[j], jd) = Get(s.table[j], jd)
  <2>1. j = 1 \/ j = K \/ (j \in 2 .. K /\ j # K)  BY <1>1, <1>4
  <2> QED  BY <1>3, <1>6, <1>8, <1>9, <2>1
<1>12. \A i \in j + 1 .. k : Get(t.table[i], jd) = None
  <2>1. SUFFICES ASSUME NEW i \in j + 1 .. k PROVE Get(t.table[i], jd) = None  OBVIOUS
  <2>2. i \in 2 .. K /\ Get(s.table[i], jd) = None  BY <1>3, <1>4
  <2>3. CASE i # K  BY <1>6, <2>2, <2>3
  <2>4. CASE i = K  BY <1>6, <2>2, <2>4
  <2> QED  BY <2>3, <2>4
<1>13. t.entries[Get(s.table[j], jd)] = s.entries[Get(s.table[j], jd)]  BY <1>5, <1>8, <1>10
<1> QED  BY <1>3, <1>11, <1>12, <1>13 DEF Held

\* Moving a name nobody has defined keeps the table right.
LEMMA MoveKeeps ==
    ASSUME NEW s, TableInv(s), NEW id, Movable(s, id), NEW e, e = Sym(s, Depth(s))[id], NEW t, Moved(s, id, e, t)
    PROVE  Good(s, t)
<1> DEFINE K == Depth(s)
           n == Len(s.entries)
<1>1. K \in Nat \ {0} /\ n \in Nat /\ K # 1  BY DEF TableInv, TypesOK, IsSeq, Depth, Movable
<1>2. /\ t = [table |-> t.table, entries |-> t.entries]
      /\ IsSeq(t.table) /\ Depth(t) = K /\ IsSeq(t.entries) /\ Len(t.entries) = n /\ e \in 1 .. n
      /\ \A d \in 1 .. n : d # e => t.entries[d] = s.entries[d]
      /\ Globalized(s.entries[e], t.entries[e])
      /\ \A k \in 1 .. K : IsScope(t.table[k]) /\ Ns(t, k) = Ns(s, k)
  BY DEF Moved
<1>3. /\ TypesOK(s) /\ Homes(s) /\ Stale(s) /\ Folded(s) /\ ClassesOK(s)
      /\ Mids(s) /\ Tops(s) /\ Taken(s) /\ Unplaced(s) /\ Apart(s)
  BY DEF TableInv
<1>4. ASSUME NEW d \in 1 .. n
      PROVE  LET x == s.entries[d]
                 y == t.entries[d]
             IN  /\ IsEntry(y) /\ y.name = x.name /\ y.class = x.class /\ y.declared = x.declared
                 /\ y.accessed = x.accessed /\ y.home = x.home /\ y.fixed = x.fixed
                 /\ y.scope = x.scope \/ y.scope = "global"
                 /\ y.offset = x.offset \/ y.offset = None
                 /\ y.offset = x.offset \/ y.scope = "global"
                 /\ y = x \/ y.scope = "global"
  <2>1. IsEntry(s.entries[d])  BY <1>3 DEF TypesOK
  <2>2. CASE d # e
    <3>1. t.entries[d] = s.entries[d]  BY <1>2, <2>2
    <3> QED  BY <2>1, <3>1
  <2>3. CASE d = e  BY <1>2, <2>3 DEF Globalized
  <2> QED  BY <2>2, <2>3
<1>5. t.entries[e].scope = "global"  BY <1>2 DEF Globalized
<1>6. ASSUME NEW k \in 1 .. K
      PROVE  /\ \A jd \in DOMAIN Sym(t, k) :
                   \/ jd \in DOMAIN Sym(s, k) /\ Sym(t, k)[jd] = Sym(s, k)[jd] /\ ~(k = K /\ jd = id)
                   \/ k = 1 /\ jd = id /\ Sym(t, k)[jd] = e
             /\ \A jd \in DOMAIN Sym(s, k) : jd # id \/ k \notin {1, K} => jd \in DOMAIN Sym(t, k) /\ Sym(t, k)[jd] = Sym(s, k)[jd]
             /\ \A f \in DOMAIN Cas(t, k) :
                   \/ f \in DOMAIN Cas(s, k) /\ Cas(t, k)[f] = Cas(s, k)[f] /\ ~(k = K /\ f = id)
                   \/ k = 1 /\ CaseIns /\ f = Fold[id] /\ Cas(t, k)[f] = e
             /\ k # 1 => \A f \in DOMAIN Cas(s, k) : ~(k = K /\ f = id) => f \in DOMAIN Cas(t, k) /\ Cas(t, k)[f] = Cas(s, k)[f]
             /\ k = 1 => /\ \A f \in DOMAIN Cas(s, k) : f \in DOMAIN Cas(t, k) /\ (f # Fold[id] => Cas(t, k)[f] = Cas(s, k)[f])
                         /\ id \in DOMAIN Sym(t, k) /\ Sym(t, k)[id] = e
                         /\ CaseIns => Fold[id] \in DOMAIN Cas(t, k) /\ Cas(t, k)[Fold[id]] = e
             /\ \A d \in Knows(t, k) : d \in Knows(s, k) \/ (k = 1 /\ d = e)
             /\ \A d \in Range(Cas(t, k)) : d \in Range(Cas(s, k)) \/ (k = 1 /\ d = e)
             /\ k # 1 => \A d \in Range(Sym(s, k)) : d \in Range(Sym(t, k)) \/ (k = K /\ d = e)
  <2>1. KnowsMoved(s, id, e, t, k)  BY <1>3, MovedNames
  <2> QED  BY <2>1 DEF KnowsMoved
<1>7. \A k \in 1 .. K : \A d \in Knows(s, k) : d \in 1 .. n  BY <1>3, KnownIs
<1>8. \A k \in 1 .. K : \A jd \in DOMAIN Sym(s, k) : Sym(s, k)[jd] \in 1 .. n  BY <1>7 DEF Knows, Range
<1>9. \A k \in 1 .. K : \A f \in DOMAIN Cas(s, k) : Cas(s, k)[f] \in 1 .. n  BY <1>7 DEF Knows, Range
<1>10. 1 \in 1 .. K /\ K \in 2 .. K /\ (\A k \in 2 .. K : k \in 1 .. K /\ k # 1) /\ id \in DOMAIN Sym(s, K) /\ Tentative(s.entries[e])
  <2>1. id \in DOMAIN Sym(s, K) /\ Tentative(s.entries[e])  BY DEF Movable
  <2> HIDE DEF K
  <2> QED  BY <1>1, <2>1
<1>11. \A k \in 1 .. K : \A jd \in DOMAIN Sym(s, k) : jd \in Names /\ s.entries[Sym(s, k)[jd]].name = jd
  BY <1>3 DEF TypesOK
<1>12. e = Sym(s, K)[id]  OBVIOUS
<1>13. \A k \in 2 .. K : k # K => \A jd : Get(t.table[k], jd) = Get(s.table[k], jd)
  <2>1. GetsMoved(s, e, t)  BY MovedGets
  <2> QED  BY <2>1 DEF GetsMoved
<1> HIDE DEF K, n
<1>14. id \in Names /\ s.entries[e].name = id  BY <1>10, <1>11, <1>12
<1>15. ASSUME CaseIns, NEW jd \in DOMAIN Sym(s, K), Fold[jd] = Fold[id] PROVE jd = id
  BY <1>3, <1>10, <1>15, SameFold DEF K
<1>16. TypesOK(t)
  <2>1. \A k \in 1 .. K :
           /\ IsSeq(Ns(s, k)) /\ Len(Ns(s, k)) = 2 * (k - 1)
           /\ \A f \in DOMAIN Cas(s, k) : CaseIns
    BY <1>3 DEF TypesOK, K
  <2>2. ASSUME NEW k \in 1 .. K, NEW jd \in DOMAIN Sym(t, k)
        PROVE  jd \in Names /\ Sym(t, k)[jd] \in 1 .. n /\ t.entries[Sym(t, k)[jd]].name = jd
    <3>1. CASE jd \in DOMAIN Sym(s, k) /\ Sym(t, k)[jd] = Sym(s, k)[jd]  BY <1>4, <1>8, <1>11, <3>1
    <3>2. CASE jd = id /\ Sym(t, k)[jd] = e  BY <1>2, <1>4, <1>14, <3>2
    <3> QED  BY <1>6, <2>2, <3>1, <3>2
  <2>3. ASSUME NEW k \in 1 .. K, NEW f \in DOMAIN Cas(t, k)
        PROVE  CaseIns /\ Cas(t, k)[f] \in 1 .. n
    <3>1. CASE f \in DOMAIN Cas(s, k) /\ Cas(t, k)[f] = Cas(s, k)[f]  BY <1>9, <2>1, <3>1
    <3>2. CASE CaseIns /\ Cas(t, k)[f] = e  BY <1>2, <3>2
    <3> QED  BY <1>6, <2>3, <3>1, <3>2
  <2>4. K # 0  BY <1>1
  <2>5. \A k \in 1 .. K : IsSeq(Ns(t, k)) /\ Len(Ns(t, k)) = 2 * (k - 1)  BY <1>2, <2>1
  <2> QED  BY <1>2, <1>4, <2>2, <2>3, <2>4, <2>5 DEF TypesOK
<1>17. Homes(t)
  <2>1. ASSUME NEW k \in 2 .. K, NEW d \in Knows(t, k) PROVE t.entries[d].home = Ns(t, k)
    <3>1. d \in Knows(s, k)  BY <1>6, <1>10, <2>1
    <3>2. s.entries[d].home = Ns(s, k)  BY <1>3, <3>1 DEF Homes, K
    <3> QED  BY <1>2, <1>4, <1>7, <1>10, <3>1, <3>2
  <2>2. ASSUME NEW d \in Knows(t, 1) PROVE t.entries[d].scope = "global"
    <3>1. CASE d = e  BY <1>5, <3>1
    <3>2. CASE d \in Knows(s, 1)
      <4>1. s.entries[d].scope = "global"  BY <1>3, <3>2 DEF Homes
      <4> QED  BY <1>4, <1>7, <1>10, <3>2, <4>1
    <3> QED  BY <1>6, <1>10, <2>2, <3>1, <3>2
  <2> QED  BY <1>2, <2>1, <2>2 DEF Homes
<1>18. Stale(t)
  <2>1. SUFFICES ASSUME NEW k \in 2 .. K, NEW d \in Range(Cas(t, k))
                 PROVE  d \in Range(Sym(t, k)) \/ t.entries[d].scope = "global"
    BY <1>2 DEF Stale
  <2>2. d \in Range(Cas(s, k))  BY <1>6, <1>10, <2>1
  <2>3. d \in 1 .. n  BY <1>7, <1>10, <2>2 DEF Knows
  <2>4. d \in Range(Sym(s, k)) \/ s.entries[d].scope = "global"  BY <1>3, <2>2 DEF Stale, K
  <2>5. CASE d = e  BY <1>5, <2>5
  <2>6. CASE d # e  BY <1>4, <1>6, <1>10, <2>3, <2>4, <2>6
  <2> QED  BY <2>5, <2>6
<1>19. Folded(t)
  <2>1. ASSUME CaseIns, NEW k \in 1 .. K, NEW jd \in DOMAIN Sym(t, k)
        PROVE  Fold[jd] \in DOMAIN Cas(t, k) /\ (k # 1 => Cas(t, k)[Fold[jd]] = Sym(t, k)[jd])
    <3>1. CASE jd \in DOMAIN Sym(s, k) /\ Sym(t, k)[jd] = Sym(s, k)[jd] /\ ~(k = K /\ jd = id)
      <4>1. Fold[jd] \in DOMAIN Cas(s, k)  BY <1>3, <2>1, <3>1 DEF Folded, K
      <4>2. k # 1 => Cas(s, k)[Fold[jd]] = Sym(s, k)[jd]
        <5>1. k # 1 => k \in 2 .. K  BY <1>1
        <5> QED  BY <1>3, <2>1, <3>1, <5>1 DEF Folded, K
      <4>3. CASE k = 1  BY <1>6, <4>1, <4>3
      <4>4. CASE k # 1
        <5>1. ~(k = K /\ Fold[jd] = id)
          <6>1. SUFFICES ASSUME k = K, Fold[jd] = id PROVE FALSE  OBVIOUS
          <6>2. jd \in Names  BY <1>11, <3>1
          <6>3. Fold[id] = id  BY <1>14, <6>1, <6>2, SymbolTableAssumption DEF SymbolTableAssumption
          <6>4. Fold[jd] = Fold[id]  BY <6>1, <6>3
          <6> QED  BY <1>15, <2>1, <3>1, <6>1, <6>4
        <5> QED  BY <1>6, <3>1, <4>1, <4>2, <4>4, <5>1
      <4> QED  BY <4>3, <4>4
    <3>2. CASE k = 1 /\ jd = id  BY <1>6, <2>1, <3>2
    <3> QED  BY <1>6, <2>1, <3>1, <3>2
  <2> QED  BY <1>2, <1>10, <2>1 DEF Folded
<1>20. ClassesOK(t)
  <2>1. \A d \in 1 .. n : (s.entries[d].declared => s.entries[d].class \in {"var", "label", "sub"})
                          /\ (s.entries[d].class = "sub" => s.entries[d].declared)
    BY <1>3 DEF ClassesOK, n
  <2> QED  BY <1>2, <1>4, <2>1 DEF ClassesOK
<1>21. ASSUME NEW k \in 2 .. K, NEW jd \in DOMAIN Sym(t, k)
       PROVE  jd \in DOMAIN Sym(s, k) /\ Sym(t, k)[jd] = Sym(s, k)[jd] /\ ~(k = K /\ jd = id)
              /\ Sym(s, k)[jd] \in 1 .. n /\ ClassOf(t.entries[Sym(t, k)[jd]]) = ClassOf(s.entries[Sym(s, k)[jd]])
              /\ t.entries[Sym(t, k)[jd]].declared = s.entries[Sym(s, k)[jd]].declared
  <2>1. jd \in DOMAIN Sym(s, k) /\ Sym(t, k)[jd] = Sym(s, k)[jd] /\ ~(k = K /\ jd = id)  BY <1>6, <1>10
  <2>2. Sym(s, k)[jd] \in 1 .. n  BY <1>8, <1>10, <2>1
  <2> QED  BY <1>4, <2>1, <2>2 DEF ClassOf
<1>22. Mids(t)
  <2>1. SUFFICES ASSUME NEW k \in 2 .. K, NEW jd \in DOMAIN Sym(t, k),
                        ClassOf(t.entries[Sym(t, k)[jd]]) = "unknown" /\ ~ t.entries[Sym(t, k)[jd]].declared,
                        NEW j \in 2 .. k - 1
                 PROVE  Get(t.table[j], jd) = None
    BY <1>2 DEF Mids
  <2>2. j \in 2 .. K /\ j # K  BY <1>1 DEF K
  <2>3. Get(s.table[j], jd) = None  BY <1>3, <1>21, <2>1 DEF Mids, K
  <2> QED  BY <1>13, <2>2, <2>3
<1>23. Tops(t)
  <2>1. SUFFICES ASSUME NEW k \in 2 .. K, NEW jd \in DOMAIN Sym(t, k),
                        ClassOf(t.entries[Sym(t, k)[jd]]) \in {"unknown", "label"} /\ ~ t.entries[Sym(t, k)[jd]].declared
                 PROVE  /\ jd \in DOMAIN Sym(t, 1) => IsLabel(t, Sym(t, 1)[jd])
                        /\ Fold[jd] \in DOMAIN Cas(t, 1) => IsLabel(t, Cas(t, 1)[Fold[jd]])
    BY <1>2 DEF Tops
  <2>2. /\ jd \in DOMAIN Sym(s, 1) => IsLabel(s, Sym(s, 1)[jd])
        /\ Fold[jd] \in DOMAIN Cas(s, 1) => IsLabel(s, Cas(s, 1)[Fold[jd]])
    BY <1>3, <1>21, <2>1 DEF Tops, K
  <2>3. \A d \in 1 .. n : IsLabel(s, d) => IsLabel(t, d)  BY <1>4 DEF IsLabel
  <2>4. jd = id \/ (CaseIns /\ Fold[jd] = Fold[id]) => IsLabel(t, e)
    <3>1. SUFFICES ASSUME jd = id \/ (CaseIns /\ Fold[jd] = Fold[id]), ~ IsLabel(t, e) PROVE FALSE  OBVIOUS
    <3>2. ~ IsLabel(s, e)  BY <1>2, <2>3, <3>1
    <3>3. ClassOf(s.entries[e]) = "unknown" /\ ~ s.entries[e].declared
      BY <1>10, <3>2 DEF Tentative, IsLabel, ClassOf
    <3>4. k # K  BY <1>15, <1>21, <3>1
    <3>5. k \in 2 .. K - 1  BY <1>1, <3>4
    <3>6. Get(s.table[k], id) = None  BY <1>3, <1>10, <1>12, <3>3, <3>5 DEF Mids, K
    <3>7. Get(s.table[k], jd) = None
      <4>1. CASE jd = id  BY <3>6, <4>1
      <4>2. CASE CaseIns /\ Fold[jd] = Fold[id]
        BY <1>3, <3>6, <4>2, SameFold DEF K
      <4> QED  BY <3>1, <4>1, <4>2
    <3>8. jd \notin DOMAIN Sym(s, k)
      <4>1. k \in 1 .. Depth(s)  BY <1>10 DEF K
      <4> QED  BY <1>3, <3>7, <4>1, KnownIs
    <3> QED  BY <1>21, <3>8
  <2>5. jd \in DOMAIN Sym(t, 1) => IsLabel(t, Sym(t, 1)[jd])  BY <1>6, <1>8, <1>10, <2>2, <2>3, <2>4
  <2>6. Fold[jd] \in DOMAIN Cas(t, 1) => IsLabel(t, Cas(t, 1)[Fold[jd]])  BY <1>6, <1>9, <1>10, <2>2, <2>3, <2>4
  <2> QED  BY <2>5, <2>6
<1>24. Taken(t)
  <2>1. SUFFICES ASSUME NEW k \in 1 .. K, NEW jd \in Names, Used(t, Child(Ns(t, k), jd)) PROVE Held(t, k, jd)
    BY <1>2 DEF Taken
  <2>2. Ns(t, k) = Ns(s, k)  BY <1>2
  <2>3. Used(s, Child(Ns(s, k), jd))
    <3>1. CASE \E d \in 1 .. n : Starts(Child(Ns(s, k), jd), t.entries[d].home)
      BY <1>4, <3>1 DEF Used, n
    <3>2. CASE \E i \in 1 .. K : Starts(Child(Ns(s, k), jd), Ns(t, i))
      BY <1>2, <3>2 DEF Used, K
    <3> QED  BY <1>2, <2>1, <2>2, <3>1, <3>2 DEF Used
  <2>4. Held(s, k, jd)  BY <1>3, <2>3 DEF Taken, K
  <2> QED  BY <2>4, MovedHeld DEF K
<1>25. Unplaced(t)
  <2>1. \A k \in 2 .. K : \A d \in 1 .. n : s.entries[d].home = Ns(s, k) => s.entries[d].offset = None
    BY <1>3 DEF Unplaced, K, n
  <2>2. \A k \in 2 .. K : Ns(t, k) = Ns(s, k)  BY <1>2, <1>10
  <2> QED  BY <1>2, <1>4, <2>1, <2>2 DEF Unplaced
<1>26. Apart(t)
  <2>1. \A d \in Placed(t) : d \in Placed(s) /\ t.entries[d] = s.entries[d]
    <3>1. SUFFICES ASSUME NEW d \in 1 .. n, Resident(t.entries[d]), t.entries[d].offset # None
                   PROVE  d \in Placed(s) /\ t.entries[d] = s.entries[d]
      BY <1>2 DEF Placed
    <3>2. t.entries[d] = s.entries[d]  BY <1>4, <3>1 DEF Resident
    <3> QED  BY <3>1, <3>2 DEF Placed, n
  <2>2. \A d \in Placed(t) : Cells(t, d) = Cells(s, d)  BY <2>1 DEF Cells
  <2> QED  BY <1>3, <2>1, <2>2 DEF Apart
<1>27. Keeps(s, t)
  <2>1. SUFFICES ASSUME NEW d \in 1 .. n, Awaits(s, d) PROVE Awaits(t, d)
    <3>1. n <= Len(t.entries)  BY <1>1, <1>2
    <3> QED  BY <3>1 DEF Keeps, n
  <2>2. CASE d = e  BY <1>5, <2>2 DEF Awaits
  <2>3. CASE d # e
    <3>1. t.entries[d] = s.entries[d]  BY <1>2, <2>3
    <3>2. \A k \in 2 .. K : d \in Range(Sym(s, k)) => d \in Range(Sym(t, k))  BY <1>6, <1>10, <2>3
    <3> QED  BY <1>2, <2>1, <3>1, <3>2 DEF Awaits, K
  <2> QED  BY <2>2, <2>3
<1> QED  BY <1>16, <1>17, <1>18, <1>19, <1>20, <1>22, <1>23, <1>24, <1>25, <1>26, <1>27 DEF Good, TableInv

---------------------------------------------------------------------------
(* Scopes that are entered.                                                 *)

\* The namespace of a SUB ends with its name.
IsChild(c, h, m, id) ==
    IsSeq(c) /\ Len(c) = m + 2 /\ c[m + 2] = id /\ \A i \in 1 .. m : c[i] = h[i]

\* The namespace of a SUB is the one around it and two parts more.
LEMMA ChildIs ==
    ASSUME NEW h, IsSeq(h), NEW m \in Nat, Len(h) = m, NEW id
    PROVE  IsChild(Child(h, id), h, m, id)
<1>1. CASE h = <<>>
  <2>1. Child(h, id) = <<"_", id>>  BY <1>1 DEF Child
  <2>2. m = 0  BY <1>1
  <2>3. <<"_", id>> \in Seq({"_", id})  OBVIOUS
  <2>4. IsSeq(<<"_", id>>)  BY <2>3 DEF IsSeq
  <2>5. Len(<<"_", id>>) = 2 /\ <<"_", id>>[2] = id  OBVIOUS
  <2>6. m + 2 = 2 /\ \A i \in 1 .. m : FALSE  BY <2>2
  <2> QED  BY <2>1, <2>4, <2>5, <2>6 DEF IsChild
<1>2. CASE h # <<>>
  <2> DEFINE g == <<".", id>>
  <2>1. Child(h, id) = h \o g  BY <1>2 DEF Child
  <2>2. g \in Seq({".", id})  OBVIOUS
  <2>3. IsSeq(g) /\ Len(g) = 2 /\ g[2] = id
    <3>1. IsSeq(g)  BY <2>2 DEF IsSeq
    <3> QED  BY <3>1
  <2> HIDE DEF g
  <2>4. /\ IsSeq(h \o g) /\ Len(h \o g) = Len(h) + Len(g)
        /\ \A i \in 1 .. Len(h) : (h \o g)[i] = h[i]
        /\ \A i \in 1 .. Len(g) : (h \o g)[Len(h) + i] = g[i]
    <3>1. IsSeq(h) /\ IsSeq(g)  BY <2>3
    <3> QED  BY <3>1, JoinIs
  <2>5. 2 \in 1 .. Len(g)  BY <2>3
  <2> QED  BY <2>1, <2>3, <2>4, <2>5 DEF IsChild
<1> QED  BY <1>1, <1>2

Entered(s, id) == [s EXCEPT !.table = Append(@, Scope(Child(Current(@).ns, id)))]

\* A scope for a SUB whose name is taken by its definition and whose
\* namespace nothing uses keeps the table right.
LEMMA EnterKeeps ==
    ASSUME NEW s, TableInv(s), NEW id \in Names, Held(s, Depth(s), id), ~ Used(s, Child(Ns(s, Depth(s)), id))
    PROVE  /\ Good(s, Entered(s, id))
           /\ Depth(Entered(s, id)) = Depth(s) + 1 /\ Entered(s, id).entries = s.entries
           /\ \A jd : Get(Entered(s, id).table[Depth(s) + 1], jd) = None
<1> DEFINE K == Depth(s)
           n == Len(s.entries)
           C == Child(Ns(s, K), id)
           t == Entered(s, id)
<1>1. K \in 1 .. K /\ K \in Nat \ {0} /\ n \in Nat  BY DEF TableInv, TypesOK, IsSeq, Depth
<1>2. /\ TypesOK(s) /\ Homes(s) /\ Stale(s) /\ Folded(s) /\ ClassesOK(s)
      /\ Mids(s) /\ Tops(s) /\ Taken(s) /\ Unplaced(s) /\ Apart(s)
  BY DEF TableInv
<1>3. /\ s = [table |-> s.table, entries |-> s.entries] /\ IsSeq(s.table) /\ IsSeq(s.entries)
      /\ \A e \in 1 .. n : IsEntry(s.entries[e])
      /\ \A k \in 1 .. K : IsScope(s.table[k]) /\ IsSeq(Ns(s, k)) /\ Len(Ns(s, k)) = 2 * (k - 1)
  BY <1>2 DEF TypesOK
<1>4. t = [table |-> Append(s.table, Scope(C)), entries |-> s.entries]
  <2>1. PICK a, b : s = [table |-> a, entries |-> b]  BY <1>3, Zenon
  <2>2. s.table = a /\ s.entries = b  BY <2>1
  <2>3. [s EXCEPT !.table = Append(a, Scope(C))] = [table |-> Append(a, Scope(C)), entries |-> b]  BY <2>1
  <2>4. Entered(s, id) = [s EXCEPT !.table = Append(a, Scope(C))]  BY <2>2 DEF Entered, Current, Ns, Depth
  <2> QED  BY <2>2, <2>3, <2>4
<1>5. t.table = Append(s.table, Scope(C)) /\ t.entries = s.entries /\ t = [table |-> t.table, entries |-> t.entries]
  BY <1>4
<1>6. IsSeq(t.table) /\ Depth(t) = K + 1 /\ (\A k \in 1 .. K : t.table[k] = s.table[k]) /\ t.table[K + 1] = Scope(C)
  BY <1>3, <1>5, AppendIs DEF Depth
<1>7. \A k \in 1 .. K : Ns(t, k) = Ns(s, k) /\ Sym(t, k) = Sym(s, k) /\ Cas(t, k) = Cas(s, k)
  BY <1>6 DEF Ns, Sym, Cas
<1>8. IsScope(t.table[K + 1]) /\ Ns(t, K + 1) = C /\ DOMAIN Sym(t, K + 1) = {} /\ DOMAIN Cas(t, K + 1) = {}
  <2>1. DOMAIN <<>> = {}  OBVIOUS
  <2> QED  BY <1>6, <2>1 DEF Scope, IsScope, Ns, Sym, Cas
<1>9. \A k \in 1 .. K : \A jd : Get(t.table[k], jd) = Get(s.table[k], jd)  BY <1>6
<1>10. \A jd : Get(t.table[K + 1], jd) = None  BY <1>8 DEF Get, Sym, Cas
<1>11. \A k \in 1 .. K : Knows(t, k) = Knows(s, k)  BY <1>7 DEF Knows
<1>12. Knows(t, K + 1) = {} /\ Range(Cas(t, K + 1)) = {}  BY <1>8 DEF Knows, Range
<1>13. IsSeq(C) /\ Len(C) = 2 * K /\ C[2 * K] = id /\ \A i \in 1 .. 2 * (K - 1) : C[i] = Ns(s, K)[i]
  <2>1. IsSeq(Ns(s, K)) /\ Len(Ns(s, K)) = 2 * (K - 1)  BY <1>1, <1>3
  <2> HIDE DEF K
  <2>2. PICK m \in Nat : m = 2 * (K - 1) /\ m + 2 = 2 * K
    <3>1. 2 * (K - 1) \in Nat /\ 2 * (K - 1) + 2 = 2 * K  BY <1>1
    <3> QED  BY <3>1
  <2>3. PICK g : g = Ns(s, K)  OBVIOUS
  <2>4. IsSeq(g) /\ Len(g) = m  BY <2>1, <2>2, <2>3
  <2>5. IsChild(Child(g, id), g, m, id)  BY ONLY <2>4, m \in Nat, ChildIs
  <2>6. IsChild(C, g, m, id)  BY <2>3, <2>5
  <2> HIDE DEF C
  <2> QED  BY <2>2, <2>3, <2>6 DEF IsChild
<1>14. \A k \in 1 .. K + 1 : k \in 1 .. K \/ k = K + 1  BY <1>1
<1>15. Len(t.entries) = n  BY <1>5
<1>16. ~ Used(s, C)  OBVIOUS
<1>17. Held(s, K, id)  OBVIOUS
<1> HIDE DEF K, n, C, t
<1>18. \A k \in 2 .. K + 1 : k \in 1 .. K + 1 /\ (k \in 2 .. K \/ k = K + 1)  BY <1>1
<1>19. 1 \in 1 .. K  BY <1>1
<1>20. TypesOK(t)
  <2>1. \A k \in 1 .. K :
           /\ IsSeq(Ns(s, k)) /\ Len(Ns(s, k)) = 2 * (k - 1)
           /\ \A jd \in DOMAIN Sym(s, k) : jd \in Names /\ Sym(s, k)[jd] \in 1 .. n /\ s.entries[Sym(s, k)[jd]].name = jd
           /\ \A f \in DOMAIN Cas(s, k) : CaseIns /\ Cas(s, k)[f] \in 1 .. n
    BY <1>2 DEF TypesOK, K, n
  <2>2. ASSUME NEW k \in 1 .. K + 1
        PROVE  /\ IsScope(t.table[k]) /\ IsSeq(Ns(t, k)) /\ Len(Ns(t, k)) = 2 * (k - 1)
               /\ \A jd \in DOMAIN Sym(t, k) : jd \in Names /\ Sym(t, k)[jd] \in 1 .. n /\ t.entries[Sym(t, k)[jd]].name = jd
               /\ \A f \in DOMAIN Cas(t, k) : CaseIns /\ Cas(t, k)[f] \in 1 .. n
    <3>1. CASE k \in 1 .. K  BY <1>3, <1>5, <1>6, <1>7, <2>1, <3>1 DEF K
    <3>2. CASE k = K + 1
      <4>1. 2 * (k - 1) = 2 * K  BY <1>1, <3>2
      <4>2. IsScope(t.table[k]) /\ Ns(t, k) = C /\ DOMAIN Sym(t, k) = {} /\ DOMAIN Cas(t, k) = {}  BY <1>8, <3>2, Zenon
      <4>3. IsSeq(Ns(t, k)) /\ Len(Ns(t, k)) = 2 * (k - 1)  BY <1>13, <4>1, <4>2
      <4> QED  BY <4>2, <4>3
    <3> QED  BY <1>14, <3>1, <3>2
  <2>3. K + 1 # 0  BY <1>1
  <2>4. IsSeq(t.entries) /\ \A e \in 1 .. n : IsEntry(t.entries[e])  BY <1>3, <1>5 DEF n
  <2> QED  BY <1>5, <1>6, <1>15, <2>2, <2>3, <2>4 DEF TypesOK
<1>21. Homes(t)
  <2>1. ASSUME NEW k \in 2 .. K + 1, NEW e \in Knows(t, k) PROVE t.entries[e].home = Ns(t, k)
    <3>1. k \in 2 .. K /\ k \in 1 .. K  BY <1>12, <1>14, <1>18, <2>1
    <3>2. e \in Knows(s, k) /\ Ns(t, k) = Ns(s, k)  BY <1>7, <1>11, <2>1, <3>1
    <3> QED  BY <1>2, <1>5, <3>1, <3>2 DEF Homes, K
  <2>2. \A e \in Knows(t, 1) : t.entries[e].scope = "global"  BY <1>2, <1>5, <1>11, <1>19 DEF Homes
  <2> QED  BY <1>6, <2>1, <2>2 DEF Homes
<1>22. Stale(t)
  <2>1. SUFFICES ASSUME NEW k \in 2 .. K + 1, NEW e \in Range(Cas(t, k))
                 PROVE  e \in Range(Sym(t, k)) \/ t.entries[e].scope = "global"
    BY <1>6 DEF Stale
  <2>2. k \in 2 .. K /\ k \in 1 .. K  BY <1>12, <1>14, <1>18, <2>1
  <2> QED  BY <1>2, <1>5, <1>7, <2>1, <2>2 DEF Stale, K
<1>23. Folded(t)
  <2>1. ASSUME CaseIns, NEW k \in 1 .. K + 1, NEW jd \in DOMAIN Sym(t, k)
        PROVE  Fold[jd] \in DOMAIN Cas(t, k) /\ (k \in 2 .. K + 1 => Cas(t, k)[Fold[jd]] = Sym(t, k)[jd])
    <3>1. k \in 1 .. K /\ (k \in 2 .. K + 1 => k \in 2 .. K)
      <4>1. k # K + 1  BY <1>8, <2>1
      <4> QED  BY <1>14, <1>18, <4>1
    <3> QED  BY <1>2, <1>7, <2>1, <3>1 DEF Folded, K
  <2> QED  BY <1>6, <1>18, <2>1 DEF Folded
<1>24. ClassesOK(t)  BY <1>2, <1>5, <1>15 DEF ClassesOK, n
<1>25. Mids(t)
  <2>1. SUFFICES ASSUME NEW k \in 2 .. K + 1, NEW jd \in DOMAIN Sym(t, k),
                        ClassOf(t.entries[Sym(t, k)[jd]]) = "unknown" /\ ~ t.entries[Sym(t, k)[jd]].declared,
                        NEW j \in 2 .. k - 1
                 PROVE  Get(t.table[j], jd) = None
    BY <1>6 DEF Mids
  <2>2. k \in 2 .. K /\ k \in 1 .. K  BY <1>8, <1>14, <1>18, <2>1
  <2>3. j \in 1 .. K  BY <1>1, <2>2
  <2>4. Get(s.table[j], jd) = None  BY <1>2, <1>5, <1>7, <2>1, <2>2 DEF Mids, K
  <2> QED  BY <1>9, <2>3, <2>4
<1>26. Tops(t)
  <2>1. SUFFICES ASSUME NEW k \in 2 .. K + 1, NEW jd \in DOMAIN Sym(t, k),
                        ClassOf(t.entries[Sym(t, k)[jd]]) \in {"unknown", "label"} /\ ~ t.entries[Sym(t, k)[jd]].declared
                 PROVE  /\ jd \in DOMAIN Sym(t, 1) => IsLabel(t, Sym(t, 1)[jd])
                        /\ Fold[jd] \in DOMAIN Cas(t, 1) => IsLabel(t, Cas(t, 1)[Fold[jd]])
    BY <1>6 DEF Tops
  <2>2. k \in 2 .. K /\ k \in 1 .. K  BY <1>8, <1>14, <1>18, <2>1
  <2>3. /\ jd \in DOMAIN Sym(s, 1) => IsLabel(s, Sym(s, 1)[jd])
        /\ Fold[jd] \in DOMAIN Cas(s, 1) => IsLabel(s, Cas(s, 1)[Fold[jd]])
    BY <1>2, <1>5, <1>7, <2>1, <2>2 DEF Tops, K
  <2> QED  BY <1>5, <1>7, <1>19, <2>3 DEF IsLabel
<1>27. Taken(t)
  <2>1. SUFFICES ASSUME NEW k \in 1 .. K + 1, NEW jd \in Names, Used(t, Child(Ns(t, k), jd)) PROVE Held(t, k, jd)
    BY <1>6 DEF Taken
  <2> DEFINE h == Child(Ns(t, k), jd)
  <2>2. IsSeq(h) /\ Len(h) = 2 * k /\ h[2 * k] = jd /\ \A i \in 1 .. 2 * (k - 1) : h[i] = Ns(t, k)[i]
    <3>1. IsSeq(Ns(t, k)) /\ Len(Ns(t, k)) = 2 * (k - 1)  BY <1>6, <1>20 DEF TypesOK
    <3>2. PICK m \in Nat : m = 2 * (k - 1) /\ m + 2 = 2 * k
      <4>1. 2 * (k - 1) \in Nat /\ 2 * (k - 1) + 2 = 2 * k  BY <1>1
      <4> QED  BY <4>1
    <3>3. PICK g : g = Ns(t, k)  OBVIOUS
    <3>4. IsSeq(g) /\ Len(g) = m  BY <3>1, <3>2, <3>3
    <3>5. IsChild(Child(g, jd), g, m, jd)  BY ONLY <3>4, m \in Nat, ChildIs
    <3>6. IsChild(h, g, m, jd)  BY <3>3, <3>5
    <3> HIDE DEF h
    <3> QED  BY <3>2, <3>3, <3>6 DEF IsChild
  <2> HIDE DEF h
  <2>3. (\E e \in 1 .. n : Starts(h, s.entries[e].home)) \/ (\E i \in 1 .. K + 1 : Starts(h, Ns(t, i)))
    BY <1>5, <1>6, <1>15, <2>1 DEF Used, h
  <2>4. CASE k \in 1 .. K
    <3>1. Ns(t, k) = Ns(s, k)  BY <1>7, <2>4
    <3>2. Used(s, h) \/ (jd = id /\ k = K)
      <4>1. CASE \E e \in 1 .. n : Starts(h, s.entries[e].home)  BY <4>1 DEF Used, n
      <4>2. CASE \E i \in 1 .. K : Starts(h, Ns(t, i))  BY <1>7, <4>2 DEF Used, K
      <4>3. CASE Starts(h, C)
        <5>1. CASE k = K
          <6>1. 2 * K \in 1 .. Len(h)  BY <1>1, <2>2, <5>1
          <6>2. C[2 * K] = h[2 * K]  BY <4>3, <6>1 DEF Starts
          <6> QED  BY <1>13, <2>2, <5>1, <6>2
        <5>2. CASE k # K
          <6>1. Len(h) = 2 * k /\ k \in Nat /\ K \in Nat /\ k <= K - 1  BY <1>1, <2>2, <2>4, <5>2
          <6>2. Len(h) <= 2 * (K - 1)  BY ONLY <6>1
          <6>3. \A i \in 1 .. Len(h) : i \in 1 .. 2 * (K - 1)  BY ONLY <6>1, <6>2
          <6>4. \A i \in 1 .. Len(h) : C[i] = h[i]  BY <4>3 DEF Starts
          <6>5. \A i \in 1 .. Len(h) : Ns(s, K)[i] = h[i]  BY <1>13, <6>3, <6>4
          <6>6. Len(Ns(s, K)) = 2 * (K - 1) /\ K \in 1 .. K  BY <1>1, <1>3
          <6>7. Starts(h, Ns(s, K))  BY <6>2, <6>5, <6>6 DEF Starts
          <6> QED  BY <6>6, <6>7 DEF Used, K
        <5> QED  BY <5>1, <5>2
      <4>4. \A i \in 1 .. K + 1 : Starts(h, Ns(t, i)) => i \in 1 .. K \/ Starts(h, C)  BY <1>8, <1>14
      <4> QED  BY <2>3, <4>1, <4>2, <4>3, <4>4
    <3>3. Held(s, k, jd)
      <4>1. CASE Used(s, h)  BY <1>2, <2>4, <3>1, <4>1 DEF Taken, h, K
      <4>2. CASE jd = id /\ k = K  BY <1>17, <4>2
      <4> QED  BY <3>2, <4>1, <4>2
    <3>4. \A j \in 1 .. k : j \in 1 .. K /\ \A i \in j + 1 .. k : i \in 1 .. K  BY <1>1, <2>4
    <3> QED  BY <1>5, <1>9, <3>3, <3>4 DEF Held
  <2>5. CASE k = K + 1
    <3>1. Ns(t, k) = C  BY <1>8, <2>5
    <3>2. \A i \in 1 .. 2 * K : h[i] = C[i]
      <4>1. 2 * (k - 1) = 2 * K  BY <1>1, <2>5
      <4> QED  BY <2>2, <3>1, <4>1
    <3>3. Len(h) = 2 * K + 2  BY <1>1, <2>2, <2>5
    <3>4. ASSUME NEW x, Starts(h, x), Len(x) \in Nat PROVE Starts(C, x) /\ Len(x) > 2 * K
      <4>1. 2 * K + 2 <= Len(x) /\ \A i \in 1 .. 2 * K + 2 : x[i] = h[i]  BY <3>3, <3>4 DEF Starts
      <4>2. 2 * K <= Len(x) /\ Len(x) > 2 * K /\ \A i \in 1 .. 2 * K : i \in 1 .. 2 * K + 2  BY <1>1, <3>4, <4>1
      <4> QED  BY <1>13, <3>2, <4>1, <4>2 DEF Starts
    <3>5. ASSUME NEW e \in 1 .. n, Starts(h, s.entries[e].home) PROVE FALSE
      <4>1. IsEntry(s.entries[e])  BY <1>3 DEF n
      <4>2. Len(s.entries[e].home) \in Nat  BY <4>1 DEF IsEntry, IsSeq
      <4>3. Starts(C, s.entries[e].home)  BY <3>4, <3>5, <4>2
      <4> QED  BY <1>16, <4>3 DEF Used, n
    <3>6. ASSUME NEW i \in 1 .. K + 1, Starts(h, Ns(t, i)) PROVE FALSE
      <4>1. Len(Ns(t, i)) = 2 * (i - 1)  BY <1>6, <1>20 DEF TypesOK
      <4>2. Len(Ns(t, i)) \in Nat /\ ~(Len(Ns(t, i)) > 2 * K)  BY <1>1, <4>1
      <4> QED  BY <3>4, <3>6, <4>2
    <3> QED  BY <2>3, <3>5, <3>6
  <2> QED  BY <1>14, <2>4, <2>5
<1>28. Unplaced(t)
  <2>1. SUFFICES ASSUME NEW k \in 2 .. K + 1, NEW e \in 1 .. n, s.entries[e].home = Ns(t, k)
                 PROVE  s.entries[e].offset = None
    BY <1>5, <1>6, <1>15 DEF Unplaced
  <2>2. CASE k \in 2 .. K
    <3>1. k \in 1 .. K  BY <2>2
    <3> QED  BY <1>2, <1>7, <2>1, <2>2, <3>1 DEF Unplaced, K, n
  <2>3. CASE k = K + 1
    <3>1. s.entries[e].home = C  BY <1>8, <2>1, <2>3
    <3>2. Starts(C, C)
      <4>1. Len(C) <= Len(C)  BY <1>1, <1>13
      <4> QED  BY <4>1 DEF Starts
    <3> QED  BY <1>16, <3>1, <3>2 DEF Used, n
  <2> QED  BY <1>18, <2>2, <2>3
<1>29. Apart(t)
  <2>1. Placed(t) = Placed(s)  BY <1>5 DEF Placed
  <2>2. \A e : Cells(t, e) = Cells(s, e)  BY <1>5 DEF Cells
  <2> QED  BY <1>2, <1>5, <2>1, <2>2 DEF Apart
<1>30. Keeps(s, t)
  <2>1. SUFFICES ASSUME NEW e \in 1 .. n, Awaits(s, e) PROVE Awaits(t, e)
    <3>1. n <= Len(t.entries)  BY <1>1, <1>15
    <3> QED  BY <3>1 DEF Keeps, n
  <2>2. \A k \in 2 .. K : k \in 1 .. K /\ k \in 2 .. K + 1  BY <1>1
  <2>3. \A k \in 2 .. K : Sym(t, k) = Sym(s, k)  BY <1>7, <2>2
  <2> QED  BY <1>5, <1>6, <2>1, <2>2, <2>3 DEF Awaits, K
<1>31. Good(s, t)
  BY <1>20, <1>21, <1>22, <1>23, <1>24, <1>25, <1>26, <1>27, <1>28, <1>29, <1>30 DEF Good, TableInv
<1> QED  BY <1>5, <1>6, <1>10, <1>31 DEF t, K

---------------------------------------------------------------------------
(* Entries that are made and changed by the statements.                     *)

\* Going on from one good table to another.
LEMMA GoodTrans ==
    ASSUME NEW s, NEW t, NEW u, Len(s.entries) \in Nat, Len(t.entries) \in Nat, Len(u.entries) \in Nat,
           Good(s, t), Good(t, u)
    PROVE  Good(s, u)
<1>1. Len(s.entries) <= Len(t.entries) /\ Len(t.entries) <= Len(u.entries)  BY DEF Good, Keeps
<1>2. Len(s.entries) <= Len(u.entries)  BY <1>1
<1>3. ASSUME NEW e \in 1 .. Len(s.entries), Awaits(s, e) PROVE Awaits(u, e)
  <2>1. e \in 1 .. Len(t.entries)  BY <1>1
  <2> QED  BY <1>3, <2>1 DEF Good, Keeps
<1> QED  BY <1>2, <1>3 DEF Good, Keeps

\* A change of one field of an entry.
LEMMA EntryWith ==
    ASSUME NEW a, NEW b, NEW c, NEW d, NEW g, NEW h, NEW i, NEW j, NEW k, NEW v,
           NEW x, x = [name |-> a, class |-> b, declared |-> c, accessed |-> d, scope |-> g, home |-> h,
                       fixed |-> i, offset |-> j, mangled |-> k]
    PROVE  /\ [x EXCEPT !.class = v] =
                 [name |-> a, class |-> v, declared |-> c, accessed |-> d, scope |-> g, home |-> h,
                  fixed |-> i, offset |-> j, mangled |-> k]
           /\ [x EXCEPT !.declared = v] =
                 [name |-> a, class |-> b, declared |-> v, accessed |-> d, scope |-> g, home |-> h,
                  fixed |-> i, offset |-> j, mangled |-> k]
           /\ [x EXCEPT !.accessed = v] =
                 [name |-> a, class |-> b, declared |-> c, accessed |-> v, scope |-> g, home |-> h,
                  fixed |-> i, offset |-> j, mangled |-> k]
           /\ [x EXCEPT !.fixed = v] =
                 [name |-> a, class |-> b, declared |-> c, accessed |-> d, scope |-> g, home |-> h,
                  fixed |-> v, offset |-> j, mangled |-> k]
OBVIOUS

\* What an entry with those fields is.
Fields(x, name, class, declared, accessed, scope, home, fixed, offset) ==
    /\ x.name = name /\ x.class = class /\ x.declared = declared /\ x.accessed = accessed
    /\ x.scope = scope /\ x.home = home /\ x.fixed = fixed /\ x.offset = offset
\* An entry with these fields is an entry.
LEMMA EntryMade ==
    ASSUME NEW a, NEW b, NEW c, NEW d, NEW g, NEW h, NEW i, NEW j, NEW k,
           NEW x, x = [name |-> a, class |-> b, declared |-> c, accessed |-> d, scope |-> g, home |-> h,
                       fixed |-> i, offset |-> j, mangled |-> k],
           a \in Names, b \in Classes, g \in {"global", "local", "parameter"},
           c \in BOOLEAN, d \in BOOLEAN, i \in BOOLEAN, j \in Nat, IsSeq(h)
    PROVE  IsEntry(x) /\ Fields(x, a, b, c, d, g, h, i, j)
<1>1. x.name = a /\ x.class = b /\ x.declared = c /\ x.accessed = d /\ x.scope = g /\ x.home = h
      /\ x.fixed = i /\ x.offset = j /\ x.mangled = k
  OBVIOUS
<1>2. x = [name |-> x.name, class |-> x.class, declared |-> x.declared, accessed |-> x.accessed,
            scope |-> x.scope, home |-> x.home, fixed |-> x.fixed, offset |-> x.offset, mangled |-> x.mangled]
  BY <1>1
<1> QED  BY <1>1, <1>2 DEF IsEntry, Fields

\* An entry is what its fields are.
LEMMA EntryOpen ==
    ASSUME NEW x, IsEntry(x)
    PROVE  \E a, b, c, d, g, h, i, j, k :
              /\ x = [name |-> a, class |-> b, declared |-> c, accessed |-> d, scope |-> g, home |-> h,
                      fixed |-> i, offset |-> j, mangled |-> k]
              /\ a \in Names /\ b \in Classes /\ g \in {"global", "local", "parameter"}
              /\ c \in BOOLEAN /\ d \in BOOLEAN /\ i \in BOOLEAN /\ j \in Nat /\ IsSeq(h)
              /\ Fields(x, a, b, c, d, g, h, i, j)
BY DEF IsEntry, Fields

\* A new entry.
NewScope(s, class) == IF Depth(s) = 1 \/ class = "label" THEN "global" ELSE "local"
\* The entry that a declaration makes belongs to the current scope.
LEMMA NewEntryIs ==
    ASSUME NEW s, TypesOK(s), NEW id \in Names, NEW class \in Classes
    PROVE  /\ IsEntry(NewEntry(s.table, id, class))
           /\ Fields(NewEntry(s.table, id, class), id, class, FALSE, FALSE, NewScope(s, class), Ns(s, Depth(s)), FALSE, None)
<1>1. PICK h : h = Ns(s, Depth(s))  OBVIOUS
<1>2. IsSeq(h)
  <2>1. Depth(s) \in 1 .. Depth(s)  BY DEF TypesOK, IsSeq, Depth
  <2> QED  BY <1>1, <2>1 DEF TypesOK
<1>3. PICK g : g = NewScope(s, class)  OBVIOUS
<1>4. g \in {"global", "local", "parameter"}  BY <1>3 DEF NewScope
<1>5. PICK k : k = IF class = "label" THEN LabelName(id) ELSE Child(Current(s.table).ns, id)  OBVIOUS
<1>6. Current(s.table).ns = h /\ (IF Len(s.table) = 1 \/ class = "label" THEN "global" ELSE "local") = g
  BY <1>1, <1>3 DEF Current, Ns, Depth, NewScope
<1>7. PICK x : x = NewEntry(s.table, id, class)  OBVIOUS
<1>8. x = [name |-> id, class |-> class, declared |-> FALSE, accessed |-> FALSE, scope |-> g, home |-> h,
            fixed |-> FALSE, offset |-> None, mangled |-> k]
  BY <1>5, <1>6, <1>7, Zenon DEF NewEntry
<1>9. None \in Nat /\ FALSE \in BOOLEAN  BY DEF None
<1>10. IsEntry(x) /\ Fields(x, id, class, FALSE, FALSE, g, h, FALSE, None)
  BY ONLY <1>2, <1>4, <1>8, <1>9, id \in Names, class \in Classes, EntryMade
<1> QED  BY <1>1, <1>3, <1>7, <1>10

\* Declare adds a new entry.
LEMMA DeclareIs ==
    ASSUME NEW s, NEW id, NEW class
    PROVE  Declare(s, id, class) = Adds(s, id, NewEntry(s.table, id, class))
BY DEF Declare, Adds

\* A parameter.
LEMMA ParamIs ==
    ASSUME NEW s, TypesOK(s), NEW id \in Names, NEW x,
           x = [NewEntry(s.table, id, "var") EXCEPT !.scope = "parameter", !.declared = TRUE]
    PROVE  IsEntry(x) /\ Fields(x, id, "var", TRUE, FALSE, "parameter", Ns(s, Depth(s)), FALSE, None)
<1>1. PICK u : u = NewEntry(s.table, id, "var")  OBVIOUS
<1>2. IsEntry(u) /\ Fields(u, id, "var", FALSE, FALSE, NewScope(s, "var"), Ns(s, Depth(s)), FALSE, None)
  BY <1>1, NewEntryIs DEF Classes
<1>3. PICK a, b, c, d, g, h, i, j, k :
        /\ u = [name |-> a, class |-> b, declared |-> c, accessed |-> d, scope |-> g, home |-> h,
                fixed |-> i, offset |-> j, mangled |-> k]
        /\ a \in Names /\ b \in Classes /\ g \in {"global", "local", "parameter"}
        /\ c \in BOOLEAN /\ d \in BOOLEAN /\ i \in BOOLEAN /\ j \in Nat /\ IsSeq(h)
        /\ Fields(u, a, b, c, d, g, h, i, j)
  BY ONLY <1>2, EntryOpen
<1>4. a = id /\ b = "var" /\ d = FALSE /\ h = Ns(s, Depth(s)) /\ i = FALSE /\ j = None
  BY <1>2, <1>3 DEF Fields
<1>5. PICK v : v = [u EXCEPT !.scope = "parameter"]  OBVIOUS
<1>6. v = [name |-> a, class |-> b, declared |-> c, accessed |-> d, scope |-> "parameter", home |-> h,
           fixed |-> i, offset |-> j, mangled |-> k]
  BY ONLY <1>3, <1>5, EntryExcept
<1>7. x = [v EXCEPT !.declared = TRUE]
  <2>1. [u EXCEPT !.scope = "parameter", !.declared = TRUE] = [[u EXCEPT !.scope = "parameter"] EXCEPT !.declared = TRUE]
    OBVIOUS
  <2> QED  BY <1>1, <1>5, <2>1
<1>8. x = [name |-> a, class |-> b, declared |-> TRUE, accessed |-> d, scope |-> "parameter", home |-> h,
           fixed |-> i, offset |-> j, mangled |-> k]
  BY ONLY <1>6, <1>7, EntryWith
<1>9. IsEntry(x) /\ Fields(x, a, b, TRUE, d, "parameter", h, i, j)
  <2>1. PICK y, z : y = TRUE /\ z = "parameter"  OBVIOUS
  <2>2. x = [name |-> a, class |-> b, declared |-> y, accessed |-> d, scope |-> z, home |-> h,
             fixed |-> i, offset |-> j, mangled |-> k]
    BY <1>8, <2>1
  <2>3. y \in BOOLEAN /\ z \in {"global", "local", "parameter"}  BY <2>1
  <2>4. IsEntry(x) /\ Fields(x, a, b, y, d, z, h, i, j)  BY ONLY <1>3, <2>2, <2>3, EntryMade
  <2> QED  BY <2>1, <2>4
<1> QED  BY <1>4, <1>9

\* What the entry of a parameter becomes.
AsParam(x) == [x EXCEPT !.scope = "parameter", !.declared = TRUE]
Params(u, n) == [u EXCEPT !.entries = [e \in DOMAIN @ |-> IF e <= n THEN @[e] ELSE AsParam(@[e])]]

\* Entering the scope of a SUB declares its parameters in a new scope.
LEMMA EnterIs ==
    ASSUME NEW s, NEW id, NEW params, IsFiniteSet(params)
    PROVE  EnterScope(s, id, params) = Params(ParamIter(Entered(s, id), params)[params], Len(s.entries))
BY FoldParams DEF EnterScope, Entered, Params, AsParam

\* A SUB without parameters leaves the new scope empty.
LEMMA ParamsNone ==
    ASSUME NEW t, IsSeq(t.entries), t = [table |-> t.table, entries |-> t.entries]
    PROVE  Params(t, Len(t.entries)) = t
<1> DEFINE n == Len(t.entries)
           a == t.entries
           b == [e \in DOMAIN a |-> IF e <= n THEN a[e] ELSE AsParam(a[e])]
<1>1. n \in Nat /\ DOMAIN a = 1 .. n  BY DEF IsSeq
<1>2. \A e \in DOMAIN a : b[e] = a[e]  BY <1>1
<1>3. a = [e \in DOMAIN a |-> a[e]]  BY DEF IsSeq
<1>4. b = a
  <2>1. DOMAIN b = DOMAIN a  OBVIOUS
  <2>2. b = [e \in DOMAIN b |-> b[e]]  OBVIOUS
  <2> HIDE DEF a, b, n
  <2> QED  BY <1>2, <1>3, <2>1, <2>2
<1>5. PICK p, q : t = [table |-> p, entries |-> q]  BY Zenon
<1>6. Params(t, n) = [t EXCEPT !.entries = b]  BY DEF Params
<1>7. [t EXCEPT !.entries = q] = t  BY <1>5
<1>8. t.entries = q  BY <1>5
<1> QED  BY <1>4, <1>6, <1>7, <1>8

\* A SUB with one parameter has its entry there.
LEMMA ParamsOne ==
    ASSUME NEW t, TypesOK(t), NEW v
    PROVE  Params(Declare(t, v, "var"), Len(t.entries)) = Adds(t, v, AsParam(NewEntry(t.table, v, "var")))
<1> DEFINE n == Len(t.entries)
           y == NewEntry(t.table, v, "var")
           u == Adds(t, v, y)
           w == Adds(t, v, AsParam(y))
           a == u.entries
           b == [e \in DOMAIN a |-> IF e <= n THEN a[e] ELSE AsParam(a[e])]
<1>0. PICK x : x = y  OBVIOUS
<1>1. IsSeq(t.entries) /\ n \in Nat  BY DEF TypesOK, IsSeq
<1>2. a = Append(t.entries, y) /\ w.entries = Append(t.entries, AsParam(y)) /\ u.table = w.table
      /\ u = [table |-> u.table, entries |-> u.entries] /\ w = [table |-> w.table, entries |-> w.entries]
  BY DEF Adds
<1> HIDE DEF u, w, y
<1>3. IsSeq(a) /\ Len(a) = n + 1 /\ (\A k \in 1 .. n : a[k] = t.entries[k]) /\ a[n + 1] = y
  BY <1>1, <1>2, AppendIs
<1>4. PICK c : c = w.entries  OBVIOUS
<1>5. IsSeq(c) /\ Len(c) = n + 1 /\ (\A k \in 1 .. n : c[k] = t.entries[k]) /\ c[n + 1] = AsParam(y)
  BY <1>1, <1>2, <1>4, AppendIs
<1> HIDE DEF a, n
<1>6. DOMAIN a = 1 .. n + 1 /\ DOMAIN c = 1 .. n + 1  BY <1>3, <1>5 DEF IsSeq
<1>7. \A e \in 1 .. n + 1 : b[e] = c[e]
  <2>1. SUFFICES ASSUME NEW e \in 1 .. n + 1 PROVE b[e] = c[e]  OBVIOUS
  <2>2. CASE e <= n
    <3>1. e \in 1 .. n  BY <1>1, <2>2
    <3>2. b[e] = a[e]  BY <1>6, <2>2
    <3> QED  BY <1>3, <1>5, <3>1, <3>2
  <2>3. CASE ~(e <= n)
    <3>1. e = n + 1  BY <1>1, <2>3
    <3>2. b[e] = AsParam(a[e])  BY <1>6, <2>3
    <3> QED  BY <1>3, <1>5, <3>1, <3>2
  <2> QED  BY <2>2, <2>3
<1>8. b = c
  <2>1. c = [e \in DOMAIN c |-> c[e]]  BY <1>5 DEF IsSeq
  <2>2. DOMAIN b = DOMAIN a /\ b = [e \in DOMAIN b |-> b[e]]  OBVIOUS
  <2> HIDE DEF b
  <2> QED  BY <1>6, <1>7, <2>1, <2>2
<1>9. Params(u, n) = [u EXCEPT !.entries = b]  BY DEF Params, a
<1> HIDE DEF b
<1>10. [u EXCEPT !.entries = b] = [table |-> u.table, entries |-> b]  BY <1>2
<1>11. Params(u, n) = w  BY <1>2, <1>4, <1>8, <1>9, <1>10
<1> QED  BY <1>11, DeclareIs DEF u, w, y, n

\* A SUB that begins keeps the table right.
LEMMA EnterScopeKeeps ==
    ASSUME NEW s, TableInv(s), CalledGlobal(s), NEW id \in Names, Held(s, Depth(s), id),
           ~ Used(s, Child(Ns(s, Depth(s)), id)),
           NEW params, params = {} \/ \E v \in Names : params = {v}
    PROVE  Good(s, EnterScope(s, id, params)) /\ CalledGlobal(EnterScope(s, id, params))
<1> DEFINE t == Entered(s, id)
           K == Depth(s)
           n == Len(s.entries)
<1>1. Good(s, t) /\ Depth(t) = K + 1 /\ t.entries = s.entries /\ \A jd : Get(t.table[K + 1], jd) = None
  BY EnterKeeps
<1>2. TableInv(t) /\ TypesOK(t) /\ IsSeq(t.entries) /\ t = [table |-> t.table, entries |-> t.entries] /\ Len(t.entries) = n
  BY <1>1 DEF Good, TableInv, TypesOK
<1>2a. TypesOK(s) /\ n \in Nat /\ K \in Nat \ {0}  BY DEF TableInv, TypesOK, IsSeq, Depth
<1>3. CalledGlobal(t)  BY <1>1 DEF CalledGlobal
<1> HIDE DEF t, n
<1>4. CASE params = {}
  <2>1. EnterScope(s, id, params) = Params(ParamIter(t, {})[{}], n)  BY <1>4, EnterIs, FS_EmptySet DEF t, n
  <2>2. ParamIter(t, {})[{}] = t  BY ParamIterIs, FS_EmptySet
  <2>3. Params(t, n) = t  BY <1>2, ParamsNone
  <2> QED  BY <1>1, <1>3, <2>1, <2>2, <2>3
<1>5. ASSUME NEW v \in Names, params = {v}
      PROVE  Good(s, EnterScope(s, id, params)) /\ CalledGlobal(EnterScope(s, id, params))
  <2>1. IsFiniteSet({v})  BY FS_Singleton
  <2>2. EnterScope(s, id, params) = Params(ParamIter(t, {v})[{v}], n)  BY <1>5, <2>1, EnterIs DEF t, n
  <2>3. ParamIter(t, {v})[{v}] = Declare(t, v, "var")
    <3>1. First({v}) = v  BY FirstIn
    <3>2. ParamIter(t, {v})[{}] = t  BY <2>1, ParamIterIs
    <3>3. ParamIter(t, {v})[{v}] = Declare(ParamIter(t, {v})[{v} \ {First({v})}], First({v}), "var")
      <4>1. PICK T : T = {v}  OBVIOUS
      <4>2. IsFiniteSet(T) /\ T \in SUBSET T /\ T # {}  BY <2>1, <4>1
      <4>3. \A y \in SUBSET T :
               ParamIter(t, T)[y] = IF y = {} THEN t ELSE Declare(ParamIter(t, T)[y \ {First(y)}], First(y), "var")
        BY ONLY <4>2, ParamIterIs
      <4>4. ParamIter(t, T)[T] = Declare(ParamIter(t, T)[T \ {First(T)}], First(T), "var")  BY <4>2, <4>3
      <4> QED  BY <4>1, <4>4
    <3>4. {v} \ {v} = {}  OBVIOUS
    <3> QED  BY <3>1, <3>2, <3>3, <3>4
  <2>4. PICK x : x = AsParam(NewEntry(t.table, v, "var"))  OBVIOUS
  <2>5. EnterScope(s, id, params) = Adds(t, v, x)
    <3>1. Params(Declare(t, v, "var"), n) = Adds(t, v, x)  BY <1>2, <2>4, ParamsOne
    <3> QED  BY <2>2, <2>3, <3>1
  <2>6. IsEntry(x) /\ Fields(x, v, "var", TRUE, FALSE, "parameter", Ns(t, Depth(t)), FALSE, None)
    BY <1>2, <2>4, ParamIs DEF AsParam
  <2>7. Addable(t, v, x)
    <3>1. K + 1 # 1  BY <1>2a
    <3>2. Get(t.table[Depth(t)], v) = None  BY <1>1
    <3>3. IsSet(x) /\ ClassOf(x) # "unknown" /\ x.class = "var" /\ x.declared  BY <2>6 DEF IsSet, ClassOf, Fields
    <3> QED  BY <1>1, <2>6, <3>1, <3>2, <3>3 DEF Addable, Fields
  <2>8. PICK u : u = Adds(t, v, x)  OBVIOUS
  <2>9. Added(t, v, x, u)  BY <1>2, <2>7, <2>8, AddsIs
  <2>10. Good(t, u)  BY <1>2, <2>7, <2>9, AddKeeps
  <2>11. Len(u.entries) = n + 1 /\ (\A e \in 1 .. n : u.entries[e] = t.entries[e]) /\ u.entries[n + 1] = x
    BY <1>2, <2>9 DEF Added
  <2>12. Good(s, u)
    <3>1. Len(s.entries) \in Nat /\ Len(t.entries) \in Nat /\ Len(u.entries) \in Nat  BY <1>2, <1>2a, <2>11 DEF n
    <3> QED  BY <1>1, <2>10, <3>1, GoodTrans
  <2>13. CalledGlobal(u)
    <3>1. \A e \in 1 .. n + 1 : e \in 1 .. n \/ e = n + 1  BY <1>2a
    <3>2. x.class # "called"  BY <2>6 DEF Fields
    <3> QED  BY <1>2, <1>3, <2>11, <3>1, <3>2 DEF CalledGlobal
  <2> QED  BY <2>5, <2>8, <2>12, <2>13
<1> QED  BY <1>4, <1>5

---------------------------------------------------------------------------
(* The statements.                                                          *)

\* The table with one entry changed.
Sets(s, e, y) == [table |-> s.table, entries |-> [s.entries EXCEPT ![e] = y]]

\* A change to one entry that is allowed keeps the table right.
LEMMA SetsIs ==
    ASSUME NEW s, TableInv(s), NEW e \in 1 .. Len(s.entries), NEW y, Revised(s.entries[e], y)
    PROVE  /\ Redone(s, Sets(s, e, y)) /\ Good(s, Sets(s, e, y))
           /\ Sets(s, e, y).table = s.table /\ Len(Sets(s, e, y).entries) = Len(s.entries)
           /\ Sets(s, e, y).entries[e] = y
           /\ \A d \in 1 .. Len(s.entries) : d # e => Sets(s, e, y).entries[d] = s.entries[d]
           /\ (CalledGlobal(s) /\ (y.class = "called" => y.scope = "global")) => CalledGlobal(Sets(s, e, y))
<1> DEFINE t == Sets(s, e, y)
           a == s.entries
<1>1. TypesOK(s) /\ IsSeq(s.entries) /\ IsSeq(s.table)  BY DEF TableInv, TypesOK
<1>2. t.table = s.table /\ t.entries = [a EXCEPT ![e] = y] /\ t = [table |-> t.table, entries |-> t.entries]
  BY DEF Sets
<1>3. IsSeq(t.entries) /\ Len(t.entries) = Len(a)
  <2>1. PICK S : a \in Seq(S)  BY <1>1 DEF IsSeq
  <2>2. a \in Seq(S \cup {y})  BY <2>1, SeqMonotonic
  <2>3. [a EXCEPT ![e] = y] \in Seq(S \cup {y}) /\ Len([a EXCEPT ![e] = y]) = Len(a)  BY <2>2
  <2> QED  BY <1>2, <2>3 DEF IsSeq
<1>4. t.entries[e] = y /\ \A d \in 1 .. Len(a) : d # e => t.entries[d] = a[d]
  <2>1. DOMAIN a = 1 .. Len(a)  BY <1>1 DEF IsSeq
  <2> QED  BY <1>2, <2>1
<1> HIDE DEF t, a
<1>5. \A d \in 1 .. Len(a) : Revised(a[d], t.entries[d])
  <2>1. SUFFICES ASSUME NEW d \in 1 .. Len(a) PROVE Revised(a[d], t.entries[d])  OBVIOUS
  <2>2. CASE d = e  BY <1>4, <2>2 DEF a
  <2>3. CASE d # e  BY <1>4, <2>3 DEF Revised
  <2> QED  BY <2>2, <2>3
<1>6. Depth(t) = Depth(s) /\ \A k \in 1 .. Depth(s) :
          IsScope(t.table[k]) /\ Ns(t, k) = Ns(s, k) /\ Sym(t, k) = Sym(s, k) /\ Cas(t, k) = Cas(s, k)
  BY <1>1, <1>2 DEF TypesOK, Depth, Ns, Sym, Cas
<1>7. Redone(s, t)  BY <1>1, <1>2, <1>3, <1>5, <1>6 DEF Redone, a
<1>8. Good(s, t)  BY <1>7, RedoneKeeps
<1>9. ASSUME CalledGlobal(s), y.class = "called" => y.scope = "global" PROVE CalledGlobal(t)
  <2>1. \A d \in 1 .. Len(a) : a[d].class = "called" => a[d].scope = "global"  BY <1>9 DEF CalledGlobal, a
  <2> QED  BY <1>3, <1>4, <1>9, <2>1 DEF CalledGlobal
<1> QED  BY <1>2, <1>3, <1>4, <1>7, <1>8, <1>9 DEF t, a

\* A change of one field of one entry.
LEMMA ClassDeep ==
    ASSUME NEW p, NEW q, NEW e, NEW v, NEW s, s = [table |-> p, entries |-> q]
    PROVE  [s EXCEPT !.entries[e].class = v] = [table |-> p, entries |-> [q EXCEPT ![e] = [q[e] EXCEPT !.class = v]]]
OBVIOUS

\* An assignment to a field of an entry, as the new dictionary of entries:
\* its mangled name,
LEMMA MangledDeep ==
    ASSUME NEW p, NEW q, NEW e, NEW v, NEW s, s = [table |-> p, entries |-> q]
    PROVE  [s EXCEPT !.entries[e].mangled = v] = [table |-> p, entries |-> [q EXCEPT ![e] = [q[e] EXCEPT !.mangled = v]]]
OBVIOUS

\* that it is accessed,
LEMMA AccessedDeep ==
    ASSUME NEW p, NEW q, NEW e, NEW v, NEW s, s = [table |-> p, entries |-> q]
    PROVE  [s EXCEPT !.entries[e].accessed = v] = [table |-> p, entries |-> [q EXCEPT ![e] = [q[e] EXCEPT !.accessed = v]]]
OBVIOUS

\* that it is declared,
LEMMA DeclaredDeep ==
    ASSUME NEW p, NEW q, NEW e, NEW v, NEW s, s = [table |-> p, entries |-> q]
    PROVE  [s EXCEPT !.entries[e].declared = v] = [table |-> p, entries |-> [q EXCEPT ![e] = [q[e] EXCEPT !.declared = v]]]
OBVIOUS

\* that it has an address of its own,
LEMMA FixedDeep ==
    ASSUME NEW p, NEW q, NEW e, NEW v, NEW s, s = [table |-> p, entries |-> q]
    PROVE  [s EXCEPT !.entries[e].fixed = v] = [table |-> p, entries |-> [q EXCEPT ![e] = [q[e] EXCEPT !.fixed = v]]]
OBVIOUS

\* and its scope.
LEMMA ScopeDeep ==
    ASSUME NEW p, NEW q, NEW e, NEW v, NEW s, s = [table |-> p, entries |-> q]
    PROVE  [s EXCEPT !.entries[e].scope = v] = [table |-> p, entries |-> [q EXCEPT ![e] = [q[e] EXCEPT !.scope = v]]]
OBVIOUS

\* How the statements write such a change.
IsTable(s) == s = [table |-> s.table, entries |-> s.entries] /\ IsSeq(s.entries)
\* A reference that becomes a variable or a label changes one entry,
LEMMA ToVarIs ==
    ASSUME NEW s, IsTable(s), NEW e \in 1 .. Len(s.entries)
    PROVE  /\ ToVar(s, e) = Sets(s, e, [s.entries[e] EXCEPT !.class = "var"])
           /\ ToLabel(s, e) = Sets(s, e, [s.entries[e] EXCEPT !.class = "label", !.mangled = LabelName(s.entries[e].name)])
           /\ MarkAccessed(s, e) = Sets(s, e, [s.entries[e] EXCEPT !.accessed = TRUE])
<1>1. PICK p, q : s = [table |-> p, entries |-> q]  BY Zenon DEF IsTable
<1>2. s.table = p /\ s.entries = q  BY <1>1
<1>3. ToVar(s, e) = Sets(s, e, [s.entries[e] EXCEPT !.class = "var"])  BY <1>1, <1>2 DEF ToVar, Sets
<1>4. ToLabel(s, e) = Sets(s, e, [s.entries[e] EXCEPT !.class = "label", !.mangled = LabelName(s.entries[e].name)])
  <2>1. PICK l, m, x, y, z : /\ l = "label" /\ m = LabelName(s.entries[e].name) /\ x = q[e] /\ y = [x EXCEPT !.class = l]
                             /\ z = [x EXCEPT !.class = l, !.mangled = m]
    OBVIOUS
  <2>2. z = [y EXCEPT !.mangled = m]  BY <2>1
  <2>3. [s EXCEPT !.entries[e].class = l] = [table |-> p, entries |-> [q EXCEPT ![e] = [q[e] EXCEPT !.class = l]]]
    BY <1>1, ClassDeep
  <2>4. PICK u, r : u = [table |-> p, entries |-> r] /\ r = [q EXCEPT ![e] = y] /\ u = [s EXCEPT !.entries[e].class = l]
    BY <2>1, <2>3
  <2>5. ToLabel(s, e) = [u EXCEPT !.entries[e].mangled = m]  BY <2>1, <2>4 DEF ToLabel
  <2>6. e \in DOMAIN q  BY <1>2 DEF IsTable, IsSeq
  <2>7. r[e] = y  BY <2>4, <2>6
  <2>8. [u EXCEPT !.entries[e].mangled = m] = [table |-> p, entries |-> [r EXCEPT ![e] = [r[e] EXCEPT !.mangled = m]]]
    <3>1. u = [table |-> p, entries |-> r]  BY <2>4
    <3> QED  BY <3>1, MangledDeep
  <2>9. [r EXCEPT ![e] = z] = [q EXCEPT ![e] = z]  BY ONLY <2>4
  <2> QED  BY <1>2, <2>1, <2>2, <2>5, <2>7, <2>8, <2>9 DEF Sets
<1>5. MarkAccessed(s, e) = Sets(s, e, [s.entries[e] EXCEPT !.accessed = TRUE])
  <2>1. PICK v : v = TRUE  OBVIOUS
  <2>2. [s EXCEPT !.entries[e].accessed = v] = [table |-> p, entries |-> [q EXCEPT ![e] = [q[e] EXCEPT !.accessed = v]]]
    BY <1>1, AccessedDeep
  <2> QED  BY <1>2, <2>1, <2>2, Zenon DEF MarkAccessed, Sets
<1> QED  BY <1>3, <1>4, <1>5

\* as does one that is declared,
LEMMA DeclaredIs ==
    ASSUME NEW s, IsTable(s), NEW e, NEW v
    PROVE  [s EXCEPT !.entries[e].declared = v] = Sets(s, e, [s.entries[e] EXCEPT !.declared = v])
<1>1. PICK p, q : s = [table |-> p, entries |-> q]  BY Zenon DEF IsTable
<1>2. s.table = p /\ s.entries = q  BY <1>1
<1>3. [s EXCEPT !.entries[e].declared = v] = [table |-> p, entries |-> [q EXCEPT ![e] = [q[e] EXCEPT !.declared = v]]]
  BY <1>1, DeclaredDeep
<1> QED  BY <1>2, <1>3, Zenon DEF Sets

\* one that gets an address of its own,
LEMMA FixedIs ==
    ASSUME NEW s, IsTable(s), NEW e, NEW v
    PROVE  [s EXCEPT !.entries[e].fixed = v] = Sets(s, e, [s.entries[e] EXCEPT !.fixed = v])
<1>1. PICK p, q : s = [table |-> p, entries |-> q]  BY Zenon DEF IsTable
<1>2. s.table = p /\ s.entries = q  BY <1>1
<1>3. [s EXCEPT !.entries[e].fixed = v] = [table |-> p, entries |-> [q EXCEPT ![e] = [q[e] EXCEPT !.fixed = v]]]
  BY <1>1, FixedDeep
<1> QED  BY <1>2, <1>3, Zenon DEF Sets

\* and one that gets another scope.
LEMMA ScopeIs ==
    ASSUME NEW s, IsTable(s), NEW e, NEW v
    PROVE  [s EXCEPT !.entries[e].scope = v] = Sets(s, e, [s.entries[e] EXCEPT !.scope = v])
<1>1. PICK p, q : s = [table |-> p, entries |-> q]  BY Zenon DEF IsTable
<1>2. s.table = p /\ s.entries = q  BY <1>1
<1>3. [s EXCEPT !.entries[e].scope = v] = [table |-> p, entries |-> [q EXCEPT ![e] = [q[e] EXCEPT !.scope = v]]]
  BY <1>1, ScopeDeep
<1> QED  BY <1>2, <1>3, Zenon DEF Sets

\* Changing the entry that has just been added.
LEMMA SetsAdded ==
    ASSUME NEW s, IsTable(s), NEW id, NEW x, NEW y
    PROVE  /\ IsTable(Adds(s, id, x)) /\ Len(s.entries) + 1 \in 1 .. Len(Adds(s, id, x).entries)
           /\ Adds(s, id, x).entries[Len(s.entries) + 1] = x
           /\ Sets(Adds(s, id, x), Len(s.entries) + 1, y) = Adds(s, id, y)
<1> DEFINE n == Len(s.entries)
           t == Adds(s, id, x)
           u == Adds(s, id, y)
<1>1. IsSeq(s.entries) /\ n \in Nat  BY DEF IsTable, IsSeq
<1>2. t.entries = Append(s.entries, x) /\ u.entries = Append(s.entries, y) /\ t.table = u.table
      /\ t = [table |-> t.table, entries |-> t.entries] /\ u = [table |-> u.table, entries |-> u.entries]
  BY DEF Adds
<1> HIDE DEF n, t, u
<1>3. PICK a, b : a = t.entries /\ b = u.entries  OBVIOUS
<1>4. IsSeq(a) /\ Len(a) = n + 1 /\ (\A k \in 1 .. n : a[k] = s.entries[k]) /\ a[n + 1] = x
  BY <1>1, <1>2, <1>3, AppendIs DEF n
<1>5. IsSeq(b) /\ Len(b) = n + 1 /\ (\A k \in 1 .. n : b[k] = s.entries[k]) /\ b[n + 1] = y
  BY <1>1, <1>2, <1>3, AppendIs DEF n
<1>6. DOMAIN a = 1 .. n + 1 /\ DOMAIN b = 1 .. n + 1 /\ b = [k \in 1 .. n + 1 |-> b[k]]
  BY <1>4, <1>5 DEF IsSeq
<1>7. [a EXCEPT ![n + 1] = y] = b
  <2>1. PICK c : c = [a EXCEPT ![n + 1] = y]  OBVIOUS
  <2>2. DOMAIN c = 1 .. n + 1 /\ c = [k \in 1 .. n + 1 |-> c[k]]  BY <1>6, <2>1
  <2>3. \A k \in 1 .. n + 1 : c[k] = b[k]
    <3>1. SUFFICES ASSUME NEW k \in 1 .. n + 1 PROVE c[k] = b[k]  OBVIOUS
    <3>2. CASE k = n + 1  BY <1>5, <1>6, <2>1, <3>2
    <3>3. CASE k # n + 1
      <4>1. k \in 1 .. n  BY <1>1, <3>3
      <4>2. c[k] = a[k]  BY <1>6, <2>1, <3>3
      <4> QED  BY <1>4, <1>5, <4>1, <4>2
    <3> QED  BY <3>2, <3>3
  <2>4. c = b  BY <1>6, <2>2, <2>3
  <2> QED  BY <2>1, <2>4
<1>8. Sets(t, n + 1, y) = u  BY <1>2, <1>3, <1>7 DEF Sets
<1>9. n + 1 \in 1 .. n + 1  BY <1>1
<1> QED  BY <1>2, <1>3, <1>4, <1>8, <1>9 DEF n, t, u, IsTable

\* An entry that some scope knows, and will still know when it is left.
Reached(s, e) ==
    /\ e \in 1 .. Len(s.entries) /\ e # None /\ Loose(s.entries[e])
    /\ s.entries[e].scope = "global" \/ \E k \in 2 .. Depth(s) : e \in Range(Sym(s, k))
Refs(s, e) == e \in 1 .. Len(s.entries) /\ Awaits(s, e)

\* The entry a scope knows by a name is one a reference may reach.
LEMMA SeenReached ==
    ASSUME NEW s, TableInv(s), NEW k \in 1 .. Depth(s), NEW id, Get(s.table[k], id) # None
    PROVE  Reached(s, Get(s.table[k], id))
<1> DEFINE e == Get(s.table[k], id)
<1>1. e \in Knows(s, k) /\ e # None  BY KnownIs DEF TableInv
<1>2. Depth(s) \in Nat  BY KnownIs DEF TableInv
<1> HIDE DEF e
<1>3. /\ e \in 1 .. Len(s.entries) /\ Loose(s.entries[e])
      /\ k = 1 => s.entries[e].scope = "global"
      /\ k # 1 => e \in Range(Sym(s, k)) \/ s.entries[e].scope = "global"
  BY <1>1, FoundIs
<1>4. k # 1 => k \in 2 .. Depth(s)  BY <1>2
<1>5. s.entries[e].scope = "global" \/ \E j \in 2 .. Depth(s) : e \in Range(Sym(s, j))  BY <1>3, <1>4
<1> QED  BY <1>1, <1>3, <1>5 DEF Reached, e

\* So is the one that a search of all scopes finds.
LEMMA EntryReached ==
    ASSUME NEW s, TableInv(s), NEW id, GetEntry(s.table, id) # None
    PROVE  Reached(s, GetEntry(s.table, id))
<1>1. PICK k : Seen(s, id, k) /\ GetEntry(s.table, id) = Get(s.table[k], id)  BY EntryIs DEF TableInv
<1>2. k \in 1 .. Depth(s) /\ Get(s.table[k], id) # None  BY <1>1 DEF Seen
<1> QED  BY <1>1, <1>2, SeenReached

\* The entry of a name that the current scope knows is that one.
LEMMA CurrentFirst ==
    ASSUME NEW s, TypesOK(s), NEW id, Get(s.table[Depth(s)], id) # None
    PROVE  GetEntry(s.table, id) = Get(s.table[Depth(s)], id)
<1>1. Depth(s) \in 1 .. Depth(s) /\ Depth(s) \in Nat  BY DEF TypesOK, IsSeq, Depth
<1>2. PICK k : Seen(s, id, k) /\ GetEntry(s.table, id) = Get(s.table[k], id)  BY <1>1, EntryIs
<1>3. k = Depth(s)
  <2>1. k \in 1 .. Depth(s) /\ \A i \in k + 1 .. Depth(s) : Get(s.table[i], id) = None  BY <1>2 DEF Seen
  <2>2. Depth(s) \notin k + 1 .. Depth(s)  BY <2>1
  <2> QED  BY <1>1, <2>1, <2>2
<1> QED  BY <1>2, <1>3

\* A reached entry awaits a place unless the code does not count on it.
LEMMA ReachedAwaits ==
    ASSUME NEW s, NEW e, Reached(s, e),
           Optimize > 1 => \/ s.entries[e].accessed \/ s.entries[e].class \in {"label", "sub"}
                           \/ s.entries[e].scope = "global"
    PROVE  Refs(s, e)
BY DEF Reached, Refs, Awaits

\* What may be added.
LEMMA AddsKeeps ==
    ASSUME NEW s, TableInv(s), NEW id, NEW x, Addable(s, id, x)
    PROVE  /\ Added(s, id, x, Adds(s, id, x)) /\ Good(s, Adds(s, id, x))
           /\ Get(Adds(s, id, x).table[Depth(s)], id) = Len(s.entries) + 1
           /\ GetEntry(Adds(s, id, x).table, id) = Len(s.entries) + 1
           /\ Adds(s, id, x).entries[Len(s.entries) + 1] = x
           /\ Len(Adds(s, id, x).entries) = Len(s.entries) + 1 /\ Depth(Adds(s, id, x)) = Depth(s)
           /\ (CalledGlobal(s) /\ (x.class = "called" => x.scope = "global")) => CalledGlobal(Adds(s, id, x))
<1> DEFINE n == Len(s.entries)
           K == Depth(s)
<1>0. TypesOK(s) /\ Folded(s)  BY DEF TableInv
<1>1. PICK t : t = Adds(s, id, x)  OBVIOUS
<1>2. Added(s, id, x, t)  BY <1>0, <1>1, AddsIs
<1>3. Good(s, t) /\ TypesOK(t)  BY <1>2, AddKeeps DEF Good, TableInv
<1>4. n \in Nat /\ Depth(t) = K /\ Len(t.entries) = n + 1 /\ t.entries[n + 1] = x
      /\ \A e \in 1 .. n : t.entries[e] = s.entries[e]
  <2>1. n \in Nat  BY <1>0 DEF TypesOK, IsSeq
  <2> QED  BY <1>2, <2>1 DEF Added
<1>5. Get(t.table[K], id) = n + 1  BY <1>0, <1>2, AddedGets
<1>6. GetEntry(t.table, id) = n + 1
  <2>1. n + 1 # None  BY <1>4 DEF None
  <2> QED  BY <1>3, <1>4, <1>5, <2>1, CurrentFirst
<1> HIDE DEF n, K
<1>7. ASSUME CalledGlobal(s), x.class = "called" => x.scope = "global" PROVE CalledGlobal(t)
  <2>1. \A e \in 1 .. n + 1 : e \in 1 .. n \/ e = n + 1  BY <1>4
  <2>2. \A e \in 1 .. n : s.entries[e].class = "called" => s.entries[e].scope = "global"  BY <1>7 DEF CalledGlobal, n
  <2> QED  BY <1>4, <1>7, <2>1, <2>2 DEF CalledGlobal
<1> QED  BY <1>1, <1>2, <1>3, <1>4, <1>5, <1>6, <1>7 DEF n, K

---------------------------------------------------------------------------
(* Changes of an entry.                                                     *)

\* What an entry is with one field changed.
LEMMA ClassSet ==
    ASSUME NEW x, IsEntry(x), NEW v \in Classes, NEW y, y = [x EXCEPT !.class = v]
    PROVE  IsEntry(y) /\ Fields(y, x.name, v, x.declared, x.accessed, x.scope, x.home, x.fixed, x.offset)
<1>1. PICK a, b, c, d, g, h, i, j, k :
        /\ x = [name |-> a, class |-> b, declared |-> c, accessed |-> d, scope |-> g, home |-> h,
                fixed |-> i, offset |-> j, mangled |-> k]
        /\ a \in Names /\ b \in Classes /\ g \in {"global", "local", "parameter"}
        /\ c \in BOOLEAN /\ d \in BOOLEAN /\ i \in BOOLEAN /\ j \in Nat /\ IsSeq(h)
        /\ Fields(x, a, b, c, d, g, h, i, j)
  BY EntryOpen
<1>2. x = [name |-> a, class |-> b, declared |-> c, accessed |-> d, scope |-> g, home |-> h,
           fixed |-> i, offset |-> j, mangled |-> k]
  BY <1>1
<1>3. y = [name |-> a, class |-> v, declared |-> c, accessed |-> d, scope |-> g, home |-> h, fixed |-> i, offset |-> j, mangled |-> k]
  BY <1>2, EntryWith
<1>4. IsEntry(y) /\ Fields(y, a, v, c, d, g, h, i, j)
  BY <1>1, <1>3, EntryMade
<1> QED  BY <1>1, <1>4 DEF Fields

\* An entry that is declared, or no longer, is the same entry otherwise,
LEMMA DeclaredSet ==
    ASSUME NEW x, IsEntry(x), NEW v \in BOOLEAN, NEW y, y = [x EXCEPT !.declared = v]
    PROVE  IsEntry(y) /\ Fields(y, x.name, x.class, v, x.accessed, x.scope, x.home, x.fixed, x.offset)
<1>1. PICK a, b, c, d, g, h, i, j, k :
        /\ x = [name |-> a, class |-> b, declared |-> c, accessed |-> d, scope |-> g, home |-> h,
                fixed |-> i, offset |-> j, mangled |-> k]
        /\ a \in Names /\ b \in Classes /\ g \in {"global", "local", "parameter"}
        /\ c \in BOOLEAN /\ d \in BOOLEAN /\ i \in BOOLEAN /\ j \in Nat /\ IsSeq(h)
        /\ Fields(x, a, b, c, d, g, h, i, j)
  BY EntryOpen
<1>2. x = [name |-> a, class |-> b, declared |-> c, accessed |-> d, scope |-> g, home |-> h,
           fixed |-> i, offset |-> j, mangled |-> k]
  BY <1>1
<1>3. y = [name |-> a, class |-> b, declared |-> v, accessed |-> d, scope |-> g, home |-> h, fixed |-> i, offset |-> j, mangled |-> k]
  BY <1>2, EntryWith
<1>4. IsEntry(y) /\ Fields(y, a, b, v, d, g, h, i, j)
  BY <1>1, <1>3, EntryMade
<1> QED  BY <1>1, <1>4 DEF Fields

\* as is one that is accessed,
LEMMA AccessedSet ==
    ASSUME NEW x, IsEntry(x), NEW v \in BOOLEAN, NEW y, y = [x EXCEPT !.accessed = v]
    PROVE  IsEntry(y) /\ Fields(y, x.name, x.class, x.declared, v, x.scope, x.home, x.fixed, x.offset)
<1>1. PICK a, b, c, d, g, h, i, j, k :
        /\ x = [name |-> a, class |-> b, declared |-> c, accessed |-> d, scope |-> g, home |-> h,
                fixed |-> i, offset |-> j, mangled |-> k]
        /\ a \in Names /\ b \in Classes /\ g \in {"global", "local", "parameter"}
        /\ c \in BOOLEAN /\ d \in BOOLEAN /\ i \in BOOLEAN /\ j \in Nat /\ IsSeq(h)
        /\ Fields(x, a, b, c, d, g, h, i, j)
  BY EntryOpen
<1>2. x = [name |-> a, class |-> b, declared |-> c, accessed |-> d, scope |-> g, home |-> h,
           fixed |-> i, offset |-> j, mangled |-> k]
  BY <1>1
<1>3. y = [name |-> a, class |-> b, declared |-> c, accessed |-> v, scope |-> g, home |-> h, fixed |-> i, offset |-> j, mangled |-> k]
  BY <1>2, EntryWith
<1>4. IsEntry(y) /\ Fields(y, a, b, c, v, g, h, i, j)
  BY <1>1, <1>3, EntryMade
<1> QED  BY <1>1, <1>4 DEF Fields

\* one of another scope,
LEMMA ScopeSet ==
    ASSUME NEW x, IsEntry(x), NEW v \in {"global", "local", "parameter"}, NEW y, y = [x EXCEPT !.scope = v]
    PROVE  IsEntry(y) /\ Fields(y, x.name, x.class, x.declared, x.accessed, v, x.home, x.fixed, x.offset)
<1>1. PICK a, b, c, d, g, h, i, j, k :
        /\ x = [name |-> a, class |-> b, declared |-> c, accessed |-> d, scope |-> g, home |-> h,
                fixed |-> i, offset |-> j, mangled |-> k]
        /\ a \in Names /\ b \in Classes /\ g \in {"global", "local", "parameter"}
        /\ c \in BOOLEAN /\ d \in BOOLEAN /\ i \in BOOLEAN /\ j \in Nat /\ IsSeq(h)
        /\ Fields(x, a, b, c, d, g, h, i, j)
  BY EntryOpen
<1>2. x = [name |-> a, class |-> b, declared |-> c, accessed |-> d, scope |-> g, home |-> h,
           fixed |-> i, offset |-> j, mangled |-> k]
  BY <1>1
<1>3. y = [name |-> a, class |-> b, declared |-> c, accessed |-> d, scope |-> v, home |-> h, fixed |-> i, offset |-> j, mangled |-> k]
  BY <1>2, EntryExcept
<1>4. IsEntry(y) /\ Fields(y, a, b, c, d, v, h, i, j)
  BY <1>1, <1>3, EntryMade
<1> QED  BY <1>1, <1>4 DEF Fields

\* one with an address of its own,
LEMMA FixedSet ==
    ASSUME NEW x, IsEntry(x), NEW v \in BOOLEAN, NEW y, y = [x EXCEPT !.fixed = v]
    PROVE  IsEntry(y) /\ Fields(y, x.name, x.class, x.declared, x.accessed, x.scope, x.home, v, x.offset)
<1>1. PICK a, b, c, d, g, h, i, j, k :
        /\ x = [name |-> a, class |-> b, declared |-> c, accessed |-> d, scope |-> g, home |-> h,
                fixed |-> i, offset |-> j, mangled |-> k]
        /\ a \in Names /\ b \in Classes /\ g \in {"global", "local", "parameter"}
        /\ c \in BOOLEAN /\ d \in BOOLEAN /\ i \in BOOLEAN /\ j \in Nat /\ IsSeq(h)
        /\ Fields(x, a, b, c, d, g, h, i, j)
  BY EntryOpen
<1>2. x = [name |-> a, class |-> b, declared |-> c, accessed |-> d, scope |-> g, home |-> h,
           fixed |-> i, offset |-> j, mangled |-> k]
  BY <1>1
<1>3. y = [name |-> a, class |-> b, declared |-> c, accessed |-> d, scope |-> g, home |-> h, fixed |-> v, offset |-> j, mangled |-> k]
  BY <1>2, EntryWith
<1>4. IsEntry(y) /\ Fields(y, a, b, c, d, g, h, v, j)
  BY <1>1, <1>3, EntryMade
<1> QED  BY <1>1, <1>4 DEF Fields

\* one with an offset,
LEMMA OffsetSet ==
    ASSUME NEW x, IsEntry(x), NEW v \in Nat, NEW y, y = [x EXCEPT !.offset = v]
    PROVE  IsEntry(y) /\ Fields(y, x.name, x.class, x.declared, x.accessed, x.scope, x.home, x.fixed, v)
<1>1. PICK a, b, c, d, g, h, i, j, k :
        /\ x = [name |-> a, class |-> b, declared |-> c, accessed |-> d, scope |-> g, home |-> h,
                fixed |-> i, offset |-> j, mangled |-> k]
        /\ a \in Names /\ b \in Classes /\ g \in {"global", "local", "parameter"}
        /\ c \in BOOLEAN /\ d \in BOOLEAN /\ i \in BOOLEAN /\ j \in Nat /\ IsSeq(h)
        /\ Fields(x, a, b, c, d, g, h, i, j)
  BY EntryOpen
<1>2. x = [name |-> a, class |-> b, declared |-> c, accessed |-> d, scope |-> g, home |-> h,
           fixed |-> i, offset |-> j, mangled |-> k]
  BY <1>1
<1>3. y = [name |-> a, class |-> b, declared |-> c, accessed |-> d, scope |-> g, home |-> h, fixed |-> i, offset |-> v, mangled |-> k]
  BY <1>2, EntryExcept
<1>4. IsEntry(y) /\ Fields(y, a, b, c, d, g, h, i, v)
  BY <1>1, <1>3, EntryMade
<1> QED  BY <1>1, <1>4 DEF Fields

\* and one with another mangled name.
LEMMA MangledSet ==
    ASSUME NEW x, IsEntry(x), NEW v, NEW y, y = [x EXCEPT !.mangled = v]
    PROVE  IsEntry(y) /\ Fields(y, x.name, x.class, x.declared, x.accessed, x.scope, x.home, x.fixed, x.offset)
<1>1. PICK a, b, c, d, g, h, i, j, k :
        /\ x = [name |-> a, class |-> b, declared |-> c, accessed |-> d, scope |-> g, home |-> h,
                fixed |-> i, offset |-> j, mangled |-> k]
        /\ a \in Names /\ b \in Classes /\ g \in {"global", "local", "parameter"}
        /\ c \in BOOLEAN /\ d \in BOOLEAN /\ i \in BOOLEAN /\ j \in Nat /\ IsSeq(h)
        /\ Fields(x, a, b, c, d, g, h, i, j)
  BY EntryOpen
<1>2. x = [name |-> a, class |-> b, declared |-> c, accessed |-> d, scope |-> g, home |-> h,
           fixed |-> i, offset |-> j, mangled |-> k]
  BY <1>1
<1>3. y = [name |-> a, class |-> b, declared |-> c, accessed |-> d, scope |-> g, home |-> h, fixed |-> i, offset |-> j, mangled |-> v]
  BY <1>2, EntryExcept
<1>4. IsEntry(y) /\ Fields(y, a, b, c, d, g, h, i, j)
  BY <1>1, <1>3, EntryMade
<1> QED  BY <1>1, <1>4 DEF Fields

\* An entry whose class and declaration agree.
Agrees(x) == (x.declared => x.class \in {"var", "label", "sub"}) /\ (x.class = "sub" => x.declared)

\* It becomes a variable, is used, or is declared at an address.
LEMMA VarRevised ==
    ASSUME NEW x, IsEntry(x), Loose(x), Agrees(x), ClassOf(x) \in {"unknown", "var"}, NEW y, y = [x EXCEPT !.class = "var"]
    PROVE  Revised(x, y) /\ IsEntry(y) /\ Fields(y, x.name, "var", x.declared, x.accessed, x.scope, x.home, x.fixed, x.offset)
<1>1. PICK v : v = "var" /\ v \in Classes  BY DEF Classes
<1>2. IsEntry(y) /\ Fields(y, x.name, v, x.declared, x.accessed, x.scope, x.home, x.fixed, x.offset)
  BY <1>1, ClassSet
<1> QED  BY <1>1, <1>2 DEF Revised, Fields, Agrees, IsSet, Tentative, ClassOf

\* An entry may become accessed,
LEMMA AccessedRevised ==
    ASSUME NEW x, IsEntry(x), Loose(x), Agrees(x), NEW y, y = [x EXCEPT !.accessed = TRUE]
    PROVE  Revised(x, y) /\ IsEntry(y) /\ Fields(y, x.name, x.class, x.declared, TRUE, x.scope, x.home, x.fixed, x.offset)
<1>1. PICK v : v = TRUE /\ v \in BOOLEAN  OBVIOUS
<1>2. y = [x EXCEPT !.accessed = v]  BY <1>1
<1>3. IsEntry(y) /\ Fields(y, x.name, x.class, x.declared, v, x.scope, x.home, x.fixed, x.offset)
  BY <1>1, <1>2, AccessedSet
<1> QED  BY <1>1, <1>3 DEF Revised, Fields, Agrees, IsSet, Tentative, ClassOf

\* declared, if it is a variable or a label,
LEMMA DeclaredRevised ==
    ASSUME NEW x, IsEntry(x), Loose(x), x.class \in {"var", "label"}, NEW y, y = [x EXCEPT !.declared = TRUE]
    PROVE  Revised(x, y) /\ IsEntry(y) /\ Fields(y, x.name, x.class, TRUE, x.accessed, x.scope, x.home, x.fixed, x.offset)
<1>1. PICK v : v = TRUE /\ v \in BOOLEAN  OBVIOUS
<1>2. y = [x EXCEPT !.declared = v]  BY <1>1
<1>3. IsEntry(y) /\ Fields(y, x.name, x.class, v, x.accessed, x.scope, x.home, x.fixed, x.offset)
  BY <1>1, <1>2, DeclaredSet
<1> QED  BY <1>1, <1>3 DEF Revised, Fields, IsSet, Tentative, ClassOf

\* fixed at an address,
LEMMA FixedRevised ==
    ASSUME NEW x, IsEntry(x), Loose(x), Agrees(x), NEW y, y = [x EXCEPT !.fixed = TRUE]
    PROVE  Revised(x, y) /\ IsEntry(y) /\ Fields(y, x.name, x.class, x.declared, x.accessed, x.scope, x.home, TRUE, x.offset)
<1>1. PICK v : v = TRUE /\ v \in BOOLEAN  OBVIOUS
<1>2. y = [x EXCEPT !.fixed = v]  BY <1>1
<1>3. IsEntry(y) /\ Fields(y, x.name, x.class, x.declared, x.accessed, x.scope, x.home, v, x.offset)
  BY <1>1, <1>2, FixedSet
<1> QED  BY <1>1, <1>3 DEF Revised, Fields, Agrees, IsSet, Tentative, ClassOf

\* and global.
LEMMA GlobalRevised ==
    ASSUME NEW x, IsEntry(x), Loose(x), Agrees(x), NEW y, y = [x EXCEPT !.scope = "global"]
    PROVE  Revised(x, y) /\ IsEntry(y) /\ Fields(y, x.name, x.class, x.declared, x.accessed, "global", x.home, x.fixed, x.offset)
<1>1. PICK v : v = "global" /\ v \in {"global", "local", "parameter"}  OBVIOUS
<1>2. IsEntry(y) /\ Fields(y, x.name, x.class, x.declared, x.accessed, v, x.home, x.fixed, x.offset)
  BY <1>1, ScopeSet
<1> QED  BY <1>1, <1>2 DEF Revised, Fields, Agrees, IsSet, Tentative, ClassOf

\* It becomes a label.
LEMMA LabelRevised ==
    ASSUME NEW x, IsEntry(x), Loose(x), ClassOf(x) \in {"unknown", "label"}, Agrees(x), NEW m,
           NEW y, y = [x EXCEPT !.class = "label", !.mangled = m]
    PROVE  Revised(x, y) /\ IsEntry(y) /\ Fields(y, x.name, "label", x.declared, x.accessed, x.scope, x.home, x.fixed, x.offset)
<1>1. PICK v, u : v = "label" /\ v \in Classes /\ u = [x EXCEPT !.class = v]  BY DEF Classes
<1>2. IsEntry(u) /\ Fields(u, x.name, v, x.declared, x.accessed, x.scope, x.home, x.fixed, x.offset)
  BY <1>1, ClassSet
<1>3. y = [u EXCEPT !.mangled = m]  BY <1>1
<1>4. IsEntry(y) /\ Fields(y, u.name, u.class, u.declared, u.accessed, u.scope, u.home, u.fixed, u.offset)
  BY <1>2, <1>3, MangledSet
<1>5. Fields(y, x.name, v, x.declared, x.accessed, x.scope, x.home, x.fixed, x.offset)  BY <1>2, <1>4 DEF Fields
<1> QED  BY <1>1, <1>4, <1>5 DEF Revised, Fields, Agrees, IsSet, Tentative, ClassOf

\* It becomes a SUB.
LEMMA SubRevised ==
    ASSUME NEW x, IsEntry(x), Loose(x), ClassOf(x) = "unknown", NEW m,
           NEW y, y = [x EXCEPT !.class = "sub", !.declared = TRUE, !.mangled = m]
    PROVE  Revised(x, y) /\ IsEntry(y) /\ Fields(y, x.name, "sub", TRUE, x.accessed, x.scope, x.home, x.fixed, x.offset)
<1>1. PICK v, u : v = "sub" /\ v \in Classes /\ u = [x EXCEPT !.class = v]  BY DEF Classes
<1>2. IsEntry(u) /\ Fields(u, x.name, v, x.declared, x.accessed, x.scope, x.home, x.fixed, x.offset)
  BY <1>1, ClassSet
<1>3. PICK d, w : d = TRUE /\ d \in BOOLEAN /\ w = [u EXCEPT !.declared = d]  OBVIOUS
<1>4. IsEntry(w) /\ Fields(w, u.name, u.class, d, u.accessed, u.scope, u.home, u.fixed, u.offset)
  BY <1>2, <1>3, DeclaredSet
<1>5. y = [w EXCEPT !.mangled = m]
  <2>1. y = [[[x EXCEPT !.class = "sub"] EXCEPT !.declared = TRUE] EXCEPT !.mangled = m]  OBVIOUS
  <2> QED  BY <1>1, <1>3, <2>1
<1>6. IsEntry(y) /\ Fields(y, w.name, w.class, w.declared, w.accessed, w.scope, w.home, w.fixed, w.offset)
  BY <1>4, <1>5, MangledSet
<1>7. Fields(y, x.name, v, d, x.accessed, x.scope, x.home, x.fixed, x.offset)  BY <1>2, <1>4, <1>6 DEF Fields
<1> QED  BY <1>1, <1>3, <1>6, <1>7 DEF Revised, Fields, IsSet, Tentative, ClassOf

---------------------------------------------------------------------------
(* The statements that access and declare variables.                        *)
Right(s, t) == Good(s, t) /\ CalledGlobal(t)

\* To change nothing keeps the table right,
LEMMA SelfRight ==
    ASSUME NEW s, TableInv(s), CalledGlobal(s)
    PROVE  Right(s, s)
<1>1. Len(s.entries) \in Nat  BY DEF TableInv, TypesOK, IsSeq
<1>2. Len(s.entries) <= Len(s.entries)  BY <1>1
<1> QED  BY <1>2 DEF Right, Good, Keeps

\* and so do two changes that do, one after the other.
LEMMA RightTrans ==
    ASSUME NEW s, NEW t, NEW u, TableInv(s), Right(s, t), Right(t, u)
    PROVE  Right(s, u)
<1>1. TableInv(t) /\ TableInv(u)  BY DEF Right, Good
<1>2. Len(s.entries) \in Nat /\ Len(t.entries) \in Nat /\ Len(u.entries) \in Nat
  BY <1>1 DEF TableInv, TypesOK, IsSeq
<1> QED  BY <1>2, GoodTrans DEF Right

\* What a right table says of one of its entries.
LEMMA EntryFacts ==
    ASSUME NEW s, TableInv(s), NEW e \in 1 .. Len(s.entries)
    PROVE  IsEntry(s.entries[e]) /\ Agrees(s.entries[e]) /\ IsTable(s) /\ TypesOK(s) /\ Folded(s)
<1>1. IsEntry(s.entries[e])  BY DEF TableInv, TypesOK
<1>2. Agrees(s.entries[e])  BY DEF TableInv, ClassesOK, Agrees
<1>3. IsTable(s)  BY DEF TableInv, TypesOK, IsTable
<1> QED  BY <1>1, <1>2, <1>3 DEF TableInv

\* An entry that a scope knows is changed.
LEMMA ChangeRight ==
    ASSUME NEW s, TableInv(s), CalledGlobal(s), NEW e, Reached(s, e), NEW y, Revised(s.entries[e], y),
           y.class = "called" => s.entries[e].class = "called", y.scope = s.entries[e].scope \/ y.scope = "global",
           NEW t, t = Sets(s, e, y)
    PROVE  /\ Right(s, t) /\ t.table = s.table /\ t.entries[e] = y /\ Reached(t, e) /\ TableInv(t)
           /\ Len(t.entries) = Len(s.entries)
<1>1. e \in 1 .. Len(s.entries) /\ e # None /\ Loose(s.entries[e])
      /\ (s.entries[e].scope = "global" \/ \E k \in 2 .. Depth(s) : e \in Range(Sym(s, k)))
  BY DEF Reached
<1>2. y.class = "called" => y.scope = "global"
  <2>1. s.entries[e].class = "called" => s.entries[e].scope = "global"  BY <1>1 DEF CalledGlobal
  <2> QED  BY <2>1
<1>3. Good(s, t) /\ t.table = s.table /\ Len(t.entries) = Len(s.entries) /\ t.entries[e] = y /\ CalledGlobal(t)
  BY <1>1, <1>2, SetsIs
<1>4. y.offset = s.entries[e].offset
  <2>1. Agrees(s.entries[e]) /\ IsEntry(s.entries[e])  BY <1>1, EntryFacts
  <2> QED  BY <2>1, RevisedIs DEF Agrees
<1>5. Loose(y)  BY <1>1, <1>4 DEF Loose
<1>6. Depth(t) = Depth(s) /\ \A k : Sym(t, k) = Sym(s, k)  BY <1>3 DEF Depth, Sym
<1>7. Reached(t, e)  BY <1>1, <1>3, <1>5, <1>6 DEF Reached
<1> QED  BY <1>3, <1>7 DEF Right, Good

\* A name that is met keeps the table right, and its entry is known.
LEMMA AccessKeeps ==
    ASSUME NEW s, TableInv(s), CalledGlobal(s), NEW id \in Names, NEW class \in {"unknown", "var"},
           NEW t, t = AccessId(s, id, class)
    PROVE  Right(s, t) /\ Reached(t, GetEntry(t.table, id))
<1>1. CASE GetEntry(s.table, id) # None
  <2>1. t = s  BY <1>1 DEF AccessId
  <2> QED  BY <1>1, <2>1, SelfRight, EntryReached
<1>2. CASE GetEntry(s.table, id) = None
  <2>1. PICK x : x = NewEntry(s.table, id, class)  OBVIOUS
  <2>2. t = Adds(s, id, x)  BY <1>2, <2>1, DeclareIs DEF AccessId
  <2>3. TypesOK(s) /\ Depth(s) \in 1 .. Depth(s)  BY DEF TableInv, TypesOK, IsSeq, Depth
  <2>4. class \in Classes /\ class \notin {"called", "label", "sub"}  BY DEF Classes
  <2>5. IsEntry(x) /\ Fields(x, id, class, FALSE, FALSE, NewScope(s, class), Ns(s, Depth(s)), FALSE, None)
    BY <2>1, <2>3, <2>4, NewEntryIs
  <2>6. \A k \in 1 .. Depth(s) : Get(s.table[k], id) = None
    <3>1. \A k : ~(Seen(s, id, k) /\ GetEntry(s.table, id) = Get(s.table[k], id))  BY <1>2 DEF Seen
    <3> QED  BY <2>3, <3>1, EntryIs
  <2>7. Addable(s, id, x)
    <3>1. Depth(s) = 1 => x.scope = "global"  BY <2>5 DEF Fields, NewScope
    <3>2. 1 \in 1 .. Depth(s)  BY <2>3
    <3>3. \A k : ~ Seen(s, id, k)  BY <2>6 DEF Seen
    <3> QED  BY <2>3, <2>4, <2>5, <2>6, <3>1, <3>2, <3>3 DEF Addable, Fields
  <2>8. Good(s, t) /\ GetEntry(t.table, id) = Len(s.entries) + 1 /\ Len(t.entries) = Len(s.entries) + 1 /\ CalledGlobal(t)
    <3>1. x.class # "called"  BY <2>4, <2>5 DEF Fields
    <3> QED  BY <2>2, <2>7, <3>1, AddsKeeps
  <2>9. GetEntry(t.table, id) # None
    <3>1. Len(s.entries) \in Nat  BY <2>3 DEF TypesOK, IsSeq
    <3> QED  BY <2>8, <3>1 DEF None
  <2>10. TableInv(t)  BY <2>8 DEF Good
  <2> QED  BY <2>8, <2>9, <2>10, EntryReached DEF Right
<1> QED  BY <1>1, <1>2

\* An entry that is used keeps the table right, and awaits a place.
LEMMA MarkedKeeps ==
    ASSUME NEW s, TableInv(s), CalledGlobal(s), NEW e, Reached(s, e), NEW t, t = Marked(s, e)
    PROVE  Right(s, t) /\ Refs(t, e)
<1>1. e \in 1 .. Len(s.entries) /\ Loose(s.entries[e])  BY DEF Reached
<1>2. IsEntry(s.entries[e]) /\ Agrees(s.entries[e]) /\ IsTable(s)  BY <1>1, EntryFacts
<1>3. CASE InFunction(s) /\ IsFunction(s.entries[e])
  <2>1. t = s  BY <1>3 DEF Marked
  <2>2. s.entries[e].class = "sub" \/ s.entries[e].scope = "global"  BY <1>1, <1>3 DEF IsFunction, CalledGlobal
  <2> QED  BY <2>1, <2>2, SelfRight, ReachedAwaits
<1>4. CASE ~(InFunction(s) /\ IsFunction(s.entries[e]))
  <2>1. PICK y : y = [s.entries[e] EXCEPT !.accessed = TRUE]  OBVIOUS
  <2>2. t = Sets(s, e, y)  BY <1>1, <1>2, <1>4, <2>1, ToVarIs DEF Marked
  <2>3. PICK x : x = s.entries[e]  OBVIOUS
  <2>4. Revised(x, y) /\ Fields(y, x.name, x.class, x.declared, TRUE, x.scope, x.home, x.fixed, x.offset)
    BY <1>1, <1>2, <2>1, <2>3, AccessedRevised
  <2>5. y.class = x.class /\ y.scope = x.scope /\ y.accessed  BY <2>4 DEF Fields
  <2>6. Right(s, t) /\ t.entries[e] = y /\ Reached(t, e)  BY <2>2, <2>3, <2>4, <2>5, ChangeRight
  <2> QED  BY <2>5, <2>6, ReachedAwaits
<1> QED  BY <1>3, <1>4

\* The address of a name (@id) keeps the table right, and its reference will have a place.
LEMMA AddressOfKeeps ==
    ASSUME NEW s, TableInv(s), CalledGlobal(s), NEW id \in Names, NEW d, d = AddressOf(s, id)
    PROVE  Right(s, d.s) /\ Refs(d.s, d.e) /\ d.ok = "open"
<1>1. PICK t, e : t = AccessId(s, id, "unknown") /\ e = GetEntry(t.table, id)  OBVIOUS
<1>2. Right(s, t) /\ Reached(t, e)  BY <1>1, AccessKeeps
<1>3. TableInv(t) /\ CalledGlobal(t)  BY <1>2 DEF Right, Good
<1>4. PICK u : u = Marked(t, e)  OBVIOUS
<1>5. Right(t, u) /\ Refs(u, e)  BY <1>2, <1>3, <1>4, MarkedKeeps
<1>6. d.s = u /\ d.e = e /\ d.ok = "open"  BY <1>1, <1>4 DEF AddressOf, Done
<1> QED  BY <1>2, <1>5, <1>6, RightTrans

\* So does a variable in an expression.
LEMMA EvaluateKeeps ==
    ASSUME NEW s, TableInv(s), CalledGlobal(s), NEW id \in Names, NEW d, d = Evaluate(s, id)
    PROVE  Right(s, d.s) /\ (d.ok = "open" => Refs(d.s, d.e))
<1>1. PICK t, e : t = AccessId(s, id, "var") /\ e = GetEntry(t.table, id)  OBVIOUS
<1>2. Right(s, t) /\ Reached(t, e)  BY <1>1, AccessKeeps
<1>3. TableInv(t) /\ CalledGlobal(t)  BY <1>2 DEF Right, Good
<1>4. PICK u : u = Marked(t, e)  OBVIOUS
<1>5. Right(t, u) /\ Refs(u, e)  BY <1>2, <1>3, <1>4, MarkedKeeps
<1>6. d = IF t.entries[e].class = "sub" THEN Failed(t, "rejected") ELSE Done(u, e)  BY <1>1, <1>4 DEF Evaluate
<1>7. CASE t.entries[e].class = "sub"  BY <1>2, <1>6, <1>7 DEF Failed
<1>8. CASE t.entries[e].class # "sub"
  <2>1. d.s = u /\ d.e = e  BY <1>6, <1>8 DEF Done
  <2> QED  BY <1>2, <1>5, <2>1, RightTrans
<1> QED  BY <1>7, <1>8

\* So does an assignment; with -O2 a reference to a variable that is never read may not.
LEMMA AssignKeeps ==
    ASSUME NEW s, TableInv(s), CalledGlobal(s), NEW id \in Names, NEW d, d = Assign(s, id)
    PROVE  Right(s, d.s) /\ (d.ok = "open" /\ Optimize < 2 => Refs(d.s, d.e))
<1>0. Optimize < 2 => ~(Optimize > 1)  BY SymbolTableAssumption
<1>1. PICK t, e : t = AccessId(s, id, "unknown") /\ e = GetEntry(t.table, id)  OBVIOUS
<1>2. Right(s, t) /\ Reached(t, e)  BY <1>1, AccessKeeps
<1>3. TableInv(t) /\ CalledGlobal(t)  BY <1>2 DEF Right, Good
<1>4. PICK x, y : x = t.entries[e] /\ y = [x EXCEPT !.class = "var"]  OBVIOUS
<1>5. e \in 1 .. Len(t.entries) /\ Loose(x)  BY <1>2, <1>4 DEF Reached
<1>6. IsEntry(x) /\ Agrees(x) /\ IsTable(t)  BY <1>3, <1>4, <1>5, EntryFacts
<1>7. d = CASE ClassOf(x) = "unknown" -> Done(ToVar(t, e), e)
            [] ClassOf(x) = "var" -> Done(t, e)
            [] OTHER -> Failed(t, "rejected")
  BY <1>1, <1>4 DEF Assign
<1>8. CASE ClassOf(x) = "unknown"
  <2>1. PICK u : u = Sets(t, e, y)  OBVIOUS
  <2>2. u = ToVar(t, e)  BY <1>4, <1>5, <1>6, <2>1, ToVarIs
  <2>3. Revised(x, y) /\ Fields(y, x.name, "var", x.declared, x.accessed, x.scope, x.home, x.fixed, x.offset)
    BY <1>4, <1>5, <1>6, <1>8, VarRevised
  <2>4. y.class # "called" /\ y.scope = x.scope  BY <2>3 DEF Fields
  <2>5. Right(t, u) /\ Reached(u, e)  BY <1>2, <1>3, <1>4, <2>1, <2>3, <2>4, ChangeRight
  <2>6. d.s = u /\ d.e = e  BY <1>7, <1>8, <2>2 DEF Done
  <2>7. Optimize < 2 => Refs(u, e)  BY <1>0, <2>5, ReachedAwaits
  <2> QED  BY <1>2, <2>5, <2>6, <2>7, RightTrans
<1>9. CASE ClassOf(x) = "var"
  <2>1. d.s = t /\ d.e = e  BY <1>7, <1>9 DEF Done
  <2>2. Optimize < 2 => Refs(t, e)  BY <1>0, <1>2, ReachedAwaits
  <2> QED  BY <1>2, <2>1, <2>2
<1>10. CASE ClassOf(x) # "unknown" /\ ClassOf(x) # "var"
  <2>1. d = Failed(t, "rejected")  BY <1>7, <1>10
  <2> QED  BY <1>2, <2>1 DEF Failed
<1> QED  BY <1>8, <1>9, <1>10

\* A variable that is declared.
DeclaredEntry(x) == [x EXCEPT !.class = "var", !.declared = TRUE]
\* A DIM keeps the table right, and its variable is declared in the current scope.
LEMMA DeclareVariableKeeps ==
    ASSUME NEW s, TableInv(s), CalledGlobal(s), NEW id \in Names, NEW d, d = DeclareVariable(s, id)
    PROVE  /\ Right(s, d.s)
           /\ d.ok = "open" => /\ Reached(d.s, d.e)
                               /\ d.s.entries[d.e].class = "var" /\ d.s.entries[d.e].declared
<1> DEFINE K == Depth(s)
           n == Len(s.entries)
<1>0. K \in 1 .. K /\ n \in Nat /\ TypesOK(s) /\ Folded(s) /\ IsTable(s) /\ Current(s.table) = s.table[K]
  BY DEF TableInv, TypesOK, IsSeq, Depth, IsTable, Current
<1>1. PICK c : c = Get(s.table[K], id)  OBVIOUS
<1>2. d = LET t == IF c = None THEN Declare(s, id, "unknown") ELSE s
              e == GetEntry(t.table, id)
          IN  IF c # None /\ (s.entries[c].declared \/ ClassOf(s.entries[c]) \notin {"unknown", "var"})
              THEN Failed(s, "rejected")
              ELSE Done([ToVar(t, e) EXCEPT !.entries[e].declared = TRUE], e)
  BY <1>0, <1>1 DEF DeclareVariable
<1> HIDE DEF K, n
<1>3. CASE c # None /\ (s.entries[c].declared \/ ClassOf(s.entries[c]) \notin {"unknown", "var"})
  <2>1. d = Failed(s, "rejected")  BY <1>2, <1>3
  <2>2. d.s = s /\ d.ok # "open"  BY <2>1 DEF Failed
  <2> QED  BY <2>2, SelfRight
<1>4. CASE c # None /\ ~ s.entries[c].declared /\ ClassOf(s.entries[c]) \in {"unknown", "var"}
  <2>1. GetEntry(s.table, id) = c  BY <1>0, <1>1, <1>4, CurrentFirst DEF K
  <2>2. d = Done([ToVar(s, c) EXCEPT !.entries[c].declared = TRUE], c)  BY <1>2, <1>4, <2>1
  <2>3. Reached(s, c)  BY <1>0, <1>1, <1>4, SeenReached DEF K
  <2>4. PICK x, y : x = s.entries[c] /\ y = [x EXCEPT !.class = "var"]  OBVIOUS
  <2>5. c \in 1 .. n /\ Loose(x)  BY <2>3, <2>4 DEF Reached, n
  <2>6. IsEntry(x) /\ Agrees(x)  BY <2>4, <2>5, EntryFacts DEF n
  <2>7. PICK t : t = Sets(s, c, y)  OBVIOUS
  <2>8. t = ToVar(s, c)  BY <1>0, <2>4, <2>5, <2>7, ToVarIs DEF n
  <2>9. Revised(x, y) /\ Fields(y, x.name, "var", x.declared, x.accessed, x.scope, x.home, x.fixed, x.offset)
    BY <1>4, <2>4, <2>5, <2>6, VarRevised
  <2>10. y.class = "var" /\ y.scope = x.scope  BY <2>9 DEF Fields
  <2>11. Right(s, t) /\ Reached(t, c) /\ t.entries[c] = y /\ TableInv(t) /\ CalledGlobal(t)
    <3>1. Right(s, t) /\ Reached(t, c) /\ t.entries[c] = y /\ TableInv(t)
      <4>1. y.class = "called" => s.entries[c].class = "called"  BY <2>10
      <4>2. y.scope = s.entries[c].scope \/ y.scope = "global"  BY <2>4, <2>10
      <4>3. Revised(s.entries[c], y)  BY <2>4, <2>9
      <4> QED  BY <2>3, <2>7, <4>1, <4>2, <4>3, ChangeRight
    <3> QED  BY <3>1 DEF Right
  <2>12. PICK z : z = [y EXCEPT !.declared = TRUE]  OBVIOUS
  <2>13. c \in 1 .. Len(t.entries) /\ Loose(y)  BY <2>11 DEF Reached
  <2>14. IsEntry(y) /\ IsTable(t)  BY <2>11, <2>13, EntryFacts
  <2>15. PICK u : u = Sets(t, c, z)  OBVIOUS
  <2>16. u = [t EXCEPT !.entries[c].declared = TRUE]
    <3>1. PICK v : v = TRUE  OBVIOUS
    <3>2. [t EXCEPT !.entries[c].declared = v] = Sets(t, c, [t.entries[c] EXCEPT !.declared = v])
      <4>1. IsTable(t)  BY <2>14
      <4> QED  BY <4>1, DeclaredIs
    <3> QED  BY <2>11, <2>12, <2>15, <3>1, <3>2
  <2>17. Revised(y, z) /\ Fields(z, y.name, y.class, TRUE, y.accessed, y.scope, y.home, y.fixed, y.offset)
    BY <2>10, <2>12, <2>13, <2>14, DeclaredRevised
  <2>18. z.class = "var" /\ z.declared /\ z.scope = y.scope  BY <2>10, <2>17 DEF Fields
  <2>19. Right(t, u) /\ Reached(u, c) /\ u.entries[c] = z
    BY <2>11, <2>15, <2>17, <2>18, ChangeRight
  <2>20. d.s = u /\ d.e = c  BY <2>2, <2>8, <2>16 DEF Done
  <2>21. Right(s, u)  BY <2>11, <2>19, RightTrans
  <2> QED  BY <2>18, <2>19, <2>20, <2>21
<1>5. CASE c = None
  <2>1. PICK x, t : x = NewEntry(s.table, id, "unknown") /\ t = Adds(s, id, x)  OBVIOUS
  <2>2. IsEntry(x) /\ Fields(x, id, "unknown", FALSE, FALSE, NewScope(s, "unknown"), Ns(s, K), FALSE, None)
    BY <1>0, <2>1, NewEntryIs DEF Classes, K
  <2>3. PICK v, y : v = "var" /\ v \in Classes /\ y = [x EXCEPT !.class = v]  BY DEF Classes
  <2>4. IsEntry(y) /\ Fields(y, x.name, v, x.declared, x.accessed, x.scope, x.home, x.fixed, x.offset)
    BY <2>2, <2>3, ClassSet
  <2>5. PICK b, z : b = TRUE /\ b \in BOOLEAN /\ z = [y EXCEPT !.declared = b]  OBVIOUS
  <2>6. IsEntry(z) /\ Fields(z, y.name, y.class, b, y.accessed, y.scope, y.home, y.fixed, y.offset)
    BY <2>4, <2>5, DeclaredSet
  <2>7. z.name = id /\ z.class = "var" /\ z.declared /\ z.scope = NewScope(s, "unknown") /\ z.home = Ns(s, K) /\ z.offset = None
    BY <2>2, <2>3, <2>4, <2>5, <2>6 DEF Fields
  <2>8. PICK u : u = Adds(s, id, z)  OBVIOUS
  <2>9. Addable(s, id, z)
    <3>1. Depth(s) = 1 => z.scope = "global"  BY <2>7 DEF NewScope
    <3>2. IsSet(z) /\ ClassOf(z) # "unknown"  BY <2>7 DEF IsSet, ClassOf
    <3> QED  BY <1>1, <1>5, <2>6, <2>7, <3>1, <3>2 DEF Addable, K
  <2>10. /\ Good(s, u) /\ Get(u.table[K], id) = n + 1 /\ GetEntry(u.table, id) = n + 1 /\ u.entries[n + 1] = z
         /\ Depth(u) = K /\ CalledGlobal(u)
    BY <2>7, <2>8, <2>9, AddsKeeps DEF K, n
  <2>11. t = Declare(s, id, "unknown")  BY <2>1, DeclareIs
  <2>12. t.table = u.table  BY <2>1, <2>8 DEF Adds
  <2>12a. PICK m : m = n + 1  OBVIOUS
  <2>13. GetEntry(t.table, id) = m  BY <2>10, <2>12, <2>12a
  <2>14. d = Done([ToVar(t, m) EXCEPT !.entries[m].declared = TRUE], m)  BY <1>2, <1>5, <2>11, <2>13
  <2>15. PICK w : w = Adds(s, id, y)  OBVIOUS
  <2>16. /\ IsTable(t) /\ m \in 1 .. Len(t.entries) /\ t.entries[m] = x /\ Sets(t, m, y) = w
         /\ IsTable(w) /\ w.entries[m] = y /\ Sets(w, m, z) = u
    BY <1>0, <2>1, <2>8, <2>12a, <2>15, SetsAdded DEF n
  <2>17. ToVar(t, m) = w
    <3>1. ToVar(t, m) = Sets(t, m, [t.entries[m] EXCEPT !.class = "var"])  BY <2>16, ToVarIs
    <3> QED  BY <2>3, <2>16, <3>1
  <2>18. [w EXCEPT !.entries[m].declared = b] = u
    <3>1. [w EXCEPT !.entries[m].declared = b] = Sets(w, m, [w.entries[m] EXCEPT !.declared = b])
      <4>1. IsTable(w)  BY <2>16
      <4> QED  BY <4>1, DeclaredIs
    <3> QED  BY <2>5, <2>16, <3>1
  <2>19. d.s = u /\ d.e = n + 1
    <3>1. d = Done(u, m)  BY <2>5, <2>14, <2>17, <2>18, Zenon
    <3> QED  BY <2>12a, <3>1 DEF Done
  <2>20. Reached(u, n + 1)
    <3>1. TableInv(u)  BY <2>10 DEF Good
    <3>2. n + 1 # None  BY <1>0 DEF None
    <3> QED  BY <2>10, <3>1, <3>2, EntryReached
  <2> QED  BY <2>7, <2>10, <2>19, <2>20 DEF Right
<1> QED  BY <1>3, <1>4, <1>5

\* What make_static stores changes nothing else.
LEMMA StaticsKeep ==
    ASSUME NEW s, TableInv(s), CalledGlobal(s), NEW v, NEW t, t = [s EXCEPT !.table[1].statics = v]
    PROVE  Right(s, t) /\ t.entries = s.entries
<1> DEFINE K == Depth(s)
           n == Len(s.entries)
<1>1. TypesOK(s) /\ K \in Nat \ {0} /\ n \in Nat /\ 1 \in 1 .. K /\ DOMAIN s.table = 1 .. K
      /\ IsSeq(s.entries) /\ IsSeq(s.table) /\ \A k \in 1 .. K : IsScope(s.table[k])
  BY DEF TableInv, TypesOK, IsSeq, Depth
<1> HIDE DEF K, n
<1>2. PICK p, q : s = [table |-> p, entries |-> q]  BY <1>1, Zenon DEF TypesOK
<1>3. s.table = p /\ s.entries = q  BY <1>2
<1>4. PICK x, y : x = p[1] /\ y = [x EXCEPT !.statics = v]  OBVIOUS
<1>5. IsScope(y) /\ y.ns = x.ns /\ y.symbols = x.symbols /\ y.caseins = x.caseins
  <2>1. IsScope(x)  BY <1>1, <1>3, <1>4
  <2>2. PICK a, b, c, d : x = [ns |-> a, symbols |-> b, caseins |-> c, statics |-> d]  BY <2>1, Zenon DEF IsScope
  <2>3. y = [ns |-> a, symbols |-> b, caseins |-> c, statics |-> v]  BY <1>4, <2>2
  <2> QED  BY <2>2, <2>3 DEF IsScope
<1>6. PICK r : r = [p EXCEPT ![1] = y]  OBVIOUS
<1>7. t = [table |-> r, entries |-> q]
  <2>1. t = [table |-> [p EXCEPT ![1] = [p[1] EXCEPT !.statics = v]], entries |-> q]  BY <1>2
  <2> QED  BY <1>4, <1>6, <2>1
<1>8. t.table = r /\ t.entries = s.entries /\ t = [table |-> t.table, entries |-> t.entries]
  <2>1. t.table = r /\ t.entries = q  BY <1>7
  <2> QED  BY <1>3, <1>7, <2>1
<1>9. r[1] = y /\ \A k \in 1 .. K : k # 1 => r[k] = p[k]  BY <1>1, <1>3, <1>6
<1>10. IsSeq(r) /\ Len(r) = K
  <2>1. PICK S : p \in Seq(S)  BY <1>1, <1>3 DEF IsSeq
  <2>2. p \in Seq(S \cup {y})  BY <2>1, SeqMonotonic
  <2>3. [p EXCEPT ![1] = y] \in Seq(S \cup {y}) /\ Len([p EXCEPT ![1] = y]) = Len(p)  BY <1>1, <1>3, <2>2 DEF Depth, K
  <2> QED  BY <1>3, <1>6, <2>3 DEF IsSeq, Depth, K
<1>11. \A k \in 1 .. K : IsScope(t.table[k]) /\ Ns(t, k) = Ns(s, k) /\ Sym(t, k) = Sym(s, k) /\ Cas(t, k) = Cas(s, k)
  <2>1. SUFFICES ASSUME NEW k \in 1 .. K
                 PROVE  IsScope(t.table[k]) /\ Ns(t, k) = Ns(s, k) /\ Sym(t, k) = Sym(s, k) /\ Cas(t, k) = Cas(s, k)
    OBVIOUS
  <2>2. CASE k = 1  BY <1>3, <1>4, <1>5, <1>8, <1>9, <2>2 DEF Ns, Sym, Cas
  <2>3. CASE k # 1  BY <1>1, <1>3, <1>8, <1>9, <2>3 DEF Ns, Sym, Cas
  <2> QED  BY <2>2, <2>3
<1>12. Redone(s, t)
  <2>1. \A e \in 1 .. n : Revised(s.entries[e], t.entries[e])  BY <1>8 DEF Revised
  <2> QED  BY <1>1, <1>8, <1>10, <1>11, <2>1 DEF Redone, Depth, K, n
<1>13. CalledGlobal(t)  BY <1>8 DEF CalledGlobal
<1> QED  BY <1>8, <1>12, <1>13, RedoneKeeps DEF Right

\* A DIM at an address keeps the table right.
LEMMA DeclareAtKeeps ==
    ASSUME NEW s, TableInv(s), CalledGlobal(s), NEW id \in Names, NEW c, c = DeclareAt(s, id)
    PROVE  Right(s, c.s)
<1>1. PICK d : d = DeclareVariable(s, id)  OBVIOUS
<1>2. /\ Right(s, d.s)
      /\ d.ok = "open" => Reached(d.s, d.e) /\ d.s.entries[d.e].class = "var" /\ d.s.entries[d.e].declared
  BY <1>1, DeclareVariableKeeps
<1>3. CASE d.ok # "open"
  <2>1. c = d  BY <1>1, <1>3 DEF DeclareAt
  <2> QED  BY <1>2, <2>1
<1>4. CASE d.ok = "open"
  <2>1. PICK u, e : u = d.s /\ e = d.e  OBVIOUS
  <2>2. Right(s, u) /\ Reached(u, e) /\ TableInv(u) /\ CalledGlobal(u) /\ u.entries[e].class = "var"
    <3>1. Right(s, u) /\ Reached(u, e) /\ u.entries[e].class = "var"  BY <1>2, <1>4, <2>1
    <3> QED  BY <3>1 DEF Right, Good
  <2>3. PICK x, y, t : x = u.entries[e] /\ y = [x EXCEPT !.accessed = TRUE] /\ t = Sets(u, e, y)  OBVIOUS
  <2>4. e \in 1 .. Len(u.entries) /\ Loose(x)  BY <2>2, <2>3 DEF Reached
  <2>5. IsEntry(x) /\ Agrees(x) /\ IsTable(u)  BY <2>2, <2>3, <2>4, EntryFacts
  <2>6. t = MarkAccessed(u, e)  BY <2>3, <2>4, <2>5, ToVarIs
  <2>7. Revised(x, y) /\ Fields(y, x.name, x.class, x.declared, TRUE, x.scope, x.home, x.fixed, x.offset)
    BY <2>3, <2>4, <2>5, AccessedRevised
  <2>8. y.class = "var" /\ y.scope = x.scope  BY <2>2, <2>3, <2>7 DEF Fields
  <2>9. Right(u, t) /\ Reached(t, e) /\ t.entries[e] = y /\ TableInv(t)
    <3>1. y.class = "called" => u.entries[e].class = "called"  BY <2>8
    <3>2. y.scope = u.entries[e].scope \/ y.scope = "global"  BY <2>3, <2>8
    <3>3. Revised(u.entries[e], y)  BY <2>3, <2>7
    <3>4. TableInv(u) /\ CalledGlobal(u) /\ Reached(u, e)  BY <2>2
    <3>5. t = Sets(u, e, y)  BY <2>3
    <3> QED  BY <3>1, <3>2, <3>3, <3>4, <3>5, ChangeRight
  <2>10. CalledGlobal(t)  BY <2>9 DEF Right
  <2>11. PICK b, z, v : b = TRUE /\ z = [y EXCEPT !.fixed = b] /\ v = Sets(t, e, z)  OBVIOUS
  <2>12. e \in 1 .. Len(t.entries) /\ Loose(y)  BY <2>9 DEF Reached
  <2>13. IsEntry(y) /\ Agrees(y) /\ IsTable(t)  BY <2>9, <2>12, EntryFacts
  <2>14. v = [t EXCEPT !.entries[e].fixed = b]
    <3>1. [t EXCEPT !.entries[e].fixed = b] = Sets(t, e, [t.entries[e] EXCEPT !.fixed = b])  BY <2>13, FixedIs
    <3> QED  BY <2>9, <2>11, <3>1
  <2>15. Revised(y, z) /\ Fields(z, y.name, y.class, y.declared, y.accessed, y.scope, y.home, TRUE, y.offset)
    BY <2>11, <2>12, <2>13, FixedRevised
  <2>16. z.class = "var" /\ z.scope = y.scope  BY <2>8, <2>15 DEF Fields
  <2>17. Right(t, v) /\ Reached(v, e) /\ v.entries[e] = z /\ TableInv(v)
    <3>1. z.class = "called" => t.entries[e].class = "called"  BY <2>16
    <3>2. z.scope = t.entries[e].scope \/ z.scope = "global"  BY <2>9, <2>16
    <3>3. Revised(t.entries[e], z)  BY <2>9, <2>15
    <3>4. TableInv(t) /\ CalledGlobal(t) /\ Reached(t, e)  BY <2>9, <2>10
    <3>5. v = Sets(t, e, z)  BY <2>11
    <3> QED  BY <3>1, <3>2, <3>3, <3>4, <3>5, ChangeRight
  <2>18. CalledGlobal(v)  BY <2>17 DEF Right
  <2>19. Right(s, v)
    <3>1. Right(s, t)  BY <2>2, <2>9, RightTrans
    <3> QED  BY <2>17, <3>1, RightTrans
  <2>20. v = [MarkAccessed(d.s, d.e) EXCEPT !.entries[d.e].fixed = TRUE]  BY <2>1, <2>6, <2>11, <2>14
  <2>21. c = IF v.entries[e].scope # "local" THEN Done(v, e)
             ELSE Done([v EXCEPT !.entries[e].scope = "global", !.table[1].statics = @ \cup {e}], e)
    <3>1. c = LET a == [MarkAccessed(d.s, d.e) EXCEPT !.entries[d.e].fixed = TRUE]
              IN  IF a.entries[d.e].scope # "local" THEN Done(a, d.e)
                  ELSE Done([a EXCEPT !.entries[d.e].scope = "global", !.table[1].statics = @ \cup {d.e}], d.e)
      BY <1>1, <1>4 DEF DeclareAt
    <3>2. v = [MarkAccessed(d.s, d.e) EXCEPT !.entries[d.e].fixed = TRUE] /\ e = d.e  BY <2>1, <2>20
    <3> QED  BY <3>1, <3>2, Zenon
  <2>22. CASE v.entries[e].scope # "local"
    <3>1. c.s = v  BY <2>21, <2>22 DEF Done
    <3> QED  BY <2>19, <3>1
  <2>23. CASE v.entries[e].scope = "local"
    <3>1. PICK g, y1, w : g = "global" /\ y1 = [z EXCEPT !.scope = g] /\ w = Sets(v, e, y1)  OBVIOUS
    <3>2. e \in 1 .. Len(v.entries) /\ Loose(z)  BY <2>17 DEF Reached
    <3>3. IsEntry(z) /\ Agrees(z) /\ IsTable(v)  BY <2>17, <3>2, EntryFacts
    <3>4. w = [v EXCEPT !.entries[e].scope = g]
      <4>1. [v EXCEPT !.entries[e].scope = g] = Sets(v, e, [v.entries[e] EXCEPT !.scope = g])
        <5>1. IsTable(v)  BY <3>3
        <5> QED  BY ONLY <5>1, ScopeIs
      <4> QED  BY <2>17, <3>1, <4>1
    <3>5. Revised(z, y1) /\ Fields(y1, z.name, z.class, z.declared, z.accessed, "global", z.home, z.fixed, z.offset)
      BY <3>1, <3>2, <3>3, GlobalRevised
    <3>6. y1.class = "var" /\ y1.scope = "global"  BY <2>16, <3>5 DEF Fields
    <3>7. Right(v, w) /\ TableInv(w)
      <4>1. y1.class = "called" => v.entries[e].class = "called"  BY <3>6
      <4>2. y1.scope = v.entries[e].scope \/ y1.scope = "global"  BY <3>6
      <4>3. Revised(v.entries[e], y1)  BY <2>17, <3>5
      <4> QED  BY <2>17, <2>18, <3>1, <4>1, <4>2, <4>3, ChangeRight
    <3>8. CalledGlobal(w)  BY <3>7 DEF Right
    <3>9. PICK m : m = w.table[1].statics \cup {e}  OBVIOUS
    <3>10. PICK r : r = [w EXCEPT !.table[1].statics = m]  OBVIOUS
    <3>11. Right(w, r)  BY <3>7, <3>8, <3>10, StaticsKeep
    <3>12. [v EXCEPT !.entries[e].scope = "global", !.table[1].statics = @ \cup {e}] = r
      <4>1. [v EXCEPT !.entries[e].scope = "global", !.table[1].statics = @ \cup {e}]
              = [[v EXCEPT !.entries[e].scope = "global"] EXCEPT !.table[1].statics = @ \cup {e}]
        OBVIOUS
      <4> QED  BY <3>1, <3>4, <3>9, <3>10, <4>1
    <3>13. c.s = r  BY <2>21, <2>23, <3>12 DEF Done
    <3>14. Right(s, w)  BY <2>19, <3>7, RightTrans
    <3> QED  BY <3>11, <3>13, <3>14, RightTrans
  <2> QED  BY <2>22, <2>23
<1> QED  BY <1>3, <1>4

---------------------------------------------------------------------------
(* The statements about labels and SUBs.                                    *)

\* What is referred to stays so.
LEMMA RefsKept ==
    ASSUME NEW s, TableInv(s), NEW t, Right(s, t), NEW e, Refs(s, e)
    PROVE  Refs(t, e)
<1>1. Len(s.entries) \in Nat /\ Len(t.entries) \in Nat /\ Len(s.entries) <= Len(t.entries)
  BY DEF Right, Good, Keeps, TableInv, TypesOK, IsSeq
<1>2. e \in 1 .. Len(t.entries)  BY <1>1 DEF Refs
<1> QED  BY <1>2 DEF Refs, Right, Good, Keeps

\* A DIM at the address of another name does, and will place that name.
LEMMA DeclareAliasKeeps ==
    ASSUME NEW s, TableInv(s), CalledGlobal(s), NEW id \in Names, NEW other \in Names, NEW c, c = DeclareAlias(s, id, other)
    PROVE  Right(s, c.s) /\ Refs(c.s, AddressOf(s, other).e)
<1>1. PICK a, d : a = AddressOf(s, other) /\ d = DeclareVariable(a.s, id)  OBVIOUS
<1>2. Right(s, a.s) /\ Refs(a.s, a.e)  BY <1>1, AddressOfKeeps
<1>3. PICK r : r = a.s  OBVIOUS
<1>4. TableInv(r) /\ CalledGlobal(r) /\ Right(s, r) /\ Refs(r, a.e)  BY <1>2, <1>3 DEF Right, Good
<1>5. d = DeclareVariable(r, id)  BY <1>1, <1>3
<1>6. /\ Right(r, d.s)
      /\ d.ok = "open" => Reached(d.s, d.e) /\ d.s.entries[d.e].class = "var" /\ d.s.entries[d.e].declared
  BY <1>4, <1>5, DeclareVariableKeeps
<1>7. c = IF r.entries[a.e].scope # "global" THEN Failed(r, "rejected")
          ELSE IF d.ok # "open" THEN d
          ELSE Done([d.s EXCEPT !.entries[d.e].fixed = TRUE], d.e)
  BY <1>1, <1>3 DEF DeclareAlias
<1>8. SUFFICES Right(r, c.s)
  <2>1. PICK w : w = c.s  OBVIOUS
  <2>2. Right(r, w)  BY <1>8, <2>1
  <2>3. Right(s, w) /\ Refs(w, a.e)  BY <1>4, <2>2, RightTrans, RefsKept
  <2> QED  BY <1>1, <2>1, <2>3
<1>9. CASE r.entries[a.e].scope # "global"
  <2>1. c.s = r  BY <1>7, <1>9 DEF Failed
  <2> QED  BY <1>4, <2>1, SelfRight
<1>10. CASE r.entries[a.e].scope = "global" /\ d.ok # "open"
  <2>1. c = d  BY <1>7, <1>10
  <2> QED  BY <1>6, <2>1
<1>11. CASE r.entries[a.e].scope = "global" /\ d.ok = "open"
  <2>1. PICK t, e : t = d.s /\ e = d.e  OBVIOUS
  <2>2. Right(r, t) /\ Reached(t, e) /\ TableInv(t) /\ CalledGlobal(t) /\ t.entries[e].class = "var"
    <3>1. Right(r, t) /\ Reached(t, e) /\ t.entries[e].class = "var"  BY <1>6, <1>11, <2>1
    <3> QED  BY <3>1 DEF Right, Good
  <2>3. PICK b, x, z, u : b = TRUE /\ x = t.entries[e] /\ z = [x EXCEPT !.fixed = b] /\ u = Sets(t, e, z)  OBVIOUS
  <2>4. e \in 1 .. Len(t.entries) /\ Loose(x)  BY <2>2, <2>3 DEF Reached
  <2>5. IsEntry(x) /\ Agrees(x) /\ IsTable(t)  BY <2>2, <2>3, <2>4, EntryFacts
  <2>6. u = [t EXCEPT !.entries[e].fixed = b]
    <3>1. IsTable(t)  BY <2>5
    <3>2. [t EXCEPT !.entries[e].fixed = b] = Sets(t, e, [t.entries[e] EXCEPT !.fixed = b])  BY ONLY <3>1, FixedIs
    <3> QED  BY <2>3, <3>2
  <2>7. Revised(x, z) /\ Fields(z, x.name, x.class, x.declared, x.accessed, x.scope, x.home, TRUE, x.offset)
    BY <2>3, <2>4, <2>5, FixedRevised
  <2>8. z.class = "var" /\ z.scope = x.scope  BY <2>2, <2>3, <2>7 DEF Fields
  <2>9. Right(t, u)
    <3>1. z.class = "called" => t.entries[e].class = "called"  BY <2>8
    <3>2. z.scope = t.entries[e].scope \/ z.scope = "global"  BY <2>3, <2>8
    <3>3. Revised(t.entries[e], z)  BY <2>3, <2>7
    <3>4. TableInv(t) /\ CalledGlobal(t) /\ Reached(t, e)  BY <2>2
    <3>5. u = Sets(t, e, z)  BY <2>3
    <3> QED  BY <3>1, <3>2, <3>3, <3>4, <3>5, ChangeRight
  <2>10. c.s = u
    <3>1. c = Done([d.s EXCEPT !.entries[d.e].fixed = TRUE], d.e)  BY <1>7, <1>11
    <3>2. c = Done(u, e)  BY <2>1, <2>3, <2>6, <3>1
    <3> QED  BY <3>2 DEF Done
  <2> QED  BY <1>4, <2>2, <2>9, <2>10, RightTrans
<1> QED  BY <1>9, <1>10, <1>11

\* A move keeps the table right, whether there is something to move or not.
LEMMA MoveRight ==
    ASSUME NEW s, TableInv(s), NEW id,
           Depth(s) # 1 /\ id \in DOMAIN Sym(s, Depth(s)) => Tentative(s.entries[Sym(s, Depth(s))[id]]),
           NEW t, t = MoveToGlobalScope(s, id)
    PROVE  /\ Good(s, t) /\ Depth(t) = Depth(s) /\ Len(t.entries) = Len(s.entries)
           /\ \A e \in 1 .. Len(s.entries) : t.entries[e] = s.entries[e] \/ Globalized(s.entries[e], t.entries[e])
           /\ \/ Depth(s) = 1 \/ id \notin DOMAIN Sym(s, Depth(s))
              \/ t.entries[Sym(s, Depth(s))[id]].scope = "global"
           /\ Depth(s) = 1 \/ id \notin DOMAIN Sym(s, Depth(s)) => t = s
<1>0. TypesOK(s) /\ Depth(s) \in Nat \ {0}  BY DEF TableInv, TypesOK, IsSeq, Depth
<1>1. CASE Depth(s) = 1 \/ id \notin DOMAIN Sym(s, Depth(s))
  <2>1. t = s  BY <1>1 DEF MoveToGlobalScope, Depth, Sym, Current
  <2>2. Len(s.entries) <= Len(s.entries)
    <3>1. Len(s.entries) \in Nat  BY <1>0 DEF TypesOK, IsSeq
    <3> QED  BY <3>1
  <2> QED  BY <1>1, <2>1, <2>2 DEF Good, Keeps
<1>2. CASE Depth(s) # 1 /\ id \in DOMAIN Sym(s, Depth(s))
  <2>1. Movable(s, id)  BY <1>2 DEF Movable
  <2>2. PICK e : e = Sym(s, Depth(s))[id]  OBVIOUS
  <2>3. Moved(s, id, e, t)  BY <1>0, <2>1, <2>2, MoveIs
  <2>4. Good(s, t)  BY <2>1, <2>2, <2>3, MoveKeeps
  <2>5. Depth(t) = Depth(s) /\ Len(t.entries) = Len(s.entries) /\ Globalized(s.entries[e], t.entries[e])
        /\ \A d \in 1 .. Len(s.entries) : d # e => t.entries[d] = s.entries[d]
    BY <2>3 DEF Moved
  <2>6. t.entries[e].scope = "global"  BY <2>5 DEF Globalized
  <2> QED  BY <1>2, <2>2, <2>4, <2>5, <2>6
<1> QED  BY <1>1, <1>2

\* There is one innermost scope that knows a name.
LEMMA SeenOnce ==
    ASSUME NEW s, TypesOK(s), NEW id, NEW k, Seen(s, id, k)
    PROVE  GetEntry(s.table, id) = Get(s.table[k], id)
<1>1. Depth(s) \in Nat  BY DEF TypesOK, IsSeq, Depth
<1>2. k \in 1 .. Depth(s) /\ Get(s.table[k], id) # None /\ \A i \in k + 1 .. Depth(s) : Get(s.table[i], id) = None
  BY DEF Seen
<1>3. PICK j : Seen(s, id, j) /\ GetEntry(s.table, id) = Get(s.table[j], id)  BY <1>2, EntryIs
<1>4. j \in 1 .. Depth(s) /\ Get(s.table[j], id) # None /\ \A i \in j + 1 .. Depth(s) : Get(s.table[i], id) = None
  BY <1>3 DEF Seen
<1>5. ~(j < k) /\ ~(k < j)
  <2>1. j < k => k \in j + 1 .. Depth(s)  BY <1>1, <1>2, <1>4
  <2>2. k < j => j \in k + 1 .. Depth(s)  BY <1>1, <1>2, <1>4
  <2> QED  BY <1>2, <1>4, <2>1, <2>2
<1>6. j = k  BY <1>1, <1>2, <1>4, <1>5
<1> QED  BY <1>3, <1>6

\* The entry that is to be a label, and the table with it.
Labelled(s, id, t, e) ==
    LET K == Depth(s)
        here == Get(s.table[K], id)
        there == Get(s.table[1], id)
    IN  /\ t = IF here = None /\ there = None THEN Declare(s, id, "label") ELSE s
        /\ e = IF here # None THEN here ELSE IF there # None THEN there ELSE Len(t.entries)
LabelReady(s, id, t, e) ==
    /\ Right(s, t) /\ Reached(t, e) /\ Depth(t) = Depth(s)
    /\ GetEntry(s.table, id) = None => ~ t.entries[e].declared
    /\ Depth(s) # 1 /\ id \in DOMAIN Sym(t, Depth(s)) => Sym(t, Depth(s))[id] = e /\ ~ t.entries[e].declared

\* After the first steps of a label its entry may move to the global scope.
LEMMA LabelledReady ==
    ASSUME NEW s, TableInv(s), CalledGlobal(s), NEW id \in Names, NEW t, NEW e, Labelled(s, id, t, e),
           ~ (GetEntry(s.table, id) # None /\ s.entries[GetEntry(s.table, id)].declared)
    PROVE  LabelReady(s, id, t, e)
<1> DEFINE K == Depth(s)
           n == Len(s.entries)
<1>1. K \in 1 .. K /\ 1 \in 1 .. K /\ n \in Nat /\ TypesOK(s)  BY DEF TableInv, TypesOK, IsSeq, Depth
<1>2. PICK here, there : here = Get(s.table[K], id) /\ there = Get(s.table[1], id)  OBVIOUS
<1>3. t = (IF here = None /\ there = None THEN Declare(s, id, "label") ELSE s)
      /\ e = (IF here # None THEN here ELSE IF there # None THEN there ELSE Len(t.entries))
  BY <1>2, Zenon DEF Labelled
<1> HIDE DEF K, n
<1>4. CASE here # None
  <2>1. t = s /\ e = here  BY <1>3, <1>4
  <2>2. GetEntry(s.table, id) = here  BY <1>1, <1>2, <1>4, CurrentFirst DEF K
  <2>3. Reached(s, here)  BY <1>1, <1>2, <1>4, SeenReached DEF K
  <2>4. ~ s.entries[e].declared /\ GetEntry(s.table, id) # None  BY <1>4, <2>1, <2>2
  <2>5. id \in DOMAIN Sym(s, K) => Sym(s, K)[id] = e  BY <1>2, <2>1, GetIs DEF Sym
  <2>6. Right(s, s)  BY SelfRight
  <2> QED  BY <2>1, <2>3, <2>4, <2>5, <2>6 DEF LabelReady, K
<1>5. CASE here = None /\ there # None
  <2>1. t = s /\ e = there  BY <1>3, <1>5
  <2>2. GetEntry(s.table, id) # None
    <3>1. SUFFICES ASSUME GetEntry(s.table, id) = None PROVE FALSE  OBVIOUS
    <3>2. \A k : ~(Seen(s, id, k) /\ GetEntry(s.table, id) = Get(s.table[k], id))  BY <3>1 DEF Seen
    <3>3. Get(s.table[1], id) = None  BY <1>1, <3>2, EntryIs DEF K
    <3> QED  BY <1>2, <1>5, <3>3
  <2>3. Reached(s, there)  BY <1>1, <1>2, <1>5, SeenReached DEF K
  <2>4. id \notin DOMAIN Sym(s, K)  BY <1>1, <1>2, <1>5, KnownIs DEF K
  <2>5. Right(s, s)  BY SelfRight
  <2> QED  BY <2>1, <2>2, <2>3, <2>4, <2>5 DEF LabelReady, K
<1>6. CASE here = None /\ there = None
  <2>1. PICK x : x = NewEntry(s.table, id, "label")  OBVIOUS
  <2>2. t = Adds(s, id, x)  BY <1>3, <1>6, <2>1, DeclareIs
  <2>3. IsEntry(x) /\ Fields(x, id, "label", FALSE, FALSE, NewScope(s, "label"), Ns(s, K), FALSE, None)
    BY <1>1, <2>1, NewEntryIs DEF Classes, K
  <2>4. x.name = id /\ x.class = "label" /\ ~ x.declared /\ x.scope = "global" /\ x.home = Ns(s, K) /\ x.offset = None
    BY <2>3 DEF Fields, NewScope
  <2>5. \A k : Seen(s, id, k) => ~ s.entries[Get(s.table[k], id)].declared
    <3>1. SUFFICES ASSUME NEW k, Seen(s, id, k) PROVE ~ s.entries[Get(s.table[k], id)].declared  OBVIOUS
    <3>2. GetEntry(s.table, id) = Get(s.table[k], id)  BY <1>1, <3>1, SeenOnce
    <3>3. Get(s.table[k], id) # None  BY <3>1 DEF Seen
    <3> QED  BY <3>2, <3>3
  <2>6. Addable(s, id, x)
    <3>1. ClassOf(x) # "unknown" /\ x.class # "sub"  BY <2>4 DEF ClassOf
    <3> QED  BY <1>2, <1>6, <2>3, <2>4, <2>5, <3>1 DEF Addable, K
  <2>7. /\ Added(s, id, x, t) /\ Good(s, t) /\ Get(t.table[K], id) = n + 1 /\ GetEntry(t.table, id) = n + 1
        /\ t.entries[n + 1] = x /\ Len(t.entries) = n + 1 /\ Depth(t) = K /\ CalledGlobal(t)
    BY <2>2, <2>4, <2>6, AddsKeeps DEF K, n
  <2>8. e = n + 1  BY <1>3, <1>6, <2>7
  <2>9. TableInv(t) /\ n + 1 # None  BY <1>1, <2>7 DEF Good, None
  <2>10. Reached(t, e)  BY <2>7, <2>8, <2>9, EntryReached
  <2>11. id \in DOMAIN Sym(t, K) => Sym(t, K)[id] = e  BY <2>7, <2>8, GetIs DEF Sym
  <2> QED  BY <2>4, <2>7, <2>8, <2>10, <2>11 DEF LabelReady, K, Right
<1> QED  BY <1>4, <1>5, <1>6

\* It becomes a label and moves.
LabelDone(s, m, e, seen) ==
    /\ Right(s, m) /\ e \in 1 .. Len(m.entries) /\ m.entries[e].class = "label" /\ Loose(m.entries[e])
    /\ seen = None => ~ m.entries[e].declared
\* After the move the label is global, and no other entry has changed.
LEMMA LabelMoves ==
    ASSUME NEW s, TableInv(s), NEW id, NEW t, NEW e, LabelReady(s, id, t, e),
           ClassOf(t.entries[e]) \in {"unknown", "label"}, NEW m, m = MoveToGlobalScope(ToLabel(t, e), id)
    PROVE  LabelDone(s, m, e, GetEntry(s.table, id))
<1> DEFINE K == Depth(s)
<1>1. Right(s, t) /\ Reached(t, e) /\ Depth(t) = K /\ TableInv(t) /\ CalledGlobal(t)  BY DEF LabelReady, Right, Good
<1>2. GetEntry(s.table, id) = None => ~ t.entries[e].declared  BY DEF LabelReady
<1>3. K # 1 /\ id \in DOMAIN Sym(t, K) => Sym(t, K)[id] = e /\ ~ t.entries[e].declared  BY DEF LabelReady
<1> HIDE DEF K
<1>4. PICK x, y, u : /\ x = t.entries[e]
                     /\ y = [x EXCEPT !.class = "label", !.mangled = LabelName(x.name)] /\ u = Sets(t, e, y)
  OBVIOUS
<1>5. e \in 1 .. Len(t.entries) /\ Loose(x)  BY <1>1, <1>4 DEF Reached
<1>6. IsEntry(x) /\ Agrees(x) /\ IsTable(t)  BY <1>1, <1>4, <1>5, EntryFacts
<1>7. u = ToLabel(t, e)  BY <1>4, <1>5, <1>6, ToVarIs
<1>8. Revised(x, y) /\ Fields(y, x.name, "label", x.declared, x.accessed, x.scope, x.home, x.fixed, x.offset)
  BY <1>4, <1>5, <1>6, LabelRevised
<1>9. y.class = "label" /\ y.scope = x.scope /\ y.declared = x.declared  BY <1>8 DEF Fields
<1>10. Right(t, u) /\ u.table = t.table /\ u.entries[e] = y /\ Reached(u, e) /\ TableInv(u) /\ Len(u.entries) = Len(t.entries)
  <2>1. y.class = "called" => t.entries[e].class = "called"  BY <1>9
  <2>2. y.scope = t.entries[e].scope \/ y.scope = "global"  BY <1>4, <1>9
  <2>3. Revised(t.entries[e], y)  BY <1>4, <1>8
  <2>4. TableInv(t) /\ CalledGlobal(t) /\ Reached(t, e)  BY <1>1
  <2>5. u = Sets(t, e, y)  BY <1>4
  <2> QED  BY <2>1, <2>2, <2>3, <2>4, <2>5, ChangeRight
<1>11. Depth(u) = K /\ Sym(u, K) = Sym(t, K)  BY <1>1, <1>10 DEF Depth, Sym
<1>12. Depth(u) # 1 /\ id \in DOMAIN Sym(u, Depth(u)) => Tentative(u.entries[Sym(u, Depth(u))[id]])
  <2>1. SUFFICES ASSUME K # 1, id \in DOMAIN Sym(t, K) PROVE Tentative(u.entries[Sym(t, K)[id]])  BY <1>11
  <2>2. Sym(t, K)[id] = e /\ ~ y.declared  BY <1>3, <1>4, <1>9, <2>1
  <2> QED  BY <1>9, <1>10, <2>2 DEF Tentative, ClassOf
<1>13. m = MoveToGlobalScope(u, id)  BY <1>7
<1>14. /\ Good(u, m) /\ Len(m.entries) = Len(u.entries)
       /\ \A d \in 1 .. Len(u.entries) : m.entries[d] = u.entries[d] \/ Globalized(u.entries[d], m.entries[d])
  BY <1>10, <1>12, <1>13, MoveRight
<1>15. CalledGlobal(u)  BY <1>10 DEF Right
<1>16. CalledGlobal(m)
  <2>1. SUFFICES ASSUME NEW d \in 1 .. Len(u.entries), m.entries[d].class = "called" PROVE m.entries[d].scope = "global"
    BY <1>14 DEF CalledGlobal
  <2>2. CASE m.entries[d] = u.entries[d]  BY <1>15, <2>1, <2>2 DEF CalledGlobal
  <2>3. CASE Globalized(u.entries[d], m.entries[d])  BY <2>3 DEF Globalized
  <2> QED  BY <1>14, <2>2, <2>3
<1>17. e \in 1 .. Len(m.entries)  BY <1>5, <1>10, <1>14
<1>18. Loose(y)  BY <1>10 DEF Reached
<1>19. m.entries[e].class = "label" /\ m.entries[e].declared = x.declared /\ Loose(m.entries[e])
  <2>1. m.entries[e] = y \/ Globalized(y, m.entries[e])  BY <1>5, <1>10, <1>14
  <2>2. CASE m.entries[e] = y  BY <1>9, <1>18, <2>2
  <2>3. CASE Globalized(y, m.entries[e])  BY <1>9, <2>3 DEF Globalized, Loose
  <2> QED  BY <2>1, <2>2, <2>3
<1>20. Right(u, m)  BY <1>14, <1>16 DEF Right
<1>21. Right(s, m)
  <2>1. Right(s, u)  BY <1>1, <1>10, RightTrans
  <2> QED  BY <1>20, <2>1, RightTrans
<1> QED  BY <1>2, <1>4, <1>17, <1>19, <1>21 DEF LabelDone

---------------------------------------------------------------------------
\* A label or a SUB needs no place on a frame.
LEMMA LabelRefs ==
    ASSUME NEW s, NEW e \in 1 .. Len(s.entries), s.entries[e].class \in {"label", "sub"}
    PROVE  Refs(s, e)
BY DEF Refs, Awaits

\* A label that has been declared.
LabelOpen(s, id, d) ==
    \E m, e : LabelDone(s, m, e, GetEntry(s.table, id)) /\ d = Done([m EXCEPT !.entries[e].declared = TRUE], e)

\* What a label that is declared at a table m becomes.
LEMMA DeclareLabelIs ==
    ASSUME NEW s, TableInv(s), CalledGlobal(s), NEW id \in Names, NEW d, d = DeclareLabel(s, id)
    PROVE  \/ d = Failed(s, "rejected") /\ GetEntry(s.table, id) # None
           \/ d = Failed(s, "crashed") /\ GetEntry(s.table, id) # None
           \/ LabelOpen(s, id, d)
<1> DEFINE seen == GetEntry(s.table, id)
           rejected == seen # None /\ s.entries[seen].declared
<1>1. PICK here, there : here = Get(s.table[Depth(s)], id) /\ there = Get(s.table[1], id)  OBVIOUS
<1>2. PICK t : t = IF here = None /\ there = None THEN Declare(s, id, "label") ELSE s  OBVIOUS
<1>3. PICK e : e = IF here # None THEN here ELSE IF there # None THEN there ELSE Len(t.entries)  OBVIOUS
<1>4. Labelled(s, id, t, e)  BY <1>1, <1>2, <1>3 DEF Labelled
<1>5. PICK m : m = MoveToGlobalScope(ToLabel(t, e), id)  OBVIOUS
<1>6. d = IF rejected THEN Failed(s, "rejected")
          ELSE IF ClassOf(t.entries[e]) \notin {"unknown", "label"} THEN Failed(s, "crashed")
          ELSE Done([m EXCEPT !.entries[e].declared = TRUE], e)
  <2>1. Current(s.table) = s.table[Depth(s)] /\ Global(s.table) = s.table[1]  BY DEF Current, Global, Depth
  <2> QED  BY <1>1, <1>2, <1>3, <1>5, <2>1 DEF DeclareLabel
<1>7. CASE rejected
  <2>1. d = Failed(s, "rejected") /\ seen # None  BY <1>6, <1>7
  <2> QED  BY <2>1
<1>8. CASE ~ rejected
  <2>1. LabelReady(s, id, t, e)  BY <1>4, <1>8, LabelledReady
  <2>2. CASE ClassOf(t.entries[e]) \in {"unknown", "label"}
    <3>1. LabelDone(s, m, e, seen)  BY <1>5, <2>1, <2>2, LabelMoves
    <3>2. d = Done([m EXCEPT !.entries[e].declared = TRUE], e)  BY <1>6, <1>8, <2>2
    <3> QED  BY <3>1, <3>2 DEF LabelOpen
  <2>3. CASE ClassOf(t.entries[e]) \notin {"unknown", "label"}
    <3>1. d = Failed(s, "crashed")  BY <1>6, <1>8, <2>3
    <3>2. seen # None
      <4>1. SUFFICES ASSUME seen = None PROVE FALSE  OBVIOUS
      <4>2. TypesOK(s) /\ 1 \in 1 .. Depth(s) /\ Depth(s) \in 1 .. Depth(s)  BY DEF TableInv, TypesOK, IsSeq, Depth
      <4>3. \A k : ~(Seen(s, id, k) /\ seen = Get(s.table[k], id))  BY <4>1 DEF Seen
      <4>4. here = None /\ there = None  BY <1>1, <4>2, <4>3, EntryIs
      <4>5. PICK x : x = NewEntry(s.table, id, "label")  OBVIOUS
      <4>6. t = Adds(s, id, x)  BY <1>2, <4>4, <4>5, DeclareIs
      <4>7. e = Len(t.entries)  BY <1>3, <4>4
      <4>8. Len(t.entries) = Len(s.entries) + 1 /\ t.entries[Len(s.entries) + 1] = x
        <5>1. t.entries = Append(s.entries, x) /\ IsSeq(s.entries)  BY <4>2, <4>6 DEF Adds, TypesOK
        <5> QED  BY <5>1, AppendIs
      <4>9. Fields(x, id, "label", FALSE, FALSE, NewScope(s, "label"), Ns(s, Depth(s)), FALSE, None)
        BY <4>2, <4>5, NewEntryIs DEF Classes
      <4>10. ClassOf(x) = "label"  BY <4>9 DEF Fields, ClassOf
      <4> QED  BY <2>3, <4>7, <4>8, <4>10
    <3> QED  BY <3>1, <3>2
  <2> QED  BY <2>2, <2>3
<1> QED  BY <1>7, <1>8

\* An entry of any kind is changed.
LEMMA SetsRight ==
    ASSUME NEW s, TableInv(s), CalledGlobal(s), NEW e \in 1 .. Len(s.entries), NEW y, Revised(s.entries[e], y),
           y.class = "called" => y.scope = "global", NEW t, t = Sets(s, e, y)
    PROVE  Right(s, t) /\ t.entries[e] = y /\ Len(t.entries) = Len(s.entries)
BY SetsIs DEF Right

\* It is declared.
LEMMA LabelDeclared ==
    ASSUME NEW s, TableInv(s), NEW m, NEW e, NEW seen, LabelDone(s, m, e, seen), NEW t, t = [m EXCEPT !.entries[e].declared = TRUE]
    PROVE  Right(s, t) /\ Refs(t, e)
<1>1. Right(s, m) /\ e \in 1 .. Len(m.entries) /\ m.entries[e].class = "label" /\ Loose(m.entries[e])
      /\ TableInv(m) /\ CalledGlobal(m)
  BY DEF LabelDone, Right, Good
<1>2. PICK b, x, z : b = TRUE /\ x = m.entries[e] /\ z = [x EXCEPT !.declared = b]  OBVIOUS
<1>3. IsEntry(x) /\ IsTable(m)  BY <1>1, <1>2, EntryFacts
<1>4. t = Sets(m, e, z)
  <2>1. IsTable(m)  BY <1>3
  <2>2. [m EXCEPT !.entries[e].declared = b] = Sets(m, e, [m.entries[e] EXCEPT !.declared = b])  BY ONLY <2>1, DeclaredIs
  <2> QED  BY <1>2, <2>2
<1>5. Revised(x, z) /\ Fields(z, x.name, x.class, TRUE, x.accessed, x.scope, x.home, x.fixed, x.offset)
  BY <1>1, <1>2, <1>3, DeclaredRevised
<1>6. z.class = "label"  BY <1>1, <1>2, <1>5 DEF Fields
<1>7. Right(m, t) /\ t.entries[e] = z /\ Len(t.entries) = Len(m.entries)
  <2>1. Revised(m.entries[e], z)  BY <1>2, <1>5
  <2>2. z.class = "called" => z.scope = "global"  BY <1>6
  <2>3. TableInv(m)  BY <1>1
  <2>4. CalledGlobal(m)  BY <1>1
  <2>5. e \in 1 .. Len(m.entries)  BY <1>1
  <2> QED  BY ONLY <1>4, <2>1, <2>2, <2>3, <2>4, <2>5, SetsRight
<1>8. Refs(t, e)  BY <1>1, <1>6, <1>7, LabelRefs
<1>9. Right(m, t)  BY <1>7
<1> QED  BY <1>1, <1>8, <1>9, RightTrans

\* The declaration of a label keeps the table right.
LEMMA DeclareLabelKeeps ==
    ASSUME NEW s, TableInv(s), CalledGlobal(s), NEW id \in Names, NEW d, d = DeclareLabel(s, id)
    PROVE  Right(s, d.s) /\ (d.ok = "open" => Refs(d.s, d.e))
<1>1. CASE d = Failed(s, "rejected") \/ d = Failed(s, "crashed")
  <2>1. d.s = s /\ d.ok # "open"  BY <1>1 DEF Failed
  <2> QED  BY <2>1, SelfRight
<1>2. ASSUME NEW m, NEW e, LabelDone(s, m, e, GetEntry(s.table, id)), d = Done([m EXCEPT !.entries[e].declared = TRUE], e)
      PROVE  Right(s, d.s) /\ (d.ok = "open" => Refs(d.s, d.e))
  <2>1. PICK t : t = [m EXCEPT !.entries[e].declared = TRUE]  OBVIOUS
  <2>2. d.s = t /\ d.e = e  BY <1>2, <2>1 DEF Done
  <2>3. Right(s, t) /\ Refs(t, e)  BY <1>2, <2>1, LabelDeclared
  <2> QED  BY <2>2, <2>3
<1>3. CASE LabelOpen(s, id, d)  BY <1>2, <1>3 DEF LabelOpen
<1> QED  BY <1>1, <1>3, DeclareLabelIs

\* So does a reference to one.
LEMMA AccessLabelKeeps ==
    ASSUME NEW s, TableInv(s), CalledGlobal(s), NEW id \in Names, NEW c, c = AccessLabel(s, id)
    PROVE  Right(s, c.s) /\ (c.ok = "open" => Refs(c.s, c.e))
<1>1. PICK e, d : e = GetEntry(s.table, id) /\ d = DeclareLabel(s, id)  OBVIOUS
<1>2. c = IF e = None THEN Done([d.s EXCEPT !.entries[d.e].declared = FALSE], d.e)
          ELSE IF ClassOf(s.entries[e]) \notin {"unknown", "label"} THEN Failed(s, "rejected")
          ELSE Done(IF s.entries[e].class = "label" THEN s ELSE ToLabel(s, e), e)
  BY <1>1 DEF AccessLabel
<1>3. CASE e = None
  <2>1. PICK m, f : LabelDone(s, m, f, e) /\ d = Done([m EXCEPT !.entries[f].declared = TRUE], f)
    <3>1. d = DeclareLabel(s, id) /\ GetEntry(s.table, id) = None /\ GetEntry(s.table, id) = e  BY <1>1, <1>3
    <3>2. LabelOpen(s, id, d)  BY <3>1, DeclareLabelIs
    <3> QED  BY <3>1, <3>2, Zenon DEF LabelOpen
  <2>2. Right(s, m) /\ f \in 1 .. Len(m.entries) /\ m.entries[f].class = "label" /\ Loose(m.entries[f])
        /\ ~ m.entries[f].declared /\ TableInv(m) /\ CalledGlobal(m)
    BY <1>3, <2>1 DEF LabelDone, Right, Good
  <2>3. PICK b, x, z, t : b = TRUE /\ x = m.entries[f] /\ z = [x EXCEPT !.declared = b] /\ t = Sets(m, f, z)  OBVIOUS
  <2>4. IsEntry(x) /\ IsTable(m) /\ Agrees(x)  BY <2>2, <2>3, EntryFacts
  <2>5. t = [m EXCEPT !.entries[f].declared = b]
    <3>1. IsTable(m)  BY <2>4
    <3>2. [m EXCEPT !.entries[f].declared = b] = Sets(m, f, [m.entries[f] EXCEPT !.declared = b])  BY ONLY <3>1, DeclaredIs
    <3> QED  BY <2>3, <3>2
  <2>6. d = Done(t, f)  BY <2>1, <2>3, <2>5
  <2>7. d.s = t /\ d.e = f  BY <2>6 DEF Done
  <2>8. PICK g, y, u : g = FALSE /\ y = [x EXCEPT !.declared = g] /\ u = Sets(m, f, y)  OBVIOUS
  <2>9. IsSeq(m.entries) /\ f \in DOMAIN m.entries  BY <2>2, <2>4 DEF IsTable, IsSeq
  <2>10. t.entries[f] = z /\ t.table = m.table /\ t.entries = [m.entries EXCEPT ![f] = z]  BY <2>3, <2>9 DEF Sets
  <2>11. IsTable(t)
    <3>1. Good(m, t)
      <4>1. Revised(x, z) /\ Fields(z, x.name, x.class, TRUE, x.accessed, x.scope, x.home, x.fixed, x.offset)
        BY <2>2, <2>3, <2>4, DeclaredRevised
      <4>2. Revised(m.entries[f], z)  BY <2>3, <4>1
      <4> QED  BY <2>2, <2>3, <4>2, SetsIs
    <3> QED  BY <3>1 DEF Good, TableInv, TypesOK, IsTable
  <2>12. [t EXCEPT !.entries[f].declared = g] = u
    <3>1. [t EXCEPT !.entries[f].declared = g] = Sets(t, f, [t.entries[f] EXCEPT !.declared = g])  BY ONLY <2>11, DeclaredIs
    <3>2. [z EXCEPT !.declared = g] = y
      <4>1. PICK a1, a2, a3, a4, a5, a6, a7, a8, a9 :
              x = [name |-> a1, class |-> a2, declared |-> a3, accessed |-> a4, scope |-> a5, home |-> a6,
                   fixed |-> a7, offset |-> a8, mangled |-> a9]
        BY <2>4, Zenon DEF IsEntry
      <4>2. z = [name |-> a1, class |-> a2, declared |-> b, accessed |-> a4, scope |-> a5, home |-> a6,
                 fixed |-> a7, offset |-> a8, mangled |-> a9]
        <5>1. z = [x EXCEPT !.declared = b]  BY <2>3
        <5> QED  BY ONLY <4>1, <5>1, EntryWith
      <4>3. y = [name |-> a1, class |-> a2, declared |-> g, accessed |-> a4, scope |-> a5, home |-> a6,
                 fixed |-> a7, offset |-> a8, mangled |-> a9]
        <5>1. y = [x EXCEPT !.declared = g]  BY <2>8
        <5> QED  BY ONLY <4>1, <5>1, EntryWith
      <4>4. [z EXCEPT !.declared = g] = [name |-> a1, class |-> a2, declared |-> g, accessed |-> a4, scope |-> a5, home |-> a6,
                 fixed |-> a7, offset |-> a8, mangled |-> a9]
        BY ONLY <4>2, EntryWith
      <4> QED  BY <4>3, <4>4
    <3>3. [t.entries EXCEPT ![f] = y] = [m.entries EXCEPT ![f] = y]  BY <2>10
    <3> QED  BY <2>8, <2>10, <3>1, <3>2, <3>3 DEF Sets
  <2>13. IsEntry(y) /\ Fields(y, x.name, x.class, g, x.accessed, x.scope, x.home, x.fixed, x.offset)
    <3>1. g \in BOOLEAN /\ y = [x EXCEPT !.declared = g]  BY <2>8
    <3> QED  BY <2>4, <3>1, DeclaredSet
  <2>14. Revised(x, y) /\ y.class = "label"
    <3>1. x.class = "label" /\ ~ x.declared /\ Loose(x)  BY <2>2, <2>3
    <3>2. y.name = x.name /\ y.class = x.class /\ y.declared = FALSE /\ y.accessed = x.accessed /\ y.scope = x.scope
          /\ y.home = x.home /\ y.fixed = x.fixed /\ y.offset = x.offset
      BY <2>8, <2>13 DEF Fields
    <3> QED  BY <2>13, <3>1, <3>2 DEF Revised, IsSet, Tentative, ClassOf
  <2>15. Good(m, u) /\ CalledGlobal(u) /\ u.entries[f] = y /\ Len(u.entries) = Len(m.entries)
    <3>1. Revised(m.entries[f], y)  BY <2>3, <2>14
    <3>2. y.class = "called" => y.scope = "global"  BY <2>14
    <3>3. TableInv(m) /\ CalledGlobal(m) /\ f \in 1 .. Len(m.entries)  BY <2>2
    <3>4. u = Sets(m, f, y)  BY <2>8
    <3> QED  BY <3>1, <3>2, <3>3, <3>4, SetsIs
  <2>16. Right(s, u) /\ Refs(u, f)
    <3>1. Right(m, u)  BY <2>15 DEF Right
    <3> QED  BY <2>2, <2>14, <2>15, <3>1, RightTrans, LabelRefs
  <2>17. c = Done([d.s EXCEPT !.entries[d.e].declared = FALSE], d.e)  BY <1>2, <1>3
  <2>18. c = Done(u, f)  BY <2>7, <2>8, <2>12, <2>17
  <2> QED  BY <2>16, <2>18 DEF Done
<1>4. CASE e # None /\ ClassOf(s.entries[e]) \notin {"unknown", "label"}
  <2>1. c = Failed(s, "rejected")  BY <1>2, <1>4
  <2> QED  BY <2>1, SelfRight DEF Failed
<1>5. CASE e # None /\ ClassOf(s.entries[e]) \in {"unknown", "label"}
  <2>1. Reached(s, e)  BY <1>1, <1>5, EntryReached
  <2>2. PICK x, y, u : /\ x = s.entries[e]
                       /\ y = [x EXCEPT !.class = "label", !.mangled = LabelName(x.name)] /\ u = Sets(s, e, y)
    OBVIOUS
  <2>3. e \in 1 .. Len(s.entries) /\ Loose(x)  BY <2>1, <2>2 DEF Reached
  <2>4. IsEntry(x) /\ Agrees(x) /\ IsTable(s)  BY <2>2, <2>3, EntryFacts
  <2>5. CASE x.class = "label"
    <3>1. c = Done(s, e)  BY <1>2, <1>5, <2>2, <2>5
    <3>2. Refs(s, e)  BY <2>2, <2>3, <2>5, LabelRefs
    <3> QED  BY <3>1, <3>2, SelfRight DEF Done
  <2>6. CASE x.class # "label"
    <3>1. u = ToLabel(s, e)  BY <2>2, <2>3, <2>4, ToVarIs
    <3>2. Revised(x, y) /\ Fields(y, x.name, "label", x.declared, x.accessed, x.scope, x.home, x.fixed, x.offset)
      BY <1>5, <2>2, <2>3, <2>4, LabelRevised
    <3>3. y.class = "label" /\ y.scope = x.scope  BY <3>2 DEF Fields
    <3>4. Right(s, u) /\ u.entries[e] = y /\ Len(u.entries) = Len(s.entries)
      <4>1. y.class = "called" => s.entries[e].class = "called"  BY <3>3
      <4>2. y.scope = s.entries[e].scope \/ y.scope = "global"  BY <2>2, <3>3
      <4>3. Revised(s.entries[e], y)  BY <2>2, <3>2
      <4>4. u = Sets(s, e, y)  BY <2>2
      <4> QED  BY <2>1, <4>1, <4>2, <4>3, <4>4, ChangeRight
    <3>5. Refs(u, e)  BY <2>3, <3>3, <3>4, LabelRefs
    <3>6. c = Done(u, e)  BY <1>2, <1>5, <2>2, <2>6, <3>1
    <3> QED  BY <3>4, <3>5, <3>6 DEF Done
  <2> QED  BY <2>5, <2>6
<1> QED  BY <1>3, <1>4, <1>5

---------------------------------------------------------------------------
\* The change of an entry that becomes a SUB.
ToSub(s, e, g) == [s EXCEPT !.entries[e].class = "sub", !.entries[e].declared = TRUE, !.entries[e].mangled = g]
SubOf(x, g) == [x EXCEPT !.class = "sub", !.declared = TRUE, !.mangled = g]
\* A declaration of a SUB changes one entry.
LEMMA SubIs ==
    ASSUME NEW s, IsTable(s), NEW e \in 1 .. Len(s.entries), NEW g
    PROVE  ToSub(s, e, g) = Sets(s, e, SubOf(s.entries[e], g))
<1>1. PICK p, q : s = [table |-> p, entries |-> q]  BY Zenon DEF IsTable
<1>2. s.table = p /\ s.entries = q  BY <1>1
<1>3. PICK l, b, x, y, w, z : /\ l = "sub" /\ b = TRUE /\ x = q[e] /\ y = [x EXCEPT !.class = l] /\ w = [y EXCEPT !.declared = b]
                              /\ z = [x EXCEPT !.class = l, !.declared = b, !.mangled = g]
  OBVIOUS
<1>4. z = [w EXCEPT !.mangled = g]  BY <1>3
<1>5. [s EXCEPT !.entries[e].class = l] = [table |-> p, entries |-> [q EXCEPT ![e] = [q[e] EXCEPT !.class = l]]]
  BY <1>1, ClassDeep
<1>6. PICK u, r : u = [table |-> p, entries |-> r] /\ r = [q EXCEPT ![e] = y] /\ u = [s EXCEPT !.entries[e].class = l]
  BY <1>3, <1>5
<1>7. e \in DOMAIN q  BY <1>2 DEF IsTable, IsSeq
<1>8. r[e] = y /\ e \in DOMAIN r  BY <1>6, <1>7
<1>9. [u EXCEPT !.entries[e].declared = b] = [table |-> p, entries |-> [r EXCEPT ![e] = [r[e] EXCEPT !.declared = b]]]
  <2>1. u = [table |-> p, entries |-> r]  BY <1>6
  <2> QED  BY <2>1, DeclaredDeep
<1>10. PICK v, a : v = [table |-> p, entries |-> a] /\ a = [r EXCEPT ![e] = w] /\ v = [u EXCEPT !.entries[e].declared = b]
  BY <1>3, <1>8, <1>9
<1>11. a[e] = w  BY <1>8, <1>10
<1>12. [v EXCEPT !.entries[e].mangled = g] = [table |-> p, entries |-> [a EXCEPT ![e] = [a[e] EXCEPT !.mangled = g]]]
  <2>1. v = [table |-> p, entries |-> a]  BY <1>10
  <2> QED  BY <2>1, MangledDeep
<1>13. [a EXCEPT ![e] = z] = [q EXCEPT ![e] = z]  BY ONLY <1>6, <1>10
<1>14. [s EXCEPT !.entries[e].class = l, !.entries[e].declared = b, !.entries[e].mangled = g] = [v EXCEPT !.entries[e].mangled = g]
  BY <1>6, <1>10
<1>15. [v EXCEPT !.entries[e].mangled = g] = Sets(s, e, z)
  BY <1>2, <1>4, <1>11, <1>12, <1>13 DEF Sets
<1>16. ToSub(s, e, g) = [s EXCEPT !.entries[e].class = l, !.entries[e].declared = b, !.entries[e].mangled = g]
  BY <1>3 DEF ToSub
<1>17. z = SubOf(s.entries[e], g)  BY <1>2, <1>3 DEF SubOf
<1> QED  BY <1>14, <1>15, <1>16, <1>17

\* A SUB that may begin: its name is taken, its namespace is not.
Begins(s, id) == Held(s, Depth(s), id) /\ ~ Used(s, Child(Ns(s, Depth(s)), id))

\* A name that no scope knows.
LEMMA NoneSeen ==
    ASSUME NEW s, TypesOK(s), NEW id, GetEntry(s.table, id) = None
    PROVE  (\A k \in 1 .. Depth(s) : Get(s.table[k], id) = None) /\ \A k : ~ Seen(s, id, k)
<1>1. \A k : ~(Seen(s, id, k) /\ GetEntry(s.table, id) = Get(s.table[k], id))  BY DEF Seen
<1> QED  BY <1>1, EntryIs DEF Seen

\* A name that is not found, or not declared, has not been entered.
LEMMA NotUsed ==
    ASSUME NEW s, TableInv(s), NEW id \in Names,
           GetEntry(s.table, id) = None \/ ~ s.entries[GetEntry(s.table, id)].declared
    PROVE  ~ Used(s, Child(Ns(s, Depth(s)), id))
<1> DEFINE K == Depth(s)
<1>1. K \in 1 .. K /\ TypesOK(s) /\ Taken(s)  BY DEF TableInv, TypesOK, IsSeq, Depth
<1>2. SUFFICES ASSUME Used(s, Child(Ns(s, K), id)) PROVE FALSE  OBVIOUS
<1>3. Held(s, K, id)  BY <1>1, <1>2 DEF Taken
<1>4. PICK j \in 1 .. K : /\ Get(s.table[j], id) # None /\ \A i \in j + 1 .. K : Get(s.table[i], id) = None
                          /\ s.entries[Get(s.table[j], id)].declared
  BY <1>3 DEF Held
<1>5. Seen(s, id, j)  BY <1>4 DEF Seen
<1>6. GetEntry(s.table, id) = Get(s.table[j], id)  BY <1>1, <1>5, SeenOnce
<1> QED  BY <1>4, <1>6

\* What the table is after an addition.
LEMMA AddsRight ==
    ASSUME NEW s, TableInv(s), CalledGlobal(s), NEW id, NEW x, Addable(s, id, x),
           x.class = "called" => x.scope = "global", NEW t, t = Adds(s, id, x)
    PROVE  /\ Added(s, id, x, t) /\ Good(s, t) /\ CalledGlobal(t) /\ Depth(t) = Depth(s)
           /\ Get(t.table[Depth(s)], id) = Len(s.entries) + 1 /\ GetEntry(t.table, id) = Len(s.entries) + 1
           /\ t.entries[Len(s.entries) + 1] = x /\ Len(t.entries) = Len(s.entries) + 1
BY AddsKeeps

\* A new SUB keeps the table right, and may begin.
LEMMA NewSubKeeps ==
    ASSUME NEW s, TableInv(s), CalledGlobal(s), NEW id \in Names, GetEntry(s.table, id) = None, NEW d,
           d = [Declare(s, id, "sub") EXCEPT !.entries[Len(Declare(s, id, "sub").entries)].declared = TRUE]
    PROVE  Right(s, d) /\ Begins(d, id)
<1> DEFINE K == Depth(s)
           n == Len(s.entries)
<1>1. K \in 1 .. K /\ 1 \in 1 .. K /\ n \in Nat /\ TypesOK(s) /\ IsTable(s) /\ Folded(s)
  BY DEF TableInv, TypesOK, IsSeq, Depth, IsTable
<1>2. PICK x, t, b, y : /\ x = NewEntry(s.table, id, "sub") /\ t = Adds(s, id, x) /\ b = TRUE
                        /\ y = [x EXCEPT !.declared = b]
  OBVIOUS
<1>3. t = Declare(s, id, "sub")  BY <1>2, DeclareIs
<1>4. IsEntry(x) /\ Fields(x, id, "sub", FALSE, FALSE, NewScope(s, "sub"), Ns(s, K), FALSE, None)
  BY <1>1, <1>2, NewEntryIs DEF Classes
<1>5. IsEntry(y) /\ Fields(y, x.name, x.class, b, x.accessed, x.scope, x.home, x.fixed, x.offset)
  BY <1>2, <1>4, DeclaredSet
<1>6. y.name = id /\ y.class = "sub" /\ y.declared /\ y.scope = NewScope(s, "sub") /\ y.home = Ns(s, K) /\ y.offset = None
  BY <1>2, <1>4, <1>5 DEF Fields
<1> HIDE DEF K, n
<1>7. \A k \in 1 .. K : Get(s.table[k], id) = None  BY <1>1, NoneSeen DEF K
<1>8. Addable(s, id, y)
  <2>1. K = 1 => y.scope = "global"  BY <1>6 DEF NewScope, K
  <2>2. ClassOf(y) # "unknown" /\ IsSet(y)  BY <1>6 DEF ClassOf, IsSet
  <2> QED  BY <1>1, <1>5, <1>6, <1>7, <2>1, <2>2 DEF Addable, K
<1>9. d = Adds(s, id, y)
  <2>1. IsTable(t) /\ t.entries[n + 1] = x /\ Sets(t, n + 1, y) = Adds(s, id, y)
    BY <1>1, <1>2, SetsAdded DEF n
  <2>2. Len(t.entries) = n + 1
    <3>1. t.entries = Append(s.entries, x) /\ IsSeq(s.entries)  BY <1>1, <1>2 DEF Adds, IsTable
    <3> QED  BY <3>1, AppendIs DEF n
  <2>3. d = [t EXCEPT !.entries[n + 1].declared = b]  BY <1>2, <1>3, <2>2
  <2>4. [t EXCEPT !.entries[n + 1].declared = b] = Sets(t, n + 1, [t.entries[n + 1] EXCEPT !.declared = b])
    <3>1. IsTable(t)  BY <2>1
    <3>2. PICK f : f = n + 1  OBVIOUS
    <3>3. [t EXCEPT !.entries[f].declared = b] = Sets(t, f, [t.entries[f] EXCEPT !.declared = b])  BY ONLY <3>1, DeclaredIs
    <3> QED  BY <3>2, <3>3, Zenon
  <2> QED  BY <1>2, <2>1, <2>3, <2>4
<1>10. /\ Added(s, id, y, d) /\ Good(s, d) /\ CalledGlobal(d) /\ Depth(d) = K
       /\ Get(d.table[K], id) = n + 1 /\ d.entries[n + 1] = y
  <2>1. y.class = "called" => y.scope = "global"  BY <1>6
  <2>2. TableInv(s)  OBVIOUS
  <2>3. CalledGlobal(s)  OBVIOUS
  <2> QED  BY ONLY <1>8, <1>9, <2>1, <2>2, <2>3, AddsRight DEF K, n
<1>11. Ns(d, K) = Ns(s, K)  BY <1>1, <1>10, AddedNames DEF K
<1>12. ~ Used(d, Child(Ns(d, K), id))
  <2>1. ~ Used(s, Child(Ns(s, K), id))  BY NotUsed DEF K
  <2> QED  BY <1>1, <1>8, <1>10, <1>11, <2>1, AddedUsed
<1>13. Held(d, K, id)
  <2>1. n + 1 # None /\ K \in 1 .. K /\ \A i \in K + 1 .. K : FALSE  BY <1>1 DEF None, K
  <2>2. PICK f : f = n + 1 /\ Get(d.table[K], id) = f /\ d.entries[f] = y  BY <1>10
  <2>3. f # None /\ d.entries[Get(d.table[K], id)].declared /\ d.entries[Get(d.table[K], id)].class \in {"sub", "var"}
    BY <1>6, <2>1, <2>2
  <2> QED  BY <2>1, <2>2, <2>3 DEF Held
<1> QED  BY <1>10, <1>12, <1>13 DEF Right, Begins

\* A SUB that was called in advance keeps the table right, and may begin.
LEMMA OldSubKeeps ==
    ASSUME NEW s, TableInv(s), CalledGlobal(s), NEW id \in Names, NEW e, e = GetEntry(s.table, id), e # None,
           ~ s.entries[e].declared, ClassOf(s.entries[e]) \in {"unknown", "sub"}, NEW g, NEW d,
           d = [s EXCEPT !.entries[e].class = "sub", !.entries[e].declared = TRUE, !.entries[e].mangled = g]
    PROVE  Right(s, d) /\ Begins(d, id)
<1> DEFINE K == Depth(s)
<1>1. K \in 1 .. K /\ TypesOK(s)  BY DEF TableInv, TypesOK, IsSeq, Depth
<1>2. Reached(s, e)  BY EntryReached
<1>3. PICK x, y : x = s.entries[e] /\ y = [x EXCEPT !.class = "sub", !.declared = TRUE, !.mangled = g]  OBVIOUS
<1>4. e \in 1 .. Len(s.entries) /\ Loose(x)  BY <1>2, <1>3 DEF Reached
<1>5. IsEntry(x) /\ Agrees(x) /\ IsTable(s)  BY <1>3, <1>4, EntryFacts
<1>6. ClassOf(x) = "unknown"  BY <1>3, <1>5 DEF ClassOf, Agrees
<1>7. Revised(x, y) /\ Fields(y, x.name, "sub", TRUE, x.accessed, x.scope, x.home, x.fixed, x.offset)
  BY <1>3, <1>4, <1>5, <1>6, SubRevised
<1>8. y.class = "sub" /\ y.declared /\ y.home = x.home  BY <1>7 DEF Fields
<1>9. d = Sets(s, e, y)
  <2>1. IsTable(s)  BY <1>5
  <2>2. e \in 1 .. Len(s.entries)  BY <1>4
  <2>3. y = SubOf(s.entries[e], g)  BY <1>3 DEF SubOf
  <2>4. d = ToSub(s, e, g)  BY DEF ToSub
  <2> QED  BY ONLY <2>1, <2>2, <2>3, <2>4, SubIs
<1> HIDE DEF K
<1>10. Right(s, d) /\ d.entries[e] = y /\ Len(d.entries) = Len(s.entries)
  <2>1. Revised(s.entries[e], y)  BY <1>3, <1>7
  <2>2. y.class = "called" => y.scope = "global"  BY <1>8
  <2>3. TableInv(s)  OBVIOUS
  <2>4. CalledGlobal(s)  OBVIOUS
  <2>5. e \in 1 .. Len(s.entries)  BY <1>4
  <2> QED  BY ONLY <1>9, <2>1, <2>2, <2>3, <2>4, <2>5, SetsRight
<1>11. d.table = s.table /\ Depth(d) = K /\ \A k : Ns(d, k) = Ns(s, k)  BY <1>9 DEF Sets, Depth, K, Ns
<1>12. \A c \in 1 .. Len(s.entries) : d.entries[c].home = s.entries[c].home
  <2>1. d.entries = [s.entries EXCEPT ![e] = y] /\ IsSeq(s.entries)
    <3>1. d.entries = [s.entries EXCEPT ![e] = y]  BY ONLY <1>9 DEF Sets
    <3> QED  BY <1>5, <3>1 DEF IsTable
  <2> QED  BY <1>3, <1>8, <2>1 DEF IsSeq
<1>13. ~ Used(d, Child(Ns(d, K), id))
  <2>1. ~ Used(s, Child(Ns(s, K), id))  BY NotUsed DEF K
  <2> QED  BY <1>10, <1>11, <1>12, <2>1 DEF Used, K
<1>14. Held(d, K, id)
  <2>1. PICK k : Seen(s, id, k) /\ e = Get(s.table[k], id)  BY <1>1, EntryIs
  <2>2. k \in 1 .. K /\ \A i \in k + 1 .. K : Get(s.table[i], id) = None  BY <2>1 DEF Seen, K
  <2>3. d.table = s.table /\ Get(d.table[k], id) = e  BY <1>11, <2>1
  <2> QED  BY <1>8, <1>10, <2>2, <2>3 DEF Held
<1> QED  BY <1>10, <1>11, <1>13, <1>14 DEF Begins

\* The declaration of a SUB keeps the table right.
LEMMA DeclareFuncKeeps ==
    ASSUME NEW s, TableInv(s), CalledGlobal(s), NEW id \in Names, NEW d, d = DeclareFunc(s, id)
    PROVE  Right(s, d.s) /\ (d.ok = "open" => Begins(d.s, id))
<1> DEFINE e == GetEntry(s.table, id)
           t == Declare(s, id, "sub")
           g == Current(s.table).ns \o <<"_", s.entries[e].name>>
<1>2. d = IF e = None THEN Done([t EXCEPT !.entries[Len(t.entries)].declared = TRUE], Len(t.entries))
          ELSE IF s.entries[e].declared \/ ClassOf(s.entries[e]) \notin {"unknown", "sub"} THEN Failed(s, "rejected")
          ELSE Done([s EXCEPT !.entries[e].class = "sub", !.entries[e].declared = TRUE, !.entries[e].mangled = g], e)
  BY Zenon DEF DeclareFunc
<1>3. CASE e = None
  <2>1. PICK u : u = [t EXCEPT !.entries[Len(t.entries)].declared = TRUE]  OBVIOUS
  <2>2. d.s = u  BY <1>2, <1>3, <2>1 DEF Done
  <2>3. Right(s, u) /\ Begins(u, id)
    <3>1. GetEntry(s.table, id) = None  BY <1>3
    <3>2. u = [Declare(s, id, "sub") EXCEPT !.entries[Len(Declare(s, id, "sub").entries)].declared = TRUE]  BY <2>1
    <3> QED  BY <3>1, <3>2, NewSubKeeps
  <2> QED  BY <2>2, <2>3
<1>4. CASE e # None /\ (s.entries[e].declared \/ ClassOf(s.entries[e]) \notin {"unknown", "sub"})
  <2>1. d = Failed(s, "rejected")  BY <1>2, <1>4
  <2> QED  BY <2>1, SelfRight DEF Failed
<1>5. CASE e # None /\ ~ s.entries[e].declared /\ ClassOf(s.entries[e]) \in {"unknown", "sub"}
  <2>1. PICK u : u = [s EXCEPT !.entries[e].class = "sub", !.entries[e].declared = TRUE, !.entries[e].mangled = g]  OBVIOUS
  <2>2. d.s = u  BY <1>2, <1>5, <2>1 DEF Done
  <2>3. Right(s, u) /\ Begins(u, id)
    <3>1. PICK f, h : f = e /\ h = g  OBVIOUS
    <3> HIDE DEF e, g
    <3>2. u = [s EXCEPT !.entries[f].class = "sub", !.entries[f].declared = TRUE, !.entries[f].mangled = h]  BY <2>1, <3>1
    <3>3. f = GetEntry(s.table, id)  BY <3>1 DEF e
    <3>4. f # None  BY <1>5, <3>1
    <3>5. ~ s.entries[f].declared  BY <1>5, <3>1
    <3>6. ClassOf(s.entries[f]) \in {"unknown", "sub"}  BY <1>5, <3>1
    <3> QED  BY <3>2, <3>3, <3>4, <3>5, <3>6, OldSubKeeps
  <2> QED  BY <2>2, <2>3
<1> QED  BY <1>3, <1>4, <1>5

---------------------------------------------------------------------------
\* A name that the current scope has and that is not declared may be moved.
LEMMA FirstTentative ==
    ASSUME NEW s, TableInv(s), NEW id, NEW f, f = GetEntry(s.table, id), Tentative(s.entries[f])
    PROVE  Depth(s) # 1 /\ id \in DOMAIN Sym(s, Depth(s)) => Tentative(s.entries[Sym(s, Depth(s))[id]])
<1> DEFINE K == Depth(s)
<1>1. K \in 1 .. K /\ TypesOK(s)  BY DEF TableInv, TypesOK, IsSeq, Depth
<1>2. SUFFICES ASSUME id \in DOMAIN Sym(s, K) PROVE Tentative(s.entries[Sym(s, K)[id]])  OBVIOUS
<1>3. Get(s.table[K], id) = Sym(s, K)[id]  BY <1>2, GetIs DEF Sym
<1>4. Get(s.table[K], id) # None  BY <1>1, <1>2, KnownIs
<1>5. f = Sym(s, K)[id]  BY <1>1, <1>3, <1>4, CurrentFirst
<1> QED  BY <1>5

\* An entry that is called in advance moves, and is then global.
LEMMA CalledMoves ==
    ASSUME NEW t, TableInv(t), NEW id, NEW f, f = GetEntry(t.table, id), f \in 1 .. Len(t.entries),
           t.entries[f].class = "called", ~ t.entries[f].declared,
           \A d \in 1 .. Len(t.entries) : d # f /\ t.entries[d].class = "called" => t.entries[d].scope = "global",
           t.entries[f].scope = "global" \/ (Depth(t) # 1 /\ id \in DOMAIN Sym(t, Depth(t)) /\ f = Sym(t, Depth(t))[id]),
           NEW m, m = MoveToGlobalScope(t, id)
    PROVE  Right(t, m) /\ Refs(m, f)
<1>1. Tentative(t.entries[f])  BY DEF Tentative, ClassOf
<1>2. Depth(t) # 1 /\ id \in DOMAIN Sym(t, Depth(t)) => Tentative(t.entries[Sym(t, Depth(t))[id]])
  BY <1>1, FirstTentative
<1>3. /\ Good(t, m) /\ Len(m.entries) = Len(t.entries)
      /\ \A d \in 1 .. Len(t.entries) : m.entries[d] = t.entries[d] \/ Globalized(t.entries[d], m.entries[d])
      /\ \/ Depth(t) = 1 \/ id \notin DOMAIN Sym(t, Depth(t))
         \/ m.entries[Sym(t, Depth(t))[id]].scope = "global"
  BY <1>2, MoveRight
<1>4. m.entries[f].scope = "global"
  <2>1. CASE t.entries[f].scope = "global"
    <3>1. m.entries[f] = t.entries[f] \/ Globalized(t.entries[f], m.entries[f])  BY <1>3
    <3> QED  BY <2>1, <3>1 DEF Globalized
  <2>2. CASE Depth(t) # 1 /\ id \in DOMAIN Sym(t, Depth(t)) /\ f = Sym(t, Depth(t))[id]  BY <1>3, <2>2
  <2> QED  BY <2>1, <2>2
<1>5. CalledGlobal(m)
  <2>1. SUFFICES ASSUME NEW d \in 1 .. Len(t.entries), m.entries[d].class = "called" PROVE m.entries[d].scope = "global"
    BY <1>3 DEF CalledGlobal
  <2>2. CASE d = f  BY <1>4, <2>2
  <2>3. CASE d # f
    <3>1. m.entries[d] = t.entries[d] \/ Globalized(t.entries[d], m.entries[d])  BY <1>3
    <3>2. CASE m.entries[d] = t.entries[d]  BY <2>1, <2>3, <3>2
    <3>3. CASE Globalized(t.entries[d], m.entries[d])  BY <3>3 DEF Globalized
    <3> QED  BY <3>1, <3>2, <3>3
  <2> QED  BY <2>2, <2>3
<1>6. Refs(m, f)  BY <1>3, <1>4 DEF Refs, Awaits
<1> QED  BY <1>3, <1>5, <1>6 DEF Right

\* A call of a name that is not known.
LEMMA CallNew ==
    ASSUME NEW s, TableInv(s), CalledGlobal(s), NEW id \in Names, GetEntry(s.table, id) = None,
           NEW t, t = Declare(s, id, "called")
    PROVE  /\ Good(s, t) /\ TableInv(t) /\ GetEntry(t.table, id) \in 1 .. Len(t.entries)
           /\ t.entries[GetEntry(t.table, id)].class = "called" /\ ~ t.entries[GetEntry(t.table, id)].declared
           /\ Right(t, MoveToGlobalScope(t, id)) /\ Refs(MoveToGlobalScope(t, id), GetEntry(t.table, id))
<1> DEFINE K == Depth(s)
           n == Len(s.entries)
<1>1. K \in 1 .. K /\ 1 \in 1 .. K /\ n \in Nat /\ TypesOK(s) /\ Folded(s)
  BY DEF TableInv, TypesOK, IsSeq, Depth
<1>2. PICK x : x = NewEntry(s.table, id, "called")  OBVIOUS
<1>3. t = Adds(s, id, x)  BY <1>2, DeclareIs
<1>4. IsEntry(x) /\ Fields(x, id, "called", FALSE, FALSE, NewScope(s, "called"), Ns(s, K), FALSE, None)
  BY <1>1, <1>2, NewEntryIs DEF Classes
<1>5. x.name = id /\ x.class = "called" /\ ~ x.declared /\ x.scope = NewScope(s, "called") /\ x.home = Ns(s, K)
      /\ x.offset = None
  BY <1>4 DEF Fields
<1> HIDE DEF K, n
<1>6. (\A k \in 1 .. K : Get(s.table[k], id) = None) /\ \A k : ~ Seen(s, id, k)  BY <1>1, NoneSeen DEF K
<1>7. K = 1 => x.scope = "global"  BY <1>5 DEF NewScope, K
<1>8. Addable(s, id, x)
  <2>1. ~ x.declared /\ x.class # "sub"  BY <1>5
  <2> QED  BY <1>1, <1>4, <1>5, <1>6, <1>7, <2>1 DEF Addable, K
<1>9. Added(s, id, x, t) /\ Good(s, t) /\ Get(t.table[K], id) = n + 1 /\ GetEntry(t.table, id) = n + 1
      /\ t.entries[n + 1] = x /\ Len(t.entries) = n + 1 /\ Depth(t) = K
  <2>1. Added(s, id, x, Adds(s, id, x)) /\ Good(s, Adds(s, id, x))
           /\ Get(Adds(s, id, x).table[K], id) = n + 1
           /\ GetEntry(Adds(s, id, x).table, id) = n + 1
           /\ Adds(s, id, x).entries[n + 1] = x
           /\ Len(Adds(s, id, x).entries) = n + 1 /\ Depth(Adds(s, id, x)) = K
    BY <1>8, AddsKeeps DEF K, n
  <2> QED  BY <1>3, <2>1
<1>10. PICK f : f = n + 1  OBVIOUS
<1>11. TableInv(t) /\ f \in 1 .. Len(t.entries) /\ f = GetEntry(t.table, id) /\ t.entries[f] = x
  BY <1>1, <1>9, <1>10 DEF Good
<1>12. \A d \in 1 .. Len(t.entries) : d # f /\ t.entries[d].class = "called" => t.entries[d].scope = "global"
  <2>1. \A d \in 1 .. n : t.entries[d] = s.entries[d]  BY <1>9 DEF Added, n
  <2>2. \A d \in 1 .. Len(t.entries) : d # f => d \in 1 .. n  BY <1>1, <1>9, <1>10
  <2> QED  BY <2>1, <2>2 DEF CalledGlobal, n
<1>13. t.entries[f].scope = "global" \/ (Depth(t) # 1 /\ id \in DOMAIN Sym(t, Depth(t)) /\ f = Sym(t, Depth(t))[id])
  <2>1. id \in DOMAIN Sym(t, K) /\ Sym(t, K)[id] = n + 1  BY <1>1, <1>9, AddedNames DEF K, n
  <2> QED  BY <1>7, <1>9, <1>10, <1>11, <2>1
<1>14. t.entries[f].class = "called" /\ ~ t.entries[f].declared  BY <1>5, <1>11
<1>15. PICK m : m = MoveToGlobalScope(t, id)  OBVIOUS
<1>16. Right(t, m) /\ Refs(m, f)
  <2>1. TableInv(t)  BY <1>11
  <2>2. f = GetEntry(t.table, id)  BY <1>11
  <2>3. f \in 1 .. Len(t.entries)  BY <1>11
  <2>4. t.entries[f].class = "called"  BY <1>14
  <2>5. ~ t.entries[f].declared  BY <1>14
  <2> QED  BY ONLY <1>12, <1>13, <1>15, <2>1, <2>2, <2>3, <2>4, <2>5, CalledMoves
<1> QED  BY <1>9, <1>11, <1>14, <1>15, <1>16

\* A call keeps the table right, and what it refers to needs no place.
LEMMA CallKeeps ==
    ASSUME NEW s, TableInv(s), CalledGlobal(s), NEW id \in Names, NEW d, d = Call(s, id)
    PROVE  Right(s, d.s) /\ (d.ok = "open" => Refs(d.s, d.e))
<1>1. PICK e : e = GetEntry(s.table, id)  OBVIOUS
<1>2. PICK t : t = IF e = None THEN Declare(s, id, "called") ELSE s  OBVIOUS
<1>3. PICK f : f = GetEntry(t.table, id)  OBVIOUS
<1>4. PICK m : m = MoveToGlobalScope(t, id)  OBVIOUS
<1>5. d = IF t.entries[f].class \notin {"sub", "called"} THEN Failed(s, "rejected")
          ELSE Done(IF t.entries[f].declared THEN t ELSE m, f)
  BY <1>1, <1>2, <1>3, <1>4 DEF Call
<1>6. CASE t.entries[f].class \notin {"sub", "called"}
  <2>1. d = Failed(s, "rejected")  BY <1>5, <1>6
  <2> QED  BY <2>1, SelfRight DEF Failed
<1>7. CASE t.entries[f].class \in {"sub", "called"}
  <2>1. d = Done(IF t.entries[f].declared THEN t ELSE m, f)  BY <1>5, <1>7
  <2>2. CASE e = None
    <3>1. t = Declare(s, id, "called") /\ GetEntry(s.table, id) = None  BY <1>1, <1>2, <2>2
    <3>2. Good(s, t) /\ ~ t.entries[f].declared /\ Right(t, m) /\ Refs(m, f) /\ TableInv(t)
      BY <1>3, <1>4, <3>1, CallNew
    <3>3. d = Done(m, f)  BY <2>1, <3>2
    <3>4. Good(s, m)
      <4>1. Len(s.entries) \in Nat /\ Len(t.entries) \in Nat /\ Len(m.entries) \in Nat
        BY <3>2 DEF Right, Good, TableInv, TypesOK, IsSeq
      <4>2. Good(t, m)  BY <3>2 DEF Right
      <4> QED  BY <3>2, <4>1, <4>2, GoodTrans
    <3> QED  BY <3>2, <3>3, <3>4 DEF Right, Done
  <2>3. CASE e # None
    <3>1. t = s /\ f = e  BY <1>1, <1>2, <1>3, <2>3
    <3>2. Reached(s, e)  BY <1>1, <2>3, EntryReached
    <3>3. e \in 1 .. Len(s.entries)  BY <3>2 DEF Reached
    <3>4. CASE s.entries[e].declared
      <4>1. d = Done(s, e)  BY <2>1, <3>1, <3>4
      <4>2. s.entries[e].class = "sub"  BY <1>7, <3>1, <3>3, <3>4 DEF TableInv, ClassesOK
      <4> QED  BY <3>3, <4>1, <4>2, SelfRight, LabelRefs DEF Done
    <3>5. CASE ~ s.entries[e].declared
      <4>1. d = Done(m, e)  BY <2>1, <3>1, <3>5
      <4>2. s.entries[e].class = "called"  BY <1>7, <3>1, <3>3, <3>5 DEF TableInv, ClassesOK
      <4>3. s.entries[e].scope = "global"  BY <3>3, <4>2 DEF CalledGlobal
      <4>4. \A c \in 1 .. Len(s.entries) : c # e /\ s.entries[c].class = "called" => s.entries[c].scope = "global"
        BY DEF CalledGlobal
      <4>5. m = MoveToGlobalScope(s, id) /\ e = GetEntry(s.table, id)  BY <1>1, <1>4, <3>1
      <4>6. Right(s, m) /\ Refs(m, e)  BY <3>3, <3>5, <4>2, <4>3, <4>4, <4>5, CalledMoves
      <4> QED  BY <4>1, <4>6 DEF Done
    <3> QED  BY <3>4, <3>5
  <2> QED  BY <2>2, <2>3
<1> QED  BY <1>6, <1>7

---------------------------------------------------------------------------
(* The end of a SUB.                                                        *)

\* A function on the first natural numbers is a sequence.
LEMMA MadeSeq ==
    ASSUME NEW n \in Nat, NEW S, NEW f \in [1 .. n -> S]
    PROVE  IsSeq(f) /\ Len(f) = n
<1>1. f \in Seq(S)  BY SeqDef
<1>2. DOMAIN f = 1 .. n  OBVIOUS
<1> QED  BY <1>1, <1>2 DEF IsSeq

\* What entries are while the parameters of the SUB are marked.
Kept(s) ==
    [s EXCEPT !.entries = [e \in DOMAIN @ |->
        IF e \in Range(Sym(s, Depth(s))) /\ @[e].scope = "parameter" THEN [@[e] EXCEPT !.accessed = TRUE] ELSE @[e]]]

\* The parameters that are marked keep the table right.
LEMMA KeptKeeps ==
    ASSUME NEW s, TableInv(s), CalledGlobal(s), Depth(s) # 1, NEW u, u = Kept(s)
    PROVE  /\ Right(s, u) /\ u.table = s.table /\ Len(u.entries) = Len(s.entries)
           /\ \A e \in 1 .. Len(s.entries) :
                 u.entries[e].name = s.entries[e].name /\ u.entries[e].class = s.entries[e].class
<1> DEFINE K == Depth(s)
           n == Len(s.entries)
           M == Range(Sym(s, K))
<1>1. K \in 2 .. K /\ K \in 1 .. K /\ n \in Nat /\ IsSeq(s.entries) /\ DOMAIN s.entries = 1 .. n
      /\ s = [table |-> s.table, entries |-> s.entries] /\ TypesOK(s)
  <2>1. TypesOK(s)  BY DEF TableInv
  <2>2. IsSeq(s.table) /\ K # 0 /\ IsSeq(s.entries)  BY <2>1 DEF TypesOK
  <2>3. s = [table |-> s.table, entries |-> s.entries]  BY <2>1, Zenon DEF TypesOK
  <2>4. K \in 2 .. K /\ K \in 1 .. K
    <3>1. PICK S : s.table \in Seq(S)  BY <2>2 DEF IsSeq
    <3>2. K \in Nat  BY <3>1 DEF Depth
    <3>3. K # 1 /\ K # 0  BY <2>2
    <3> HIDE DEF K
    <3> QED  BY <3>2, <3>3
  <2>5. n \in Nat /\ DOMAIN s.entries = 1 .. n  BY <2>2 DEF IsSeq
  <2> QED  BY <2>1, <2>2, <2>3, <2>4, <2>5
<1> DEFINE a == [e \in 1 .. n |-> IF e \in M /\ s.entries[e].scope = "parameter" THEN [s.entries[e] EXCEPT !.accessed = TRUE]
                                 ELSE s.entries[e]]
<1>2. u = [table |-> s.table, entries |-> a]
  <2>1. u = [s EXCEPT !.entries = a]  BY <1>1 DEF Kept
  <2>2. PICK p, q : s = [table |-> p, entries |-> q]  BY <1>1
  <2>3. s.table = p  BY <2>2
  <2> HIDE DEF a
  <2> QED  BY <2>1, <2>2, <2>3
<1>3. u.table = s.table /\ u.entries = a  BY <1>2
<1>4. IsSeq(a) /\ Len(a) = n
  <2>1. a \in [1 .. n -> Range(a)]  BY DEF Range
  <2> HIDE DEF a, n
  <2> QED  BY <1>1, <2>1, MadeSeq
<1>5. ASSUME NEW e \in 1 .. n
      PROVE  /\ Revised(s.entries[e], a[e]) /\ a[e].name = s.entries[e].name /\ a[e].class = s.entries[e].class
             /\ a[e].scope = s.entries[e].scope
  <2>1. CASE e \in M /\ s.entries[e].scope = "parameter"
    <3>1. PICK x, y : x = s.entries[e] /\ y = [x EXCEPT !.accessed = TRUE]  OBVIOUS
    <3>2. a[e] = y  BY <2>1, <3>1
    <3>3. IsEntry(x) /\ Agrees(x)  BY <3>1, EntryFacts
    <3>4. Loose(x)
      <4>1. s.entries[e].home = Ns(s, K)  BY <1>1, <2>1 DEF TableInv, Homes, Knows
      <4> QED  BY <1>1, <3>1, <4>1 DEF TableInv, Unplaced, Loose
    <3>5. Revised(x, y) /\ Fields(y, x.name, x.class, x.declared, TRUE, x.scope, x.home, x.fixed, x.offset)
      BY <3>1, <3>3, <3>4, AccessedRevised
    <3> HIDE DEF a
    <3> QED  BY <3>1, <3>2, <3>5 DEF Fields
  <2>2. CASE ~(e \in M /\ s.entries[e].scope = "parameter")
    <3>1. a[e] = s.entries[e]  BY <2>2
    <3> QED  BY <3>1 DEF Revised
  <2> QED  BY <2>1, <2>2
<1> HIDE DEF a, M
<1>6. Redone(s, u)
  <2>1. \A k \in 1 .. K : IsScope(u.table[k]) /\ Ns(u, k) = Ns(s, k) /\ Sym(u, k) = Sym(s, k) /\ Cas(u, k) = Cas(s, k)
    BY <1>1, <1>3 DEF TypesOK, Ns, Sym, Cas
  <2>2. u = [table |-> u.table, entries |-> u.entries] /\ IsSeq(u.table) /\ Depth(u) = K /\ IsSeq(u.entries) /\ Len(u.entries) = n
    BY <1>1, <1>2, <1>3, <1>4 DEF TypesOK, Depth
  <2>3. \A e \in 1 .. n : Revised(s.entries[e], u.entries[e])  BY <1>3, <1>5
  <2> QED  BY <2>1, <2>2, <2>3 DEF Redone
<1>7. Good(s, u)  BY <1>6, RedoneKeeps
<1>8. CalledGlobal(u)
  <2>1. \A e \in 1 .. n : u.entries[e].class = s.entries[e].class /\ u.entries[e].scope = s.entries[e].scope  BY <1>3, <1>5
  <2> QED  BY <1>3, <1>4, <2>1 DEF CalledGlobal
<1> QED  BY <1>3, <1>4, <1>5, <1>7, <1>8 DEF Right

\* The entries of X have moved, and nothing else.
MovedOut(v, X, u) ==
    LET K == Depth(v)
    IN  /\ Good(v, u) /\ Depth(u) = K /\ Len(u.entries) = Len(v.entries)
        /\ \A d \in 1 .. Len(v.entries) : d \in X => Globalized(v.entries[d], u.entries[d])
        /\ \A d \in 1 .. Len(v.entries) : d \notin X => u.entries[d] = v.entries[d]
        /\ \A id \in DOMAIN Sym(u, K) : id \in DOMAIN Sym(v, K) /\ Sym(u, K)[id] = Sym(v, K)[id]
        /\ \A id \in DOMAIN Sym(v, K) : Sym(v, K)[id] \notin X => id \in DOMAIN Sym(u, K)

\* One more entry moves.
LEMMA MoveOne ==
    ASSUME NEW v, TableInv(v), Depth(v) # 1, NEW Y, NEW u, MovedOut(v, Y, u),
           NEW e, e \in Range(Sym(v, Depth(v))), e \notin Y, Tentative(v.entries[e]),
           NEW t, t = MoveToGlobalScope(u, u.entries[e].name), NEW X, X = Y \cup {e}
    PROVE  MovedOut(v, X, t)
<1> DEFINE K == Depth(v)
           n == Len(v.entries)
<1>1. K \in 1 .. K /\ n \in Nat /\ TypesOK(v)  BY DEF TableInv, TypesOK, IsSeq, Depth
<1>2. /\ Good(v, u) /\ Depth(u) = K /\ Len(u.entries) = n
      /\ \A d \in 1 .. n : d \in Y => Globalized(v.entries[d], u.entries[d])
      /\ \A d \in 1 .. n : d \notin Y => u.entries[d] = v.entries[d]
      /\ \A id \in DOMAIN Sym(u, K) : id \in DOMAIN Sym(v, K) /\ Sym(u, K)[id] = Sym(v, K)[id]
      /\ \A id \in DOMAIN Sym(v, K) : Sym(v, K)[id] \notin Y => id \in DOMAIN Sym(u, K)
  BY DEF MovedOut
<1>3. PICK id \in DOMAIN Sym(v, K) : e = Sym(v, K)[id]  BY DEF Range
<1>4. e \in 1 .. n /\ v.entries[e].name = id /\ \A jd \in DOMAIN Sym(v, K) : Sym(v, K)[jd] = e => jd = id
  BY <1>1, <1>3 DEF TypesOK
<1> HIDE DEF K, n
<1>5. u.entries[e] = v.entries[e] /\ id \in DOMAIN Sym(u, K) /\ Sym(u, K)[id] = e  BY <1>2, <1>3, <1>4
<1>6. Movable(u, id)  BY <1>2, <1>5 DEF Movable, K
<1>7. TableInv(u) /\ TypesOK(u)  BY <1>2 DEF Good, TableInv
<1>8. t = MoveToGlobalScope(u, id) /\ e = Sym(u, Depth(u))[id]  BY <1>2, <1>4, <1>5
<1>9. Moved(u, id, e, t)  BY <1>6, <1>7, <1>8, MoveIs
<1>10. Good(u, t)  BY <1>6, <1>7, <1>8, <1>9, MoveKeeps
<1>11. /\ Depth(t) = K /\ Len(t.entries) = n /\ \A d \in 1 .. n : d # e => t.entries[d] = u.entries[d]
       /\ Globalized(u.entries[e], t.entries[e]) /\ Drops(Sym(u, K), Sym(t, K), id)
  BY <1>2, <1>9 DEF Moved
<1>12. Good(v, t)
  <2>1. Len(v.entries) \in Nat /\ Len(u.entries) \in Nat /\ Len(t.entries) \in Nat  BY <1>1, <1>2, <1>11 DEF n
  <2> QED  BY <1>2, <1>10, <2>1, GoodTrans
<1>13. \A d \in 1 .. n : d \in X => Globalized(v.entries[d], t.entries[d])
  <2>1. SUFFICES ASSUME NEW d \in 1 .. n, d \in X PROVE Globalized(v.entries[d], t.entries[d])  OBVIOUS
  <2>2. CASE d = e  BY <1>5, <1>11, <2>2
  <2>3. CASE d # e
    <3>1. d \in Y  BY <2>1, <2>3
    <3> QED  BY <1>2, <1>11, <2>3, <3>1
  <2> QED  BY <2>2, <2>3
<1>14. \A d \in 1 .. n : d \notin X => t.entries[d] = v.entries[d]  BY <1>2, <1>11
<1>15. \A jd \in DOMAIN Sym(t, K) : jd \in DOMAIN Sym(v, K) /\ Sym(t, K)[jd] = Sym(v, K)[jd]
  BY <1>2, <1>11 DEF Drops
<1>16. \A jd \in DOMAIN Sym(v, K) : Sym(v, K)[jd] \notin X => jd \in DOMAIN Sym(t, K)
  BY <1>2, <1>3, <1>11 DEF Drops
<1> QED  BY <1>11, <1>12, <1>13, <1>14, <1>15, <1>16 DEF MovedOut, K, n

\* The names that nobody has defined move, one after the other.
LEMMA MoveAll ==
    ASSUME NEW v, TableInv(v), Depth(v) # 1, NEW S, S \subseteq Range(Sym(v, Depth(v))),
           \A e \in S : Tentative(v.entries[e])
    PROVE  IsFiniteSet(S) /\ MovedOut(v, S, MoveIter(v, S)[S])
<1> DEFINE it(x) == MoveIter(v, S)[x]
           G == {x \in SUBSET S : MovedOut(v, x, it(x))}
<1>1. IsFiniteSet(S)
  <2>1. TypesOK(v) /\ Depth(v) \in 1 .. Depth(v)  BY DEF TableInv, TypesOK, IsSeq, Depth
  <2>2. S \subseteq 1 .. Len(v.entries)  BY <2>1 DEF TypesOK, Range
  <2>3. Len(v.entries) \in Nat  BY <2>1 DEF TypesOK, IsSeq
  <2>4. IsFiniteSet(1 .. Len(v.entries))  BY <2>3, FS_Interval
  <2> QED  BY <2>2, <2>4, FS_Subset
<1>2. \A x \in SUBSET S :
         it(x) = IF x = {} THEN v ELSE MoveToGlobalScope(it(x \ {First(x)}), it(x \ {First(x)}).entries[First(x)].name)
  BY <1>1, MoveIterIs
<1> HIDE DEF it
<1>3. {} \in G
  <2>1. it({}) = v  BY <1>2
  <2>2. Good(v, v)
    <3>1. Len(v.entries) \in Nat  BY DEF TableInv, TypesOK, IsSeq
    <3> QED  BY <3>1 DEF Good, Keeps
  <2>3. MovedOut(v, {}, v)  BY <2>2 DEF MovedOut
  <2> QED  BY <2>1, <2>3
<1>4. ASSUME NEW x \in SUBSET S, x # {}, \A d \in x : x \ {d} \in G PROVE x \in G
  <2>1. PICK e : e = First(x)  OBVIOUS
  <2>2. e \in x  BY <1>4, <2>1, FirstIn
  <2>3. PICK Y, u : Y = x \ {e} /\ u = it(Y)  OBVIOUS
  <2>4. MovedOut(v, Y, u)  BY <1>4, <2>2, <2>3
  <2>5. it(x) = MoveToGlobalScope(u, u.entries[e].name)  BY <1>2, <1>4, <2>1, <2>3
  <2>6. e \in Range(Sym(v, Depth(v)))  BY <2>2
  <2>7. e \notin Y /\ x = Y \cup {e}  BY <2>2, <2>3
  <2>8. Tentative(v.entries[e])  BY <2>2
  <2>9. PICK t : t = it(x)  OBVIOUS
  <2>10. MovedOut(v, x, t)
    <3>1. t = MoveToGlobalScope(u, u.entries[e].name)  BY <2>5, <2>9
    <3>2. e \notin Y  BY <2>7
    <3>3. x = Y \cup {e}  BY <2>7
    <3> QED  BY <2>4, <2>6, <2>8, <3>1, <3>2, <3>3, MoveOne
  <2> QED  BY <2>9, <2>10
<1>5. SUBSET S \subseteq G
  <2> HIDE DEF G
  <2> QED  BY <1>1, <1>3, <1>4, SubsetInduction
<1>6. MovedOut(v, S, it(S))  BY <1>5
<1> QED  BY <1>1, <1>6 DEF it

---------------------------------------------------------------------------
\* What Front gives.
LEMMA FrontGives ==
    ASSUME NEW s, IsSeq(s), Len(s) > 0
    PROVE  /\ IsSeq(Front(s)) /\ Len(Front(s)) = Len(s) - 1
           /\ \A k \in 1..Len(s) - 1 : Front(s)[k] = s[k]
<1>1. PICK S : s \in Seq(S)  BY DEF IsSeq
<1>2. /\ Front(s) \in Seq(S) /\ Len(Front(s)) = Len(s) - 1
      /\ \A k \in 1..Len(s) - 1 : Front(s)[k] = s[k]
  BY <1>1, DroppedIs DEF Front
<1> QED  BY <1>2 DEF IsSeq

\* The variables on the frame of the SUB that ends.
Locals(u) == {e \in Values(u, Current(u.table)) : Resident(u.entries[e])}
PlacedAt(u, L) ==
    [e \in DOMAIN u.entries |-> IF e \in L THEN [u.entries[e] EXCEPT !.offset = Offset(u, L, e)] ELSE u.entries[e]]

\* The table when the SUB has ended and the variables of L have a place.
Ended(u, L, t) ==
    /\ t = [table |-> t.table, entries |-> t.entries]
    /\ IsSeq(t.table) /\ Depth(t) = Depth(u) - 1 /\ IsSeq(t.entries) /\ Len(t.entries) = Len(u.entries)
    /\ \A k \in 1 .. Depth(u) - 1 : t.table[k] = u.table[k]
    /\ \A e \in 1 .. Len(u.entries) : e \notin L => t.entries[e] = u.entries[e]
    /\ \A e \in L :
          /\ e \in 1 .. Len(u.entries) /\ Resident(u.entries[e]) /\ u.entries[e].home = Ns(u, Depth(u))
          /\ IsEntry(t.entries[e])
          /\ Fields(t.entries[e], u.entries[e].name, u.entries[e].class, u.entries[e].declared, u.entries[e].accessed,
                    u.entries[e].scope, u.entries[e].home, u.entries[e].fixed, t.entries[e].offset)
          /\ EntrySize(u.entries[e]) <= t.entries[e].offset
    /\ \A d, e \in L : d # e =>
          \/ t.entries[d].offset <= t.entries[e].offset - EntrySize(u.entries[e])
          \/ t.entries[e].offset <= t.entries[d].offset - EntrySize(u.entries[d])

\* The size of an entry is a natural number.
LEMMA SizeNat ==
    ASSUME NEW x, IsEntry(x)
    PROVE  EntrySize(x) \in Nat /\ (x.scope # "global" /\ ~ x.fixed => EntrySize(x) # 0)
<1>1. x.name \in Names  BY DEF IsEntry
<1>2. Bytes[x.name] \in Nat \ {0}  BY <1>1, SymbolTableAssumption
<1> QED  BY <1>2 DEF EntrySize

\* What is left when a SUB ends.
LEMMA EndedIs ==
    ASSUME NEW u, TableInv(u), Depth(u) # 1, NEW L, L = Locals(u), NEW t,
           t = [table |-> Front(u.table), entries |-> PlacedAt(u, L)]
    PROVE  Ended(u, L, t)
<1> DEFINE K == Depth(u)
           n == Len(u.entries)
<1>1. K \in 2 .. K /\ K \in 1 .. K /\ n \in Nat /\ IsSeq(u.table) /\ IsSeq(u.entries) /\ DOMAIN u.entries = 1 .. n
      /\ TypesOK(u) /\ Len(u.table) > 0
  <2>1. TypesOK(u)  BY DEF TableInv
  <2>2. IsSeq(u.table) /\ K # 0 /\ IsSeq(u.entries)  BY <2>1 DEF TypesOK
  <2>3. K \in 2 .. K /\ K \in 1 .. K /\ Len(u.table) > 0
    <3>1. PICK S : u.table \in Seq(S)  BY <2>2 DEF IsSeq
    <3>2. K \in Nat /\ K = Len(u.table)  BY <3>1 DEF Depth
    <3>3. K # 1 /\ K # 0  BY <2>2
    <3> HIDE DEF K
    <3>4. K \in Nat /\ K # 0 /\ K # 1  BY <3>2, <3>3
    <3>5. K > 0  BY ONLY <3>4
    <3>6. K \in 2 .. K /\ K \in 1 .. K  BY ONLY <3>4
    <3> QED  BY <3>2, <3>5, <3>6, Zenon
  <2>4. n \in Nat /\ DOMAIN u.entries = 1 .. n  BY <2>2 DEF IsSeq
  <2> QED  BY <2>1, <2>2, <2>3, <2>4
<1>2. PICK a : a = PlacedAt(u, L)  OBVIOUS
<1>3. t.table = Front(u.table) /\ t.entries = a /\ t = [table |-> t.table, entries |-> t.entries]  BY <1>2
<1>4. IsSeq(t.table) /\ Depth(t) = K - 1 /\ \A k \in 1 .. K - 1 : t.table[k] = u.table[k]
  BY <1>1, <1>3, FrontGives DEF Depth
<1>5. IsSeq(a) /\ Len(a) = n
  <2>1. a \in [1 .. n -> Range(a)]  BY <1>1, <1>2 DEF Range, PlacedAt
  <2> HIDE DEF n
  <2> QED  BY <1>1, <2>1, MadeSeq
<1>6. ASSUME NEW e \in L
      PROVE  e \in 1 .. n /\ Resident(u.entries[e]) /\ u.entries[e].home = Ns(u, K) /\ e \in Nat
             /\ EntrySize(u.entries[e]) \in Nat /\ IsEntry(u.entries[e])
  <2>1. e \in Range(Sym(u, K)) /\ Resident(u.entries[e])  BY DEF Locals, Values, Current, Sym, Depth
  <2>2. e \in Knows(u, K)  BY <2>1 DEF Knows
  <2>3. e \in 1 .. n /\ u.entries[e].home = Ns(u, K)
    <3>1. e \in 1 .. n  BY <1>1, <2>2, KnownIs
    <3>2. u.entries[e].home = Ns(u, K)  BY <1>1, <2>2 DEF TableInv, Homes
    <3> QED  BY <3>1, <3>2
  <2>4. IsEntry(u.entries[e])  BY <2>3, EntryFacts
  <2> QED  BY <1>1, <2>1, <2>3, <2>4, SizeNat
<1>7. IsFiniteSet(L)
  <2>1. L \subseteq 1 .. n  BY <1>6
  <2>2. IsFiniteSet(1 .. n)  BY <1>1, FS_Interval
  <2> QED  BY <2>1, <2>2, FS_Subset
<1>8. /\ \A e \in L : Offset(u, L, e) \in Nat /\ EntrySize(u.entries[e]) <= Offset(u, L, e)
      /\ \A d, e \in L : d # e =>
                 \/ Offset(u, L, d) <= Offset(u, L, e) - EntrySize(u.entries[e])
                 \/ Offset(u, L, e) <= Offset(u, L, d) - EntrySize(u.entries[d])
  <2>1. \A d \in L : d \in Nat  BY <1>6
  <2>2. \A d \in L : EntrySize(u.entries[d]) \in Nat  BY <1>6
  <2> QED  BY <1>7, <2>1, <2>2, OffsetsApart
<1>9. ASSUME NEW e \in L
      PROVE  /\ IsEntry(t.entries[e]) /\ t.entries[e].offset = Offset(u, L, e)
             /\ Fields(t.entries[e], u.entries[e].name, u.entries[e].class, u.entries[e].declared, u.entries[e].accessed,
                       u.entries[e].scope, u.entries[e].home, u.entries[e].fixed, t.entries[e].offset)
  <2>1. PICK x, v, y : x = u.entries[e] /\ v = Offset(u, L, e) /\ y = [x EXCEPT !.offset = v]  OBVIOUS
  <2>2. t.entries[e] = y  BY <1>1, <1>2, <1>3, <1>6, <2>1 DEF PlacedAt
  <2>3. IsEntry(x) /\ v \in Nat  BY <1>6, <1>8, <2>1
  <2>4. IsEntry(y) /\ Fields(y, x.name, x.class, x.declared, x.accessed, x.scope, x.home, x.fixed, v)
    BY <2>1, <2>3, OffsetSet
  <2>5. y.offset = v  BY <2>4 DEF Fields
  <2> QED  BY <2>1, <2>2, <2>4, <2>5
<1>10. \A e \in 1 .. n : e \notin L => t.entries[e] = u.entries[e]  BY <1>1, <1>2, <1>3 DEF PlacedAt
<1> HIDE DEF K, n
<1>11. Len(t.entries) = Len(u.entries) /\ IsSeq(t.entries)  BY <1>3, <1>5 DEF n
<1>12. \A e \in L : EntrySize(u.entries[e]) <= t.entries[e].offset  BY <1>8, <1>9
<1>13. \A d, e \in L : d # e =>
          \/ t.entries[d].offset <= t.entries[e].offset - EntrySize(u.entries[e])
          \/ t.entries[e].offset <= t.entries[d].offset - EntrySize(u.entries[d])
  BY <1>8, <1>9
<1> QED  BY <1>3, <1>4, <1>6, <1>9, <1>10, <1>11, <1>12, <1>13 DEF Ended, K, n

\* The entries that are placed differ from what they were in that only.
LEMMA EndedSame ==
    ASSUME NEW u, NEW L, NEW t, Ended(u, L, t), NEW e \in 1 .. Len(u.entries)
    PROVE  LET x == u.entries[e]
               y == t.entries[e]
           IN  /\ y.name = x.name /\ y.class = x.class /\ y.declared = x.declared /\ y.accessed = x.accessed
               /\ y.scope = x.scope /\ y.home = x.home /\ y.fixed = x.fixed
               /\ EntrySize(y) = EntrySize(x) /\ (Resident(y) <=> Resident(x)) /\ ClassOf(y) = ClassOf(x)
<1> DEFINE x == u.entries[e]
           y == t.entries[e]
<1>1. /\ y.name = x.name /\ y.class = x.class /\ y.declared = x.declared /\ y.accessed = x.accessed
      /\ y.scope = x.scope /\ y.home = x.home /\ y.fixed = x.fixed
  <2>1. CASE e \in L
    <3>1. Fields(y, x.name, x.class, x.declared, x.accessed, x.scope, x.home, x.fixed, y.offset)  BY <2>1 DEF Ended
    <3> HIDE DEF x, y
    <3> QED  BY <3>1 DEF Fields
  <2>2. CASE e \notin L
    <3>1. y = x  BY <2>2 DEF Ended
    <3> HIDE DEF x, y
    <3> QED  BY <3>1
  <2> QED  BY <2>1, <2>2
<1> HIDE DEF x, y
<1>2. EntrySize(y) = EntrySize(x) /\ (Resident(y) <=> Resident(x)) /\ ClassOf(y) = ClassOf(x)
  BY <1>1 DEF EntrySize, Resident, ClassOf
<1> QED  BY <1>1, <1>2 DEF x, y

---------------------------------------------------------------------------
\* The types of the table when a SUB has ended.
LEMMA EndedTypes ==
    ASSUME NEW u, TypesOK(u), Depth(u) # 1, NEW L, NEW t, Ended(u, L, t)
    PROVE  TypesOK(t)
<1> DEFINE K == Depth(u)
           n == Len(u.entries)
<1>1. K \in Nat \ {0, 1} /\ n \in Nat
  <2>1. PICK S : u.table \in Seq(S)  BY DEF TypesOK, IsSeq
  <2>2. K \in Nat  BY <2>1 DEF Depth
  <2>3. K # 0 /\ K # 1  BY DEF TypesOK
  <2>4. n \in Nat  BY DEF TypesOK, IsSeq
  <2> QED  BY <2>2, <2>3, <2>4
<1>2. /\ t = [table |-> t.table, entries |-> t.entries]
      /\ IsSeq(t.table) /\ Depth(t) = K - 1 /\ IsSeq(t.entries) /\ Len(t.entries) = n
      /\ \A k \in 1 .. K - 1 : t.table[k] = u.table[k]
  BY DEF Ended
<1>3. \A e \in 1 .. n : IsEntry(t.entries[e]) /\ t.entries[e].name = u.entries[e].name
  <2>1. TAKE e \in 1 .. n
  <2>2. t.entries[e].name = u.entries[e].name  BY EndedSame
  <2>3. CASE e \in L  BY <2>2, <2>3 DEF Ended
  <2>4. CASE e \notin L
    <3>1. t.entries[e] = u.entries[e]  BY <2>4 DEF Ended
    <3> QED  BY <2>2, <3>1 DEF TypesOK
  <2> QED  BY <2>3, <2>4
<1> HIDE DEF K, n
<1>4. ASSUME NEW k \in 1 .. K - 1
      PROVE  /\ IsScope(t.table[k])
             /\ IsSeq(Ns(t, k)) /\ Len(Ns(t, k)) = 2 * (k - 1)
             /\ \A id \in DOMAIN Sym(t, k) :
                   /\ id \in Names /\ Sym(t, k)[id] \in 1 .. n
                   /\ t.entries[Sym(t, k)[id]].name = id
             /\ \A f \in DOMAIN Cas(t, k) : CaseIns /\ Cas(t, k)[f] \in 1 .. n
  <2>1. k \in 1 .. K  BY <1>1
  <2>2. t.table[k] = u.table[k]  BY <1>2
  <2>3. Ns(t, k) = Ns(u, k) /\ Sym(t, k) = Sym(u, k) /\ Cas(t, k) = Cas(u, k)  BY <2>2 DEF Ns, Sym, Cas
  <2>4. /\ IsScope(u.table[k])
        /\ IsSeq(Ns(u, k)) /\ Len(Ns(u, k)) = 2 * (k - 1)
        /\ \A id \in DOMAIN Sym(u, k) :
                   /\ id \in Names /\ Sym(u, k)[id] \in 1 .. n
                   /\ u.entries[Sym(u, k)[id]].name = id
        /\ \A f \in DOMAIN Cas(u, k) : CaseIns /\ Cas(u, k)[f] \in 1 .. n
    BY <2>1 DEF TypesOK, K, n
  <2> QED  BY <1>3, <2>2, <2>3, <2>4
<1>5. Depth(t) # 0  BY <1>1, <1>2
<1> QED  BY <1>2, <1>3, <1>4, <1>5 DEF TypesOK, n

\* What it knows, and how its variables stand.
LEMMA EndedKeeps ==
    ASSUME NEW u, TableInv(u), CalledGlobal(u), Depth(u) # 1, NEW L, NEW t, Ended(u, L, t)
    PROVE  TableInv(t) /\ CalledGlobal(t)
<1> DEFINE K == Depth(u)
           n == Len(u.entries)
<1>1. K \in Nat \ {0, 1} /\ n \in Nat /\ TypesOK(u)
  <2>1. PICK S : u.table \in Seq(S)  BY DEF TableInv, TypesOK, IsSeq
  <2>2. K \in Nat  BY <2>1 DEF Depth
  <2>3. K # 0 /\ K # 1  BY DEF TableInv, TypesOK
  <2>4. n \in Nat /\ TypesOK(u)  BY DEF TableInv, TypesOK, IsSeq
  <2> QED  BY <2>2, <2>3, <2>4
<1>2. /\ Depth(t) = K - 1 /\ Len(t.entries) = n
      /\ \A k \in 1 .. K - 1 : t.table[k] = u.table[k]
      /\ \A e \in 1 .. n : e \notin L => t.entries[e] = u.entries[e]
  BY DEF Ended
<1>3. \A e \in 1 .. n :
         /\ t.entries[e].name = u.entries[e].name /\ t.entries[e].class = u.entries[e].class
         /\ t.entries[e].declared = u.entries[e].declared /\ t.entries[e].scope = u.entries[e].scope
         /\ t.entries[e].home = u.entries[e].home
         /\ EntrySize(t.entries[e]) = EntrySize(u.entries[e]) /\ (Resident(t.entries[e]) <=> Resident(u.entries[e]))
         /\ ClassOf(t.entries[e]) = ClassOf(u.entries[e])
  BY EndedSame
<1>4. \A e \in L : e \in 1 .. n /\ Resident(u.entries[e]) /\ u.entries[e].home = Ns(u, K)  BY DEF Ended
<1>5. \A d, e \in L : d # e =>
          \/ t.entries[d].offset <= t.entries[e].offset - EntrySize(u.entries[e])
          \/ t.entries[e].offset <= t.entries[d].offset - EntrySize(u.entries[d])
  BY DEF Ended
<1>6. TypesOK(t)  BY <1>1, EndedTypes
<1> HIDE DEF K, n
<1>7. \A k \in 1 .. K - 1 :
         /\ k \in 1 .. K /\ Ns(t, k) = Ns(u, k) /\ Sym(t, k) = Sym(u, k) /\ Cas(t, k) = Cas(u, k)
         /\ \A id : Get(t.table[k], id) = Get(u.table[k], id)
  BY <1>1, <1>2 DEF Ns, Sym, Cas
<1>8. ASSUME NEW k \in 1 .. K
      PROVE  /\ \A e \in Knows(u, k) : e \in 1 .. n
             /\ \A id \in DOMAIN Sym(u, k) : id \in Names /\ Sym(u, k)[id] \in 1 .. n
             /\ \A f \in DOMAIN Cas(u, k) : Cas(u, k)[f] \in 1 .. n
             /\ \A id : Get(u.table[k], id) # None => Get(u.table[k], id) \in 1 .. n
  <2>1. \A e \in Knows(u, k) : e \in 1 .. n  BY <1>1, KnownIs DEF K, n
  <2>2. \A id : Get(u.table[k], id) # None => Get(u.table[k], id) \in Knows(u, k)  BY <1>1, KnownIs DEF K
  <2>3. \A id \in DOMAIN Sym(u, k) : id \in Names /\ Sym(u, k)[id] \in 1 .. n  BY <1>1 DEF TypesOK, K, n
  <2>4. \A f \in DOMAIN Cas(u, k) : Cas(u, k)[f] \in 1 .. n  BY <1>1 DEF TypesOK, K, n
  <2> QED  BY <2>1, <2>2, <2>3, <2>4
<1>9. Homes(t)
  <2>1. \A k \in 2 .. K - 1 : \A e \in Knows(t, k) : t.entries[e].home = Ns(t, k)
    <3>1. SUFFICES ASSUME NEW k \in 2 .. K - 1, NEW e \in Knows(t, k) PROVE t.entries[e].home = Ns(t, k)  OBVIOUS
    <3>2. k \in 1 .. K - 1 /\ k \in 2 .. K /\ k \in 1 .. K  BY <1>1
    <3>3. e \in Knows(u, k) /\ e \in 1 .. n /\ Ns(t, k) = Ns(u, k)  BY <1>7, <1>8, <3>2 DEF Knows
    <3>4. u.entries[e].home = Ns(u, k)  BY <3>2, <3>3 DEF TableInv, Homes, K
    <3> QED  BY <1>3, <3>3, <3>4
  <2>2. \A e \in Knows(t, 1) : t.entries[e].scope = "global"
    <3>1. 1 \in 1 .. K - 1 /\ 1 \in 1 .. K  BY <1>1
    <3>2. SUFFICES ASSUME NEW e \in Knows(t, 1) PROVE t.entries[e].scope = "global"  OBVIOUS
    <3>3. e \in Knows(u, 1) /\ e \in 1 .. n  BY <1>7, <1>8, <3>1 DEF Knows
    <3>4. u.entries[e].scope = "global"  BY <3>3 DEF TableInv, Homes
    <3> QED  BY <1>3, <3>3, <3>4
  <2> QED  BY <1>2, <2>1, <2>2 DEF Homes
<1>10. Stale(t)
  <2>1. SUFFICES ASSUME NEW k \in 2 .. K - 1, NEW e \in Range(Cas(t, k))
                 PROVE  e \in Range(Sym(t, k)) \/ t.entries[e].scope = "global"
    BY <1>2 DEF Stale
  <2>2. k \in 1 .. K - 1 /\ k \in 2 .. K /\ k \in 1 .. K  BY <1>1
  <2>3. e \in Range(Cas(u, k)) /\ Sym(t, k) = Sym(u, k)  BY <1>7, <2>2
  <2>4. e \in Range(Sym(u, k)) \/ u.entries[e].scope = "global"  BY <2>2, <2>3 DEF TableInv, Stale, K
  <2>5. e \in 1 .. n  BY <1>8, <2>2, <2>3 DEF Knows
  <2> QED  BY <1>3, <2>3, <2>4, <2>5
<1>11. Folded(t)
  <2>1. SUFFICES ASSUME CaseIns
                 PROVE  /\ \A k \in 1 .. K - 1 : \A id \in DOMAIN Sym(t, k) : Fold[id] \in DOMAIN Cas(t, k)
                        /\ \A k \in 2 .. K - 1 : \A id \in DOMAIN Sym(t, k) : Cas(t, k)[Fold[id]] = Sym(t, k)[id]
    BY <1>2 DEF Folded
  <2>2. /\ \A k \in 1 .. K : \A id \in DOMAIN Sym(u, k) : Fold[id] \in DOMAIN Cas(u, k)
        /\ \A k \in 2 .. K : \A id \in DOMAIN Sym(u, k) : Cas(u, k)[Fold[id]] = Sym(u, k)[id]
    BY <2>1 DEF TableInv, Folded, K
  <2>3. \A k \in 2 .. K - 1 : k \in 1 .. K - 1 /\ k \in 2 .. K  BY <1>1
  <2> QED  BY <1>7, <2>2, <2>3
<1>12. ClassesOK(t) /\ CalledGlobal(t)  BY <1>2, <1>3 DEF ClassesOK, CalledGlobal, TableInv, n
<1>13. Mids(t)
  <2>1. SUFFICES ASSUME NEW k \in 2 .. K - 1, NEW id \in DOMAIN Sym(t, k),
                        ClassOf(t.entries[Sym(t, k)[id]]) = "unknown", ~ t.entries[Sym(t, k)[id]].declared,
                        NEW j \in 2 .. k - 1
                 PROVE  Get(t.table[j], id) = None
    BY <1>2 DEF Mids
  <2>2. k \in 1 .. K - 1 /\ k \in 2 .. K /\ k \in 1 .. K /\ j \in 1 .. K - 1  BY <1>1
  <2>3. Sym(t, k) = Sym(u, k) /\ Sym(u, k)[id] \in 1 .. n  BY <1>7, <1>8, <2>2
  <2>4. ClassOf(u.entries[Sym(u, k)[id]]) = "unknown" /\ ~ u.entries[Sym(u, k)[id]].declared  BY <1>3, <2>1, <2>3
  <2>5. Get(u.table[j], id) = None  BY <2>2, <2>3, <2>4 DEF TableInv, Mids, K
  <2> QED  BY <1>7, <2>2, <2>5
<1>14. Tops(t)
  <2>1. SUFFICES ASSUME NEW k \in 2 .. K - 1, NEW id \in DOMAIN Sym(t, k),
                        ClassOf(t.entries[Sym(t, k)[id]]) \in {"unknown", "label"}, ~ t.entries[Sym(t, k)[id]].declared
                 PROVE  /\ id \in DOMAIN Sym(t, 1) => IsLabel(t, Sym(t, 1)[id])
                        /\ Fold[id] \in DOMAIN Cas(t, 1) => IsLabel(t, Cas(t, 1)[Fold[id]])
    BY <1>2 DEF Tops
  <2>2. k \in 1 .. K - 1 /\ k \in 2 .. K /\ k \in 1 .. K /\ 1 \in 1 .. K - 1 /\ 1 \in 1 .. K  BY <1>1
  <2>3. Sym(t, k) = Sym(u, k) /\ Sym(u, k)[id] \in 1 .. n  BY <1>7, <1>8, <2>2
  <2>4. ClassOf(u.entries[Sym(u, k)[id]]) \in {"unknown", "label"} /\ ~ u.entries[Sym(u, k)[id]].declared  BY <1>3, <2>1, <2>3
  <2>5. /\ id \in DOMAIN Sym(u, 1) => IsLabel(u, Sym(u, 1)[id])
        /\ Fold[id] \in DOMAIN Cas(u, 1) => IsLabel(u, Cas(u, 1)[Fold[id]])
    BY <2>2, <2>3, <2>4 DEF TableInv, Tops, K
  <2>6. Sym(t, 1) = Sym(u, 1) /\ Cas(t, 1) = Cas(u, 1)  BY <1>7, <2>2
  <2>7. (id \in DOMAIN Sym(u, 1) => Sym(u, 1)[id] \in 1 .. n) /\ (Fold[id] \in DOMAIN Cas(u, 1) => Cas(u, 1)[Fold[id]] \in 1 .. n)
    BY <1>8, <2>2
  <2> QED  BY <1>3, <2>5, <2>6, <2>7 DEF IsLabel
<1>15. Taken(t)
  <2>1. SUFFICES ASSUME NEW k \in 1 .. K - 1, NEW id \in Names, Used(t, Child(Ns(t, k), id)) PROVE Held(t, k, id)
    BY <1>2 DEF Taken
  <2>2. k \in 1 .. K  BY <1>1
  <2>3. PICK h : h = Child(Ns(u, k), id)  OBVIOUS
  <2>4. Used(t, h)  BY <1>7, <2>1, <2>3
  <2>5. Used(u, h)
    <3>1. CASE \E e \in 1 .. Len(t.entries) : Starts(h, t.entries[e].home)  BY <1>2, <1>3, <3>1 DEF Used, n
    <3>2. CASE \E j \in 1 .. Depth(t) : Starts(h, Ns(t, j))
      <4>1. PICK j \in 1 .. K - 1 : Starts(h, Ns(t, j))  BY <1>2, <3>2
      <4> QED  BY <1>7, <4>1 DEF Used, K
    <3> QED  BY <2>4, <3>1, <3>2 DEF Used
  <2>6. Held(u, k, id)  BY <2>2, <2>3, <2>5 DEF TableInv, Taken, K
  <2>7. PICK j \in 1 .. k : /\ Get(u.table[j], id) # None
                            /\ \A i \in j + 1 .. k : Get(u.table[i], id) = None
                            /\ u.entries[Get(u.table[j], id)].declared
                            /\ u.entries[Get(u.table[j], id)].class \in {"sub", "var"}
    BY <2>6 DEF Held
  <2>8. j \in 1 .. K - 1 /\ j \in 1 .. K /\ \A i \in j + 1 .. k : i \in 1 .. K - 1  BY <1>1
  <2>9. PICK g : g = Get(u.table[j], id)  OBVIOUS
  <2>10. g \in 1 .. n /\ Get(t.table[j], id) = g  BY <1>7, <1>8, <2>7, <2>8, <2>9
  <2>11. g # None /\ t.entries[g].declared /\ t.entries[g].class \in {"sub", "var"}  BY <1>3, <2>7, <2>9, <2>10
  <2>12. \A i \in j + 1 .. k : Get(t.table[i], id) = None  BY <1>7, <2>7, <2>8
  <2> QED  BY <2>10, <2>11, <2>12 DEF Held
<1>16. Unplaced(t)
  <2>1. SUFFICES ASSUME NEW k \in 2 .. K - 1, NEW e \in 1 .. n, t.entries[e].home = Ns(t, k) PROVE t.entries[e].offset = None
    BY <1>2 DEF Unplaced
  <2>2. k \in 1 .. K - 1 /\ k \in 2 .. K /\ k \in 1 .. K /\ K \in 1 .. K  BY <1>1
  <2>3. u.entries[e].home = Ns(u, k)  BY <1>3, <1>7, <2>1, <2>2
  <2>4. e \notin L
    <3>1. SUFFICES ASSUME e \in L PROVE FALSE  OBVIOUS
    <3>2. Ns(u, k) = Ns(u, K)  BY <1>4, <2>3, <3>1
    <3>3. Len(Ns(u, k)) = 2 * (k - 1) /\ Len(Ns(u, K)) = 2 * (K - 1)  BY <1>1, <2>2 DEF TypesOK, K
    <3> QED  BY <1>1, <3>2, <3>3
  <2>5. u.entries[e].offset = None  BY <2>2, <2>3 DEF TableInv, Unplaced, K, n
  <2> QED  BY <1>2, <2>4, <2>5
<1>17. Apart(t)
  <2>1. SUFFICES ASSUME NEW d \in Placed(t), NEW e \in Placed(t), d # e, t.entries[d].home = t.entries[e].home
                 PROVE  Cells(t, d) \cap Cells(t, e) = {}
    BY DEF Apart
  <2>2. d \in 1 .. n /\ e \in 1 .. n /\ Resident(t.entries[d]) /\ Resident(t.entries[e])
        /\ t.entries[d].offset # None /\ t.entries[e].offset # None
    BY <1>2 DEF Placed
  <2>3. \A c \in 1 .. n : IsEntry(u.entries[c]) /\ EntrySize(u.entries[c]) \in Nat /\ t.entries[c].offset \in Nat
    <3>1. TAKE c \in 1 .. n
    <3>2. IsEntry(u.entries[c]) /\ IsEntry(t.entries[c])  BY <1>1, <1>2, <1>6 DEF TypesOK, n
    <3> QED  BY <3>2, SizeNat DEF IsEntry
  <2>4. \A c \in 1 .. n : c \notin L /\ Resident(t.entries[c]) /\ t.entries[c].offset # None => c \in Placed(u)
    BY <1>2, <1>3 DEF Placed, n
  <2>5. \A b, c \in 1 .. n : b \in L /\ c \notin L /\ t.entries[b].home = t.entries[c].home => t.entries[c].offset = None
    <3>1. SUFFICES ASSUME NEW b \in 1 .. n, NEW c \in 1 .. n, b \in L, c \notin L, t.entries[b].home = t.entries[c].home
                   PROVE  t.entries[c].offset = None
      OBVIOUS
    <3>2. u.entries[c].home = Ns(u, K)  BY <1>3, <1>4, <3>1
    <3>3. K \in 2 .. K  BY <1>1
    <3>4. u.entries[c].offset = None  BY <3>2, <3>3 DEF TableInv, Unplaced, K, n
    <3> QED  BY <1>2, <3>1, <3>4
  <2>6. CASE d \in L /\ e \in L
    <3>1. \/ t.entries[d].offset <= t.entries[e].offset - EntrySize(u.entries[e])
          \/ t.entries[e].offset <= t.entries[d].offset - EntrySize(u.entries[d])
      BY <1>5, <2>1, <2>6
    <3>2. PICK p, q, a, b : /\ p = t.entries[d].offset /\ q = t.entries[e].offset
                            /\ a = EntrySize(u.entries[d]) /\ b = EntrySize(u.entries[e])
      OBVIOUS
    <3>3. p \in Nat /\ q \in Nat /\ a \in Nat /\ b \in Nat /\ (p <= q - b \/ q <= p - a)  BY <2>2, <2>3, <3>1, <3>2
    <3>4. Cells(t, d) = p - a .. p - 1 /\ Cells(t, e) = q - b .. q - 1  BY <1>3, <2>2, <3>2 DEF Cells
    <3>5. (p - a .. p - 1) \cap (q - b .. q - 1) = {}  BY <3>3
    <3> QED  BY <3>4, <3>5
  <2>7. CASE d \notin L /\ e \notin L
    <3>1. d \in Placed(u) /\ e \in Placed(u) /\ t.entries[d] = u.entries[d] /\ t.entries[e] = u.entries[e]
      BY <1>2, <2>2, <2>4, <2>7
    <3>2. Cells(u, d) \cap Cells(u, e) = {}  BY <2>1, <3>1 DEF TableInv, Apart
    <3> QED  BY <3>1, <3>2 DEF Cells
  <2> QED  BY <2>1, <2>2, <2>5, <2>6, <2>7
<1> QED  BY <1>6, <1>9, <1>10, <1>11, <1>12, <1>13, <1>14, <1>15, <1>16, <1>17 DEF TableInv

---------------------------------------------------------------------------
Unmet(s, v) == {e \in Values(v, Current(s.table)) : ClassOf(s.entries[e]) = "unknown"}

\* What the end of a SUB does, step by step.
LEMMA LeaveIs ==
    ASSUME NEW s, NEW v, v = Kept(s), NEW X, X = Unmet(s, v), NEW u, u = MoveIter(v, X)[X], NEW d, d = LeaveScope(s)
    PROVE  \/ d = Failed(s, "crashed")
           \/ d = Done([table |-> Front(u.table), entries |-> PlacedAt(u, Locals(u))], None)
<1> DEFINE mine == Range(Current(s.table).symbols)
           kept == [s EXCEPT !.entries = [e \in DOMAIN @ |->
                       IF e \in mine /\ @[e].scope = "parameter" THEN [@[e] EXCEPT !.accessed = TRUE] ELSE @[e]]]
           unknown == {e \in Values(kept, Current(s.table)) : ClassOf(s.entries[e]) = "unknown"}
           moved == FoldSet(LAMBDA e, w : MoveToGlobalScope(w, w.entries[e].name), kept, unknown)
           rest == Values(moved, Current(moved.table))
           locals == {e \in rest : Resident(moved.entries[e])}
<1>1. kept = v  BY DEF Kept, Sym, Depth, Current
<1>2. unknown = X  BY <1>1 DEF Unmet
<1>3. moved = u
  <2>1. moved = MoveIter(kept, unknown)[unknown]
    <3> HIDE DEF kept, unknown
    <3> QED  BY FoldMoves
  <2> QED  BY <1>1, <1>2, <2>1
<1>4. \/ d = Failed(s, "crashed")
      \/ d = Done([table |-> Front(moved.table),
                   entries |-> [e \in DOMAIN moved.entries |->
                        IF e \in locals THEN [moved.entries[e] EXCEPT !.offset = Offset(moved, locals, e)]
                        ELSE moved.entries[e]]], None)
  BY DEF LeaveScope
<1>5. locals = Locals(moved)  BY DEF Locals
<1> HIDE DEF locals, moved
<1>6. [e \in DOMAIN moved.entries |->
                        IF e \in locals THEN [moved.entries[e] EXCEPT !.offset = Offset(moved, locals, e)]
                        ELSE moved.entries[e]] = PlacedAt(moved, Locals(moved))
  BY <1>5 DEF PlacedAt
<1> QED  BY <1>3, <1>4, <1>6

\* A variable the code refers to has a place when its SUB has ended.
LEMMA EndedAwaits ==
    ASSUME NEW u, TableInv(u), Depth(u) # 1, NEW L, NEW t, Ended(u, L, t), NEW e \in 1 .. Len(u.entries), Awaits(u, e),
           e \in Range(Sym(u, Depth(u))) /\ (Optimize > 1 => u.entries[e].accessed)
              /\ u.entries[e].class \notin {"label", "sub"} /\ u.entries[e].scope = "local" => e \in L
    PROVE  Awaits(t, e)
<1> DEFINE K == Depth(u)
           x == u.entries[e]
           y == t.entries[e]
<1>1. K \in Nat \ {0, 1}
  <2>1. PICK S : u.table \in Seq(S)  BY DEF TableInv, TypesOK, IsSeq
  <2>2. K \in Nat  BY <2>1 DEF Depth
  <2>3. K # 0 /\ K # 1  BY DEF TableInv, TypesOK
  <2> QED  BY <2>2, <2>3
<1>2. y.class = x.class /\ y.scope = x.scope /\ y.fixed = x.fixed /\ y.accessed = x.accessed  BY EndedSame
<1>3. Depth(t) = K - 1 /\ \A k \in 1 .. K - 1 : t.table[k] = u.table[k]  BY DEF Ended
<1>4. SUFFICES ASSUME y.class \notin {"label", "sub"}, y.scope = "local", ~ y.fixed
               PROVE  \/ y.offset # None
                      \/ \E k \in 2 .. Depth(t) : e \in Range(Sym(t, k)) /\ (Optimize > 1 => y.accessed)
  BY DEF Awaits
<1> HIDE DEF K
<1>5. \/ x.offset # None
      \/ \E k \in 2 .. K : e \in Range(Sym(u, k)) /\ (Optimize > 1 => x.accessed)
  BY <1>2, <1>4 DEF Awaits, K
<1>6. CASE e \in L
  <2>1. EntrySize(x) <= y.offset /\ IsEntry(y)  BY <1>6 DEF Ended
  <2>2. IsEntry(x)  BY EntryFacts
  <2>3. EntrySize(x) \in Nat /\ EntrySize(x) # 0
    <3>1. x.scope # "global" /\ ~ x.fixed  BY <1>2, <1>4
    <3> HIDE DEF x
    <3> QED  BY <2>2, <3>1, SizeNat
  <2>4. y.offset \in Nat  BY <2>1 DEF IsEntry
  <2> HIDE DEF x, y
  <2>5. y.offset # 0  BY <2>1, <2>3, <2>4
  <2> QED  BY <2>5 DEF None
<1>7. CASE e \notin L
  <2>1. y = x  BY <1>7 DEF Ended
  <2>2. CASE x.offset # None  BY <2>1, <2>2
  <2>3. ASSUME NEW k \in 2 .. K, e \in Range(Sym(u, k)), Optimize > 1 => x.accessed
        PROVE  \E j \in 2 .. Depth(t) : e \in Range(Sym(t, j)) /\ (Optimize > 1 => y.accessed)
    <3>1. k # K  BY <1>2, <1>4, <1>7, <2>3 DEF K
    <3>2. k \in 2 .. K - 1 /\ k \in 1 .. K - 1  BY <1>1, <3>1
    <3>3. Sym(t, k) = Sym(u, k)  BY <1>3, <3>2 DEF Sym
    <3>4. e \in Range(Sym(t, k)) /\ k \in 2 .. Depth(t)  BY <1>3, <2>3, <3>2, <3>3
    <3>5. Optimize > 1 => y.accessed  BY <2>1, <2>3
    <3> QED  BY <3>4, <3>5
  <2> QED  BY <1>5, <2>2, <2>3
<1> QED  BY <1>6, <1>7

\* The end of a SUB keeps the table right.
LEMMA LeaveKeeps ==
    ASSUME NEW s, TableInv(s), CalledGlobal(s), Depth(s) # 1, NEW d, d = LeaveScope(s)
    PROVE  Right(s, d.s)
<1> DEFINE K == Depth(s)
           n == Len(s.entries)
<1>1. PICK v, X, u, L, t : /\ v = Kept(s) /\ X = Unmet(s, v) /\ u = MoveIter(v, X)[X] /\ L = Locals(u)
                           /\ t = [table |-> Front(u.table), entries |-> PlacedAt(u, L)]
  OBVIOUS
<1>2. d = Failed(s, "crashed") \/ d = Done(t, None)  BY <1>1, LeaveIs
<1>3. CASE d = Failed(s, "crashed")  BY <1>3, SelfRight DEF Failed
<1>4. CASE d = Done(t, None)
  <2>1. /\ Right(s, v) /\ v.table = s.table /\ Len(v.entries) = n
        /\ \A e \in 1 .. n : v.entries[e].name = s.entries[e].name /\ v.entries[e].class = s.entries[e].class
    BY <1>1, KeptKeeps
  <2>2. TableInv(v) /\ CalledGlobal(v) /\ Good(s, v)  BY <2>1 DEF Right, Good
  <2>3. Depth(v) = K /\ Sym(v, K) = Sym(s, K) /\ Current(s.table) = v.table[K] /\ TypesOK(v) /\ K \in 1 .. K
    BY <2>1, <2>2 DEF Depth, Sym, Current, TableInv, TypesOK, IsSeq
  <2> HIDE DEF K, n
  <2>4. \A e \in Range(Sym(v, K)) : e \in 1 .. n  BY <2>1, <2>3 DEF TypesOK, Range
  <2>5. X \subseteq Range(Sym(v, K)) /\ \A e \in X : ClassOf(s.entries[e]) = "unknown"
    BY <1>1, <2>3 DEF Unmet, Values, Sym
  <2>6. \A e \in Range(Sym(v, K)) : e \in X <=> (Optimize > 1 => v.entries[e].accessed) /\ ClassOf(s.entries[e]) = "unknown"
    BY <1>1, <2>3 DEF Unmet, Values, Sym
  <2>7. \A e \in 1 .. n : ClassOf(s.entries[e]) = ClassOf(v.entries[e])  BY <2>1 DEF ClassOf
  <2>8. \A e \in X : Tentative(v.entries[e])
    <3>1. SUFFICES ASSUME NEW e \in X PROVE Tentative(v.entries[e])  OBVIOUS
    <3>2. e \in 1 .. n /\ ClassOf(v.entries[e]) = "unknown"  BY <2>4, <2>5, <2>7
    <3>3. ~ v.entries[e].declared
      <4>1. v.entries[e].declared => v.entries[e].class \in {"var", "label", "sub"}  BY <2>1, <2>2, <3>2 DEF TableInv, ClassesOK
      <4> QED  BY <3>2, <4>1 DEF ClassOf
    <3> QED  BY <3>2, <3>3 DEF Tentative
  <2>9. MovedOut(v, X, u)
    <3>1. Depth(v) # 1  BY <2>3 DEF K
    <3>2. X \subseteq Range(Sym(v, Depth(v)))  BY <2>3, <2>5
    <3>3. TableInv(v)  BY <2>2
    <3>4. MovedOut(v, X, MoveIter(v, X)[X])  BY <2>8, <3>1, <3>2, <3>3, MoveAll
    <3> QED  BY <1>1, <3>4
  <2>10. /\ Good(v, u) /\ Depth(u) = K /\ Len(u.entries) = n
         /\ \A e \in 1 .. n : e \in X => Globalized(v.entries[e], u.entries[e])
         /\ \A e \in 1 .. n : e \notin X => u.entries[e] = v.entries[e]
         /\ \A id \in DOMAIN Sym(u, K) : id \in DOMAIN Sym(v, K) /\ Sym(u, K)[id] = Sym(v, K)[id]
    BY <2>1, <2>3, <2>9 DEF MovedOut
  <2>11. TableInv(u) /\ Depth(u) # 1  BY <2>10 DEF Good, K
  <2>12. CalledGlobal(u)
    <3>1. SUFFICES ASSUME NEW e \in 1 .. n, u.entries[e].class = "called" PROVE u.entries[e].scope = "global"
      BY <2>10 DEF CalledGlobal
    <3>2. CASE e \in X
      <4>1. Globalized(v.entries[e], u.entries[e])  BY <2>10, <3>2
      <4> QED  BY <4>1 DEF Globalized
    <3>3. CASE e \notin X
      <4>1. u.entries[e] = v.entries[e]  BY <2>10, <3>3
      <4> QED  BY <2>1, <2>2, <3>1, <4>1 DEF CalledGlobal
    <3> QED  BY <3>2, <3>3
  <2>13. Ended(u, L, t)  BY <1>1, <2>11, EndedIs
  <2>14. TableInv(t) /\ CalledGlobal(t)  BY <2>11, <2>12, <2>13, EndedKeeps
  <2>15. Keeps(u, t)
    <3>1. Len(u.entries) <= Len(t.entries)
      <4>1. Len(t.entries) = Len(u.entries) /\ Len(u.entries) \in Nat  BY <2>11, <2>13 DEF Ended, TableInv, TypesOK, IsSeq
      <4> QED  BY <4>1
    <3>2. ASSUME NEW e \in 1 .. Len(u.entries), Awaits(u, e) PROVE Awaits(t, e)
      <4>1. ASSUME e \in Range(Sym(u, K)), Optimize > 1 => u.entries[e].accessed,
                   u.entries[e].class \notin {"label", "sub"}, u.entries[e].scope = "local"
            PROVE  e \in L
        <5>1. e \in 1 .. n  BY <2>10, <3>2
        <5>2. e \in Range(Sym(v, K))  BY <2>10, <4>1 DEF Range
        <5>3. e \notin X
          <6>1. SUFFICES ASSUME e \in X PROVE FALSE  OBVIOUS
          <6>2. Globalized(v.entries[e], u.entries[e])  BY <2>10, <5>1, <6>1
          <6> QED  BY <4>1, <6>2 DEF Globalized
        <5>4. u.entries[e] = v.entries[e]  BY <2>10, <5>1, <5>3
        <5>5. ClassOf(s.entries[e]) # "unknown"  BY <2>6, <4>1, <5>2, <5>3, <5>4
        <5>6. ClassOf(u.entries[e]) # "unknown"  BY <2>7, <5>1, <5>4, <5>5
        <5>7. u.entries[e].class \in Classes
          <6>1. IsEntry(u.entries[e])  BY <2>11, <3>2, EntryFacts
          <6> QED  BY <6>1 DEF IsEntry
        <5>8. u.entries[e].class = "var"  BY <4>1, <5>6, <5>7 DEF Classes, ClassOf
        <5>9. e \in Values(u, Current(u.table))  BY <2>10, <4>1 DEF Values, Current, Sym, Depth
        <5> QED  BY <1>1, <4>1, <5>8, <5>9 DEF Locals, Resident
      <4>2. e \in Range(Sym(u, Depth(u))) /\ (Optimize > 1 => u.entries[e].accessed)
               /\ u.entries[e].class \notin {"label", "sub"} /\ u.entries[e].scope = "local" => e \in L
        BY <2>10, <4>1
      <4>3. TableInv(u)  BY <2>11
      <4>4. Depth(u) # 1  BY <2>11
      <4> QED  BY <2>13, <3>2, <4>2, <4>3, <4>4, EndedAwaits
    <3> QED  BY <3>1, <3>2 DEF Keeps
  <2>16. Right(u, t)  BY <2>14, <2>15 DEF Right, Good
  <2>17. Right(v, u)  BY <2>10, <2>12 DEF Right
  <2>18. Right(s, u)  BY <2>1, <2>17, RightTrans
  <2>19. Right(s, t)  BY <2>16, <2>18, RightTrans
  <2> QED  BY <1>4, <2>19 DEF Done
<1> QED  BY <1>2, <1>3, <1>4

---------------------------------------------------------------------------
(* The states of the program.                                               *)

\* The inductive invariant.
FramesInv ==
    /\ TableInv(Here) /\ CalledGlobal(Here)
    /\ result \in {"open", "accepted"} => \A e \in refs : Refs(Here, e)
    /\ result = "accepted" => Len(table) = 1

\* What the outcome of a statement may be.
Outcome(d) == d = [s |-> d.s, e |-> d.e, ok |-> d.ok] /\ d.ok \in {"open", "rejected", "crashed"}
\* The outcomes of a statement that is done and of one that fails,
LEMMA DoneIs ==
    ASSUME NEW s, NEW e
    PROVE  Outcome(Done(s, e)) /\ Outcome(Failed(s, "rejected")) /\ Outcome(Failed(s, "crashed"))
BY DEF Outcome, Done, Failed

\* and those of every statement.
LEMMA Outcomes ==
    ASSUME NEW s, NEW id
    PROVE  /\ Outcome(DeclareVariable(s, id)) /\ Outcome(DeclareAt(s, id)) /\ Outcome(AddressOf(s, id))
           /\ Outcome(Assign(s, id)) /\ Outcome(Evaluate(s, id)) /\ Outcome(DeclareLabel(s, id))
           /\ Outcome(AccessLabel(s, id)) /\ Outcome(DeclareFunc(s, id)) /\ Outcome(Call(s, id))
           /\ Outcome(LeaveScope(s)) /\ \A other : Outcome(DeclareAlias(s, id, other))
<1>1. Outcome(DeclareVariable(s, id))  BY DoneIs, Zenon DEF DeclareVariable
<1>2. Outcome(DeclareAt(s, id))  BY <1>1, DoneIs, Zenon DEF DeclareAt
<1>3. Outcome(AddressOf(s, id))  BY DoneIs, Zenon DEF AddressOf
<1>4. Outcome(Assign(s, id))
  <2>1. PICK t, e, c : /\ t = AccessId(s, id, "unknown") /\ e = GetEntry(t.table, id) /\ c = ClassOf(t.entries[e])
    OBVIOUS
  <2>2. Assign(s, id) = CASE c = "unknown" -> Done(ToVar(t, e), e)
                          [] c = "var" -> Done(t, e)
                          [] OTHER -> Failed(t, "rejected")
    BY <2>1 DEF Assign
  <2>3. CASE c = "unknown"
    <3>1. Assign(s, id) = Done(ToVar(t, e), e)  BY <2>2, <2>3
    <3> QED  BY <3>1, DoneIs
  <2>4. CASE c = "var"
    <3>1. Assign(s, id) = Done(t, e)  BY <2>2, <2>4
    <3> QED  BY <3>1, DoneIs
  <2>5. CASE c # "unknown" /\ c # "var"
    <3>1. Assign(s, id) = Failed(t, "rejected")  BY <2>2, <2>5
    <3> QED  BY <3>1, DoneIs
  <2> QED  BY <2>3, <2>4, <2>5
<1>5. Outcome(Evaluate(s, id))  BY DoneIs, Zenon DEF Evaluate
<1>6. Outcome(DeclareLabel(s, id))  BY DoneIs, Zenon DEF DeclareLabel
<1>7. Outcome(AccessLabel(s, id))  BY DoneIs, Zenon DEF AccessLabel
<1>8. Outcome(DeclareFunc(s, id))  BY DoneIs, Zenon DEF DeclareFunc
<1>9. Outcome(Call(s, id))  BY DoneIs, Zenon DEF Call
<1>10. Outcome(LeaveScope(s))
  <2>1. PICK v, X, u, t : /\ v = Kept(s) /\ X = Unmet(s, v) /\ u = MoveIter(v, X)[X]
                          /\ t = [table |-> Front(u.table), entries |-> PlacedAt(u, Locals(u))]
    OBVIOUS
  <2>2. LeaveScope(s) = Failed(s, "crashed") \/ LeaveScope(s) = Done(t, None)  BY <2>1, LeaveIs
  <2> QED  BY <2>2, DoneIs
<1>11. ASSUME NEW other PROVE Outcome(DeclareAlias(s, id, other))
  <2>1. PICK a, d : a = AddressOf(s, other) /\ d = DeclareVariable(a.s, id)  OBVIOUS
  <2>2. Outcome(d)
    <3>1. \A v : Outcome(DeclareVariable(v, id))  BY DoneIs, Zenon DEF DeclareVariable
    <3> QED  BY <2>1, <3>1
  <2>3. DeclareAlias(s, id, other) = IF a.s.entries[a.e].scope # "global" THEN Failed(a.s, "rejected")
                                     ELSE IF d.ok # "open" THEN d
                                     ELSE Done([d.s EXCEPT !.entries[d.e].fixed = TRUE], d.e)
    BY <2>1, Zenon DEF DeclareAlias
  <2> QED  BY <2>2, <2>3, DoneIs, Zenon
<1> QED  BY <1>1, <1>2, <1>3, <1>4, <1>5, <1>6, <1>7, <1>8, <1>9, <1>10, <1>11

\* A statement that keeps the table right keeps the invariant.
LEMMA ParsedKeeps ==
    ASSUME FramesInv, NEW d, Right(Here, d.s), Outcome(d), Parsed(d),
           \A e \in refs' : e \in refs \/ (d.ok = "open" => Refs(d.s, e))
    PROVE  FramesInv'
<1>1. PICK s : s = d.s  OBVIOUS
<1>2. TableInv(s) /\ CalledGlobal(s)  BY <1>1 DEF Right, Good
<1>3. table' = s.table /\ entries' = s.entries /\ result' = d.ok /\ result = "open"  BY <1>1 DEF Parsed
<1>4. s = [table |-> s.table, entries |-> s.entries]  BY <1>2, Zenon DEF TableInv, TypesOK
<1>5. Here' = s  BY <1>3, <1>4 DEF Here
<1>6. result' \in {"open", "rejected", "crashed"}  BY <1>3 DEF Outcome
<1>7. ASSUME result' \in {"open", "accepted"}, NEW e \in refs' PROVE Refs(s, e)
  <2>1. d.ok = "open"  BY <1>3, <1>6, <1>7
  <2>2. CASE e \in refs
    <3>1. Refs(Here, e)  BY <1>3, <2>2 DEF FramesInv
    <3>2. TableInv(Here)  BY DEF FramesInv
    <3>3. Right(Here, s)  BY <1>1
    <3> QED  BY <3>1, <3>2, <3>3, RefsKept
  <2>3. CASE e \notin refs  BY <1>1, <1>7, <2>1, <2>3
  <2> QED  BY <2>2, <2>3
<1>8. \A e \in refs' : result' \in {"open", "accepted"} => Refs(Here', e)  BY <1>5, <1>7
<1>9. TableInv(Here') /\ CalledGlobal(Here')  BY <1>2, <1>5
<1>10. result' # "accepted"  BY <1>6
<1> QED  BY <1>8, <1>9, <1>10 DEF FramesInv

---------------------------------------------------------------------------
\* Before the first statement nothing is known.
LEMMA InitFrames == Init => FramesInv
<1>1. SUFFICES ASSUME Init PROVE FramesInv  OBVIOUS
<1>2. PICK scope, s : scope = Scope(<<>>) /\ s = [table |-> <<scope>>, entries |-> <<>>]  OBVIOUS
<1>3. Here = s /\ refs = {} /\ result = "open"  BY <1>1, <1>2 DEF Init, Here, table0
<1>4. s.table = <<scope>> /\ s.entries = <<>> /\ Depth(s) = 1 /\ Len(s.entries) = 0 /\ s.table[1] = scope
  BY <1>2 DEF Depth
<1>5. scope.ns = <<>> /\ scope.symbols = <<>> /\ scope.caseins = <<>> /\ IsScope(scope)
  BY <1>2 DEF Scope, IsScope
<1>6. Ns(s, 1) = <<>> /\ DOMAIN Sym(s, 1) = {} /\ DOMAIN Cas(s, 1) = {} /\ Knows(s, 1) = {}
  BY <1>4, <1>5 DEF Ns, Sym, Cas, Knows, Range
<1>7. TypesOK(s)
  <2>1. IsSeq(s.table) /\ IsSeq(s.entries) /\ IsSeq(Ns(s, 1))
    <3>1. <<scope>> \in Seq({scope})  OBVIOUS
    <3>2. <<>> \in Seq({scope})  OBVIOUS
    <3> QED  BY <1>4, <1>6, <3>1, <3>2 DEF IsSeq
  <2>2. s = [table |-> s.table, entries |-> s.entries]  BY <1>2
  <2>3. \A k \in 1 .. 1 : k = 1  OBVIOUS
  <2>4. Len(Ns(s, 1)) = 2 * (1 - 1)  BY <1>6
  <2>5. \A e \in 1 .. 0 : FALSE  OBVIOUS
  <2> QED  BY <1>4, <1>5, <1>6, <2>1, <2>2, <2>3, <2>4, <2>5 DEF TypesOK
<1>8. (\A k \in 2 .. 1 : FALSE) /\ (\A k \in 1 .. 1 : k = 1) /\ (\A e \in 1 .. 0 : FALSE)  OBVIOUS
<1>9. Homes(s) /\ Stale(s) /\ Folded(s) /\ ClassesOK(s) /\ Mids(s) /\ Tops(s) /\ Unplaced(s) /\ Apart(s)
  BY <1>4, <1>6, <1>8 DEF Homes, Stale, Folded, ClassesOK, Mids, Tops, Unplaced, Apart, Placed
<1>10. Taken(s)
  <2>1. SUFFICES ASSUME NEW id, Used(s, Child(<<>>, id)) PROVE FALSE  BY <1>4, <1>6, <1>8 DEF Taken
  <2>2. Starts(Child(<<>>, id), <<>>)  BY <1>4, <1>6, <1>8, <2>1 DEF Used
  <2>3. Child(<<>>, id) = <<"_", id>>  BY DEF Child
  <2>4. Len(<<"_", id>>) <= Len(<<>>)  BY <2>2, <2>3 DEF Starts
  <2> QED  BY <2>4
<1>11. CalledGlobal(s)  BY <1>4, <1>8 DEF CalledGlobal
<1> QED  BY <1>3, <1>7, <1>9, <1>10, <1>11 DEF FramesInv, TableInv

\* A statement that refers to nothing new.
LEMMA QuietStep ==
    ASSUME FramesInv, NEW d, Right(Here, d.s), Outcome(d), Parsed(d), refs' = refs
    PROVE  FramesInv'
BY ParsedKeeps

\* A statement that refers to one entry.
LEMMA RefersStep ==
    ASSUME FramesInv, NEW d, Right(Here, d.s), Outcome(d), Parsed(d), NEW e, NEW set, set = {e} \/ set = {}, Refers(set),
           set = {} \/ (d.ok = "open" => Refs(d.s, e))
    PROVE  FramesInv'
<1>1. \A f \in refs' : f \in refs \/ (f = e /\ set # {})  BY DEF Refers
<1>2. \A f \in refs' : f \in refs \/ (d.ok = "open" => Refs(d.s, f))  BY <1>1
<1> QED  BY <1>2, ParsedKeeps

\* The statements.
LEMMA DimSteps ==
    ASSUME FramesInv, NEW id \in Names, Dim(id) \/ DimAt(id)
    PROVE  FramesInv'
<1>1. TableInv(Here) /\ CalledGlobal(Here)  BY DEF FramesInv
<1>2. PICK s : s = Here  OBVIOUS
<1>3. CASE Dim(id)
  <2>1. PICK d : d = DeclareVariable(s, id)  OBVIOUS
  <2>2. Right(s, d.s) /\ Outcome(d)  BY <1>1, <1>2, <2>1, DeclareVariableKeeps, Outcomes
  <2>3. Parsed(d) /\ refs' = refs  BY <1>2, <1>3, <2>1 DEF Dim
  <2> QED  BY <1>2, <2>2, <2>3, QuietStep
<1>4. CASE DimAt(id)
  <2>1. PICK d : d = DeclareAt(s, id)  OBVIOUS
  <2>2. Right(s, d.s) /\ Outcome(d)  BY <1>1, <1>2, <2>1, DeclareAtKeeps, Outcomes
  <2>3. Parsed(d) /\ refs' = refs  BY <1>2, <1>4, <2>1 DEF DimAt
  <2> QED  BY <1>2, <2>2, <2>3, QuietStep
<1> QED  BY <1>3, <1>4

\* DIM ... AT @other keeps the invariant.
LEMMA DimAliasStep ==
    ASSUME FramesInv, NEW id \in Names, NEW other \in Names, DimAlias(id, other)
    PROVE  FramesInv'
<1>1. TableInv(Here) /\ CalledGlobal(Here)  BY DEF FramesInv
<1>2. PICK s : s = Here  OBVIOUS
<1>3. PICK d, e : d = DeclareAlias(s, id, other) /\ e = AddressOf(s, other).e  OBVIOUS
<1>4. Right(s, d.s) /\ Refs(d.s, e)  BY <1>1, <1>2, <1>3, DeclareAliasKeeps
<1>5. Outcome(d)  BY <1>3, Outcomes
<1>6. Parsed(d) /\ Refers({e})  BY <1>2, <1>3 DEF DimAlias
<1>7. PICK set : set = {e}  OBVIOUS
<1>8. Refers(set)  BY <1>6, <1>7
<1>9. Right(Here, d.s)  BY <1>2, <1>4
<1>10. Parsed(d)  BY <1>6
<1> QED  BY <1>4, <1>5, <1>7, <1>8, <1>9, <1>10, RefersStep

\* Assignments, expressions and addresses keep the invariant.
LEMMA UseSteps ==
    ASSUME FramesInv, NEW id \in Names, Let(id) \/ Use(id) \/ TakeAddress(id)
    PROVE  FramesInv'
<1>1. TableInv(Here) /\ CalledGlobal(Here)  BY DEF FramesInv
<1>2. PICK s : s = Here  OBVIOUS
<1>3. CASE Let(id)
  <2>1. PICK d, set : d = Assign(s, id) /\ set = IF Optimize < 2 THEN {d.e} ELSE {}  OBVIOUS
  <2>2. Right(s, d.s) /\ (d.ok = "open" /\ Optimize < 2 => Refs(d.s, d.e))  BY <1>1, <1>2, <2>1, AssignKeeps
  <2>3. Outcome(d)  BY <2>1, Outcomes
  <2>4. Parsed(d) /\ Refers(set)  BY <1>2, <1>3, <2>1 DEF Let
  <2>5. PICK e : e = d.e  OBVIOUS
  <2>6. set = {e} \/ set = {}  BY <2>1, <2>5
  <2>7. set = {} \/ (d.ok = "open" => Refs(d.s, e))  BY <2>1, <2>2, <2>5
  <2>8. Right(Here, d.s)  BY <1>2, <2>2
  <2>9. Parsed(d)  BY <2>4
  <2>10. Refers(set)  BY <2>4
  <2> QED  BY <2>3, <2>6, <2>7, <2>8, <2>9, <2>10, RefersStep
<1>4. CASE Use(id)
  <2>1. PICK d, set, e : d = Evaluate(s, id) /\ set = {e} /\ e = d.e
    <3>1. PICK d : d = Evaluate(s, id)  OBVIOUS
    <3> QED  BY <3>1
  <2>2. Right(s, d.s) /\ (d.ok = "open" => Refs(d.s, e))  BY <1>1, <1>2, <2>1, EvaluateKeeps
  <2>3. Outcome(d)  BY <2>1, Outcomes
  <2>4. Parsed(d)  BY <1>2, <1>4, <2>1 DEF Use
  <2>5. Refers(set)  BY <1>2, <1>4, <2>1 DEF Use
  <2>6. set = {e} \/ set = {}  BY <2>1
  <2>7. set = {} \/ (d.ok = "open" => Refs(d.s, e))  BY <2>2
  <2>8. Right(Here, d.s)  BY <1>2, <2>2
  <2> QED  BY <2>3, <2>4, <2>5, <2>6, <2>7, <2>8, RefersStep
<1>5. CASE TakeAddress(id)
  <2>1. PICK d, set, e : d = AddressOf(s, id) /\ set = {e} /\ e = d.e
    <3>1. PICK d : d = AddressOf(s, id)  OBVIOUS
    <3> QED  BY <3>1
  <2>2. Right(s, d.s) /\ Refs(d.s, e)  BY <1>1, <1>2, <2>1, AddressOfKeeps
  <2>3. Outcome(d)  BY <2>1, Outcomes
  <2>4. Parsed(d)  BY <1>2, <1>5, <2>1 DEF TakeAddress
  <2>5. Refers(set)  BY <1>2, <1>5, <2>1 DEF TakeAddress
  <2>6. set = {e} \/ set = {}  BY <2>1
  <2>7. set = {} \/ (d.ok = "open" => Refs(d.s, e))  BY <2>2
  <2>8. Right(Here, d.s)  BY <1>2, <2>2
  <2> QED  BY <2>3, <2>4, <2>5, <2>6, <2>7, <2>8, RefersStep
<1> QED  BY <1>3, <1>4, <1>5

\* Labels and jumps to them keep the invariant.
LEMMA LabelSteps ==
    ASSUME FramesInv, NEW id \in Names, Label(id) \/ GoTo(id)
    PROVE  FramesInv'
<1>1. TableInv(Here) /\ CalledGlobal(Here)  BY DEF FramesInv
<1>2. PICK s : s = Here  OBVIOUS
<1>3. CASE Label(id)
  <2>1. PICK d : d = DeclareLabel(s, id)  OBVIOUS
  <2>2. Right(s, d.s)  BY <1>1, <1>2, <2>1, DeclareLabelKeeps
  <2>3. Outcome(d)  BY <2>1, Outcomes
  <2>4. Parsed(d) /\ refs' = refs  BY <1>2, <1>3, <2>1 DEF Label
  <2> QED  BY <1>2, <2>2, <2>3, <2>4, QuietStep
<1>4. CASE GoTo(id)
  <2>1. PICK d, set, e : d = AccessLabel(s, id) /\ set = {e} /\ e = d.e
    <3>1. PICK d : d = AccessLabel(s, id)  OBVIOUS
    <3> QED  BY <3>1
  <2>2. Right(s, d.s) /\ (d.ok = "open" => Refs(d.s, e))  BY <1>1, <1>2, <2>1, AccessLabelKeeps
  <2>3. Outcome(d)  BY <2>1, Outcomes
  <2>4. Parsed(d)  BY <1>2, <1>4, <2>1 DEF GoTo
  <2>5. Refers(set)  BY <1>2, <1>4, <2>1 DEF GoTo
  <2>6. set = {e} \/ set = {}  BY <2>1
  <2>7. set = {} \/ (d.ok = "open" => Refs(d.s, e))  BY <2>2
  <2>8. Right(Here, d.s)  BY <1>2, <2>2
  <2> QED  BY <2>3, <2>4, <2>5, <2>6, <2>7, <2>8, RefersStep
<1> QED  BY <1>3, <1>4

\* Calls keep the invariant.
LEMMA CallSteps ==
    ASSUME FramesInv, NEW id \in Names, CallPlain(id) \/ CallSub(id)
    PROVE  FramesInv'
<1>1. TableInv(Here) /\ CalledGlobal(Here)  BY DEF FramesInv
<1>2. PICK s : s = Here  OBVIOUS
<1>3. PICK d, set, e : d = Call(s, id) /\ set = {e} /\ e = d.e
  <2>1. PICK d : d = Call(s, id)  OBVIOUS
  <2> QED  BY <2>1
<1>4. Right(s, d.s) /\ (d.ok = "open" => Refs(d.s, e))  BY <1>1, <1>2, <1>3, CallKeeps
<1>5. Outcome(d)  BY <1>3, Outcomes
<1>6. Parsed(d)  BY <1>2, <1>3 DEF CallPlain, CallSub
<1>7. Refers(set)  BY <1>2, <1>3 DEF CallPlain, CallSub
<1>8. set = {e} \/ set = {}  BY <1>3
<1>9. set = {} \/ (d.ok = "open" => Refs(d.s, e))  BY <1>4
<1>10. Right(Here, d.s)  BY <1>2, <1>4
<1> QED  BY <1>5, <1>6, <1>7, <1>8, <1>9, <1>10, RefersStep

\* The head of a SUB keeps the invariant.
LEMMA SubBeginStep ==
    ASSUME FramesInv, NEW id \in Names, NEW params, params = {} \/ \E v \in Names : params = {v}, SubBegin(id, params)
    PROVE  FramesInv'
<1>1. TableInv(Here) /\ CalledGlobal(Here)  BY DEF FramesInv
<1>2. PICK s : s = Here  OBVIOUS
<1>3. PICK d : d = DeclareFunc(s, id)  OBVIOUS
<1>4. Right(s, d.s) /\ (d.ok = "open" => Begins(d.s, id))  BY <1>1, <1>2, <1>3, DeclareFuncKeeps
<1>5. Outcome(d)  BY <1>3, Outcomes
<1>6. PICK c : c = IF d.ok = "open" THEN [d EXCEPT !.s = EnterScope(d.s, id, params)] ELSE d  OBVIOUS
<1>7. Parsed(c) /\ refs' = refs  BY <1>2, <1>3, <1>6 DEF SubBegin
<1>8. Right(s, c.s) /\ Outcome(c)
  <2>1. CASE d.ok # "open"
    <3>1. c = d  BY <1>6, <2>1
    <3> QED  BY <1>4, <1>5, <3>1
  <2>2. CASE d.ok = "open"
    <3>1. PICK t, u, o, f : t = d.s /\ u = EnterScope(t, id, params) /\ o = d.ok /\ f = d.e  OBVIOUS
    <3>2. d = [s |-> t, e |-> f, ok |-> o]  BY <1>5, <3>1 DEF Outcome
    <3>3. c = [d EXCEPT !.s = u]  BY <1>6, <2>2, <3>1
    <3>4. c = [s |-> u, e |-> f, ok |-> o]  BY <3>2, <3>3
    <3>5. c.s = u /\ Outcome(c)  BY <1>5, <3>1, <3>4 DEF Outcome
    <3>6. TableInv(t) /\ CalledGlobal(t) /\ Held(t, Depth(t), id) /\ ~ Used(t, Child(Ns(t, Depth(t)), id))
      BY <1>4, <2>2, <3>1 DEF Right, Good, Begins
    <3>7. Right(t, u)
      <4>1. Good(t, EnterScope(t, id, params)) /\ CalledGlobal(EnterScope(t, id, params))  BY <3>6, EnterScopeKeeps
      <4> QED  BY <3>1, <4>1 DEF Right
    <3>8. Right(s, t) /\ TableInv(s)  BY <1>1, <1>2, <1>4, <3>1
    <3> QED  BY <3>5, <3>7, <3>8, RightTrans
  <2> QED  BY <2>1, <2>2
<1> QED  BY <1>2, <1>7, <1>8, QuietStep

\* The end of a SUB keeps the invariant.
LEMMA SubEndStep ==
    ASSUME FramesInv, SubEnd
    PROVE  FramesInv'
<1>1. TableInv(Here) /\ CalledGlobal(Here)  BY DEF FramesInv
<1>2. PICK s, d : s = Here /\ d = LeaveScope(s)  OBVIOUS
<1>3. Depth(s) # 1
  <2>1. Len(s.table) > 1  BY <1>2 DEF SubEnd, InFunction
  <2>2. ~ (1 > 1)  OBVIOUS
  <2> QED  BY <2>1, <2>2, Zenon DEF Depth
<1>4. Right(s, d.s)  BY <1>1, <1>2, <1>3, LeaveKeeps
<1>5. Outcome(d)  BY <1>2, Outcomes
<1>6. Parsed(d) /\ refs' = refs  BY <1>2 DEF SubEnd
<1> QED  BY <1>2, <1>4, <1>5, <1>6, QuietStep

\* The end of the program keeps the invariant.
LEMMA ProgramEndStep ==
    ASSUME FramesInv, ProgramEnd
    PROVE  FramesInv'
<1>1. table' = table /\ entries' = entries /\ refs' = refs /\ result = "open" /\ ~ InFunction(Here)  BY DEF ProgramEnd
<1>2. Here' = Here  BY <1>1 DEF Here
<1>3. Len(table) = 1
  <2>1. TypesOK(Here) /\ Here.table = table  BY DEF FramesInv, TableInv, Here
  <2>2. IsSeq(table) /\ Len(table) # 0  BY <2>1 DEF TypesOK, Depth
  <2>3. PICK n : n = Len(table)  OBVIOUS
  <2>4. n \in Nat /\ n # 0  BY <2>2, <2>3 DEF IsSeq
  <2>5. ~ (n > 1)  BY <1>1, <2>1, <2>3, Zenon DEF InFunction
  <2>6. n = 1  BY ONLY <2>4, <2>5
  <2> QED  BY <2>3, <2>6
<1>4. TableInv(Here) /\ CalledGlobal(Here) /\ \A e \in refs : Refs(Here, e)  BY <1>1 DEF FramesInv
<1>5. TableInv(Here') /\ CalledGlobal(Here') /\ \A e \in refs' : Refs(Here', e)  BY <1>1, <1>2, <1>4
<1>6. Len(table') = 1  BY <1>1, <1>3
<1> QED  BY <1>5, <1>6 DEF FramesInv

\* Every step keeps the invariant.
LEMMA NextFrames == FramesInv /\ [Next]_vars => FramesInv'
<1>1. SUFFICES ASSUME FramesInv, [Next]_vars PROVE FramesInv'  OBVIOUS
<1>2. Implicit \subseteq Names /\ Variables \subseteq Names /\ Labels \subseteq Names /\ Subs \subseteq Names
  BY StatementsAssumption
<1>3. ASSUME NEW id \in Variables, Dim(id) \/ DimAt(id) \/ Let(id) PROVE FramesInv'
  BY <1>1, <1>2, <1>3, DimSteps, UseSteps
<1>4. ASSUME NEW id \in Variables \cup Implicit, Use(id) PROVE FramesInv'
  BY <1>1, <1>2, <1>4, UseSteps
<1>5. ASSUME NEW id \in Variables, NEW other \in Variables, DimAlias(id, other) PROVE FramesInv'
  BY <1>1, <1>2, <1>5, DimAliasStep
<1>6. ASSUME NEW id \in Labels, Label(id) \/ CallPlain(id) \/ GoTo(id) PROVE FramesInv'
  BY <1>1, <1>2, <1>6, LabelSteps, CallSteps
<1>7. ASSUME NEW id \in Labels \cup Subs, TakeAddress(id) PROVE FramesInv'
  BY <1>1, <1>2, <1>7, UseSteps
<1>8. ASSUME NEW id \in Subs, CallSub(id) PROVE FramesInv'
  BY <1>1, <1>2, <1>8, CallSteps
<1>9. ASSUME NEW id \in Subs, NEW params \in {{}} \cup {{v} : v \in Variables}, SubBegin(id, params) PROVE FramesInv'
  <2>1. params = {} \/ \E v \in Names : params = {v}  BY <1>2
  <2> QED  BY <1>1, <1>2, <1>9, <2>1, SubBeginStep
<1>10. CASE SubEnd  BY <1>1, <1>10, SubEndStep
<1>11. CASE ProgramEnd  BY <1>1, <1>11, ProgramEndStep
<1>12. CASE UNCHANGED vars
  <2>1. Here' = Here /\ refs' = refs /\ result' = result /\ table' = table  BY <1>12 DEF vars, Here
  <2>2. /\ TableInv(Here') /\ CalledGlobal(Here')
        /\ result' \in {"open", "accepted"} => \A e \in refs' : Refs(Here', e)
        /\ result' = "accepted" => Len(table') = 1
    BY <1>1, <2>1 DEF FramesInv
  <2> QED  BY <2>2 DEF FramesInv
<1> QED  BY <1>1, <1>3, <1>4, <1>5, <1>6, <1>7, <1>8, <1>9, <1>10, <1>11, <1>12 DEF Next

\* The variables of a frame are apart, and each one that is used has a place.
LEMMA FramesFollow == FramesInv => FramesDisjoint
<1>1. SUFFICES ASSUME FramesInv PROVE FramesDisjoint  OBVIOUS
<1>2. PICK s : s = Here  OBVIOUS
<1>3. TableInv(s) /\ s.entries = entries /\ s.table = table  BY <1>1, <1>2 DEF FramesInv, Here
<1>4. DOMAIN entries = 1 .. Len(entries)  BY <1>3 DEF TableInv, TypesOK, IsSeq
<1>5. {e \in DOMAIN entries : Resident(entries[e]) /\ entries[e].offset # None} = Placed(s)  BY <1>3, <1>4 DEF Placed
<1>6. \A e : Cells(s, e) = entries[e].offset - EntrySize(entries[e]) .. entries[e].offset - 1  BY <1>3 DEF Cells
<1>7. \A d, e \in Placed(s) : d # e /\ entries[d].home = entries[e].home => Cells(s, d) \cap Cells(s, e) = {}
  BY <1>3 DEF TableInv, Apart
<1>8. ASSUME result = "accepted", NEW e \in refs, Resident(entries[e]), ~ entries[e].fixed PROVE e \in Placed(s)
  <2>1. Refs(s, e) /\ Len(table) = 1  BY <1>1, <1>2, <1>8 DEF FramesInv
  <2>2. e \in 1 .. Len(s.entries) /\ Awaits(s, e) /\ Depth(s) = 1  BY <1>3, <2>1 DEF Refs, Depth
  <2>3. s.entries[e].offset # None  BY <1>3, <1>8, <2>2 DEF Awaits, Resident
  <2> QED  BY <1>3, <1>8, <2>2, <2>3 DEF Placed
<1> QED  BY <1>5, <1>6, <1>7, <1>8 DEF FramesDisjoint

\* For any program, the variables that a SUB keeps on its frame do not overlap,
\* and in an accepted program each one that the code refers to has a place.
THEOREM FramesAlways == Spec => []FramesDisjoint
<1>1. Init => FramesInv  BY InitFrames
<1>2. FramesInv /\ [Next]_vars => FramesInv'  BY NextFrames
<1>3. FramesInv => FramesDisjoint  BY FramesFollow
<1> QED  BY <1>1, <1>2, <1>3, PTL DEF Spec
=============================================================================
