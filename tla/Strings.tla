------------------------------ MODULE Strings ------------------------------
(***************************************************************************)
(* Who owns the heap blocks of a program's strings: the code that          *)
(* arch/z80/backend/_str.py and the visitor emit for string statements,    *)
(* and the runtime routines it calls (strcpy, strcat, loadstr, storestr,   *)
(* storestr2, strslice, string, mem/realloc).                              *)
(*                                                                         *)
(* A string variable holds a pointer to a block or NULL, the empty string. *)
(* An expression leaves pointers to temporary strings on the stack; the    *)
(* code generator knows which operands are temporaries and frees each of   *)
(* them once.  val and tval are the texts that BASIC says variables and    *)
(* temporaries have; no action reads them.                                 *)
(***************************************************************************)
EXTENDS Integers, FiniteSets, SequencesExt

CONSTANTS Vars,       \* the string variables
          Ptrs,       \* the blocks the heap can hold at once
          Literal,    \* the address of a string literal, outside the heap
          Null,
          Chars,      \* the characters: literals are of one of them
          MaxLen,     \* bound on the characters of the temporaries
          MaxTemps,   \* bound on the temporaries of an expression
          Slack,      \* bytes a block can be longer than asked for (0 to 3)
          Waste,      \* bytes an assignment leaves unused in a block (4)
          MayFail     \* can an allocation fail though a block is free

ASSUME StringsAssumption ==
    /\ Ptrs \subseteq Nat
    /\ Null \notin Ptrs /\ Literal \notin Ptrs /\ Literal # Null
    /\ MaxLen \in Nat /\ MaxTemps \in Nat /\ Waste \in Nat
    /\ Slack \subseteq 0 .. Waste
    /\ MayFail \in BOOLEAN

VARIABLES heap,    \* the allocated blocks: room for characters, and the text
          lit,     \* the text of the literal in use
          var,     \* the pointer each variable holds
          stack,   \* the pointers to the temporaries, last one on top
          val,     \* the text each variable should have
          tval     \* the text each temporary should have

vars == <<heap, lit, var, stack, val, tval>>

Empty == <<>>
Literals == {<<c>> : c \in Chars}
Garbage == <<"?">>

\* What is read through pointer p in heap h.
Text(h, p) ==
    CASE p = Null          -> Empty
      [] p = Literal       -> lit
      [] p \in DOMAIN h    -> h[p].text
      [] OTHER             -> Garbage
-----------------------------------------------------------------------------
(* The runtime routines, as the set of the heaps and pointers they may return. *)

Outcome(h, p) == [heap |-> h, ptr |-> p]

\* __MEM_ALLOC for a text of n characters.  Blocks are interchangeable, so it
\* does not matter which of the unused ones is taken.  Ptrs has one for every
\* variable and temporary and the copies a routine makes.
Alloc(h, n) ==
    LET unused == Ptrs \ DOMAIN h
        Taken(p, more) == [q \in DOMAIN h \union {p} |->
                             IF q = p THEN [room |-> n + more, text |-> Garbage] ELSE h[q]]
    IN  {Outcome(Taken(p, more), p) : 
           p \in {q \in unused : \A r \in unused : q <= r}, more \in Slack}
          \union (IF MayFail THEN {Outcome(h, Null)} ELSE {})

\* __MEM_FREE: nothing is done for NULL.
Free(h, p) == [q \in DOMAIN h \ {p} |-> h[q]]

\* __REALLOC: the content is not looked at by the callers here.
ReallocStr(h, p, n) == Alloc(Free(h, p), n)

Write(h, p, text) == [h EXCEPT ![p].text = text]

\* The block of a$ is kept when b$ fits in it and not much is wasted.
FitsAny(h, a, n) == a \in DOMAIN h   \* fault: the length is not compared
Fits(h, a, n) == a \in DOMAIN h /\ h[a].room >= n /\ h[a].room - n <= Waste

\* __STRASSIGN, a$ = b$: without memory HL is left at b$.
StrAssign(h, a, b) ==
    LET n == Len(Text(h, b))
        target == IF Fits(h, a, n) THEN {Outcome(h, a)} ELSE ReallocStr(h, a, n)
    IN  {IF o.ptr = Null THEN Outcome(o.heap, b)
         ELSE Outcome(Write(o.heap, o.ptr, Text(o.heap, b)), o.ptr) : o \in target}

\* __LOADSTR: a copy in the heap; NULL for NULL, and without memory.
LoadStr(h, p) ==
    IF p = Null THEN {Outcome(h, Null)}
    ELSE {IF o.ptr = Null THEN o ELSE Outcome(Write(o.heap, o.ptr, Text(h, p)), o.ptr) :
             o \in Alloc(h, Len(Text(h, p)))}

\* __ADDSTR: a new string; without memory HL is left at a$.
AddSwapped(h, a, b) ==   \* fault: the operands are taken in the wrong order
    LET text == Text(h, b) \o Text(h, a)
    IN  {IF o.ptr = Null THEN Outcome(o.heap, a)
         ELSE Outcome(Write(o.heap, o.ptr, text), o.ptr) : o \in Alloc(h, Len(text))}
AddStr(h, a, b) ==
    LET text == Text(h, a) \o Text(h, b)
    IN  {IF o.ptr = Null THEN Outcome(o.heap, a)
         ELSE Outcome(Write(o.heap, o.ptr, text), o.ptr) : o \in Alloc(h, Len(text))}

\* Characters lo .. hi of a text, counted from 0 and cut at its end.
Cut(text, lo, hi) == SubSeq(text, lo + 1, IF hi < Len(text) THEN hi + 1 ELSE Len(text))

\* __STRSLICE: a new string, NULL when it would be empty or without memory.
StrSlice(h, p, lo, hi) ==
    LET text == Cut(Text(h, p), lo, hi)
    IN  IF text = Empty THEN {Outcome(h, Null)}
        ELSE {IF o.ptr = Null THEN o ELSE Outcome(Write(o.heap, o.ptr, text), o.ptr) :
                 o \in Alloc(h, Len(text))}
-----------------------------------------------------------------------------
(* Operands.  A variable or a literal is read where it is; a temporary is     *)
(* popped off the stack.  The second operand of two is popped first.          *)

Named == [kind : {"var"}, v : Vars] \union [kind : {"lit", "tmp"}]

IsTemp(x) == x.kind = "tmp"

Temps(x) == IF IsTemp(x) THEN 1 ELSE 0

\* The operand's pointer, when depth temporaries are above it.
Ptr(x, depth) ==
    CASE x.kind = "var" -> var[x.v]
      [] x.kind = "lit" -> Literal
      [] x.kind = "tmp" -> stack[Len(stack) - depth]

\* The text BASIC gives it.
Value(x, depth) ==
    CASE x.kind = "var" -> val[x.v]
      [] x.kind = "lit" -> lit
      [] x.kind = "tmp" -> tval[Len(stack) - depth]

Popped(s, n) == SubSeq(s, 1, Len(s) - n)

\* free_sequence: a temporary is given back once it has been used.
FreeVar(h, x, p) == IF p = Literal THEN h ELSE Free(h, p)   \* fault: so are variables
FreeTemp(h, x, p) == IF IsTemp(x) THEN Free(h, p) ELSE h
-----------------------------------------------------------------------------
Init ==
    /\ heap = [p \in {} |-> Empty]
    /\ lit \in Literals
    /\ var = [v \in Vars |-> Null]
    /\ stack = <<>>
    /\ val = [v \in Vars |-> Empty]
    /\ tval = <<>>

\* The program goes on to code that uses another literal.
NextLiteral ==
    /\ stack = <<>>
    /\ lit' \in Literals
    /\ UNCHANGED <<heap, var, stack, val, tval>>

\* storestr, of a variable or literal: __STORE_STR.
StoreStr(v, x) ==
    /\ ~ IsTemp(x)
    /\ \E o \in StrAssign(heap, var[v], Ptr(x, 0)) :
          /\ heap' = o.heap
          /\ var' = [var EXCEPT ![v] = o.ptr]
    /\ val' = [val EXCEPT ![v] = Value(x, 0)]
    /\ UNCHANGED <<lit, stack, tval>>

\* storestr, of a temporary: __STORE_STR2 moves its pointer to the variable.
StoreStr2(v) ==
    /\ stack # <<>>
    /\ heap' = Free(heap, var[v])
    /\ var' = [var EXCEPT ![v] = stack[Len(stack)]]
    /\ val' = [val EXCEPT ![v] = tval[Len(stack)]]
    /\ stack' = Popped(stack, 1)
    /\ tval' = Popped(tval, 1)
    /\ UNCHANGED lit

\* The result of a routine becomes a temporary, in place of the operands.
Push(n, o, text) ==
    /\ heap' = o.heap
    /\ stack' = Append(Popped(stack, n), o.ptr)
    /\ tval' = Append(Popped(tval, n), text)
    /\ Len(stack') <= MaxTemps
    /\ FoldSeq(LAMBDA t, total : Len(t) + total, 0, tval') <= MaxLen
    /\ UNCHANGED <<lit, var, val>>

\* loadstr and paramstr: a copy of a variable or literal.
Load(x) ==
    /\ ~ IsTemp(x)
    /\ \E o \in LoadStr(heap, Ptr(x, 0)) : Push(0, o, Value(x, 0))

\* addstr: x + y.
Add(x, y) ==
    /\ Len(stack) >= Temps(x) + Temps(y)
    /\ LET p == Ptr(x, Temps(y))
           q == Ptr(y, 0)
       IN  \E o \in AddStr(heap, p, q) :
              Push(Temps(x) + Temps(y),
                   Outcome(FreeTemp(FreeTemp(o.heap, x, p), y, q), o.ptr),
                   Value(x, Temps(y)) \o Value(y, 0))

\* visit_STRSLICE: register A tells __STRSLICE to free the string it cuts.
Slice(x, lo, hi) ==
    /\ Len(stack) >= Temps(x)
    /\ LET p == Ptr(x, 0)
       IN  \E o \in StrSlice(heap, p, lo, hi) :
              Push(Temps(x), Outcome(FreeTemp(o.heap, x, p), o.ptr),
                   Cut(Value(x, 0), lo, hi))

\* visit_FUNCCALL of a function that returns its parameter: the argument is a
\* copy or a temporary, retstr copies it again and __leave frees it.
CallFunction(x) ==
    /\ Len(stack) >= Temps(x)
    /\ \E arg \in IF IsTemp(x) THEN {Outcome(heap, Ptr(x, 0))} ELSE LoadStr(heap, Ptr(x, 0)) :
          \E r \in LoadStr(arg.heap, arg.ptr) :
             Push(Temps(x), Outcome(Free(r.heap, arg.ptr), r.ptr), Value(x, 0))

\* Comparisons, LEN, CODE, PRINT: the temporaries are freed and nothing is
\* pushed that is a string.
Consume(x, y) ==
    /\ IsTemp(x) \/ IsTemp(y)
    /\ Len(stack) >= Temps(x) + Temps(y)
    /\ LET p == Ptr(x, Temps(y))
           q == Ptr(y, 0)
       IN  heap' = FreeTemp(FreeTemp(heap, x, p), y, q)
    /\ stack' = Popped(stack, Temps(x) + Temps(y))
    /\ tval' = Popped(tval, Temps(x) + Temps(y))
    /\ UNCHANGED <<lit, var, val>>

\* The function a local variable belongs to is left, and entered again later.
Leave(v) ==
    /\ stack = <<>>
    /\ heap' = Free(heap, var[v])
    /\ var' = [var EXCEPT ![v] = Null]
    /\ val' = [val EXCEPT ![v] = Empty]
    /\ UNCHANGED <<lit, stack, tval>>

Next ==
    \/ NextLiteral
    \/ \E v \in Vars, x \in Named : StoreStr(v, x)
    \/ \E v \in Vars : StoreStr2(v) \/ Leave(v)
    \/ \E x \in Named : Load(x) \/ CallFunction(x)
    \/ \E x, y \in Named : Add(x, y) \/ Consume(x, y)
    \/ \E x \in Named, lo, hi \in 0 .. MaxLen - 1 : Slice(x, lo, hi)

Spec == Init /\ [][Next]_vars
-----------------------------------------------------------------------------
References(p) ==
    Cardinality({v \in Vars : var[v] = p}) + Cardinality({i \in 1 .. Len(stack) : stack[i] = p})

\* Type invariant.
\* No variable or temporary points to a block that has been freed.
NoDangling == \A p \in Ptrs : References(p) > 0 => p \in DOMAIN heap

\* No block belongs to two of them and none is outside the heap: changing one
\* string never changes another or a literal, and no block is freed twice.
NoSharing ==
    /\ References(Literal) = 0
    /\ \A p \in Ptrs : References(p) <= 1

\* No statement leaves a block behind that nothing points to.
NoLeak == \A p \in DOMAIN heap : References(p) > 0

\* Every block has one owner, and every owner a block.
OneOwner == NoDangling /\ NoSharing /\ NoLeak

\* Each text lies within its block.
TextFits == \A p \in DOMAIN heap : Len(heap[p].text) <= heap[p].room

\* The program computes the texts that BASIC says.
ValuesRight ==
    /\ \A v \in Vars : Text(heap, var[v]) = val[v]
    /\ \A i \in 1 .. Len(stack) : Text(heap, stack[i]) = tval[i]
=============================================================================
