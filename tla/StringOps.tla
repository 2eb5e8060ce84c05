----------------------------- MODULE StringOps -----------------------------
(***************************************************************************)
(* What the string routines of the runtime compute: comparison (__STRCMP   *)
(* and the six operators on top of it), slicing (__STRSLICE, and the       *)
(* folding of slices of constants in symbols/strslice.py) and assignment   *)
(* to a slice (__LETSUBSTR).                                               *)
(*                                                                         *)
(* The routines work on words that wrap at Words, and on strings that lie  *)
(* in memory before other bytes: after is what follows a$ and past the     *)
(* byte that follows b$.  Characters are numbers; Space is one of them.    *)
(***************************************************************************)
EXTENDS Integers, Sequences, FiniteSets

CONSTANTS Words,     \* 2^16
          Chars,     \* the characters in use, Space apart
          MaxLen,    \* bound on the length of a string
          MaxIndex,  \* the largest index a program uses; the words end at Words - 1
          Unread     \* no operation has been done yet

Space == 0

\* MAX_STRSLICE_IDX: the upper limit of a slice with none.
MaxSliceIndex == Words - 2

ASSUME StringOpsAssumption ==
    /\ Words \in Nat /\ MaxLen \in Nat /\ Words > MaxLen + 2
    /\ MaxIndex \in 0 .. Words - 1
    /\ Chars \subseteq Nat \ {Space}
    /\ Unread \notin {"compare", "slice", "assign"}

VARIABLES a,      \* a$, which LET a$(p0 TO p1) changes in place
          b,      \* b$
          after,  \* the bytes after a$
          past,   \* the byte after b$
          last    \* the last operation, its operands and result

vars == <<a, b, after, past, last>>

Bytes == Chars \union {Space}
Strings == UNION {[1 .. n -> Chars] : n \in 0 .. MaxLen}
Indices == 0 .. MaxIndex

Least(m, n) == IF m < n THEN m ELSE n
-----------------------------------------------------------------------------
(* Comparison. *)

\* How many characters __STRCMP compares.  When a$ is the longer one, ADC adds
\* back the length of b$ and also the carry of the subtraction.
CompareCountDrop(m, n) == Least(m, n) - 1   \* fault: BC decremented before the loop
CompareCount(m, n) == IF m > n THEN n + 1 ELSE m

\* __STRCMP: -1, 0 or 1.  Ended is the value when no difference is found.
StrCmp(s, t, next) ==
    LET Memory == Append(t, next)
        differ == {i \in 1 .. CompareCount(Len(s), Len(t)) : s[i] # Memory[i]}
        first  == CHOOSE i \in differ : \A j \in differ : i <= j
        Ended  == IF Len(s) = Len(t) THEN 0 ELSE IF Len(s) < Len(t) THEN -1 ELSE 1
    IN  CASE s = <<>> -> IF t = <<>> THEN 0 ELSE -1
          [] s # <<>> /\ t = <<>> -> 1
          [] s # <<>> /\ t # <<>> /\ differ = {} -> Ended
          [] OTHER -> IF s[first] < Memory[first] THEN -1 ELSE 1

\* Register A after 8-bit arithmetic, as a truth value.
Truth(x) == x % 256 # 0

LessEqual(c) == Truth(c - 1)

\* __STRLT, __STRLE, __STRGT, __STRGE, __STREQ and __STRNE.
Relations(c) ==
    [lt |-> c # 0 /\ Truth(c - 1), le |-> LessEqual(c),
     gt |-> c # 0 /\ Truth(c + 1), ge |-> Truth(c + 1),
     eq |-> ~ Truth(c),            ne |-> Truth(c)]
-----------------------------------------------------------------------------
(* Slices. *)

\* __STRSLICE: where the copy ends, counting from 0 and not included.
SliceEndBare(n, hi) == Least(n, hi)   \* fault: hi is not incremented
SliceEnd(n, hi) == Least(n, (hi + 1) % Words)

StrSlice(s, lo, hi) == SubSeq(s, lo + 1, SliceEnd(Len(s), hi))

\* STRSLICE.make_node, all constant: s.value[lo:up + 1].
FoldUpperNext(up) == Least(up + 1, MaxSliceIndex)   \* fault: incremented twice
FoldUpper(up) == Least(up, MaxSliceIndex)
ConstSlice(s, lo, hi) ==
    LET up == FoldUpper(hi)
    IN  IF lo > up THEN <<>> ELSE SubSeq(s, lo + 1, Least(Len(s), up + 1))

\* __LETSUBSTR: the length to write, cut to the length of a$ as the code does
\* it, whatever p0 is.
WindowUncut(n, p0, p1) == (p1 - p0 + 1) % Words   \* fault: not truncated
WindowLength(n, p0, p1) == Least(n, (p1 - p0 + 1) % Words)

\* How many bytes are filled with spaces: DEC BC takes one before the test.
FillLength(window) == IF window = 0 THEN Words ELSE window

\* The characters of b$ that are copied.
Copied(n, window) == Least(n, window)

\* The bytes of a$ and after it, once the window from p0 on is filled with
\* spaces and b$ is copied over it.
LetSubstr(s, t, tail, p0, p1) ==
    LET n == Len(s)
        window == WindowLength(n, p0, p1)
        copied == Copied(Len(t), window)
        Filled(i) == p0 < i /\ i <= p0 + FillLength(window)
        FromB(i)  == p0 < i /\ i <= p0 + copied
        memory == s \o tail
    IN  IF s = <<>> \/ p0 > p1 \/ p0 >= n THEN memory
        ELSE [i \in 1 .. Len(memory) |->
                CASE FromB(i)                 -> t[i - p0]
                  [] Filled(i) /\ ~ FromB(i)  -> Space
                  [] OTHER                    -> memory[i]]
-----------------------------------------------------------------------------
Init ==
    /\ a \in Strings /\ b \in Strings
    /\ past \in Bytes
    /\ after \in {[i \in 1 .. MaxLen |-> byte] : byte \in Bytes}
    /\ last = [op |-> Unread]

Compare ==
    /\ last' = [op |-> "compare", a |-> a, b |-> b,
                is |-> Relations(StrCmp(a, b, past))]
    /\ UNCHANGED <<a, b, after, past>>

Slice(lo, hi) ==
    /\ last' = [op |-> "slice", a |-> a, lo |-> lo, hi |-> hi,
                text |-> StrSlice(a, lo, hi), const |-> ConstSlice(a, lo, hi)]
    /\ UNCHANGED <<a, b, after, past>>

AssignSlice(p0, p1) ==
    LET memory == LetSubstr(a, b, after, p0, p1)
    IN  /\ a' = SubSeq(memory, 1, Len(a))
        /\ after' = SubSeq(memory, Len(a) + 1, Len(memory))
        /\ last' = [op |-> "assign", a |-> a, b |-> b, after |-> after,
                    p0 |-> p0, p1 |-> p1, text |-> a', tail |-> after']
        /\ UNCHANGED <<b, past>>

\* Each string is looked at once.
Next ==
    /\ last.op = Unread
    /\ \/ Compare
       \/ \E lo, hi \in Indices : Slice(lo, hi) \/ AssignSlice(lo, hi)

Spec == Init /\ [][Next]_vars
-----------------------------------------------------------------------------
\* The order of BASIC: that of the first characters that differ, and a string
\* comes before the longer ones that start with it.
IsPrefixOf(s, t) == Len(s) <= Len(t) /\ SubSeq(t, 1, Len(s)) = s

Before(s, t) ==
    \/ IsPrefixOf(s, t) /\ s # t
    \/ \E i \in 1 .. Least(Len(s), Len(t)) :
          /\ SubSeq(s, 1, i - 1) = SubSeq(t, 1, i - 1)
          /\ s[i] < t[i]

\* a$ = b$ and a$ <> b$ tell whether the texts are equal, whatever byte lies
\* after them in memory.
EqualRight ==
    last.op = "compare" =>
       /\ last.is.eq <=> last.a = last.b
       /\ last.is.ne <=> last.a # last.b

\* The six operators agree with each other on every pair: one of <, = and >
\* holds, <= is < or =, and >= is > or =.
Consistent ==
    last.op = "compare" =>
       LET is == last.is
       IN  /\ is.lt => ~ is.gt /\ ~ is.eq
           /\ is.gt => ~ is.eq
           /\ is.lt \/ is.eq \/ is.gt
           /\ is.le <=> is.lt \/ is.eq
           /\ is.ge <=> is.gt \/ is.eq

\* a$ < b$ is the order of BASIC, but for a longer a$ that starts with b$: there
\* the routine reads one byte too many.
OrderRight ==
    last.op = "compare" /\ ~ (IsPrefixOf(last.b, last.a) /\ last.a # last.b) =>
       (last.is.lt <=> Before(last.a, last.b))

\* The six comparison operators are right, but for that case of an order.
ComparisonsRight == EqualRight /\ Consistent /\ OrderRight

\* What string.asm says of __STRCMP: -1 if a$ < b$, +1 if a$ > b$.
CompareRight == last.op = "compare" => (last.is.lt <=> Before(last.a, last.b))

\* A slice is the characters whose positions are from lo to hi; those the string
\* does not have are left out, as they are where the compiler folds a slice.
\* strslice.asm:12-14 says something else: "if Y > len(a$), then a$ will be padded
\* with spaces" and "NULL (0) if no memory for padding"; the code (lines 45-48)
\* never pads and copies to the end of the string.  The limit of a slice to
\* Words - 1 wraps: of that one it says only that no character is out of place.
SliceRight ==
    last.op = "slice" =>
       LET kept == {i \in 1 .. Len(last.a) : last.lo < i /\ i <= last.hi + 1}
       IN  /\ Len(last.text) <= Cardinality(kept)
           /\ last.hi <= MaxSliceIndex => Len(last.text) = Cardinality(kept)
           /\ \A i \in 1 .. Len(last.text) : last.text[i] = last.a[last.lo + i]

\* A slice folded by the compiler is the one the program would have computed, up
\* to the largest upper limit that does not wrap.
FoldingAgrees ==
    last.op = "slice" /\ last.hi <= MaxSliceIndex => last.const = last.text

\* The slice from 0 to Words - 1 has no length that fits in a word: __LETSUBSTR
\* then fills all of memory with spaces.
AllOfMemory(p0, p1) == p0 = 0 /\ p1 = Words - 1

\* Assignment to a slice changes the characters from p0 to p1 and no others: b$
\* comes first, and spaces fill what it leaves.
AssignmentRight ==
    last.op = "assign" /\ ~ AllOfMemory(last.p0, last.p1) =>
       \A i \in 1 .. Len(last.a) :
          last.text[i] =
             CASE ~ (last.p0 < i /\ i <= last.p1 + 1) -> last.a[i]
               [] last.p0 < i /\ i <= last.p1 + 1 /\ i <= last.p0 + Len(last.b)
                    -> last.b[i - last.p0]
               [] OTHER -> Space

\* What follows the string is written only where p0 to p1 reaches past its end
\* and, as the window is cut to the length of the whole string
\* (letsubstr.asm:70-75), in no more than p0 bytes.  So nothing is written there
\* when p1 is in the string, nor when p0 is 0; the comment of line 75, "Truncate
\* length of substring to fit within the strlen", promises it for every slice.
WritesWithin ==
    last.op = "assign" /\ ~ AllOfMemory(last.p0, last.p1) =>
       \A j \in 1 .. MaxLen :
          last.tail[j] # last.after[j] => Len(last.a) + j <= last.p1 + 1 /\ j <= last.p0

\* Both: what is assigned is right, and what else changes is bounded.
SliceAssignmentRight == AssignmentRight /\ WritesWithin
=============================================================================
