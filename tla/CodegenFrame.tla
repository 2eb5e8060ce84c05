---------------------------- MODULE CodegenFrame ----------------------------
(***************************************************************************)
(* What the backend emits for the variables of a frame, which are at a     *)
(* distance from IX, for the elements of arrays, and to enter and leave a  *)
(* function; with the routines of the runtime that code calls.  A place is *)
(* a record of the offset the visitors give and whether it holds a pointer *)
(* to the variable ("*").                                                  *)
(***************************************************************************)
EXTENDS CodegenReal

Place(offset, indirect) == [offset |-> offset, indirect |-> indirect]
\* Above IX are the IX of the caller and the return address.
FromIX(offset) == IF offset >= 0 THEN offset + 4 ELSE offset
Magnitude(i) == IF i < 0 THEN -i ELSE i

IXInHL == << <<"push", "ix">>, <<"pop", "hl">> >>
Addressed(rr, i) == IXInHL \o << <<"ldnn", rr, i>>, <<"addw", rr>> >>     \* HL = IX + i
Deref(r) == << <<"ld(rr)", r, "hl">>, <<"incw", "hl">>, <<"ld(rr)", "h", "hl">>, <<"ld", "l", r>> >>
LoadDE == << <<"ld(rr)", "e", "hl">>, <<"incw", "hl">>, <<"ld(rr)", "d", "hl">> >>
PushAs(size) ==
    CASE size = 1 -> << PushA >> [] size = 2 -> << PushHL >> [] size = 4 -> PushLong [] size = 5 -> fpush
InRegisters(size, o) ==
    CASE size = 1 -> InA(o) [] size = 2 -> InHL(o) [] size = 4 -> InDEHL(o) [] size = 5 -> InADEBC(o)

paddr(p) ==
    Addressed("de", FromIX(p.offset)) \o (IF p.indirect THEN Deref("e") ELSE <<>>) \o << PushHL >>

\* To the registers of its size.  A parameter of one or five bytes is above
\* the byte that makes its size even.
_pload(p, size) ==
    LET i == FromIX(p.offset) + (IF p.offset >= 0 /\ ~p.indirect THEN size % 2 ELSE 0)
        far == (p.indirect \/ size < 5) /\ Magnitude(i) + size > 127
        hl == ~far /\ size = 5
        at == IF far \/ hl THEN 0 ELSE i
    IN  (IF far THEN << <<"push", "ix">>, <<"ldnn", "de", i>>, <<"addix", "de">> >>
         ELSE IF hl THEN Addressed("de", i) ELSE <<>>)
        \o (IF p.indirect
            THEN << <<"ld(ix)", "h", at + 1>>, <<"ld(ix)", "l", at>> >>
                 \o (CASE size = 1 -> << <<"ld(rr)", "a", "hl">> >>
                       [] size = 2 -> Deref("c")
                       [] size = 4 -> << Call("ILOAD32") >>
                       [] size = 5 -> << Call("ILOADF") >>)
            ELSE CASE size = 1 -> << <<"ld(ix)", "a", at>> >>
                   [] size = 2 -> << <<"ld(ix)", "l", at>>, <<"ld(ix)", "h", at + 1>> >>
                   [] size = 4 -> << <<"ld(ix)", "l", at>>, <<"ld(ix)", "h", at + 1>>,
                                     <<"ld(ix)", "e", at + 2>>, <<"ld(ix)", "d", at + 3>> >>
                   [] size = 5 -> << Call("PLOADF") >>)
        \o (IF far THEN << <<"pop", "ix">> >> ELSE <<>>)
pload(p, size) == _pload(p, size) \o PushAs(size)

Near(i, size) == -128 + size <= i /\ i <= 127 - size
_pstore8(p, o) ==
    LET i == FromIX(p.offset) + (IF p.offset >= 0 /\ ~p.indirect THEN 1 ELSE 0)
        near == Near(i, IF p.indirect THEN 1 ELSE 0)
        put == IF IsInt(o) THEN <<"ld(rr)n", "hl", o[2]>> ELSE <<"ld(rr)r", "hl", "a">>
    IN  (IF IsInt(o) THEN <<>> ELSE InA(o))
        \o (IF near THEN <<>> ELSE Addressed("de", i))
        \o (CASE p.indirect /\ near  -> << <<"ld(ix)", "h", i + 1>>, <<"ld(ix)", "l", i>>, put >>
              [] p.indirect /\ ~near -> Deref("c") \o << put >>
              [] ~p.indirect /\ ~near -> << put >>
              [] OTHER -> << IF IsInt(o) THEN <<"ld(ix)n", i, o[2]>> ELSE <<"ld(ix)r", i, "a">> >>)
_pstore16(p, o) ==
    LET i == FromIX(p.offset)
    IN  IF p.indirect
        THEN InHL(o) \o << <<"ldnn", "bc", i>>, Call("PISTORE16") >>
        ELSE (IF IsInt(o) THEN <<>> ELSE InHL(o))
             \o (CASE Near(i, 1) /\ IsInt(o) ->
                        << <<"ld(ix)n", i, Wrap(o[2]) % 256>>, <<"ld(ix)n", i + 1, Wrap(o[2]) \div 256>> >>
                   [] Near(i, 1) /\ ~IsInt(o) -> << <<"ld(ix)r", i, "l">>, <<"ld(ix)r", i + 1, "h">> >>
                   [] ~Near(i, 1) /\ IsInt(o) ->
                        Addressed("bc", i) \o << <<"ld(rr)n", "hl", Wrap(o[2]) % 256>>, <<"incw", "hl">>,
                                                 <<"ld(rr)n", "hl", Wrap(o[2]) \div 256>> >>
                   [] ~Near(i, 1) /\ ~IsInt(o) -> << <<"exdehl">> >> \o Addressed("bc", i) \o StoreDE)
_pstore32(p, o) ==
    InDEHL(o) \o << <<"ldnn", "bc", FromIX(p.offset)>>, Call(IF p.indirect THEN "PISTORE32" ELSE "PSTORE32") >>
_pstoref(p, o) ==
    InADEBC(o) \o << <<"ldnn", "hl", FromIX(p.offset)>>, Call(IF p.indirect THEN "PISTOREF" ELSE "PSTOREF") >>
pstore(p, size, o) ==
    CASE size = 1 -> _pstore8(p, o) [] size = 2 -> _pstore16(p, o)
      [] size = 4 -> _pstore32(p, o) [] size = 5 -> _pstoref(p, o)
-----------------------------------------------------------------------------
\* The address of an element in HL: its indices are on the stack, the first on
\* the top.  The array is a global one, or a place in the frame, which for a
\* parameter holds a pointer to it.
_addr(at) == << <<"ldnn", "hl", at>>, Call("ARRAY") >>
_paddr(p) ==
    Addressed("de", FromIX(p.offset)) \o << Call(IF p.indirect THEN "ARRAY_PTR" ELSE "ARRAY") >>

ElementLoad(size) ==
    (CASE size = 1 -> << <<"ld(rr)", "a", "hl">> >>
       [] size = 2 -> LoadDE \o << <<"exdehl">> >>
       [] size = 4 -> << Call("ILOAD32") >>
       [] size = 5 -> << Call("LOADF") >>) \o PushAs(size)
paload(p, size) == _paddr(p) \o ElementLoad(size)
aload(at, size) == _addr(at) \o ElementLoad(size)

\* Of an array of the frame: what is not a constant is popped, even the name
\* of a variable.
pastore(p, size, o) ==
    _paddr(p) \o
    (CASE size = 1 -> IF IsInt(o) THEN << <<"ld(rr)n", "hl", o[2]>> >>
                      ELSE << <<"pop", "af">>, <<"ld(rr)r", "hl", "a">> >>
       [] size = 2 -> << IF IsInt(o) THEN <<"ldnn", "de", o[2]>> ELSE <<"pop", "de">> >> \o StoreDE
       [] size = 4 -> InDEAnd("bc", IF IsInt(o) THEN o ELSE <<"temp">>) \o << Call("STORE32") >>
       [] size = 5 -> (IF IsInt(o) THEN InADEBC(o)
                       ELSE << <<"pop", "bc">>, <<"pop", "de">>, <<"exsp">>, <<"ld", "a", "l">>, <<"pop", "hl">> >>)
                      \o << Call("STOREF") >>)
astore(at, size, o) ==
    _addr(at) \o
    (CASE size = 1 -> IF IsInt(o) THEN << <<"ld(rr)n", "hl", o[2]>> >> ELSE InA(o) \o << <<"ld(rr)r", "hl", "a">> >>
       [] size = 2 -> IF IsInt(o) THEN << <<"ld(rr)n", "hl", Wrap(o[2]) % 256>>, <<"incw", "hl">>,
                                          <<"ld(rr)n", "hl", Wrap(o[2]) \div 256>> >>
                      ELSE InDE(o) \o StoreDE
       [] size = 4 -> InDEAnd("bc", o) \o << Call("STORE32") >>
       [] size = 5 -> InADEBC(o) \o << Call("STOREF") >>)
-----------------------------------------------------------------------------
\* The frame: its bytes are zeros.
enter(bytes) ==
    << <<"push", "ix">>, <<"ldnn", "ix", 0>>, <<"addix", "sp">> >>
    \o (CASE bytes = 0 -> <<>>
          [] bytes \in 1 .. 6 ->
               << <<"ldnn", "hl", 0>> >> \o Times(bytes \div 2, << PushHL >>)
               \o (IF bytes % 2 = 1 THEN << PushHL, <<"incsp">> >> ELSE <<>>)
          [] bytes > 6 ->
               << <<"ldnn", "hl", -bytes>>, <<"addw", "sp">>, <<"ldsp", "hl">>, <<"ld(rr)n", "hl", 0>>,
                  <<"ldnn", "bc", bytes - 1>>, <<"ld", "d", "h">>, <<"ld", "e", "l">>, <<"incw", "de">>, <<"ldir">> >>)

LeaveFrame == << <<"ldsp", "ix">>, <<"pop", "ix">> >>
EXIT_FUNCTION ==
    << <<"label", "__EXIT_FUNCTION">> >> \o LeaveFrame
    \o << <<"pop", "de">>, <<"addw", "sp">>, <<"ldsp", "hl">>, <<"push", "de">>, <<"exx">>, Ret >>
\* Drops so many bytes of parameters.  The first long one has the code the
\* others jump to.
leave(bytes, first) ==
    CASE bytes = 0 -> LeaveFrame \o << Ret >>
      [] bytes = 1 -> LeaveFrame \o << <<"incsp">>, Ret >>
      [] bytes \in 2 .. 11 ->
           LeaveFrame \o << <<"exx">>, <<"pop", "hl">> >> \o Times(bytes \div 2 - 1, << <<"pop", "bc">> >>)
           \o (IF bytes % 2 = 1 THEN << <<"incsp">> >> ELSE <<>>) \o << <<"exsp">>, <<"exx">>, Ret >>
      [] bytes > 11 ->
           << <<"exx">>, <<"ldnn", "hl", bytes>> >>
           \o (IF first THEN <<>> ELSE << <<"jp", "always", "__EXIT_FUNCTION">> >>) \o EXIT_FUNCTION

\* A value other than 0 a local variable starts with, copied from a table.
lvard(offset, table, bytes) ==
    Addressed("bc", -offset)
    \o << <<"exdehl">>, <<"ldnn", "hl", table>>, <<"ldnn", "bc", bytes>>, <<"ldir">> >>
\* A local array: its descriptor points to its dimensions, its elements in the
\* heap and its lower bounds.
larrd(offset, dims, bytes, init, lbound, ubound) ==
    LET bounded == lbound # 0 \/ ubound # 0
    IN  (IF bounded THEN << <<"ldnn", "hl", ubound>>, PushHL, <<"ldnn", "hl", lbound>>, PushHL >> ELSE <<>>)
        \o (IF init # 0 THEN << <<"ldnn", "hl", init>>, PushHL >> ELSE <<>>)
        \o << <<"ldnn", "hl", -offset>>, <<"ldnn", "de", dims>>, <<"ldnn", "bc", bytes>>,
              Call(CASE init = 0 /\ ~bounded -> "ALLOC_LOCAL_ARRAY"
                     [] init = 0 /\ bounded  -> "ALLOC_LOCAL_ARRAY_WITH_BOUNDS"
                     [] init # 0 /\ ~bounded -> "ALLOC_INITIALIZED_LOCAL_ARRAY"
                     [] init # 0 /\ bounded  -> "ALLOC_INITIALIZED_LOCAL_ARRAY_WITH_BOUNDS") >>
exchg == << <<"exaf">>, <<"exx">> >>
-----------------------------------------------------------------------------
Goto(name) == <<"jp", "always", name>>

ILOADF == Deref("a") \o LOADF
PLOADF == IXInHL \o << <<"addw", "de">> >> \o LOADF
PISTORE16 == << <<"exdehl">> >> \o IXInHL \o << <<"addw", "bc">> >> \o Deref("a") \o StoreDE \o << Ret >>
LongTo == << PushHL >> \o IXInHL \o << <<"addw", "bc">>, <<"pop", "bc">> >>
PSTORE32 == LongTo \o STORE32
PISTORE32 == LongTo \o Deref("a") \o STORE32
FloatTo == << <<"push", "de">>, <<"exdehl">> >> \o IXInHL \o << <<"addw", "de">>, <<"pop", "de">> >>
PSTOREF == FloatTo \o STOREF
PISTOREF == FloatTo \o << <<"exaf">> >> \o Deref("a") \o << <<"exaf">> >> \o STOREF

FMUL16 ==
    << <<"xor", "a">>, <<"or", "h">>, <<"jp", "nz", "long">>, <<"or", "l">>, <<"ret", "z">>,
       <<"cpn", 33>>, <<"jp", "nc", "long">>, <<"ld", "b", "l">>, <<"ld", "l", "h">>,
       <<"label", "again">>, <<"addw", "de">>, <<"djnz", "again">>, Ret, <<"label", "long">> >> \o MUL16_FAST

LBOUND_PTR == MEMBOT
RET_ADDR == MEMBOT + 4
TMP_ARR_PTR == MEMBOT + 6
\* fault: the index is not reduced by the lower bound.
FromZero == << <<"pop", "hl">> >>
FromLower == << <<"pop", "hl">>, <<"sbcw", "bc">> >>
ARRAY ==
    LoadDE \o
    << <<"incw", "hl">>, <<"ld@w", TMP_ARR_PTR, "hl">>, <<"incw", "hl">>, <<"incw", "hl">>,
       <<"ld(rr)", "c", "hl">>, <<"incw", "hl">>, <<"ld(rr)", "b", "hl">>, <<"ld@w", LBOUND_PTR, "bc">>,
       <<"exdehl">>, <<"exsp">>, <<"ld@w", RET_ADDR, "hl">>,
       <<"exx">>, <<"pop", "hl">>, <<"ld(rr)", "c", "hl">>, <<"incw", "hl">>, <<"ld(rr)", "b", "hl">>,
       <<"incw", "hl">>, <<"exx">>, <<"ldnn", "hl", 0>>,
       <<"label", "dimension">>, <<"exdehl">>, <<"ldw@", "hl", LBOUND_PTR>>,
       <<"ld", "a", "h">>, <<"or", "l">>, <<"ld", "b", "h">>, <<"ld", "c", "l">>, <<"jp", "z", "from 0">>,
       <<"ld(rr)", "c", "hl">>, <<"incw", "hl">>, <<"ld(rr)", "b", "hl">>, <<"incw", "hl">>,
       <<"ld@w", LBOUND_PTR, "hl">>, <<"label", "from 0">> >>
    \o FromLower \o
    << <<"addw", "de">>, <<"exx">>, <<"ld", "a", "b">>, <<"or", "c">>, <<"jp", "z", "end">>, <<"decw", "bc">> >>
    \o LoadDE \o
    << <<"incw", "hl">>, <<"push", "de">>, <<"exx">>, <<"pop", "de">>, Call("FMUL16"), Goto("dimension"),
       <<"label", "end">>, <<"ld(rr)", "a", "hl">>, <<"exx">>, <<"exdehl">>, <<"ldnn", "hl", 0>>, <<"ld", "b", "a">>,
       <<"label", "by size">>, <<"addw", "de">>, <<"djnz", "by size">>,
       <<"exdehl">>, <<"ldw@", "hl", TMP_ARR_PTR>> >> \o Deref("a") \o
    << <<"addw", "de">>, <<"ldw@", "de", RET_ADDR>>, <<"push", "de">>, Ret >>
ARRAY_PTR == Deref("c") \o ARRAY

MEM_CALLOC ==
    << <<"push", "bc">>, Call("MEM_ALLOC"), <<"pop", "bc">>, <<"ld", "a", "h">>, <<"or", "l">>, <<"ret", "z">>,
       <<"ld(rr)n", "hl", 0>>, <<"decw", "bc">>, <<"ld", "a", "b">>, <<"or", "c">>, <<"ret", "z">>,
       <<"ld", "d", "h">>, <<"ld", "e", "l">>, <<"incw", "de">>, PushHL, <<"ldir">>, <<"pop", "hl">>, Ret >>
ALLOC_LOCAL_ARRAY ==
    << <<"push", "de">>, <<"push", "ix">>, <<"pop", "de">>, <<"addw", "de">>, <<"pop", "de">> >> \o StoreDE
    \o << <<"incw", "hl">>, PushHL, Call("MEM_CALLOC"), <<"pop", "de">>, <<"exdehl">> >> \o StoreDE \o << Ret >>
ALLOC_INITIALIZED_LOCAL_ARRAY ==
    << <<"push", "bc">>, Call("ALLOC_LOCAL_ARRAY"), <<"pop", "bc">>,
       <<"exx">>, <<"pop", "hl">>, <<"exsp">>, PushHL, <<"exx">>, <<"exsp">>, <<"ldir">>, <<"pop", "hl">>, Ret >>
WITH_BOUNDS2 ==
    << <<"pop", "bc">>, <<"pop", "de">>, <<"incw", "hl">> >> \o StoreDE
    \o << <<"pop", "de">>, <<"push", "bc">>, <<"ld", "a", "d">>, <<"or", "e">>, <<"ret", "z">>, <<"incw", "hl">> >>
    \o StoreDE \o << Ret >>
ALLOC_INITIALIZED_LOCAL_ARRAY_WITH_BOUNDS ==
    << <<"exx">>, <<"pop", "hl">>, <<"exsp">>, PushHL, <<"exx">>, Call("ALLOC_INITIALIZED_LOCAL_ARRAY") >> \o WITH_BOUNDS2

\* The heap, as far as arrays see it: each block follows a byte that tells it
\* is in use, and none is used again.
BLOCKS == MEMBOT + 8
BlockSize == 16
MEM_ALLOC ==
    << <<"ldw@", "hl", BLOCKS>>, <<"ldnn", "de", BlockSize>>, <<"addw", "de">>, <<"ld@w", BLOCKS, "hl">>,
       <<"sbcw", "de">>, <<"ld(rr)n", "hl", 1>>, <<"incw", "hl">>, Ret >>
MEM_FREE == << <<"decw", "hl">>, <<"ld(rr)n", "hl", 0>>, <<"ldnn", "de", 0>>, <<"ldnn", "bc", 0>>, <<"xor", "a">>, Ret >>

FrameRoutines ==
    [ILOAD32 |-> ILOAD32, STORE32 |-> STORE32, MUL16_FAST |-> MUL16_FAST, LOADF |-> LOADF, STOREF |-> STOREF,
     ILOADF |-> ILOADF, PLOADF |-> PLOADF, PISTORE16 |-> PISTORE16, PSTORE32 |-> PSTORE32, PISTORE32 |-> PISTORE32,
     PSTOREF |-> PSTOREF, PISTOREF |-> PISTOREF, FMUL16 |-> FMUL16, ARRAY |-> ARRAY, ARRAY_PTR |-> ARRAY_PTR,
     MEM_ALLOC |-> MEM_ALLOC, MEM_FREE |-> MEM_FREE, MEM_CALLOC |-> MEM_CALLOC,
     ALLOC_LOCAL_ARRAY |-> ALLOC_LOCAL_ARRAY,
     ALLOC_LOCAL_ARRAY_WITH_BOUNDS |-> << Call("ALLOC_LOCAL_ARRAY") >> \o WITH_BOUNDS2,
     ALLOC_INITIALIZED_LOCAL_ARRAY |-> ALLOC_INITIALIZED_LOCAL_ARRAY,
     ALLOC_INITIALIZED_LOCAL_ARRAY_WITH_BOUNDS |-> ALLOC_INITIALIZED_LOCAL_ARRAY_WITH_BOUNDS]
=============================================================================
