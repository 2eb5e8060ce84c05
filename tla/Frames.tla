------------------------------- MODULE Frames -------------------------------
(***************************************************************************)
(* Functions at work: a compiled program whose functions have parameters,  *)
(* by value and by reference, local variables and local arrays, call each  *)
(* other and return, recursively too.  Each action emits the code of one   *)
(* statement, as the visitors of the compiler do (translator.py,           *)
(* function_translator.py), and runs it.  What the variables should hold   *)
(* is kept beside, in mem, by the meaning of BASIC: a variable by value is *)
(* a cell of the frame, one by reference is another name of a cell.        *)
(***************************************************************************)
EXTENDS CodegenFrame, FiniteSets

CONSTANTS
    Kits,        \* the programs: their global variables and functions, and how far they are run
    Deviations   \* kinds of code known to be wrong that are tried all the same

DeviationKinds == {"float parameter", "float reference", "element from global", "float element"}
ASSUME BoundsAssumption ==
    /\ \A k \in Kits : k.maxSteps \in Nat /\ k.maxDepth \in Nat \ {0}    \* statements, functions active at once
    /\ Deviations \subseteq DeviationKinds

Sets == INSTANCE FiniteSetsExt
Seqs == INSTANCE SequencesExt

VARIABLES
    kit,     \* the program
    cpu,     \* IX, the stack and the memory of the machine
    frames,  \* the functions that are active, the last called last
    mem,     \* what each variable should hold: bytes
    blocks,  \* how many blocks of the heap have been asked for
    steps
vars == <<kit, cpu, frames, mem, blocks, steps>>

\* A variable has a name, the size of its values, whether it is passed by
\* reference, how many like it there are, a table in memory with what it starts
\* with, and the lower bounds and counts of its dimensions if it is an array.
IsArray(v) == v.counts # <<>>
Product(s) == Seqs!FoldLeft(LAMBDA m, n : m * n, 1, s)
Places(v) == IF IsArray(v) THEN 1 .. Product(v.counts) ELSE {0}
Extent(v) == v.size * Product(v.counts)
-----------------------------------------------------------------------------
\* Function 0 is the main program.
Main == 0
Params(f) == IF f = Main THEN <<>> ELSE kit.functions[f].params
Locals(f) == IF f = Main THEN <<>> ELSE kit.functions[f].locals
Named(list, n) == {k \in DOMAIN list : list[k].name = n}
Here(list, n) == list[CHOOSE k \in Named(list, n) : TRUE]
Own(f) == Params(f) \o Locals(f)
IsOwn(f, n) == Named(Own(f), n) # {}
IsParam(f, n) == Named(Params(f), n) # {}
Variable(f, n) == IF IsOwn(f, n) THEN Here(Own(f), n) ELSE Here(kit.globals, n)
Visible(f) == {v \in {Own(f)[k] : k \in DOMAIN Own(f)} \cup {kit.globals[k] : k \in DOMAIN kit.globals} : v.copies = 1}
Scalars(f, size) == {v.name : v \in {w \in Visible(f) : ~IsArray(w) /\ w.size = size}}
Arrays(f, size) == {v.name : v \in {w \in Visible(f) : IsArray(w) /\ w.size = size}}

\* Parameters are of even size, a reference of the size of a pointer.
\* fault: a byte takes one byte.
BareSize(v) == IF v.byref THEN 2 ELSE v.size
ParamSize(v) == IF v.byref THEN 2 ELSE v.size + (v.size % 2)
ParamOffset(f, k) == Sets!MapThenSumSet(LAMBDA j : Params(f)[j].copies * ParamSize(Params(f)[j]), 1 .. k - 1)
\* Local variables go down from IX in the order of their sizes; of an array,
\* its descriptor of three pointers.
EntrySize(v) == IF IsArray(v) THEN 6 ELSE v.size
LocalOffset(f, k) ==
    LET list == Locals(f)
        upTo == {j \in DOMAIN list : \/ EntrySize(list[j]) < EntrySize(list[k])
                                     \/ EntrySize(list[j]) = EntrySize(list[k]) /\ j <= k}
    IN  Sets!MapThenSumSet(LAMBDA j : list[j].copies * EntrySize(list[j]), upTo)
LocalsSize(f) == Sets!MapThenSumSet(LAMBDA k : Locals(f)[k].copies * EntrySize(Locals(f)[k]), DOMAIN Locals(f))
ParamsSize(f) == ParamOffset(f, Len(Params(f)) + 1)
\* The offset the visitors give, below 0 for a local variable.
OffsetOf(f, n) ==
    IF IsParam(f, n) THEN ParamOffset(f, CHOOSE k \in Named(Params(f), n) : TRUE)
    ELSE -LocalOffset(f, CHOOSE k \in Named(Locals(f), n) : TRUE)
PlaceOf(f, n) == Place(OffsetOf(f, n), Variable(f, n).byref)

\* A global variable or the descriptor of a global array, with its elements
\* after it.
Globals == 16384
GlobalAt(n) == Globals + 16 * (CHOOSE k \in Named(kit.globals, n) : TRUE)
DataAt(n) == GlobalAt(n) + 8
\* A table: of an array, its dimensions and the size of an element, its lower
\* bounds and the elements it starts with; else, the value to start with.
LboundAt(v) == v.table + 8
StartAt(v) == IF IsArray(v) THEN v.table + 12 ELSE v.table
AsWords(s) == [k \in 1 .. 2 * Len(s) |-> IF k % 2 = 1 THEN s[(k + 1) \div 2] % 256 ELSE s[k \div 2] \div 256]
LboundPointer(v) == IF \A k \in DOMAIN v.lower : v.lower[k] = 0 THEN 0 ELSE LboundAt(v)

Fresh(n, size) == [k \in 1 .. size |-> (41 * n + 16 * k) % 256]
Zeros(size) == [k \in 1 .. size |-> 0]
Start(v, k) == IF v.init = <<>> THEN Zeros(v.size)
               ELSE SubSeq(v.init, (IF k = 0 THEN 0 ELSE k - 1) * v.size + 1, (IF k = 0 THEN 1 ELSE k) * v.size)
-----------------------------------------------------------------------------
\* The cell a name of the function on top stands for, <<depth, name, place>>;
\* place is 0 for a scalar and for an array as a whole.
Depth == Len(frames)
Current == IF Depth = 0 THEN Main ELSE frames[Depth].f
Named0(n) ==
    CASE ~IsOwn(Current, n) -> <<0, n, 0>>
      [] IsOwn(Current, n) /\ Variable(Current, n).byref -> frames[Depth].env[n]
      [] OTHER -> <<Depth, n, 0>>
Owner(cell) == IF cell[1] = 0 THEN Main ELSE frames[cell[1]].f
CellVariable(cell) == Variable(Owner(cell), cell[2])
Element(array, k) == <<array[1], array[2], k>>

\* Where it is in memory, by how parameters are pushed and locals laid out.
MainIX == 26985
IX(d) == IF d = 0 THEN MainIX ELSE StackTop - frames[d].base
ArrayBlock(d, n) == frames[d].heap[n]
Home(cell) ==
    LET v == CellVariable(cell)  d == cell[1]  f == Owner(cell)
    IN  CASE d = 0 /\ cell[3] = 0 -> GlobalAt(cell[2])
          [] d = 0 /\ cell[3] > 0 -> DataAt(cell[2]) + (cell[3] - 1) * v.size
          [] d > 0 /\ cell[3] > 0 -> ArrayBlock(d, cell[2]) + (cell[3] - 1) * v.size
          [] d > 0 /\ cell[3] = 0 ->
               IX(d) + OffsetOf(f, cell[2]) + (IF IsParam(f, cell[2]) THEN 4 + (v.size % 2) ELSE 0)
-----------------------------------------------------------------------------
\* The visitors.  A variable of the frame is loaded on the stack; a global one
\* is an operand as it is.
Operand(f, n) == IF IsOwn(f, n) THEN <<"temp">> ELSE <<"id", GlobalAt(n)>>
visit_VAR(f, n) == IF IsOwn(f, n) THEN pload(PlaceOf(f, n), Variable(f, n).size) ELSE <<>>
store(size, d, o) ==
    CASE size = 1 -> store8(d, o) [] size = 2 -> store16(d, o) [] size = 4 -> store32(d, o) [] size = 5 -> storef(d, o)
load(size, o) == InRegisters(size, o) \o PushAs(size)
emit_var_assign(f, n, o) ==
    LET size == Variable(f, n).size
    IN  IF IsOwn(f, n) THEN pstore(PlaceOf(f, n), size, o) ELSE store(size, <<"id", GlobalAt(n)>>, o)

\* Indices are pushed from the last to the first.
Indices(idx) == Seqs!FlattenSeq([k \in DOMAIN idx |-> load16(<<"int", idx[Len(idx) + 1 - k]>>)])
\* The address of an element whose indices are constants: that of the first
\* plus its distance.
ConstantElement(f, n, at) ==
    pload(Place(OffsetOf(f, n) + 2, FALSE), 2) \o add16(<<"temp">>, <<"int", at>>)
visit_ARRAYLOAD(f, n, idx, constant, at) ==
    LET size == Variable(f, n).size
    IN  CASE ~constant /\ IsOwn(f, n)  -> Indices(idx) \o paload(PlaceOf(f, n), size)
          [] ~constant /\ ~IsOwn(f, n) -> Indices(idx) \o aload(GlobalAt(n), size)
          [] constant /\ IsOwn(f, n)   -> ConstantElement(f, n, at) \o load(size, <<"*temp">>)
          [] constant /\ ~IsOwn(f, n)  -> load(size, <<"id", DataAt(n) + at>>)
visit_LETARRAY(f, n, idx, constant, at, right, o) ==
    LET size == Variable(f, n).size
    IN  CASE ~constant /\ IsOwn(f, n)  -> right \o Indices(idx) \o pastore(PlaceOf(f, n), size, o)
          [] ~constant /\ ~IsOwn(f, n) -> right \o Indices(idx) \o astore(GlobalAt(n), size, o)
          [] constant /\ IsOwn(f, n)   -> ConstantElement(f, n, at) \o right \o store(size, <<"temp">>, o)
          [] constant /\ ~IsOwn(f, n)  -> right \o store(size, <<"id", DataAt(n) + at>>, o)

\* An argument is a variable or an element of an array, <<name, indices>>.
AddressOf(f, arg) ==
    LET n == arg[1]
    IN  CASE arg[2] # <<>> -> Indices(arg[2]) \o (IF IsOwn(f, n) THEN _paddr(PlaceOf(f, n)) ELSE _addr(GlobalAt(n)))
                              \o << PushHL >>
          [] arg[2] = <<>> /\ ~IsOwn(f, n) -> load16(<<"imm", GlobalAt(n)>>) \o param16(<<"temp">>)
          [] arg[2] = <<>> /\ IsOwn(f, n) /\ Variable(f, n).byref ->
               pload(Place(OffsetOf(f, n), FALSE), 2) \o param16(<<"temp">>)
          [] OTHER -> paddr(Place(OffsetOf(f, n) + (IF IsParam(f, n) /\ Variable(f, n).size = 1 THEN 1 ELSE 0), FALSE))
                      \o param16(<<"temp">>)
visit_ARGUMENT(f, param, arg) ==
    IF param.byref THEN AddressOf(f, arg)
    ELSE visit_VAR(f, arg[1]) \o load(param.size, Operand(f, arg[1]))
visit_ARGLIST(f, params, args) ==
    Seqs!FlattenSeq([j \in DOMAIN args |->
        LET k == Len(args) + 1 - j IN Times(params[k].copies, visit_ARGUMENT(f, params[k], args[k]))])

\* The start and the end of a function: local arrays are made, and released.
Prologue(f) ==
    enter(LocalsSize(f))
    \o Seqs!FlattenSeq([k \in DOMAIN Locals(f) |->
           LET v == Locals(f)[k]
           IN  CASE IsArray(v) -> larrd(LocalOffset(f, k), v.table, Extent(v), IF v.init = <<>> THEN 0 ELSE StartAt(v),
                                        LboundPointer(v), 0)
                 [] ~IsArray(v) /\ v.init # <<>> -> lvard(LocalOffset(f, k), StartAt(v), v.size)
                 [] OTHER -> <<>>])
ReleaseArrays(f) ==
    LET own == SelectSeq(Locals(f), IsArray)
    IN  IF own = <<>> THEN <<>>
        ELSE exchg \o Seqs!FlattenSeq([k \in DOMAIN own |->
                          pload(Place(OffsetOf(f, own[k].name) + 2, FALSE), 2) \o fparam16(<<"temp">>) \o << Call("MEM_FREE") >>])
             \o exchg
FirstToExit(f) == \A g \in 1 .. f - 1 : ParamsSize(g) <= 11
Epilogue(f) == << <<"label", "leave">> >> \o ReleaseArrays(f) \o leave(ParamsSize(f), FirstToExit(f))
PushResult(size) == IF size = 0 THEN <<>> ELSE SubSeq(call("f", size), 2, Len(call("f", size)))
-----------------------------------------------------------------------------
Machine ==
    [a |-> 85, b |-> 170, c |-> 51, d |-> 204, e |-> 15, h |-> 240, l |-> 129,
     cf |-> 1, zf |-> 0, sf |-> 1, pv |-> 1, af2 |-> 4660, set2 |-> <<22136, 39612, 57072>>,
     below |-> 0, irq |-> FALSE, fp |-> <<>>, ix |-> cpu.ix, st |-> cpu.st, m |-> cpu.m]
Execute(code, s) == Run(FrameRoutines, code, s)
Settle(s) == cpu' = [ix |-> s.ix, st |-> s.st, m |-> s.m]
Emit(code) == \E s \in {Execute(code, Machine)} : Settle(s)
Step1 == steps < kit.maxSteps /\ steps' = steps + 1

\* What memory holds at the start: pieces of <<address, bytes>>.
Heap == 20000
ArrayTables(list) ==
    UNION {{<<v.table, AsWords(<<Len(v.counts) - 1>> \o SubSeq(v.counts, 2, Len(v.counts))) \o <<v.size>> >>,
            <<LboundAt(v), AsWords(v.lower)>>, <<StartAt(v), v.init>>} :
              v \in {list[k] : k \in {j \in DOMAIN list : IsArray(list[j])}}}
    \cup {<<v.table, v.init>> : v \in {list[k] : k \in {j \in DOMAIN list : ~IsArray(list[j])}}}
GlobalImage(k, v) ==
    IF IsArray(v)
    THEN {<<GlobalAt(v.name), AsWords(<<v.table, DataAt(v.name), LboundPointer(v), 0>>)>>, <<DataAt(v.name), Fresh(k, Extent(v))>>}
    ELSE {<<GlobalAt(v.name), Fresh(k, v.size)>>}
Image ==
    UNION {GlobalImage(k, kit.globals[k]) : k \in DOMAIN kit.globals}
    \cup ArrayTables(kit.globals) \cup UNION {ArrayTables(Locals(f)) : f \in DOMAIN kit.functions}
    \cup {<<BLOCKS, AsWords(<<Heap>>)>>, <<MEMBOT, Zeros(8)>>, <<Heap, Zeros(6 * BlockSize)>>}
StartLength == 2

Init ==
    /\ kit \in Kits
    /\ cpu = [ix |-> MainIX, st |-> <<48, 57>>,
              m |-> [at \in UNION {p[1] .. p[1] + Len(p[2]) - 1 : p \in Image} |->
                        LET p == CHOOSE p \in Image : at \in p[1] .. p[1] + Len(p[2]) - 1
                        IN  p[2][at - p[1] + 1]]]
    /\ frames = <<>> /\ blocks = 0 /\ steps = 0
    /\ mem = [cell \in UNION {{<<0, kit.globals[k].name, j>> : j \in Places(kit.globals[k])} : k \in DOMAIN kit.globals} |->
                 LET k == CHOOSE k \in Named(kit.globals, cell[2]) : TRUE
                     v == kit.globals[k]
                     j == IF cell[3] = 0 THEN 1 ELSE cell[3]
                 IN  SubSeq(Fresh(k, Extent(v)), (j - 1) * v.size + 1, j * v.size)]

Wrong(kind, condition) == condition /\ kind \notin Deviations
FloatParameter(f, n) == IsParam(f, n) /\ ~Variable(f, n).byref /\ Variable(f, n).size = 5
FloatReference(f, n) == IsOwn(f, n) /\ Variable(f, n).byref /\ Variable(f, n).size = 5

\* An assignment inside a function.
LetVariable ==
    /\ Step1 /\ Depth > 0
    /\ \E size \in {1, 2, 4, 5} : \E d, s \in Scalars(Current, size) :
          /\ Named0(d) # Named0(s)
          /\ ~Wrong("float parameter", FloatParameter(Current, d))
          /\ ~Wrong("float reference", FloatReference(Current, s))
          /\ Emit(visit_VAR(Current, s) \o emit_var_assign(Current, d, Operand(Current, s)))
          /\ mem' = [mem EXCEPT ![Named0(d)] = mem[Named0(s)]]
    /\ UNCHANGED <<kit, frames, blocks>>

\* Of a constant: a new one each time.
Constant0(size) ==
    IF size = 5
    THEN [operand |-> [negative |-> FALSE, whole |-> steps + 1, fraction |-> 0], bytes |-> Rom!Normal(FALSE, <<steps + 1, 0>>, 16)]
    ELSE LET b == Fresh(100 + steps, size)
         IN  CASE size = 1 -> [operand |-> b[1], bytes |-> b]
               [] size = 2 -> [operand |-> b[1] + 256 * b[2], bytes |-> b]
               [] size = 4 -> [operand |-> b[1] + 256 * (b[2] + 256 * b[3]), bytes |-> [b EXCEPT ![4] = 0]]
LetConstant ==
    /\ Step1 /\ Depth > 0
    /\ \E size \in {1, 2, 4, 5} : \E d \in Scalars(Current, size) :
          /\ ~Wrong("float parameter", FloatParameter(Current, d))
          /\ Emit(emit_var_assign(Current, d, <<"int", Constant0(size).operand>>))
          /\ mem' = [mem EXCEPT ![Named0(d)] = Constant0(size).bytes]
    /\ UNCHANGED <<kit, frames, blocks>>

\* The elements of an array that is in scope, with their indices.
Linear(v, idx) ==
    1 + Seqs!FoldLeft(LAMBDA n, k : n * v.counts[k] + idx[k] - v.lower[k], 0, [k \in DOMAIN idx |-> k])
IndicesOf(v) ==
    {idx \in [DOMAIN v.counts -> 0 .. 9] : \A k \in DOMAIN idx : idx[k] \in v.lower[k] .. v.lower[k] + v.counts[k] - 1}
ElementCell(n, idx) == Element(Named0(n), Linear(CellVariable(Named0(n)), idx))
Distance(n, idx) == (ElementCell(n, idx)[3] - 1) * Variable(Current, n).size
ConstantIndex(n) == IF IsParam(Current, n) THEN {FALSE} ELSE BOOLEAN

LetElement ==
    /\ Step1 /\ Depth > 0
    /\ \E size \in {1, 2, 4, 5} : \E n \in Arrays(Current, size), s \in Scalars(Current, size) :
       \E idx \in IndicesOf(CellVariable(Named0(n))), constant \in ConstantIndex(n) :
          /\ ~Wrong("float reference", FloatReference(Current, s))
          /\ ~Wrong("element from global", IsOwn(Current, n) /\ ~constant /\ ~IsOwn(Current, s))
          /\ ~Wrong("float element", IsOwn(Current, n) /\ ~constant /\ size = 5)
          /\ Emit(visit_LETARRAY(Current, n, idx, constant, Distance(n, idx), visit_VAR(Current, s), Operand(Current, s)))
          /\ mem' = [mem EXCEPT ![ElementCell(n, idx)] = mem[Named0(s)]]
    /\ UNCHANGED <<kit, frames, blocks>>
LetFromElement ==
    /\ Step1 /\ Depth > 0
    /\ \E size \in {1, 2, 4, 5} : \E n \in Arrays(Current, size), d \in Scalars(Current, size) :
       \E idx \in IndicesOf(CellVariable(Named0(n))), constant \in ConstantIndex(n) :
          /\ ~Wrong("float parameter", FloatParameter(Current, d))
          /\ Emit(visit_ARRAYLOAD(Current, n, idx, constant, Distance(n, idx)) \o emit_var_assign(Current, d, <<"temp">>))
          /\ mem' = [mem EXCEPT ![Named0(d)] = mem[ElementCell(n, idx)]]
    /\ UNCHANGED <<kit, frames, blocks>>

\* A call, alone or, of a function, as the right side of an assignment or the
\* second operand of a sum of words, of which the first is on the stack.
Arguments(param) ==
    IF param.counts # <<>> THEN {<<n, <<>> >> : n \in {m \in Arrays(Current, param.size) :
                                                Len(CellVariable(Named0(m)).counts) = Len(param.counts)}}
    ELSE {<<n, <<>> >> : n \in Scalars(Current, param.size)}
         \cup (IF param.byref
               THEN UNION {{<<n, idx>> : idx \in IndicesOf(CellVariable(Named0(n)))} : n \in Arrays(Current, param.size)}
               ELSE {})
ArgumentCell(arg) == IF arg[2] = <<>> THEN Named0(arg[1]) ELSE ElementCell(arg[1], arg[2])
Results(size) == IF size = 0 THEN {""} ELSE Scalars(Current, size)
Firsts(size) == {""} \cup (IF size = 2 THEN {n \in Scalars(Current, 2) : IsOwn(Current, n)} ELSE {})
TopLength == IF Depth = 0 THEN StartLength ELSE frames[Depth].base + LocalsSize(Current)

LocalArrays(f) == SelectSeq(Locals(f), IsArray)
CallFunction ==
    /\ Step1 /\ Depth < kit.maxDepth
    /\ \E f \in DOMAIN kit.functions :
       \E args \in {a \in [DOMAIN Params(f) -> UNION {Arguments(Params(f)[k]) : k \in DOMAIN Params(f)}] :
                       \A k \in DOMAIN a : a[k] \in Arguments(Params(f)[k])},
          dst \in Results(kit.functions[f].result), first \in Firsts(kit.functions[f].result) :
       LET before == (IF first = "" THEN <<>> ELSE visit_VAR(Current, first)) \o visit_ARGLIST(Current, Params(f), args)
           values == {k \in DOMAIN Params(f) : ~Params(f)[k].byref}
           new == {<<Depth + 1, Params(f)[k].name, 0>> : k \in values}
                  \cup UNION {{<<Depth + 1, v.name, j>> : j \in Places(v)} : v \in {Locals(f)[k] : k \in DOMAIN Locals(f)}}
       IN  /\ \A k \in DOMAIN args :
                 /\ ~Wrong("float parameter", Params(f)[k].byref /\ FloatParameter(Current, args[k][1]))
                 /\ ~Wrong("float reference", ~Params(f)[k].byref /\ FloatReference(Current, args[k][1]))
           /\ \E s \in {Execute(before, Machine)} :
              \E t \in {Execute(Prologue(f), Push(s, ReturnAddress))} : Settle(t)
           /\ frames' = Append(frames,
                 [f |-> f, base |-> TopLength + (IF first = "" THEN 0 ELSE 2) + ParamsSize(f) + 4,
                  env |-> [n \in {Params(f)[k].name : k \in DOMAIN Params(f) \ values} |->
                              ArgumentCell(args[CHOOSE k \in Named(Params(f), n) : TRUE])],
                  heap |-> [n \in {LocalArrays(f)[k].name : k \in DOMAIN LocalArrays(f)} |->
                               Heap + BlockSize * (blocks + (CHOOSE k \in Named(LocalArrays(f), n) : TRUE) - 1) + 1],
                  dst |-> dst, first |-> first, left |-> IF first = "" THEN <<>> ELSE mem[Named0(first)]])
           /\ mem' = [cell \in DOMAIN mem \cup new |->
                        IF cell \in DOMAIN mem THEN mem[cell]
                        ELSE IF IsParam(f, cell[2])
                        THEN mem[Named0(args[CHOOSE k \in Named(Params(f), cell[2]) : TRUE][1])]
                        ELSE Start(Here(Locals(f), cell[2]), cell[3])]
           /\ blocks' = blocks + Len(LocalArrays(f))
    /\ UNCHANGED kit

SumOf(b, c) == LET n == b[1] + c[1] + 256 * (b[2] + c[2]) IN <<n % 256, (n \div 256) % 256>>
Caller == IF Depth = 1 THEN Main ELSE frames[Depth - 1].f
\* The value of a function is in registers; the caller pushes it.
Return ==
    /\ Step1 /\ Depth > 0
    /\ \E src \in Results(kit.functions[Current].result) :
       LET top == frames[Depth]
           size == kit.functions[Current].result
           body == IF src = "" THEN <<>>
                   ELSE visit_VAR(Current, src) \o InRegisters(size, Operand(Current, src)) \o << Goto("leave") >>
           after == PushResult(size) \o (IF top.first = "" THEN <<>> ELSE add16(<<"temp">>, <<"temp">>))
                    \o (IF src = "" THEN <<>> ELSE emit_var_assign(Caller, top.dst, <<"temp">>))
           result == IF src = "" THEN <<>> ELSE IF top.first = "" THEN mem[Named0(src)] ELSE SumOf(top.left, mem[Named0(src)])
           target == CASE ~IsOwn(Caller, top.dst) -> <<0, top.dst, 0>>
                       [] IsOwn(Caller, top.dst) /\ Variable(Caller, top.dst).byref -> frames[Depth - 1].env[top.dst]
                       [] OTHER -> <<Depth - 1, top.dst, 0>>
       IN  /\ ~Wrong("float reference", src # "" /\ FloatReference(Current, src))
           /\ ~Wrong("float parameter", src # "" /\ FloatParameter(Caller, top.dst))
           /\ \E s \in {Execute(body \o Epilogue(Current), Machine)} :
              \E t \in {Execute(after, s)} : Settle(t)
           /\ frames' = SubSeq(frames, 1, Depth - 1)
           /\ mem' = [cell \in {c \in DOMAIN mem : c[1] < Depth} |-> IF src # "" /\ cell = target THEN result ELSE mem[cell]]
    /\ UNCHANGED <<kit, blocks>>

Next == LetVariable \/ LetConstant \/ LetElement \/ LetFromElement \/ CallFunction \/ Return
Spec == Init /\ [][Next]_vars
-----------------------------------------------------------------------------
\* Every variable of every function that is active, and every element of their
\* arrays, holds what was last assigned to it, under whatever name: the code
\* that pushes parameters, the one that reads them and the one that writes them
\* agree on where each is, however far from IX, and nothing else is written.
VariablesRight ==
    \A cell \in DOMAIN mem : \A k \in DOMAIN mem[cell] : Peek(cpu, Home(cell) + k - 1) = mem[cell][k]

\* Calls leave the stack as it was: IX is that of the function that runs, under
\* each frame are the IX of its caller and the return address, and the blocks
\* of the heap in use are those of the arrays of the active functions.
FramesIntact ==
    /\ Len(cpu.st) = TopLength /\ cpu.ix = IX(Depth)
    /\ \A d \in 1 .. Depth : PeekWord(cpu, IX(d)) = IX(d - 1) /\ PeekWord(cpu, IX(d) + 2) = ReturnAddress
    /\ \A b \in 0 .. blocks - 1 :
          LET at == Heap + BlockSize * b
          IN  cpu.m[at] = Bit(\E d \in 1 .. Depth : \E n \in DOMAIN frames[d].heap : frames[d].heap[n] = at + 1)
=============================================================================
