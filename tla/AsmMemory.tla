----------------------------- MODULE AsmMemory -----------------------------
(***************************************************************************)
(* The memory and the labels of the assembler zxbasm: the class Memory of  *)
(* src/zxbasm/memory.py with its Label objects, as the actions of          *)
(* asmparse.py drive it while a program is read, and the dump at the end.  *)
(*                                                                         *)
(* Labels are objects shared by the scope that knows them and by the       *)
(* instructions that use them; here they are positions in labels.  An      *)
(* instruction takes one cell, which holds its operand (opcodes, sizes and *)
(* EQU expressions are left out), or none, as DEFS 0.  log is the program  *)
(* as it was read, for the properties: no action looks at it.              *)
(***************************************************************************)
EXTENDS Integers, Sequences, FiniteSets

CONSTANTS Kits,      \* what the programs are made of: a set of records
          MaxMem,    \* MAX_MEM
          MaxDepth   \* bound on the nesting of PROC

ASSUME AsmAssumption ==
    /\ \A kit \in Kits :
          /\ kit.origins \subseteq Nat /\ kit.lines \subseteq Nat /\ kit.statements \in Nat
          /\ kit.empty \in BOOLEAN /\ kit.files # {}
          /\ kit.names \intersect kit.temporaries = {}
          /\ "" \notin kit.names \union kit.temporaries
    /\ MaxMem \in Nat /\ MaxDepth \in Nat

VARIABLES index,      \* where the next byte goes
          cells,      \* memory_bytes: the cells written so far
          slots,      \* orgs: the instructions that start at an address
          labels,     \* the Label objects made so far
          scopes,     \* local_labels: name to label, the global scope first
          procs,      \* the open PROCs, each named by its place in the log
          tmps,       \* _tmp_labels, in the order of _tmp_labels_lines
          pending,    \* _tmp_pending_labels
          namespace,  \* NAMESPACE_STACK with NAMESPACE on top
          file, line, \* the place being read
          errors,     \* what has been reported
          phase,      \* "reading", "done" or "crashed"
          output,     \* the program as dumped
          log,
          kit         \* the one this program is made of

vars == <<kit, index, cells, slots, labels, scopes, procs, tmps, pending, namespace,
          file, line, errors, phase, output, log>>

Names == kit.names                \* the names of labels
Temporaries == kit.temporaries    \* the numbers that name temporary labels
Namespaces == kit.namespaces      \* the namespaces PUSH NAMESPACE goes to
Origins == kit.origins            \* the operands of ORG
Files == kit.files                \* the files the program comes from
Lines == kit.lines                \* the line numbers of #line directives
WithEmpty == kit.empty            \* does the program contain DEFS 0
MaxStatements == kit.statements   \* bound on the length of the program

None == -1
Undefined(x) == x = None
NoName == <<"", "">>

Last(s) == s[Len(s)]
Put(f, x, y) == [z \in DOMAIN f \union {x} |-> IF z = x THEN y ELSE f[z]]
Lowest(S) == CHOOSE x \in S : \A y \in S : x <= y
Highest(S) == CHOOSE x \in S : \A y \in S : x >= y

\* id_name: the name in the current namespace.
Qualified(n) == <<Last(namespace), n>>

\* A Label; dir and line matter to the temporary ones.
Label(name, value, dir) ==
    [name |-> name, value |-> value, local |-> FALSE, dir |-> dir,
     file |-> file, line |-> line]

Note(what, name, id) ==
    [what |-> what, name |-> name, id |-> id, addr |-> index, procs |-> procs,
     file |-> file, line |-> line]
-----------------------------------------------------------------------------
Init ==
    /\ kit \in Kits
    /\ index = 0
    /\ cells = [a \in {} |-> 0]
    /\ slots = [a \in {} |-> <<>>]
    /\ labels = <<>>
    /\ scopes = << [n \in {} |-> 0] >>
    /\ procs = <<>>
    /\ tmps = <<>> /\ pending = <<>>
    /\ namespace = <<".">>
    /\ file \in Files /\ line = 1
    /\ errors = {}
    /\ phase = "reading"
    /\ output = <<>>
    /\ log = <<>>

\* The next statement is read: on the next line, or on the same one.
Read(note, stays) ==
    /\ phase = "reading"
    /\ Len(log) < MaxStatements
    /\ log' = Append(log, note)
    /\ IF stays THEN UNCHANGED line ELSE line' = line + 1
    /\ UNCHANGED <<output, namespace, file>>

\* PROC.
EnterProc ==
    /\ Len(procs) < MaxDepth
    /\ Read(Note("proc", NoName, None), FALSE)
    /\ scopes' = Append(scopes, [n \in {} |-> 0])
    /\ procs' = Append(procs, Len(log'))
    /\ UNCHANGED <<index, cells, slots, labels, tmps, pending, errors, phase>>

\* Label.define: a label that has a value gets the new one all the same.
DefineNone(l, value) == l   \* fault: the value is lost
Define(l, value) == [l EXCEPT !.value = value]

ClashNever(l) == FALSE   \* fault: a second definition is not noticed
Clash(l) == ~ Undefined(l.value)

\* The labels of a scope that ENDP hands over to the global one.
OutgoingAll(scope) == DOMAIN scope   \* fault: LOCAL ones too
Outgoing(scope) == {n \in DOMAIN scope : ~ labels[scope[n]].local}

\* ENDP.  The labels of the scope are taken in the order they were made.  The scope
\* stays open when one of the LOCAL ones has no value, and those after it are left.
ExitProc ==
    LET scope   == Last(scopes)
        global  == scopes[1]
        missing == {n \in DOMAIN scope : labels[scope[n]].local /\ Undefined(labels[scope[n]].value)}
        out     == {n \in Outgoing(scope) : \A m \in missing : scope[n] < scope[m]}
        clash   == {n \in out : n \in DOMAIN global}
        moved   == [scopes EXCEPT ![1] = [n \in DOMAIN global \union out |->
                                            IF n \in DOMAIN global THEN global[n] ELSE scope[n]]]
    IN  /\ Read(Note("endp", NoName, None), FALSE)
        /\ IF Len(scopes) = 1 THEN
              /\ errors' = errors \union {"no proc"}
              /\ UNCHANGED <<scopes, procs, labels>>
           ELSE
              /\ labels' = [i \in DOMAIN labels |->
                              LET for == {n \in clash : global[n] = i}
                              IN  IF for = {} THEN labels[i]
                                  ELSE Define(labels[i], labels[scope[CHOOSE n \in for : TRUE]].value)]
              /\ errors' = errors
                   \union (IF \E n \in clash : Clash(labels[global[n]]) THEN {"duplicate"} ELSE {})
                   \union (IF missing # {} THEN {"undefined local"} ELSE {})
              /\ IF missing # {} THEN scopes' = moved /\ UNCHANGED procs
                 ELSE /\ scopes' = SubSeq(moved, 1, Len(moved) - 1)
                      /\ procs' = SubSeq(procs, 1, Len(procs) - 1)
        /\ UNCHANGED <<index, cells, slots, tmps, pending, phase>>

\* LOCAL: set_label, in the current scope whatever the outer ones know.
LocalLabel(n) ==
    LET name  == Qualified(n)
        scope == Last(scopes)
    IN  /\ Read(Note("local", name, None), FALSE)
        /\ IF name \in DOMAIN scope THEN
              /\ labels' = [labels EXCEPT ![scope[name]].local = TRUE]
              /\ UNCHANGED scopes
           ELSE
              /\ labels' = Append(labels, [Label(name, None, 0) EXCEPT !.local = TRUE])
              /\ scopes' = [scopes EXCEPT ![Len(scopes)] = Put(scope, name, Len(labels'))]
        /\ UNCHANGED <<index, cells, slots, procs, tmps, pending, errors, phase>>

\* set_memory_slot.
SlotAt(f, a) == IF a \in DOMAIN f THEN f ELSE Put(f, a, <<>>)
CellAt(a) == IF a \in DOMAIN slots THEN cells ELSE Put(cells, a, 0)

\* A label with a colon: declare_label.
DeclareLabel(n) ==
    LET name  == Qualified(n)
        scope == Last(scopes)
    IN  /\ \E stays \in BOOLEAN : Read(Note("label", name, None), stays)
        /\ IF name \in DOMAIN scope THEN
              /\ labels' = [labels EXCEPT ![scope[name]] = Define(@, index)]
              /\ errors' = errors \union
                   (IF Clash(labels[scope[name]]) THEN {"duplicate"} ELSE {})
              /\ UNCHANGED scopes
           ELSE
              /\ labels' = Append(labels, Label(name, index, 0))
              /\ scopes' = [scopes EXCEPT ![Len(scopes)] = Put(scope, name, Len(labels'))]
              /\ UNCHANGED errors
        /\ slots' = SlotAt(slots, index)
        /\ cells' = CellAt(index)
        /\ UNCHANGED <<index, procs, tmps, pending, phase>>

\* add_instruction: nothing is stored once there has been an error.
AddInstruction(instr, size, value) ==
    IF errors # {} THEN UNCHANGED <<index, cells, slots>>
    ELSE /\ slots' = [SlotAt(slots, index) EXCEPT ![index] = Append(@, instr)]
         /\ cells' = IF size = 0 THEN CellAt(index) ELSE Put(cells, index, value)
         /\ index' = index + size

\* DEFS 0.
AddEmpty ==
    /\ WithEmpty
    /\ Read(Note("empty", NoName, None), FALSE)
    /\ AddInstruction([id |-> None, pending |-> TRUE], 0, 0)
    /\ UNCHANGED <<labels, scopes, procs, tmps, pending, errors, phase>>

\* get_label looks in the current scope and then in the outer ones.
Known(name) ==
    LET known == {k \in DOMAIN scopes : name \in DOMAIN scopes[k]}
    IN  IF known = {} THEN 0 ELSE Highest(known)

\* An instruction whose operand is a label: get_label, add_instruction.
UseLabel(n) ==
    LET name  == Qualified(n)
        at    == Known(name)
        id    == IF at = 0 THEN Len(labels) + 1 ELSE scopes[at][name]
        value == IF at = 0 THEN None ELSE labels[id].value
    IN  /\ Read(Note("use", name, id), FALSE)
        /\ IF at = 0 THEN
              /\ labels' = Append(labels, Label(name, None, 0))
              /\ scopes' = [scopes EXCEPT ![Len(scopes)] = Put(@, name, id)]
           ELSE UNCHANGED <<labels, scopes>>
        /\ AddInstruction([id |-> id, pending |-> Undefined(value)], 1,
                          IF Undefined(value) THEN 0 ELSE value)
        /\ UNCHANGED <<procs, tmps, pending, errors, phase>>

\* declare_label of a number.  A second one on the same line replaces the first.
DeclareTemporary(t) ==
    LET name == Qualified(t)
        new  == [file |-> file, line |-> line, name |-> name, value |-> index]
        here == {i \in DOMAIN tmps : tmps[i].file = file}
        same == {i \in here : tmps[i].line = line /\ tmps[i].name[2] = t}
    IN  /\ \E stays \in BOOLEAN : Read(Note("label", name, None), stays)
        /\ IF \E i \in here : tmps[i].line > line THEN
              phase' = "crashed" /\ UNCHANGED tmps
           ELSE
              /\ tmps' = IF same = {} THEN Append(tmps, new)
                         ELSE [tmps EXCEPT ![Lowest(same)] = new]
              /\ UNCHANGED phase
        /\ UNCHANGED <<index, cells, slots, labels, scopes, procs, pending, errors>>

\* An instruction whose operand is 1B (dir = -1) or 1F (dir = 1).
UseTemporary(t, dir) ==
    /\ Read(Note(IF dir < 0 THEN "back" ELSE "forth", Qualified(t), Len(labels) + 1), FALSE)
    /\ labels' = Append(labels, Label(Qualified(t), None, dir))
    /\ pending' = Append(pending, Len(labels'))
    /\ AddInstruction([id |-> Len(labels'), pending |-> TRUE], 1, 0)
    /\ UNCHANGED <<scopes, procs, tmps, errors, phase>>

\* ORG and ALIGN: set_org, which forgets the temporary labels.
SetOrg(a) ==
    /\ Read(Note("org", NoName, None), FALSE)
    /\ errors' = errors \union (IF a > MaxMem THEN {"org"} ELSE {})
    /\ index' = a
    /\ tmps' = <<>> /\ pending' = <<>>
    /\ UNCHANGED <<cells, slots, labels, scopes, procs, phase>>

\* #line l "f".
LineDirective(l, f) ==
    /\ phase = "reading" /\ Len(log) < MaxStatements
    /\ line' = l /\ file' = f
    /\ log' = Append(log, Note("line", NoName, None))
    /\ UNCHANGED <<index, cells, slots, labels, scopes, procs, tmps, pending,
                   namespace, errors, phase, output>>

\* PUSH NAMESPACE and POP NAMESPACE.
SwitchNamespace(stack) ==
    /\ phase = "reading" /\ Len(log) < MaxStatements
    /\ line' = line + 1
    /\ namespace' = stack
    /\ log' = Append(log, Note("namespace", NoName, None))
    /\ UNCHANGED <<file, index, cells, slots, labels, scopes, procs, tmps, pending, phase, output>>

PushNamespace(ns) ==
    /\ Len(namespace) <= MaxDepth
    /\ SwitchNamespace(Append(namespace, ns))
    /\ UNCHANGED errors

PopNamespace ==
    /\ Namespaces # {}
    /\ IF Len(namespace) = 1
       THEN /\ SwitchNamespace(namespace)
            /\ errors' = errors \union {"no namespace"}
       ELSE /\ SwitchNamespace(SubSeq(namespace, 1, Len(namespace) - 1))
            /\ UNCHANGED errors
-----------------------------------------------------------------------------
\* resolve_temporary_label: the label of that name nearest to the line, which
\* counts in both directions.
NearestFirst(S, dir) == Lowest(S)   \* fault: the first one in the file
Nearest(S, dir) == IF dir < 0 THEN Highest(S) ELSE Lowest(S)

Resolved(l) ==
    LET there == {i \in DOMAIN tmps : /\ tmps[i].file = l.file
                                      /\ tmps[i].name = l.name
                                      /\ IF l.dir < 0 THEN tmps[i].line <= l.line
                                                      ELSE tmps[i].line >= l.line}
    IN  IF there = {} THEN None ELSE tmps[Nearest(there, l.dir)].value

\* The label with the value it has when the program is dumped.
Value(i) ==
    IF \E k \in DOMAIN pending : pending[k] = i THEN Resolved(labels[i]) ELSE labels[i].value

FlushNone(p) == p.out   \* fault: what was held back is dropped
Flush(p) == p.out \o p.held

\* dump reads the memory in order.  Only the first instruction at an address is
\* completed; cells with a label and no instruction are held back until the next
\* instruction.
Dumped ==
    LET lo == Lowest(DOMAIN cells)
        hi == Highest(DOMAIN cells)
        Cell(a) ==
            IF a \in DOMAIN slots /\ slots[a] # <<>> /\ slots[a][1].pending /\ slots[a][1].id # None
            THEN Value(slots[a][1].id)
            ELSE IF a \in DOMAIN cells THEN cells[a] ELSE 0
        upto[a \in (lo - 1) .. hi] ==
            IF a = lo - 1 THEN [out |-> <<>>, held |-> <<>>]
            ELSE LET p == upto[a - 1]
                 IN  IF a \in DOMAIN slots
                     THEN IF slots[a] = <<>> THEN [p EXCEPT !.held = Append(@, 0)]
                          ELSE [out |-> Append(Flush(p), Cell(a)), held |-> <<>>]
                     ELSE [p EXCEPT !.out = Append(@, Cell(a))]
    IN  upto[hi].out

\* The end of the program: open scopes are reported, and unless there is nothing
\* to assemble, labels without a value.
Finish ==
    LET unclosed == IF procs # <<>> THEN {"no endp"} ELSE {}
        unknown  == IF \/ \E k \in DOMAIN pending : Undefined(Value(pending[k]))
                       \/ \E n \in DOMAIN scopes[1] : Undefined(labels[scopes[1][n]].value)
                       \/ \E a \in DOMAIN slots :
                             /\ slots[a] # <<>> /\ slots[a][1].pending /\ slots[a][1].id # None
                             /\ Undefined(Value(slots[a][1].id))
                    THEN {"undefined"} ELSE {}
    IN  /\ phase = "reading"
        /\ phase' = "done"
        /\ errors' = errors \union unclosed \union (IF cells = <<>> THEN {} ELSE unknown)
        /\ output' = IF errors' = {} /\ cells # <<>> THEN Dumped ELSE <<>>
        /\ UNCHANGED <<index, cells, slots, labels, scopes, procs, tmps, pending,
                       namespace, file, line, log>>

Statement ==
    \/ EnterProc \/ ExitProc \/ AddEmpty \/ PopNamespace \/ Finish
    \/ \E n \in Names : LocalLabel(n) \/ DeclareLabel(n) \/ UseLabel(n)
    \/ \E t \in Temporaries : DeclareTemporary(t) \/ \E dir \in {-1, 1} : UseTemporary(t, dir)
    \/ \E a \in Origins : SetOrg(a)
    \/ \E l \in Lines, f \in Files : LineDirective(l, f)
    \/ \E ns \in Namespaces : PushNamespace(ns)
Next == Statement /\ UNCHANGED kit

Spec == Init /\ [][Next]_vars
-----------------------------------------------------------------------------
Assembled == phase = "done" /\ errors = {}

\* The statements of a kind, by their place in the program.
Where(what) == {i \in DOMAIN log : log[i].what = what}

\* The PROC a statement is in, or 0.
ProcOf(i) == IF log[i].procs = <<>> THEN 0 ELSE Last(log[i].procs)

Encloses(p, i) == p = 0 \/ \E k \in DOMAIN log[i].procs : log[i].procs[k] = p

\* A name is LOCAL in a PROC, anywhere in it or before a place.
LocalIn(name, p, until) ==
    p # 0 /\ \E i \in Where("local") : i < until /\ log[i].name = name /\ ProcOf(i) = p

End == Len(log) + 1

\* The declarations an operand may mean: those no LOCAL hides, and those that are
\* LOCAL in a PROC around it.
Visible(u) ==
    {d \in Where("label") :
       /\ log[d].name = log[u].name
       /\ LocalIn(log[d].name, ProcOf(d), End) => Encloses(ProcOf(d), u)}

\* No other instruction of these kinds is at the address of a statement.
AloneAt(u, kinds) ==
    \A v \in UNION {Where(kind) : kind \in kinds} : log[v].addr = log[u].addr => v = u

Operands == {"use", "back", "forth"}

\* When a program assembles, every operand has the address of a declaration that
\* is visible from it: a LOCAL label is never reached from outside its PROC, and
\* no operand is left at zero.  One that follows LOCAL in its PROC means the
\* label of that PROC, or of one inside it, never that of the program around it.
OperandsResolve ==
    Assembled =>
       \A u \in {u \in Where("use") : AloneAt(u, Operands \union {"empty"})} : \E d \in Visible(u) :
          /\ output[log[u].addr - Lowest(DOMAIN cells) + 1] = log[d].addr
          /\ \A p \in {0} \union Where("proc") :
                Encloses(p, u) /\ LocalIn(log[u].name, p, u) => ProcOf(d) >= p

\* A name is declared twice in a scope: in one PROC where it is LOCAL, or twice
\* without LOCAL.
DeclaredTwice ==
    \E c, d \in Where("label") :
       /\ c # d /\ log[c].name = log[d].name
       /\ \/ ProcOf(c) = ProcOf(d)
          \/ /\ ~ LocalIn(log[c].name, ProcOf(c), End)
             /\ ~ LocalIn(log[d].name, ProcOf(d), End)

\* A PROC uses a name before a PROC inside it declares it: the inner one hands it
\* to the global scope, where it meets the outer one's.
UsedAround(u, d) ==
    /\ log[u].name = log[d].name /\ u < d
    /\ ProcOf(u) # 0 /\ ProcOf(u) # ProcOf(d) /\ Encloses(ProcOf(u), d)

\* A duplicate is reported only for a name that is declared twice, or used around
\* its declaration, or because the scope of a LOCAL without a value is left twice.
DuplicateMeansTwo ==
    "duplicate" \in errors =>
       \/ DeclaredTwice
       \/ "undefined local" \in errors
       \/ \E u \in Where("use"), d \in Where("label") : UsedAround(u, d)

\* A name that is declared twice in the program and hidden by no LOCAL is always
\* reported.
DuplicatesReported ==
    phase = "done" =>
       \A c, d \in Where("label") :
          /\ c # d /\ log[c].name = log[d].name /\ log[c].name[2] \in Names
          /\ ~ LocalIn(log[c].name, ProcOf(c), End)
          /\ ~ LocalIn(log[d].name, ProcOf(d), End)
          => errors # {}

\* Duplicates are what is reported as such, and all of them are reported.
DuplicatesRight == DuplicateMeansTwo /\ DuplicatesReported

\* What a reader of the program takes 1B and 1F to mean: the last label of that
\* name and namespace before it in the file, the first one after it.
Meant(u) ==
    LET same == {d \in Where("label") : log[d].name = log[u].name /\ log[d].file = log[u].file}
        back == {d \in same : d < u}
        forth == {d \in same : d > u}
    IN  IF log[u].what = "back" THEN (IF back = {} THEN None ELSE log[Highest(back)].addr)
        ELSE (IF forth = {} THEN None ELSE log[Lowest(forth)].addr)

\* The lines of a file are read in order, and the only statements about a name, in
\* any namespace, that share a line are a label and an operand that goes back to it.
OrderedLines ==
    \A j \in DOMAIN log : \A i \in 1 .. j - 1 :
       log[i].file = log[j].file =>
          /\ log[i].line <= log[j].line
          /\ log[i].line = log[j].line /\ log[i].name[2] = log[j].name[2] /\ log[j].name # NoName =>
                log[i].what = "label" /\ log[j].what \in {"back", "use"}

\* Temporary operands have the address of the label meant, or the program does
\* not assemble.
TemporariesResolve ==
    Assembled /\ OrderedLines =>
       \A u \in Where("back") \union Where("forth") :
          AloneAt(u, Operands \union {"empty"}) =>
             output[log[u].addr - Lowest(DOMAIN cells) + 1] = Meant(u)

\* A program that says LOCAL before it uses the name, declares each label once in
\* its scope, uses only labels it declares, and uses no name in a PROC before one
\* inside it declares it, is assembled without an error of its labels.
Proper ==
    /\ \A i \in Where("local") :
          LET p == ProcOf(i)
          IN  /\ p # 0
              /\ \A j \in 1 .. i : log[j].name = log[i].name /\ Encloses(p, j) => j = i
              /\ \E d \in Where("label") :
                    /\ log[d].name = log[i].name /\ ProcOf(d) = p
                    /\ \A e \in Where("endp") : ProcOf(e) = p => d < e
    /\ \A c, d \in Where("label") :
          c # d /\ log[c].name = log[d].name =>
             /\ ProcOf(c) # ProcOf(d)
             /\ LocalIn(log[c].name, ProcOf(c), End) \/ LocalIn(log[d].name, ProcOf(d), End)
    /\ \A u \in Where("use") :
          Visible(u) # {} /\ \A d \in Where("label") : ~ UsedAround(u, d)

Balanced ==
    LET Count(what, i) == Cardinality({j \in Where(what) : j <= i})
    IN  /\ Count("proc", End) = Count("endp", End)
        /\ \A i \in DOMAIN log : Count("proc", i) >= Count("endp", i)

ProperAssembles ==
    phase = "done" /\ Balanced /\ Proper /\ Where("back") \union Where("forth") = {} =>
       errors \subseteq {"org", "no namespace"}

\* The dump puts an operand that was known when it was read at its address, ORG
\* and empty instructions notwithstanding, and ends after the last instruction.
OutputPlaced ==
    Assembled /\ output # <<>> =>
       LET lo == Lowest(DOMAIN cells)
       IN  /\ Where("use") # {} =>
                 Len(output) >= Highest({log[u].addr : u \in Where("use")}) - lo + 1
           /\ \A u \in Where("use"), d \in Where("label") :
                 d < u /\ Visible(u) = {d} /\ AloneAt(u, Operands) =>
                    output[log[u].addr - lo + 1] = log[d].addr
=============================================================================
