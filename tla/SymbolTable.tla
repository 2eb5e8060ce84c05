---------------------------- MODULE SymbolTable ----------------------------
(* The symbol table of the compiler and the scopes of a BASIC program       *)
(* (api/symboltable, symbols/id_), driven by the statements that declare    *)
(* and use names in the order the parser meets them (zxbc/zxbparser.py).    *)
(*                                                                          *)
(* An entry starts in the scope where the name is first met.  It may change *)
(* class later (a name used in advance turns out to be a variable, a label  *)
(* or a SUB), move to the global scope (labels, SUBs called in advance and  *)
(* names nobody has defined when their SUB ends) or get a second name       *)
(* (static variables).  References hold the entry itself, so what matters   *)
(* is that every entry the program refers to ends up defined.               *)
(*                                                                          *)
(* Types, arrays, constants and forward DECLAREs are left out; a SUB takes  *)
(* at most one parameter.  The first error ends the compilation: the parser *)
(* goes on after it only to report more of them.                            *)
EXTENDS Naturals, Sequences, FiniteSets, SequencesExt, FiniteSetsExt, Functions

CONSTANTS
    Names,      \* the spellings a program uses
    Fold,       \* [Names -> folded]: key.lower()
    Bytes,      \* [Names -> Nat]: the size of a variable of that name
    CaseIns,    \* OPTIONS.case_insensitive
    Optimize,   \* OPTIONS.optimization_level
    MaxDepth,   \* bound: SUBs inside SUBs
    MaxSteps    \* bound: statements of a program

ASSUME SymbolTableAssumption ==
    /\ Bytes \in [Names -> Nat \ {0}]
    /\ DOMAIN Fold = Names
    /\ \A n \in Names : Fold[n] \in Names => Fold[Fold[n]] = Fold[n]
    /\ CaseIns \in BOOLEAN
    /\ Optimize \in 0..4

VARIABLES
    table,     \* the scopes: the global one first, the current one last
    entries,   \* every entry ever made: an entry is its place here
    refs,      \* the entries the generated code refers to
    calls,     \* FUNCTION_CALLS: names of SUBs called before they were defined
    said,      \* history: <<statement, folded name, place>>
    early,     \* history: names whose address was taken before they had a class
    doubled,   \* history: names defined twice
    steps,
    result     \* "open" while parsing, then "accepted", "rejected" or "crashed"

vars == <<table, entries, refs, calls, said, early, doubled, steps, result>>

Classes == {"unknown", "var", "label", "sub", "called"}
None == 0
---------------------------------------------------------------------------
(* Scopes.                                                                 *)

\* "statics" holds what make_static stores under a mangled name: no spelling
\* of a program can be equal to one.
Scope(namespace) == [ns |-> namespace, symbols |-> <<>>, caseins |-> <<>>, statics |-> {}]

\* f with k mapped to v.
With(f, k, v) == [x \in DOMAIN f \cup {k} |-> IF x = k THEN v ELSE f[x]]
Without(f, k) == [x \in DOMAIN f \ {k} |-> f[x]]

Get(scope, id) ==
    IF id \in DOMAIN scope.symbols THEN scope.symbols[id]
    ELSE IF Fold[id] \in DOMAIN scope.caseins THEN scope.caseins[Fold[id]]
    ELSE None

Put(scope, id, e) ==
    [scope EXCEPT !.symbols = With(@, id, e),
                  !.caseins = IF CaseIns THEN With(@, Fold[id], e) ELSE @]

\* The name is removed from both dictionaries as it is written.
Delete(scope, id) == [scope EXCEPT !.symbols = Without(@, id), !.caseins = Without(@, id)]

Global(t) == t[1]
Current(t) == t[Len(t)]

\* fault: only the current scope and the global one are searched.
GetEntryNear(t, id) == IF Get(Current(t), id) # None THEN Get(Current(t), id) ELSE Get(Global(t), id)

\* The innermost scope that knows the name.
GetEntry(t, id) ==
    LET known == {i \in DOMAIN t : Get(t[i], id) # None}
    IN  IF known = {} THEN None ELSE Get(t[Max(known)], id)

\* fault: names of SUBs are not prefixed with the place they are in.
ChildFlat(namespace, id) == <<"_", id>>

\* make_child_namespace: "_f" at the top level, then "_f.x".
Child(namespace, id) == IF namespace = <<>> THEN <<"_", id>> ELSE namespace \o <<".", id>>
LabelName(id) == <<".LABEL", ".", "_", id>>
---------------------------------------------------------------------------
(* Entries.  A state of the table is a record [table, entries].            *)

ClassOf(e) == IF e.class = "called" THEN "unknown" ELSE e.class

NewEntry(t, id, class) ==
    [name |-> id, class |-> class, declared |-> FALSE, accessed |-> FALSE,
     scope |-> IF Len(t) = 1 \/ class = "label" THEN "global" ELSE "local",
     home |-> Current(t).ns, fixed |-> FALSE, offset |-> None,
     mangled |-> IF class = "label" THEN LabelName(id) ELSE Child(Current(t).ns, id)]

\* declare: makes the entry in the current scope, where the name is unknown.
Declare(s, id, class) ==
    [table |-> [s.table EXCEPT ![Len(s.table)] = Put(@, id, Len(s.entries) + 1)],
     entries |-> Append(s.entries, NewEntry(s.table, id, class))]

\* access_id: the entry of the name, made here and now when there is none.
AccessId(s, id, class) == IF GetEntry(s.table, id) = None THEN Declare(s, id, class) ELSE s

\* fault: the name is only removed from the current scope.
MoveToNowhere(s, id) ==
    IF Len(s.table) = 1 THEN s ELSE [s EXCEPT !.table[Len(s.table)] = Delete(@, id)]

MoveToGlobalScope(s, id) ==
    IF Len(s.table) = 1 \/ id \notin DOMAIN Current(s.table).symbols THEN s
    ELSE LET e == Current(s.table).symbols[id]
         IN  [table |-> [i \in DOMAIN s.table |->
                            IF i = 1 THEN Put(s.table[1], id, e)
                            ELSE IF i = Len(s.table) THEN Delete(s.table[i], id)
                            ELSE s.table[i]],
              entries |-> [s.entries EXCEPT
                            ![e].scope = "global", ![e].offset = None,
                            ![e].mangled = IF s.entries[e].class = "label" THEN @ ELSE <<"_", id>>]]

ToVar(s, e) == [s EXCEPT !.entries[e].class = "var"]
ToLabel(s, e) == [s EXCEPT !.entries[e].class = "label", !.entries[e].mangled = LabelName(s.entries[e].name)]
MarkAccessed(s, e) == [s EXCEPT !.entries[e].accessed = TRUE]
---------------------------------------------------------------------------
(* Statements.  Each gives [s |-> the table after it, e |-> the entry it is *)
(* about, ok |-> whether it went through: "open", "rejected", "crashed"].   *)

Done(s, e) == [s |-> s, e |-> e, ok |-> "open"]
Failed(s, how) == [s |-> s, e |-> None, ok |-> how]

InFunction(s) == Len(s.table) > 1      \* FUNCTION_LEVEL is not empty
IsFunction(entry) == entry.class \in {"sub", "called"}   \* token == "FUNCTION"

\* mark_entry_as_accessed: a SUB named inside another is not marked.
Marked(s, e) == IF InFunction(s) /\ IsFunction(s.entries[e]) THEN s ELSE MarkAccessed(s, e)

\* declare_variable
DeclareVariable(s, id) ==
    LET c == Get(Current(s.table), id)
        t == IF c = None THEN Declare(s, id, "unknown") ELSE s
        e == GetEntry(t.table, id)
    IN  IF c # None /\ (s.entries[c].declared \/ ClassOf(s.entries[c]) \notin {"unknown", "var"})
        THEN Failed(s, "rejected")
        ELSE Done([ToVar(t, e) EXCEPT !.entries[e].declared = TRUE], e)


\* DIM id AT number: a variable of a SUB becomes a static one (make_static).
DeclareAt(s, id) ==
    LET d == DeclareVariable(s, id)
        t == [MarkAccessed(d.s, d.e) EXCEPT !.entries[d.e].fixed = TRUE]
    IN  IF d.ok # "open" THEN d
        ELSE IF t.entries[d.e].scope # "local" THEN Done(t, d.e)
        ELSE Done([t EXCEPT !.entries[d.e].scope = "global", !.table[1].statics = @ \cup {d.e}], d.e)

\* @id.  Its value is constant when the entry is a global one by now.
AddressOf(s, id) ==
    LET t == AccessId(s, id, "unknown")
        e == GetEntry(t.table, id)
    IN  Done(Marked(t, e), e)

\* DIM id AT @other: only the address is noted.
DeclareAlias(s, id, other) ==
    LET a == AddressOf(s, other)
        d == DeclareVariable(a.s, id)
    IN  IF a.s.entries[a.e].scope # "global" THEN Failed(a.s, "rejected")
        ELSE IF d.ok # "open" THEN d
        ELSE Done([d.s EXCEPT !.entries[d.e].fixed = TRUE], d.e)

\* LET id = a constant: the left side is met first, with no class.
Assign(s, id) ==
    LET t == AccessId(s, id, "unknown")
        e == GetEntry(t.table, id)
    IN  CASE ClassOf(t.entries[e]) = "unknown" -> Done(ToVar(t, e), e)
          [] ClassOf(t.entries[e]) = "var" -> Done(t, e)
          [] OTHER -> Failed(t, "rejected")

\* id in an expression
Evaluate(s, id) ==
    LET t == AccessId(s, id, "var")
        e == GetEntry(t.table, id)
    IN  IF t.entries[e].class = "sub" THEN Failed(t, "rejected") ELSE Done(Marked(t, e), e)

\* declare_label: the entry found in the current scope, or in the global one,
\* or a new one; a name that is a variable already fails an assertion.
DeclareLabel(s, id) ==
    LET seen == GetEntry(s.table, id)
        here == Get(Current(s.table), id)
        there == Get(Global(s.table), id)
        t == IF here = None /\ there = None THEN Declare(s, id, "label") ELSE s
        e == IF here # None THEN here ELSE IF there # None THEN there ELSE Len(t.entries)
    IN  IF seen # None /\ s.entries[seen].declared THEN Failed(s, "rejected")
        ELSE IF ClassOf(t.entries[e]) \notin {"unknown", "label"} THEN Failed(s, "crashed")
        ELSE Done([MoveToGlobalScope(ToLabel(t, e), id) EXCEPT !.entries[e].declared = TRUE], e)

\* access_label (GO TO id)
AccessLabel(s, id) ==
    LET e == GetEntry(s.table, id)
        d == DeclareLabel(s, id)
    IN  IF e = None THEN Done([d.s EXCEPT !.entries[d.e].declared = FALSE], d.e)
        ELSE IF ClassOf(s.entries[e]) \notin {"unknown", "label"} THEN Failed(s, "rejected")
        ELSE Done(IF s.entries[e].class = "label" THEN s ELSE ToLabel(s, e), e)

\* declare_func: a SUB called in advance keeps its entry and is given the
\* name of the place where it is defined.
DeclareFunc(s, id) ==
    LET e == GetEntry(s.table, id)
        t == Declare(s, id, "sub")
    IN  IF e = None THEN Done([t EXCEPT !.entries[Len(t.entries)].declared = TRUE], Len(t.entries))
        ELSE IF s.entries[e].declared \/ ClassOf(s.entries[e]) \notin {"unknown", "sub"} THEN Failed(s, "rejected")
        ELSE Done([s EXCEPT !.entries[e].class = "sub", !.entries[e].declared = TRUE,
                            !.entries[e].mangled = Current(s.table).ns \o <<"_", s.entries[e].name>>], e)

\* enter_scope and, for each parameter, declare_param
EnterScope(s, id, params) ==
    LET t == [s EXCEPT !.table = Append(@, Scope(Child(Current(@).ns, id)))]
        declared == FoldSet(LAMBDA p, u : Declare(u, p, "var"), t, params)
    IN  [declared EXCEPT !.entries = [e \in DOMAIN @ |->
            IF e <= Len(s.entries) THEN @[e] ELSE [@[e] EXCEPT !.scope = "parameter", !.declared = TRUE]]]

\* access_func and the node of the call: a SUB not defined yet is made global.
Call(s, id) ==
    LET e == GetEntry(s.table, id)
        t == IF e = None THEN Declare(s, id, "called") ELSE s
        f == GetEntry(t.table, id)
    IN  IF t.entries[f].class \notin {"sub", "called"} THEN Failed(s, "rejected")
        ELSE Done(IF t.entries[f].declared THEN t ELSE MoveToGlobalScope(t, id), f)
---------------------------------------------------------------------------
(* The end of a SUB and of the program.                                    *)

\* Scope.values: with -O2 and above the names nobody accessed are left out.
Values(s, scope) ==
    {e \in Range(scope.symbols) : Optimize > 1 => s.entries[e].accessed}

Resident(entry) == entry.class = "var" /\ entry.scope = "local"
EntrySize(entry) == IF entry.scope = "global" \/ entry.fixed THEN 0 ELSE Bytes[entry.name]

\* fault: variables of one size share a place.
OffsetStrict(s, locals, e) ==
    LET key(d) == EntrySize(s.entries[d])
    IN  FoldSet(LAMBDA d, n : n + key(d), key(e), {d \in locals : key(d) < key(e)})

\* compute_offsets: the variables on the frame, the small ones first.
Offset(s, locals, e) ==
    LET key(d) == EntrySize(s.entries[d])
        before == {d \in locals : key(d) < key(e) \/ (key(d) = key(e) /\ d <= e)}
    IN  FoldSet(LAMBDA d, n : n + key(d), 0, before)

LeaveScope(s) ==
    LET mine == Range(Current(s.table).symbols)
        kept == [s EXCEPT !.entries = [e \in DOMAIN @ |->
                    IF e \in mine /\ @[e].scope = "parameter" THEN [@[e] EXCEPT !.accessed = TRUE] ELSE @[e]]]
        unknown == {e \in Values(kept, Current(s.table)) : ClassOf(s.entries[e]) = "unknown"}
        moved == FoldSet(LAMBDA e, u : MoveToGlobalScope(u, u.entries[e].name), kept, unknown)
        rest == Values(moved, Current(moved.table))
        locals == {e \in rest : Resident(moved.entries[e])}
    IN  \* a label that is still local has no size
        IF \E e \in rest : moved.entries[e].class = "label" /\ moved.entries[e].scope = "local"
        THEN Failed(s, "crashed")
        ELSE Done([table |-> Front(moved.table),
                   entries |-> [e \in DOMAIN moved.entries |->
                        IF e \in locals THEN [moved.entries[e] EXCEPT !.offset = Offset(moved, locals, e)]
                        ELSE moved.entries[e]]], None)

\* The entry a name means once the program has been read.
Final(id) == Get(Global(table), id)
IsDeclared(id) == Final(id) # None /\ entries[Final(id)].declared

\* check_labels, check_pending_labels and check_pending_calls
LabelsChecked ==
    \A e \in Range(Global(table).symbols) : entries[e].class = "label" => IsDeclared(entries[e].name)
Pending == {e \in refs \cup Range(Global(table).symbols) : entries[e].class = "label"}
              \cup {e \in refs : entries[e].class = "unknown"}
PendingFound ==
    \A e \in Pending : Final(entries[e].name) # None /\ ClassOf(entries[Final(entries[e].name)]) # "unknown"
PendingAreLabels == \A e \in Pending : entries[Final(entries[e].name)].class = "label"
CallsChecked == \A id \in calls : IsDeclared(id) /\ entries[Final(id)].class = "sub"
---------------------------------------------------------------------------
table0 == <<Scope(<<>>)>>
Place == Current(table).ns

Init ==
    /\ table = table0
    /\ entries = <<>>
    /\ refs = {} /\ calls = {}
    /\ said = {} /\ early = {} /\ doubled = {}
    /\ steps = 0
    /\ result = "open"

Here == [table |-> table, entries |-> entries]

\* The statement has been parsed, with outcome d.
Parsed(d) ==
    /\ steps < MaxSteps
    /\ result = "open"
    /\ steps' = steps + 1
    /\ result' = d.ok
    /\ table' = d.s.table
    /\ entries' = d.s.entries

\* What the program says, whatever the table makes of it.
Said(ops) == {p[2] : p \in {q \in said : q[1] \in ops}}
Says(op, id) == said' = said \cup {<<op, Fold[id], Place>>}
Defines(op, id) ==
    /\ Says(op, id)
    /\ doubled' = IF \E p \in said : p[1] = op /\ p[2] = Fold[id] /\ (op # "label" => p[3] = Place)
                  THEN doubled \cup {Fold[id]} ELSE doubled
Refers(set) == refs' = refs \cup (set \ {None})

Dim(id) ==
    /\ Parsed(DeclareVariable(Here, id))
    /\ Defines("dim", id)
    /\ UNCHANGED <<refs, calls, early>>

DimAt(id) ==
    /\ Parsed(DeclareAt(Here, id))
    /\ Defines("dim", id)
    /\ UNCHANGED <<refs, calls, early>>

DimAlias(id, other) ==
    LET d == DeclareAlias(Here, id, other)
    IN  /\ Parsed(d)
        /\ Defines("dim", id)
        /\ Refers({AddressOf(Here, other).e})
        /\ early' = early \cup {Fold[other]}
        /\ UNCHANGED calls

\* Without optimization every assignment is generated; with it, those to
\* variables that something else refers to.
Let(id) ==
    LET d == Assign(Here, id)
    IN  /\ Parsed(d)
        /\ Says("var", id)
        /\ Refers(IF Optimize < 2 THEN {d.e} ELSE {})
        /\ UNCHANGED <<calls, early, doubled>>

Use(id) ==
    LET d == Evaluate(Here, id)
    IN  /\ Parsed(d)
        /\ Says("var", id)
        /\ Refers({d.e})
        /\ UNCHANGED <<calls, early, doubled>>

TakeAddress(id) ==
    LET d == AddressOf(Here, id)
    IN  /\ Parsed(d)
        /\ Says("address", id)
        /\ Refers({d.e})
        /\ early' = IF d.s.entries[d.e].class = "unknown" THEN early \cup {Fold[id]} ELSE early
        /\ UNCHANGED <<calls, doubled>>

\* A name on its own: a label, or a call without arguments when the name is
\* known to be anything else.
Named(s, id) == GetEntry(s.table, id) # None /\ ClassOf(s.entries[GetEntry(s.table, id)]) \notin {"label", "unknown"}

Label(id) ==
    /\ ~Named(Here, id)
    /\ Parsed(DeclareLabel(Here, id))
    /\ Defines("label", id)
    /\ UNCHANGED <<refs, calls, early>>

CallPlain(id) ==
    LET d == Call(Here, id)
    IN  /\ Named(Here, id)
        /\ Parsed(d)
        /\ Says("call", id)
        /\ Refers({d.e})
        /\ UNCHANGED <<calls, early, doubled>>

GoTo(id) ==
    LET d == AccessLabel(Here, id)
    IN  /\ Parsed(d)
        /\ Says("goto", id)
        /\ Refers({d.e})
        /\ UNCHANGED <<calls, early, doubled>>

CallSub(id) ==
    LET d == Call(Here, id)
    IN  /\ Parsed(d)
        /\ Says("call", id)
        /\ Refers({d.e})
        /\ calls' = IF d.ok = "open" /\ ~d.s.entries[d.e].declared THEN calls \cup {id} ELSE calls
        /\ UNCHANGED <<early, doubled>>

SubBegin(id, params) ==
    LET d == DeclareFunc(Here, id)
    IN  /\ Len(table) <= MaxDepth
        /\ Parsed(IF d.ok = "open" THEN [d EXCEPT !.s = EnterScope(d.s, id, params)] ELSE d)
        /\ said' = said \cup {<<"sub", Fold[id], Place>>} \cup {<<"dim", Fold[p], Child(Place, id)>> : p \in params}
        /\ doubled' = IF <<"sub", Fold[id], Place>> \in said THEN doubled \cup {Fold[id]} ELSE doubled
        /\ UNCHANGED <<refs, calls, early>>

SubEnd ==
    /\ InFunction(Here)
    /\ Parsed(LeaveScope(Here))
    /\ UNCHANGED <<refs, calls, said, early, doubled>>

ProgramEnd ==
    /\ result = "open" /\ ~InFunction(Here)
    /\ result' = IF ~LabelsChecked \/ ~PendingFound THEN "rejected"
                 ELSE IF ~PendingAreLabels THEN "crashed"
                 ELSE IF ~CallsChecked THEN "rejected" ELSE "accepted"
    /\ UNCHANGED <<table, entries, refs, calls, said, early, doubled, steps>>

\* bound: the names each kind of statement is tried with
CONSTANTS Implicit, Variables, Labels, Subs

ASSUME StatementsAssumption == Implicit \cup Variables \cup Labels \cup Subs \subseteq Names

Next ==
    \/ \E id \in Variables : Dim(id) \/ DimAt(id) \/ Let(id)
    \/ \E id \in Variables \cup Implicit : Use(id)
    \/ \E id, other \in Variables : DimAlias(id, other)
    \/ \E id \in Labels : Label(id) \/ CallPlain(id) \/ GoTo(id)
    \/ \E id \in Labels \cup Subs : TakeAddress(id)
    \/ \E id \in Subs : CallSub(id)
    \/ \E id \in Subs, params \in {{}} \cup {{v} : v \in Variables} : SubBegin(id, params)
    \/ SubEnd
    \/ ProgramEnd

Spec == Init /\ [][Next]_vars
---------------------------------------------------------------------------
(* Properties.                                                             *)

\* The entries that get memory or code of their own in the program.
GlobalEntries == Range(Global(table).symbols) \cup Global(table).statics
Emitted == {e \in GlobalEntries : entries[e].class = "var" \/ entries[e].declared}

Defined(e) ==
    CASE entries[e].class = "label" -> \E d \in Emitted : entries[d].class = "label" /\ entries[d].mangled = entries[e].mangled
      [] entries[e].class = "sub" -> entries[e].declared
      [] entries[e].class = "var" -> entries[e].scope = "global" => e \in Emitted
      [] OTHER -> FALSE

\* Everything the code of an accepted program refers to is defined: no entry
\* is lost when scopes are left, entries moved or overwritten.
ReferencesDefined == result = "accepted" => \A e \in refs : Defined(e)

\* No two things defined in an accepted program have the same assembler name,
\* and none is defined twice in a scope, however its scopes are nested.
MangledDistinct ==
    result = "accepted" =>
        /\ \A d, e \in Emitted : entries[d].mangled = entries[e].mangled => d = e
        /\ doubled = {}

\* The variables a SUB keeps on its frame do not overlap, and each used one
\* has a place there.
FramesDisjoint ==
    LET placed == {e \in DOMAIN entries : Resident(entries[e]) /\ entries[e].offset # None}
        cells(e) == entries[e].offset - EntrySize(entries[e]) .. entries[e].offset - 1
    IN  /\ \A d, e \in placed : d # e /\ entries[d].home = entries[e].home => cells(d) \cap cells(e) = {}
        /\ result = "accepted" => \A e \in refs : Resident(entries[e]) /\ ~entries[e].fixed => e \in placed

\* A program in which every name means one thing, and what is jumped to or
\* called is defined once, in sight of its uses.
Prefix(p, q) == Len(p) <= Len(q) /\ SubSeq(q, 1, Len(p)) = p
OneMeaning ==
    /\ Said({"var", "dim"}) \cap Said({"label", "goto"}) = {}
    /\ Said({"var", "dim"}) \cap Said({"sub", "call"}) = {}
    /\ Said({"label", "goto"}) \cap Said({"sub", "call"}) = {}
Proper ==
    /\ OneMeaning
    /\ doubled = {}
    /\ Said({"goto"}) \subseteq Said({"label"})
    /\ \A c, d \in {p \in said : p[1] = "sub"} : c[2] = d[2] => c = d
    /\ \A c \in {p \in said : p[1] = "call"} :
            \E d \in said : d[1] = "sub" /\ d[2] = c[2] /\ Prefix(d[3], c[3])
Failing == result \in {"rejected", "crashed"}

\* A proper program is accepted, whatever the order of its definitions and
\* uses, when no address is taken of a name before it is known.
Accepts == Proper /\ early = {} => ~Failing

\* A variable declared at the address of another one has no cell of its own
\* on the frame of its SUB (docs/dim.md, variable aliasing).
AliasesShare == result = "accepted" => \A e \in refs : entries[e].fixed => ~Resident(entries[e])
===========================================================================
