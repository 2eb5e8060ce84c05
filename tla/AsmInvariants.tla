--------------------------- MODULE AsmInvariants ---------------------------
(* What AsmMemory keeps true between statements, for any programs, in the    *)
(* parts that its proofs need.                                               *)
(*                                                                           *)
(* A declaration belongs to the innermost PROC around it while that is open, *)
(* and to the whole program once the PROC is closed and has not made it      *)
(* LOCAL.  As long as no error of labels has been reported, a scope knows a  *)
(* name with a value exactly when a declaration belongs to it                *)
(* (DuplicatesInv).                                                          *)
(*                                                                           *)
(* An operand without an address shares its label with a scope, and waits    *)
(* there: which scope decides the declarations that can still give it one    *)
(* (OperandsInv).  Beside it, the first instruction at each address is one   *)
(* read there, and an operand alone at its address is written already or     *)
(* marked to be completed (Laid, Stored); the label of a temporary operand   *)
(* is its own (Own).  The dump then has the cell of every address with an    *)
(* instruction at its place (DumpIs), by induction on the addresses.         *)
(*                                                                           *)
(* A temporary operand is resolved by a search of the temporary labels kept, *)
(* in the order of their lines (Kept): with the lines of a file in order,    *)
(* that is the order they were read in, and the first one the search meets   *)
(* is the nearest (ResolvedMeant).                                           *)
(*                                                                           *)
(* A program that keeps the rules (Proper, Balanced) has no error of its     *)
(* labels: what is reported while it is read leaves a mark in the program    *)
(* that the rules exclude (Reported, Paired), and a label without a value    *)
(* in the end was made by an operand or by a LOCAL (Asked), which mean a     *)
(* declaration that would have given it one (AllKnown).                      *)
EXTENDS AsmMemory, SequenceLemmas

IsLabel(l) ==
    l = [name |-> l.name, value |-> l.value, local |-> l.local, dir |-> l.dir,
         file |-> l.file, line |-> l.line]

LabelsOK ==
    /\ IsSeq(labels) /\ \A i \in 1 .. Len(labels) : IsLabel(labels[i])
    /\ IsSeq(scopes) /\ Len(scopes) = Len(procs) + 1
    /\ \A k \in 1 .. Len(scopes) : \A n \in DOMAIN scopes[k] :
          n[2] \in Names /\ scopes[k][n] \in 1 .. Len(labels)

TypeInv ==
    /\ kit \in Kits
    /\ index \in Nat
    /\ LabelsOK
    /\ procs \in Seq(Nat)
    /\ IsSeq(log) /\ \A i \in 1 .. Len(log) : log[i].procs \in Seq(Nat)

\* PROCs are named by increasing places, and a statement after an open PROC is
\* inside it.
Nested ==
    /\ \A j \in 1 .. Len(procs) : procs[j] \in 1 .. Len(log)
    /\ \A j, k \in 1 .. Len(procs) : j < k => procs[j] < procs[k]
    /\ \A i \in 1 .. Len(log) :
          LET p == log[i].procs
          IN  /\ \A j \in 1 .. Len(p) : p[j] \in 1 .. i - 1
              /\ \A j, k \in 1 .. Len(p) : j < k => p[j] < p[k]
              /\ \A j \in 1 .. Len(procs) :
                    procs[j] < i => j <= Len(p) /\ \A k \in 1 .. j : p[k] = procs[k]

\* A name is LOCAL in a PROC, as far as the program has been read.
Hidden(n, p) == LocalIn(n, p, End)

\* A declaration of the whole program: in no open PROC, and LOCAL in none.
Settled(d) ==
    /\ \A j \in 1 .. Len(procs) : procs[j] # ProcOf(d)
    /\ ~ Hidden(log[d].name, ProcOf(d))

\* A declaration belongs to the k-th scope.
Belongs(d, k) == IF k = 1 THEN Settled(d) ELSE ProcOf(d) = procs[k - 1]

LabelAt(k, n) == labels[scopes[k][n]]

\* No label is in two scopes, or in one under two names.
OneScope ==
    \A j, k \in 1 .. Len(scopes) : \A m \in DOMAIN scopes[j], n \in DOMAIN scopes[k] :
       scopes[j][m] = scopes[k][n] => j = k /\ m = n

\* The labels of a PROC that are local are those a LOCAL names.
LocalsKnown ==
    \A k \in 2 .. Len(scopes) :
       /\ \A n \in DOMAIN scopes[k] : LabelAt(k, n).local => Hidden(n, procs[k - 1])
       /\ \A i \in Where("local") :
             ProcOf(i) = procs[k - 1] => log[i].name \in DOMAIN scopes[k] /\ LabelAt(k, log[i].name).local

\* A label with a value was declared, in the scope that knows it.
ValuesDeclared ==
    \A k \in 1 .. Len(scopes) : \A n \in DOMAIN scopes[k] :
       Clash(LabelAt(k, n)) => \E d \in Where("label") : log[d].name = n /\ Belongs(d, k)

\* A name was used in an open PROC, before the whole program knew a declaration of it.
UsedFirst(n, p) ==
    \E u \in Where("use") :
       /\ log[u].name = n /\ ProcOf(u) = p
       /\ \A d \in Where("label") : log[d].name = n /\ Settled(d) => UsedAround(u, d)

\* So was every name of a PROC that is not LOCAL and has no value yet.
WaitingUsed ==
    \A k \in 2 .. Len(scopes) : \A n \in DOMAIN scopes[k] :
       ~ LabelAt(k, n).local /\ ~ Clash(LabelAt(k, n)) => UsedFirst(n, procs[k - 1])

\* Each declaration is known, with its value, in the scope it belongs to.
DeclarationsKnown ==
    \A d \in Where("label") : \A k \in 1 .. Len(scopes) :
       log[d].name[2] \in Names /\ Belongs(d, k) =>
          log[d].name \in DOMAIN scopes[k] /\ Clash(LabelAt(k, log[d].name))

\* No two declarations of a name belong to the same scope.
DeclaredOnce ==
    \A c, d \in Where("label") : \A k \in 1 .. Len(scopes) :
       log[c].name[2] \in Names /\ log[c].name = log[d].name /\ Belongs(c, k) /\ Belongs(d, k) => c = d

Quiet == "duplicate" \notin errors /\ "undefined local" \notin errors

ScopesInv ==
    /\ OneScope /\ LocalsKnown /\ ValuesDeclared /\ WaitingUsed /\ DeclarationsKnown /\ DeclaredOnce

\* Two declarations that will always be two of a name in a scope.
TwiceForGood ==
    \E c, d \in Where("label") :
       /\ c # d /\ log[c].name = log[d].name
       /\ \/ ProcOf(c) = ProcOf(d)
          \/ Settled(c) /\ Settled(d)

AroundForGood == \E u \in Where("use"), d \in Where("label") : UsedAround(u, d)

DuplicatesInv ==
    /\ TypeInv
    /\ Nested
    /\ Quiet => ScopesInv
    /\ "duplicate" \in errors => "undefined local" \in errors \/ TwiceForGood \/ AroundForGood
    /\ phase = "done" /\ errors = {} => procs = <<>>

-----------------------------------------------------------------------------
(* The program as read.                                                    *)

\* The place of the statement being read, the PROC it is in, and what it does to
\* the open PROCs.
Now == Len(log) + 1

Inner == IF procs = <<>> THEN 0 ELSE Last(procs)

NextProcs ==
    \/ procs' = procs
    \/ procs' = Append(procs, Now)
    \/ procs # <<>> /\ procs' = SubSeq(procs, 1, Len(procs) - 1)

-----------------------------------------------------------------------------
(* The labels and the scopes.                                              *)

\* The label of a name in the innermost scope becomes l.
PutLabel(name, l) ==
    \/ /\ name \in DOMAIN Last(scopes) /\ labels' = [labels EXCEPT ![Last(scopes)[name]] = l]
       /\ scopes' = scopes
    \/ /\ name \notin DOMAIN Last(scopes) /\ labels' = Append(labels, l)
       /\ scopes' = [scopes EXCEPT ![Len(scopes)] = Put(Last(scopes), name, Len(labels'))]

\* The names that ENDP hands over, and those it leaves without a value.
Missing == {n \in DOMAIN Last(scopes) : labels[Last(scopes)[n]].local /\ Undefined(labels[Last(scopes)[n]].value)}

Handed == {n \in Outgoing(Last(scopes)) : \A m \in Missing : Last(scopes)[n] < Last(scopes)[m]}

\* The scopes once the names are handed over.
Moved ==
    [scopes EXCEPT ![1] = [n \in DOMAIN scopes[1] \union Handed |->
                             IF n \in DOMAIN scopes[1] THEN scopes[1][n] ELSE Last(scopes)[n]]]

\* What becomes of a label at an ENDP: one that the whole program knows gets the
\* value of the one handed over under its name.
Handover(i) ==
    LET for == {n \in {n \in Handed : n \in DOMAIN scopes[1]} : scopes[1][n] = i}
    IN  IF for = {} THEN labels[i]
        ELSE Define(labels[i], labels[Last(scopes)[CHOOSE n \in for : TRUE]].value)

-----------------------------------------------------------------------------
(* The invariant.                                                          *)

\* How a label gets into a scope: by LOCAL, by its declaration, which reports it when
\* the scope has a clashing one, or by the first use of its name.
Entered(name, l, note, K) ==
    \/ /\ note.what = "local" /\ l.local /\ errors' = errors
       /\ Clash(l) => name \in DOMAIN scopes[K]
       /\ name \in DOMAIN scopes[K] => (Clash(l) <=> Clash(LabelAt(K, name)))
    \/ /\ note.what = "label" /\ Clash(l)
       /\ l.local => name \in DOMAIN scopes[K]
       /\ name \in DOMAIN scopes[K] => (l.local <=> LabelAt(K, name).local)
       /\ errors' = errors \union (IF name \in DOMAIN scopes[K] /\ Clash(LabelAt(K, name))
                                   THEN {"duplicate"} ELSE {})
    \/ /\ note.what = "use" /\ ~ Clash(l) /\ ~ l.local /\ errors' = errors
       /\ \A k \in 1 .. Len(scopes) : name \notin DOMAIN scopes[k]

-----------------------------------------------------------------------------
(* Operands.                                                               *)

Uses == Where("use")

LabelOf(u) == labels[log[u].id]

\* The PROC a scope is that of.
ProcAt(k) == IF k = 1 THEN 0 ELSE procs[k - 1]

\* No LOCAL that an operand follows in its PROCs is inside this PROC.
InReach(u, q) ==
    \A k \in 1 .. Len(log[u].procs) : LocalIn(log[u].name, log[u].procs[k], u) => q >= log[u].procs[k]

\* An operand may mean a declaration, now and for good.
Means(u, d) ==
    /\ log[d].name = log[u].name
    /\ Settled(d) \/ Encloses(ProcOf(d), u)
    /\ InReach(u, ProcOf(d))

UsesNamed ==
    \A u \in Uses : log[u].name[2] \in Names /\ log[u].id \in 1 .. Len(labels)

\* The operands that share the label of a name in a scope have that name, and are
\* inside the PROC of that scope.
Inside ==
    \A u \in Uses : \A k \in 1 .. Len(scopes) : \A n \in DOMAIN scopes[k] :
       log[u].id = scopes[k][n] => log[u].name = n /\ Encloses(ProcAt(k), u)

\* A name that is used in a PROC, without a LOCAL or a value, was known in no
\* scope around it, and is known there by now only with a value.
NoneAround ==
    \A k \in 2 .. Len(scopes) : \A n \in DOMAIN scopes[k] :
       ~ LabelAt(k, n).local /\ ~ Clash(LabelAt(k, n)) =>
          \A j \in 1 .. k - 1 : n \in DOMAIN scopes[j] => j = 1 /\ Clash(LabelAt(1, n))

\* An operand whose label has no value yet waits in the scope of every LOCAL before it.
Waits ==
    \A u \in Uses : \A k \in 1 .. Len(scopes) : \A n \in DOMAIN scopes[k] :
       log[u].id = scopes[k][n] /\ ~ Clash(LabelAt(k, n)) => InReach(u, ProcAt(k))

\* Operands that wait in the global scope come before the declarations in open PROCs.
Before ==
    \A u \in Uses, d \in Where("label") : \A k \in 2 .. Len(scopes) : \A n \in DOMAIN scopes[1] :
       /\ log[u].id = scopes[1][n] /\ ~ Clash(LabelAt(1, n))
       /\ log[d].name = n /\ Belongs(d, k)
       => u < d

Traced ==
    \A k \in 1 .. Len(scopes) : \A n \in DOMAIN scopes[k] :
       Clash(LabelAt(k, n)) =>
          \E d \in Where("label") :
             log[d].name = n /\ Belongs(d, k) /\ LabelAt(k, n).value = log[d].addr

\* An operand without a value has its label in a scope still.
Waiting ==
    \A u \in Uses : ~ Clash(LabelOf(u)) =>
       \E k \in 1 .. Len(scopes) : \E n \in DOMAIN scopes[k] : scopes[k][n] = log[u].id

Answered ==
    \A u \in Uses : Clash(LabelOf(u)) =>
       \E d \in Where("label") : Means(u, d) /\ LabelOf(u).value = log[d].addr

OperandsInv ==
    /\ UsesNamed /\ Inside /\ NoneAround /\ Waits /\ Before /\ Traced /\ Waiting /\ Answered

Temps == Where("back") \union Where("forth")

Asking == Uses \union Temps

\* The label of a temporary operand is its own, and no scope knows it.
Own ==
    /\ \A v \in Temps :
          /\ log[v].id \in 1 .. Len(labels)
          /\ \A k \in 1 .. Len(scopes) : \A n \in DOMAIN scopes[k] : scopes[k][n] # log[v].id
          /\ \A u \in Asking : log[u].id = log[v].id => u = v
    /\ IsSeq(pending) /\ \A k \in 1 .. Len(pending) : \E v \in Temps : pending[k] = log[v].id

Alone(u) == \A v \in Asking : log[v].addr = log[u].addr => v = u

EmptyAt(a) == \E v \in Where("empty") : log[v].addr = a

\* The first instruction at an address is one of those read there.
Laid ==
    /\ DOMAIN slots = DOMAIN cells
    /\ \E b \in Nat : \A a \in DOMAIN cells : a \in 0 .. b
    /\ \A a \in DOMAIN slots : IsSeq(slots[a])
    /\ \A a \in DOMAIN slots : slots[a] # <<>> =>
          \/ slots[a][1].id = None /\ EmptyAt(a)
          \/ \E v \in Asking : log[v].addr = a /\ slots[a][1].id = log[v].id

\* The cell of an operand has the value of its label.
Written(u) == Clash(LabelOf(u)) /\ cells[log[u].addr] = LabelOf(u).value

Late(u) ==
    Clash(LabelOf(u)) =>
       \E d \in Where("label") : u < d /\ Means(u, d) /\ LabelOf(u).value = log[d].addr

\* An operand alone at its address waits for a later label, or is written already.
Ready(u) ==
    /\ slots[log[u].addr][1].id = log[u].id => slots[log[u].addr][1].pending \/ (u \in Uses /\ Written(u))
    /\ u \in Uses => Late(u) \/ Written(u)

Stored ==
    \A u \in Asking :
       /\ log[u].addr \in DOMAIN slots /\ slots[log[u].addr] # <<>>
       /\ Alone(u) => Ready(u)

\* What a statement makes of the labels of operands: those with a value keep it, and
\* the others get it from a later declaration that they may mean.
Steady ==
    \A u \in Uses :
       IF Clash(LabelOf(u)) THEN LabelOf(u)'.value = LabelOf(u).value
       ELSE Clash(LabelOf(u))' =>
               \E d \in Where("label")' : u < d /\ Means(u, d)' /\ LabelOf(u)'.value = log'[d].addr

\* How a label gets into a scope, and with which value.
Placing(name, l, note, K) ==
    \/ /\ note.what = "local" /\ l.local
       /\ IF name \in DOMAIN scopes[K] THEN l.value = LabelAt(K, name).value ELSE ~ Clash(l)
    \/ /\ note.what = "label" /\ Clash(l) /\ l.value = note.addr
       /\ name \in DOMAIN scopes[K] => ~ Clash(LabelAt(K, name))
    \/ /\ note.what = "use" /\ ~ Clash(l) /\ note.id = Len(labels) + 1
       /\ \A k \in 1 .. Len(scopes) : name \notin DOMAIN scopes[k]

\* An operand gets the label that the innermost scope with its name knows.
Reaches(note, at) ==
    /\ at \in 1 .. Len(scopes) /\ note.name \in DOMAIN scopes[at] /\ note.id = scopes[at][note.name]
    /\ \A k \in 1 .. Len(scopes) : note.name \in DOMAIN scopes[k] => k <= at

-----------------------------------------------------------------------------
(* The statements.                                                         *)

\* A statement puts a label into the innermost scope.
Puts(name, note) ==
    \E l : IsLabel(l) /\ PutLabel(name, l) /\ Placing(name, l, note, Len(scopes))

OperandsKnown == DuplicatesInv /\ (Quiet => OperandsInv)

-----------------------------------------------------------------------------
(* The memory.                                                             *)

\* The instructions at the address being written, before the statement.
Here == IF index \in DOMAIN slots THEN slots[index] ELSE <<>>

\* A statement leaves the memory as it is, but for an address that has nothing yet.
Grown ==
    \E D \in SUBSET {index} :
       /\ DOMAIN slots' = DOMAIN slots \union D /\ DOMAIN cells' = DOMAIN cells \union D
       /\ \A a \in DOMAIN slots : slots'[a] = slots[a] /\ cells'[a] = cells[a]
       /\ \A a \in D : a \notin DOMAIN slots => slots'[a] = <<>>

\* A statement adds an instruction.
Given(note, instr, size, value) ==
    /\ note.addr = index /\ note.id = instr.id
    /\ DOMAIN slots' = DOMAIN slots \union {index} /\ DOMAIN cells' = DOMAIN cells \union {index}
    /\ \A a \in DOMAIN slots : a # index => slots'[a] = slots[a] /\ cells'[a] = cells[a]
    /\ slots'[index] = Append(Here, instr)
    /\ IF size = 0 THEN index \in DOMAIN cells => cells'[index] = cells[index]
       ELSE cells'[index] = value

MemoryInv == errors = {} => Own /\ Laid /\ Stored

MemoryKnown == OperandsKnown /\ MemoryInv

-----------------------------------------------------------------------------
(* The dump.                                                               *)

\* The cell that the dump gives an address.
CellOf(a) ==
    IF a \in DOMAIN slots /\ slots[a] # <<>> /\ slots[a][1].pending /\ slots[a][1].id # None
    THEN Value(slots[a][1].id)
    ELSE IF a \in DOMAIN cells THEN cells[a] ELSE 0

Nothing == [out |-> <<>>, held |-> <<>>]

\* What one more address makes of what was dumped.
Dumping(p, a) ==
    IF a \in DOMAIN slots
    THEN IF slots[a] = <<>> THEN [p EXCEPT !.held = Append(@, 0)]
         ELSE [out |-> Append(Flush(p), CellOf(a)), held |-> <<>>]
    ELSE [p EXCEPT !.out = Append(@, CellOf(a))]

Dumps(f, lo, hi) ==
    f = [a \in (lo - 1) .. hi |-> IF a = lo - 1 THEN Nothing ELSE Dumping(f[a - 1], a)]

\* After x addresses, those dumped and those held back are x, and every address with
\* an instruction has its cell.
DumpsTo(p, lo, x) ==
    \E o, h : /\ p = [out |-> o, held |-> h]
              /\ IsSeq(o) /\ IsSeq(h) /\ Len(o) + Len(h) = x
              /\ \A b \in 1 .. x : lo - 1 + b \in DOMAIN slots /\ slots[lo - 1 + b] # <<>> =>
                    b <= Len(o) /\ o[b] = CellOf(lo - 1 + b)

-----------------------------------------------------------------------------
(* The end of the program.                                                 *)

\* What is printed of an operand: the value of its label, unless an empty
\* instruction at its address came first and the value is that of a later label.
Printed ==
    \A u \in Uses :
       /\ Clash(LabelOf(u))
       /\ log[u].addr \in DOMAIN cells
       /\ log[u].addr - Lowest(DOMAIN cells) + 1 \in 1 .. Len(output)
       /\ Alone(u) /\ (~ EmptyAt(log[u].addr) \/ ~ Late(u)) =>
             output[log[u].addr - Lowest(DOMAIN cells) + 1] = LabelOf(u).value

Final == phase = "done" /\ errors = {} => Printed /\ procs = <<>>

OperandsFinal == MemoryKnown /\ Final

-----------------------------------------------------------------------------
(* Temporary labels.                                                       *)

\* A statement after the last ORG.
Fresh(i) == \A j \in Where("org") : j < i

\* What the assembler keeps of a temporary label.
Entry(d) == [file |-> log[d].file, line |-> log[d].line, name |-> log[d].name, value |-> log[d].addr]

\* Lines are numbers.
Lined == line \in Nat /\ \A i \in 1 .. Len(log) : log[i].line \in Nat

\* The temporary labels kept are those declared since the last ORG, by line.
Kept ==
    /\ IsSeq(tmps)
    /\ \A i \in 1 .. Len(tmps) : \E d \in Where("label") : Fresh(d) /\ tmps[i] = Entry(d)
    /\ \A d \in Where("label") : Fresh(d) /\ log[d].name[2] \in Temporaries =>
          \E i \in 1 .. Len(tmps) : tmps[i] = Entry(d)
    /\ \A i, j \in 1 .. Len(tmps) :
          i < j /\ tmps[i].file = tmps[j].file => tmps[i].line <= tmps[j].line

\* A temporary operand's label has what the statement said, and waits since the last ORG.
Asks(v) ==
    /\ log[v].name[2] \in Temporaries
    /\ labels[log[v].id].value = None
    /\ labels[log[v].id].name = log[v].name
    /\ labels[log[v].id].file = log[v].file
    /\ labels[log[v].id].line = log[v].line
    /\ labels[log[v].id].dir < 0 <=> log[v].what = "back"
    /\ \A k \in 1 .. Len(pending) : pending[k] = log[v].id => Fresh(v)

TempsInv == Lined /\ Kept /\ \A v \in Temps : Asks(v)

\* Known while there is no error and the lines are in order.
TempsKnown == errors = {} /\ OrderedLines /\ phase # "crashed" => TempsInv

\* The label that a temporary operand means: the nearest one of its name, before it
\* or after it.
IsMeant(u, d) ==
    /\ d \in Where("label") /\ log[d].name = log[u].name /\ log[d].file = log[u].file
    /\ IF log[u].what = "back"
       THEN /\ d < u
            /\ \A e \in Where("label") :
                  log[e].name = log[u].name /\ log[e].file = log[u].file /\ e < u => e <= d
       ELSE /\ u < d
            /\ \A e \in Where("label") :
                  log[e].name = log[u].name /\ log[e].file = log[u].file /\ u < e => d <= e

\* What is printed of a temporary operand alone at its address: the label it means.
Shown ==
    \A u \in Temps : Alone(u) /\ ~ EmptyAt(log[u].addr) =>
       \E d : IsMeant(u, d) /\ output[log[u].addr - Lowest(DOMAIN cells) + 1] = log[d].addr

\* The dump, once made, shows it.
FinalTemps == phase = "done" /\ errors = {} /\ OrderedLines => Shown

TempsFinal == OperandsFinal /\ TempsKnown /\ FinalTemps

-----------------------------------------------------------------------------
(* Programs that keep the rules.                                           *)

\* How many statements of a kind there are up to a place.
Count(what, i) == Cardinality({j \in Where(what) : j <= i})

\* More PROCs are closed than there were.
Unpaired == \E i \in 1 .. Len(log) : Count("proc", i) < Count("endp", i)

\* PROCs are counted, until an ENDP without one is reported.
Paired ==
    "undefined local" \notin errors =>
       IF "no proc" \in errors THEN Unpaired
       ELSE Count("proc", Len(log)) = Count("endp", Len(log)) + Len(procs)

\* A PROC ends before a name that is LOCAL in it is declared.
LateLocal ==
    \E i \in Where("local"), e \in Where("endp") :
       /\ ProcOf(i) # 0 /\ ProcOf(e) = ProcOf(i)
       /\ \A d \in Where("label") : log[d].name = log[i].name /\ ProcOf(d) = ProcOf(i) => e < d

\* What is reported of labels while the program is read is there to be seen.
Reported == ~ Quiet => LateLocal \/ TwiceForGood \/ AroundForGood

\* A label without a value was made by an operand or by a LOCAL.
Asked ==
    \A k \in 1 .. Len(scopes) : \A n \in DOMAIN scopes[k] :
       ~ Clash(LabelAt(k, n)) =>
          \/ \E u \in Uses : log[u].id = scopes[k][n]
          \/ \E i \in Where("local") : log[i].name = n /\ ProcOf(i) = ProcAt(k)

\* The first instruction at an address is empty or has the label of an operand.
First ==
    \A a \in DOMAIN slots :
       /\ IsSeq(slots[a])
       /\ slots[a] # <<>> => slots[a][1].id = None \/ \E v \in Asking : slots[a][1].id = log[v].id

\* Without temporary operands none is pending.
NonePending == Temps = {} => pending = <<>>

\* What may be reported before the end.
Early == phase # "done" => errors \subseteq {"no proc", "duplicate", "undefined local", "org", "no namespace"}

ProperInv == Paired /\ Reported /\ (Quiet => Asked) /\ First /\ NonePending /\ Early

\* What is reported in the end of a program that keeps the rules.
Fair ==
    Balanced /\ Proper /\ Temps = {} => errors \subseteq {"org", "no namespace"}

ProperFinal == OperandsKnown /\ ProperInv /\ (phase = "done" => Fair)

\* What a statement makes of the scopes.
Kind(note) ==
    \/ note.what = "proc" /\ EnterProc
    \/ note.what = "endp" /\ ExitProc
    \/ /\ note.what \notin {"proc", "endp"} /\ procs' = procs
       /\ errors \subseteq errors' /\ errors' \subseteq errors \union {"duplicate", "org", "no namespace"}
       /\ \/ Quiet' => \E name : name[2] \in Names /\ note.name = name /\ Puts(name, note)
          \/ /\ note.what # "local" /\ scopes' = scopes
             /\ \E l : IsLabel(l) /\ (labels' = labels \/ labels' = Append(labels, l))

\* What it makes of the memory.
Laying(note) ==
    /\ \/ slots' = slots
       \/ slots' = SlotAt(slots, index)
       \/ \E instr : /\ instr.id = None \/ (note.what \in Operands /\ instr.id = note.id)
                     /\ slots' = [SlotAt(slots, index) EXCEPT ![index] = Append(@, instr)]
    /\ pending' = pending \/ pending' = <<>> \/ note.what \in {"back", "forth"}
=============================================================================
