------------------------------ MODULE Programs ------------------------------
(***************************************************************************)
(* The compiler from the syntax tree to the assembly: the tree is checked  *)
(* and optimized, translated to chunks of code, which are joined by the    *)
(* peephole optimizer and, at levels 3 and 4, optimized by blocks.  What   *)
(* the program should do is beside it, by the meaning of BASIC statements, *)
(* and the assembly is run line by line on the machine.                    *)
(***************************************************************************)
EXTENDS Statements

CONSTANTS
    Sources,     \* the programs tried, sequences of nodes
    Levels,      \* of optimization, -O
    Inputs       \* the contents of memory the programs start with
ASSUME LevelsAssumption == Levels \subseteq 0 .. 4
ASSUME InputsAssumption == \A m \in Inputs : DOMAIN m \subseteq 16384 .. 32767 /\ CALL_BACK \in DOMAIN m

VARIABLES
    source,      \* the statements of the program
    level,       \* of optimization
    stage,       \* "source", "rejected", "parsed", "joining", "joined" or "done"
    chunks,      \* the code of the quads that is left to join
    output       \* the lines of assembly
vars == <<source, level, stage, chunks, output>>

ast == WholeProgram(source)
-----------------------------------------------------------------------------
\* What the parser refuses: EXIT and CONTINUE out of a loop of their kind, and
\* labels that are nowhere.
LoopKind(node) ==
    CASE Token(node) \in {"FOR", "WHILE"} -> {Token(node)}
      [] Token(node) \in Conditions \cup {"DO_LOOP"} -> {"DO"}
      [] OTHER -> {}
RECURSIVE InLoops(_, _)
InLoops(LOOPS, node) ==
    /\ Token(node) \in {"EXIT", "CONTINUE"} => node[2] \in LOOPS
    /\ \A child \in Children(node) : InLoops(LOOPS \cup LoopKind(node), child)
check_labels == AccessedLabels(ast) \subseteq {node[2] : node \in {n \in Nodes(ast) : Token(n) = "LABEL"}}
Accepted == InLoops({}, ast) /\ check_labels

Init ==
    /\ source \in Sources /\ level \in Levels
    /\ stage = "source" /\ chunks = <<>> /\ output = <<>>
Parse == stage = "source" /\ Accepted /\ stage' = "parsed" /\ UNCHANGED <<source, level, chunks, output>>
Reject == stage = "source" /\ ~Accepted /\ stage' = "rejected" /\ UNCHANGED <<source, level, chunks, output>>
Translate ==
    /\ stage = "parsed" /\ stage' = "joining"
    /\ chunks' = Chunks(level, Variables(ast), OptimizedTree(level, ast))
    /\ UNCHANGED <<source, level, output>>
\* emit, a quad at a time.
Join ==
    /\ stage = "joining" /\ chunks # <<>>
    /\ chunks' = Tail(chunks) /\ output' = _output_join(level, output, Head(chunks))
    /\ UNCHANGED <<source, level, stage>>
Relabel ==
    /\ stage = "joining" /\ chunks = <<>> /\ stage' = "joined"
    /\ output' = IF level > 1 THEN _output_join(level, <<>>, remove_unused_labels(output)) ELSE output
    /\ UNCHANGED <<source, level, chunks>>
Optimize ==
    /\ stage = "joined" /\ stage' = "done"
    /\ \E order \in (IF level > 2 THEN Orders(output) ELSE {<<>>}) : output' = optimize(level, output, order)
    /\ UNCHANGED <<source, level, chunks>>
Next == Parse \/ Reject \/ Translate \/ Join \/ Relabel \/ Optimize
Spec == Init /\ [][Next]_vars
-----------------------------------------------------------------------------
\* What a program means.  A configuration: the memory m, what is left to do
\* (todo), what is left after each GOSUB, and the number END gives.  After the
\* body of a loop comes the node <<"NEXT", kind, loop>>.
Fuel == 64
Content(m, at) == IF at \in DOMAIN m THEN m[at] ELSE 170
Stored(m, at, t, v) ==
    [k \in DOMAIN m |-> CASE k = at -> v % 256
                          [] k = at + 1 /\ t = "u16" -> v \div 256
                          [] OTHER -> m[k]]
RECURSIVE Meant(_, _)
Meant(m, e) ==
    LET Cut(t, v) == v % (IF t = "u16" THEN 65536 ELSE 256)
    IN  CASE Token(e) = "NUMBER" -> Cut(e[3], e[2])
          [] Token(e) = "VAR" -> Content(m, e[2]) + (IF e[3] = "u16" THEN 256 * Content(m, e[2] + 1) ELSE 0)
          [] Token(e) = "PEEK" -> Content(m, Meant(m, e[2]))
          [] Token(e) = "TYPECAST" -> Cut(e[2], Meant(m, e[3]))
          [] Token(e) = "BINARY" -> Cut(e[3], Folded(e[2], Meant(m, e[4]), Meant(m, e[5])))

\* From the label l on, into the statements that have it in them.
Body(node) == Last(node)
RECURSIVE From(_, _)
From(l, todo) ==
    IF todo = <<>> THEN {}
    ELSE LET node == Head(todo)  rest == Tail(todo)
             Into(n) == CASE n = "BLOCK" -> {node[2] \o rest}
                           [] n = "IF" -> {<<node[k]>> \o rest : k \in 3 .. Len(node)}
                           [] LoopKind(node) # {} -> {<<Body(node), <<"NEXT", CHOOSE k \in LoopKind(node) : TRUE, node>>>> \o rest}
                           [] OTHER -> {rest}
         IN  IF node = <<"LABEL", l>> THEN {todo} ELSE UNION {From(l, t) : t \in Into(Token(node))}
NextOf(todo, kind) == CHOOSE k \in DOMAIN todo : /\ SubSeq(todo[k], 1, 2) = <<"NEXT", kind>>
                                                 /\ \A j \in 1 .. k - 1 : SubSeq(todo[j], 1, 2) # <<"NEXT", kind>>

Did(c) ==
    LET node == Head(c.todo)  rest == Tail(c.todo)  token == Token(node)
        Go(todo) == [c EXCEPT !.todo = todo]
        True(e) == Meant(c.m, e) # 0
        Assigned(var, v) == Stored(c.m, var[2], var[3], v)
        Past(m, for) == LET v == Meant(m, for[2])  limit == Meant(m, for[4])
                        IN  IF for[5][2] < 0 THEN v < limit ELSE v > limit
        ForGo(for, m, after) == [c EXCEPT !.m = m, !.todo = IF Past(m, for) THEN after
                                                            ELSE <<Body(for), <<"NEXT", "FOR", for>>>> \o after]
        Marked(loop, kind) == <<"NEXT", kind, loop>>
        More(loop) == CASE Token(loop) \in {"WHILE", "WHILE_DO", "DO_WHILE"} -> True(loop[2])
                        [] Token(loop) \in {"UNTIL_DO", "DO_UNTIL"} -> ~True(loop[2])
                        [] Token(loop) = "DO_LOOP" -> TRUE
    IN  CASE token = "BLOCK" -> Go(node[2] \o rest)
          [] token \in {"NOP", "LABEL"} -> Go(rest)
          [] token = "LET" -> [Go(rest) EXCEPT !.m = Assigned(node[2], Meant(c.m, node[3]))]
          [] token = "POKE" -> [Go(rest) EXCEPT !.m = Stored(c.m, Meant(c.m, node[2]), TypeOf(node[3]), Meant(c.m, node[3]))]
          [] token = "IF" -> Go((IF True(node[2]) THEN <<node[3]>> ELSE SubSeq(node, 4, Len(node))) \o rest)
          [] token \in {"WHILE", "WHILE_DO", "UNTIL_DO"} -> Go(<<Marked(node, CHOOSE k \in LoopKind(node) : TRUE)>> \o rest)
          [] token \in {"DO_UNTIL", "DO_WHILE", "DO_LOOP"} -> Go(<<Body(node), Marked(node, "DO")>> \o rest)
          [] token = "FOR" -> ForGo(node, Assigned(node[2], Meant(c.m, node[3])), rest)
          [] token = "NEXT" /\ node[2] = "FOR" ->
               LET for == node[3]
               IN  ForGo(for, Assigned(for[2], (Meant(c.m, for[2]) + for[5][2]) % (IF for[2][3] = "u16" THEN 65536 ELSE 256)), rest)
          [] token = "NEXT" /\ node[2] # "FOR" -> Go(IF More(node[3]) THEN <<Body(node[3]), node>> \o rest ELSE rest)
          [] token = "EXIT" -> Go(SubSeq(rest, NextOf(rest, node[2]) + 1, Len(rest)))
          [] token = "CONTINUE" -> Go(SubSeq(rest, NextOf(rest, node[2]), Len(rest)))
          [] token = "GOTO" -> Go(CHOOSE t \in From(node[2], <<ast>>) : TRUE)
          [] token = "GOSUB" -> [Go(CHOOSE t \in From(node[2], <<ast>>) : TRUE) EXCEPT !.gosubs = Append(@, rest)]
          [] token = "RETURN" -> [Go(Last(c.gosubs)) EXCEPT !.gosubs = SubSeq(@, 1, Len(@) - 1)]
          [] token = "END" -> [Go(<<>>) EXCEPT !.result = <<Meant(c.m, node[2])>>]
RECURSIVE Doing(_, _)
Doing(c, n) ==
    IF c.todo = <<>> THEN c ELSE IF n = 1 THEN Did(c) ELSE Doing(Doing(c, n \div 2), n \div 2)
Meaning(m) == Doing([m |-> m, todo |-> <<ast>>, gosubs |-> <<>>, result |-> <<>>], Fuel)
-----------------------------------------------------------------------------
\* What the assembly does.  A configuration: the machine s, the line pc, 0 when
\* the program has returned; -1 if it is lost.  A program is called by BASIC,
\* with the registers IX, IY and HL' of the caller.
FuelOfLines == 512
Caller == 1234
Machine(m) ==
    [a |-> 1, b |-> 2, c |-> 3, d |-> 4, e |-> 5, h |-> 6, l |-> 7, cf |-> 0, zf |-> 0, sf |-> 0, pv |-> 0,
     af2 |-> 257, set2 |-> <<4660, 22136, 39612>>, ix |-> 4369, iy |-> 8738, below |-> 0, irq |-> FALSE,
     fp |-> <<>>, st |-> <<Caller \div 256, Caller % 256>>, m |-> m]
RuntimeRoutines == Routines @@ RealRoutines
Defined(code, label) == \E k \in DOMAIN code : code[k] = <<"label", label>>
DidLine(code, c) ==
    LET l == code[c.pc]  on == c.pc + 1
        To(label) == IF Defined(code, label) THEN PlaceOf(code, label) - CodeAt ELSE -1
        At_(s, pc) == [c EXCEPT !.s = s, !.pc = IF pc \in DOMAIN code \cup {0} THEN pc ELSE -1]
    IN  CASE Jumps(l) -> At_(c.s, IF Conditional(l) /\ ~Holds(c.s, Condition(l)) THEN on ELSE To(Label(l)))
          [] Name(l) = "call" /\ Defined(code, Label(l)) -> At_(Push(c.s, CodeAt + on), To(Label(l)))
          [] Name(l) = "call" /\ ~Defined(code, Label(l)) -> At_(Run(RuntimeRoutines, << Call(Label(l)[2]) >>, c.s), on)
          [] Name(l) = "ret" -> At_(Drop(c.s), IF Top(c.s) = Caller THEN 0 ELSE Top(c.s) - CodeAt)
          [] Name(l) \notin {"jp", "call", "ret"} -> At_(Executed(code, c.s, l), on)
\* Until it returns, is lost or comes to the line stop.
RECURSIVE DoingLines(_, _, _, _)
DoingLines(code, stop, c, n) ==
    IF c.pc \in {0, -1, stop} THEN c ELSE IF n = 1 THEN DidLine(code, c)
    ELSE DoingLines(code, stop, DoingLines(code, stop, c, n \div 2), n \div 2)
Ran(code, stop, c) == DoingLines(code, stop, c, FuelOfLines)
Started(m) == Ran(emit_prologue, 0, [s |-> Machine(m), pc |-> 1]).s     \* past its end
AtStart(m) == [s |-> Started(m), pc |-> 1]
Execution(m) == Ran(output, 0, AtStart(m))

\* A variable no statement reads is not kept at level 2 and over.
Kept == {at \in UNION {DOMAIN m : m \in Inputs} \ {CALL_BACK, CALL_BACK + 1} :
             level > 1 => ~\E node \in Nodes(ast) : /\ Token(node) = "LET" /\ node[2][2] \notin Variables(ast)
                                                   /\ at - node[2][2] \in 0 .. 1}

\* The assembly of a program, at every level, does what the program says: it
\* leaves the variables and the rest of memory as the statements do, gives END's
\* number in BC, and returns with the stack, IX, IY and HL' of its caller
\* (what no pass of the compiler may change).
SameEffect ==
    stage = "done" => \A m \in Inputs : \E want \in {Meaning(m)} :
        want.result # <<>> => \E got \in {Execution(m)} :
            /\ got.pc = 0 /\ got.s.st = <<>>
            /\ Pair(got.s, "bc") = want.result[1]
            /\ <<got.s.ix, got.s.iy, got.s.set2[1]>> = <<Machine(m).ix, Machine(m).iy, Machine(m).set2[1]>>
            /\ \A at \in Kept : got.s.m[at] = want.m[at]
-----------------------------------------------------------------------------
\* What the optimizer takes for granted of the code it is given.
Analyses == {Prepared(output, order) : order \in Orders(output)}
FirstOf(g, b) == 1 + FoldLeft(LAMBDA n, k : n + Len(g.code[k]), 0, [k \in 1 .. b - 1 |-> k])

\* Texts and the bytes they stand for: those of registers, and of memory where
\* its address is known.  (label - 1), for the byte at the label in H, is left
\* out: the text of the byte at the label is another one, and goes stale.
RECURSIVE Spot(_)
Spot(key) ==
    CASE key[1] = "num" -> key[2] [] key[1] = "s" -> key[2] + key[3]
      [] key[1] = "next" -> Spot(key[2]) + 1 [] OTHER -> -1
RECURSIVE Below(_)
Below(key) == IF key[1] = "next" THEN Below(key[2]) ELSE key[1] = "s" /\ key[3] < 0
ByteFacts(c, s) ==
    {<<c.regs[r], s[r]>> : r \in Regs8}
    \cup UNION {{<<HighOf(Halved(c.regs[rr])), Pair(s, rr) \div 256>>, <<LowOf(Halved(c.regs[rr])), Pair(s, rr) % 256>>} :
                   rr \in {"bc", "de", "hl", "ix", "iy"}}
    \cup {<<c.mem[key], Content(s.m, Spot(key))>> : key \in {key \in DOMAIN c.mem : Spot(key) \in DOMAIN s.m /\ ~Below(key)}}
Stands(text, v) ==
    CASE IsNum(text) -> text[2] = v
      [] text[1] = "half" /\ text[3][1] = "s" -> v = IF text[2] = "H" THEN Spot(text[3]) \div 256 ELSE Spot(text[3]) % 256
      [] OTHER -> TRUE
Agrees(c, s) ==
    \E all \in {ByteFacts(c, s)} : /\ \A p \in all : Stands(p[1], p[2])
                               /\ \A p, q \in all : p[1] = q[1] => p[2] = q[2]
Judged(c, on, cpu) == [on EXCEPT !.cpu = cpu, !.right = c.right /\ Agrees(cpu, on.s)]
Stepped(g, firsts, code, c, on) ==
    \* c.cpu is what is known before the line c.pc
    LET entered == {b \in DOMAIN g.code : firsts[b] = on.pc}
    IN  IF on.pc \in {0, -1} THEN on
        ELSE Judged(c, on, IF entered # {} THEN StartOf(level, g, CHOOSE b \in entered : TRUE) ELSE execute(c.cpu, code[c.pc]))
Watched(g, firsts, code, c) == Stepped(g, firsts, code, c, DidLine(code, c))
RECURSIVE Watching(_, _, _, _, _)
Watching(g, firsts, code, c, n) ==
    IF c.pc \in {0, -1} THEN c ELSE IF n = 1 THEN Watched(g, firsts, code, c)
    ELSE Watching(g, firsts, code, Watching(g, firsts, code, c, n \div 2), n \div 2)
KnownRight ==
    stage = "joined" /\ level > 2 => \A m \in Inputs : \A g \in Analyses :
        \E code \in {FlattenSeq(g.code)}, firsts \in {[b \in DOMAIN g.code |-> FirstOf(g, b)]} :
            Watching(g, firsts, code, [s |-> Started(m), pc |-> 1, cpu |-> StartOf(level, g, 1), right |-> TRUE], FuelOfLines).right

\* Registers the search finds no use of do not matter.
Spoilt(s, names) ==
    [r \in DOMAIN s |-> CASE r \in names -> (s[r] + 77) % 256
                           [] r \in {"cf", "zf"} /\ "f" \in names -> 1 - s[r]
                           [] OTHER -> s[r]]
Outcome(c) == <<c.pc, c.s.m, c.s.st, Pair(c.s, "bc"), c.s.ix, c.s.iy, c.s.set2[1]>>
UsedRight ==
    stage = "joined" /\ level > 2 => \A m \in Inputs : \A g \in Analyses :
        \E code \in {FlattenSeq(g.code)} : \A b \in DOMAIN g.code :
            \E c \in {Ran(code, FirstOf(g, b), AtStart(m))} :
            \E end \in {Ran(code, 0, c)},
               names \in {{r \in Regs8 \cup {"f"} : ~Used(g, b, {r}, 1, {})}} :
                (c.pc > 0 /\ end.pc = 0) => Outcome(Ran(code, 0, [c EXCEPT !.s = Spoilt(@, names)])) = Outcome(end)
=============================================================================
