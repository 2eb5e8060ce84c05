----------------------------- MODULE Statements -----------------------------
(***************************************************************************)
(* The translation of statements (src/arch/z80/visitor/translator.py): a   *)
(* tree is visited and quads are emitted, with labels for where loops and  *)
(* conditions go to.  What a quad becomes, the code of the backend, is     *)
(* appended at once, as a chunk of its own.  The state s of the visitor:   *)
(* the chunks, how many temporary labels there are (labels), the loops     *)
(* that are open (LOOPS), whether the ending sequence is in the program    *)
(* already (ended), the level and the variables that are read (used).      *)
(***************************************************************************)
EXTENDS BasicBlocks, TreeOptimizer

Quad(s, code) == [s EXCEPT !.chunks = Append(@, Lines(code))]
tmp_label(s, k) == "L" \o ToString(s.labels + k)
WithLabels(s, n) == [s EXCEPT !.labels = @ + n]
ic_label(s, label) == Quad(s, << <<"label", label>> >>)
ic_jump(s, label) == Quad(s, << <<"jp", "always", label>> >>)
ic_jzero(s, t, o, label) == Quad(s, IF t = "u16" THEN jzero16(o, label) ELSE jzero8(o, label))
ic_jnzero(s, t, o, label) == Quad(s, IF t = "u16" THEN jnzero16(o, label) ELSE jnzero8(o, label))
ic_store(s, t, to, o) == Quad(s, IF t = "u16" THEN store16(to, o) ELSE store8(to, o))
Code8Of(operator, o1, o2) ==
    CASE operator = "PLUS" -> add8(o1, o2) [] operator = "MINUS" -> sub8(o1, o2) [] operator = "MUL" -> mul8(o1, o2)
      [] operator = "LT" -> ltu8(o1, o2) [] operator = "GT" -> gtu8(o1, o2) [] operator = "EQ" -> eq8(o1, o2)
Code16Of(operator, o1, o2) ==
    CASE operator = "PLUS" -> add16(o1, o2) [] operator = "MINUS" -> sub16(o1, o2) [] operator = "MUL" -> mul16(o1, o2)
      [] operator = "LT" -> ltu16(o1, o2) [] operator = "GT" -> gtu16(o1, o2) [] operator = "EQ" -> eq16(o1, o2)
ic_binary(s, operator, t, o1, o2) ==
    Quad(s, IF t = "u16" THEN Code16Of(operator, o1, o2) ELSE Code8Of(operator, o1, o2))

\* What the code of a value leaves, and where its value is.
Temp == <<"temp">>
Dereferenced(o) == <<"*" \o o[1], o[2]>>
TDereferenced(o) == IF o = Temp THEN <<"*temp">> ELSE Dereferenced(o)
RECURSIVE Valued(_, _)
Valued(s, e) ==
    CASE Token(e) = "NUMBER" -> [s |-> s, t |-> <<"int", e[2]>>]
      [] Token(e) = "VAR" -> [s |-> s, t |-> <<"id", e[2]>>]
      [] Token(e) = "BINARY" ->
           LET left == Valued(s, e[4])  right == Valued(left.s, e[5])
           IN  [s |-> ic_binary(right.s, e[2], TypeOf(e[4]), left.t, right.t), t |-> Temp]
      [] Token(e) = "TYPECAST" ->
           LET from == Valued(s, e[3]) IN [s |-> Quad(from.s, cast(TypeOf(e[3]), e[2], from.t)), t |-> Temp]
      [] Token(e) = "PEEK" ->
           LET at == Valued(s, e[2]) IN [s |-> Quad(at.s, load8(TDereferenced(at.t))), t |-> Temp]
-----------------------------------------------------------------------------
\* The statements without others in them.
IsUsed(s, var) == s.level < 2 \/ var[2] \in s.used
emit_var_assign(s, var, o) == IF IsUsed(s, var) THEN ic_store(s, var[3], <<"id", var[2]>>, o) ELSE s
visit_LET(s, node) ==
    IF ~IsUsed(s, node[2]) THEN s
    ELSE LET value == Valued(s, node[3]) IN emit_var_assign(value.s, node[2], value.t)
\* A variable is the address, a value on the stack too.
visit_POKE(s, node) ==
    LET at == Valued(s, node[2])  value == Valued(at.s, node[3])
        to == CASE at.t[1] = "id" -> Dereferenced(at.t)
                [] at.t[1] = "int" -> <<"id", at.t[2]>>
                [] at.t = Temp -> Temp
    IN  ic_store(value.s, TypeOf(node[3]), to, value.t)

\* END: the ending sequence, or a jump to the one there is.
CALL_BACK == 16408
END_LABEL == "END_PROGRAM"
Ending ==
    << <<"label", <<"L", END_LABEL>>>>, <<"di">>, <<"ld", HL, At(CALL_BACK)>>, <<"ld", R("sp"), HL>>, <<"exx">>,
       <<"pop", HL>>, <<"exx">>, <<"pop", R("iy")>>, <<"pop", R("ix")>>, <<"ei">>, <<"ret">> >>
visit_END(s, node) ==
    LET value == Valued(s, node[2])
        code == Lines(InHL(value.t) \o << <<"ld", "b", "h">>, <<"ld", "c", "l">> >>)
                \o (IF s.ended THEN << <<"jp", <<"L", END_LABEL>>>> >> ELSE Ending)
    IN  [value.s EXCEPT !.chunks = Append(@, code), !.ended = TRUE]
\* What is run before the program.
emit_prologue ==
    << <<"di">>, <<"push", R("ix")>>, <<"push", R("iy")>>, <<"exx">>, <<"push", HL>>, <<"exx">>,
       <<"ld", At(CALL_BACK), R("sp")>>, <<"ei">> >>

\* fault: the outermost one.
LoopOfOutermost(s, kind) ==
    s.LOOPS[CHOOSE k \in DOMAIN s.LOOPS : s.LOOPS[k].kind = kind /\ \A j \in 1 .. k - 1 : s.LOOPS[j].kind # kind]
\* The innermost loop of a kind: where EXIT and CONTINUE go to.
LoopOf(s, kind) ==
    s.LOOPS[CHOOSE k \in DOMAIN s.LOOPS : /\ s.LOOPS[k].kind = kind
                                          /\ \A j \in k + 1 .. Len(s.LOOPS) : s.LOOPS[j].kind # kind]
loop_exit_label(s, kind) == LoopOf(s, kind).exit
loop_cont_label(s, kind) == LoopOf(s, kind).continue
Open(s, kind, exit, continue) == [s EXCEPT !.LOOPS = Append(@, [kind |-> kind, exit |-> exit, continue |-> continue])]
Close(s) == [s EXCEPT !.LOOPS = SubSeq(@, 1, Len(@) - 1)]
-----------------------------------------------------------------------------
RECURSIVE Translated(_, _)      \* a statement, below

visit_DO_LOOP(s, node) ==
    LET loop == tmp_label(s, 0)  end == tmp_label(s, 1)
        body == Translated(ic_label(Open(WithLabels(s, 2), "DO", end, loop), loop), node[2])
    IN  Close(ic_label(ic_jump(body, loop), end))
\* DO UNTIL and DO WHILE, with the condition first or last.
Repeated(s, node) ==
    LET loop == tmp_label(s, 0)  end == tmp_label(s, 1)  continue == tmp_label(s, 2)
        first == IF Token(node) \in {"UNTIL_DO", "WHILE_DO"} THEN ic_jump(WithLabels(s, 3), continue) ELSE WithLabels(s, 3)
        body == Translated(Open(ic_label(first, loop), "DO", end, continue), node[3])
        e == Valued(ic_label(body, continue), node[2])
        back == IF Token(node) \in {"DO_UNTIL", "UNTIL_DO"} THEN ic_jzero(e.s, TypeOf(node[2]), e.t, loop)
                ELSE ic_jnzero(e.s, TypeOf(node[2]), e.t, loop)
    IN  Close(ic_label(back, end))
visit_While(s, node) ==
    LET loop == tmp_label(s, 0)  end == tmp_label(s, 1)
        e == Valued(ic_label(Open(WithLabels(s, 2), "WHILE", end, loop), loop), node[2])
        body == Translated(ic_jzero(e.s, TypeOf(node[2]), e.t, end), node[3])
    IN  Close(ic_label(ic_jump(body, loop), end))
\* The limit and the step are evaluated anew each time; the sign of a step
\* that is a number is known.
visit_For(s, node) ==
    LET start == tmp_label(s, 0)  gt == tmp_label(s, 1)  end == tmp_label(s, 2)
        body == tmp_label(s, 3)  continue == tmp_label(s, 4)
        var == node[2]  t == var[3]  step == node[5]
        from == Valued(Open(WithLabels(s, 5), "FOR", end, continue), node[3])
        before == ic_label(ic_jump(emit_var_assign(from.s, var, from.t), start), body)
        by == Valued(ic_label(Translated(before, node[6]), continue), step)
        added == ic_binary(by.s, "PLUS", t, <<"id", var[2]>>, by.t)
        limit == Valued(ic_label(emit_var_assign(added, var, Temp), start), node[4])
        Compared(operator) == ic_jzero(ic_binary(limit.s, operator, t, <<"id", var[2]>>, limit.t), "u8", Temp, body)
    IN  Close(ic_label(Compared(IF is_number(step) /\ step[2] < 0 THEN "LT" ELSE "GT"), end))
visit_If(s, node) ==
    LET e == Valued(s, node[2])
        else == tmp_label(s, 0)  endif == tmp_label(s, 1)
        then == Translated(ic_jzero(WithLabels(e.s, 2), TypeOf(node[2]), e.t, IF Len(node) = 4 THEN else ELSE endif), node[3])
    IN  ic_label(IF Len(node) = 3 THEN then ELSE Translated(ic_label(ic_jump(then, endif), else), node[4]), endif)

Translated(s, node) ==
    LET token == Token(node)
    IN  CASE token = "BLOCK" -> FoldLeft(LAMBDA r, child : Translated(r, child), s, node[2])
          [] token = "NOP" -> s
          [] token = "LET" -> visit_LET(s, node)
          [] token = "POKE" -> visit_POKE(s, node)
          [] token = "END" -> visit_END(s, node)
          [] token = "LABEL" -> ic_label(s, node[2])
          [] token = "GOTO" -> ic_jump(s, node[2])
          [] token = "GOSUB" -> Quad(s, << Call(node[2]) >>)
          [] token = "RETURN" -> Quad(s, << <<"ret">> >>)
          [] token = "EXIT" -> ic_jump(s, loop_exit_label(s, node[2]))
          [] token = "CONTINUE" -> ic_jump(s, loop_cont_label(s, node[2]))
          [] token = "IF" -> visit_If(s, node)
          [] token = "FOR" -> visit_For(s, node)
          [] token = "WHILE" -> visit_While(s, node)
          [] token = "DO_LOOP" -> visit_DO_LOOP(s, node)
          [] token \in Conditions -> Repeated(s, node)
\* main: the whole of a program, and the mark of the end of it.
Translation(level, used, ast) ==
    Translated([chunks |-> <<>>, labels |-> 0, LOOPS |-> <<>>, ended |-> FALSE, level |-> level, used |-> used], ast)
Chunks(level, used, ast) == Append(Translation(level, used, ast).chunks, << UserAsm >>)
=============================================================================
