---------------------------- MODULE BasicBlocks ----------------------------
(***************************************************************************)
(* The optimizer of the assembly at levels 3 and 4                         *)
(* (src/arch/z80/optimizer: main.py, flow_graph.py, basicblock.py).  The   *)
(* code is cut in basic blocks, a graph tells where each goes to, and the  *)
(* rules of these levels, which ask what is known of the processor and     *)
(* whether a register is needed later, are applied to one after another.   *)
(* Block 0 is before the program; the labels the code does not define are  *)
(* blocks of unknown code, after those of the code.  So are the routines   *)
(* of the runtime: the labels main.py:55-83 knows more about (__ADDF,      *)
(* PRINT_AT, ...) and its __END_PROGRAM (line 225) are written there with  *)
(* no namespace, those of the code are in .core, and none is ever the same.*)
(***************************************************************************)
EXTENDS CpuState

BranchArg(l) == IF Name(l) \in {"jp", "call"} THEN Op(l, Len(l) - 1) ELSE <<"">>
JumpLabels(code) == {BranchArg(code[k]) : k \in DOMAIN code} \ {<<"">>}
LabelsOf(code) == {Op(code[k], 1) : k \in {k \in DOMAIN code : IsLabel(code[k])}}
\* _get_jump_labels, get_first_partition_idx: where a block starts.
Starts(code) ==
    {k \in DOMAIN code : \/ k = 1
                         \/ IsLabel(code[k]) /\ Op(code[k], 1) \in JumpLabels(code)
                         \/ k > 1 /\ (IsEnder(code[k - 1]) \/ code[k - 1] = UserAsm)}
Pieces(code) ==
    LET starts == SelectSeq([k \in DOMAIN code |-> k], LAMBDA k : k \in Starts(code))
        Limit(b) == IF b = Len(starts) THEN Len(code) ELSE starts[b + 1] - 1
    IN  [b \in DOMAIN starts |-> SubSeq(code, starts[b], Limit(b))]

\* A graph: the code of the blocks, the edges (goes_to), the block of each
\* label, the blocks that use it, and the state each block leaves.
IsBlock(g, b) == b \in DOMAIN g.code
GoesTo(g, b) == {e[2] : e \in {e \in g.edges : e[1] = b}}
ComesFrom(g, b) == {e[1] : e \in {e \in g.edges : e[2] = b}}
BlockOf(pieces, label) == CHOOSE b \in DOMAIN pieces : label \in LabelsOf(pieces[b])
Unconditional(l) == IsEnder(l) /\ ~Conditional(l)
After(pieces, b) == IF b < Len(pieces) THEN {b + 1} ELSE {}

\* _compute_calls: where the code called from a block comes back to, and from
\* which blocks; a JP ends the search.
RECURSIVE Returns(_, _, _, _)
Returns(pieces, block, visited, pending) ==
    IF pending = {} THEN {}
    ELSE LET p == CHOOSE p \in pending : TRUE
             caller == p[1]  b == p[2]
             unknown == b \notin DOMAIN pieces
             last == IF unknown THEN <<"ret">> ELSE Last(pieces[b])
             more == IF unknown \/ (IsEnder(last) /\ (Name(last) = "jp" \/ ~Conditional(last))) THEN {}
                     ELSE {<<caller, n>> : n \in After(pieces, b)}
         IN  (IF Name(last) = "ret" THEN {<<b, n>> : n \in After(pieces, caller)} ELSE {})
             \cup Returns(pieces, block, visited \cup {p}, ((pending \cup more) \ visited) \ {p})

get_basic_blocks(code) ==
    LET pieces == Pieces(code)
        labels == JumpLabels(code)
        unknown == SetToSeq(labels \ LabelsOf(code))
        block == [l \in labels |-> IF l \in LabelsOf(code) THEN BlockOf(pieces, l)
                                   ELSE Len(pieces) + (CHOOSE k \in DOMAIN unknown : unknown[k] = l)]
        users == [l \in labels |-> {b \in DOMAIN pieces : BranchArg(Last(pieces[b])) = l}]
        falls == {<<b, b + 1>> : b \in {b \in 1 .. Len(pieces) - 1 : ~Unconditional(Last(pieces[b]))}}
        jumps == UNION {{<<b, block[l]>> : b \in users[l]} : l \in labels}
        calls == {<<b, block[BranchArg(Last(pieces[b]))]>> : b \in {b \in DOMAIN pieces : Name(Last(pieces[b])) = "call"}}
    IN  [code |-> pieces, edges |-> falls \cup jumps \cup Returns(pieces, block, {}, calls) \cup {<<0, 1>>},
         block |-> block, users |-> users,
         cpu |-> [b \in 0 .. Len(pieces) + Len(unknown) |-> reset(<<b, "compute">>, <<>>, <<>>)]]
-----------------------------------------------------------------------------
\* Jumps to a jump: the users of the label jump on.  get_next_exec_instruction
\* also looks past a block of labels alone.
RECURSIVE FirstLine(_, _)
FirstLine(g, b) ==
    LET lines == IF IsBlock(g, b) THEN SelectSeq(g.code[b], LAMBDA l : ~IsLabel(l)) ELSE << <<"ret">> >>
    IN  IF lines # <<>> THEN lines[1]
        ELSE IF Cardinality(GoesTo(g, b)) # 1 THEN <<"">>
        ELSE FirstLine(g, CHOOSE n \in GoesTo(g, b) : TRUE)
\* first is the line as it was: the operands of a line are kept when its text changes.
Redirected(g, label, first, b) ==
    LET to == BranchArg(first)
    IN  IF Conditional(first) /\ Condition(Last(g.code[b])) # Condition(first) THEN g
        ELSE [g EXCEPT !.code[b] = [@ EXCEPT ![Len(@)] = With(@, to)],
                       !.edges = (@ \ {<<b, g.block[label]>>}) \cup {<<b, g.block[to]>>},
                       !.users = [@ EXCEPT ![label] = @ \ {b}, ![to] = IF to = label THEN @ ELSE @ \cup {b}]]
JumpsOn(g) == {l \in DOMAIN g.block : IsBlock(g, g.block[l]) /\ Jumps(FirstLine(g, g.block[l]))}
Straightened(g, order) ==
    FoldLeft(LAMBDA h, l : LET first == FirstLine(g, g.block[l])
                           IN  FoldLeft(LAMBDA k, b : Redirected(k, l, first, b), h, SetToSeq(h.users[l])),
             g, order)
-----------------------------------------------------------------------------
\* is_used: whether one of the registers is needed from the line i of a block
\* on.  A block the search is in already is taken to need it.
RECURSIVE Used(_, _, _, _, _)
Used(g, b, regs, i, locked) ==
    CASE b \notin DOMAIN g.code -> regs \cap ALL_REGS # {}
      [] b \in locked -> TRUE
      [] b \in DOMAIN g.code \ locked ->
           IF i > Len(g.code[b])
           THEN \E n \in GoesTo(g, b) : Used(g, n, regs, 1, locked \cup {b})
           ELSE LET l == g.code[b][i]  left == regs \ Destroys(l)
                IN  Needs(l, regs) \/ (left # {} /\ Used(g, b, left, i + 1, locked))

\* Of memory: not needed if the same text is written before anything that may be read from it.
Ids(o) ==
    CASE o[1] \in {"s", "ms"} -> {<<"id", o[2]>>} \cup (IF o[3] = 0 THEN {} ELSE {<<"number", IF o[3] < 0 THEN -o[3] ELSE o[3]>>})
      [] o[1] \in {"n", "mn"} -> {<<"number", IF o[2] < 0 THEN -o[2] ELSE o[2]>>}
      [] OTHER -> {}
Reads(l, os, o) ==
    \/ Name(l) \in Bitwise3 /\ os[1] = o
    \/ Last(os) = o
    \/ o[1] = "i" /\ Destroys(l) \cap Single(R(o[2])) # {}
    \/ o[1] # "i" /\ Ids(o) \cap Ids(Last(os)) # {}
Overwritten(code, o, i) ==
    \E k \in i .. Len(code) : /\ Name(code[k]) = "ld" /\ Op(code[k], 1) = o
                              /\ \A j \in i .. k - 1 : ~Reads(code[j], Opers(code[j]), o)
is_used(g, b, o, i) ==
    IF IsMemory(o) THEN ~Overwritten(g.code[b], o, i) ELSE Used(g, b, Single(o), i, {})
-----------------------------------------------------------------------------
\* The rules.  Need: whether o is required n lines on from where a rule is tried.
Need(at, o, n) == is_used(at.g, at.b, o, at.i + n)
GVAL(c, o) == get(Touched(c, o), o)
SameLow(v, w) == ~IsText(v) /\ ~IsText(w) /\ LowOf(v) = LowOf(w)
IsReg8x(o) == IsReg8(o) \/ (IsReg(o) /\ o[2] \in {"ixh", "ixl", "iyh", "iyl"})
F == R("f")
IsLoad(l) == Name(l) = "ld"

ld_r_n_not_required(w, at) == Rule(Loads(w[1], A) /\ ~Need(at, A, 1), 1, <<>>)
ldhl_ld_a_l(w, at) ==
    Rule(Loads(w[1], HL) /\ IsMemory(Op(w[1], 2)) /\ IsLd(w[2], A, R("l")) /\ ~Need(at, HL, 2), 2, << <<"ld", A, Op(w[1], 2)>> >>)
ld_a_N_ld_hl_a(w, at) ==
    Rule(/\ Loads(w[1], A) /\ ~IsMemory(Op(w[1], 2)) /\ Loads(w[2], HL) /\ IsMemory(Op(w[2], 2))
         /\ IsLd(w[3], Indirect("hl"), A) /\ ~Need(at, A, 3), 3, <<w[2], <<"ld", Indirect("hl"), Op(w[1], 2)>>>>)
ld_rr_N_ld_ss_N(w, c) ==
    LET x == GVAL(c, Op(w[1], 1))  y == GVAL(c, Op(w[1], 2))
    IN  Rule(IsLoad(w[1]) /\ (x = y \/ ((IsReg8x(Op(w[1], 1)) \/ IsReg8x(Op(w[1], 2))) /\ SameLow(x, y))), 1, <<>>)
CopyOf(w, ss) == LET rr == Op(w[1], 1)[2]
                     hi == <<"ld", R(HiReg(ss)), R(HiReg(rr))>>  lo == <<"ld", R(LoReg(ss)), R(LoReg(rr))>>
                 IN  SubSeq(w, 2, 3) \in {<<hi, lo>>, <<lo, hi>>}
ld_rr_N_ld_h_r_ld_l_r(w, at) ==
    LET copies == {ss \in {"bc", "de", "hl"} : CopyOf(w, ss)}
    IN  IF IsLoad(w[1]) /\ IsReg16(Op(w[1], 1)) /\ copies # {} /\ ~Need(at, Op(w[1], 1), 3)
        THEN <<3, << <<"ld", R(CHOOSE ss \in copies : TRUE), Op(w[1], 2)>> >>>> ELSE No
ld_r_n_ld_r_n2(w) == Rule(IsLoad(w[1]) /\ IsLoad(w[2]) /\ Op(w[1], 1) = Op(w[2], 1), 2, <<w[2]>>)
or_and_a(w, at) ==
    Rule(Name(w[1]) \in {"and", "or"} /\ (Op(w[1], 1) = A \/ ~Need(at, A, 1)) /\ ~Need(at, F, 1), 1, <<>>)
xor_a(w, c, at) ==
    Rule(w[1] = <<"xor", A>> /\ GVAL(c, A) = Num(0) /\ ((c.C = <<0>> /\ c.Z = <<1>>) \/ ~Need(at, F, 1)), 1, <<>>)
opt27(w, at) ==
    Rule(/\ IsLoad(w[1]) /\ Op(w[1], 1) # A
         /\ \/ Name(w[2]) \in {"cp", "or", "and", "xor", "sub"} /\ Op(w[2], 1) = Op(w[1], 1)
            \/ Name(w[2]) \in {"add", "adc", "sbc"} /\ Op(w[2], 1) = A /\ Op(w[2], 2) = Op(w[1], 1)
         /\ ~Need(at, Op(w[1], 1), 2) /\ ~Need(at, F, 2), 2, <<With(w[2], Op(w[1], 2))>>)
exdehl(w, c, at) ==
    Rule(Loads(w[1], DE) /\ GVAL(c, HL) = GVAL(c, Op(w[1], 2)) /\ ~Need(at, HL, 1), 1, << <<"ex", DE, HL>> >>)
exdehl_ldde(w, at) ==
    Rule(Loads(w[1], HL) /\ w[2] = <<"ex", DE, HL>> /\ ~Need(at, HL, 2), 2, << <<"ld", DE, Op(w[1], 2)>> >>)
inc_dec(w, c) ==
    LET step == {p \in {<<"inc", 1>>, <<"dec", -1>>} :
                    Value(GVAL(c, Op(w[1], 1))) = <<Op(w[1], 2)[2] - p[2]>>}
    IN  IF IsLoad(w[1]) /\ IsReg16(Op(w[1], 1)) /\ IsNumber(Op(w[1], 2)) /\ step # {}
        THEN <<1, << <<(CHOOSE p \in step : TRUE)[1], Op(w[1], 1)>> >>>> ELSE No
\* Level 4.  A first operand with an offset is not matched: there is a space in it.
ld_mem_op_ld_mem(w, at) ==
    LET to == Op(w[1], 1)
    IN  Rule(/\ Len(w[1]) = 3 /\ to \notin {R("sp"), R("ix")} /\ ~(to[1] = "ms" /\ to[3] # 0)
             /\ \/ IsLoad(w[1])
                \/ Name(w[1]) \in {"add", "adc", "sbc"} /\ ~Need(at, F, 1)
             /\ ~Need(at, to, 1), 1, <<>>)
op_not_required(w, at) ==
    Rule(/\ \/ Name(w[1]) \in {"inc", "dec"} /\ ~Need(at, Op(w[1], 1), 1)
            \/ Name(w[1]) = "sub" /\ ~Need(at, A, 1)
         /\ Op(w[1], 1) # R("sp") /\ ~Need(at, F, 1), 1, <<>>)

RulesFrom3(level, c, w, at) ==
    << push_pop(w), push_af_pop_XX(w), ld_r_n_not_required(w, at), Raised(w, FALSE), ldhl_ld_a_l(w, at),
       ld_a_N_ld_hl_a(w, at), ld_rr_N_ld_ss_N(w, c), ld_rr_N_ld_h_r_ld_l_r(w, at), ld_r_n_ld_r_n2(w),
       or_and_a(w, at), xor_a(w, c, at), opt27(w, at), exdehl(w, c, at), exdehl_ldde(w, at), inc_dec(w, c),
       IF level = 4 THEN ld_mem_op_ld_mem(w, at) ELSE No, IF level = 4 THEN op_not_required(w, at) ELSE No >>
-----------------------------------------------------------------------------
\* compute_cpu_state, and the common part of what the blocks before one know.
compute_cpu_state(g, b) == FoldLeft(execute, g.cpu[b], g.code[b])
Common(f, h) == [k \in {k \in DOMAIN f \cap DOMAIN h : f[k] = h[k]} |-> f[k]]
guesses_initial_state(g, b) ==
    LET from == SetToSeq(ComesFrom(g, b))
        Of(k) == <<g.cpu[k].regs, g.cpu[k].mem>>
    IN  IF from = <<>> THEN <<<<>>, <<>>>>
        ELSE FoldLeft(LAMBDA s, k : <<Common(s[1], Of(k)[1]), Common(s[2], Of(k)[2])>>, Of(from[1]), Tail(from))

\* optimize: a block is gone through from its start after each change.
Changing(code, i, r) == IF r # No /\ Spliced(code, i, r) = code THEN No ELSE r
Applied(level, g, b, c, i) ==
    LET at == [g |-> g, b |-> b, i |-> i]
        found == RulesFrom3(level, c, Window(g.code[b], i), at)
    IN  FirstMatch([k \in 1 .. 17 |-> Changing(g.code[b], i, found[k])])
RECURSIVE Optimized(_, _, _, _, _, _), Continued(_, _, _, _, _, _, _)
Optimized(level, g, b, start, c, i) ==
    IF i > Len(g.code[b]) THEN [g EXCEPT !.cpu[b] = c]
    ELSE Continued(level, g, b, start, c, i, Applied(level, g, b, c, i))
Continued(level, g, b, start, c, i, r) ==
    IF r = No THEN Optimized(level, g, b, start, execute(c, g.code[b][i]), i + 1)
    ELSE Optimized(level, [g EXCEPT !.code[b] = Spliced(@, i, r)], b, start, start, 1)
StartOf(level, g, b) ==
    LET known == IF level > 3 THEN guesses_initial_state(g, b) ELSE <<<<>>, <<>>>>
    IN  reset(<<b, "optimize">>, known[1], known[2])
optimize_block(level, g, b) ==
    LET start == StartOf(level, g, b)
    IN  Optimized(level, g, b, start, start, 1)

\* optimize of main.py, for an order in which the labels are looked at: the
\* blocks with what their code computes, and then one after another.
Computed(g) ==
    [g EXCEPT !.cpu = [b \in DOMAIN @ |-> IF b \in DOMAIN g.code THEN compute_cpu_state(g, b) ELSE @[b]]]
Prepared(code, order) == Computed(Straightened(get_basic_blocks(code), order))
Blocks(level, g) == FoldLeft(LAMBDA h, b : optimize_block(level, h, b), g, [b \in DOMAIN g.code |-> b])
Orders(code) == SetToSeqs(JumpsOn(get_basic_blocks(code)))
optimize(level, code, order) == IF level <= 2 THEN code ELSE FlattenSeq(Blocks(level, Prepared(code, order)).code)
=============================================================================
