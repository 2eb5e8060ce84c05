------------------------------ MODULE Peephole ------------------------------
(***************************************************************************)
(* The rewriting of the emitted code by patterns of lines: one operator a  *)
(* rule (src/arch/z80/peephole/opts), and the engine that applies them     *)
(* while the backend joins the code of one instruction after another       *)
(* (engine.py, and _output_join and remove_unused_labels of                *)
(* backend/main.py).  A rule gives, for the lines from a place, how many   *)
(* of them it replaces and by what; 0 when it does not match.              *)
(***************************************************************************)
EXTENDS Assembly, SequencesExt

MAXLEN == 4
No == <<0, <<>>>>
Rule(matches, n, lines) == IF matches THEN <<n, lines>> ELSE No
\* The lines from i, as many as a rule looks at; <<"">> after the last.
Window(code, i) == [k \in 1 .. MAXLEN |-> IF i + k - 1 \in DOMAIN code THEN code[i + k - 1] ELSE <<"">>]
Is1(l, op) == Name(l) = op /\ Len(l) = 2
IsLd(l, x, y) == l = <<"ld", x, y>>
Loads(l, x) == Name(l) = "ld" /\ Op(l, 1) = x
Jumps(l) == Name(l) = "jp"
JumpsIf(l, conds) == Jumps(l) /\ Conditional(l) /\ Op(l, 1)[2] \in conds
JumpsAlways(l) == Jumps(l) /\ ~Conditional(l)
Label(l) == Op(l, Len(l) - 1)
JumpIf(c, to) == <<"jp", <<"c", c>>, to>>
IsPop(l, rr) == l = <<"pop", R(rr)>>
IsPush(l, rr) == l = <<"push", R(rr)>>
SbcA == <<"sbc", A, A>>
OrA == <<"or", A>>
Reached(o) == o = Indirect("hl")    \* or an index register and an offset, which only frames have
\* On H, whatever else the operation is written with.
OnH(l, ops) == Name(l) \in ops /\ Op(l, Len(l) - 1) = R("h") /\ (Len(l) = 3 => Op(l, 1) = A)
With(l, o) == [l EXCEPT ![Len(l)] = o]
Bitwise3 == {"or", "and", "xor"}
Opposite == [c |-> "nc", nc |-> "c", z |-> "nz", nz |-> "z"]
Flags01 == {<<"xor", A>>, <<"ld", A, <<"n", 0>>>>} \cup
           {<<"call", <<"L", r>>>> : r \in {"LEI16", "LEI8", "LTI8", "LTI16", "LEI32", "LTI32"}}
FlagsAll == {SbcA} \cup {<<"call", <<"L", r>>>> : r \in {"NOT32", "XOR8", "XOR16", "XOR32"}}

push_pop(w) == Rule(Is1(w[1], "push") /\ w[2] = <<"pop", Op(w[1], 1)>>, 2, <<>>)
ld_XXYY_ldYYXX(w) == Rule(Name(w[1]) = "ld" /\ w[2] = <<"ld", Op(w[1], 2), Op(w[1], 1)>>, 2, <<w[1]>>)
push_hlde_to_ex(w) ==
    Rule(\E p \in {<<"hl", "de">>, <<"de", "hl">>} :
            IsPush(w[1], p[1]) /\ IsPush(w[2], p[2]) /\ IsPop(w[3], p[1]) /\ IsPop(w[4], p[2]),
         4, << <<"ex", DE, HL>> >>)
useless_jp(w) == Rule(Jumps(w[1]) /\ w[2] = <<"label", Label(w[1])>>, 2, <<w[2]>>)
push_pop_ldld(w) ==
    Rule(IsLd(w[1], R("d"), R("h")) /\ IsLd(w[2], R("e"), R("l")) /\ Name(w[3]) \in {"pop", "ld"} /\ Op(w[3], 1) = HL,
         3, << <<"ex", DE, HL>>, w[3]>>)
push_af_ld_aX(w) ==
    Rule(Loads(w[1], A) /\ Reached(Op(w[1], 2)) /\ Name(w[2]) \in {"cp", "inc", "dec"} /\ Op(w[2], 1) = A
         /\ IsLd(w[3], Op(w[1], 2), A), 3, << <<Name(w[2]), Op(w[1], 2)>> >>)
push_af_pop_XX(w) ==
    Rule(Is1(w[1], "push") /\ Is1(w[2], "pop") /\ Op(w[1], 1) # Op(w[2], 1) /\ R("af") \in {Op(w[1], 1), Op(w[2], 1)},
         2, << <<"ld", R(HiReg(Op(w[2], 1)[2])), R(HiReg(Op(w[1], 1)[2]))>> >>)
ex_de_hl(w) == Rule(Name(w[1]) \in {"ex", "exx"} /\ w[2] = w[1], 2, <<>>)
sbc_jp(w) ==
    Rule(w[1] = SbcA /\ w[2] = OrA /\ Jumps(w[3]) /\ Conditional(w[3]),
         3, <<JumpIf(IF Op(w[3], 1)[2] = "z" THEN "nc" ELSE "c", Label(w[3]))>>)
inc_mem(w) ==
    Rule(Loads(w[1], A) /\ Op(w[1], 2)[1] \in {"mn", "ms"} /\ w[2] \in {<<"inc", A>>, <<"dec", A>>}
         /\ IsLd(w[3], Op(w[1], 2), A),
         3, << <<"ld", HL, IF Op(w[1], 2)[1] = "mn" THEN <<"n", Op(w[1], 2)[2]>>
                           ELSE <<"s", Op(w[1], 2)[2], Op(w[1], 2)[3]>>>>, <<Name(w[2]), Indirect("hl")>> >>)
ld_de_hl_ex_de_hl(w) ==
    Rule(Is1(w[1], "push") /\ Is1(w[2], "pop") /\ Op(w[1], 1) # Op(w[2], 1)
         /\ {Op(w[1], 1)[2], Op(w[2], 1)[2]} \subseteq {"hl", "de", "bc"},
         2, << <<"ld", R(HiReg(Op(w[2], 1)[2])), R(HiReg(Op(w[1], 1)[2]))>>,
               <<"ld", R(LoReg(Op(w[2], 1)[2])), R(LoReg(Op(w[1], 1)[2]))>> >>)
ld_h_a_pop_af_or_h(w) ==
    Rule(IsLd(w[1], R("h"), A) /\ IsPop(w[2], "af") /\ OnH(w[3], Bitwise3),
         3, << <<"pop", DE>>, <<Name(w[3]), R("d")>> >>)
ld_hl_push_pop_de(w) ==
    Rule(Loads(w[1], HL) /\ IsPush(w[2], "hl") /\ Loads(w[3], HL) /\ IsPop(w[4], "de"),
         4, << <<"ld", DE, Op(w[1], 2)>>, w[3]>>)
neg_neg(w) == Rule(w[1] = <<"neg">> /\ w[2] = <<"neg">>, 2, <<>>)
or_sbc_a_a(w) == Rule(Name(w[1]) \in Bitwise3 /\ Op(w[1], 1) = A /\ w[2] = SbcA, 2, << <<"xor", A>> >>)
xor_a_jp_z(w) == Rule(w[1] = <<"xor", A>> /\ JumpsIf(w[2], {"z"}), 2, << <<"jp", Label(w[2])>> >>)
jp_cond_jp_label(w) ==
    Rule(JumpsIf(w[1], DOMAIN Opposite) /\ JumpsAlways(w[2]) /\ w[3] = <<"label", Label(w[1])>>,
         3, <<JumpIf(Opposite[Op(w[1], 1)[2]], Label(w[2])), w[3]>>)
sub1_jpnc_ora_jpz(w) ==
    Rule(w[1] = <<"sub", <<"n", 1>>>> /\ JumpsIf(w[2], {"c", "nc"}),
         2, <<OrA, JumpIf(IF Op(w[2], 1)[2] = "nc" THEN "nz" ELSE "z", Label(w[2]))>>)
Normalized(w) == w[2] = <<"sub", <<"n", 1>>>> /\ w[3] = SbcA /\ w[4] = <<"inc", A>>
bool_norm_empty(w) == Rule(Normalized(w) /\ w[1] \in Flags01, 4, <<w[1]>>)
bool_norm_neg(w) == Rule(Normalized(w) /\ w[1] \in FlagsAll, 4, <<w[1], <<"neg">>>>)
insr_a_or_a(w) ==
    Rule(w[2] \in {OrA, <<"and", A>>}
         /\ (Name(w[1]) \in {"or", "sub", "and", "xor", "cp"} \/ w[1] \in {<<"dec", A>>, <<"inc", A>>}), 2, <<w[1]>>)
bool_norm_double_neg(w) ==
    Rule(w[1] = SbcA /\ w[2] = <<"sub", <<"n", 1>>>> /\ w[3] = SbcA /\ w[4] = <<"neg">>, 4, <<SbcA, <<"inc", A>>>>)
ld_h_oper_A(w) ==
    Rule(Loads(w[1], R("h")) /\ Op(w[1], 2) # A /\ Loads(w[2], A)
         /\ OnH(w[3], Bitwise3 \cup {"cp", "sub", "add", "sbc"}), 3, <<w[2], With(w[3], Op(w[1], 2))>>)
ld_h_a_oper_A(w) ==
    Rule(Loads(w[1], R("h")) /\ OnH(w[2], Bitwise3 \cup {"cp", "sub", "add", "sbc"}), 2, <<With(w[2], Op(w[1], 2))>>)
\* Level 2 also looks at the second operand of the line.
Raised(w, second) ==
    Rule(Is1(w[2], "pop") /\ ~IsLabel(w[1]) /\ Name(w[1]) \notin {"", "jp", "ret", "call"}
         /\ ~Needs(w[1], {"sp"} \cup Single(Op(w[2], 1)))
         /\ Op(w[1], 1) # R("sp") /\ (second => Op(w[1], 2) # R("sp")), 2, <<w[2], w[1]>>)
pop_up(w) == Raised(w, TRUE)
cp_0_or_a(w) == Rule(w[1] \in {<<"cp", <<"n", 0>>>>, <<"sub", <<"n", 0>>>>}, 1, <<OrA>>)
ora_jp_nc_jp(w) ==
    Rule(Name(w[1]) \in {"or", "xor", "and", "cp", "sub"} /\ Op(w[1], 1) = A /\ JumpsIf(w[2], {"nc"}),
         2, << <<"jp", Label(w[2])>> >>)
jpX_Y_jpX(w) == Rule(JumpsAlways(w[1]) /\ w[2] \notin {<<"">>, UserAsm} /\ ~IsLabel(w[2]), 2, <<w[1]>>)
Movable(o) == o = Indirect("hl") \/ IsReg8(o)
ld_a_ld_h_ld_a(w) ==
    Rule(Loads(w[1], A) /\ Movable(Op(w[1], 2)) /\ IsLd(w[2], R("h"), A) /\ Loads(w[3], A),
         3, << <<"ld", R("h"), Op(w[1], 2)>>, w[3]>>)
ld_a_ld_h_a_pop(w) ==
    Rule(Loads(w[1], A) /\ Movable(Op(w[1], 2)) /\ IsLd(w[2], R("h"), A) /\ IsPop(w[3], "af"),
         3, <<w[3], <<"ld", R("h"), Op(w[1], 2)>>>>)
Lowered(o) == IF o[1] = "mn" THEN <<"mn", o[2] - 1>> ELSE <<"ms", o[2], o[3] - 1>>
ldh_nnn(w) ==
    Rule(Loads(w[1], A) /\ Op(w[1], 2)[1] \in {"mn", "ms"} /\ IsLd(w[2], R("h"), A) /\ IsPop(w[3], "af"),
         3, <<w[3], <<"ld", HL, Lowered(Op(w[1], 2))>>>>)
-----------------------------------------------------------------------------
\* The rules of a level, by their flags; the first that matches is applied.
Rewrites(level, w) ==
    << push_pop(w), ld_XXYY_ldYYXX(w), push_hlde_to_ex(w), useless_jp(w), push_pop_ldld(w), push_af_ld_aX(w),
       push_af_pop_XX(w), ex_de_hl(w), sbc_jp(w), inc_mem(w), ld_de_hl_ex_de_hl(w), ld_h_a_pop_af_or_h(w),
       ld_hl_push_pop_de(w), neg_neg(w), or_sbc_a_a(w), xor_a_jp_z(w), jp_cond_jp_label(w), sub1_jpnc_ora_jpz(w),
       bool_norm_empty(w), bool_norm_neg(w), insr_a_or_a(w), bool_norm_double_neg(w), ld_h_oper_A(w),
       ld_h_a_oper_A(w), IF level = 1 THEN No ELSE pop_up(w), cp_0_or_a(w), ora_jp_nc_jp(w), jpX_Y_jpX(w),
       ld_a_ld_h_ld_a(w), ld_a_ld_h_a_pop(w), ldh_nnn(w) >>
FirstMatch(found) ==
    LET hits == {k \in DOMAIN found : found[k] # No}
    IN  IF hits = {} THEN No ELSE found[CHOOSE k \in hits : \A j \in hits : k <= j]
Spliced(code, i, r) == SubSeq(code, 1, i - 1) \o r[2] \o SubSeq(code, i + r[1], Len(code))

\* The loop of _output_join, from a place on; after a change it goes back.
BackTo(i) == IF i - MAXLEN < 1 THEN 1 ELSE i - MAXLEN
RECURSIVE Rewritten(_, _, _)
Rewritten(level, code, i) ==
    IF i > Len(code) THEN code
    ELSE LET r == FirstMatch(Rewrites(level, Window(code, i)))
         IN  IF r = No THEN Rewritten(level, code, i + 1)
             ELSE Rewritten(level, Spliced(code, i, r), BackTo(i))

\* _output_join, at the levels that optimize; more than 2 counts as 2.
_output_join(level, output, new_chunk) ==
    IF level = 0 THEN output \o new_chunk
    ELSE Rewritten(IF level > 2 THEN 2 ELSE level, output \o new_chunk, BackTo(Len(output) + 1))

\* remove_unused_labels: of labels in a row one is kept, and a temporary label
\* nothing refers to is removed.  Alias is what the labels of the code are
\* replaced by, one step.
MaxLabels == 40
TMP_LABELS == {<<"L", "L" \o ToString(k)>> : k \in 0 .. MaxLabels}
IsTmp(o) == o \in TMP_LABELS
Beside(code, i) == i > 1 /\ IsLabel(code[i]) /\ IsLabel(code[i - 1])
RECURSIVE Aliases(_, _, _)
Aliases(code, i, alias) ==
    IF i > Len(code) THEN alias
    ELSE IF ~Beside(code, i) THEN Aliases(code, i + 1, alias)
    ELSE LET prev == Op(code[i - 1], 1)  ins == Op(code[i], 1)
             entry == IF (~IsTmp(prev) /\ IsTmp(ins)) \/ prev \in DOMAIN alias THEN ins :> prev ELSE prev :> ins
         IN  Aliases(code, i + 1, entry @@ alias)
RECURSIVE Final(_, _)
Final(alias, o) == IF o \in DOMAIN alias THEN Final(alias, alias[o]) ELSE o
remove_unused_labels(code) ==
    LET alias == Aliases(code, 1, <<>>)
        renamed == [k \in DOMAIN code |->
                      IF IsLabel(code[k]) THEN code[k] ELSE [j \in DOMAIN code[k] |-> IF j = 1 THEN code[k][j] ELSE Final(alias, code[k][j])]]
        used == UNION {{renamed[k][j] : j \in 2 .. Len(renamed[k])} : k \in {k \in DOMAIN code : ~IsLabel(code[k])}}
    IN  SelectSeq(renamed, LAMBDA l : ~(IsLabel(l) /\ IsTmp(Op(l, 1)) /\ Op(l, 1) \notin used))
=============================================================================
