----------------------------- MODULE MCPrograms -----------------------------
EXTENDS Programs
\* Variables: a and b are bytes, x and y words; a buffer for POKE and PEEK.
VA == <<"VAR", 16384, "u8">>
VB == <<"VAR", 16388, "u8">>
VX == <<"VAR", 16392, "u16">>
VY == <<"VAR", 16396, "u16">>
N(k) == <<"NUMBER", k, "u8">>
NN(k) == <<"NUMBER", k, "u16">>
Op8(op, e, f) == <<"BINARY", op, "u8", e, f>>
Op16(op, e, f) == <<"BINARY", op, "u16", e, f>>
Compare(op, e, f) == <<"BINARY", op, "bool", e, f>>
Block(nodes) == <<"BLOCK", nodes>>
Let(v, e) == <<"LET", v, e>>
Dec(v) == Let(v, Op8("MINUS", v, N(1)))
MCLabelled == {16384, 16388, 16392, 16396, 16408}
Memory(va, vb, vx, vy) ==
    [at \in 16384 .. 16411 |->
        CASE at = 16384 -> va [] at = 16388 -> vb [] at = 16392 -> vx % 256 [] at = 16393 -> vx \div 256
          [] at = 16396 -> vy % 256 [] at = 16397 -> vy \div 256 [] OTHER -> at % 7]
MCInputs == {Memory(3, 200, 16400, 16402), Memory(0, 1, 257, 16401)}

Simple == {
    Let(VA, N(5)), Let(VA, Op8("PLUS", VA, N(1))), Let(VB, VA), Let(VX, Op16("PLUS", VX, NN(1))),
    Let(VX, Op16("MINUS", VY, VX)), Let(VX, <<"TYPECAST", "u16", VA>>),
    Let(VA, Op8("PLUS", Op8("PLUS", VB, N(1)), N(2))),
    Let(VB, Op8("PLUS", Op8("PLUS", VA, N(3)), Op8("PLUS", VB, N(4)))),
    <<"POKE", VX, VA>>, Let(VA, <<"PEEK", VY>>), Let(VB, Op8("MUL", VA, VB)) }
\* Every variable is read at the end: what is written to it is kept.
Show == << <<"POKE", NN(16400), VA>>, <<"POKE", NN(16401), VB>>, <<"POKE", NN(16402), VX>>, <<"POKE", NN(16404), VY>> >>
Target_(l) == <<"LABEL", l>>
Goto(l) == <<"GOTO", l>>
Compounds(s) == {
    <<"IF", VA, Block(<<s>>)>>,
    <<"IF", Compare("LT", VX, VY), Block(<<s>>), Block(<<Let(VB, N(9))>>)>>,
    <<"IF", Compare("EQ", VA, N(3)), Block(<<Let(VB, N(9))>>), Block(<<s>>)>>,
    <<"IF", N(0), Block(<<Target_("inner"), s>>), Block(<<Let(VB, N(9)), <<"IF", VA, Block(<<Dec(VA), Goto("inner")>>)>>>>)>>,
    <<"WHILE", VA, Block(<<Dec(VA), s>>)>>,
    <<"WHILE", Compare("GT", VA, N(1)), Block(<<Dec(VA), <<"IF", Compare("EQ", VA, N(2)), Block(<<<<"CONTINUE", "WHILE">>>>)>>, s>>)>>,
    <<"FOR", VB, N(1), N(3), N(1), Block(<<s>>)>>,
    <<"FOR", VB, N(3), N(1), <<"NUMBER", -1, "u8">>, Block(<<s, <<"IF", Compare("GT", VA, VB), Block(<<<<"EXIT", "FOR">>>>)>>>>)>>,
    <<"DO_LOOP", Block(<<s, <<"IF", VA, Block(<<Dec(VA)>>), Block(<<<<"EXIT", "DO">>>>)>>>>)>>,
    <<"DO_UNTIL", Compare("GT", VX, VY), Block(<<Let(VX, Op16("PLUS", VX, NN(1))), s>>)>>,
    <<"DO_WHILE", VA, Block(<<s, <<"IF", VA, Block(<<Dec(VA)>>)>>>>)>>,
    <<"WHILE_DO", VA, Block(<<Dec(VA), <<"IF", Compare("LT", VA, N(2)), Block(<<<<"CONTINUE", "DO">>>>)>>, s>>)>>,
    <<"UNTIL_DO", Compare("EQ", VA, N(0)), Block(<<Dec(VA), s, <<"FOR", VB, N(1), N(2), N(1), Block(<<<<"CONTINUE", "DO">>>>)>>>>)>>,
    <<"WHILE", VA, Block(<<Dec(VA), <<"WHILE", VB, Block(<<Dec(VB), s, <<"EXIT", "WHILE">>>>)>>>>)>> }
WithJumps(s) == {
    << <<"GOSUB", "r1">>, s, <<"GOSUB", "r1">> >> \o Show \o << <<"END", N(7)>>, Target_("r1"), Let(VA, Op8("PLUS", VA, N(1))), <<"RETURN">> >>,
    << Target_("l1"), s, <<"IF", Compare("LT", VA, N(2)), Block(<<Let(VA, Op8("PLUS", VA, N(1))), Goto("l1")>>)>> >> \o Show \o << <<"END", VX>> >>,
    << Goto("l2"), s, Target_("l3"), Dec(VA) >> \o Show \o << <<"END", VX>>, Target_("l2"), s, Goto("l3") >>,
    << s, <<"IF", VA, Block(<<<<"END", N(5)>>>>)>> >> \o Show \o << <<"END", VX>> >>,
    << <<"EXIT", "FOR">>, s >>, << Goto("nowhere"), s >> }
MCSources ==
    {<<s>> : s \in Simple} \cup {<<s, t>> \o Show : s \in Simple, t \in Simple}
    \cup UNION {{<<t>> \o Show : t \in Compounds(s)} \cup WithJumps(s) : s \in Simple}
MCLevels == 0 .. 4
=============================================================================
