--------------------------- MODULE TreeOptimizer ---------------------------
(***************************************************************************)
(* The syntax tree of a program and what is done to it before code is      *)
(* made: src/api/optimize.py, with the questions of src/api/check.py and   *)
(* the blocks of src/symbols/block.py.  Nodes are tuples of their token    *)
(* and their children; t is a type, "u8", "u16" or "bool".                 *)
(*   <<"NUMBER", k, t>>   <<"VAR", v, t>>   <<"PEEK", address>>            *)
(*   <<"BINARY", operator, t, left, right>>   <<"TYPECAST", t, e>>         *)
(*   <<"LET", var, e>>    <<"POKE", address, e>>                           *)
(*   <<"IF", e, then>>    <<"IF", e, then, else>>                          *)
(*   <<"FOR", var, from, to, step, body>>   <<"WHILE", e, body>>           *)
(*   <<"DO_UNTIL", e, body>> (DO_WHILE, UNTIL_DO, WHILE_DO)                *)
(*   <<"DO_LOOP", body>>  <<"EXIT", loop>>  <<"CONTINUE", loop>>           *)
(*   <<"LABEL", l>>  <<"GOTO", l>>  <<"GOSUB", l>>  <<"RETURN">>           *)
(*   <<"END", e, is_sentinel>>   <<"BLOCK", sequence>>   <<"NOP">>         *)
(***************************************************************************)
EXTENDS Integers, Sequences, FiniteSets, SequencesExt

NOP == <<"NOP">>
Token(node) == node[1]
Conditions == {"DO_UNTIL", "DO_WHILE", "UNTIL_DO", "WHILE_DO"}
\* The places of the children of a node that are not variables or labels.
ChildrenOf(node) ==
    CASE Token(node) = "BINARY" -> {4, 5}
      [] Token(node) \in {"TYPECAST", "LET"} -> {3}
      [] Token(node) \in {"POKE", "IF", "WHILE"} \cup Conditions -> 2 .. Len(node)
      [] Token(node) = "FOR" -> 3 .. 6
      [] Token(node) \in {"PEEK", "END", "DO_LOOP"} -> {2}
      [] OTHER -> {}
Children(node) ==
    IF Token(node) = "BLOCK" THEN Range(node[2]) ELSE {node[k] : k \in ChildrenOf(node)}
RECURSIVE Nodes(_)
Nodes(node) == {node} \cup UNION {Nodes(child) : child \in Children(node)}
\* generic_visit: the children are replaced by what the visit of each returns.
generic_visit(node, visited) ==
    IF Token(node) = "BLOCK" THEN <<"BLOCK", [k \in DOMAIN node[2] |-> visited[node[2][k]]]>>
    ELSE [k \in DOMAIN node |-> IF k \in ChildrenOf(node) THEN visited[node[k]] ELSE node[k]]

RECURSIVE is_null(_)
is_null(node) ==
    \/ Token(node) = "NOP"
    \/ Token(node) = "BLOCK" /\ \A k \in DOMAIN node[2] : is_null(node[2][k])
is_number(node) == Token(node) = "NUMBER"
is_ender(node) == Token(node) \in {"END", "GOTO", "RETURN", "EXIT", "CONTINUE"}
\* make_block: what is null is left out and blocks are flattened.
RECURSIVE Flat(_)
Flat(nodes) ==
    FoldLeft(LAMBDA all, node : CASE is_null(node) -> all
                                  [] ~is_null(node) /\ Token(node) = "BLOCK" -> all \o Flat(node[2])
                                  [] OTHER -> Append(all, node), <<>>, nodes)
make_block(nodes) == <<"BLOCK", Flat(nodes)>>

\* The program ends with END 0, unless it ends with a statement after which
\* nothing is run.
SentinelEnd == <<"END", <<"NUMBER", 0, "u8">>, TRUE>>
WholeProgram(nodes) ==
    LET ast == make_block(nodes)
    IN  IF is_null(ast) THEN SentinelEnd
        ELSE IF is_ender(Last(ast[2])) THEN ast ELSE <<"BLOCK", Append(ast[2], SentinelEnd)>>
-----------------------------------------------------------------------------
\* UnreachableCodeVisitor.  What comes after an ender is removed, up to a
\* label; at level 1 the first removal only warns and ends the search.
Passed(level, s, node) ==
    LET keep == [s EXCEPT !.kept = Append(@, node), !.after = is_ender(node)]
    IN  CASE ~s.after \/ Token(node) = "LABEL" -> keep
          [] s.after /\ Token(node) = "END" /\ node[3] -> s
          [] s.after /\ Token(node) # "LABEL" /\ ~(Token(node) = "END" /\ node[3]) ->
               IF level = 1 /\ ~s.warned THEN [keep EXCEPT !.warned = TRUE] ELSE [s EXCEPT !.warned = TRUE]
visit_BLOCK(level, node) ==
    <<"BLOCK", FoldLeft(LAMBDA s, child : Passed(level, s, child),
                        [kept |-> <<>>, after |-> FALSE, warned |-> FALSE], node[2]).kept>>
RECURSIVE UnreachableCode(_, _)
UnreachableCode(level, node) ==
    IF Token(node) # "BLOCK" THEN generic_visit(node, [child \in Children(node) |-> UnreachableCode(level, child)])
    ELSE LET block == visit_BLOCK(level, node)
         IN  IF level >= 1 /\ is_null(block) THEN NOP
             ELSE generic_visit(block, [child \in Children(block) |-> UnreachableCode(level, child)])

\* FunctionGraphVisitor: the labels some GOTO or GOSUB that is left goes to.
AccessedLabels(ast) == {node[2] : node \in {node \in Nodes(ast) : Token(node) \in {"GOTO", "GOSUB"}}}
\* is_block_accessed.  The label a GOTO goes to is a child of it.
is_block_accessed(accessed, block) ==
    \E node \in Nodes(block) : Token(node) \in {"LABEL", "GOTO", "GOSUB"} /\ node[2] \in accessed
-----------------------------------------------------------------------------
\* Values: the type of one, and what make_node of a binary operation does of
\* operands of different types or of two numbers.  The type of a number that
\* is given none is the first that holds it.
TypeOf(e) ==
    CASE Token(e) = "BINARY" -> e[3] [] Token(e) = "TYPECAST" -> e[2]
      [] Token(e) = "PEEK" -> "u8" [] Token(e) \in {"NUMBER", "VAR"} -> e[3]
SizeOf(t) == IF t = "u16" THEN 2 ELSE 1
common_type(t, u) == IF SizeOf(t) = 2 \/ SizeOf(u) = 2 THEN "u16" ELSE "u8"
make_typecast(t, e) ==
    CASE TypeOf(e) = t -> e
      [] TypeOf(e) # t /\ is_number(e) ->
           <<"NUMBER", IF e[2] < 0 THEN e[2] ELSE e[2] % (IF t = "u16" THEN 65536 ELSE 256), t>>
      [] TypeOf(e) # t /\ ~is_number(e) -> <<"TYPECAST", t, e>>
NumberType(k) == IF k \in 0 .. 255 THEN "u8" ELSE "u16"
Folded(operator, j, k) ==
    CASE operator = "PLUS" -> j + k [] operator = "MINUS" -> j - k [] operator = "MUL" -> j * k
      [] operator = "LT" -> IF j < k THEN 1 ELSE 0
      [] operator = "GT" -> IF j > k THEN 1 ELSE 0
      [] operator = "EQ" -> IF j = k THEN 1 ELSE 0
Comparing == {"LT", "GT", "EQ"}
make_node(operator, type_, left, right) ==
    LET t == common_type(TypeOf(left), TypeOf(right))
        l == make_typecast(t, left)  r == make_typecast(t, right)
        k == Folded(operator, l[2], r[2])
    IN  IF is_number(left) /\ is_number(right)
        THEN <<"NUMBER", k, IF type_ = "" THEN NumberType(k) ELSE type_>>
        ELSE <<"BINARY", operator, IF type_ # "" THEN type_ ELSE IF operator \in Comparing THEN "bool" ELSE t, l, r>>

\* OptimizerVisitor.visit_BINARY, of a node whose operands have been visited.
IsBinary(e, operator) == Token(e) = "BINARY" /\ e[2] = operator
Numbers(e) == {k \in {4, 5} : is_number(e[k])}
\* (e + j) + k is e + (j + k).
Merged(node) ==
    LET left == node[4]  j == IF is_number(left[5]) THEN 5 ELSE 4
    IN  IF IsBinary(left, node[2]) /\ is_number(node[5]) /\ Numbers(left) # {}
        THEN [node EXCEPT ![4] = left[9 - j], ![5] = make_node(node[2], "", left[j], node[5])]
        ELSE node
\* (e + j) + (f + k) is (e + f) + (j + k).
Gathered(node) ==
    LET left == node[4]  right == node[5]
    IN  IF IsBinary(left, node[2]) /\ IsBinary(right, node[2]) /\ is_number(left[5]) /\ is_number(right[5])
        THEN make_node(node[2], "", make_node(node[2], "", left[4], right[4]), make_node(node[2], "", left[5], right[5]))
        ELSE node
visit_BINARY(level, node) ==
    LET swapped == IF is_number(node[4]) /\ ~is_number(node[5]) THEN [node EXCEPT ![4] = node[5], ![5] = node[4]] ELSE node
        e == IF level > 1 /\ node[2] \in {"PLUS", "MUL"} THEN Gathered(Merged(swapped)) ELSE node
    IN  IF is_number(e) THEN e ELSE make_node(e[2], e[3], e[4], e[5])

\* The statements.  used is the variables the program reads, accessed the labels.
visit_IF(accessed, node, visited) ==
    LET expr_ == visited[2]  then_ == visited[3]
        else_ == IF Len(node) = 4 THEN visited[4] ELSE NOP
    IN  CASE is_null(then_) /\ is_null(else_) -> NOP
          [] ~(is_null(then_) /\ is_null(else_)) /\ is_number(expr_)
             /\ ~is_block_accessed(accessed, then_) /\ ~is_block_accessed(accessed, else_) ->
               IF expr_[2] # 0 THEN then_ ELSE else_
          [] OTHER -> IF is_null(else_) /\ Len(node) = 4 THEN <<"IF", node[2], then_>> ELSE visited
visit_WHILE(accessed, node) ==
    IF is_number(node[2]) /\ node[2][2] = 0 /\ ~is_block_accessed(accessed, node[3]) THEN NOP ELSE node
visit_FOR(accessed, node) ==
    LET from == node[3]  to == node[4]  step == node[5]
    IN  IF /\ is_number(from) /\ is_number(to) /\ is_number(step) /\ ~is_block_accessed(accessed, node[6])
           /\ (from[2] > to[2] /\ step[2] > 0) \/ (from[2] < to[2] /\ step[2] < 0)
        THEN NOP ELSE node
RECURSIVE Optimizer(_, _, _, _)
Optimizer(level, used, accessed, node) ==
    LET visited == generic_visit(node, [child \in Children(node) |-> Optimizer(level, used, accessed, child)])
    IN  CASE Token(node) = "BINARY" -> visit_BINARY(level, visited)
          [] Token(node) = "LET" -> IF level > 1 /\ node[2][2] \notin used THEN <<"BLOCK", <<>>>> ELSE visited
          [] Token(node) = "IF" -> visit_IF(accessed, node, visited)
          [] Token(node) = "WHILE" -> visit_WHILE(accessed, visited)
          [] Token(node) = "FOR" -> visit_FOR(accessed, visited)
          [] OTHER -> visited

\* The passes of main, in order.  A variable is read where it is a value, and
\* by FOR.
Variables(ast) ==
    {node[2] : node \in {node \in Nodes(ast) : Token(node) = "VAR"}}
    \cup {node[2][2] : node \in {node \in Nodes(ast) : Token(node) = "FOR"}}
OptimizedTree(level, ast) ==
    LET reached == UnreachableCode(level, ast)
    IN  IF level < 1 THEN reached ELSE Optimizer(level, Variables(ast), AccessedLabels(reached), reached)
=============================================================================
