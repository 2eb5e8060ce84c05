--------------------------- MODULE PreprocProofs ---------------------------
(* Proofs about Preproc, for any files, macros and depth of nesting: what   *)
(* ENABLED says is right, what is not enabled has no effect, and the file   *)
(* that names in an #include are relative to is the one being read.         *)
(*                                                                          *)
(* The parser's stack holds files and blocks together; the lexers and       *)
(* CURRENT_FILE hold the files, IFDEFS the blocks.  The invariant is that   *)
(* the files of the parser are, in order, those of the lexers, and its      *)
(* blocks the entries of IFDEFS; each block remembers whether its first     *)
(* half was enabled.                                                        *)
(*                                                                          *)
(* Then, about the output: it has the lines of text whose conditions hold,  *)
(* and the #line directives put each where it was read.  Lines wait in the  *)
(* open files and blocks of the parser's stack.  Those that would stay if   *)
(* every one of them ended now are read in the order of the stack: they     *)
(* have given the text shown so far, and the place they lead to is that of  *)
(* the next line of the innermost file.                                     *)
EXTENDS Preproc, SequenceLemmas

IsBlock(b) ==
    /\ b = [kind |-> b.kind, out |-> b.out, before |-> b.before, test |-> b.test]
    /\ b.kind \in {"file", "if", "else"}
IsLexer(r) == r = [file |-> r.file, pos |-> r.pos, name |-> r.name, lineno |-> r.lineno]

\* The n entries of another stack are, in order, those of p of the kinds K,
\* and v says what the first halves of blocks were.
InOrder(at, n, p, K, v) ==
    /\ at \in [1..n -> 1..Len(p)]
    /\ \A i, j \in 1..n : i < j => at[i] < at[j]
    /\ \A k \in 1..Len(p) : p[k].kind \in K => \E i \in 1..n : at[i] = k
    /\ \A i \in 1..n : p[at[i]].kind \in K /\ (p[at[i]].kind = "if" => p[at[i]].test = v[i])
Numbered(n, p, K, v) == \E at : InOrder(at, n, p, K, v)

BlockKinds == {"if", "else"}
Opened == [i \in 1..Len(ifdefs) |-> ifdefs[i] /\ conds[i]]

StacksOK ==
    /\ IsSeq(parser) /\ \A k \in 1..Len(parser) : IsBlock(parser[k])
    /\ IsSeq(filestack) /\ \A k \in 1..Len(filestack) : IsLexer(filestack[k])
    /\ Len(filestack) > 0
    /\ ifdefs \in Seq(BOOLEAN) /\ conds \in Seq(BOOLEAN)
    /\ Len(ifdefs) = Len(conds)
    /\ enabled \in BOOLEAN

EnabledIs ==
    /\ enabled <=> \A j \in 1..Len(conds) : conds[j]
    /\ \A i \in 1..Len(ifdefs) : ifdefs[i] <=> \A j \in 1..i - 1 : conds[j]

PreprocInv ==
    /\ StacksOK
    /\ Numbered(Len(filestack), parser, {"file"}, <<>>)
    /\ Numbered(Len(ifdefs), parser, BlockKinds, Opened)
    /\ EnabledIs

\* CURRENT_FILE is the stack of the lexers' files.
FilesInv ==
    /\ IsSeq(current_file) /\ Len(current_file) = Len(filestack)
    /\ \A k \in 1..Len(filestack) : current_file[k] = filestack[k].file
    /\ current_dir = Dir(current_file[Len(current_file)])
---------------------------------------------------------------------------
(* Sequences.                                                              *)

\* What Front gives.
LEMMA FrontOf ==
    ASSUME NEW S, NEW s \in Seq(S), Len(s) > 0
    PROVE  /\ Front(s) \in Seq(S) /\ Len(Front(s)) = Len(s) - 1
           /\ \A k \in 1..Len(s) - 1 : Front(s)[k] = s[k]
  BY DroppedIs DEF Front

\* The same, of any sequence.
LEMMA FrontIs ==
    ASSUME NEW s, IsSeq(s), Len(s) > 0
    PROVE  /\ IsSeq(Front(s)) /\ Len(Front(s)) = Len(s) - 1
           /\ \A k \in 1..Len(s) - 1 : Front(s)[k] = s[k]
<1>1. PICK S : s \in Seq(S)  BY DEF IsSeq
<1>2. /\ Front(s) \in Seq(S) /\ Len(Front(s)) = Len(s) - 1
      /\ \A k \in 1..Len(s) - 1 : Front(s)[k] = s[k]
  BY <1>1, FrontOf
<1> QED  BY <1>2 DEF IsSeq

\* What replacing the last element gives.
LEMMA LastReplaced ==
    ASSUME NEW s, NEW e, IsSeq(s), Len(s) > 0
    PROVE  /\ IsSeq(Append(Front(s), e)) /\ Len(Append(Front(s), e)) = Len(s)
           /\ \A k \in 1..Len(s) - 1 : Append(Front(s), e)[k] = s[k]
           /\ Append(Front(s), e)[Len(s)] = e
<1>1. IsSeq(Front(s)) /\ Len(Front(s)) = Len(s) - 1 /\ \A k \in 1..Len(s) - 1 : Front(s)[k] = s[k]  BY FrontIs
<1>2. Len(s) \in Nat  BY DEF IsSeq
<1> QED  BY <1>1, <1>2, AppendIs
---------------------------------------------------------------------------
(* Stacks that number one another.                                         *)

\* Changes that leave the kinds alone.
LEMMA NumberedSame ==
    ASSUME NEW n \in Nat, NEW p, NEW q, NEW K, NEW v, NEW w,
           Numbered(n, p, K, v), Len(p) \in Nat, Len(q) = Len(p),
           \A k \in 1..Len(p) : q[k].kind = p[k].kind /\ q[k].test = p[k].test,
           \A i \in 1..n : w[i] = v[i]
    PROVE  Numbered(n, q, K, w)
<1>1. PICK at : InOrder(at, n, p, K, v)  BY DEF Numbered
<1>2. InOrder(at, n, q, K, w)  BY <1>1 DEF InOrder
<1> QED  BY <1>2 DEF Numbered

\* A new entry of those kinds.
LEMMA NumberedPushed ==
    ASSUME NEW n \in Nat, NEW p, NEW q, NEW K, NEW v, NEW w,
           Numbered(n, p, K, v), Len(p) \in Nat, Len(q) = Len(p) + 1,
           \A k \in 1..Len(p) : q[k] = p[k],
           q[Len(p) + 1].kind \in K,
           q[Len(p) + 1].kind = "if" => q[Len(p) + 1].test = w[n + 1],
           \A i \in 1..n : w[i] = v[i]
    PROVE  Numbered(n + 1, q, K, w)
<1>1. PICK at : InOrder(at, n, p, K, v)  BY DEF Numbered
<1> DEFINE to == [i \in 1..n + 1 |-> IF i = n + 1 THEN Len(p) + 1 ELSE at[i]]
<1>2. at \in [1..n -> 1..Len(p)] /\ 1..n + 1 = 1..n \cup {n + 1} /\ n + 1 \notin 1..n  BY <1>1 DEF InOrder
<1>3. to \in [1..n + 1 -> 1..Len(q)]  BY <1>2
<1>4. to[n + 1] = Len(p) + 1 /\ \A i \in 1..n : to[i] = at[i] /\ to[i] \in 1..Len(p)  BY <1>2
<1> HIDE DEF to
<1>5. \A i, j \in 1..n + 1 : i < j => to[i] < to[j]
  <2> SUFFICES ASSUME NEW i \in 1..n + 1, NEW j \in 1..n + 1, i < j PROVE to[i] < to[j]  OBVIOUS
  <2>1. i \in 1..n /\ to[i] = at[i] /\ at[i] \in 1..Len(p)  BY <1>4
  <2>2. CASE j \in 1..n  BY <2>1, <2>2, <1>1, <1>4 DEF InOrder
  <2>3. CASE j = n + 1  BY <2>1, <2>3, <1>4
  <2> QED  BY <2>2, <2>3
<1>6. \A k \in 1..Len(q) : q[k].kind \in K => \E i \in 1..n + 1 : to[i] = k
  <2> SUFFICES ASSUME NEW k \in 1..Len(q), q[k].kind \in K PROVE \E i \in 1..n + 1 : to[i] = k  OBVIOUS
  <2>1. CASE k = Len(p) + 1  BY <2>1, <1>2, <1>4
  <2>2. CASE k \in 1..Len(p)
    <3>1. PICK i \in 1..n : at[i] = k  BY <2>2, <1>1 DEF InOrder
    <3> QED  BY <3>1, <1>2, <1>4
  <2> QED  BY <2>1, <2>2
<1>7. \A i \in 1..n + 1 : q[to[i]].kind \in K /\ (q[to[i]].kind = "if" => q[to[i]].test = w[i])
  <2>1. \A i \in 1..n : q[to[i]].kind \in K /\ (q[to[i]].kind = "if" => q[to[i]].test = w[i])
    <3> SUFFICES ASSUME NEW i \in 1..n
                 PROVE q[to[i]].kind \in K /\ (q[to[i]].kind = "if" => q[to[i]].test = w[i])  OBVIOUS
    <3>1. q[to[i]] = p[at[i]] /\ w[i] = v[i]  BY <1>4
    <3>2. p[at[i]].kind \in K /\ (p[at[i]].kind = "if" => p[at[i]].test = v[i])  BY <1>1 DEF InOrder
    <3> QED  BY <3>1, <3>2
  <2> QED  BY <2>1, <1>2, <1>4
<1>8. InOrder(to, n + 1, q, K, w)  BY <1>3, <1>5, <1>6, <1>7 DEF InOrder
<1> QED  BY <1>8 DEF Numbered

\* A new entry of another kind.
LEMMA NumberedCovered ==
    ASSUME NEW n \in Nat, NEW p, NEW q, NEW K, NEW v,
           Numbered(n, p, K, v), Len(p) \in Nat, Len(q) = Len(p) + 1,
           \A k \in 1..Len(p) : q[k] = p[k],
           q[Len(p) + 1].kind \notin K
    PROVE  Numbered(n, q, K, v)
<1>1. PICK at : InOrder(at, n, p, K, v)  BY DEF Numbered
<1>2. 1..Len(q) = 1..Len(p) \cup {Len(p) + 1}  OBVIOUS
<1>3. InOrder(at, n, q, K, v)  BY <1>1, <1>2 DEF InOrder
<1> QED  BY <1>3 DEF Numbered

\* The last entry is one of those kinds, and is taken off.
LEMMA NumberedPopped ==
    ASSUME NEW n \in Nat, NEW p, NEW q, NEW K, NEW v,
           Numbered(n, p, K, v), Len(p) \in Nat \ {0}, Len(q) = Len(p) - 1,
           \A k \in 1..Len(p) - 1 : q[k] = p[k],
           p[Len(p)].kind \in K
    PROVE  /\ n > 0 /\ (p[Len(p)].kind = "if" => p[Len(p)].test = v[n])
           /\ \A w : (\A i \in 1..n - 1 : w[i] = v[i]) => Numbered(n - 1, q, K, w)
<1>1. PICK at : InOrder(at, n, p, K, v)  BY DEF Numbered
<1>2. PICK l \in 1..n : at[l] = Len(p)  BY <1>1 DEF InOrder
<1>3. \A i \in 1..n : at[i] \in 1..Len(p)  BY <1>1 DEF InOrder
<1>4. l = n
  <2> SUFFICES ASSUME l < n PROVE FALSE  BY <1>2
  <2>1. at[l] < at[n]  BY <1>1, <1>2 DEF InOrder
  <2> QED  BY <2>1, <1>2, <1>3
<1>5. p[Len(p)].kind = "if" => p[Len(p)].test = v[n]  BY <1>1, <1>2, <1>4 DEF InOrder
<1> SUFFICES ASSUME NEW w, \A i \in 1..n - 1 : w[i] = v[i] PROVE Numbered(n - 1, q, K, w)  BY <1>2, <1>5
<1> DEFINE to == [i \in 1..n - 1 |-> at[i]]
<1>6. \A i \in 1..n - 1 : to[i] = at[i] /\ at[i] \in 1..Len(q) /\ i \in 1..n /\ i < n
  <2> SUFFICES ASSUME NEW i \in 1..n - 1 PROVE at[i] \in 1..Len(q) /\ i \in 1..n /\ i < n  OBVIOUS
  <2>1. i \in 1..n /\ i < n /\ n \in 1..n  BY <1>2
  <2>2. at[i] < at[n]  BY <2>1, <1>1 DEF InOrder
  <2> QED  BY <2>1, <2>2, <1>2, <1>3, <1>4
<1>7. to \in [1..n - 1 -> 1..Len(q)]  BY <1>6
<1> HIDE DEF to
<1>8. \A i, j \in 1..n - 1 : i < j => to[i] < to[j]  BY <1>1, <1>6 DEF InOrder
<1>9. \A k \in 1..Len(q) : q[k].kind \in K => \E i \in 1..n - 1 : to[i] = k
  <2> SUFFICES ASSUME NEW k \in 1..Len(q), q[k].kind \in K PROVE \E i \in 1..n - 1 : to[i] = k  OBVIOUS
  <2>1. k \in 1..Len(p) /\ k # Len(p) /\ p[k].kind \in K  OBVIOUS
  <2>2. PICK i \in 1..n : at[i] = k  BY <2>1, <1>1 DEF InOrder
  <2>3. i # n  BY <2>1, <2>2, <1>2, <1>4
  <2> QED  BY <2>2, <2>3, <1>6
<1>10. \A i \in 1..n - 1 : q[to[i]].kind \in K /\ (q[to[i]].kind = "if" => q[to[i]].test = w[i])
  <2> SUFFICES ASSUME NEW i \in 1..n - 1
               PROVE q[to[i]].kind \in K /\ (q[to[i]].kind = "if" => q[to[i]].test = w[i])  OBVIOUS
  <2>1. q[to[i]] = p[at[i]] /\ i \in 1..n /\ w[i] = v[i]  BY <1>6
  <2>2. p[at[i]].kind \in K /\ (p[at[i]].kind = "if" => p[at[i]].test = v[i])  BY <2>1, <1>1 DEF InOrder
  <2> QED  BY <2>1, <2>2
<1>11. InOrder(to, n - 1, q, K, w)  BY <1>7, <1>8, <1>9, <1>10 DEF InOrder
<1> QED  BY <1>11 DEF Numbered

\* The last entry is of another kind, and is taken off.
LEMMA NumberedUncovered ==
    ASSUME NEW n \in Nat, NEW p, NEW q, NEW K, NEW v,
           Numbered(n, p, K, v), Len(p) \in Nat \ {0}, Len(q) = Len(p) - 1,
           \A k \in 1..Len(p) - 1 : q[k] = p[k],
           p[Len(p)].kind \notin K
    PROVE  Numbered(n, q, K, v)
<1>1. PICK at : InOrder(at, n, p, K, v)  BY DEF Numbered
<1>2. \A i \in 1..n : at[i] \in 1..Len(p) /\ at[i] # Len(p)  BY <1>1 DEF InOrder
<1>3. \A i \in 1..n : at[i] \in 1..Len(q)  BY <1>2
<1>4. at \in [1..n -> 1..Len(q)]  BY <1>1, <1>3 DEF InOrder
<1>5. \A i \in 1..n : q[at[i]] = p[at[i]]  BY <1>3
<1>6. \A k \in 1..Len(q) : q[k] = p[k] /\ k \in 1..Len(p)  OBVIOUS
<1>7. \A k \in 1..Len(q) : q[k].kind \in K => \E i \in 1..n : at[i] = k  BY <1>1, <1>6 DEF InOrder
<1>8. \A i \in 1..n : q[at[i]].kind \in K /\ (q[at[i]].kind = "if" => q[at[i]].test = v[i])
  BY <1>1, <1>5 DEF InOrder
<1>9. InOrder(at, n, q, K, v)  BY <1>1, <1>4, <1>7, <1>8 DEF InOrder
<1> QED  BY <1>9 DEF Numbered
---------------------------------------------------------------------------
(* The invariant.                                                          *)

\* What the stacks are made of, in the terms the steps use.
LEMMA Stacks ==
    ASSUME PreprocInv
    PROVE  /\ Len(parser) \in Nat \ {0} /\ Len(filestack) \in Nat \ {0} /\ Len(ifdefs) \in Nat
           /\ IsBlock(Top) /\ Top = parser[Len(parser)]
           /\ IsLexer(Lexer) /\ Lexer = filestack[Len(filestack)]
<1>1. Len(parser) \in Nat /\ Len(filestack) \in Nat /\ Len(ifdefs) \in Nat  BY DEF PreprocInv, StacksOK, IsSeq
<1>2. PICK at : InOrder(at, Len(filestack), parser, {"file"}, <<>>)  BY DEF PreprocInv, Numbered
<1>3. 1 \in 1..Len(filestack)  BY <1>1 DEF PreprocInv, StacksOK
<1>4. at[1] \in 1..Len(parser)  BY <1>2, <1>3 DEF InOrder
<1>5. Top = parser[Len(parser)] /\ Lexer = filestack[Len(filestack)]  BY DEF Top, Lexer, Last
<1>6. Len(parser) \in 1..Len(parser) /\ Len(filestack) \in 1..Len(filestack)  BY <1>1, <1>3, <1>4
<1> QED  BY <1>1, <1>3, <1>4, <1>5, <1>6 DEF PreprocInv, StacksOK

\* A lexer that goes on, in its own file, leaves the stack of lexers in order.
LEMMA LexerMoves ==
    ASSUME PreprocInv, NEW r, IsLexer(r), filestack' = Append(Front(filestack), r)
    PROVE  /\ IsSeq(filestack') /\ Len(filestack') = Len(filestack)
           /\ \A k \in 1..Len(filestack') : IsLexer(filestack'[k])
           /\ \A k \in 1..Len(filestack) - 1 : filestack'[k] = filestack[k]
           /\ filestack'[Len(filestack)] = r
<1>1. IsSeq(filestack) /\ Len(filestack) > 0 /\ Len(filestack) \in Nat  BY Stacks DEF PreprocInv, StacksOK
<1>2. /\ IsSeq(filestack') /\ Len(filestack') = Len(filestack)
      /\ \A k \in 1..Len(filestack) - 1 : filestack'[k] = filestack[k]
      /\ filestack'[Len(filestack)] = r
  BY <1>1, LastReplaced
<1>3. \A k \in 1..Len(filestack) : IsLexer(filestack[k])  BY DEF PreprocInv, StacksOK
<1>4. ASSUME NEW k \in 1..Len(filestack) PROVE IsLexer(filestack'[k])
  <2>1. CASE k = Len(filestack)
    <3>1. filestack'[k] = r  BY <2>1, <1>2
    <3>2. IsLexer(filestack'[k]) <=> IsLexer(r)  BY <3>1, SMT DEF IsLexer
    <3> QED  BY <3>2
  <2>2. CASE k \in 1..Len(filestack) - 1
    <3>1. filestack'[k] = filestack[k] /\ IsLexer(filestack[k])  BY <2>2, <1>2, <1>3
    <3>2. IsLexer(filestack'[k]) <=> IsLexer(filestack[k])  BY <3>1, SMT DEF IsLexer
    <3> QED  BY <3>1, <3>2
  <2>3. k = Len(filestack) \/ k \in 1..Len(filestack) - 1  BY <1>1
  <2> QED  BY <2>1, <2>2, <2>3
<1> QED  BY <1>2, <1>4

\* Reading a line moves the lexer of the innermost file, and no other.
LEMMA Advances ==
    ASSUME PreprocInv, Advance
    PROVE  /\ IsLexer(Advanced(Lexer)) /\ Advanced(Lexer).file = Lexer.file
           /\ IsSeq(filestack') /\ Len(filestack') = Len(filestack)
           /\ \A k \in 1..Len(filestack') : IsLexer(filestack'[k])
           /\ \A k \in 1..Len(filestack) - 1 : filestack'[k] = filestack[k]
           /\ filestack'[Len(filestack)] = Advanced(Lexer)
<1>1. IsLexer(Advanced(Lexer)) /\ Advanced(Lexer).file = Lexer.file  BY DEF IsLexer, Advanced, At
<1> QED  BY <1>1, LexerMoves DEF Advance

\* Output added to the innermost file or block changes no kind.
LEMMA AddingIs ==
    ASSUME NEW s, NEW lines, IsSeq(s), Len(s) \in Nat \ {0}, \A k \in 1..Len(s) : IsBlock(s[k])
    PROVE  /\ IsSeq(Adding(s, lines)) /\ Len(Adding(s, lines)) = Len(s)
           /\ \A k \in 1..Len(s) - 1 : Adding(s, lines)[k] = s[k]
           /\ \A k \in 1..Len(s) : /\ IsBlock(Adding(s, lines)[k])
                                   /\ Adding(s, lines)[k].kind = s[k].kind
                                   /\ Adding(s, lines)[k].test = s[k].test
<1> DEFINE b == s[Len(s)]
           e == Block(b.kind, b.out \o lines, b.before, b.test)
<1>1. IsBlock(b)  OBVIOUS
<1>2. IsBlock(e) /\ e.kind = b.kind /\ e.test = b.test  BY <1>1 DEF IsBlock, Block
<1>3. Adding(s, lines) = Append(Front(s), e)  BY DEF Adding, Last
<1> HIDE DEF e
<1>4. /\ IsSeq(Adding(s, lines)) /\ Len(Adding(s, lines)) = Len(s)
      /\ \A k \in 1..Len(s) - 1 : Adding(s, lines)[k] = s[k]
      /\ Adding(s, lines)[Len(s)] = e
  <2>1. Len(s) > 0  OBVIOUS
  <2>2. /\ IsSeq(Append(Front(s), e)) /\ Len(Append(Front(s), e)) = Len(s)
        /\ \A k \in 1..Len(s) - 1 : Append(Front(s), e)[k] = s[k]
        /\ Append(Front(s), e)[Len(s)] = e
    BY <2>1, LastReplaced
  <2> QED  BY <2>2, <1>3
<1>5. ASSUME NEW k \in 1..Len(s)
      PROVE /\ IsBlock(Adding(s, lines)[k])
            /\ Adding(s, lines)[k].kind = s[k].kind /\ Adding(s, lines)[k].test = s[k].test
  <2>1. CASE k = Len(s)  BY <2>1, <1>2, <1>4
  <2>2. CASE k \in 1..Len(s) - 1  BY <2>2, <1>4
  <2>3. k = Len(s) \/ k \in 1..Len(s) - 1  OBVIOUS
  <2> QED  BY <2>1, <2>2, <2>3
<1> QED  BY <1>4, <1>5

\* A step that adds to the output of the innermost file or block, or none.
LEMMA OutputGrows ==
    ASSUME PreprocInv, NEW lines, parser' = Adding(parser, lines) \/ parser' = parser,
           UNCHANGED <<ifdefs, conds, enabled>>,
           IsSeq(filestack'), Len(filestack') = Len(filestack), \A k \in 1..Len(filestack') : IsLexer(filestack'[k])
    PROVE  PreprocInv'
<1>1. Len(parser) \in Nat \ {0} /\ Len(filestack) \in Nat /\ Len(ifdefs) \in Nat  BY Stacks
<1>2. IsSeq(parser) /\ \A k \in 1..Len(parser) : IsBlock(parser[k])  BY DEF PreprocInv, StacksOK
<1>3. /\ IsSeq(parser') /\ Len(parser') = Len(parser)
      /\ \A k \in 1..Len(parser') : IsBlock(parser'[k])
      /\ \A k \in 1..Len(parser) : parser'[k].kind = parser[k].kind /\ parser'[k].test = parser[k].test
  <2>1. CASE parser' = Adding(parser, lines)  BY <2>1, <1>1, <1>2, AddingIs
  <2>2. CASE parser' = parser  BY <2>2, <1>2
  <2> QED  BY <2>1, <2>2
<1>4. StacksOK'  BY <1>3 DEF PreprocInv, StacksOK
<1>5. Numbered(Len(filestack'), parser', {"file"}, <<>>)  BY <1>1, <1>3, NumberedSame DEF PreprocInv
<1>6. Numbered(Len(ifdefs'), parser', BlockKinds, Opened')
  <2>1. Opened' = Opened  BY DEF Opened
  <2> QED  BY <2>1, <1>1, <1>3, NumberedSame DEF PreprocInv
<1>7. EnabledIs'  BY DEF PreprocInv, EnabledIs
<1> QED  BY <1>4, <1>5, <1>6, <1>7 DEF PreprocInv

\* There is a file under every block, and under every file but the first.
LEMMA Depth ==
    ASSUME PreprocInv, Top.kind # "file" \/ Len(filestack) > 1
    PROVE  Len(parser) > 1
<1>1. Len(parser) \in Nat \ {0} /\ Len(filestack) \in Nat \ {0} /\ Top = parser[Len(parser)]  BY Stacks
<1>2. PICK at : InOrder(at, Len(filestack), parser, {"file"}, <<>>)  BY DEF PreprocInv, Numbered
<1>3. at[1] \in 1..Len(parser) /\ parser[at[1]].kind = "file"  BY <1>1, <1>2 DEF InOrder
<1>4. CASE Top.kind # "file"
  <2>1. at[1] # Len(parser)  BY <1>1, <1>3, <1>4
  <2> QED  BY <2>1, <1>1, <1>3
<1>5. CASE Len(filestack) > 1
  <2>1. 1 \in 1..Len(filestack) /\ 2 \in 1..Len(filestack)  BY <1>1, <1>5
  <2>2. at[1] < at[2] /\ at[2] \in 1..Len(parser)  BY <2>1, <1>2 DEF InOrder
  <2> QED  BY <2>2, <1>1, <1>3
<1> QED  BY <1>4, <1>5

\* A new block.
LEMMA IfHeaderKeeps ==
    ASSUME PreprocInv, NEW directive \in {"if", "ifdef", "ifndef"}, NEW m, IfHeader(directive, m)
    PROVE  PreprocInv'
<1> DEFINE test == Test(directive, m)
           block == Block("if", <<Blank>>, <<>>, enabled /\ test)
           n == Len(ifdefs)
<1>1. /\ Len(parser) \in Nat \ {0} /\ Len(filestack) \in Nat \ {0} /\ n \in Nat
      /\ IsSeq(parser) /\ \A k \in 1..Len(parser) : IsBlock(parser[k])
      /\ ifdefs \in Seq(BOOLEAN) /\ conds \in Seq(BOOLEAN) /\ Len(conds) = n /\ enabled \in BOOLEAN
  BY Stacks DEF PreprocInv, StacksOK
<1>2. test \in BOOLEAN
  <2>1. CASE directive = "if"  BY <2>1 DEF Test
  <2>2. CASE directive = "ifdef"  BY <2>2 DEF Test
  <2>3. CASE directive = "ifndef"  BY <2>3 DEF Test
  <2> QED  BY <2>1, <2>2, <2>3
<1>3. /\ IsSeq(filestack') /\ Len(filestack') = Len(filestack) /\ \A k \in 1..Len(filestack') : IsLexer(filestack'[k])
  BY Advances DEF IfHeader
<1>4. /\ ifdefs' = Append(ifdefs, enabled) /\ enabled' = (enabled /\ test)
      /\ conds' = Append(conds, test) /\ parser' = Append(parser, block)
  BY DEF IfHeader
<1>5. IsBlock(block) /\ block.kind = "if" /\ block.test = (enabled /\ test)  BY DEF Block, IsBlock
<1> HIDE DEF block, test
<1>6. /\ IsSeq(parser') /\ Len(parser') = Len(parser) + 1
      /\ \A k \in 1..Len(parser) : parser'[k] = parser[k]
      /\ parser'[Len(parser) + 1] = block
  BY <1>1, <1>4, AppendIs
<1>7. /\ ifdefs' \in Seq(BOOLEAN) /\ Len(ifdefs') = n + 1 /\ \A i \in 1..n : ifdefs'[i] = ifdefs[i]
      /\ ifdefs'[n + 1] = enabled
  BY <1>1, <1>4, AppendProperties
<1>8. /\ conds' \in Seq(BOOLEAN) /\ Len(conds') = n + 1 /\ \A i \in 1..n : conds'[i] = conds[i]
      /\ conds'[n + 1] = test
  BY <1>1, <1>2, <1>4, AppendProperties
<1>9. StacksOK'
  <2>1. ASSUME NEW k \in 1..Len(parser') PROVE IsBlock(parser'[k])
    <3>1. CASE k = Len(parser) + 1  BY <3>1, <1>5, <1>6
    <3>2. CASE k \in 1..Len(parser)  BY <3>2, <1>1, <1>6
    <3>3. k = Len(parser) + 1 \/ k \in 1..Len(parser)  BY <1>1, <1>6
    <3> QED  BY <3>1, <3>2, <3>3
  <2>2. enabled' \in BOOLEAN  BY <1>1, <1>2, <1>4
  <2>3. Len(filestack') > 0 /\ Len(ifdefs') = Len(conds')  BY <1>1, <1>3, <1>7, <1>8
  <2> QED  BY <2>1, <2>2, <2>3, <1>3, <1>6, <1>7, <1>8 DEF StacksOK
<1>10. Numbered(Len(filestack'), parser', {"file"}, <<>>)
  <2>1. parser'[Len(parser) + 1].kind \notin {"file"}  BY <1>5, <1>6
  <2> QED  BY <2>1, <1>1, <1>3, <1>6, NumberedCovered DEF PreprocInv
<1>11. Numbered(Len(ifdefs'), parser', BlockKinds, Opened')
  <2>1. \A i \in 1..n : Opened'[i] = Opened[i]  BY <1>1, <1>7, <1>8 DEF Opened
  <2>2. Opened'[n + 1] = (enabled /\ test)  BY <1>1, <1>7, <1>8 DEF Opened
  <2>3. parser'[Len(parser) + 1].kind \in BlockKinds /\ parser'[Len(parser) + 1].test = Opened'[n + 1]
    BY <2>2, <1>5, <1>6 DEF BlockKinds
  <2> QED  BY <2>1, <2>3, <1>1, <1>6, <1>7, NumberedPushed DEF PreprocInv
<1>12. EnabledIs'
  <2>1. enabled <=> \A j \in 1..n : conds[j]  BY <1>1 DEF PreprocInv, EnabledIs
  <2>2. \A j \in 1..n : j \in 1..n + 1 /\ (conds'[j] <=> conds[j])  BY <1>1, <1>8
  <2>3. n + 1 \in 1..n + 1 /\ \A j \in 1..n + 1 : j = n + 1 \/ j \in 1..n  BY <1>1
  <2>4. enabled' <=> \A j \in 1..n + 1 : conds'[j]
    <3>1. (\A j \in 1..n + 1 : conds'[j]) <=> conds'[n + 1] /\ \A j \in 1..n : conds'[j]  BY <2>2, <2>3
    <3>2. (\A j \in 1..n : conds'[j]) <=> \A j \in 1..n : conds[j]  BY <2>2
    <3> QED  BY <3>1, <3>2, <2>1, <1>4, <1>8
  <2>5. ASSUME NEW i \in 1..n + 1 PROVE ifdefs'[i] <=> \A j \in 1..i - 1 : conds'[j]
    <3>1. \A j \in 1..i - 1 : j \in 1..n  BY <1>1
    <3>2. (\A j \in 1..i - 1 : conds'[j]) <=> \A j \in 1..i - 1 : conds[j]  BY <3>1, <2>2
    <3>3. CASE i = n + 1
      <4>1. n + 1 - 1 = n  BY <1>1
      <4> QED  BY <4>1, <3>2, <3>3, <2>1, <1>7
    <3>4. CASE i \in 1..n
      <4>1. ifdefs[i] <=> \A j \in 1..i - 1 : conds[j]  BY <3>4 DEF PreprocInv, EnabledIs
      <4> QED  BY <4>1, <3>2, <3>4, <1>7
    <3> QED  BY <3>3, <3>4, <2>3
  <2> QED  BY <2>4, <2>5, <1>7, <1>8 DEF EnabledIs
<1> QED  BY <1>9, <1>10, <1>11, <1>12 DEF PreprocInv

\* The other half of a block.
LEMMA ElseKeeps == ASSUME PreprocInv, Else PROVE PreprocInv'
<1> DEFINE n == Len(ifdefs)
           lines == <<LineDirective(Lexer.lineno + 1, Lexer.name)>>
           before == IF Last(ifdefs) /\ Top.test THEN Top.out ELSE <<>>
           block == Block("else", lines, before, Top.test)
<1>1. /\ Len(parser) \in Nat \ {0} /\ Len(filestack) \in Nat \ {0} /\ n \in Nat
      /\ IsSeq(parser) /\ \A k \in 1..Len(parser) : IsBlock(parser[k])
      /\ ifdefs \in Seq(BOOLEAN) /\ conds \in Seq(BOOLEAN) /\ Len(conds) = n /\ enabled \in BOOLEAN
      /\ Top = parser[Len(parser)]
  BY Stacks DEF PreprocInv, StacksOK
<1>2. /\ IsSeq(filestack') /\ Len(filestack') = Len(filestack) /\ \A k \in 1..Len(filestack') : IsLexer(filestack'[k])
  BY Advances DEF Else
<1>3. /\ Top.kind = "if" /\ ifdefs' = ifdefs /\ enabled' = ElseEnabled
      /\ conds' = Append(Front(conds), ~Last(conds)) /\ parser' = Append(Front(parser), block)
  BY DEF Else
<1>4. IsBlock(block) /\ block.kind = "else"  BY DEF Block, IsBlock
<1> HIDE DEF block, lines, before
<1>5. /\ IsSeq(Front(parser)) /\ Len(Front(parser)) = Len(parser) - 1
      /\ \A k \in 1..Len(parser) - 1 : Front(parser)[k] = parser[k]
  BY <1>1, FrontIs
<1>6. /\ IsSeq(parser') /\ Len(parser') = Len(Front(parser)) + 1
      /\ \A k \in 1..Len(Front(parser)) : parser'[k] = Front(parser)[k]
      /\ parser'[Len(Front(parser)) + 1] = block
  BY <1>3, <1>5, AppendIs
<1>7. n > 0 /\ Top.test = Opened[n] /\ \A w : (\A i \in 1..n - 1 : w[i] = Opened[i]) => Numbered(n - 1, Front(parser), BlockKinds, w)
  <2>1. parser[Len(parser)].kind \in BlockKinds /\ parser[Len(parser)].kind = "if"  BY <1>1, <1>3 DEF BlockKinds
  <2>2. /\ n \in Nat /\ Numbered(n, parser, BlockKinds, Opened)
        /\ Len(parser) \in Nat \ {0} /\ Len(Front(parser)) = Len(parser) - 1
        /\ \A k \in 1..Len(parser) - 1 : Front(parser)[k] = parser[k]
    BY <1>1, <1>5 DEF PreprocInv
  <2> HIDE DEF n
  <2>3. /\ n > 0 /\ (parser[Len(parser)].kind = "if" => parser[Len(parser)].test = Opened[n])
        /\ \A w : (\A i \in 1..n - 1 : w[i] = Opened[i]) => Numbered(n - 1, Front(parser), BlockKinds, w)
    BY <2>1, <2>2, NumberedPopped
  <2> QED  BY <2>1, <2>3, <1>1
<1>8. /\ Front(conds) \in Seq(BOOLEAN) /\ Len(Front(conds)) = n - 1 /\ \A i \in 1..n - 1 : Front(conds)[i] = conds[i]
      /\ Last(conds) = conds[n] /\ Last(ifdefs) = ifdefs[n] /\ conds[n] \in BOOLEAN /\ ifdefs[n] \in BOOLEAN
  <2>1. Len(conds) > 0 /\ n \in 1..n  BY <1>1, <1>7
  <2>2. conds[n] \in BOOLEAN /\ ifdefs[n] \in BOOLEAN  BY <2>1, <1>1, ElementOfSeq
  <2> QED  BY <2>1, <2>2, <1>1, FrontOf DEF Last
<1>9. /\ conds' \in Seq(BOOLEAN) /\ Len(conds') = n /\ \A i \in 1..n - 1 : conds'[i] = conds[i]
      /\ conds'[n] = ~conds[n]
  <2>1. (~Last(conds)) \in BOOLEAN  OBVIOUS
  <2>2. n - 1 + 1 = n  BY <1>1
  <2> DEFINE c == Front(conds)
             v == ~Last(conds)
  <2>3. c \in Seq(BOOLEAN) /\ v \in BOOLEAN /\ Len(c) = n - 1  BY <1>8, <2>1
  <2>4. \A i \in 1..n - 1 : c[i] = conds[i]  BY <1>8
  <2>5. conds' = Append(c, v) /\ v = ~conds[n]  BY <1>3, <1>8
  <2> HIDE DEF c, v
  <2>6. /\ Append(c, v) \in Seq(BOOLEAN) /\ Len(Append(c, v)) = n - 1 + 1
        /\ \A i \in 1..n - 1 : Append(c, v)[i] = c[i]
        /\ Append(c, v)[n - 1 + 1] = v
    BY <2>3, AppendProperties
  <2> QED  BY <2>2, <2>4, <2>5, <2>6
<1>10. Top.test <=> ifdefs[n] /\ conds[n]  BY <1>1, <1>7, <1>8 DEF Opened
<1>11. enabled <=> \A j \in 1..n : conds[j]  BY <1>1 DEF PreprocInv, EnabledIs
<1>12. ifdefs[n] <=> \A j \in 1..n - 1 : conds[j]  BY <1>1, <1>7 DEF PreprocInv, EnabledIs
<1>13. n \in 1..n /\ (\A j \in 1..n : j = n \/ j \in 1..n - 1) /\ \A j \in 1..n - 1 : j \in 1..n  BY <1>1, <1>7
<1>14. enabled' <=> ifdefs[n] /\ ~conds[n]
  <2>1. CASE ifdefs[n]  BY <2>1, <1>3, <1>8, <1>10 DEF ElseEnabled
  <2>2. CASE ~ifdefs[n]
    <3>1. ~enabled  BY <2>2, <1>11, <1>12, <1>13
    <3> QED  BY <3>1, <2>2, <1>3, <1>8 DEF ElseEnabled
  <2> QED  BY <2>1, <2>2
<1>15. StacksOK'
  <2>1. ASSUME NEW k \in 1..Len(parser') PROVE IsBlock(parser'[k])
    <3>1. CASE k = Len(parser)  BY <3>1, <1>1, <1>4, <1>5, <1>6
    <3>2. CASE k \in 1..Len(parser) - 1  BY <3>2, <1>1, <1>5, <1>6
    <3>3. k = Len(parser) \/ k \in 1..Len(parser) - 1  BY <1>1, <1>5, <1>6
    <3> QED  BY <3>1, <3>2, <3>3
  <2>2. enabled' \in BOOLEAN
    <3>1. CASE ifdefs[n]
      <4>1. enabled' = ~Top.test  BY <3>1, <1>3, <1>8 DEF ElseEnabled
      <4> QED  BY <4>1
    <3>2. CASE ~ifdefs[n]  BY <3>2, <1>1, <1>3, <1>8 DEF ElseEnabled
    <3> QED  BY <3>1, <3>2
  <2>3. Len(filestack') > 0 /\ Len(ifdefs') = Len(conds')  BY <1>1, <1>2, <1>3, <1>9
  <2> QED  BY <2>1, <2>2, <2>3, <1>1, <1>2, <1>3, <1>6, <1>9 DEF StacksOK
<1>16. Numbered(Len(filestack'), parser', {"file"}, <<>>)
  <2>1. parser[Len(parser)].kind \notin {"file"}  BY <1>1, <1>3
  <2>2. Numbered(Len(filestack), Front(parser), {"file"}, <<>>)  BY <2>1, <1>1, <1>5, NumberedUncovered DEF PreprocInv
  <2>3. parser'[Len(Front(parser)) + 1].kind \notin {"file"} /\ Len(Front(parser)) \in Nat  BY <1>1, <1>4, <1>5, <1>6
  <2> QED  BY <2>2, <2>3, <1>1, <1>2, <1>6, NumberedCovered
<1>17. Numbered(Len(ifdefs'), parser', BlockKinds, Opened')
  <2>1. \A i \in 1..n - 1 : Opened'[i] = Opened[i]  BY <1>1, <1>3, <1>9 DEF Opened
  <2>2. Numbered(n - 1, Front(parser), BlockKinds, Opened')  BY <2>1, <1>7
  <2>3. n - 1 \in Nat /\ n - 1 + 1 = n /\ Len(Front(parser)) \in Nat  BY <1>1, <1>5, <1>7
  <2>4. /\ parser'[Len(Front(parser)) + 1].kind \in BlockKinds
        /\ parser'[Len(Front(parser)) + 1].kind # "if"
    BY <1>4, <1>6 DEF BlockKinds
  <2>5. Numbered(n - 1 + 1, parser', BlockKinds, Opened')  BY <2>2, <2>3, <2>4, <1>6, NumberedPushed
  <2> QED  BY <2>3, <2>5, <1>3
<1>18. EnabledIs'
  <2>1. (\A j \in 1..n : conds'[j]) <=> conds'[n] /\ \A j \in 1..n - 1 : conds'[j]  BY <1>13
  <2>2. (\A j \in 1..n - 1 : conds'[j]) <=> \A j \in 1..n - 1 : conds[j]  BY <1>9
  <2>3. enabled' <=> \A j \in 1..n : conds'[j]  BY <2>1, <2>2, <1>9, <1>12, <1>14
  <2>4. ASSUME NEW i \in 1..n PROVE ifdefs'[i] <=> \A j \in 1..i - 1 : conds'[j]
    <3>1. \A j \in 1..i - 1 : j \in 1..n - 1  BY <1>1
    <3>2. (\A j \in 1..i - 1 : conds'[j]) <=> \A j \in 1..i - 1 : conds[j]  BY <3>1, <1>9
    <3>3. ifdefs[i] <=> \A j \in 1..i - 1 : conds[j]  BY DEF PreprocInv, EnabledIs
    <3> QED  BY <3>2, <3>3, <1>3
  <2> QED  BY <2>3, <2>4, <1>3, <1>9 DEF EnabledIs
<1> QED  BY <1>15, <1>16, <1>17, <1>18 DEF PreprocInv

\* The end of a block.
LEMMA EndIfKeeps == ASSUME PreprocInv, EndIf PROVE PreprocInv'
<1> DEFINE n == Len(ifdefs)
           lines == Kept \o <<LineDirective(Lexer.lineno + 1, Lexer.name)>>
<1>1. /\ Len(parser) \in Nat \ {0} /\ Len(filestack) \in Nat \ {0} /\ n \in Nat
      /\ IsSeq(parser) /\ \A k \in 1..Len(parser) : IsBlock(parser[k])
      /\ ifdefs \in Seq(BOOLEAN) /\ conds \in Seq(BOOLEAN) /\ Len(conds) = n /\ enabled \in BOOLEAN
      /\ Top = parser[Len(parser)]
  BY Stacks DEF PreprocInv, StacksOK
<1>2. /\ IsSeq(filestack') /\ Len(filestack') = Len(filestack) /\ \A k \in 1..Len(filestack') : IsLexer(filestack'[k])
  BY Advances DEF EndIf
<1>3. /\ Top.kind \in BlockKinds /\ Top.kind # "file" /\ ifdefs' = Front(ifdefs) /\ enabled' = Last(ifdefs)
      /\ conds' = Front(conds) /\ parser' = Adding(Front(parser), lines)
  BY DEF EndIf, Outer, BlockKinds
<1> HIDE DEF lines
<1>4. Len(parser) > 1  BY <1>3, Depth
<1>5. /\ IsSeq(Front(parser)) /\ Len(Front(parser)) = Len(parser) - 1
      /\ \A k \in 1..Len(parser) - 1 : Front(parser)[k] = parser[k]
  BY <1>1, FrontIs
<1>6. Len(Front(parser)) \in Nat \ {0} /\ \A k \in 1..Len(Front(parser)) : IsBlock(Front(parser)[k])
  <2>1. \A k \in 1..Len(parser) - 1 : k \in 1..Len(parser)  BY <1>1
  <2> QED  BY <2>1, <1>1, <1>4, <1>5
<1>7. /\ IsSeq(parser') /\ Len(parser') = Len(Front(parser))
      /\ \A k \in 1..Len(Front(parser)) : /\ IsBlock(parser'[k])
                                          /\ parser'[k].kind = Front(parser)[k].kind
                                          /\ parser'[k].test = Front(parser)[k].test
  BY <1>3, <1>5, <1>6, AddingIs
<1>8. n > 0 /\ \A w : (\A i \in 1..n - 1 : w[i] = Opened[i]) => Numbered(n - 1, Front(parser), BlockKinds, w)
  <2>1. parser[Len(parser)].kind \in BlockKinds  BY <1>1, <1>3
  <2>2. /\ n \in Nat /\ Numbered(n, parser, BlockKinds, Opened)
        /\ Len(parser) \in Nat \ {0} /\ Len(Front(parser)) = Len(parser) - 1
        /\ \A k \in 1..Len(parser) - 1 : Front(parser)[k] = parser[k]
    BY <1>1, <1>5 DEF PreprocInv
  <2> HIDE DEF n
  <2> QED  BY <2>1, <2>2, NumberedPopped
<1>9. /\ conds' \in Seq(BOOLEAN) /\ Len(conds') = n - 1 /\ \A i \in 1..n - 1 : conds'[i] = conds[i]
      /\ ifdefs' \in Seq(BOOLEAN) /\ Len(ifdefs') = n - 1 /\ \A i \in 1..n - 1 : ifdefs'[i] = ifdefs[i]
  BY <1>1, <1>3, <1>8, FrontOf
<1>10. enabled' = ifdefs[n] /\ ifdefs[n] \in BOOLEAN /\ n - 1 \in Nat
  <2>1. n \in 1..n  BY <1>1, <1>8
  <2>2. ifdefs[n] \in BOOLEAN  BY <2>1, <1>1, ElementOfSeq
  <2> QED  BY <2>2, <1>1, <1>3, <1>8 DEF Last
<1>11. StacksOK'
  <2>1. Len(filestack') > 0 /\ Len(ifdefs') = Len(conds')  BY <1>1, <1>2, <1>9
  <2> QED  BY <2>1, <1>2, <1>7, <1>9, <1>10 DEF StacksOK
<1>12. Numbered(Len(filestack'), parser', {"file"}, <<>>)
  <2>1. parser[Len(parser)].kind \notin {"file"}  BY <1>1, <1>3
  <2>2. Numbered(Len(filestack), Front(parser), {"file"}, <<>>)  BY <2>1, <1>1, <1>5, NumberedUncovered DEF PreprocInv
  <2> QED  BY <2>2, <1>1, <1>2, <1>6, <1>7, NumberedSame
<1>13. Numbered(Len(ifdefs'), parser', BlockKinds, Opened')
  <2>1. \A i \in 1..n - 1 : Opened'[i] = Opened[i]  BY <1>1, <1>9 DEF Opened
  <2>2. Numbered(n - 1, Front(parser), BlockKinds, Opened')  BY <2>1, <1>8
  <2>3. Numbered(n - 1, parser', BlockKinds, Opened')  BY <2>2, <1>6, <1>7, <1>10, NumberedSame
  <2> QED  BY <2>3, <1>9
<1>14. EnabledIs'
  <2>1. ifdefs[n] <=> \A j \in 1..n - 1 : conds[j]  BY <1>1, <1>8 DEF PreprocInv, EnabledIs
  <2>2. enabled' <=> \A j \in 1..n - 1 : conds'[j]  BY <2>1, <1>9, <1>10
  <2>3. ASSUME NEW i \in 1..n - 1 PROVE ifdefs'[i] <=> \A j \in 1..i - 1 : conds'[j]
    <3>1. i \in 1..n /\ \A j \in 1..i - 1 : j \in 1..n - 1  BY <1>1
    <3>2. (\A j \in 1..i - 1 : conds'[j]) <=> \A j \in 1..i - 1 : conds[j]  BY <3>1, <1>9
    <3>3. ifdefs[i] <=> \A j \in 1..i - 1 : conds[j]  BY <3>1 DEF PreprocInv, EnabledIs
    <3> QED  BY <3>2, <3>3, <1>9
  <2> QED  BY <2>2, <2>3, <1>9 DEF EnabledIs
<1> QED  BY <1>11, <1>12, <1>13, <1>14 DEF PreprocInv

\* A file is opened.
LEMMA IncludeKeeps ==
    ASSUME PreprocInv, NEW query, NEW local_first, NEW once, Include(query, local_first, once)
    PROVE  PreprocInv' /\ \E file : filestack' = Append(Append(Front(filestack), Advanced(Lexer)), Reading(file))
<1>1. /\ Len(parser) \in Nat \ {0} /\ Len(filestack) \in Nat \ {0} /\ Len(ifdefs) \in Nat
      /\ IsSeq(parser) /\ \A k \in 1..Len(parser) : IsBlock(parser[k])
      /\ IsSeq(filestack) /\ \A k \in 1..Len(filestack) : IsLexer(filestack[k])
      /\ Len(filestack) > 0
  BY Stacks DEF PreprocInv, StacksOK
<1>2. PICK file : /\ filestack' = Append(Append(Front(filestack), Advanced(Lexer)), Reading(file))
                  /\ parser' = Append(parser, OpenFile(file))
  BY DEF Include
<1>3. UNCHANGED <<ifdefs, conds, enabled>>  BY DEF Include
<1> DEFINE f == Append(Front(filestack), Advanced(Lexer))
           block == OpenFile(file)
           reading == Reading(file)
<1>4. IsBlock(block) /\ block.kind = "file" /\ IsLexer(reading)
  BY DEF IsBlock, Block, OpenFile, IsLexer, Reading, At
<1>5. IsLexer(Advanced(Lexer))  BY DEF IsLexer, Advanced, At
<1>6. /\ IsSeq(f) /\ Len(f) = Len(filestack)
      /\ \A k \in 1..Len(filestack) - 1 : f[k] = filestack[k]
      /\ f[Len(filestack)] = Advanced(Lexer)
  BY <1>1, LastReplaced
<1> HIDE DEF f, block, reading
<1>7. /\ IsSeq(filestack') /\ Len(filestack') = Len(f) + 1 /\ \A k \in 1..Len(f) : filestack'[k] = f[k]
      /\ filestack'[Len(f) + 1] = reading
  <2>1. filestack' = Append(f, reading)  BY <1>2 DEF f, reading
  <2>2. /\ IsSeq(Append(f, reading)) /\ Len(Append(f, reading)) = Len(f) + 1
        /\ \A k \in 1..Len(f) : Append(f, reading)[k] = f[k]
        /\ Append(f, reading)[Len(f) + 1] = reading
    BY <1>6, AppendIs
  <2> QED  BY <2>1, <2>2
<1>8. /\ IsSeq(parser') /\ Len(parser') = Len(parser) + 1 /\ \A k \in 1..Len(parser) : parser'[k] = parser[k]
      /\ parser'[Len(parser) + 1] = block
  <2>1. parser' = Append(parser, block)  BY <1>2 DEF block
  <2>2. /\ IsSeq(Append(parser, block)) /\ Len(Append(parser, block)) = Len(parser) + 1
        /\ \A k \in 1..Len(parser) : Append(parser, block)[k] = parser[k]
        /\ Append(parser, block)[Len(parser) + 1] = block
    BY <1>1, AppendIs
  <2> QED  BY <2>1, <2>2
<1>9. StacksOK'
  <2>1. ASSUME NEW k \in 1..Len(parser') PROVE IsBlock(parser'[k])
    <3>1. CASE k = Len(parser) + 1  BY <3>1, <1>4, <1>8
    <3>2. CASE k \in 1..Len(parser)  BY <3>2, <1>1, <1>8
    <3>3. k = Len(parser) + 1 \/ k \in 1..Len(parser)  BY <1>1, <1>8
    <3> QED  BY <3>1, <3>2, <3>3
  <2>2. ASSUME NEW k \in 1..Len(filestack') PROVE IsLexer(filestack'[k])
    <3>1. CASE k = Len(filestack) + 1  BY <3>1, <1>4, <1>6, <1>7
    <3>2. CASE k = Len(filestack)  BY <3>2, <1>1, <1>5, <1>6, <1>7
    <3>3. CASE k \in 1..Len(filestack) - 1  BY <3>3, <1>1, <1>6, <1>7
    <3>4. k = Len(filestack) + 1 \/ k = Len(filestack) \/ k \in 1..Len(filestack) - 1  BY <1>1, <1>6, <1>7
    <3> QED  BY <3>1, <3>2, <3>3, <3>4
  <2>3. Len(filestack') > 0  BY <1>1, <1>6, <1>7
  <2> QED  BY <2>1, <2>2, <2>3, <1>3, <1>7, <1>8 DEF PreprocInv, StacksOK
<1>10. Numbered(Len(filestack'), parser', {"file"}, <<>>)
  <2>1. parser'[Len(parser) + 1].kind \in {"file"} /\ parser'[Len(parser) + 1].kind # "if"  BY <1>4, <1>8
  <2>2. Numbered(Len(filestack) + 1, parser', {"file"}, <<>>)  BY <2>1, <1>1, <1>8, NumberedPushed DEF PreprocInv
  <2> QED  BY <2>2, <1>6, <1>7
<1>11. Numbered(Len(ifdefs'), parser', BlockKinds, Opened')
  <2>1. Opened' = Opened  BY <1>3 DEF Opened
  <2>2. parser'[Len(parser) + 1].kind \notin BlockKinds  BY <1>4, <1>8 DEF BlockKinds
  <2> QED  BY <2>1, <2>2, <1>1, <1>3, <1>8, NumberedCovered DEF PreprocInv
<1>12. EnabledIs'  BY <1>3 DEF PreprocInv, EnabledIs
<1> QED  BY <1>2, <1>9, <1>10, <1>11, <1>12 DEF PreprocInv

\* The end of a file.
LEMMA EndFileKeeps == ASSUME PreprocInv, EndFile PROVE PreprocInv'
<1>1. /\ Len(parser) \in Nat \ {0} /\ Len(filestack) \in Nat \ {0} /\ Len(ifdefs) \in Nat
      /\ IsSeq(parser) /\ \A k \in 1..Len(parser) : IsBlock(parser[k])
      /\ IsSeq(filestack) /\ \A k \in 1..Len(filestack) : IsLexer(filestack[k])
      /\ Top = parser[Len(parser)]
  BY Stacks DEF PreprocInv, StacksOK
<1>2. PICK lines : parser' = Adding(Front(parser), lines)  BY DEF EndFile
<1>3. /\ filestack' = Front(filestack) /\ UNCHANGED <<ifdefs, conds, enabled>>
      /\ Len(filestack) > 1 /\ Top.kind = "file"
  BY DEF EndFile
<1>4. Len(parser) > 1  BY <1>3, Depth
<1>5. /\ IsSeq(Front(parser)) /\ Len(Front(parser)) = Len(parser) - 1
      /\ \A k \in 1..Len(parser) - 1 : Front(parser)[k] = parser[k]
  BY <1>1, FrontIs
<1>6. Len(Front(parser)) \in Nat \ {0} /\ \A k \in 1..Len(Front(parser)) : IsBlock(Front(parser)[k])
  <2>1. \A k \in 1..Len(parser) - 1 : k \in 1..Len(parser)  BY <1>1
  <2>2. Len(Front(parser)) \in Nat \ {0}  BY <1>1, <1>4, <1>5
  <2>3. ASSUME NEW k \in 1..Len(Front(parser)) PROVE IsBlock(Front(parser)[k])
    <3>1. k \in 1..Len(parser) - 1 /\ k \in 1..Len(parser)  BY <2>1, <1>5
    <3>2. Front(parser)[k] = parser[k] /\ IsBlock(parser[k])  BY <3>1, <1>1, <1>5
    <3> QED  BY <3>2
  <2> QED  BY <2>2, <2>3
<1>7. /\ IsSeq(parser') /\ Len(parser') = Len(Front(parser))
      /\ \A k \in 1..Len(Front(parser)) : /\ IsBlock(parser'[k])
                                          /\ parser'[k].kind = Front(parser)[k].kind
                                          /\ parser'[k].test = Front(parser)[k].test
  BY <1>2, <1>5, <1>6, AddingIs
<1>8. /\ IsSeq(filestack') /\ Len(filestack') = Len(filestack) - 1
      /\ \A k \in 1..Len(filestack) - 1 : filestack'[k] = filestack[k]
  BY <1>1, <1>3, FrontIs
<1>9. StacksOK'
  <2>1. \A k \in 1..Len(filestack') : IsLexer(filestack'[k])
    <3>1. \A k \in 1..Len(filestack) - 1 : k \in 1..Len(filestack)  BY <1>1
    <3> QED  BY <3>1, <1>1, <1>8
  <2>2. Len(filestack') > 0  BY <1>1, <1>3, <1>8
  <2> QED  BY <2>1, <2>2, <1>3, <1>7, <1>8 DEF PreprocInv, StacksOK
<1>10. Numbered(Len(filestack'), parser', {"file"}, <<>>)
  <2>1. parser[Len(parser)].kind \in {"file"}  BY <1>1, <1>3
  <2>2. \A w : (\A i \in 1..Len(filestack) - 1 : w[i] = <<>>[i]) => Numbered(Len(filestack) - 1, Front(parser), {"file"}, w)
    BY <2>1, <1>1, <1>5, NumberedPopped DEF PreprocInv
  <2>3. Numbered(Len(filestack) - 1, Front(parser), {"file"}, <<>>)  BY <2>2
  <2>4. Len(filestack) - 1 \in Nat  BY <1>1, <1>3
  <2>5. Numbered(Len(filestack) - 1, parser', {"file"}, <<>>)  BY <2>3, <2>4, <1>6, <1>7, NumberedSame
  <2> QED  BY <2>5, <1>8
<1>11. Numbered(Len(ifdefs'), parser', BlockKinds, Opened')
  <2>1. Opened' = Opened  BY <1>3 DEF Opened
  <2>2. parser[Len(parser)].kind \notin BlockKinds  BY <1>1, <1>3 DEF BlockKinds
  <2>3. Numbered(Len(ifdefs), Front(parser), BlockKinds, Opened)  BY <2>2, <1>1, <1>5, NumberedUncovered DEF PreprocInv
  <2>4. Numbered(Len(ifdefs), parser', BlockKinds, Opened)  BY <2>3, <1>1, <1>6, <1>7, NumberedSame
  <2> QED  BY <2>1, <2>4, <1>3
<1>12. EnabledIs'  BY <1>3 DEF PreprocInv, EnabledIs
<1> QED  BY <1>9, <1>10, <1>11, <1>12 DEF PreprocInv
---------------------------------------------------------------------------
(* The theorems.                                                           *)

\* At the start there is one file, the main one, and no block.
LEMMA InitKeeps == Init => PreprocInv
<1> SUFFICES ASSUME Init PROVE PreprocInv  OBVIOUS
<1> DEFINE block == OpenFile(Main)
           reading == Reading(Main)
           at == [i \in 1..1 |-> 1]
<1>1. IsBlock(block) /\ block.kind = "file" /\ IsLexer(reading)
  BY DEF IsBlock, Block, OpenFile, IsLexer, Reading, At
<1>2. parser = <<block>> /\ filestack = <<reading>> /\ ifdefs = <<>> /\ conds = <<>> /\ enabled = TRUE  BY DEF Init
<1> HIDE DEF block, reading
<1>3. /\ IsSeq(parser) /\ Len(parser) = 1 /\ parser[1] = block
      /\ IsSeq(filestack) /\ Len(filestack) = 1 /\ filestack[1] = reading
  <2>1. <<block>> \in Seq({block}) /\ <<reading>> \in Seq({reading})  OBVIOUS
  <2> QED  BY <2>1, <1>2 DEF IsSeq
<1>4. ifdefs \in Seq(BOOLEAN) /\ conds \in Seq(BOOLEAN) /\ Len(ifdefs) = 0 /\ Len(conds) = 0  BY <1>2
<1>5. StacksOK  BY <1>1, <1>2, <1>3, <1>4 DEF StacksOK
<1>6. InOrder(at, 1, parser, {"file"}, <<>>)
  <2>1. at \in [1..1 -> 1..1] /\ at[1] = 1 /\ \A i \in 1..1 : i = 1  OBVIOUS
  <2> HIDE DEF at
  <2> QED  BY <2>1, <1>1, <1>3 DEF InOrder
<1>7. InOrder(<<>>, 0, parser, BlockKinds, Opened)
  <2>1. <<>> \in [1..0 -> 1..1]  OBVIOUS
  <2>2. \A k \in 1..1 : parser[k].kind \notin BlockKinds  BY <1>1, <1>3 DEF BlockKinds
  <2>3. \A i \in 1..0 : FALSE  OBVIOUS
  <2> QED  BY <2>1, <2>2, <2>3, <1>3 DEF InOrder
<1>8. EnabledIs  BY <1>2, <1>4 DEF EnabledIs
<1> QED  BY <1>3, <1>4, <1>5, <1>6, <1>7, <1>8 DEF PreprocInv, Numbered

\* Every line read and every reduction keeps the stacks in agreement.
LEMMA StepKeeps == PreprocInv /\ [Next]_vars => PreprocInv'
<1> SUFFICES ASSUME PreprocInv, [Next]_vars PROVE PreprocInv'  OBVIOUS
<1>1. IsSeq(filestack) /\ \A k \in 1..Len(filestack) : IsLexer(filestack[k])  BY DEF PreprocInv, StacksOK
<1>2. ASSUME UNCHANGED vars PROVE PreprocInv'
  <2>1. UNCHANGED <<parser, filestack, ifdefs, conds, enabled>>  BY <1>2 DEF vars
  <2> QED  BY <2>1, <1>1, OutputGrows
<1>3. ASSUME SyntaxError PROVE PreprocInv'  BY <1>3, Advances, OutputGrows DEF SyntaxError
<1>4. ASSUME NEW m, Text(m) PROVE PreprocInv'  BY <1>4, Advances, OutputGrows DEF Text
<1>5. ASSUME NEW m, Undef(m) PROVE PreprocInv'  BY <1>5, Advances, OutputGrows DEF Undef
<1>6. ASSUME NEW m, NEW value, Define(m, value) PROVE PreprocInv'  BY <1>6, Advances, OutputGrows DEF Define
<1>7. ASSUME Conditional PROVE PreprocInv'
  <2>1. ASSUME NEW directive \in {"if", "ifdef", "ifndef"}, NEW m, IfHeader(directive, m) PROVE PreprocInv'
    BY <2>1, IfHeaderKeeps
  <2>2. ElseAstray => SyntaxError  BY DEF ElseAstray
  <2>3. EndIfAstray => SyntaxError  BY DEF EndIfAstray
  <2> QED  BY <2>1, <2>2, <2>3, <1>3, <1>7, ElseKeeps, EndIfKeeps DEF Conditional
<1>8. ASSUME Inclusion PROVE PreprocInv'
  <2> SUFFICES ASSUME NEW query, NEW local_first, NEW once,
                      \/ Include(query, local_first, once)
                      \/ IncludeNothing(query, local_first, once)
                      \/ IncludeMissing(query, local_first, once)
               PROVE PreprocInv'
    BY <1>8 DEF Inclusion
  <2>1. CASE Include(query, local_first, once)  BY <2>1, IncludeKeeps
  <2>2. CASE IncludeNothing(query, local_first, once)  BY <2>2, Advances, OutputGrows DEF IncludeNothing
  <2>3. CASE IncludeMissing(query, local_first, once)
    <3>1. SyntaxError  BY <2>3 DEF IncludeMissing
    <3> QED  BY <3>1, <1>3
  <2> QED  BY <2>1, <2>2, <2>3
<1>9. ASSUME EndInput PROVE PreprocInv'
  <2>1. UNCHANGED <<parser, filestack, ifdefs, conds, enabled>>  BY <1>9 DEF EndInput
  <2> QED  BY <2>1, <1>1, OutputGrows
<1>10. ASSUME PragmaOnce PROVE PreprocInv'  BY <1>10, Advances, OutputGrows DEF PragmaOnce
<1>11. ASSUME NEW n, NEW name, Line(n, name) PROVE PreprocInv'
  <2> DEFINE r == At(Lexer.file, Lexer.pos + 1, name, n + 1)
  <2>1. IsLexer(r)  BY DEF IsLexer, At
  <2>2. filestack' = Append(Front(filestack), r)  BY <1>11 DEF Line
  <2> HIDE DEF r
  <2>3. /\ IsSeq(filestack') /\ Len(filestack') = Len(filestack)
        /\ \A k \in 1..Len(filestack') : IsLexer(filestack'[k])
    BY <2>1, <2>2, LexerMoves
  <2>4. UNCHANGED <<ifdefs, conds, enabled>> /\ \E lines : parser' = Adding(parser, lines)  BY <1>11 DEF Line
  <2> QED  BY <2>3, <2>4, OutputGrows
<1> QED  BY <1>2, <1>4, <1>5, <1>6, <1>7, <1>8, <1>9, <1>10, <1>11, EndFileKeeps DEF Next

\* In any program the lexers, IFDEFS and CURRENT_FILE agree with the parser's stack.
THEOREM PreprocInvariant == Spec => []PreprocInv
<1> QED  BY InitKeeps, StepKeeps, PTL DEF Spec

\* ENABLED says whether all the conditions around hold, and each entry of
\* IFDEFS whether those outside its block do.
THEOREM EnabledIsRight == Spec => []EnabledRight
<1>1. PreprocInv => EnabledRight
  <2> SUFFICES ASSUME PreprocInv PROVE EnabledRight  OBVIOUS
  <2>1. /\ ifdefs \in Seq(BOOLEAN) /\ enabled \in BOOLEAN /\ DOMAIN ifdefs = 1..Len(ifdefs) /\ DOMAIN conds = 1..Len(conds)
        /\ \A i \in 1..Len(ifdefs) : ifdefs[i] \in BOOLEAN
    BY DEF PreprocInv, StacksOK
  <2>2. enabled <=> Shows  BY <2>1 DEF PreprocInv, EnabledIs, Shows
  <2>3. enabled = Shows  BY <2>1, <2>2 DEF Shows
  <2>4. ASSUME NEW i \in 1..Len(ifdefs) PROVE ifdefs[i] = \A j \in 1..i - 1 : conds[j]
    <3>1. ifdefs[i] <=> \A j \in 1..i - 1 : conds[j]  BY DEF PreprocInv, EnabledIs
    <3> QED  BY <3>1, <2>1
  <2> QED  BY <2>1, <2>3, <2>4 DEF EnabledRight
<1> QED  BY <1>1, PreprocInvariant, PTL

\* In a block one of whose conditions fails nothing is defined, undefined
\* nor read.
THEOREM DisabledIsInert == Spec => DisabledInert
<1>1. PreprocInv /\ [Next]_vars => [~Shows => id_table' = id_table /\ begun' = begun]_vars
  <2> SUFFICES ASSUME PreprocInv, Next, ~Shows PROVE id_table' = id_table /\ begun' = begun  OBVIOUS
  <2>1. ~enabled
    <3>1. DOMAIN conds = 1..Len(conds)  BY DEF PreprocInv, StacksOK
    <3> QED  BY <3>1 DEF PreprocInv, EnabledIs, Shows
  <2>2. ASSUME NEW m, Text(m) \/ Undef(m) PROVE id_table' = id_table /\ begun' = begun
    BY <2>1, <2>2 DEF Text, Undef
  <2>3. ASSUME NEW m, NEW value, Define(m, value) PROVE id_table' = id_table /\ begun' = begun
    BY <2>1, <2>3 DEF Define, Defined
  <2>4. ASSUME Conditional PROVE id_table' = id_table /\ begun' = begun
    BY <2>4 DEF Conditional, IfHeader, Else, ElseAstray, EndIf, EndIfAstray, SyntaxError
  <2>5. ASSUME Inclusion PROVE id_table' = id_table /\ begun' = begun
    BY <2>1, <2>5 DEF Inclusion, Include, IncludeNothing, IncludeMissing
  <2>6. ASSUME EndFile \/ EndInput \/ PragmaOnce PROVE id_table' = id_table /\ begun' = begun
    BY <2>6 DEF EndFile, EndInput, PragmaOnce
  <2>7. ASSUME NEW n, NEW name, Line(n, name) PROVE id_table' = id_table /\ begun' = begun  BY <2>7 DEF Line
  <2> QED  BY <2>2, <2>3, <2>4, <2>5, <2>6, <2>7 DEF Next
<1> QED  BY <1>1, PreprocInvariant, PTL DEF Spec, DisabledInert

\* A step that opens and closes no file.
LEMMA SameFiles ==
    ASSUME PreprocInv, FilesInv, UNCHANGED <<current_file, current_dir>>,
           NEW r, filestack' = filestack \/ (filestack' = Append(Front(filestack), r) /\ IsLexer(r) /\ r.file = Lexer.file)
    PROVE  FilesInv'
<1>1. Len(filestack) \in Nat \ {0} /\ Lexer = filestack[Len(filestack)]  BY Stacks
<1>2. CASE filestack' = filestack  BY <1>2 DEF FilesInv
<1>3. CASE filestack' = Append(Front(filestack), r) /\ IsLexer(r) /\ r.file = Lexer.file
  <2>1. /\ Len(filestack') = Len(filestack) /\ \A k \in 1..Len(filestack) - 1 : filestack'[k] = filestack[k]
        /\ filestack'[Len(filestack)] = r
    BY <1>3, LexerMoves
  <2>2. ASSUME NEW k \in 1..Len(filestack) PROVE filestack'[k].file = filestack[k].file
    <3>1. k = Len(filestack) \/ k \in 1..Len(filestack) - 1  BY <1>1
    <3> QED  BY <3>1, <2>1, <1>1, <1>3
  <2> QED  BY <2>1, <2>2 DEF FilesInv
<1> QED  BY <1>2, <1>3

\* Every step keeps CURRENT_FILE in agreement with the lexers, unless a file is empty.
LEMMA FilesKeep == ASSUME "empty" \notin Kinds, PreprocInv, FilesInv, [Next]_vars PROVE FilesInv'
<1>1. Len(filestack) \in Nat \ {0} /\ Lexer = filestack[Len(filestack)]  BY Stacks
<1>2. IsSeq(current_file) /\ Len(current_file) = Len(filestack) /\ IsSeq(filestack) /\ Len(filestack) > 0
  BY DEF FilesInv, PreprocInv, StacksOK
<1>3. IsLexer(Advanced(Lexer)) /\ Advanced(Lexer).file = Lexer.file  BY DEF IsLexer, Advanced, At
<1>4. ASSUME UNCHANGED <<current_file, current_dir>>, UNCHANGED filestack \/ Advance PROVE FilesInv'
  BY <1>3, <1>4, SameFiles DEF Advance
<1>5. UNCHANGED vars \/ EndInput => FilesInv'  BY <1>4 DEF vars, EndInput
<1>6. SyntaxError => FilesInv'  BY <1>4 DEF SyntaxError
<1>7. ASSUME NEW m, Text(m) \/ Undef(m) PROVE FilesInv'  BY <1>4, <1>7 DEF Text, Undef
<1>8. ASSUME NEW m, NEW value, Define(m, value) PROVE FilesInv'  BY <1>4, <1>8 DEF Define
<1>9. Conditional => FilesInv'
  BY <1>4, <1>6 DEF Conditional, IfHeader, Else, ElseAstray, EndIf, EndIfAstray
<1>10. PragmaOnce => FilesInv'  BY <1>4 DEF PragmaOnce
<1>11. ASSUME NEW n, NEW name, Line(n, name) PROVE FilesInv'
  <2> DEFINE r == At(Lexer.file, Lexer.pos + 1, name, n + 1)
  <2>1. IsLexer(r) /\ r.file = Lexer.file  BY DEF IsLexer, At
  <2>2. filestack' = Append(Front(filestack), r) /\ UNCHANGED <<current_file, current_dir>>  BY <1>11 DEF Line
  <2> HIDE DEF r
  <2> QED  BY <2>1, <2>2, SameFiles
<1>12. Inclusion => FilesInv'
  <2> SUFFICES ASSUME NEW query, NEW local_first, NEW once,
                      \/ Include(query, local_first, once)
                      \/ IncludeNothing(query, local_first, once)
                      \/ IncludeMissing(query, local_first, once)
               PROVE FilesInv'
    BY DEF Inclusion
  <2>1. CASE IncludeNothing(query, local_first, once)  BY <2>1, <1>4 DEF IncludeNothing
  <2>2. CASE IncludeMissing(query, local_first, once)  BY <2>2, <1>6 DEF IncludeMissing
  <2>3. CASE Include(query, local_first, once)
    <3>1. PICK file : /\ filestack' = Append(Append(Front(filestack), Advanced(Lexer)), Reading(file))
                      /\ current_file' = Append(current_file, file) /\ current_dir' = Dir(file)
      BY <2>3 DEF Include
    <3> DEFINE f == Append(Front(filestack), Advanced(Lexer))
               reading == Reading(file)
    <3>2. /\ IsSeq(f) /\ Len(f) = Len(filestack)
          /\ \A k \in 1..Len(filestack) - 1 : f[k] = filestack[k]
          /\ f[Len(filestack)] = Advanced(Lexer)
      BY <1>1, <1>2, LastReplaced
    <3>3. reading.file = file  BY DEF Reading, At
    <3> HIDE DEF f, reading
    <3>4. filestack' = Append(f, reading)  BY <3>1 DEF f, reading
    <3>5. /\ Len(Append(f, reading)) = Len(f) + 1
          /\ \A k \in 1..Len(f) : Append(f, reading)[k] = f[k]
          /\ Append(f, reading)[Len(f) + 1] = reading
      BY <3>2, AppendIs
    <3>6. /\ IsSeq(current_file') /\ Len(current_file') = Len(current_file) + 1
          /\ \A k \in 1..Len(current_file) : current_file'[k] = current_file[k]
          /\ current_file'[Len(current_file) + 1] = file
      BY <1>2, <3>1, AppendIs
    <3>7. ASSUME NEW k \in 1..Len(filestack') PROVE current_file'[k] = filestack'[k].file
      <4>1. CASE k = Len(filestack) + 1  BY <4>1, <1>2, <3>2, <3>3, <3>4, <3>5, <3>6
      <4>2. CASE k = Len(filestack)
        <5>1. filestack'[k] = Advanced(Lexer) /\ k \in 1..Len(filestack)  BY <4>2, <1>1, <3>2, <3>4, <3>5
        <5>2. current_file'[k] = current_file[k]  BY <5>1, <1>2, <3>6
        <5> QED  BY <5>1, <5>2, <4>2, <1>1, <1>3 DEF FilesInv
      <4>3. CASE k \in 1..Len(filestack) - 1
        <5>1. filestack'[k] = filestack[k] /\ k \in 1..Len(filestack)  BY <4>3, <1>1, <3>2, <3>4, <3>5
        <5>2. current_file'[k] = current_file[k]  BY <5>1, <1>2, <3>6
        <5> QED  BY <5>1, <5>2 DEF FilesInv
      <4>4. k = Len(filestack) + 1 \/ k = Len(filestack) \/ k \in 1..Len(filestack) - 1  BY <1>1, <3>2, <3>4, <3>5
      <4> QED  BY <4>1, <4>2, <4>3, <4>4
    <3>8. Len(current_file') = Len(filestack')  BY <1>2, <3>2, <3>4, <3>5, <3>6
    <3> QED  BY <3>1, <3>6, <3>7, <3>8 DEF FilesInv
  <2> QED  BY <2>1, <2>2, <2>3
<1>13. EndFile => FilesInv'
  <2> SUFFICES ASSUME EndFile PROVE FilesInv'  OBVIOUS
  <2>1. /\ filestack' = Front(filestack) /\ current_file' = Front(current_file)
        /\ current_dir' = DirAfter(Front(current_file)) /\ Len(filestack) > 1
    BY DEF EndFile
  <2>2. /\ Len(filestack') = Len(filestack) - 1 /\ \A k \in 1..Len(filestack) - 1 : filestack'[k] = filestack[k]
    BY <2>1, <1>2, FrontIs
  <2>3. /\ IsSeq(current_file') /\ Len(current_file') = Len(current_file) - 1
        /\ \A k \in 1..Len(current_file) - 1 : current_file'[k] = current_file[k]
    BY <2>1, <1>2, FrontIs
  <2>4. ASSUME NEW k \in 1..Len(filestack') PROVE current_file'[k] = filestack'[k].file
    <3>1. k \in 1..Len(filestack) - 1 /\ k \in 1..Len(filestack)  BY <1>1, <2>2
    <3> QED  BY <3>1, <1>2, <2>2, <2>3 DEF FilesInv
  <2>5. current_dir' = Dir(current_file'[Len(current_file')])  BY <2>1 DEF DirAfter, Last
  <2> QED  BY <2>2, <2>3, <2>4, <2>5, <1>2 DEF FilesInv
<1> QED  BY <1>5, <1>7, <1>8, <1>9, <1>10, <1>11, <1>12, <1>13 DEF Next

\* Where no file is without lines, CURRENT_FILE and CURRENT_DIR are those of
\* the file being read.
THEOREM CurrentFileIsRight == ASSUME "empty" \notin Kinds PROVE Spec => []CurrentFileRight
<1>1. Init => FilesInv
  <2> SUFFICES ASSUME Init PROVE FilesInv  OBVIOUS
  <2>1. filestack = <<Reading(Main)>> /\ current_file = <<Main>> /\ current_dir = Dir(Main)  BY DEF Init
  <2>2. <<Main>> \in Seq({Main})  OBVIOUS
  <2>3. IsSeq(current_file)  BY <2>1, <2>2 DEF IsSeq
  <2>4. Reading(Main).file = Main  BY DEF Reading, At
  <2> QED  BY <2>1, <2>3, <2>4 DEF FilesInv
<1>2. PreprocInv /\ FilesInv /\ [Next]_vars => FilesInv'  BY FilesKeep
<1>3. PreprocInv /\ FilesInv => CurrentFileRight
  <2> SUFFICES ASSUME PreprocInv, FilesInv PROVE CurrentFileRight  OBVIOUS
  <2>1. Len(filestack) \in Nat \ {0} /\ Lexer = filestack[Len(filestack)]  BY Stacks
  <2> QED  BY <2>1 DEF FilesInv, CurrentFileRight, Last
<1> QED  BY <1>1, <1>2, <1>3, PreprocInvariant, PTL DEF Spec
-----------------------------------------------------------------------------
(* The output.                                                              *)

\* What has been read of an output: its lines of text, and the place of the next
\* line.
After(x, l) ==
    [texts |-> IF l.kind = "text" THEN Append(x.texts, l) ELSE x.texts,
     pos |-> IF l.kind = "line" THEN <<l.file, l.number>> ELSE <<x.pos[1], x.pos[2] + 1>>]

\* A line of text is where it says, but for the files of R.
Fits(x, l, R) == l.kind = "text" => l.place = x.pos \/ l.place[1] \in R

Trace(at, lines, R) ==
    \A i \in 1..Len(lines) : at[i] = After(at[i - 1], lines[i]) /\ Fits(at[i - 1], lines[i], R)

\* Reading these lines leads from x to y.
Walk(x, lines, y, R) ==
    IsSeq(lines) /\ \E at : at[0] = x /\ at[Len(lines)] = y /\ Trace(at, lines, R)

\* What stays of a file or block that ends now, and whether its lines are kept, in
\* one whose lines are (live).
Keeps(b, live) ==
    IF ~live THEN <<>>
    ELSE IF b.kind = "file" THEN b.out
    ELSE IF b.kind = "if" THEN (IF b.test THEN b.out ELSE <<>>)
    ELSE b.before \o (IF b.test THEN <<>> ELSE b.out)
Live(b, live) == live /\ (b.kind = "if" => b.test) /\ (b.kind = "else" => ~b.test)

Level(x, b, y, R) ==
    /\ IsSeq(b.out) /\ IsSeq(b.before) /\ b.test \in BOOLEAN
    /\ y.live \in BOOLEAN /\ (y.live <=> Live(b, x.live))
    /\ y.blocks = x.blocks + (IF b.kind = "file" THEN 0 ELSE 1)
    /\ Walk(x.read, Keeps(b, x.live), y.read, R)

Start == [texts |-> <<>>, pos |-> <<Main, 0>>]
Bottom == [read |-> Start, live |-> TRUE, blocks |-> 0]

\* Z[i] is what the i outermost files and blocks lead to: what has been read,
\* whether what comes next is kept, and how many of them are blocks.
Levels(Z) ==
    /\ Z[0] = Bottom
    /\ \A i \in 1..Len(parser) : Level(Z[i - 1], parser[i], Z[i], Renumbered)

\* The blocks among them are those of IFDEFS, and the files those of the lexers.
Counted(Z) ==
    /\ \A i \in 0..Len(parser) : Z[i].blocks \in Nat
    /\ \A i, j \in 0..Len(parser) : i <= j =>
          Z[i].blocks <= Z[j].blocks /\ i - Z[i].blocks <= j - Z[j].blocks
    /\ Z[Len(parser)].blocks = Len(ifdefs)
    /\ Len(parser) - Len(ifdefs) = Len(filestack)
    /\ \A i \in 1..Len(parser) :
          /\ i - Z[i].blocks > 0
          /\ parser[i].kind = "file" /\ i # 1 => i - Z[i].blocks # 1
          /\ parser[i].kind # "file" => (ifdefs[Z[i].blocks] <=> Z[i - 1].live)
          /\ parser[i].kind = "file" => Len(parser[i].out) > 0 /\ parser[i].out[1].kind = "line"

\* The lines kept lead to where the innermost file is, and those around a file to
\* its #include.
Leads(Z) ==
    /\ enabled /\ Lexer.file \notin Renumbered =>
          Z[Len(parser)].read.pos = <<Lexer.file, Lexer.pos>>
    /\ \A i \in 1..Len(parser) : parser[i].kind = "file" /\ i # 1 =>
          LET r == filestack[i - Z[i].blocks - 1]
          IN  r.file \notin Renumbered => Z[i - 1].read.pos = <<r.file, r.pos - 1>>

\* What a lexer says of the place it is at, but for the files of R.
Straight(r, R) ==
    /\ r.file \in Files /\ r.pos \in Nat \ {0}
    /\ r.file \notin R => r.name = r.file /\ r.lineno = r.pos
LexersOK == \A k \in 1..Len(filestack) : Straight(filestack[k], Renumbered)

ContentOK == DOMAIN content = Files /\ \A f \in Files : IsSeq(content[f])

Stacked(Z) ==
    /\ Levels(Z) /\ Counted(Z) /\ (result = "open" => Leads(Z))
    /\ Z[Len(parser)].live <=> enabled
    /\ Z[Len(parser)].read.texts = shown

OutputInv ==
    /\ PreprocInv /\ LexersOK /\ ContentOK
    /\ \E Z : Stacked(Z)
    /\ OutputRight /\ PositionsRight
---------------------------------------------------------------------------
(* Reading.                                                                *)

\* No lines lead nowhere.
LEMMA WalkNothing == ASSUME NEW x, NEW R PROVE Walk(x, <<>>, x, R)
<1> DEFINE at == [i \in 0..0 |-> x]
<1>1. IsSeq(<<>>) /\ Len(<<>>) = 0
  <2>1. <<>> \in Seq({})  OBVIOUS
  <2> QED  BY <2>1 DEF IsSeq
<1>2. at[0] = x /\ at[Len(<<>>)] = x /\ Trace(at, <<>>, R)  BY <1>1 DEF Trace
<1> QED  BY <1>1, <1>2 DEF Walk

\* One line leads to what is after it.
LEMMA WalkLine == ASSUME NEW x, NEW l, NEW R, Fits(x, l, R) PROVE Walk(x, <<l>>, After(x, l), R)
<1> DEFINE at == [i \in 0..1 |-> IF i = 0 THEN x ELSE After(x, l)]
<1>1. IsSeq(<<l>>) /\ Len(<<l>>) = 1 /\ <<l>>[1] = l
  <2>1. <<l>> \in Seq({l})  OBVIOUS
  <2> QED  BY <2>1 DEF IsSeq
<1>2. at[0] = x /\ at[1] = After(x, l)  OBVIOUS
<1> HIDE DEF at
<1>3. Trace(at, <<l>>, R)
  <2> SUFFICES ASSUME NEW i \in 1..1
               PROVE  at[i] = After(at[i - 1], <<l>>[i]) /\ Fits(at[i - 1], <<l>>[i], R)
    BY <1>1 DEF Trace
  <2>1. i = 1 /\ i - 1 = 0  OBVIOUS
  <2> QED  BY <2>1, <1>1, <1>2
<1> QED  BY <1>1, <1>2, <1>3 DEF Walk

\* The first of them leads on to the second.
LEMMA WalkJoin ==
    ASSUME NEW x, NEW y, NEW z, NEW s, NEW t, NEW R, Walk(x, s, y, R), Walk(y, t, z, R)
    PROVE  Walk(x, s \o t, z, R)
<1>1. IsSeq(s) /\ IsSeq(t)  BY DEF Walk
<1>2. PICK a : a[0] = x /\ a[Len(s)] = y /\ Trace(a, s, R)  BY DEF Walk
<1>3. PICK b : b[0] = y /\ b[Len(t)] = z /\ Trace(b, t, R)  BY DEF Walk
<1> DEFINE m == Len(s)
           n == Len(t)
           at == [i \in 0..m + n |-> IF i <= m THEN a[i] ELSE b[i - m]]
<1>4. /\ IsSeq(s \o t) /\ Len(s \o t) = m + n /\ m \in Nat /\ n \in Nat
      /\ \A i \in 1..m : (s \o t)[i] = s[i]
      /\ \A i \in 1..n : (s \o t)[m + i] = t[i]
  BY <1>1, JoinIs
<1>5. \A i \in 0..m : at[i] = a[i]  BY <1>4
<1>6. \A i \in 0..n : at[m + i] = b[i]
  <2> SUFFICES ASSUME NEW i \in 0..n PROVE at[m + i] = b[i]  OBVIOUS
  <2>1. m + i \in 0..m + n /\ m + i - m = i  BY <1>4
  <2>2. CASE i = 0  BY <2>1, <2>2, <1>2, <1>3, <1>4
  <2>3. CASE i # 0
    <3>1. ~(m + i <= m)  BY <2>3, <1>4
    <3> QED  BY <3>1, <2>1
  <2> QED  BY <2>2, <2>3
<1> HIDE DEF at, m, n
<1>7. at[0] = x /\ at[m + n] = z  BY <1>2, <1>3, <1>4, <1>5, <1>6 DEF m, n
<1>8. Trace(at, s \o t, R)
  <2> SUFFICES ASSUME NEW i \in 1..m + n
               PROVE  /\ at[i] = After(at[i - 1], (s \o t)[i])
                      /\ Fits(at[i - 1], (s \o t)[i], R)
    BY <1>4 DEF Trace
  <2>1. CASE i <= m
    <3>1. i \in 1..m /\ i - 1 \in 0..m /\ i \in 0..m  BY <2>1, <1>4
    <3>2. at[i] = a[i] /\ at[i - 1] = a[i - 1] /\ (s \o t)[i] = s[i]  BY <3>1, <1>4, <1>5
    <3>3. a[i] = After(a[i - 1], s[i]) /\ Fits(a[i - 1], s[i], R)  BY <3>1, <1>2 DEF Trace, m
    <3> QED  BY <3>2, <3>3
  <2>2. CASE ~(i <= m)
    <3> DEFINE j == i - m
    <3>1. j \in 1..n /\ j - 1 \in 0..n /\ j \in 0..n /\ i = m + j /\ i - 1 = m + (j - 1)  BY <2>2, <1>4
    <3> HIDE DEF j
    <3>2. at[i] = b[j] /\ at[i - 1] = b[j - 1] /\ (s \o t)[i] = t[j]  BY <3>1, <1>4, <1>6
    <3>3. b[j] = After(b[j - 1], t[j]) /\ Fits(b[j - 1], t[j], R)  BY <3>1, <1>3 DEF Trace, n
    <3> QED  BY <3>2, <3>3
  <2> QED  BY <2>1, <2>2
<1> QED  BY <1>4, <1>7, <1>8 DEF Walk

\* More files may be renumbered.
LEMMA WalkMore ==
    ASSUME NEW x, NEW y, NEW s, NEW R, NEW Q, R \subseteq Q, Walk(x, s, y, R)
    PROVE  Walk(x, s, y, Q)
<1>1. PICK at : at[0] = x /\ at[Len(s)] = y /\ Trace(at, s, R)  BY DEF Walk
<1>2. Trace(at, s, Q)  BY <1>1 DEF Trace, Fits
<1> QED  BY <1>1, <1>2 DEF Walk

\* c is the file or block b with more lines.
Grown(b, c, live, lines) ==
    /\ Live(c, live) <=> Live(b, live)
    /\ Live(b, live) => Keeps(c, live) = Keeps(b, live) \o lines
    /\ ~Live(b, live) => Keeps(c, live) = Keeps(b, live)
    /\ IsSeq(c.out) /\ IsSeq(c.before) /\ c.test = b.test /\ c.kind = b.kind

\* The lines of a file or block, and more lines added to it.
LEMMA KeepsMore ==
    ASSUME NEW b, NEW live, NEW lines, b.kind \in {"file", "if", "else"},
           IsSeq(b.out), IsSeq(b.before), IsSeq(lines),
           NEW c, c = Block(b.kind, b.out \o lines, b.before, b.test)
    PROVE  Grown(b, c, live, lines)
<1>1. c.kind = b.kind /\ c.test = b.test /\ c.before = b.before /\ c.out = b.out \o lines  BY DEF Block
<1>2. IsSeq(c.out) /\ IsSeq(c.before)  BY <1>1, JoinIs
<1>6. b.before \o (b.out \o lines) = (b.before \o b.out) \o lines
  <2>1. PICK S, T, U : b.before \in Seq(S) /\ b.out \in Seq(T) /\ lines \in Seq(U)  BY DEF IsSeq
  <2>2. PICK V : V = S \cup T \cup U  OBVIOUS
  <2>3. S \subseteq V /\ T \subseteq V /\ U \subseteq V  BY <2>2
  <2>4. b.before \in Seq(V) /\ b.out \in Seq(V) /\ lines \in Seq(V)  BY <2>1, <2>3, SeqMonotonic
  <2>5. PICK s, t, u : s = b.before /\ t = b.out /\ u = lines  OBVIOUS
  <2>6. s \in Seq(V) /\ t \in Seq(V) /\ u \in Seq(V)  BY <2>4, <2>5
  <2>7. (s \o t) \o u = s \o (t \o u)  BY <2>6, ConcatAssociative
  <2> QED  BY <2>5, <2>7
<1>7. Live(c, live) <=> Live(b, live)  BY <1>1 DEF Live
<1>8. Live(b, live) => Keeps(c, live) = Keeps(b, live) \o lines  BY <1>1, <1>6 DEF Live, Keeps
<1>9. ~Live(b, live) => Keeps(c, live) = Keeps(b, live)  BY <1>1 DEF Live, Keeps
<1> QED  BY <1>1, <1>2, <1>7, <1>8, <1>9 DEF Grown

\* Reading nothing leads nowhere, and one line to what is after it.
LEMMA WalkStays == ASSUME NEW x, NEW y, NEW R, Walk(x, <<>>, y, R) PROVE x = y
<1>1. Len(<<>>) = 0  OBVIOUS
<1> QED  BY <1>1 DEF Walk

\* What one line led to.
LEMMA WalkOne == ASSUME NEW x, NEW y, NEW s, NEW R, Walk(x, s, y, R), Len(s) = 1 PROVE y = After(x, s[1])
<1>1. PICK at : at[0] = x /\ at[1] = y /\ Trace(at, s, R)  BY DEF Walk
<1>2. 1 \in 1..Len(s) /\ 1 - 1 = 0  OBVIOUS
<1>3. at[1] = After(at[0], s[1])  BY <1>1, <1>2 DEF Trace
<1> QED  BY <1>1, <1>3

\* More lines in a file or block lead on from where it led, if they are kept.
LEMMA LevelGrows ==
    ASSUME NEW x, NEW b, NEW y, NEW R, NEW Q, Level(x, b, y, R), R \subseteq Q, IsBlock(b),
           NEW lines, IsSeq(lines),
           NEW z, z.live = y.live, z.blocks = y.blocks,
           y.live => Walk(y.read, lines, z.read, Q),
           ~y.live => z.read = y.read
    PROVE  Level(x, Block(b.kind, b.out \o lines, b.before, b.test), z, Q)
<1> PICK c : c = Block(b.kind, b.out \o lines, b.before, b.test)  OBVIOUS
<1>1. b.kind \in {"file", "if", "else"} /\ IsSeq(b.out) /\ IsSeq(b.before)  BY DEF Level, IsBlock
<1>2. /\ Live(c, x.live) <=> Live(b, x.live)
      /\ Live(b, x.live) => Keeps(c, x.live) = Keeps(b, x.live) \o lines
      /\ ~Live(b, x.live) => Keeps(c, x.live) = Keeps(b, x.live)
      /\ IsSeq(c.out) /\ IsSeq(c.before) /\ c.test = b.test /\ c.kind = b.kind
  <2>1. Grown(b, c, x.live, lines)  BY <1>1, KeepsMore
  <2> QED  BY <2>1 DEF Grown
<1>3. /\ b.test \in BOOLEAN /\ y.live \in BOOLEAN /\ (y.live <=> Live(b, x.live))
      /\ y.blocks = x.blocks + (IF b.kind = "file" THEN 0 ELSE 1)
      /\ Walk(x.read, Keeps(b, x.live), y.read, R)
  BY DEF Level
<1>4. Walk(x.read, Keeps(b, x.live), y.read, Q)  BY <1>3, WalkMore
<1>5. Walk(x.read, Keeps(c, x.live), z.read, Q)
  <2>1. CASE y.live
    <3>1. Walk(x.read, Keeps(b, x.live) \o lines, z.read, Q)  BY <1>4, <2>1, WalkJoin
    <3> QED  BY <3>1, <1>2, <1>3, <2>1
  <2>2. CASE ~y.live  BY <1>2, <1>3, <1>4, <2>2
  <2> QED  BY <2>1, <2>2
<1>6. Level(x, c, z, Q)  BY <1>2, <1>3, <1>5 DEF Level
<1> QED  BY <1>6

\* More files may be renumbered.
LEMMA LevelMore ==
    ASSUME NEW x, NEW b, NEW y, NEW R, NEW Q, Level(x, b, y, R), R \subseteq Q
    PROVE  Level(x, b, y, Q)
<1>1. Walk(x.read, Keeps(b, x.live), y.read, Q)  BY WalkMore DEF Level
<1> QED  BY <1>1 DEF Level
---------------------------------------------------------------------------
(* Stacks.                                                                 *)

\* The k outermost files and blocks stay as they are; one is on top of them,
\* which leads to y.
Topped(Z, k, y) ==
    /\ Len(parser') = k + 1
    /\ \A i \in 1..k : parser'[i] = parser[i]
    /\ Level(Z[k], parser'[k + 1], y, Renumbered')
    /\ y.blocks = Len(ifdefs') /\ k + 1 - y.blocks = Len(filestack')
    /\ \A j \in 1..Z[k].blocks : ifdefs'[j] = ifdefs[j]
    /\ parser'[k + 1].kind # "file" => (ifdefs'[y.blocks] <=> Z[k].live)
    /\ parser'[k + 1].kind = "file" =>
          /\ Len(parser'[k + 1].out) > 0 /\ parser'[k + 1].out[1].kind = "line"
          /\ k # 0 =>
                /\ Len(filestack') # 1
                /\ LET r == filestack'[Len(filestack') - 1]
                   IN  r.file \notin Renumbered' => Z[k].read.pos = <<r.file, r.pos - 1>>
    /\ \A j \in 1..k - Z[k].blocks - 1 : filestack'[j] = filestack[j]
    /\ y.live <=> enabled'
    /\ y.read.texts = shown'
    /\ LET r == filestack'[Len(filestack')]
       IN  enabled' /\ r.file \notin Renumbered' => y.read.pos = <<r.file, r.pos>>

\* A step that leaves the k outermost as they are, with one on top of them.
LEMMA Restack ==
    ASSUME Len(parser) \in Nat, Len(filestack') > 0, Renumbered \subseteq Renumbered',
           NEW Z, Levels(Z), Counted(Z), Leads(Z),
           NEW k \in 0..Len(parser), NEW y, Topped(Z, k, y)
    PROVE  \E A : Stacked(A)'
<1>1. PICK A : A = [i \in 0..k + 1 |-> IF i = k + 1 THEN y ELSE Z[i]]  OBVIOUS
<1>2. /\ A[k + 1] = y /\ \A i \in 0..k : A[i] = Z[i]
      /\ \A i \in 0..k + 1 : i = k + 1 \/ i \in 0..k
      /\ \A i \in 1..k + 1 : i = k + 1 \/ i \in 1..k
      /\ \A i \in 1..k : i - 1 \in 0..k /\ i \in 0..k /\ i \in 1..Len(parser)
      /\ \A i \in 0..k : i \in 0..Len(parser)
      /\ 0 \in 0..k /\ k \in 0..k /\ k + 1 - 1 = k /\ k \in Nat
  BY <1>1
<1>3. /\ Len(parser') = k + 1 /\ \A i \in 1..k : parser'[i] = parser[i]
      /\ Level(Z[k], parser'[k + 1], y, Renumbered')
      /\ y.blocks = Len(ifdefs') /\ k + 1 - y.blocks = Len(filestack')
  BY DEF Topped
<1>4. Levels(A)'
  <2>1. A[0] = Bottom  BY <1>2 DEF Levels
  <2>2. ASSUME NEW i \in 1..k + 1 PROVE Level(A[i - 1], parser'[i], A[i], Renumbered')
    <3>1. CASE i = k + 1  BY <3>1, <1>2, <1>3
    <3>2. CASE i \in 1..k
      <4>1. A[i - 1] = Z[i - 1] /\ A[i] = Z[i] /\ parser'[i] = parser[i]  BY <3>2, <1>2, <1>3
      <4>2. Level(Z[i - 1], parser[i], Z[i], Renumbered)  BY <3>2, <1>2 DEF Levels
      <4>3. Level(Z[i - 1], parser[i], Z[i], Renumbered')  BY <4>2, LevelMore
      <4> QED  BY <4>1, <4>3
    <3> QED  BY <3>1, <3>2, <1>2
  <2> QED  BY <2>1, <2>2, <1>3 DEF Levels
<1>5. /\ \A i \in 0..k : Z[i].blocks \in Nat
      /\ \A i, j \in 0..k : i <= j => Z[i].blocks <= Z[j].blocks /\ i - Z[i].blocks <= j - Z[j].blocks
  BY <1>2 DEF Counted
<1>6. y.blocks = Z[k].blocks + (IF parser'[k + 1].kind = "file" THEN 0 ELSE 1)  BY <1>3 DEF Level
<1>7. /\ y.blocks \in Nat /\ Z[k].blocks \in Nat
      /\ y.blocks = Z[k].blocks \/ y.blocks = Z[k].blocks + 1
  <2>1. Z[k].blocks \in Nat  BY <1>2, <1>5
  <2> QED  BY <1>6, <2>1
<1>8. Counted(A)'
  <2>1. ASSUME NEW i \in 0..k + 1 PROVE A[i].blocks \in Nat  BY <1>2, <1>5, <1>7
  <2>2. ASSUME NEW i \in 0..k + 1, NEW j \in 0..k + 1, i <= j
        PROVE  A[i].blocks <= A[j].blocks /\ i - A[i].blocks <= j - A[j].blocks
    <3>1. CASE j = k + 1
      <4>1. CASE i = k + 1
        <5>1. A[i] = y /\ A[j] = y /\ i = j  BY <4>1, <3>1, <1>2
        <5>2. i - y.blocks <= i - y.blocks /\ y.blocks <= y.blocks  BY <1>2, <1>7, <4>1
        <5> QED  BY <5>1, <5>2
      <4>2. CASE i \in 0..k
        <5>1. A[i] = Z[i] /\ i <= k  BY <4>2, <1>2
        <5>2. Z[i].blocks <= Z[k].blocks /\ i - Z[i].blocks <= k - Z[k].blocks  BY <4>2, <5>1, <1>2, <1>5
        <5>3. Z[i].blocks \in Nat /\ Z[k].blocks \in Nat  BY <4>2, <1>2, <1>5
        <5>4. i \in Nat /\ k \in Nat  BY <1>2
        <5>5. Z[i].blocks <= y.blocks /\ i - Z[i].blocks <= (k + 1) - y.blocks
          <6>1. PICK a, c, e : a = Z[i].blocks /\ c = Z[k].blocks /\ e = y.blocks  OBVIOUS
          <6>2. a \in Nat /\ c \in Nat /\ e \in Nat /\ (e = c \/ e = c + 1)  BY <5>3, <6>1, <1>7
          <6>3. a <= c /\ i - a <= k - c  BY <5>2, <6>1
          <6>4. a <= e /\ i - a <= (k + 1) - e  BY <5>4, <6>2, <6>3
          <6> QED  BY <6>1, <6>4
        <5>6. A[j] = y  BY <3>1, <1>2
        <5>7. i - A[i].blocks <= (k + 1) - A[j].blocks /\ A[i].blocks <= A[j].blocks  BY <5>1, <5>5, <5>6
        <5> QED  BY <5>7, <3>1
      <4> QED  BY <4>1, <4>2, <1>2
    <3>2. CASE j \in 0..k
      <4>1. i \in 0..k  BY <3>2, <2>2
      <4> QED  BY <4>1, <3>2, <2>2, <1>2, <1>5
    <3> QED  BY <3>1, <3>2, <1>2
  <2>3. Len(parser') - Len(ifdefs') = Len(filestack') /\ A[Len(parser')].blocks = Len(ifdefs')
    BY <1>2, <1>3
  <2>4. ASSUME NEW i \in 1..k + 1
        PROVE  /\ i - A[i].blocks > 0
               /\ parser'[i].kind = "file" /\ i # 1 => i - A[i].blocks # 1
               /\ parser'[i].kind # "file" => (ifdefs'[A[i].blocks] <=> A[i - 1].live)
               /\ parser'[i].kind = "file" => Len(parser'[i].out) > 0 /\ parser'[i].out[1].kind = "line"
    <3>1. CASE i = k + 1
      <4>1. i - A[i].blocks = Len(filestack') /\ A[i] = y /\ A[i - 1] = Z[k]  BY <3>1, <1>2, <1>3
      <4>2. i # 1 => k # 0  BY <3>1
      <4>3. parser'[i].kind # "file" => (ifdefs'[y.blocks] <=> Z[k].live)  BY <3>1 DEF Topped
      <4>4. parser'[i].kind = "file" =>
               /\ Len(parser'[i].out) > 0 /\ parser'[i].out[1].kind = "line"
               /\ k # 0 => Len(filestack') # 1
        BY <3>1 DEF Topped
      <4> QED  BY <4>1, <4>2, <4>3, <4>4
    <3>2. CASE i \in 1..k
      <4>1. /\ A[i] = Z[i] /\ A[i - 1] = Z[i - 1] /\ parser'[i] = parser[i] /\ i \in 1..Len(parser)
            /\ i - 1 \in 0..k /\ i \in 0..k
        BY <3>2, <1>2, <1>3
      <4>2. /\ i - Z[i].blocks > 0
            /\ parser[i].kind = "file" /\ i # 1 => i - Z[i].blocks # 1
            /\ parser[i].kind # "file" => (ifdefs[Z[i].blocks] <=> Z[i - 1].live)
            /\ parser[i].kind = "file" => Len(parser[i].out) > 0 /\ parser[i].out[1].kind = "line"
        BY <4>1 DEF Counted
      <4>3. parser[i].kind # "file" => Z[i].blocks \in 1..Z[k].blocks
        <5>1. Level(Z[i - 1], parser[i], Z[i], Renumbered)  BY <4>1 DEF Levels
        <5>2. parser[i].kind # "file" => Z[i].blocks = Z[i - 1].blocks + 1  BY <5>1 DEF Level
        <5>3. k \in 0..k /\ i <= k  BY <3>2, <1>2
        <5>4. Z[i - 1].blocks \in Nat /\ Z[i].blocks \in Nat /\ Z[k].blocks \in Nat  BY <4>1, <5>3, <1>5
        <5>5. Z[i].blocks <= Z[k].blocks  BY <4>1, <5>3, <1>5
        <5>6. \A a, c, e : a \in Nat /\ c \in Nat /\ e \in Nat /\ c = a + 1 /\ c <= e => c \in 1..e  OBVIOUS
        <5> QED  BY <5>2, <5>4, <5>5, <5>6
      <4>4. parser[i].kind # "file" => ifdefs'[Z[i].blocks] = ifdefs[Z[i].blocks]  BY <4>3 DEF Topped
      <4> QED  BY <4>1, <4>2, <4>4
    <3> QED  BY <3>1, <3>2, <1>2
  <2> QED  BY <2>1, <2>2, <2>3, <2>4, <1>3 DEF Counted
<1>9. Leads(A)'
  <2>1. LET r == filestack'[Len(filestack')]
        IN  enabled' /\ r.file \notin Renumbered' => A[Len(parser')].read.pos = <<r.file, r.pos>>
    BY <1>2, <1>3 DEF Topped
  <2>2. ASSUME NEW i \in 1..k + 1, parser'[i].kind = "file", i # 1,
               NEW r, r = filestack'[i - A[i].blocks - 1], r.file \notin Renumbered'
        PROVE  A[i - 1].read.pos = <<r.file, r.pos - 1>>
    <3>1. CASE i = k + 1
      <4>1. i - A[i].blocks = Len(filestack') /\ A[i - 1] = Z[k] /\ k # 0  BY <3>1, <2>2, <1>2, <1>3
      <4>2. r = filestack'[Len(filestack') - 1]  BY <4>1, <2>2
      <4> QED  BY <4>1, <4>2, <3>1, <2>2 DEF Topped
    <3>2. CASE i \in 1..k
      <4>1. /\ A[i] = Z[i] /\ A[i - 1] = Z[i - 1] /\ parser'[i] = parser[i] /\ i \in 1..Len(parser)
            /\ i \in 0..k /\ i <= k
        BY <3>2, <1>2, <1>3
      <4>2. i - Z[i].blocks > 0 /\ i - Z[i].blocks # 1  BY <4>1, <2>2 DEF Counted
      <4>3. i - Z[i].blocks <= k - Z[k].blocks /\ Z[i].blocks \in Nat /\ Z[k].blocks \in Nat  BY <4>1, <1>2, <1>5
      <4>4. i - Z[i].blocks - 1 \in 1..k - Z[k].blocks - 1
        <5>1. PICK a, c : a = Z[i].blocks /\ c = Z[k].blocks  OBVIOUS
        <5>2. a \in Nat /\ c \in Nat /\ i \in Nat /\ k \in Nat  BY <4>3, <5>1, <1>2
        <5>3. i - a > 0 /\ i - a # 1 /\ i - a <= k - c  BY <4>2, <4>3, <5>1
        <5>4. i - a - 1 \in 1..k - c - 1  BY <5>2, <5>3
        <5> QED  BY <5>1, <5>4
      <4>5. r = filestack[i - Z[i].blocks - 1]  BY <4>1, <4>4, <2>2 DEF Topped
      <4>6. r.file \notin Renumbered  BY <2>2
      <4> QED  BY <4>1, <4>5, <4>6, <2>2 DEF Leads
    <3> QED  BY <3>1, <3>2, <1>2
  <2>3. ASSUME NEW i \in 1..Len(parser'), parser'[i].kind = "file" /\ i # 1
        PROVE  LET r == filestack'[i - A[i].blocks - 1]
               IN  r.file \notin Renumbered' => A[i - 1].read.pos = <<r.file, r.pos - 1>>
    BY <2>2, <2>3, <1>3
  <2> QED  BY <2>1, <2>3, <1>3 DEF Leads, Lexer, Last
<1>10. (A[Len(parser')].live <=> enabled') /\ A[Len(parser')].read.texts = shown'
  BY <1>2, <1>3 DEF Topped
<1> QED  BY <1>4, <1>8, <1>9, <1>10 DEF Stacked

\* The q outermost files and blocks are left, and lines are added to the innermost of
\* them, which lead to z if they are kept.
Gained(Z, q, lines, z) ==
    /\ Len(parser') = q /\ \A i \in 1..q - 1 : parser'[i] = parser[i]
    /\ parser'[q] = Block(parser[q].kind, parser[q].out \o lines, parser[q].before, parser[q].test)
    /\ Len(ifdefs') = Z[q].blocks /\ \A j \in 1..Z[q].blocks : ifdefs'[j] = ifdefs[j]
    /\ Len(filestack') = q - Z[q].blocks
    /\ \A j \in 1..Len(filestack') - 1 : filestack'[j] = filestack[j]
    /\ Z[q].live <=> enabled'
    /\ Z[q].live => Walk(Z[q].read, lines, z, Renumbered') /\ z.texts = shown'
    /\ ~Z[q].live => Z[q].read.texts = shown'
    /\ LET r == filestack'[Len(filestack')]
       IN  Z[q].live /\ r.file \notin Renumbered' => z.pos = <<r.file, r.pos>>

\* A step that adds lines to what is innermost after it.
LEMMA Gains ==
    ASSUME Len(parser) \in Nat, Len(filestack') > 0, Renumbered \subseteq Renumbered',
           NEW Z, Levels(Z), Counted(Z), Leads(Z),
           NEW q \in 1..Len(parser), IsBlock(parser[q]),
           NEW lines, IsSeq(lines), NEW z, Gained(Z, q, lines, z)
    PROVE  \E A : Stacked(A)'
<1> USE DEF Gained
<1> DEFINE r == filestack'[Len(filestack')]
<1>1. PICK y : /\ y.live = Z[q].live /\ y.blocks = Z[q].blocks
               /\ y.read = IF Z[q].live THEN z ELSE Z[q].read
  <2> DEFINE w == [read |-> IF Z[q].live THEN z ELSE Z[q].read, live |-> Z[q].live, blocks |-> Z[q].blocks]
  <2>1. /\ w.live = Z[q].live /\ w.blocks = Z[q].blocks
        /\ w.read = IF Z[q].live THEN z ELSE Z[q].read
    OBVIOUS
  <2> HIDE DEF w
  <2> QED  BY <2>1
<1>2. PICK k : k = q - 1  OBVIOUS
<1>3. /\ k \in 0..Len(parser) /\ k + 1 = q /\ q - 1 = k /\ k \in Nat /\ k <= q
      /\ k \in 0..Len(parser) /\ q \in 0..Len(parser) /\ (q # 1 <=> k # 0)
  BY <1>2
<1>4. Level(Z[k], parser[q], Z[q], Renumbered)  BY <1>3 DEF Levels
<1>5. PICK c : c = parser'[q]  OBVIOUS
<1>6. Level(Z[k], c, y, Renumbered')
  <2>1. PICK b : b = parser[q]  OBVIOUS
  <2>2. PICK x, v : x = Z[k] /\ v = Z[q]  OBVIOUS
  <2>3. PICK R, Q : R = Renumbered /\ Q = Renumbered'  OBVIOUS
  <2>4. Level(x, b, v, R) /\ R \subseteq Q /\ IsBlock(b)  BY <1>4, <2>1, <2>2, <2>3
  <2>5. y.live = v.live /\ y.blocks = v.blocks  BY <1>1, <2>2
  <2>6. (v.live => Walk(v.read, lines, y.read, Q)) /\ (~v.live => y.read = v.read)
    BY <1>1, <2>2, <2>3
  <2>7. Level(x, Block(b.kind, b.out \o lines, b.before, b.test), y, Q)
    BY <2>4, <2>5, <2>6, LevelGrows
  <2> QED  BY <2>1, <2>2, <2>3, <2>7, <1>5
<1>7. /\ c.kind = parser[q].kind
      /\ parser[q].kind = "file" => /\ Len(parser[q].out) > 0 /\ parser[q].out[1].kind = "line"
                                    /\ Len(c.out) > 0 /\ c.out[1].kind = "line"
  <2>1. c.kind = parser[q].kind /\ c.out = parser[q].out \o lines  BY <1>5 DEF Block
  <2>2. IsSeq(parser[q].out)  BY <1>4 DEF Level
  <2>3. parser[q].kind = "file" => Len(parser[q].out) > 0 /\ parser[q].out[1].kind = "line"
    BY DEF Counted
  <2>4. PICK s : s = parser[q].out  OBVIOUS
  <2>5. /\ Len(s \o lines) = Len(s) + Len(lines) /\ Len(s) \in Nat /\ Len(lines) \in Nat
        /\ \A i \in 1..Len(s) : (s \o lines)[i] = s[i]
    BY <2>2, <2>4, JoinIs
  <2>6. Len(s) > 0 => Len(s \o lines) > 0 /\ (s \o lines)[1] = s[1]  BY <2>5
  <2> QED  BY <2>1, <2>3, <2>4, <2>6
<1>8. /\ Z[k].blocks \in Nat /\ Z[q].blocks \in Nat /\ Z[k].blocks <= Z[q].blocks
      /\ k - Z[k].blocks <= q - Z[q].blocks
  BY <1>3 DEF Counted
<1>9. Topped(Z, k, y)
  <2>1. Len(parser') = k + 1 /\ \A i \in 1..k : parser'[i] = parser[i]  BY <1>3
  <2>2. y.blocks = Len(ifdefs') /\ k + 1 - y.blocks = Len(filestack')
    <3>1. PICK e : e = Z[q].blocks  OBVIOUS
    <3>2. e \in Nat  BY <3>1, <1>8
    <3>3. k + 1 - e = q - e  BY <3>2, <1>3
    <3> QED  BY <3>1, <3>3, <1>1
  <2>3. \A j \in 1..Z[k].blocks : ifdefs'[j] = ifdefs[j]
    <3>1. \A j \in 1..Z[k].blocks : j \in 1..Z[q].blocks  BY <1>8
    <3> QED  BY <3>1
  <2>4. c.kind # "file" => (ifdefs'[y.blocks] <=> Z[k].live)
    <3>1. ASSUME c.kind # "file" PROVE ifdefs[Z[q].blocks] <=> Z[k].live
      BY <3>1, <1>3, <1>7 DEF Counted
    <3>2. ASSUME c.kind # "file" PROVE Z[q].blocks \in 1..Z[q].blocks
      <4>1. Z[q].blocks = Z[k].blocks + 1  BY <3>2, <1>4, <1>7 DEF Level
      <4> QED  BY <4>1, <1>8
    <3>3. c.kind # "file" => ifdefs'[Z[q].blocks] = ifdefs[Z[q].blocks]  BY <3>2
    <3> QED  BY <3>1, <3>3, <1>1
  <2>5. ASSUME c.kind = "file", k # 0
        PROVE  /\ Len(filestack') # 1
               /\ LET e == filestack'[Len(filestack') - 1]
                  IN  e.file \notin Renumbered' => Z[k].read.pos = <<e.file, e.pos - 1>>
    <3>1. parser[q].kind = "file" /\ q # 1  BY <2>5, <1>3, <1>7
    <3>2. q - Z[q].blocks # 1 /\ q - Z[q].blocks > 0  BY <3>1 DEF Counted
    <3>3. PICK m : m = Len(filestack')  OBVIOUS
    <3>4. m = q - Z[q].blocks /\ m # 1 /\ m > 0 /\ m \in Int  BY <3>2, <3>3, <1>3, <1>8
    <3>5. m - 1 \in 1..m - 1  BY <3>4
    <3>6. filestack'[m - 1] = filestack[m - 1]  BY <3>3, <3>5
    <3>7. PICK e : e = filestack[m - 1]  OBVIOUS
    <3>8. e.file \notin Renumbered => Z[q - 1].read.pos = <<e.file, e.pos - 1>>
      BY <3>1, <3>4, <3>7 DEF Leads
    <3>9. e.file \notin Renumbered' => e.file \notin Renumbered  OBVIOUS
    <3>10. Z[q - 1] = Z[k]  BY <1>3
    <3> QED  BY <3>3, <3>4, <3>6, <3>7, <3>8, <3>9, <3>10
  <2>6. \A j \in 1..k - Z[k].blocks - 1 : filestack'[j] = filestack[j]
    <3>1. \A j \in 1..k - Z[k].blocks - 1 : j \in 1..Len(filestack') - 1
      <4>1. PICK a, e, m : a = Z[k].blocks /\ e = Z[q].blocks /\ m = Len(filestack')  OBVIOUS
      <4>2. a \in Nat /\ e \in Nat /\ m = q - e /\ k - a <= m  BY <4>1, <1>8
      <4>3. \A j \in 1..k - a - 1 : j \in 1..m - 1  BY <4>2, <1>3
      <4> QED  BY <4>1, <4>3
    <3> QED  BY <3>1
  <2>7. y.live <=> enabled'  BY <1>1
  <2>8. y.read.texts = shown'  BY <1>1
  <2>9. enabled' /\ r.file \notin Renumbered' => y.read.pos = <<r.file, r.pos>>  BY <1>1
  <2> QED  BY <2>1, <2>2, <2>3, <2>4, <2>5, <2>6, <2>7, <2>8, <2>9, <1>3, <1>5, <1>6, <1>7 DEF Topped
<1> QED  BY <1>3, <1>9, Restack

\* What is on top of the stacks.
LEMMA OnTop ==
    ASSUME PreprocInv, NEW Z, Stacked(Z), result = "open"
    PROVE  /\ Levels(Z) /\ Counted(Z) /\ Leads(Z)
           /\ Len(parser) \in Nat \ {0} /\ Len(filestack) \in Nat \ {0} /\ Len(ifdefs) \in Nat
           /\ Z[Len(parser)].blocks = Len(ifdefs) /\ Len(parser) - Len(ifdefs) = Len(filestack)
           /\ Z[Len(parser)].live <=> enabled
           /\ Z[Len(parser)].read.texts = shown
           /\ Level(Z[Len(parser) - 1], Top, Z[Len(parser)], Renumbered)
           /\ Top = parser[Len(parser)] /\ IsBlock(Top)
           /\ Lexer = filestack[Len(filestack)]
           /\ enabled /\ Lexer.file \notin Renumbered => Z[Len(parser)].read.pos = Here
<1>1. /\ Len(parser) \in Nat \ {0} /\ Len(filestack) \in Nat \ {0} /\ Len(ifdefs) \in Nat
      /\ Top = parser[Len(parser)] /\ Lexer = filestack[Len(filestack)]
  BY Stacks
<1>2. IsBlock(Top)  BY <1>1 DEF PreprocInv, StacksOK
<1>3. Levels(Z) /\ Counted(Z) /\ Leads(Z)  BY DEF Stacked
<1>4. Level(Z[Len(parser) - 1], Top, Z[Len(parser)], Renumbered)  BY <1>1, <1>3 DEF Levels
<1>5. Z[Len(parser)].blocks = Len(ifdefs) /\ Len(parser) - Len(ifdefs) = Len(filestack)
  BY <1>3 DEF Counted
<1>6. enabled /\ Lexer.file \notin Renumbered => Z[Len(parser)].read.pos = Here
  BY <1>3 DEF Leads, Here
<1> QED  BY <1>1, <1>2, <1>3, <1>4, <1>5, <1>6 DEF Stacked

\* What Adding puts on top.
LEMMA AddingTop ==
    ASSUME NEW s, NEW lines, IsSeq(s), Len(s) \in Nat \ {0}, NEW b, b = s[Len(s)]
    PROVE  /\ Len(Adding(s, lines)) = Len(s)
           /\ \A k \in 1..Len(s) - 1 : Adding(s, lines)[k] = s[k]
           /\ Adding(s, lines)[Len(s)] = Block(b.kind, b.out \o lines, b.before, b.test)
<1> DEFINE e == Block(b.kind, b.out \o lines, b.before, b.test)
<1>1. Adding(s, lines) = Append(Front(s), e)  BY DEF Adding, Last
<1> HIDE DEF e
<1>2. /\ Len(Append(Front(s), e)) = Len(s)
      /\ \A k \in 1..Len(s) - 1 : Append(Front(s), e)[k] = s[k]
      /\ Append(Front(s), e)[Len(s)] = e
  BY LastReplaced
<1> QED  BY <1>1, <1>2 DEF e

\* A line is added to the innermost file or block, and the lexer goes on to the next.
LEMMA LineGains ==
    ASSUME PreprocInv, NEW Z, Stacked(Z), result = "open", Renumbered \subseteq Renumbered',
           NEW l, parser' = Adding(parser, <<l>>), UNCHANGED <<ifdefs, enabled>>,
           NEW r, IsLexer(r), r.file = Lexer.file, r.pos = Lexer.pos + 1,
           filestack' = Append(Front(filestack), r),
           l.kind = "text" => l.place = Here /\ shown' = IF enabled THEN Append(shown, l) ELSE shown,
           l.kind # "text" => shown' = shown,
           l.kind = "line" /\ r.file \notin Renumbered' => <<l.file, l.number>> = <<r.file, r.pos>>
    PROVE  \E A : Stacked(A)'
<1>1. PICK n : n = Len(parser)  OBVIOUS
<1>2. /\ Levels(Z) /\ Counted(Z) /\ Leads(Z)
      /\ n \in Nat \ {0} /\ Len(filestack) \in Nat \ {0} /\ Len(ifdefs) \in Nat
      /\ Z[n].blocks = Len(ifdefs) /\ n - Len(ifdefs) = Len(filestack)
      /\ Z[n].live <=> enabled
      /\ Z[n].read.texts = shown
      /\ Top = parser[n] /\ IsBlock(Top)
      /\ enabled /\ Lexer.file \notin Renumbered => Z[n].read.pos = Here
  BY <1>1, OnTop
<1>3. /\ Len(filestack') = Len(filestack)
      /\ \A k \in 1..Len(filestack) - 1 : filestack'[k] = filestack[k]
      /\ filestack'[Len(filestack)] = r
  BY LexerMoves
<1>4. /\ Len(parser') = n /\ \A k \in 1..n - 1 : parser'[k] = parser[k]
      /\ parser'[n] = Block(parser[n].kind, parser[n].out \o <<l>>, parser[n].before, parser[n].test)
  <2>1. IsSeq(parser)  BY DEF PreprocInv, StacksOK
  <2> QED  BY <2>1, <1>1, <1>2, AddingTop
<1>5. PICK z : z = After(Z[n].read, l)  OBVIOUS
<1>6. IsSeq(<<l>>)
  <2>1. <<l>> \in Seq({l})  OBVIOUS
  <2> QED  BY <2>1 DEF IsSeq
<1>7. Here = <<Lexer.file, Lexer.pos>> /\ Here[1] = Lexer.file /\ Here[2] = Lexer.pos  BY DEF Here
<1>8. enabled => Walk(Z[n].read, <<l>>, z, Renumbered')
  <2>1. enabled => Fits(Z[n].read, l, Renumbered')  BY <1>2, <1>7 DEF Fits
  <2> QED  BY <2>1, <1>5, WalkLine
<1>9. enabled => z.texts = shown'  BY <1>2, <1>5 DEF After
<1>10. ~enabled => Z[n].read.texts = shown'  BY <1>2
<1>11. enabled /\ r.file \notin Renumbered' => z.pos = <<r.file, r.pos>>
  <2>1. CASE l.kind = "line"  BY <2>1, <1>5 DEF After
  <2>2. CASE l.kind # "line"
    <3>1. z.pos = <<Z[n].read.pos[1], Z[n].read.pos[2] + 1>>  BY <2>2, <1>5 DEF After
    <3> QED  BY <3>1, <1>2, <1>7
  <2> QED  BY <2>1, <2>2
<1>12. n \in 1..Len(parser) /\ IsBlock(parser[n]) /\ Len(parser) \in Nat /\ Len(filestack') > 0
  BY <1>1, <1>2, <1>3
<1>13. /\ Len(ifdefs') = Z[n].blocks /\ \A j \in 1..Z[n].blocks : ifdefs'[j] = ifdefs[j]
       /\ Len(filestack') = n - Z[n].blocks
       /\ \A j \in 1..Len(filestack') - 1 : filestack'[j] = filestack[j]
       /\ (Z[n].live <=> enabled') /\ r = filestack'[Len(filestack')]
  BY <1>2, <1>3
<1>14. Gained(Z, n, <<l>>, z)  BY <1>2, <1>4, <1>8, <1>9, <1>10, <1>11, <1>13 DEF Gained
<1> QED  BY <1>2, <1>6, <1>12, <1>14, Gains

\* A line read changes what is known of one file, at its end, if anything.
LEMMA ReadsOn ==
    ASSUME PreprocInv, LexersOK, ContentOK, NEW line, Reads(line)
    PROVE  /\ ContentOK' /\ Renumbered \subseteq Renumbered' /\ result = "open"
           /\ line.kind = "line" => Lexer.file \in Renumbered'
<1> PICK f : f = Lexer.file  OBVIOUS
<1>1. f \in Files /\ Lexer.pos \in Nat \ {0}
  <2>1. Len(filestack) \in Nat \ {0} /\ Lexer = filestack[Len(filestack)]  BY Stacks
  <2> QED  BY <2>1 DEF LexersOK, Straight
<1>2. IsSeq(content[f]) /\ Len(content[f]) \in Nat /\ DOMAIN content[f] = 1..Len(content[f])
  BY <1>1 DEF ContentOK, IsSeq
<1>3. CASE Lexer.pos <= Len(content[f]) /\ content[f][Lexer.pos] = line /\ UNCHANGED content
  <2>1. Lexer.pos \in DOMAIN content[f]  BY <1>1, <1>2, <1>3
  <2>2. Renumbered' = Renumbered  BY <1>3 DEF Renumbered
  <2>3. line.kind = "line" => f \in Renumbered  BY <2>1, <1>1, <1>3 DEF Renumbered
  <2>4. ContentOK'  BY <1>3 DEF ContentOK
  <2> QED  BY <2>2, <2>3, <2>4 DEF Reads
<1>4. CASE content' = [content EXCEPT ![f] = Append(@, line)]
  <2>1. /\ IsSeq(Append(content[f], line)) /\ Len(Append(content[f], line)) = Len(content[f]) + 1
        /\ \A k \in 1..Len(content[f]) : Append(content[f], line)[k] = content[f][k]
        /\ Append(content[f], line)[Len(content[f]) + 1] = line
    BY <1>2, AppendIs
  <2>2. DOMAIN content = Files  BY DEF ContentOK
  <2>3. /\ DOMAIN content' = Files /\ content'[f] = Append(content[f], line)
        /\ \A g \in Files : g # f => content'[g] = content[g]
    BY <1>1, <1>4, <2>2
  <2>4. ContentOK'
    <3>1. ASSUME NEW g \in Files PROVE IsSeq(content'[g])
      BY <2>1, <2>3 DEF ContentOK
    <3> QED  BY <2>3, <3>1 DEF ContentOK
  <2>5. DOMAIN content'[f] = 1..Len(content[f]) + 1
    <3>1. IsSeq(content'[f]) /\ Len(content'[f]) = Len(content[f]) + 1  BY <2>1, <2>3
    <3> QED  BY <3>1 DEF IsSeq
  <2>6. ASSUME NEW g \in Files, NEW i \in DOMAIN content[g], content[g][i].kind = "line"
        PROVE  \E j \in DOMAIN content'[g] : content'[g][j].kind = "line"
    <3>1. CASE g = f
      <4>1. i \in 1..Len(content[f]) /\ i \in 1..Len(content[f]) + 1  BY <2>6, <3>1, <1>2
      <4>2. content'[f][i] = content[f][i] /\ i \in DOMAIN content'[f]  BY <4>1, <2>1, <2>3, <2>5
      <4> QED  BY <4>2, <3>1, <2>6
    <3>2. CASE g # f  BY <3>2, <2>3, <2>6
    <3> QED  BY <3>1, <3>2
  <2>7. Renumbered \subseteq Renumbered'  BY <2>6 DEF Renumbered
  <2>8. line.kind = "line" => f \in Renumbered'
    <3>1. Len(content[f]) + 1 \in DOMAIN content'[f] /\ content'[f][Len(content[f]) + 1] = line
      BY <1>2, <2>1, <2>3, <2>5
    <3> QED  BY <3>1, <1>1 DEF Renumbered
  <2> QED  BY <2>4, <2>7, <2>8 DEF Reads
<1> QED  BY <1>3, <1>4 DEF Reads
---------------------------------------------------------------------------
(* Steps.                                                                  *)

\* An invariant that speaks of the output holds while there is none.
LEMMA NotDone ==
    ASSUME PreprocInv', LexersOK', ContentOK', \E Z : Stacked(Z)', result' # "done"
    PROVE  OutputInv'
<1>1. OutputRight' /\ PositionsRight'  BY DEF OutputRight, PositionsRight
<1> QED  BY <1>1 DEF OutputInv

\* The lexer of the file being read goes on, and may say so.
LEMMA LexersGo ==
    ASSUME PreprocInv, LexersOK, Renumbered \subseteq Renumbered',
           NEW r, filestack' = Append(Front(filestack), r), Straight(r, Renumbered'), IsLexer(r)
    PROVE  LexersOK'
<1>1. /\ Len(filestack') = Len(filestack) /\ Len(filestack) \in Nat \ {0}
      /\ \A k \in 1..Len(filestack) - 1 : filestack'[k] = filestack[k]
      /\ filestack'[Len(filestack)] = r
  BY LexerMoves, Stacks
<1>2. ASSUME NEW k \in 1..Len(filestack) PROVE Straight(filestack'[k], Renumbered')
  <2>1. CASE k = Len(filestack)  BY <2>1, <1>1
  <2>2. CASE k \in 1..Len(filestack) - 1
    <3>1. k \in 1..Len(filestack)  OBVIOUS
    <3>2. Straight(filestack[k], Renumbered)  BY <3>1 DEF LexersOK
    <3>3. Straight(filestack[k], Renumbered')  BY <3>2 DEF Straight
    <3> QED  BY <3>3, <2>2, <1>1
  <2>3. k = Len(filestack) \/ k \in 1..Len(filestack) - 1  BY <1>1
  <2> QED  BY <2>1, <2>2, <2>3
<1> QED  BY <1>1, <1>2 DEF LexersOK

\* The lexer on the next line.
LEMMA AdvancedIs ==
    ASSUME PreprocInv, LexersOK, Renumbered \subseteq Renumbered'
    PROVE  /\ IsLexer(Advanced(Lexer)) /\ Advanced(Lexer).file = Lexer.file
           /\ Advanced(Lexer).pos = Lexer.pos + 1
           /\ Straight(Advanced(Lexer), Renumbered')
           /\ Straight(Lexer, Renumbered)
           /\ Lexer.file \notin Renumbered' =>
                 Lexer.name = Lexer.file /\ Lexer.lineno + 1 = Lexer.pos + 1
<1>1. Len(filestack) \in Nat \ {0} /\ Lexer = filestack[Len(filestack)]  BY Stacks
<1>2. Straight(Lexer, Renumbered)  BY <1>1 DEF LexersOK
<1>3. PICK a : a = Lexer  OBVIOUS
<1>4. PICK b : b = Advanced(a)  OBVIOUS
<1>5. b.file = a.file /\ b.pos = a.pos + 1 /\ b.name = a.name /\ b.lineno = a.lineno + 1 /\ IsLexer(b)
  BY <1>4 DEF Advanced, At, IsLexer
<1>6. Straight(b, Renumbered')  BY <1>2, <1>3, <1>5 DEF Straight
<1>7. Lexer.file \notin Renumbered' => Lexer.name = Lexer.file /\ Lexer.lineno = Lexer.pos
  BY <1>2 DEF Straight
<1> QED  BY <1>2, <1>3, <1>4, <1>5, <1>6, <1>7

\* A line is read that gives the line l of output.
LineRead(l, r) ==
    /\ parser' = Adding(parser, <<l>>) /\ UNCHANGED <<ifdefs, enabled, result>>
    /\ IsLexer(r) /\ r.file = Lexer.file /\ r.pos = Lexer.pos + 1 /\ Straight(r, Renumbered')
    /\ filestack' = Append(Front(filestack), r)
    /\ l.kind = "text" => l.place = Here /\ shown' = IF enabled THEN Append(shown, l) ELSE shown
    /\ l.kind # "text" => shown' = shown
    /\ l.kind = "line" /\ r.file \notin Renumbered' => <<l.file, l.number>> = <<r.file, r.pos>>

\* Such a step keeps the invariant.
LEMMA LineKeeps ==
    ASSUME OutputInv, PreprocInv', NEW line, Reads(line), NEW l, NEW r, LineRead(l, r)
    PROVE  OutputInv'
<1>1. PreprocInv /\ LexersOK /\ ContentOK  BY DEF OutputInv
<1>2. ContentOK' /\ Renumbered \subseteq Renumbered' /\ result = "open"  BY <1>1, ReadsOn
<1>3. PICK Z : Stacked(Z)  BY DEF OutputInv
<1>4. \E A : Stacked(A)'  BY <1>1, <1>2, <1>3, LineGains DEF LineRead
<1>5. LexersOK'  BY <1>1, <1>2, LexersGo DEF LineRead
<1>6. result' # "done"  BY <1>2 DEF LineRead
<1> QED  BY <1>2, <1>4, <1>5, <1>6, NotDone

\* What ENABLED says of the conditions around.
LEMMA ShowsIs == ASSUME PreprocInv PROVE Shows <=> enabled
<1>1. conds \in Seq(BOOLEAN) /\ DOMAIN conds = 1..Len(conds)  BY DEF PreprocInv, StacksOK
<1> QED  BY <1>1 DEF PreprocInv, EnabledIs, Shows

\* A line of text.
LEMMA TextKeeps == ASSUME OutputInv, PreprocInv', NEW m, Text(m) PROVE OutputInv'
<1>1. PICK line : Reads(line)  BY DEF Text
<1>2. PreprocInv /\ LexersOK /\ ContentOK  BY DEF OutputInv
<1>3. Renumbered \subseteq Renumbered'  BY <1>1, <1>2, ReadsOn
<1>4. PICK l : l = TextLine(Here, Expand(m))  OBVIOUS
<1>5. l.kind = "text" /\ l.place = Here  BY <1>4 DEF TextLine
<1>6. PICK r : r = Advanced(Lexer)  OBVIOUS
<1>7. IsLexer(r) /\ r.file = Lexer.file /\ r.pos = Lexer.pos + 1 /\ Straight(r, Renumbered')
  BY <1>2, <1>3, <1>6, AdvancedIs
<1>8. /\ parser' = Adding(parser, <<l>>) /\ UNCHANGED <<ifdefs, enabled, result>>
      /\ filestack' = Append(Front(filestack), r)
      /\ shown' = IF Shows THEN Append(shown, l) ELSE shown
  BY <1>4, <1>6 DEF Text, Advance
<1>9. LineRead(l, r)  BY <1>2, <1>5, <1>7, <1>8, ShowsIs DEF LineRead
<1> QED  BY <1>1, <1>9, LineKeeps

\* The directives that give an empty line.
LEMMA BlankKeeps ==
    ASSUME OutputInv, PreprocInv', NEW line, Reads(line), Advance,
           parser' = Adding(parser, <<Blank>>), UNCHANGED <<ifdefs, enabled, result, shown>>
    PROVE  OutputInv'
<1>1. PreprocInv /\ LexersOK /\ ContentOK  BY DEF OutputInv
<1>2. Renumbered \subseteq Renumbered'  BY <1>1, ReadsOn
<1>3. PICK l : l = Blank  OBVIOUS
<1>4. l.kind = "blank"  BY <1>3 DEF Blank
<1>5. PICK r : r = Advanced(Lexer)  OBVIOUS
<1>6. IsLexer(r) /\ r.file = Lexer.file /\ r.pos = Lexer.pos + 1 /\ Straight(r, Renumbered')
  BY <1>1, <1>2, <1>5, AdvancedIs
<1>7. LineRead(l, r)  BY <1>3, <1>4, <1>5, <1>6 DEF LineRead, Advance
<1> QED  BY <1>7, LineKeeps

\* A #define gives the line of its own end.
LEMMA DefineKeeps == ASSUME OutputInv, PreprocInv', NEW m, NEW value, Define(m, value) PROVE OutputInv'
<1>1. PICK line : Reads(line)  BY DEF Define
<1>2. PreprocInv /\ LexersOK /\ ContentOK  BY DEF OutputInv
<1>3. Renumbered \subseteq Renumbered'  BY <1>1, <1>2, ReadsOn
<1>4. PICK l : l = LineDirective(Lexer.lineno + 1, Lexer.name)  OBVIOUS
<1>5. l.kind = "line" /\ l.file = Lexer.name /\ l.number = Lexer.lineno + 1  BY <1>4 DEF LineDirective
<1>6. PICK r : r = Advanced(Lexer)  OBVIOUS
<1>7. /\ IsLexer(r) /\ r.file = Lexer.file /\ r.pos = Lexer.pos + 1 /\ Straight(r, Renumbered')
      /\ Lexer.file \notin Renumbered' => Lexer.name = Lexer.file /\ Lexer.lineno + 1 = Lexer.pos + 1
  BY <1>2, <1>3, <1>6, AdvancedIs
<1>8. /\ parser' = Adding(parser, <<l>>) /\ UNCHANGED <<ifdefs, enabled, result, shown>>
      /\ filestack' = Append(Front(filestack), r)
  BY <1>4, <1>6 DEF Define, Advance
<1>9. LineRead(l, r)  BY <1>5, <1>7, <1>8 DEF LineRead
<1> QED  BY <1>1, <1>9, LineKeeps

\* A #line of the program's makes its file one that is renumbered.
LEMMA NumberKeeps == ASSUME OutputInv, PreprocInv', NEW n \in Nat, NEW name, Line(n, name) PROVE OutputInv'
<1>1. PICK line : Reads(line) /\ line.kind = "line"  BY DEF Line
<1>2. PreprocInv /\ LexersOK /\ ContentOK  BY DEF OutputInv
<1>3. Renumbered \subseteq Renumbered' /\ Lexer.file \in Renumbered'  BY <1>1, <1>2, ReadsOn
<1>4. PICK l : l = IF enabled THEN LineDirective(n, name) ELSE Blank  OBVIOUS
<1>5. l.kind # "text"  BY <1>4 DEF LineDirective, Blank
<1>6. PICK r : r = At(Lexer.file, Lexer.pos + 1, name, n + 1)  OBVIOUS
<1>7. r.file = Lexer.file /\ r.pos = Lexer.pos + 1 /\ IsLexer(r)  BY <1>6 DEF At, IsLexer
<1>8. Straight(Lexer, Renumbered)  BY <1>2, <1>3, AdvancedIs
<1>9. Straight(r, Renumbered')  BY <1>3, <1>7, <1>8 DEF Straight
<1>10. /\ parser' = Adding(parser, <<l>>) /\ UNCHANGED <<ifdefs, enabled, result, shown>>
       /\ filestack' = Append(Front(filestack), r)
  <2>1. parser' = Adding(parser, IF enabled THEN <<LineDirective(n, name)>> ELSE <<Blank>>)  BY DEF Line
  <2>2. <<l>> = IF enabled THEN <<LineDirective(n, name)>> ELSE <<Blank>>  BY <1>4
  <2> QED  BY <2>1, <2>2, <1>6 DEF Line
<1>11. LineRead(l, r)  BY <1>3, <1>5, <1>7, <1>9, <1>10 DEF LineRead
<1> QED  BY <1>1, <1>11, LineKeeps

\* Sequences of one line and of none.
LEMMA ShortSeq == ASSUME NEW l PROVE IsSeq(<<l>>) /\ IsSeq(<<>>)
<1>1. <<l>> \in Seq({l}) /\ <<>> \in Seq({})  OBVIOUS
<1> QED  BY <1>1 DEF IsSeq

\* A new block.
LEMMA IfHeaderLeads ==
    ASSUME OutputInv, PreprocInv', NEW directive \in {"if", "ifdef", "ifndef"}, NEW m, IfHeader(directive, m)
    PROVE  OutputInv'
<1>1. PICK line : Reads(line)  BY DEF IfHeader
<1>2. PreprocInv /\ LexersOK /\ ContentOK  BY DEF OutputInv
<1>3. ContentOK' /\ Renumbered \subseteq Renumbered' /\ result = "open"  BY <1>1, <1>2, ReadsOn
<1>4. PICK Z : Stacked(Z)  BY DEF OutputInv
<1>5. PICK n : n = Len(parser)  OBVIOUS
<1>6. /\ Levels(Z) /\ Counted(Z) /\ Leads(Z)
      /\ n \in Nat \ {0} /\ Len(filestack) \in Nat \ {0} /\ Len(ifdefs) \in Nat
      /\ Z[n].blocks = Len(ifdefs) /\ n - Len(ifdefs) = Len(filestack)
      /\ Z[n].live <=> enabled
      /\ Z[n].read.texts = shown
      /\ enabled /\ Lexer.file \notin Renumbered => Z[n].read.pos = Here
  BY <1>2, <1>3, <1>4, <1>5, OnTop
<1>7. PICK t \in BOOLEAN : t = Test(directive, m)
  <2>1. ASSUME directive = "if" PROVE Test(directive, m) \in BOOLEAN  BY <2>1 DEF Test
  <2>2. ASSUME directive = "ifdef" PROVE Test(directive, m) \in BOOLEAN  BY <2>2 DEF Test
  <2>3. ASSUME directive = "ifndef" PROVE Test(directive, m) \in BOOLEAN  BY <2>3 DEF Test
  <2>4. directive = "if" \/ directive = "ifdef" \/ directive = "ifndef"  OBVIOUS
  <2>5. Test(directive, m) \in BOOLEAN  BY <2>1, <2>2, <2>3, <2>4
  <2> QED  BY <2>5
<1>8. PICK c : c = Block("if", <<Blank>>, <<>>, enabled /\ t)  OBVIOUS
<1>9. c.kind = "if" /\ c.out = <<Blank>> /\ c.before = <<>> /\ c.test = (enabled /\ t)  BY <1>8 DEF Block
<1>10. /\ parser' = Append(parser, c) /\ ifdefs' = Append(ifdefs, enabled) /\ enabled' = (enabled /\ t)
       /\ Advance /\ result' = result /\ shown' = shown
  BY <1>7, <1>8 DEF IfHeader
<1>11. /\ Len(parser') = n + 1 /\ parser'[n + 1] = c /\ \A k \in 1..n : parser'[k] = parser[k]
  <2>1. IsSeq(parser)  BY <1>2 DEF PreprocInv, StacksOK
  <2> QED  BY <2>1, <1>5, <1>10, AppendIs
<1>12. /\ Len(ifdefs') = Len(ifdefs) + 1 /\ (ifdefs'[Len(ifdefs) + 1] <=> enabled)
       /\ \A j \in 1..Len(ifdefs) : ifdefs'[j] = ifdefs[j]
  <2>1. IsSeq(ifdefs)  BY <1>2 DEF PreprocInv, StacksOK, IsSeq
  <2> QED  BY <2>1, <1>10, AppendIs
<1>13. PICK r : r = Advanced(Lexer)  OBVIOUS
<1>14. IsLexer(r) /\ r.file = Lexer.file /\ r.pos = Lexer.pos + 1 /\ Straight(r, Renumbered')
  BY <1>2, <1>3, <1>13, AdvancedIs
<1>15. filestack' = Append(Front(filestack), r)  BY <1>10, <1>13 DEF Advance
<1>16. /\ Len(filestack') = Len(filestack)
       /\ \A k \in 1..Len(filestack) - 1 : filestack'[k] = filestack[k]
       /\ filestack'[Len(filestack)] = r
  BY <1>2, <1>14, <1>15, LexerMoves
<1>17. PICK b : b = Blank  OBVIOUS
<1>18. b.kind = "blank"  BY <1>17 DEF Blank
<1>19. PICK y : /\ y.live = (Z[n].live /\ t) /\ y.blocks = Z[n].blocks + 1
                /\ y.read = IF enabled /\ t THEN After(Z[n].read, b) ELSE Z[n].read
  <2> DEFINE w == [read |-> IF enabled /\ t THEN After(Z[n].read, b) ELSE Z[n].read,
                   live |-> Z[n].live /\ t, blocks |-> Z[n].blocks + 1]
  <2>1. /\ w.live = (Z[n].live /\ t) /\ w.blocks = Z[n].blocks + 1
        /\ w.read = IF enabled /\ t THEN After(Z[n].read, b) ELSE Z[n].read
    OBVIOUS
  <2> HIDE DEF w
  <2> QED  BY <2>1
<1>20. Level(Z[n], c, y, Renumbered')
  <2>1. IsSeq(c.out) /\ IsSeq(c.before) /\ c.test \in BOOLEAN  BY <1>9, <1>17, ShortSeq
  <2>2. y.live \in BOOLEAN /\ (y.live <=> Live(c, Z[n].live))  BY <1>6, <1>9, <1>19 DEF Live
  <2>3. y.blocks = Z[n].blocks + (IF c.kind = "file" THEN 0 ELSE 1)  BY <1>9, <1>19
  <2>4. Walk(Z[n].read, Keeps(c, Z[n].live), y.read, Renumbered')
    <3>1. CASE enabled /\ t
      <4>1. Fits(Z[n].read, b, Renumbered')  BY <1>18 DEF Fits
      <4>2. Walk(Z[n].read, <<b>>, After(Z[n].read, b), Renumbered')  BY <4>1, WalkLine
      <4>3. Keeps(c, Z[n].live) = <<b>>  BY <3>1, <1>6, <1>9, <1>17 DEF Keeps
      <4> QED  BY <4>2, <4>3, <3>1, <1>19
    <3>2. CASE ~(enabled /\ t)
      <4>1. Keeps(c, Z[n].live) = <<>>  BY <3>2, <1>6, <1>9 DEF Keeps
      <4> QED  BY <4>1, <3>2, <1>19, WalkNothing
    <3> QED  BY <3>1, <3>2
  <2> QED  BY <2>1, <2>2, <2>3, <2>4 DEF Level
<1>21. Topped(Z, n, y)
  <2>1. y.blocks = Len(ifdefs') /\ n + 1 - y.blocks = Len(filestack')
    <3>1. y.blocks = Len(ifdefs) + 1  BY <1>6, <1>19
    <3>2. n + 1 - (Len(ifdefs) + 1) = Len(filestack)  BY <1>6
    <3> QED  BY <3>1, <3>2, <1>12, <1>16
  <2>2. ifdefs'[y.blocks] <=> Z[n].live  BY <1>6, <1>12, <1>19
  <2>3. \A j \in 1..n - Z[n].blocks - 1 : filestack'[j] = filestack[j]
    <3>1. n - Z[n].blocks = Len(filestack)  BY <1>6
    <3>2. \A j \in 1..n - Z[n].blocks - 1 : j \in 1..Len(filestack) - 1  BY <3>1, <1>6
    <3> QED  BY <3>2, <1>16
  <2>4. y.live <=> enabled'  BY <1>6, <1>10, <1>19
  <2>5. y.read.texts = shown'  BY <1>6, <1>10, <1>18, <1>19 DEF After
  <2>6. enabled' /\ r.file \notin Renumbered' => y.read.pos = <<r.file, r.pos>>
    <3>1. ASSUME enabled', r.file \notin Renumbered' PROVE y.read.pos = <<r.file, r.pos>>
      <4>1. enabled /\ t  BY <3>1, <1>10
      <4>2. y.read = After(Z[n].read, b)  BY <4>1, <1>19
      <4>3. y.read.pos = <<Z[n].read.pos[1], Z[n].read.pos[2] + 1>>  BY <4>2, <1>18 DEF After
      <4>4. Lexer.file \notin Renumbered  BY <3>1, <1>3, <1>14
      <4>5. Z[n].read.pos = <<Lexer.file, Lexer.pos>>  BY <4>1, <4>4, <1>6 DEF Here
      <4> QED  BY <4>3, <4>5, <1>14
    <3> QED  BY <3>1
  <2> QED  BY <2>1, <2>2, <2>3, <2>4, <2>5, <2>6, <1>6, <1>9, <1>11, <1>12, <1>16, <1>20 DEF Topped
<1>22. \E A : Stacked(A)'
  <2>1. n \in 0..Len(parser) /\ Len(parser) \in Nat /\ Len(filestack') > 0  BY <1>5, <1>6, <1>16
  <2> QED  BY <2>1, <1>3, <1>6, <1>21, Restack
<1>23. LexersOK'  BY <1>2, <1>3, <1>14, <1>15, LexersGo
<1>24. result' # "done"  BY <1>3, <1>10
<1> QED  BY <1>3, <1>22, <1>23, <1>24, NotDone

\* Its other half.
LEMMA ElseLeads == ASSUME OutputInv, PreprocInv', Else PROVE OutputInv'
<1>1. PICK line : Reads(line)  BY DEF Else
<1>2. PreprocInv /\ LexersOK /\ ContentOK  BY DEF OutputInv
<1>3. ContentOK' /\ Renumbered \subseteq Renumbered' /\ result = "open"  BY <1>1, <1>2, ReadsOn
<1>4. PICK Z : Stacked(Z)  BY DEF OutputInv
<1>5. PICK n, k : n = Len(parser) /\ k = n - 1  OBVIOUS
<1>6. /\ Levels(Z) /\ Counted(Z) /\ Leads(Z)
      /\ n \in Nat \ {0} /\ Len(filestack) \in Nat \ {0} /\ Len(ifdefs) \in Nat
      /\ Z[n].blocks = Len(ifdefs) /\ n - Len(ifdefs) = Len(filestack)
      /\ Z[n].live <=> enabled
      /\ Z[n].read.texts = shown
      /\ Level(Z[k], Top, Z[n], Renumbered)
      /\ Top = parser[n]
      /\ enabled /\ Lexer.file \notin Renumbered => Z[n].read.pos = Here
  BY <1>2, <1>3, <1>4, <1>5, OnTop
<1>7. k \in Nat /\ k + 1 = n /\ n - 1 = k /\ k \in 0..n /\ k <= n /\ n \in 1..n /\ n \in 0..n  BY <1>5, <1>6
<1>8. PICK l, b : l = LineDirective(Lexer.lineno + 1, Lexer.name) /\ b = Top  OBVIOUS
<1>9. l.kind = "line" /\ l.file = Lexer.name /\ l.number = Lexer.lineno + 1  BY <1>8 DEF LineDirective
<1>10. /\ IsSeq(b.out) /\ IsSeq(b.before) /\ b.test \in BOOLEAN /\ b.kind = "if"
       /\ (Z[n].live <=> Live(b, Z[k].live)) /\ Z[n].live \in BOOLEAN
       /\ Z[n].blocks = Z[k].blocks + 1
       /\ Walk(Z[k].read, Keeps(b, Z[k].live), Z[n].read, Renumbered')
  <2>1. b.kind = "if"  BY <1>8 DEF Else
  <2>2. Walk(Z[k].read, Keeps(b, Z[k].live), Z[n].read, Renumbered)  BY <1>6, <1>8 DEF Level
  <2>3. Walk(Z[k].read, Keeps(b, Z[k].live), Z[n].read, Renumbered')  BY <2>2, <1>3, WalkMore
  <2> QED  BY <2>1, <2>3, <1>6, <1>8 DEF Level
<1>11. Last(ifdefs) <=> Z[k].live
  <2>1. ifdefs[Z[n].blocks] <=> Z[k].live  BY <1>5, <1>6, <1>7, <1>8, <1>10 DEF Counted
  <2> QED  BY <2>1, <1>6 DEF Last
<1>12. PICK c : c = Block("else", <<l>>, IF Last(ifdefs) /\ b.test THEN b.out ELSE <<>>, b.test)  OBVIOUS
<1>13. /\ c.kind = "else" /\ c.out = <<l>> /\ c.test = b.test
       /\ c.before = IF Last(ifdefs) /\ b.test THEN b.out ELSE <<>>
  BY <1>12 DEF Block
<1>14. /\ parser' = Append(Front(parser), c) /\ ifdefs' = ifdefs /\ enabled' = ElseEnabled
       /\ Advance /\ result' = result /\ shown' = shown
  BY <1>8, <1>12 DEF Else
<1>15. Len(parser') = n /\ parser'[n] = c /\ \A i \in 1..k : parser'[i] = parser[i]
  <2>1. IsSeq(parser) /\ Len(parser) > 0  BY <1>2, <1>5, <1>6 DEF PreprocInv, StacksOK
  <2>2. /\ Len(Append(Front(parser), c)) = Len(parser)
        /\ \A i \in 1..Len(parser) - 1 : Append(Front(parser), c)[i] = parser[i]
        /\ Append(Front(parser), c)[Len(parser)] = c
    BY <2>1, LastReplaced
  <2> QED  BY <2>2, <1>5, <1>14
<1>16. PICK r : r = Advanced(Lexer)  OBVIOUS
<1>17. /\ IsLexer(r) /\ r.file = Lexer.file /\ r.pos = Lexer.pos + 1 /\ Straight(r, Renumbered')
       /\ Lexer.file \notin Renumbered' => Lexer.name = Lexer.file /\ Lexer.lineno + 1 = Lexer.pos + 1
  BY <1>2, <1>3, <1>16, AdvancedIs
<1>18. filestack' = Append(Front(filestack), r)  BY <1>14, <1>16 DEF Advance
<1>19. /\ Len(filestack') = Len(filestack)
       /\ \A i \in 1..Len(filestack) - 1 : filestack'[i] = filestack[i]
       /\ filestack'[Len(filestack)] = r
  BY <1>2, <1>17, <1>18, LexerMoves
<1>20. enabled' <=> Z[k].live /\ ~b.test
  <2>1. CASE Z[k].live
    <3>1. enabled' = ~b.test  BY <2>1, <1>8, <1>11, <1>14 DEF ElseEnabled
    <3> QED  BY <3>1, <2>1
  <2>2. CASE ~Z[k].live
    <3>1. enabled' = enabled  BY <2>2, <1>11, <1>14 DEF ElseEnabled
    <3>2. ~enabled  BY <2>2, <1>6, <1>10 DEF Live
    <3> QED  BY <3>1, <3>2, <2>2
  <2> QED  BY <2>1, <2>2
<1>21. PICK y : /\ y.live = (Z[k].live /\ ~b.test) /\ y.blocks = Z[n].blocks
                /\ y.read = IF Z[k].live /\ ~b.test THEN After(Z[n].read, l) ELSE Z[n].read
  <2> DEFINE w == [read |-> IF Z[k].live /\ ~b.test THEN After(Z[n].read, l) ELSE Z[n].read,
                   live |-> Z[k].live /\ ~b.test, blocks |-> Z[n].blocks]
  <2>1. /\ w.live = (Z[k].live /\ ~b.test) /\ w.blocks = Z[n].blocks
        /\ w.read = IF Z[k].live /\ ~b.test THEN After(Z[n].read, l) ELSE Z[n].read
    OBVIOUS
  <2> HIDE DEF w
  <2> QED  BY <2>1
<1>22. Level(Z[k], c, y, Renumbered')
  <2>1. IsSeq(c.out) /\ IsSeq(c.before) /\ c.test \in BOOLEAN  BY <1>10, <1>13, ShortSeq
  <2>2. y.live \in BOOLEAN /\ (y.live <=> Live(c, Z[k].live))  BY <1>13, <1>21 DEF Live
  <2>3. y.blocks = Z[k].blocks + (IF c.kind = "file" THEN 0 ELSE 1)  BY <1>10, <1>13, <1>21
  <2>4. Walk(Z[k].read, Keeps(c, Z[k].live), y.read, Renumbered')
    <3>1. CASE Z[k].live /\ b.test
      <4>1. Keeps(c, Z[k].live) = b.out \o <<>> /\ Keeps(b, Z[k].live) = b.out
        BY <3>1, <1>10, <1>11, <1>13 DEF Keeps
      <4>2. Walk(Z[k].read, b.out, Z[n].read, Renumbered')  BY <4>1, <1>10
      <4>3. Walk(Z[n].read, <<>>, Z[n].read, Renumbered')  BY WalkNothing
      <4>4. Walk(Z[k].read, b.out \o <<>>, Z[n].read, Renumbered')  BY <4>2, <4>3, WalkJoin
      <4> QED  BY <4>1, <4>4, <3>1, <1>21
    <3>2. CASE Z[k].live /\ ~b.test
      <4>1. Keeps(c, Z[k].live) = <<>> \o <<l>> /\ Keeps(b, Z[k].live) = <<>>
        BY <3>2, <1>10, <1>13 DEF Keeps
      <4>2. Walk(Z[k].read, <<>>, Z[n].read, Renumbered')  BY <4>1, <1>10
      <4>3. Fits(Z[n].read, l, Renumbered')  BY <1>9 DEF Fits
      <4>4. Walk(Z[n].read, <<l>>, After(Z[n].read, l), Renumbered')  BY <4>3, WalkLine
      <4>5. Walk(Z[k].read, <<>> \o <<l>>, After(Z[n].read, l), Renumbered')  BY <4>2, <4>4, WalkJoin
      <4> QED  BY <4>1, <4>5, <3>2, <1>21
    <3>3. CASE ~Z[k].live
      <4>1. Keeps(c, Z[k].live) = <<>> /\ Keeps(b, Z[k].live) = <<>>  BY <3>3 DEF Keeps
      <4> QED  BY <4>1, <3>3, <1>10, <1>21
    <3> QED  BY <3>1, <3>2, <3>3
  <2> QED  BY <2>1, <2>2, <2>3, <2>4 DEF Level
<1>23. Topped(Z, k, y)
  <2>1. y.blocks = Len(ifdefs') /\ k + 1 - y.blocks = Len(filestack')
    <3>1. y.blocks = Len(ifdefs)  BY <1>6, <1>21
    <3>2. k + 1 - Len(ifdefs) = n - Len(ifdefs)  BY <1>5, <1>6
    <3> QED  BY <3>1, <3>2, <1>6, <1>14, <1>19
  <2>2. ifdefs'[y.blocks] <=> Z[k].live  BY <1>6, <1>11, <1>14, <1>21 DEF Last
  <2>3. \A j \in 1..k - Z[k].blocks - 1 : filestack'[j] = filestack[j]
    <3>1. PICK a, e, m : a = Z[k].blocks /\ e = Len(ifdefs) /\ m = Len(filestack)  OBVIOUS
    <3>2. k \in 0..Len(parser)  BY <1>5, <1>7
    <3>3. a \in Nat  BY <3>1, <3>2, <1>6 DEF Counted
    <3>4. e = a + 1 /\ n - e = m  BY <3>1, <1>6, <1>10
    <3>5. \A j \in 1..k - a - 1 : j \in 1..m - 1  BY <3>3, <3>4, <1>5, <1>6
    <3> QED  BY <3>1, <3>5, <1>19
  <2>4. y.live <=> enabled'  BY <1>20, <1>21
  <2>5. y.read.texts = shown'  BY <1>6, <1>9, <1>14, <1>21 DEF After
  <2>6. enabled' /\ r.file \notin Renumbered' => y.read.pos = <<r.file, r.pos>>
    <3>1. ASSUME enabled', r.file \notin Renumbered' PROVE y.read.pos = <<r.file, r.pos>>
      <4>1. y.read.pos = <<l.file, l.number>>  BY <3>1, <1>9, <1>20, <1>21 DEF After
      <4>2. Lexer.name = Lexer.file /\ Lexer.lineno + 1 = Lexer.pos + 1  BY <3>1, <1>17
      <4> QED  BY <4>1, <4>2, <1>9, <1>17
    <3> QED  BY <3>1
  <2> QED  BY <2>1, <2>2, <2>3, <2>4, <2>5, <2>6, <1>6, <1>7, <1>10, <1>13, <1>14, <1>15, <1>19, <1>22 DEF Topped
<1>24. \E A : Stacked(A)'
  <2>1. k \in 0..Len(parser) /\ Len(parser) \in Nat /\ Len(filestack') > 0  BY <1>5, <1>6, <1>7, <1>19
  <2> QED  BY <2>1, <1>3, <1>6, <1>23, Restack
<1>25. LexersOK'  BY <1>2, <1>3, <1>17, <1>18, LexersGo
<1>26. result' # "done"  BY <1>3, <1>14
<1> QED  BY <1>3, <1>24, <1>25, <1>26, NotDone

\* Its end.
LEMMA EndIfLeads == ASSUME OutputInv, PreprocInv', EndIf PROVE OutputInv'
<1>1. PICK line : Reads(line)  BY DEF EndIf
<1>2. PreprocInv /\ LexersOK /\ ContentOK  BY DEF OutputInv
<1>3. ContentOK' /\ Renumbered \subseteq Renumbered' /\ result = "open"  BY <1>1, <1>2, ReadsOn
<1>4. PICK Z : Stacked(Z)  BY DEF OutputInv
<1>5. PICK n, k : n = Len(parser) /\ k = n - 1  OBVIOUS
<1>6. /\ Levels(Z) /\ Counted(Z) /\ Leads(Z)
      /\ n \in Nat \ {0} /\ Len(filestack) \in Nat \ {0} /\ Len(ifdefs) \in Nat
      /\ Z[n].blocks = Len(ifdefs) /\ n - Len(ifdefs) = Len(filestack)
      /\ Z[n].live <=> enabled
      /\ Z[n].read.texts = shown
      /\ Level(Z[k], Top, Z[n], Renumbered)
      /\ Top = parser[n]
  BY <1>2, <1>3, <1>4, <1>5, OnTop
<1>7. PICK l, b : l = LineDirective(Lexer.lineno + 1, Lexer.name) /\ b = Top  OBVIOUS
<1>8. l.kind = "line" /\ l.file = Lexer.name /\ l.number = Lexer.lineno + 1  BY <1>7 DEF LineDirective
<1>9. b.kind \in {"if", "else"}  BY <1>7 DEF EndIf
<1>10. n > 1
  <2>1. Top.kind # "file"  BY <1>7, <1>9
  <2> QED  BY <2>1, <1>2, <1>5, Depth
<1>11. /\ k \in 1..n /\ k \in 0..n /\ n \in 1..n /\ n \in 0..n /\ k \in Nat \ {0} /\ k + 1 = n /\ n - 1 = k
  BY <1>5, <1>6, <1>10
<1>12. /\ (Z[n].live <=> Live(b, Z[k].live)) /\ Z[n].live \in BOOLEAN
       /\ Z[n].blocks = Z[k].blocks + 1
       /\ Walk(Z[k].read, Keeps(b, Z[k].live), Z[n].read, Renumbered')
  <2>1. Walk(Z[k].read, Keeps(b, Z[k].live), Z[n].read, Renumbered)  BY <1>6, <1>7 DEF Level
  <2>2. Walk(Z[k].read, Keeps(b, Z[k].live), Z[n].read, Renumbered')  BY <2>1, <1>3, WalkMore
  <2> QED  BY <2>2, <1>6, <1>7, <1>9 DEF Level
<1>13. Last(ifdefs) <=> Z[k].live
  <2>1. ifdefs[Z[n].blocks] <=> Z[k].live  BY <1>5, <1>6, <1>7, <1>9, <1>11 DEF Counted
  <2> QED  BY <2>1, <1>6 DEF Last
<1>14. Kept = Keeps(b, Z[k].live)
  <2>1. CASE b.kind = "if"
    <3>1. Kept = IF enabled THEN b.out ELSE <<>>  BY <2>1, <1>7 DEF Kept
    <3>2. enabled <=> Z[k].live /\ b.test  BY <2>1, <1>6, <1>12 DEF Live
    <3> QED  BY <2>1, <3>1, <3>2 DEF Keeps
  <2>2. CASE b.kind = "else"
    <3>1. Kept = IF Last(ifdefs) THEN b.before \o (IF enabled THEN b.out ELSE <<>>) ELSE <<>>
      BY <2>2, <1>7 DEF Kept
    <3>2. enabled <=> Z[k].live /\ ~b.test  BY <2>2, <1>6, <1>12 DEF Live
    <3>3. CASE Z[k].live
      <4>1. Keeps(b, Z[k].live) = b.before \o (IF b.test THEN <<>> ELSE b.out)  BY <2>2, <3>3 DEF Keeps
      <4>2. CASE b.test  BY <4>1, <4>2, <3>1, <3>2, <3>3, <1>13
      <4>3. CASE ~b.test  BY <4>1, <4>3, <3>1, <3>2, <3>3, <1>13
      <4> QED  BY <4>2, <4>3
    <3>4. CASE ~Z[k].live  BY <3>1, <3>4, <1>13 DEF Keeps
    <3> QED  BY <3>3, <3>4
  <2> QED  BY <2>1, <2>2, <1>9
<1>15. PICK lines, z : lines = Keeps(b, Z[k].live) \o <<l>> /\ z = After(Z[n].read, l)  OBVIOUS
<1>16. Walk(Z[k].read, lines, z, Renumbered')
  <2>1. Fits(Z[n].read, l, Renumbered')  BY <1>8 DEF Fits
  <2>2. Walk(Z[n].read, <<l>>, z, Renumbered')  BY <2>1, <1>15, WalkLine
  <2> QED  BY <2>2, <1>12, <1>15, WalkJoin
<1>17. /\ parser' = Adding(Front(parser), lines) /\ ifdefs' = Front(ifdefs) /\ enabled' = Last(ifdefs)
       /\ Advance /\ result' = result /\ shown' = shown
  BY <1>7, <1>14, <1>15 DEF EndIf, Outer
<1>18. /\ Len(parser') = k /\ \A i \in 1..k - 1 : parser'[i] = parser[i]
       /\ parser'[k] = Block(parser[k].kind, parser[k].out \o lines, parser[k].before, parser[k].test)
  <2>1. PICK s : s = Front(parser)  OBVIOUS
  <2>2. IsSeq(s) /\ Len(s) = k /\ \A i \in 1..k : s[i] = parser[i]
    <3>1. IsSeq(parser) /\ Len(parser) > 0  BY <1>2, <1>5, <1>6 DEF PreprocInv, StacksOK
    <3>2. /\ IsSeq(Front(parser)) /\ Len(Front(parser)) = Len(parser) - 1
          /\ \A i \in 1..Len(parser) - 1 : Front(parser)[i] = parser[i]
      BY <3>1, FrontIs
    <3> QED  BY <3>2, <2>1, <1>5
  <2>3. PICK c : c = parser[k]  OBVIOUS
  <2>4. c = s[Len(s)] /\ Len(s) \in Nat \ {0}  BY <2>2, <2>3, <1>11
  <2>5. /\ Len(Adding(s, lines)) = Len(s)
        /\ \A i \in 1..Len(s) - 1 : Adding(s, lines)[i] = s[i]
        /\ Adding(s, lines)[Len(s)] = Block(c.kind, c.out \o lines, c.before, c.test)
    BY <2>2, <2>4, AddingTop
  <2>6. \A i \in 1..k - 1 : i \in 1..k  BY <1>11
  <2> QED  BY <2>1, <2>2, <2>3, <2>5, <2>6, <1>17
<1>19. Len(ifdefs') = Z[k].blocks /\ \A j \in 1..Z[k].blocks : ifdefs'[j] = ifdefs[j]
  <2>1. Len(ifdefs) = Z[k].blocks + 1 /\ Z[k].blocks \in Nat  BY <1>5, <1>6, <1>11, <1>12 DEF Counted
  <2>2. IsSeq(ifdefs) /\ Len(ifdefs) > 0  BY <2>1, <1>2 DEF PreprocInv, StacksOK, IsSeq
  <2>3. /\ Len(Front(ifdefs)) = Len(ifdefs) - 1
        /\ \A j \in 1..Len(ifdefs) - 1 : Front(ifdefs)[j] = ifdefs[j]
    BY <2>2, FrontIs
  <2>4. Len(ifdefs) - 1 = Z[k].blocks  BY <2>1
  <2> QED  BY <2>3, <2>4, <1>17
<1>20. PICK r : r = Advanced(Lexer)  OBVIOUS
<1>21. /\ IsLexer(r) /\ r.file = Lexer.file /\ r.pos = Lexer.pos + 1 /\ Straight(r, Renumbered')
       /\ Lexer.file \notin Renumbered' => Lexer.name = Lexer.file /\ Lexer.lineno + 1 = Lexer.pos + 1
  BY <1>2, <1>3, <1>20, AdvancedIs
<1>22. filestack' = Append(Front(filestack), r)  BY <1>17, <1>20 DEF Advance
<1>23. /\ Len(filestack') = Len(filestack)
       /\ \A i \in 1..Len(filestack) - 1 : filestack'[i] = filestack[i]
       /\ filestack'[Len(filestack)] = r
  BY <1>2, <1>21, <1>22, LexerMoves
<1>24. Gained(Z, k, lines, z)
  <2>1. Len(filestack') = k - Z[k].blocks
    <3>1. PICK e, m : e = Z[k].blocks /\ m = Len(filestack)  OBVIOUS
    <3>2. e \in Nat  BY <3>1, <1>5, <1>6, <1>11 DEF Counted
    <3>3. n - (e + 1) = m  BY <3>1, <1>6, <1>12
    <3>4. m = k - e  BY <3>2, <3>3, <1>11
    <3> QED  BY <3>1, <3>4, <1>23
  <2>2. Z[k].live <=> enabled'  BY <1>13, <1>17
  <2>3. z.texts = shown'  BY <1>6, <1>8, <1>15, <1>17 DEF After
  <2>4. ~Z[k].live => Z[k].read.texts = shown'
    <3>1. ASSUME ~Z[k].live PROVE Z[k].read = Z[n].read
      <4>1. Walk(Z[k].read, <<>>, Z[n].read, Renumbered')  BY <3>1, <1>12 DEF Keeps
      <4> QED  BY <4>1, WalkStays
    <3> QED  BY <3>1, <1>6, <1>17
  <2>5. r.file \notin Renumbered' => z.pos = <<r.file, r.pos>>
    <3>1. z.pos = <<l.file, l.number>>  BY <1>8, <1>15 DEF After
    <3> QED  BY <3>1, <1>8, <1>21
  <2>6. filestack'[Len(filestack')] = r  BY <1>23
  <2> QED  BY <2>1, <2>2, <2>3, <2>4, <2>5, <2>6, <1>16, <1>18, <1>19, <1>23 DEF Gained
<1>25. \E A : Stacked(A)'
  <2>1. k \in 1..Len(parser) /\ Len(parser) \in Nat /\ Len(filestack') > 0  BY <1>5, <1>6, <1>11, <1>23
  <2>2. IsBlock(parser[k])  BY <2>1, <1>2 DEF PreprocInv, StacksOK
  <2>3. IsSeq(lines)  BY <1>16 DEF Walk
  <2> QED  BY <2>1, <2>2, <2>3, <1>3, <1>6, <1>24, Gains
<1>26. LexersOK'  BY <1>2, <1>3, <1>21, <1>22, LexersGo
<1>27. result' # "done"  BY <1>3, <1>17
<1> QED  BY <1>3, <1>25, <1>26, <1>27, NotDone

\* What an #include finds is a file.
LEMMA SearchFinds == ASSUME NEW query, NEW local_first, NEW file \in Search(query, local_first) PROVE file \in Files
<1>1. PICK dirs : dirs = IF local_first THEN <<current_dir, Library>> ELSE <<Library>>  OBVIOUS
<1>2. PICK found : found = {i \in DOMAIN dirs : dirs[i] \o query \in Files}  OBVIOUS
<1>3. file \in IF found = {} THEN {} ELSE {dirs[Min(found)] \o query}  BY <1>1, <1>2 DEF Search
<1>4. found # {} /\ file = dirs[Min(found)] \o query  BY <1>3
<1>5. DOMAIN dirs \subseteq Nat
  <2>1. CASE local_first
    <3>1. dirs = <<current_dir, Library>>  BY <2>1, <1>1
    <3> QED  BY <3>1
  <2>2. CASE ~local_first
    <3>1. dirs = <<Library>>  BY <2>2, <1>1
    <3> QED  BY <3>1
  <2> QED  BY <2>1, <2>2
<1>6. found \in SUBSET Nat  BY <1>2, <1>5
<1>7. PICK x \in found : \A y \in found : ~ (y < x)  BY <1>4, <1>6, LeastExists
<1>8. \A y \in found : x <= y  BY <1>6, <1>7
<1>9. Min(found) \in found  BY <1>8 DEF Min
<1> QED  BY <1>2, <1>4, <1>9

\* A file is opened.
LEMMA IncludeLeads ==
    ASSUME OutputInv, PreprocInv', NEW query, NEW local_first, NEW once, Include(query, local_first, once)
    PROVE  OutputInv'
<1>1. PICK file \in Search(query, local_first) :
          /\ Reads(IncludeLine(query, local_first, once))
          /\ filestack' = Append(Append(Front(filestack), Advanced(Lexer)), Reading(file))
          /\ parser' = Append(parser, OpenFile(file))
  BY DEF Include
<1>2. PreprocInv /\ LexersOK /\ ContentOK  BY DEF OutputInv
<1>3. ContentOK' /\ Renumbered \subseteq Renumbered' /\ result = "open"
  <2>1. PICK line : Reads(line)  BY <1>1
  <2> QED  BY <2>1, <1>2, ReadsOn
<1>4. PICK Z : Stacked(Z)  BY DEF OutputInv
<1>5. PICK n, m : n = Len(parser) /\ m = Len(filestack)  OBVIOUS
<1>6. /\ Levels(Z) /\ Counted(Z) /\ Leads(Z)
      /\ n \in Nat \ {0} /\ m \in Nat \ {0} /\ Len(ifdefs) \in Nat
      /\ Z[n].blocks = Len(ifdefs) /\ n - Len(ifdefs) = m
      /\ Z[n].live <=> enabled
      /\ Z[n].read.texts = shown
      /\ enabled /\ Lexer.file \notin Renumbered => Z[n].read.pos = Here
  BY <1>2, <1>3, <1>4, <1>5, OnTop
<1>7. /\ enabled /\ enabled' = enabled /\ ifdefs' = ifdefs /\ result' = result /\ shown' = shown
      /\ file \in Files
  BY SearchFinds DEF Include
<1>8. PICK r, s : r = Advanced(Lexer) /\ s = Reading(file)  OBVIOUS
<1>9. IsLexer(r) /\ r.file = Lexer.file /\ r.pos = Lexer.pos + 1 /\ Straight(r, Renumbered')
  BY <1>2, <1>3, <1>8, AdvancedIs
<1>10. s.file = file /\ s.pos = 1 /\ s.name = file /\ s.lineno = 1  BY <1>8 DEF Reading, At
<1>11. Straight(s, Renumbered')  BY <1>7, <1>10 DEF Straight
<1>12. /\ Len(filestack') = m + 1 /\ filestack'[m + 1] = s /\ filestack'[m] = r
       /\ \A i \in 1..m - 1 : filestack'[i] = filestack[i]
  <2>1. PICK f : f = Append(Front(filestack), r)  OBVIOUS
  <2>2. IsSeq(filestack) /\ Len(filestack) > 0  BY <1>2, <1>5, <1>6 DEF PreprocInv, StacksOK
  <2>3. /\ IsSeq(Append(Front(filestack), r)) /\ Len(Append(Front(filestack), r)) = Len(filestack)
        /\ \A i \in 1..Len(filestack) - 1 : Append(Front(filestack), r)[i] = filestack[i]
        /\ Append(Front(filestack), r)[Len(filestack)] = r
    BY <2>2, LastReplaced
  <2>4. IsSeq(f) /\ Len(f) = m /\ f[m] = r /\ \A i \in 1..m - 1 : f[i] = filestack[i]  BY <2>1, <2>3, <1>5
  <2>5. /\ Len(Append(f, s)) = Len(f) + 1
        /\ \A i \in 1..Len(f) : Append(f, s)[i] = f[i]
        /\ Append(f, s)[Len(f) + 1] = s
    BY <2>4, AppendIs
  <2>6. filestack' = Append(f, s)  BY <2>1, <1>1, <1>8
  <2>7. m \in 1..m /\ \A i \in 1..m - 1 : i \in 1..m  BY <1>6
  <2> QED  BY <2>4, <2>5, <2>6, <2>7
<1>13. PICK l : l = LineDirective(1, file)  OBVIOUS
<1>14. l.kind = "line" /\ l.file = file /\ l.number = 1  BY <1>13 DEF LineDirective
<1>15. PICK c : c = OpenFile(file)  OBVIOUS
<1>16. c.kind = "file" /\ c.out = <<l>> /\ c.before = <<>> /\ c.test = TRUE  BY <1>13, <1>15 DEF OpenFile, Block
<1>17. Len(parser') = n + 1 /\ parser'[n + 1] = c /\ \A k \in 1..n : parser'[k] = parser[k]
  <2>1. IsSeq(parser)  BY <1>2 DEF PreprocInv, StacksOK
  <2>2. /\ Len(Append(parser, c)) = Len(parser) + 1 /\ Append(parser, c)[Len(parser) + 1] = c
        /\ \A k \in 1..Len(parser) : Append(parser, c)[k] = parser[k]
    BY <2>1, AppendIs
  <2> QED  BY <2>2, <1>1, <1>5, <1>15
<1>18. PICK y : y.live = TRUE /\ y.blocks = Z[n].blocks /\ y.read = After(Z[n].read, l)
  <2> DEFINE w == [read |-> After(Z[n].read, l), live |-> TRUE, blocks |-> Z[n].blocks]
  <2>1. w.live = TRUE /\ w.blocks = Z[n].blocks /\ w.read = After(Z[n].read, l)  OBVIOUS
  <2> HIDE DEF w
  <2> QED  BY <2>1
<1>19. Level(Z[n], c, y, Renumbered')
  <2>1. IsSeq(c.out) /\ IsSeq(c.before) /\ c.test \in BOOLEAN  BY <1>16, ShortSeq
  <2>2. y.live \in BOOLEAN /\ (y.live <=> Live(c, Z[n].live))  BY <1>6, <1>7, <1>16, <1>18 DEF Live
  <2>3. y.blocks = Z[n].blocks + (IF c.kind = "file" THEN 0 ELSE 1)
    <3>1. n \in 0..Len(parser)  BY <1>5, <1>6
    <3>2. Z[n].blocks \in Nat  BY <3>1, <1>6 DEF Counted
    <3> QED  BY <3>2, <1>16, <1>18
  <2>4. Walk(Z[n].read, Keeps(c, Z[n].live), y.read, Renumbered')
    <3>1. Fits(Z[n].read, l, Renumbered')  BY <1>14 DEF Fits
    <3>2. Walk(Z[n].read, <<l>>, After(Z[n].read, l), Renumbered')  BY <3>1, WalkLine
    <3>3. Keeps(c, Z[n].live) = <<l>>  BY <1>6, <1>7, <1>16 DEF Keeps
    <3> QED  BY <3>2, <3>3, <1>18
  <2> QED  BY <2>1, <2>2, <2>3, <2>4 DEF Level
<1>20. Topped(Z, n, y)
  <2>1. y.blocks = Len(ifdefs') /\ n + 1 - y.blocks = Len(filestack')
    <3>1. n + 1 - Len(ifdefs) = m + 1  BY <1>6
    <3> QED  BY <3>1, <1>6, <1>7, <1>12, <1>18
  <2>2. \A j \in 1..n - Z[n].blocks - 1 : filestack'[j] = filestack[j]
    <3>1. n - Z[n].blocks = m  BY <1>6
    <3> QED  BY <3>1, <1>12
  <2>3. Len(c.out) > 0 /\ c.out[1].kind = "line"  BY <1>14, <1>16
  <2>4. Len(filestack') # 1 /\ filestack'[Len(filestack') - 1] = r /\ filestack'[Len(filestack')] = s
    <3>1. m + 1 # 1 /\ (m + 1) - 1 = m  BY <1>6
    <3> QED  BY <3>1, <1>12
  <2>5. r.file \notin Renumbered' => Z[n].read.pos = <<r.file, r.pos - 1>>
    <3>1. ASSUME r.file \notin Renumbered' PROVE Z[n].read.pos = <<Lexer.file, Lexer.pos>>
      <4>1. Lexer.file \notin Renumbered  BY <3>1, <1>3, <1>9
      <4> QED  BY <4>1, <1>6, <1>7 DEF Here
    <3>2. r.pos - 1 = Lexer.pos
      <4>1. Lexer.pos \in Nat  BY <1>2, <1>3, AdvancedIs DEF Straight
      <4> QED  BY <4>1, <1>9
    <3> QED  BY <3>1, <3>2, <1>9
  <2>6. y.read.texts = shown'  BY <1>6, <1>7, <1>14, <1>18 DEF After
  <2>7. y.read.pos = <<s.file, s.pos>>  BY <1>10, <1>14, <1>18 DEF After
  <2> QED  BY <2>1, <2>2, <2>3, <2>4, <2>5, <2>6, <2>7, <1>7, <1>16, <1>17, <1>18, <1>19 DEF Topped
<1>21. \E A : Stacked(A)'
  <2>1. n \in 0..Len(parser) /\ Len(parser) \in Nat /\ Len(filestack') > 0  BY <1>5, <1>6, <1>12
  <2> QED  BY <2>1, <1>3, <1>6, <1>20, Restack
<1>22. LexersOK'
  <2>1. ASSUME NEW k \in 1..m + 1 PROVE Straight(filestack'[k], Renumbered')
    <3>1. CASE k = m + 1  BY <3>1, <1>11, <1>12
    <3>2. CASE k = m  BY <3>2, <1>9, <1>12
    <3>3. CASE k \in 1..m - 1
      <4>1. k \in 1..Len(filestack)  BY <3>3, <1>5, <1>6
      <4>2. Straight(filestack[k], Renumbered)  BY <4>1, <1>2 DEF LexersOK
      <4>3. Straight(filestack[k], Renumbered')  BY <4>2, <1>3 DEF Straight
      <4> QED  BY <4>3, <3>3, <1>12
    <3>4. k = m + 1 \/ k = m \/ k \in 1..m - 1  BY <1>6
    <3> QED  BY <3>1, <3>2, <3>3, <3>4
  <2> QED  BY <2>1, <1>12 DEF LexersOK
<1>23. result' # "done"  BY <1>3, <1>7
<1> QED  BY <1>3, <1>21, <1>22, <1>23, NotDone

\* The end of a file.
LEMMA EndFileLeads == ASSUME OutputInv, PreprocInv', EndFile PROVE OutputInv'
<1>1. PreprocInv /\ LexersOK /\ ContentOK  BY DEF OutputInv
<1>2. /\ result = "open" /\ Len(filestack) > 1 /\ Top.kind = "file" /\ filestack' = Front(filestack)
      /\ UNCHANGED <<content, enabled, ifdefs, result, shown>>
  BY DEF EndFile
<1>3. Renumbered' = Renumbered /\ ContentOK'  BY <1>1, <1>2 DEF Renumbered, ContentOK
<1>4. PICK Z : Stacked(Z)  BY DEF OutputInv
<1>5. PICK n, k, m : n = Len(parser) /\ k = n - 1 /\ m = Len(filestack)  OBVIOUS
<1>6. /\ Levels(Z) /\ Counted(Z) /\ Leads(Z)
      /\ n \in Nat \ {0} /\ m \in Nat \ {0} /\ Len(ifdefs) \in Nat
      /\ Z[n].blocks = Len(ifdefs) /\ n - Len(ifdefs) = m
      /\ Z[n].live <=> enabled
      /\ Z[n].read.texts = shown
      /\ Level(Z[k], Top, Z[n], Renumbered)
      /\ Top = parser[n]
  BY <1>1, <1>2, <1>4, <1>5, OnTop
<1>7. n > 1 /\ m > 1  BY <1>1, <1>2, <1>5, Depth
<1>8. /\ k \in 1..n /\ k \in 0..n /\ n \in 1..n /\ k \in Nat \ {0} /\ k + 1 = n /\ n - 1 = k /\ n # 1
      /\ m - 1 \in 1..m - 1 /\ m - 1 \in 1..m
  BY <1>5, <1>6, <1>7
<1>9. PICK b : b = Top  OBVIOUS
<1>10. /\ b.kind = "file" /\ IsSeq(b.out) /\ (Z[n].live <=> Z[k].live) /\ Z[n].live \in BOOLEAN
       /\ Z[n].blocks = Z[k].blocks
       /\ Walk(Z[k].read, Keeps(b, Z[k].live), Z[n].read, Renumbered)
  <2>1. Z[k].blocks \in Nat  BY <1>5, <1>6, <1>8 DEF Counted
  <2> QED  BY <2>1, <1>2, <1>6, <1>9 DEF Level, Live
<1>11. Len(b.out) > 0 /\ b.out[1].kind = "line"  BY <1>5, <1>6, <1>8, <1>9, <1>10 DEF Counted
<1>12. IsSeq(Front(filestack)) /\ Len(Front(filestack)) = m - 1 /\ \A i \in 1..m - 1 : Front(filestack)[i] = filestack[i]
  <2>1. IsSeq(filestack) /\ Len(filestack) > 0  BY <1>1, <1>5, <1>7 DEF PreprocInv, StacksOK
  <2> QED  BY <2>1, <1>5, FrontIs
<1>13. PICK p : p = filestack[m - 1]  OBVIOUS
<1>14. Last(Front(filestack)) = p  BY <1>8, <1>12, <1>13 DEF Last
<1>15. Straight(p, Renumbered)  BY <1>1, <1>5, <1>8, <1>13 DEF LexersOK
<1>16. p.file \notin Renumbered => Z[k].read.pos = <<p.file, p.pos - 1>>
  <2>1. n - Z[n].blocks = m  BY <1>6
  <2>2. filestack[n - Z[n].blocks - 1] = p  BY <2>1, <1>13
  <2>3. parser[n].kind = "file" /\ n \in 1..Len(parser)  BY <1>5, <1>6, <1>8, <1>9, <1>10
  <2> QED  BY <2>2, <2>3, <1>6, <1>8 DEF Leads
<1>17. PICK lines, z :
          /\ parser' = Adding(Front(parser), lines) /\ IsSeq(lines)
          /\ Z[k].live => /\ Walk(Z[k].read, lines, z, Renumbered) /\ z.texts = shown
                          /\ p.file \notin Renumbered => z.pos = <<p.file, p.pos>>
  <2>1. CASE Len(b.out) > 1
    <3>1. PICK l : l = LineDirective(p.lineno, p.name)  OBVIOUS
    <3>2. l.kind = "line" /\ l.file = p.name /\ l.number = p.lineno  BY <3>1 DEF LineDirective
    <3>3. PICK lines, z : lines = b.out \o <<l>> /\ z = After(Z[n].read, l)  OBVIOUS
    <3>4. parser' = Adding(Front(parser), lines)  BY <2>1, <3>1, <3>3, <1>9, <1>14 DEF EndFile
    <3>5. IsSeq(lines)  BY <3>3, <1>10, ShortSeq, JoinIs
    <3>6. ASSUME Z[k].live PROVE Walk(Z[k].read, lines, z, Renumbered)
      <4>1. Keeps(b, Z[k].live) = b.out  BY <3>6, <1>10 DEF Keeps
      <4>2. Walk(Z[k].read, b.out, Z[n].read, Renumbered)  BY <4>1, <1>10
      <4>3. Fits(Z[n].read, l, Renumbered)  BY <3>2 DEF Fits
      <4>4. Walk(Z[n].read, <<l>>, z, Renumbered)  BY <4>3, <3>3, WalkLine
      <4> QED  BY <4>2, <4>4, <3>3, WalkJoin
    <3>7. z.texts = shown /\ z.pos = <<l.file, l.number>>  BY <3>2, <3>3, <1>6 DEF After
    <3>8. p.file \notin Renumbered => l.file = p.file /\ l.number = p.pos  BY <3>2, <1>15 DEF Straight
    <3> QED  BY <3>4, <3>5, <3>6, <3>7, <3>8
  <2>2. CASE ~(Len(b.out) > 1)
    <3>1. PICK l : l = Blank  OBVIOUS
    <3>2. l.kind = "blank"  BY <3>1 DEF Blank
    <3>3. PICK lines, z : lines = <<l>> /\ z = After(Z[k].read, l)  OBVIOUS
    <3>4. parser' = Adding(Front(parser), lines)  BY <2>2, <3>1, <3>3, <1>9 DEF EndFile
    <3>5. IsSeq(lines)  BY <3>3, ShortSeq
    <3>6. Walk(Z[k].read, lines, z, Renumbered)
      <4>1. Fits(Z[k].read, l, Renumbered)  BY <3>2 DEF Fits
      <4> QED  BY <4>1, <3>3, WalkLine
    <3>7. ASSUME Z[k].live PROVE z.texts = shown
      <4>1. Keeps(b, Z[k].live) = b.out  BY <3>7, <1>10 DEF Keeps
      <4>2. Walk(Z[k].read, b.out, Z[n].read, Renumbered)  BY <4>1, <1>10
      <4>3. Len(b.out) = 1
        <5>1. PICK e : e = Len(b.out)  OBVIOUS
        <5>2. e \in Nat  BY <5>1, <1>10 DEF IsSeq
        <5>3. e > 0 /\ ~(e > 1)  BY <5>1, <2>2, <1>11
        <5>4. e = 1  BY <5>2, <5>3
        <5> QED  BY <5>1, <5>4
      <4>4. Z[n].read = After(Z[k].read, b.out[1])  BY <4>2, <4>3, WalkOne
      <4>5. Z[n].read.texts = Z[k].read.texts  BY <4>4, <1>11 DEF After
      <4>6. z.texts = Z[k].read.texts  BY <3>2, <3>3 DEF After
      <4> QED  BY <4>5, <4>6, <1>6
    <3>8. p.file \notin Renumbered => z.pos = <<p.file, p.pos>>
      <4>1. ASSUME p.file \notin Renumbered PROVE z.pos = <<p.file, p.pos>>
        <5>1. z.pos = <<Z[k].read.pos[1], Z[k].read.pos[2] + 1>>  BY <3>2, <3>3 DEF After
        <5>2. Z[k].read.pos[1] = p.file /\ Z[k].read.pos[2] = p.pos - 1  BY <4>1, <1>16
        <5>3. p.pos - 1 + 1 = p.pos  BY <1>15 DEF Straight
        <5> QED  BY <5>1, <5>2, <5>3
      <4> QED  BY <4>1
    <3> QED  BY <3>4, <3>5, <3>6, <3>7, <3>8
  <2> QED  BY <2>1, <2>2
<1>18. /\ Len(parser') = k /\ \A i \in 1..k - 1 : parser'[i] = parser[i]
       /\ parser'[k] = Block(parser[k].kind, parser[k].out \o lines, parser[k].before, parser[k].test)
  <2>1. PICK s : s = Front(parser)  OBVIOUS
  <2>2. IsSeq(s) /\ Len(s) = k /\ \A i \in 1..k : s[i] = parser[i]
    <3>1. IsSeq(parser) /\ Len(parser) > 0  BY <1>1, <1>5, <1>6 DEF PreprocInv, StacksOK
    <3>2. /\ IsSeq(Front(parser)) /\ Len(Front(parser)) = Len(parser) - 1
          /\ \A i \in 1..Len(parser) - 1 : Front(parser)[i] = parser[i]
      BY <3>1, FrontIs
    <3> QED  BY <3>2, <2>1, <1>5
  <2>3. PICK c : c = parser[k]  OBVIOUS
  <2>4. c = s[Len(s)] /\ Len(s) \in Nat \ {0}  BY <2>2, <2>3, <1>8
  <2>5. /\ Len(Adding(s, lines)) = Len(s)
        /\ \A i \in 1..Len(s) - 1 : Adding(s, lines)[i] = s[i]
        /\ Adding(s, lines)[Len(s)] = Block(c.kind, c.out \o lines, c.before, c.test)
    BY <2>2, <2>4, AddingTop
  <2>6. \A i \in 1..k - 1 : i \in 1..k  BY <1>8
  <2> QED  BY <2>1, <2>2, <2>3, <2>5, <2>6, <1>17
<1>19. Gained(Z, k, lines, z)
  <2>1. Len(filestack') = k - Z[k].blocks /\ Len(ifdefs') = Z[k].blocks
    <3>1. PICK e : e = Len(ifdefs)  OBVIOUS
    <3>2. Z[k].blocks = e /\ n - e = m /\ e \in Nat  BY <3>1, <1>6, <1>10
    <3>3. m - 1 = k - e  BY <3>2, <1>6, <1>8
    <3> QED  BY <3>1, <3>2, <3>3, <1>2, <1>12
  <2>2. \A j \in 1..Len(filestack') - 1 : filestack'[j] = filestack[j]
    <3>1. \A j \in 1..m - 1 - 1 : j \in 1..m - 1  BY <1>6
    <3> QED  BY <3>1, <1>2, <1>12
  <2>3. filestack'[Len(filestack')] = p  BY <1>2, <1>8, <1>12, <1>13
  <2>4. Z[k].live <=> enabled'  BY <1>2, <1>6, <1>10
  <2>5. ~Z[k].live => Z[k].read.texts = shown'
    <3>1. ASSUME ~Z[k].live PROVE Z[k].read = Z[n].read
      <4>1. Walk(Z[k].read, <<>>, Z[n].read, Renumbered)  BY <3>1, <1>10 DEF Keeps
      <4> QED  BY <4>1, WalkStays
    <3> QED  BY <3>1, <1>2, <1>6
  <2> QED  BY <2>1, <2>2, <2>3, <2>4, <2>5, <1>2, <1>3, <1>17, <1>18 DEF Gained
<1>20. \E A : Stacked(A)'
  <2>1. k \in 1..Len(parser) /\ Len(parser) \in Nat /\ Len(filestack') > 0  BY <1>2, <1>5, <1>6, <1>8, <1>12
  <2>2. IsBlock(parser[k])  BY <2>1, <1>1 DEF PreprocInv, StacksOK
  <2> QED  BY <2>1, <2>2, <1>3, <1>6, <1>17, <1>19, Gains
<1>21. LexersOK'
  <2>1. ASSUME NEW i \in 1..m - 1 PROVE Straight(filestack'[i], Renumbered')
    <3>1. i \in 1..Len(filestack)  BY <1>5, <1>6
    <3>2. Straight(filestack[i], Renumbered)  BY <3>1, <1>1 DEF LexersOK
    <3> QED  BY <3>2, <1>2, <1>3, <1>12
  <2> QED  BY <2>1, <1>2, <1>12 DEF LexersOK
<1>22. result' # "done"  BY <1>2
<1> QED  BY <1>3, <1>20, <1>21, <1>22, NotDone---------------------------------------------------------------------------
(* The output.                                                             *)

\* What the lines read so far of an output have given.
TextsGiven(f, lines) ==
    f = [i \in 0..Len(lines) |->
            IF i = 0 THEN <<>>
            ELSE IF lines[i].kind = "text" THEN Append(f[i - 1], lines[i]) ELSE f[i - 1]]
PlacesGiven(f, lines) ==
    f = [i \in 0..Len(lines) |->
            IF i = 0 THEN <<Main, 0>>
            ELSE IF lines[i].kind = "line" THEN <<lines[i].file, lines[i].number>>
            ELSE <<f[i - 1][1], f[i - 1][2] + 1>>]

\* TextOf and Placed are what their recursive functions give.
LEMMA TextOfIs == ASSUME NEW lines, NEW w, TextsGiven(w, lines)
                  PROVE  \E f : TextsGiven(f, lines) /\ TextOf(lines) = f[Len(lines)]
<1>1. PICK f : f = CHOOSE g : TextsGiven(g, lines)  OBVIOUS
<1>2. TextsGiven(f, lines)  BY <1>1
<1>3. TextOf(lines) = f[Len(lines)]  BY <1>1 DEF TextOf, TextsGiven
<1> QED  BY <1>2, <1>3

\* The same of Placed.
LEMMA PlacedIs ==
    ASSUME NEW lines, NEW w, PlacesGiven(w, lines)
    PROVE  \E f : /\ PlacesGiven(f, lines)
                  /\ Placed(lines) = {<<lines[i].place, f[i - 1]>> : i \in {j \in DOMAIN lines : lines[j].kind = "text"}}
<1>1. PICK f : f = CHOOSE g : PlacesGiven(g, lines)  OBVIOUS
<1>2. PlacesGiven(f, lines)  BY <1>1
<1>3. Placed(lines) = {<<lines[i].place, f[i - 1]>> : i \in {j \in DOMAIN lines : lines[j].kind = "text"}}
  BY <1>1 DEF Placed, PlacesGiven
<1> QED  BY <1>2, <1>3

\* The text of an output is what reading it gives.
LEMMA TextsFollow ==
    ASSUME NEW lines, Len(lines) \in Nat, NEW at, at[0] = Start,
           \A i \in 1..Len(lines) : at[i] = After(at[i - 1], lines[i])
    PROVE  TextOf(lines) = at[Len(lines)].texts
<1>1. PICK n : n = Len(lines)  OBVIOUS
<1>2. n \in Nat  BY <1>1
<1>3. at[0].texts = <<>>  BY DEF Start
<1>4. ASSUME NEW i \in 1..n
      PROVE  at[i].texts = IF lines[i].kind = "text" THEN Append(at[i - 1].texts, lines[i]) ELSE at[i - 1].texts
  <2>1. PICK a, b, l : a = at[i] /\ b = at[i - 1] /\ l = lines[i]  OBVIOUS
  <2>2. a = After(b, l)  BY <2>1, <1>1
  <2>3. a.texts = IF l.kind = "text" THEN Append(b.texts, l) ELSE b.texts  BY <2>2 DEF After
  <2> QED  BY <2>1, <2>3
<1> DEFINE w == [i \in 0..n |-> at[i].texts]
<1>5. TextsGiven(w, lines)
  <2>1. ASSUME NEW i \in 0..n
        PROVE  at[i].texts = IF i = 0 THEN <<>>
                             ELSE IF lines[i].kind = "text" THEN Append(w[i - 1], lines[i]) ELSE w[i - 1]
    <3>1. CASE i = 0  BY <3>1, <1>3
    <3>2. CASE i # 0
      <4>1. i \in 1..n /\ i - 1 \in 0..n  BY <3>2, <1>2
      <4>2. w[i - 1] = at[i - 1].texts  BY <4>1
      <4> HIDE DEF w
      <4> QED  BY <4>1, <4>2, <3>2, <1>4
    <3> QED  BY <3>1, <3>2
  <2> QED  BY <2>1, <1>1 DEF TextsGiven
<1> HIDE DEF w
<1>6. PICK f : TextsGiven(f, lines) /\ TextOf(lines) = f[n]  BY <1>1, <1>5, TextOfIs
<1>7. \A i \in 0..n : f[i] = IF i = 0 THEN <<>> ELSE IF lines[i].kind = "text" THEN Append(f[i - 1], lines[i]) ELSE f[i - 1]
  BY <1>1, <1>6 DEF TextsGiven
<1>8. PICK T : T = {i \in Nat : i <= n => f[i] = at[i].texts}  OBVIOUS
<1>9. 0 \in T
  <2>1. f[0] = <<>>  BY <1>2, <1>7
  <2> QED  BY <2>1, <1>3, <1>8
<1>10. ASSUME NEW i \in Nat, i \in T PROVE i + 1 \in T
  <2> SUFFICES ASSUME i + 1 <= n PROVE f[i + 1] = at[i + 1].texts  BY <1>8
  <2>1. i <= n /\ i + 1 \in 0..n /\ i + 1 \in 1..n /\ i + 1 # 0 /\ (i + 1) - 1 = i  BY <1>2
  <2>2. f[i] = at[i].texts  BY <2>1, <1>8, <1>10
  <2>3. f[i + 1] = IF lines[i + 1].kind = "text" THEN Append(f[i], lines[i + 1]) ELSE f[i]  BY <2>1, <1>7
  <2>4. at[i + 1].texts = IF lines[i + 1].kind = "text" THEN Append(at[i].texts, lines[i + 1]) ELSE at[i].texts
    BY <2>1, <1>4
  <2> QED  BY <2>2, <2>3, <2>4
<1>11. Nat \subseteq T  BY <1>9, <1>10, SetInduction
<1>12. f[n] = at[n].texts  BY <1>2, <1>8, <1>11
<1> QED  BY <1>1, <1>6, <1>12

\* Its lines are where reading it puts them.
LEMMA PlacesFollow ==
    ASSUME NEW lines, IsSeq(lines), NEW at, at[0] = Start, NEW R, Trace(at, lines, R)
    PROVE  \A p \in Placed(lines) : p[1] = p[2] \/ p[1][1] \in R
<1>1. PICK n : n = Len(lines)  OBVIOUS
<1>2. n \in Nat /\ DOMAIN lines = 1..n  BY <1>1 DEF IsSeq
<1>3. at[0].pos = <<Main, 0>>  BY DEF Start
<1>4. ASSUME NEW i \in 1..n
      PROVE  at[i].pos = IF lines[i].kind = "line" THEN <<lines[i].file, lines[i].number>>
                         ELSE <<at[i - 1].pos[1], at[i - 1].pos[2] + 1>>
  <2>1. PICK a, b, l : a = at[i] /\ b = at[i - 1] /\ l = lines[i]  OBVIOUS
  <2>2. a = After(b, l)  BY <2>1, <1>1 DEF Trace
  <2>3. a.pos = IF l.kind = "line" THEN <<l.file, l.number>> ELSE <<b.pos[1], b.pos[2] + 1>>  BY <2>2 DEF After
  <2> QED  BY <2>1, <2>3
<1> DEFINE w == [i \in 0..n |-> at[i].pos]
<1>5. PlacesGiven(w, lines)
  <2>1. ASSUME NEW i \in 0..n
        PROVE  at[i].pos = IF i = 0 THEN <<Main, 0>>
                           ELSE IF lines[i].kind = "line" THEN <<lines[i].file, lines[i].number>>
                           ELSE <<w[i - 1][1], w[i - 1][2] + 1>>
    <3>1. CASE i = 0  BY <3>1, <1>3
    <3>2. CASE i # 0
      <4>1. i \in 1..n /\ i - 1 \in 0..n  BY <3>2, <1>2
      <4>2. w[i - 1] = at[i - 1].pos  BY <4>1
      <4> HIDE DEF w
      <4> QED  BY <4>1, <4>2, <3>2, <1>4
    <3> QED  BY <3>1, <3>2
  <2> QED  BY <2>1, <1>1 DEF PlacesGiven
<1> HIDE DEF w
<1>6. PICK f : /\ PlacesGiven(f, lines)
               /\ Placed(lines) = {<<lines[i].place, f[i - 1]>> : i \in {j \in DOMAIN lines : lines[j].kind = "text"}}
  BY <1>5, PlacedIs
<1>7. \A i \in 0..n : f[i] = IF i = 0 THEN <<Main, 0>>
                             ELSE IF lines[i].kind = "line" THEN <<lines[i].file, lines[i].number>>
                             ELSE <<f[i - 1][1], f[i - 1][2] + 1>>
  BY <1>1, <1>6 DEF PlacesGiven
<1>8. PICK T : T = {i \in Nat : i <= n => f[i] = at[i].pos}  OBVIOUS
<1>9. 0 \in T
  <2>1. 0 \in 0..n  BY <1>2
  <2>2. f[0] = IF 0 = 0 THEN <<Main, 0>>
               ELSE IF lines[0].kind = "line" THEN <<lines[0].file, lines[0].number>>
               ELSE <<f[0 - 1][1], f[0 - 1][2] + 1>>
    BY <2>1, <1>7, Zenon
  <2>3. f[0] = <<Main, 0>>  BY <2>2
  <2> QED  BY <2>3, <1>3, <1>8
<1>10. ASSUME NEW i \in Nat, i \in T PROVE i + 1 \in T
  <2> SUFFICES ASSUME i + 1 <= n PROVE f[i + 1] = at[i + 1].pos  BY <1>8
  <2>1. i <= n /\ i + 1 \in 0..n /\ i + 1 \in 1..n /\ i + 1 # 0 /\ (i + 1) - 1 = i  BY <1>2
  <2>2. f[i] = at[i].pos  BY <2>1, <1>8, <1>10
  <2>3. f[i + 1] = IF lines[i + 1].kind = "line" THEN <<lines[i + 1].file, lines[i + 1].number>>
                   ELSE <<f[i][1], f[i][2] + 1>>
    BY <2>1, <1>7
  <2>4. at[i + 1].pos = IF lines[i + 1].kind = "line" THEN <<lines[i + 1].file, lines[i + 1].number>>
                        ELSE <<at[i].pos[1], at[i].pos[2] + 1>>
    BY <2>1, <1>4
  <2> QED  BY <2>2, <2>3, <2>4
<1>11. Nat \subseteq T  BY <1>9, <1>10, SetInduction
<1>12. ASSUME NEW i \in 1..n, lines[i].kind = "text"
       PROVE  lines[i].place = f[i - 1] \/ lines[i].place[1] \in R
  <2>1. i - 1 \in Nat /\ i - 1 <= n  BY <1>2
  <2>2. f[i - 1] = at[i - 1].pos  BY <2>1, <1>8, <1>11
  <2>3. Fits(at[i - 1], lines[i], R)  BY <1>1 DEF Trace
  <2> QED  BY <2>2, <2>3, <1>12 DEF Fits
<1>13. ASSUME NEW p \in Placed(lines) PROVE p[1] = p[2] \/ p[1][1] \in R
  <2>1. PICK i \in {j \in DOMAIN lines : lines[j].kind = "text"} : p = <<lines[i].place, f[i - 1]>>  BY <1>6
  <2>2. i \in 1..n /\ lines[i].kind = "text"  BY <1>2
  <2>3. p[1] = lines[i].place /\ p[2] = f[i - 1]  BY <2>1
  <2> QED  BY <2>2, <2>3, <1>12
<1> QED  BY <1>13

\* A step that leaves what is open as it is, and ends the reading.
LEMMA StaysStacked ==
    ASSUME NEW Z, Stacked(Z), UNCHANGED <<parser, ifdefs, enabled, shown>>,
           Len(filestack') = Len(filestack), Renumbered \subseteq Renumbered', result' # "open"
    PROVE  Stacked(Z)'
<1>1. Levels(Z)'
  <2>1. ASSUME NEW i \in 1..Len(parser) PROVE Level(Z[i - 1], parser[i], Z[i], Renumbered')
    <3>1. Level(Z[i - 1], parser[i], Z[i], Renumbered)  BY DEF Stacked, Levels
    <3> QED  BY <3>1, LevelMore
  <2> QED  BY <2>1 DEF Stacked, Levels
<1>2. Counted(Z)'  BY DEF Stacked, Counted
<1> QED  BY <1>1, <1>2 DEF Stacked

\* A syntax error.
LEMMA ErrorLeads == ASSUME OutputInv, PreprocInv', NEW line, Reads(line), SyntaxError PROVE OutputInv'
<1>1. PreprocInv /\ LexersOK /\ ContentOK  BY DEF OutputInv
<1>2. ContentOK' /\ Renumbered \subseteq Renumbered'  BY <1>1, ReadsOn
<1>3. PICK Z : Stacked(Z)  BY DEF OutputInv
<1>4. PICK r : r = Advanced(Lexer)  OBVIOUS
<1>5. IsLexer(r) /\ Straight(r, Renumbered')  BY <1>1, <1>2, <1>4, AdvancedIs
<1>6. /\ UNCHANGED <<parser, ifdefs, enabled, shown>> /\ result' = "error"
      /\ filestack' = Append(Front(filestack), r)
  BY <1>4 DEF SyntaxError, Advance
<1>7. LexersOK' /\ Len(filestack') = Len(filestack)  BY <1>1, <1>2, <1>5, <1>6, LexersGo, LexerMoves
<1>8. Stacked(Z)'  BY <1>2, <1>3, <1>6, <1>7, StaysStacked
<1> QED  BY <1>2, <1>6, <1>7, <1>8, NotDone

\* The end of the program: the output is that of its file.
LEMMA EndInputLeads == ASSUME OutputInv, PreprocInv', EndInput PROVE OutputInv'
<1>1. PreprocInv /\ LexersOK /\ ContentOK  BY DEF OutputInv
<1>2. /\ result = "open" /\ (Len(filestack) = 1 \/ Top.kind # "file")
      /\ UNCHANGED <<content, filestack, parser, ifdefs, enabled, shown>>
      /\ result' = IF Top.kind = "file" /\ Body THEN "done" ELSE "error"
      /\ output' = IF result' = "done" THEN Top.out ELSE <<>>
  BY DEF EndInput
<1>3. Renumbered' = Renumbered /\ ContentOK' /\ LexersOK'
  BY <1>1, <1>2 DEF Renumbered, ContentOK, LexersOK
<1>4. PICK Z : Stacked(Z)  BY DEF OutputInv
<1>5. Stacked(Z)'  BY <1>2, <1>3, <1>4, StaysStacked
<1>6. CASE result' # "done"  BY <1>3, <1>5, <1>6, NotDone
<1>7. CASE result' = "done"
  <2>1. Top.kind = "file" /\ Len(filestack) = 1 /\ output' = Top.out  BY <1>2, <1>7
  <2>2. PICK n : n = Len(parser)  OBVIOUS
  <2>3. /\ Counted(Z) /\ Levels(Z) /\ n \in Nat \ {0} /\ Len(ifdefs) \in Nat
        /\ Z[n].blocks = Len(ifdefs) /\ n - Len(ifdefs) = Len(filestack)
        /\ Level(Z[n - 1], Top, Z[n], Renumbered) /\ Top = parser[n] /\ Z[n].read.texts = shown
    BY <1>1, <1>2, <1>4, <2>2, OnTop
  <2>4. n = 1
    <3>1. n \in 1..Len(parser)  BY <2>2, <2>3
    <3>2. n # 1 => n - Z[n].blocks # 1  BY <3>1, <2>1, <2>3 DEF Counted
    <3>3. n - Z[n].blocks = 1  BY <2>1, <2>3
    <3> QED  BY <3>2, <3>3
  <2>5. Z[n - 1] = Bottom  BY <2>3, <2>4 DEF Levels
  <2>6. PICK x : x = Bottom  OBVIOUS
  <2>7. x.read = Start /\ x.live = TRUE  BY <2>6 DEF Bottom
  <2>8. Keeps(Top, x.live) = Top.out  BY <2>1, <2>7 DEF Keeps
  <2>9. Walk(x.read, Keeps(Top, x.live), Z[n].read, Renumbered)  BY <2>3, <2>5, <2>6 DEF Level
  <2>10. Walk(Start, output', Z[n].read, Renumbered)  BY <2>1, <2>7, <2>8, <2>9
  <2>11. PICK lines : lines = output'  OBVIOUS
  <2>12. PICK at : at[0] = Start /\ at[Len(lines)] = Z[n].read /\ Trace(at, lines, Renumbered) /\ IsSeq(lines)
    BY <2>10, <2>11 DEF Walk
  <2>13. Len(lines) \in Nat /\ \A i \in 1..Len(lines) : at[i] = After(at[i - 1], lines[i])
    BY <2>12 DEF Trace, IsSeq
  <2>14. TextOf(lines) = shown  BY <2>3, <2>12, <2>13, TextsFollow
  <2>15. \A p \in Placed(lines) : p[1] = p[2] \/ p[1][1] \in Renumbered  BY <2>12, PlacesFollow
  <2>16. OutputRight'  BY <1>2, <2>11, <2>14 DEF OutputRight
  <2>17. PositionsRight'  BY <1>3, <2>11, <2>15 DEF PositionsRight
  <2> QED  BY <1>3, <1>5, <2>16, <2>17 DEF OutputInv
<1> QED  BY <1>6, <1>7

\* The first file is open and its #line is read.
LEMMA InitOutput == Init => OutputInv
<1> SUFFICES ASSUME Init PROVE OutputInv  OBVIOUS
<1>1. PreprocInv  BY InitKeeps
<1>2. PICK b, r, l : b = OpenFile(Main) /\ r = Reading(Main) /\ l = LineDirective(1, Main)  OBVIOUS
<1>3. /\ b.kind = "file" /\ b.out = <<l>> /\ b.before = <<>> /\ b.test = TRUE
      /\ r.file = Main /\ r.pos = 1 /\ r.name = Main /\ r.lineno = 1
      /\ l.kind = "line" /\ l.file = Main /\ l.number = 1
  BY <1>2 DEF OpenFile, Block, Reading, At, LineDirective
<1>4. /\ parser = <<b>> /\ filestack = <<r>> /\ ifdefs = <<>> /\ enabled = TRUE /\ shown = <<>>
      /\ result = "open" /\ content = [f \in Files |-> <<>>]
  BY <1>2 DEF Init
<1>5. ContentOK
  <2>1. IsSeq(<<>>)  BY ShortSeq
  <2> QED  BY <2>1, <1>4 DEF ContentOK
<1>6. Main \in Files  BY PreprocAssumption
<1>7. Len(parser) = 1 /\ parser[1] = b /\ Len(filestack) = 1 /\ filestack[1] = r /\ Len(ifdefs) = 0  BY <1>4
<1>8. LexersOK
  <2>1. Straight(r, Renumbered)  BY <1>3, <1>6 DEF Straight
  <2>2. \A k \in 1..1 : k = 1  OBVIOUS
  <2> QED  BY <2>1, <2>2, <1>7 DEF LexersOK
<1>9. PICK x : x = Bottom  OBVIOUS
<1>10. x.read = Start /\ x.live = TRUE /\ x.blocks = 0  BY <1>9 DEF Bottom
<1>11. PICK y : y.live = TRUE /\ y.blocks = 0 /\ y.read = After(Start, l)
  <2> DEFINE w == [read |-> After(Start, l), live |-> TRUE, blocks |-> 0]
  <2>1. w.live = TRUE /\ w.blocks = 0 /\ w.read = After(Start, l)  OBVIOUS
  <2> HIDE DEF w
  <2> QED  BY <2>1
<1>12. PICK Z : Z[0] = x /\ Z[1] = y
  <2> DEFINE w == [i \in 0..1 |-> IF i = 0 THEN x ELSE y]
  <2>1. w[0] = x /\ w[1] = y  OBVIOUS
  <2> HIDE DEF w
  <2> QED  BY <2>1
<1>13. Level(x, b, y, Renumbered)
  <2>1. IsSeq(b.out) /\ IsSeq(b.before)  BY <1>3, ShortSeq
  <2>2. Fits(Start, l, Renumbered)  BY <1>3 DEF Fits
  <2>3. Walk(Start, <<l>>, After(Start, l), Renumbered)  BY <2>2, WalkLine
  <2>4. Keeps(b, x.live) = <<l>>  BY <1>3, <1>10 DEF Keeps
  <2>5. y.live <=> Live(b, x.live)  BY <1>3, <1>10, <1>11 DEF Live
  <2>6. y.blocks = x.blocks + (IF b.kind = "file" THEN 0 ELSE 1)  BY <1>3, <1>10, <1>11
  <2>7. Walk(x.read, Keeps(b, x.live), y.read, Renumbered)  BY <2>3, <2>4, <1>10, <1>11
  <2>8. b.test \in BOOLEAN /\ y.live \in BOOLEAN  BY <1>3, <1>11
  <2> QED  BY <2>1, <2>5, <2>6, <2>7, <2>8 DEF Level
<1>14. \A i \in 1..1 : i = 1 /\ i - 1 = 0  OBVIOUS
<1>15. Levels(Z)  BY <1>7, <1>9, <1>12, <1>13, <1>14 DEF Levels
<1>16. Counted(Z)
  <2>1. \A i \in 0..1 : Z[i].blocks = 0
    <3>1. \A i \in 0..1 : i = 0 \/ i = 1  OBVIOUS
    <3> QED  BY <3>1, <1>10, <1>11, <1>12
  <2>2. \A i, j \in 0..1 : i <= j => Z[i].blocks <= Z[j].blocks /\ i - Z[i].blocks <= j - Z[j].blocks  BY <2>1
  <2>3. 1 - Z[1].blocks > 0  BY <2>1
  <2>4. Len(b.out) > 0 /\ b.out[1].kind = "line"  BY <1>3
  <2>5. \A i \in 0..1 : Z[i].blocks \in Nat  BY <2>1
  <2>6. Z[Len(parser)].blocks = Len(ifdefs) /\ Len(parser) - Len(ifdefs) = Len(filestack)  BY <2>1, <1>7
  <2>7. ASSUME NEW i \in 1..1
        PROVE  /\ i - Z[i].blocks > 0
               /\ parser[i].kind = "file" /\ i # 1 => i - Z[i].blocks # 1
               /\ parser[i].kind # "file" => (ifdefs[Z[i].blocks] <=> Z[i - 1].live)
               /\ parser[i].kind = "file" => Len(parser[i].out) > 0 /\ parser[i].out[1].kind = "line"
    <3>1. i = 1  OBVIOUS
    <3>2. parser[i] = b  BY <3>1, <1>7
    <3> QED  BY <3>1, <3>2, <2>3, <2>4, <1>3
  <2> QED  BY <2>2, <2>5, <2>6, <2>7, <1>7 DEF Counted
<1>17. Leads(Z)
  <2>1. Lexer = r  BY <1>7 DEF Lexer, Last
  <2>2. y.read.pos = <<Main, 1>>  BY <1>3, <1>11 DEF After
  <2>3. Z[Len(parser)].read.pos = <<Lexer.file, Lexer.pos>>  BY <2>1, <2>2, <1>3, <1>7, <1>12
  <2> QED  BY <2>3, <1>7, <1>14 DEF Leads
<1>18. y.read.texts = shown  BY <1>3, <1>4, <1>11 DEF After, Start
<1>19. Stacked(Z)  BY <1>4, <1>7, <1>11, <1>12, <1>15, <1>16, <1>17, <1>18 DEF Stacked
<1>20. OutputRight /\ PositionsRight  BY <1>4 DEF OutputRight, PositionsRight
<1> QED  BY <1>1, <1>5, <1>8, <1>19, <1>20 DEF OutputInv

\* Every step keeps the invariant.
LEMMA StepOutput == OutputInv /\ [Next]_vars => OutputInv'
<1> SUFFICES ASSUME OutputInv, [Next]_vars PROVE OutputInv'  OBVIOUS
<1>1. PreprocInv'  BY StepKeeps DEF OutputInv
<1>2. ASSUME UNCHANGED vars PROVE OutputInv'
  <2>1. Renumbered' = Renumbered /\ LexersOK' /\ ContentOK' /\ OutputRight' /\ PositionsRight'
    BY <1>2 DEF vars, OutputInv, Renumbered, LexersOK, ContentOK, OutputRight, PositionsRight
  <2>2. PICK Z : Stacked(Z)  BY DEF OutputInv
  <2>3. Levels(Z)' /\ Counted(Z)'
    BY <1>2, <2>1, <2>2 DEF vars, Stacked, Levels, Counted
  <2>4. (result = "open" => Leads(Z))'
    BY <1>2, <2>1, <2>2 DEF vars, Stacked, Leads, Lexer
  <2>5. (Z[Len(parser)].live <=> enabled)' /\ (Z[Len(parser)].read.texts = shown)'
    BY <1>2, <2>2 DEF vars, Stacked
  <2>6. Stacked(Z)'  BY <2>3, <2>4, <2>5 DEF Stacked
  <2> QED  BY <1>1, <2>1, <2>6 DEF OutputInv
<1>3. ASSUME NEW m, Text(m) PROVE OutputInv'  BY <1>1, <1>3, TextKeeps
<1>4. ASSUME NEW m, Undef(m) PROVE OutputInv'
  <2>1. PICK line : Reads(line)  BY <1>4 DEF Undef
  <2>2. Advance /\ parser' = Adding(parser, <<Blank>>) /\ UNCHANGED <<ifdefs, enabled, result, shown>>
    BY <1>4 DEF Undef
  <2> QED  BY <1>1, <2>1, <2>2, BlankKeeps
<1>5. ASSUME NEW m, NEW value, Define(m, value) PROVE OutputInv'  BY <1>1, <1>5, DefineKeeps
<1>6. ASSUME Conditional PROVE OutputInv'
  <2>1. ASSUME NEW directive \in {"if", "ifdef", "ifndef"}, NEW m, IfHeader(directive, m) PROVE OutputInv'
    BY <1>1, <2>1, IfHeaderLeads
  <2>2. ASSUME ElseAstray \/ EndIfAstray PROVE OutputInv'
    <3>1. SyntaxError /\ \E line : Reads(line)  BY <2>2 DEF ElseAstray, EndIfAstray
    <3> QED  BY <1>1, <3>1, ErrorLeads
  <2>3. ASSUME Else PROVE OutputInv'  BY <1>1, <2>3, ElseLeads
  <2>4. ASSUME EndIf PROVE OutputInv'  BY <1>1, <2>4, EndIfLeads
  <2> QED  BY <1>6, <2>1, <2>2, <2>3, <2>4 DEF Conditional
<1>7. ASSUME Inclusion PROVE OutputInv'
  <2> SUFFICES ASSUME NEW query, NEW local_first, NEW once,
                      \/ Include(query, local_first, once)
                      \/ IncludeNothing(query, local_first, once)
                      \/ IncludeMissing(query, local_first, once)
               PROVE OutputInv'
    BY <1>7 DEF Inclusion
  <2>1. CASE Include(query, local_first, once)  BY <1>1, <2>1, IncludeLeads
  <2>2. CASE IncludeNothing(query, local_first, once)
    <3>1. PICK line : Reads(line)  BY <2>2 DEF IncludeNothing
    <3>2. Advance /\ parser' = Adding(parser, <<Blank>>) /\ UNCHANGED <<ifdefs, enabled, result, shown>>
      BY <2>2 DEF IncludeNothing
    <3> QED  BY <1>1, <3>1, <3>2, BlankKeeps
  <2>3. CASE IncludeMissing(query, local_first, once)
    <3>1. SyntaxError /\ \E line : Reads(line)  BY <2>3 DEF IncludeMissing
    <3> QED  BY <1>1, <3>1, ErrorLeads
  <2> QED  BY <2>1, <2>2, <2>3
<1>8. ASSUME PragmaOnce PROVE OutputInv'
  <2>1. PICK line : Reads(line)  BY <1>8 DEF PragmaOnce
  <2>2. Advance /\ parser' = Adding(parser, <<Blank>>) /\ UNCHANGED <<ifdefs, enabled, result, shown>>
    BY <1>8 DEF PragmaOnce
  <2> QED  BY <1>1, <2>1, <2>2, BlankKeeps
<1>9. ASSUME NEW n \in {1}, NEW name, Line(n, name) PROVE OutputInv'
  <2>1. n \in Nat  OBVIOUS
  <2> QED  BY <1>1, <1>9, <2>1, NumberKeeps
<1>10. ASSUME EndFile PROVE OutputInv'  BY <1>1, <1>10, EndFileLeads
<1>11. ASSUME EndInput PROVE OutputInv'  BY <1>1, <1>11, EndInputLeads
<1> QED  BY <1>2, <1>3, <1>4, <1>5, <1>6, <1>7, <1>8, <1>9, <1>10, <1>11 DEF Next

\* The invariant of any run.
LEMMA OutputInvariant == Spec => []OutputInv
<1> QED  BY InitOutput, StepOutput, PTL DEF Spec

\* The output of any program has the lines of text whose conditions hold, once
\* each and in the order they were read, whatever blocks and files they are in.
THEOREM OutputAlways == Spec => []OutputRight
<1>1. OutputInv => OutputRight  BY DEF OutputInv
<1> QED  BY <1>1, OutputInvariant, PTL

\* The #line directives of the output put each of its lines of text where it
\* was read, unless its file has a #line of its own.
THEOREM PositionsAlways == Spec => []PositionsRight
<1>1. OutputInv => PositionsRight  BY DEF OutputInv
<1> QED  BY <1>1, OutputInvariant, PTL---------------------------------------------------------------------------
(* Files read once.                                                        *)

\* A file with a #pragma once that took effect is marked so in INCLUDED, which has
\* every file that was begun but the first; a lexer is not past the line after the
\* last one known of its file.
OnceInv ==
    /\ \A k \in 1..Len(filestack) : filestack[k].pos <= Len(content[filestack[k].file]) + 1
    /\ \A f \in sealed : f \in DOMAIN included /\ included[f]
    /\ \A f \in Files : begun[f] \in Nat /\ (begun[f] > 0 => f = Main \/ f \in DOMAIN included)
    /\ DOMAIN begun = Files

\* The line read is where the lexer is.
LEMMA ReadsThere ==
    ASSUME PreprocInv, LexersOK, ContentOK, OnceInv, NEW line, Reads(line)
    PROVE  /\ content'[Lexer.file][Lexer.pos] = line
           /\ Lexer.pos <= Len(content'[Lexer.file])
           /\ \A f \in Files : Len(content'[f]) \in Nat /\ Len(content[f]) <= Len(content'[f])
<1> PICK f, p : f = Lexer.file /\ p = Lexer.pos  OBVIOUS
<1>1. f \in Files /\ p \in Nat \ {0} /\ p <= Len(content[f]) + 1
  <2>1. Len(filestack) \in Nat \ {0} /\ Lexer = filestack[Len(filestack)]  BY Stacks
  <2> QED  BY <2>1 DEF LexersOK, Straight, OnceInv
<1>2. IsSeq(content[f]) /\ Len(content[f]) \in Nat  BY <1>1 DEF ContentOK, IsSeq
<1>3. \A g \in Files : Len(content[g]) \in Nat  BY DEF ContentOK, IsSeq
<1>4. CASE p <= Len(content[f]) /\ content[f][p] = line /\ UNCHANGED content  BY <1>3, <1>4
<1>5. CASE ~(p <= Len(content[f])) /\ content' = [content EXCEPT ![f] = Append(@, line)]
  <2>1. /\ Len(Append(content[f], line)) = Len(content[f]) + 1
        /\ Append(content[f], line)[Len(content[f]) + 1] = line
    BY <1>2, AppendIs
  <2>2. DOMAIN content = Files  BY DEF ContentOK
  <2>3. content'[f] = Append(content[f], line) /\ \A g \in Files : g # f => content'[g] = content[g]
    BY <1>1, <1>5, <2>2
  <2>4. p = Len(content[f]) + 1  BY <1>1, <1>2, <1>5
  <2>5. content'[f][p] = line /\ p <= Len(content'[f]) /\ Len(content'[f]) = Len(content[f]) + 1
    BY <1>1, <2>1, <2>3, <2>4
  <2>6. ASSUME NEW g \in Files PROVE Len(content'[g]) \in Nat /\ Len(content[g]) <= Len(content'[g])
    <3>1. CASE g = f  BY <3>1, <1>2, <2>5
    <3>2. CASE g # f  BY <3>2, <1>3, <2>3
    <3> QED  BY <3>1, <3>2
  <2> QED  BY <2>5, <2>6
<1> QED  BY <1>4, <1>5 DEF Reads

\* A line is read and the lexer goes on to the next; no file is begun.
LEMMA OnceGoesOn ==
    ASSUME PreprocInv, LexersOK, ContentOK, OnceInv, NEW line, Reads(line), UNCHANGED begun,
           NEW r, IsLexer(r), r.file = Lexer.file, r.pos = Lexer.pos + 1,
           filestack' = Append(Front(filestack), r),
           DOMAIN included \subseteq DOMAIN included',
           \A f \in sealed' : f \in DOMAIN included' /\ included'[f]
    PROVE  OnceInv'
<1>1. /\ Lexer.pos <= Len(content'[Lexer.file])
      /\ \A f \in Files : Len(content'[f]) \in Nat /\ Len(content[f]) <= Len(content'[f])
      /\ \A f \in Files : Len(content[f]) \in Nat
  BY ReadsThere DEF ContentOK, IsSeq
<1>2. /\ Len(filestack) \in Nat \ {0} /\ Lexer = filestack[Len(filestack)]
      /\ Len(filestack') = Len(filestack) /\ filestack'[Len(filestack)] = r
      /\ \A k \in 1..Len(filestack) - 1 : filestack'[k] = filestack[k]
  BY Stacks, LexerMoves
<1>3. \A k \in 1..Len(filestack) : filestack[k].file \in Files /\ filestack[k].pos \in Nat
  BY DEF LexersOK, Straight
<1>4. ASSUME NEW k \in 1..Len(filestack)
      PROVE  filestack'[k].pos <= Len(content'[filestack'[k].file]) + 1
  <2>1. CASE k = Len(filestack)
    <3>1. PICK p, c : p = Lexer.pos /\ c = Len(content'[Lexer.file])  OBVIOUS
    <3>2. p \in Nat /\ c \in Nat /\ p <= c  BY <3>1, <1>1, <1>2, <1>3
    <3>3. p + 1 <= c + 1  BY <3>2
    <3> QED  BY <3>1, <3>3, <2>1, <1>2
  <2>2. CASE k \in 1..Len(filestack) - 1
    <3>1. PICK q : q = filestack[k]  OBVIOUS
    <3>2. PICK p, c, d : p = q.pos /\ c = Len(content[q.file]) /\ d = Len(content'[q.file])  OBVIOUS
    <3>3. p \in Nat /\ c \in Nat /\ d \in Nat /\ c <= d /\ p <= c + 1  BY <3>1, <3>2, <1>1, <1>3 DEF OnceInv
    <3>4. p <= d + 1  BY <3>3
    <3> QED  BY <3>1, <3>2, <3>4, <2>2, <1>2
  <2>3. k = Len(filestack) \/ k \in 1..Len(filestack) - 1  BY <1>2
  <2> QED  BY <2>1, <2>2, <2>3
<1> QED  BY <1>2, <1>4 DEF OnceInv

\* The same, where no file is marked.
LEMMA OncePasses ==
    ASSUME OutputInv, OnceInv, NEW line, Reads(line), UNCHANGED <<begun, included, sealed>>, Advance
    PROVE  OnceInv'
<1>1. PreprocInv /\ LexersOK /\ ContentOK  BY DEF OutputInv
<1>2. Renumbered \subseteq Renumbered'  BY <1>1, ReadsOn
<1>3. PICK r : r = Advanced(Lexer)  OBVIOUS
<1>4. IsLexer(r) /\ r.file = Lexer.file /\ r.pos = Lexer.pos + 1  BY <1>1, <1>2, <1>3, AdvancedIs
<1>5. filestack' = Append(Front(filestack), r)  BY <1>3 DEF Advance
<1>6. \A f \in sealed' : f \in DOMAIN included' /\ included'[f]  BY DEF OnceInv
<1> QED  BY <1>1, <1>4, <1>5, <1>6, OnceGoesOn

\* What is begun is the file included, and there was nothing against it.
LEMMA IncludeOnce ==
    ASSUME OutputInv, OnceInv, NEW query, NEW local_first, NEW once, Include(query, local_first, once)
    PROVE  /\ OnceInv'
           /\ \A f \in Files : begun'[f] > begun[f] =>
                 /\ f \notin sealed
                 /\ content'[Lexer.file][Lexer.pos].kind = "include once" => f = Main \/ begun[f] = 0
<1>1. PICK file \in Search(query, local_first) :
          /\ Reads(IncludeLine(query, local_first, once)) /\ ~Skipped(file, once)
          /\ included' = [f \in DOMAIN included \cup {file} |-> f \in DOMAIN included /\ included[f]]
          /\ filestack' = Append(Append(Front(filestack), Advanced(Lexer)), Reading(file))
          /\ begun' = [begun EXCEPT ![file] = @ + 1]
  BY DEF Include
<1>2. PreprocInv /\ LexersOK /\ ContentOK  BY DEF OutputInv
<1>3. file \in Files /\ sealed' = sealed  BY SearchFinds DEF Include
<1>4. PICK line : line = IncludeLine(query, local_first, once) /\ Reads(line)  BY <1>1
<1>5. line.kind = "include once" => once  BY <1>4 DEF IncludeLine
<1>6. /\ content'[Lexer.file][Lexer.pos] = line /\ Lexer.pos <= Len(content'[Lexer.file])
      /\ \A f \in Files : Len(content'[f]) \in Nat /\ Len(content[f]) <= Len(content'[f])
      /\ \A f \in Files : Len(content[f]) \in Nat
  BY <1>2, <1>4, ReadsThere DEF ContentOK, IsSeq
<1>7. /\ \A f \in Files : begun[f] \in Nat /\ (begun[f] > 0 => f = Main \/ f \in DOMAIN included)
      /\ DOMAIN begun = Files
      /\ \A f \in sealed : f \in DOMAIN included /\ included[f]
  BY DEF OnceInv
<1>8. /\ DOMAIN begun' = Files /\ begun'[file] = begun[file] + 1
      /\ \A f \in Files : f # file => begun'[f] = begun[f]
  BY <1>1, <1>3, <1>7
<1>9. DOMAIN included' = DOMAIN included \cup {file} /\ \A f \in DOMAIN included : included'[f] <=> included[f]
  BY <1>1
<1>10. ASSUME NEW f \in Files, begun'[f] > begun[f]
       PROVE  /\ f \notin sealed
              /\ content'[Lexer.file][Lexer.pos].kind = "include once" => f = Main \/ begun[f] = 0
  <2>1. f = file
    <3>1. begun[f] \in Nat  BY <1>7
    <3> QED  BY <3>1, <1>8, <1>10
  <2>2. ~(file \in DOMAIN included /\ (once \/ included[file]))  BY <1>1 DEF Skipped
  <2>3. file \notin sealed  BY <2>2, <1>7
  <2>4. once => file \notin DOMAIN included  BY <2>2
  <2>5. once => file = Main \/ begun[file] = 0  BY <2>4, <1>3, <1>7
  <2> QED  BY <2>1, <2>3, <2>5, <1>5, <1>6
<1>11. PICK m : m = Len(filestack)  OBVIOUS
<1>12. PICK r, s : r = Advanced(Lexer) /\ s = Reading(file)  OBVIOUS
<1>13. r.file = Lexer.file /\ r.pos = Lexer.pos + 1 /\ s.file = file /\ s.pos = 1
  BY <1>12 DEF Advanced, Reading, At
<1>14. m \in Nat \ {0} /\ Lexer = filestack[m] /\ IsSeq(filestack)  BY <1>2, <1>11, Stacks DEF PreprocInv, StacksOK
<1>15. /\ Len(filestack') = m + 1 /\ filestack'[m + 1] = s /\ filestack'[m] = r
       /\ \A i \in 1..m - 1 : filestack'[i] = filestack[i]
  <2>1. PICK f : f = Append(Front(filestack), r)  OBVIOUS
  <2>2. IsSeq(filestack) /\ Len(filestack) > 0  BY <1>11, <1>14
  <2>3. /\ IsSeq(Append(Front(filestack), r)) /\ Len(Append(Front(filestack), r)) = Len(filestack)
        /\ \A i \in 1..Len(filestack) - 1 : Append(Front(filestack), r)[i] = filestack[i]
        /\ Append(Front(filestack), r)[Len(filestack)] = r
    BY <2>2, LastReplaced
  <2>4. IsSeq(f) /\ Len(f) = m /\ f[m] = r /\ \A i \in 1..m - 1 : f[i] = filestack[i]  BY <2>1, <2>3, <1>11
  <2>5. /\ Len(Append(f, s)) = Len(f) + 1
        /\ \A i \in 1..Len(f) : Append(f, s)[i] = f[i]
        /\ Append(f, s)[Len(f) + 1] = s
    BY <2>4, AppendIs
  <2>6. filestack' = Append(f, s)  BY <2>1, <1>1, <1>12
  <2>7. m \in 1..m /\ \A i \in 1..m - 1 : i \in 1..m  BY <1>14
  <2> QED  BY <2>4, <2>5, <2>6, <2>7
<1>16. ASSUME NEW k \in 1..m + 1
       PROVE  filestack'[k].pos <= Len(content'[filestack'[k].file]) + 1
  <2>1. CASE k = m + 1
    <3>1. PICK c : c = Len(content'[file])  OBVIOUS
    <3>2. c \in Nat  BY <3>1, <1>3, <1>6
    <3>3. 1 <= c + 1  BY <3>2
    <3> QED  BY <3>1, <3>3, <2>1, <1>13, <1>15
  <2>2. CASE k = m
    <3>1. PICK p, c : p = Lexer.pos /\ c = Len(content'[Lexer.file])  OBVIOUS
    <3>2. Lexer.file \in Files /\ p \in Nat  BY <3>1, <1>2, <1>11, <1>14 DEF LexersOK, Straight
    <3>3. c \in Nat /\ p <= c  BY <3>1, <3>2, <1>6
    <3>4. p + 1 <= c + 1  BY <3>2, <3>3
    <3> QED  BY <3>1, <3>4, <2>2, <1>13, <1>15
  <2>3. CASE k \in 1..m - 1
    <3>1. PICK q : q = filestack[k]  OBVIOUS
    <3>2. PICK p, c, d : p = q.pos /\ c = Len(content[q.file]) /\ d = Len(content'[q.file])  OBVIOUS
    <3>3. k \in 1..Len(filestack)  BY <2>3, <1>11, <1>14
    <3>4. q.file \in Files /\ p \in Nat  BY <3>1, <3>2, <3>3, <1>2 DEF LexersOK, Straight
    <3>5. p <= c + 1  BY <3>1, <3>2, <3>3 DEF OnceInv
    <3>6. c \in Nat /\ d \in Nat /\ c <= d  BY <3>2, <3>4, <1>6
    <3>7. p <= d + 1  BY <3>4, <3>5, <3>6
    <3> QED  BY <3>1, <3>2, <3>7, <2>3, <1>15
  <2>4. k = m + 1 \/ k = m \/ k \in 1..m - 1  BY <1>14
  <2> QED  BY <2>1, <2>2, <2>3, <2>4
<1>17. OnceInv'
  <2>1. ASSUME NEW f \in sealed' PROVE f \in DOMAIN included' /\ included'[f]
    <3>1. f \in sealed /\ f \in DOMAIN included /\ included[f]  BY <2>1, <1>3, <1>7
    <3> QED  BY <3>1, <1>9
  <2>2. ASSUME NEW f \in Files PROVE begun'[f] \in Nat /\ (begun'[f] > 0 => f = Main \/ f \in DOMAIN included')
    <3>1. CASE f = file  BY <3>1, <1>7, <1>8, <1>9
    <3>2. CASE f # file  BY <3>2, <1>7, <1>8, <1>9
    <3> QED  BY <3>1, <3>2
  <2>3. \A k \in 1..Len(filestack') : filestack'[k].pos <= Len(content'[filestack'[k].file]) + 1
    BY <1>15, <1>16
  <2> QED  BY <2>1, <2>2, <2>3, <1>8 DEF OnceInv
<1> QED  BY <1>10, <1>17

\* No other step begins a file.
LEMMA OnceKeeps ==
    ASSUME OutputInv, FilesInv, OnceInv, [Next]_vars
    PROVE  \/ OnceInv' /\ begun' = begun
           \/ \E query, local_first, once : Include(query, local_first, once)
<1> DEFINE Good == OnceInv' /\ begun' = begun
<1>1. PreprocInv /\ LexersOK /\ ContentOK  BY DEF OutputInv
<1>2. Len(filestack) \in Nat \ {0} /\ Lexer = filestack[Len(filestack)]  BY <1>1, Stacks
<1>3. ASSUME UNCHANGED <<content, filestack, included, begun, sealed>> PROVE Good
  BY <1>3 DEF OnceInv
<1>4. ASSUME NEW line, Reads(line), UNCHANGED <<begun, included, sealed>>, Advance PROVE Good
  BY <1>4, OncePasses
<1> HIDE DEF Good
<1>5. ASSUME NEW line, Reads(line), SyntaxError PROVE Good  BY <1>4, <1>5 DEF SyntaxError
<1>6. ASSUME NEW m, Text(m) \/ Undef(m) PROVE Good
  <2>1. \E line : Reads(line)  BY <1>6 DEF Text, Undef
  <2>2. UNCHANGED <<begun, included, sealed>> /\ Advance  BY <1>6 DEF Text, Undef
  <2> QED  BY <2>1, <2>2, <1>4
<1>7. ASSUME NEW m, NEW value, Define(m, value) PROVE Good
  <2>1. \E line : Reads(line)  BY <1>7 DEF Define
  <2>2. UNCHANGED <<begun, included, sealed>> /\ Advance  BY <1>7 DEF Define
  <2> QED  BY <2>1, <2>2, <1>4
<1>8. ASSUME Conditional PROVE Good
  <2>1. ASSUME ElseAstray \/ EndIfAstray PROVE Good
    <3>1. SyntaxError /\ \E line : Reads(line)  BY <2>1 DEF ElseAstray, EndIfAstray
    <3> QED  BY <3>1, <1>5
  <2>2. ASSUME NEW directive, NEW m, IfHeader(directive, m) PROVE Good
    <3>1. \E line : Reads(line)  BY <2>2 DEF IfHeader
    <3>2. UNCHANGED <<begun, included, sealed>> /\ Advance  BY <2>2 DEF IfHeader
    <3> QED  BY <3>1, <3>2, <1>4
  <2>3. ASSUME Else \/ EndIf PROVE Good
    <3>1. \E line : Reads(line)  BY <2>3 DEF Else, EndIf
    <3>2. UNCHANGED <<begun, included, sealed>> /\ Advance  BY <2>3 DEF Else, EndIf
    <3> QED  BY <3>1, <3>2, <1>4
  <2> QED  BY <1>8, <2>1, <2>2, <2>3 DEF Conditional
<1>9. ASSUME Inclusion PROVE Good \/ \E query, local_first, once : Include(query, local_first, once)
  <2> SUFFICES ASSUME NEW query, NEW local_first, NEW once,
                      IncludeNothing(query, local_first, once) \/ IncludeMissing(query, local_first, once)
               PROVE Good
    BY <1>9 DEF Inclusion
  <2>1. CASE IncludeNothing(query, local_first, once)
    <3>1. \E line : Reads(line)  BY <2>1 DEF IncludeNothing
    <3>2. UNCHANGED <<begun, included, sealed>> /\ Advance  BY <2>1 DEF IncludeNothing
    <3> QED  BY <3>1, <3>2, <1>4
  <2>2. CASE IncludeMissing(query, local_first, once)
    <3>1. SyntaxError /\ \E line : Reads(line)  BY <2>2 DEF IncludeMissing
    <3> QED  BY <3>1, <1>5
  <2> QED  BY <2>1, <2>2
<1>10. ASSUME EndFile PROVE Good
  <2>1. /\ filestack' = Front(filestack) /\ UNCHANGED <<content, included, begun, sealed>>
        /\ Len(filestack) > 1
    BY <1>10 DEF EndFile
  <2>2. /\ Len(filestack') = Len(filestack) - 1 /\ \A k \in 1..Len(filestack) - 1 : filestack'[k] = filestack[k]
    <3>1. IsSeq(filestack) /\ Len(filestack) > 0  BY <1>1, <1>2 DEF PreprocInv, StacksOK
    <3> QED  BY <3>1, <2>1, FrontIs
  <2>3. ASSUME NEW k \in 1..Len(filestack')
        PROVE  filestack'[k].pos <= Len(content'[filestack'[k].file]) + 1
    <3>1. k \in 1..Len(filestack) - 1 /\ k \in 1..Len(filestack)  BY <1>2, <2>2
    <3>2. filestack'[k] = filestack[k]  BY <3>1, <2>2
    <3>3. filestack[k].pos <= Len(content[filestack[k].file]) + 1  BY <3>1 DEF OnceInv
    <3> QED  BY <3>2, <3>3, <2>1
  <2> QED  BY <2>1, <2>3 DEF Good, OnceInv
<1>11. ASSUME PragmaOnce PROVE Good
  <2>1. PICK line : Reads(line)  BY <1>11 DEF PragmaOnce
  <2>2. PICK f : f = Last(current_file)  OBVIOUS
  <2>3. f = Lexer.file  BY <1>2, <2>2 DEF FilesInv, Last
  <2>4. /\ included' = [g \in DOMAIN included \cup {f} |-> g = f \/ included[g]]
        /\ sealed' = IF Shows THEN sealed \cup {f} ELSE sealed
        /\ Advance /\ begun' = begun
    BY <1>11, <2>2, <2>3 DEF PragmaOnce
  <2>5. /\ DOMAIN included' = DOMAIN included \cup {f}
        /\ \A g \in DOMAIN included \cup {f} : included'[g] <=> (g = f \/ included[g])
    BY <2>4
  <2>6. ASSUME NEW g \in sealed' PROVE g \in DOMAIN included' /\ included'[g]
    <3>1. g = f \/ g \in sealed  BY <2>4
    <3>2. g \in sealed => g \in DOMAIN included /\ included[g]  BY DEF OnceInv
    <3> QED  BY <3>1, <3>2, <2>5
  <2>7. Renumbered \subseteq Renumbered'  BY <1>1, <2>1, ReadsOn
  <2>8. PICK r : r = Advanced(Lexer)  OBVIOUS
  <2>9. IsLexer(r) /\ r.file = Lexer.file /\ r.pos = Lexer.pos + 1  BY <1>1, <2>7, <2>8, AdvancedIs
  <2>10. filestack' = Append(Front(filestack), r)  BY <2>4, <2>8 DEF Advance
  <2>11. OnceInv'  BY <1>1, <2>1, <2>4, <2>5, <2>6, <2>9, <2>10, OnceGoesOn
  <2> QED  BY <2>4, <2>11 DEF Good
<1>12. ASSUME NEW n, NEW name, Line(n, name) PROVE Good
  <2>1. PICK line : Reads(line)  BY <1>12 DEF Line
  <2>2. PICK r : r = At(Lexer.file, Lexer.pos + 1, name, n + 1)  OBVIOUS
  <2>3. IsLexer(r) /\ r.file = Lexer.file /\ r.pos = Lexer.pos + 1  BY <2>2 DEF At, IsLexer
  <2>4. filestack' = Append(Front(filestack), r) /\ UNCHANGED <<begun, included, sealed>>
    BY <1>12, <2>2 DEF Line
  <2>5. \A f \in sealed' : f \in DOMAIN included' /\ included'[f]  BY <2>4 DEF OnceInv
  <2>6. OnceInv'  BY <1>1, <2>1, <2>3, <2>4, <2>5, OnceGoesOn
  <2> QED  BY <2>4, <2>6 DEF Good
<1>13. UNCHANGED vars \/ EndInput => Good  BY <1>3 DEF vars, EndInput
<1>14. Good \/ \E query, local_first, once : Include(query, local_first, once)
  BY <1>6, <1>7, <1>8, <1>9, <1>10, <1>11, <1>12, <1>13 DEF Next
<1> QED  BY <1>14 DEF Good

\* Where no file is without lines, a file with a #pragma once that took effect is not
\* read again, and an #include once reads only what no #include has read before.
THEOREM OnceAlways == ASSUME "empty" \notin Kinds PROVE Spec => OnceOnly
<1>1. Init => FilesInv
  <2> SUFFICES ASSUME Init PROVE FilesInv  OBVIOUS
  <2>1. filestack = <<Reading(Main)>> /\ current_file = <<Main>> /\ current_dir = Dir(Main)  BY DEF Init
  <2>2. IsSeq(current_file)  BY <2>1, ShortSeq
  <2>3. Reading(Main).file = Main  BY DEF Reading, At
  <2> QED  BY <2>1, <2>2, <2>3 DEF FilesInv
<1>2. Init => OnceInv
  <2> SUFFICES ASSUME Init PROVE OnceInv  OBVIOUS
  <2>1. Main \in Files  BY PreprocAssumption
  <2>2. /\ filestack = <<Reading(Main)>> /\ content = [f \in Files |-> <<>>] /\ sealed = {}
        /\ begun = [f \in Files |-> IF f = Main THEN 1 ELSE 0]
    BY DEF Init
  <2>3. Reading(Main).file = Main /\ Reading(Main).pos = 1  BY DEF Reading, At
  <2>4. Len(content[Main]) = 0  BY <2>1, <2>2
  <2>5. \A k \in 1..Len(filestack) : filestack[k].pos <= Len(content[filestack[k].file]) + 1
    <3>1. Len(filestack) = 1 /\ filestack[1] = Reading(Main) /\ \A k \in 1..1 : k = 1  BY <2>2
    <3>2. filestack[1].pos <= Len(content[filestack[1].file]) + 1  BY <3>1, <2>3, <2>4
    <3> QED  BY <3>1, <3>2
  <2> QED  BY <2>1, <2>2, <2>5 DEF OnceInv
<1>3. PreprocInv /\ FilesInv /\ [Next]_vars => FilesInv'  BY FilesKeep
<1>4. OutputInv /\ FilesInv /\ OnceInv /\ [Next]_vars => OnceInv'  BY OnceKeeps, IncludeOnce
<1>5. OutputInv /\ FilesInv /\ OnceInv /\ [Next]_vars =>
        [\A f \in Files : begun'[f] > begun[f] =>
            /\ f \notin sealed
            /\ content'[Lexer.file][Lexer.pos].kind = "include once" => f = Main \/ begun[f] = 0]_vars
  <2> SUFFICES ASSUME OutputInv, FilesInv, OnceInv, [Next]_vars, NEW f \in Files, begun'[f] > begun[f]
               PROVE  /\ f \notin sealed
                      /\ content'[Lexer.file][Lexer.pos].kind = "include once" => f = Main \/ begun[f] = 0
    OBVIOUS
  <2>1. begun' # begun
    <3>1. begun[f] \in Nat  BY DEF OnceInv
    <3> QED  BY <3>1
  <2>2. PICK query, local_first, once : Include(query, local_first, once)  BY <2>1, OnceKeeps
  <2> QED  BY <2>2, IncludeOnce
<1> QED  BY <1>1, <1>2, <1>3, <1>4, <1>5, PreprocInvariant, OutputInvariant, PTL DEF Spec, OnceOnly
=============================================================================
