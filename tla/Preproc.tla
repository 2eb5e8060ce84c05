------------------------------ MODULE Preproc ------------------------------
(* The preprocessor (zxbpp): conditional blocks, the stack of files being   *)
(* included and the table of definitions.  It reads a line at a time.  The  *)
(* output is put together by the reductions of the parser: the lines of a   *)
(* block are kept or dropped when its #else or #endif is met, while ENABLED *)
(* and IFDEFS say meanwhile whether a directive takes effect.               *)
(*                                                                          *)
(* What the files contain is chosen as they are read, line by line, and is  *)
(* found again when a file is read twice.  A file is a path, the sequence   *)
(* of its components; a macro stands for a number or a name.                *)
EXTENDS Naturals, Sequences, FiniteSets, SequencesExt, FiniteSetsExt, Functions

CONSTANTS
    Files,      \* the files that exist
    Main,       \* the one that is compiled
    Library,    \* INCLUDEPATH: the directory searched last
    Includes,   \* bound: the #includes tried, <<name, "..." or <...>, once>>
    Macros,     \* names that can be defined
    Numbers,    \* [true, false |-> the values that #if tells apart]
    MaxLines,   \* bound: lines of all the files
    MaxDepth,   \* bound: files and blocks inside one another
    MaxOutput,  \* bound: lines of output
    Values,     \* bound: what a #define gives
    Kinds       \* bound: the lines tried

ASSUME PreprocAssumption ==
    /\ Main \in Files
    /\ MaxLines \in Nat /\ MaxDepth \in Nat \ {0}

VARIABLES
    content,      \* [Files -> Seq(line)]: what is known of them
    ended,        \* the files whose end is known
    filestack,    \* the lexers of the files being read, the innermost last
    current_file, \* output.CURRENT_FILE
    current_dir,  \* CURRENT_DIR
    enabled,      \* ENABLED
    ifdefs,       \* IFDEFS: ENABLED as it was outside each open block
    id_table,     \* ID_TABLE: the macros defined, with their values
    included,     \* INCLUDED: file |-> whether only once
    parser,       \* the parser's stack: the open files and blocks
    output,       \* OUTPUT
    result,       \* "open", "done" or "error"
    conds,        \* history: the condition of each open block
    shown,        \* history: the lines of text all of whose conditions hold
    sealed,       \* history: files with a #pragma once that took effect
    begun         \* history: [Files -> Nat], how often each was started

vars == <<content, ended, filestack, current_file, current_dir, enabled, ifdefs,
          id_table, included, parser, output, result, conds, shown, sealed, begun>>

\* Output lines: a line of text, an empty one and a #line directive.
TextLine(place, value) == [kind |-> "text", place |-> place, value |-> value]
Blank == [kind |-> "blank"]
LineDirective(n, file) == [kind |-> "line", number |-> n, file |-> file]

At(file, pos, name, lineno) == [file |-> file, pos |-> pos, name |-> name, lineno |-> lineno]
Reading(file) == At(file, 1, file, 1)
Block(kind, out, before, test) == [kind |-> kind, out |-> out, before |-> before, test |-> test]
OpenFile(file) == Block("file", <<LineDirective(1, file)>>, <<>>, TRUE)

Lexer == Last(filestack)
Top == Last(parser)

\* The open files and blocks with lines of output added to the innermost.
Adding(blocks, lines) ==
    LET b == Last(blocks)
    IN  Append(Front(blocks), Block(b.kind, b.out \o lines, b.before, b.test))
---------------------------------------------------------------------------
(* Macros.                                                                 *)

\* A macro expands to its value, and so on, until a name is not defined or
\* is being expanded already.
Expand(m) ==
    LET at[i \in 0..Cardinality(Macros)] ==
            IF i = 0 THEN m
            ELSE IF at[i - 1] \in DOMAIN id_table THEN id_table[at[i - 1]] ELSE at[i - 1]
        stops == {i \in DOMAIN at : at[i] \notin DOMAIN id_table \/ \E j \in 0..i - 1 : at[j] = at[i]}
    IN  at[Min(stops)]

Test(directive, m) ==
    CASE directive = "ifdef" -> m \in DOMAIN id_table
      [] directive = "ifndef" -> m \notin DOMAIN id_table
      [] directive = "if" -> Expand(m) = Numbers.true \/ Expand(m) \in DOMAIN id_table
---------------------------------------------------------------------------
(* Files.                                                                  *)

Dir(file) == Front(file)

\* search_filename: at most one file.
Search(query, local_first) ==
    LET dirs == IF local_first THEN <<current_dir, Library>> ELSE <<Library>>
        found == {i \in DOMAIN dirs : dirs[i] \o query \in Files}
    IN  IF found = {} THEN {} ELSE {dirs[Min(found)] \o query}

\* fault: only #include once looks at whether the file is marked.
SkippedUnmarked(file, once) == once /\ file \in DOMAIN included

\* An #include gives nothing when the file is marked #pragma once, and an
\* #include once when it has been included at all.
Skipped(file, once) == file \in DOMAIN included /\ (once \/ included[file])

Init ==
    /\ content = [f \in Files |-> <<>>]
    /\ ended = {}
    /\ filestack = <<Reading(Main)>>
    /\ current_file = <<Main>>
    /\ current_dir = Dir(Main)
    /\ enabled = TRUE /\ ifdefs = <<>>
    /\ id_table = <<>>
    /\ included = <<>>
    /\ parser = <<OpenFile(Main)>>
    /\ output = <<>>
    /\ result = "open"
    /\ conds = <<>> /\ shown = <<>> /\ sealed = {}
    /\ begun = [f \in Files |-> IF f = Main THEN 1 ELSE 0]

\* The next line of the file being read is this one.
Reads(line) ==
    LET f == Lexer.file
    IN  /\ result = "open"
        /\ line.kind \in Kinds
        /\ Len(Top.out) < MaxOutput
        /\ IF Lexer.pos <= Len(content[f]) THEN content[f][Lexer.pos] = line /\ UNCHANGED content
           ELSE /\ f \notin ended
                /\ FoldSet(LAMBDA g, n : n + Len(content[g]), 0, Files) < MaxLines
                /\ content' = [content EXCEPT ![f] = Append(@, line)]

\* fault: the lexer does not count the line.
AdvancedUncounted(lexer) == At(lexer.file, lexer.pos + 1, lexer.name, lexer.lineno)

Advanced(lexer) == At(lexer.file, lexer.pos + 1, lexer.name, lexer.lineno + 1)
Advance == filestack' = Append(Front(filestack), Advanced(Lexer))

Here == <<Lexer.file, Lexer.pos>>
Shows == \A i \in DOMAIN conds : conds[i]

\* A line of text is expanded in any case, and dropped with its block.
Text(m) ==
    /\ Reads([kind |-> "text", macro |-> m])
    /\ Advance
    /\ parser' = Adding(parser, <<TextLine(Here, Expand(m))>>)
    /\ shown' = IF Shows THEN Append(shown, TextLine(Here, Expand(m))) ELSE shown
    /\ UNCHANGED <<ended, current_file, current_dir, enabled, ifdefs, id_table, included, output, result, conds, sealed, begun>>

\* fault: a definition counts whether it is enabled or not.
DefinedAnyway(m, value) == [x \in DOMAIN id_table \cup {m} |-> IF x = m THEN value ELSE id_table[x]]

\* ID_TABLE after #define m value
Defined(m, value) ==
    IF enabled THEN [x \in DOMAIN id_table \cup {m} |-> IF x = m THEN value ELSE id_table[x]] ELSE id_table

Define(m, value) ==
    /\ Reads([kind |-> "define", macro |-> m, value |-> value])
    /\ Advance
    /\ id_table' = Defined(m, value)
    /\ parser' = Adding(parser, <<LineDirective(Lexer.lineno + 1, Lexer.name)>>)
    /\ UNCHANGED <<ended, current_file, current_dir, enabled, ifdefs, included, output, result, conds, shown, sealed, begun>>

Undef(m) ==
    /\ Reads([kind |-> "undef", macro |-> m])
    /\ Advance
    /\ id_table' = IF enabled THEN [x \in DOMAIN id_table \ {m} |-> id_table[x]] ELSE id_table
    /\ parser' = Adding(parser, <<Blank>>)
    /\ UNCHANGED <<ended, current_file, current_dir, enabled, ifdefs, included, output, result, conds, shown, sealed, begun>>
---------------------------------------------------------------------------
(* Conditional blocks.                                                     *)

IfHeader(directive, m) ==
    /\ Len(parser) < MaxDepth
    /\ Reads([kind |-> directive, macro |-> m])
    /\ Advance
    /\ ifdefs' = Append(ifdefs, enabled)
    /\ enabled' = (enabled /\ Test(directive, m))
    /\ parser' = Append(parser, Block("if", <<Blank>>, <<>>, enabled /\ Test(directive, m)))
    /\ conds' = Append(conds, Test(directive, m))
    /\ UNCHANGED <<ended, current_file, current_dir, id_table, included, output, result, shown, sealed, begun>>

\* A block is not empty: its first line of output is that of its header.
Body == Len(Top.out) > 1

SyntaxError ==
    /\ result' = "error"
    /\ Advance
    /\ UNCHANGED <<ended, current_file, current_dir, enabled, ifdefs, id_table, included, parser, output, conds, shown, sealed, begun>>

\* fault: the other half of a block is enabled whatever is around it.
ElseEnabledAlways == ~Top.test

\* ENABLED after #else: nothing changes inside a block that is not enabled.
ElseEnabled == IF Last(ifdefs) THEN ~Top.test ELSE enabled

Else ==
    /\ Reads([kind |-> "else"])
    /\ Top.kind = "if" /\ Body
    /\ Advance
    /\ enabled' = ElseEnabled
    /\ parser' = Append(Front(parser),
                        Block("else", <<LineDirective(Lexer.lineno + 1, Lexer.name)>>,
                              IF Last(ifdefs) /\ Top.test THEN Top.out ELSE <<>>, Top.test))
    /\ conds' = Append(Front(conds), ~Last(conds))
    /\ UNCHANGED <<ended, current_file, current_dir, ifdefs, id_table, included, output, result, shown, sealed, begun>>

ElseAstray == Reads([kind |-> "else"]) /\ ~(Top.kind = "if" /\ Body) /\ SyntaxError

\* fault: what comes after the #else is kept whatever came before.
KeptBoth == IF Last(ifdefs) THEN Top.before \o Top.out ELSE <<>>

\* The lines of the block that stay.
Kept ==
    CASE Top.kind = "if" -> IF enabled THEN Top.out ELSE <<>>
      [] Top.kind = "else" ->
            IF Last(ifdefs) THEN Top.before \o (IF enabled THEN Top.out ELSE <<>>) ELSE <<>>

\* IFDEFS after #endif
Outer == Front(ifdefs)

EndIf ==
    /\ Reads([kind |-> "endif"])
    /\ Top.kind \in {"if", "else"} /\ Body
    /\ Advance
    /\ enabled' = Last(ifdefs)
    /\ ifdefs' = Outer
    /\ parser' = Adding(Front(parser), Kept \o <<LineDirective(Lexer.lineno + 1, Lexer.name)>>)
    /\ conds' = Front(conds)
    /\ UNCHANGED <<ended, current_file, current_dir, id_table, included, output, result, shown, sealed, begun>>

EndIfAstray ==
    /\ Reads([kind |-> "endif"])
    /\ ~(Top.kind \in {"if", "else"} /\ Body)
    /\ SyntaxError
---------------------------------------------------------------------------
(* Inclusion.                                                              *)

IncludeLine(query, local_first, once) ==
    [kind |-> IF once THEN "include once" ELSE "include", query |-> query, local |-> local_first]

\* The file is read next.
Include(query, local_first, once) ==
    /\ Len(parser) < MaxDepth
    /\ enabled
    /\ \E file \in Search(query, local_first) :
        /\ Reads(IncludeLine(query, local_first, once))
        /\ ~Skipped(file, once)
        /\ included' = [f \in DOMAIN included \cup {file} |-> f \in DOMAIN included /\ included[f]]
        /\ filestack' = Append(Append(Front(filestack), Advanced(Lexer)), Reading(file))
        /\ current_file' = Append(current_file, file)
        /\ current_dir' = Dir(file)
        /\ parser' = Append(parser, OpenFile(file))
        /\ begun' = [begun EXCEPT ![file] = @ + 1]
    /\ UNCHANGED <<ended, enabled, ifdefs, id_table, output, result, conds, shown, sealed>>

\* Not enabled, or already included: as if the file were empty.
IncludeNothing(query, local_first, once) ==
    /\ Reads(IncludeLine(query, local_first, once))
    /\ enabled => \E file \in Search(query, local_first) : Skipped(file, once)
    /\ Advance
    /\ parser' = Adding(parser, <<Blank>>)
    /\ UNCHANGED <<ended, current_file, current_dir, enabled, ifdefs, id_table, included, output, result, conds, shown, sealed, begun>>

IncludeMissing(query, local_first, once) ==
    /\ enabled /\ Search(query, local_first) = {}
    /\ Reads(IncludeLine(query, local_first, once))
    /\ SyntaxError

\* fault: the directory is not set back.
DirAfterKept(files) == current_dir

\* CURRENT_DIR after the end of a file
DirAfter(files) == Dir(Last(files))

\* The end of a file.  Of one without lines nothing is forgotten but the
\* lexer: include_file_empty leaves CURRENT_FILE and CURRENT_DIR alone.
EndFile ==
    LET files == Front(filestack)
        parent == Last(files)
        lines == Len(Top.out) > 1
    IN  /\ result = "open"
        /\ Lexer.pos > Len(content[Lexer.file])
        /\ Len(filestack) > 1 /\ Top.kind = "file"
        /\ lines \/ "empty" \in Kinds
        /\ ended' = ended \cup {Lexer.file}
        /\ filestack' = files
        /\ parser' = Adding(Front(parser), IF lines THEN Top.out \o <<LineDirective(parent.lineno, parent.name)>>
                                           ELSE <<Blank>>)
        /\ current_file' = IF lines THEN Front(current_file) ELSE current_file
        /\ current_dir' = IF lines THEN DirAfter(Front(current_file)) ELSE current_dir
        /\ UNCHANGED <<content, enabled, ifdefs, id_table, included, output, result, conds, shown, sealed, begun>>

\* The end of the program, or of a file inside a block it has left open.
EndInput ==
    /\ result = "open"
    /\ Lexer.pos > Len(content[Lexer.file])
    /\ Len(filestack) = 1 \/ Top.kind # "file"
    /\ ended' = ended \cup {Lexer.file}
    /\ result' = IF Top.kind = "file" /\ Body THEN "done" ELSE "error"
    /\ output' = IF result' = "done" THEN Top.out ELSE <<>>
    /\ UNCHANGED <<content, filestack, current_file, current_dir, enabled, ifdefs, id_table, included, parser, conds, shown, sealed, begun>>

\* #pragma once marks CURRENT_FILE, enabled or not.
PragmaOnce ==
    LET f == Last(current_file)
    IN  /\ Reads([kind |-> "pragma once"])
        /\ Advance
        /\ included' = [g \in DOMAIN included \cup {f} |-> g = f \/ included[g]]
        /\ parser' = Adding(parser, <<Blank>>)
        /\ sealed' = IF Shows THEN sealed \cup {Lexer.file} ELSE sealed
        /\ UNCHANGED <<ended, current_file, current_dir, enabled, ifdefs, id_table, output, result, conds, shown, begun>>

\* #line n "name": the lexer follows it even where it is not enabled, and
\* counts the end of the line besides.
Line(n, name) ==
    /\ Reads([kind |-> "line", number |-> n, name |-> name])
    /\ filestack' = Append(Front(filestack), At(Lexer.file, Lexer.pos + 1, name, n + 1))
    /\ parser' = Adding(parser, IF enabled THEN <<LineDirective(n, name)>> ELSE <<Blank>>)
    /\ UNCHANGED <<ended, current_file, current_dir, enabled, ifdefs, id_table, included, output, result, conds, shown, sealed, begun>>

Conditional ==
    \/ \E directive \in {"if", "ifdef", "ifndef"}, m \in Macros : IfHeader(directive, m)
    \/ Else \/ ElseAstray \/ EndIf \/ EndIfAstray

Inclusion ==
    \E i \in Includes :
        \/ Include(i[1], i[2], i[3])
        \/ IncludeNothing(i[1], i[2], i[3])
        \/ IncludeMissing(i[1], i[2], i[3])

Next ==
    \/ \E m \in Macros : Text(m) \/ Undef(m)
    \/ \E m \in Macros, value \in Values : Define(m, value)
    \/ Conditional
    \/ Inclusion
    \/ EndFile
    \/ EndInput
    \/ PragmaOnce
    \/ \E n \in {1} : Line(n, <<"other">>)

Spec == Init /\ [][Next]_vars
---------------------------------------------------------------------------
(* Properties.                                                             *)

\* A directive takes effect just where the conditions of all the blocks around
\* it hold, on whichever side of an #else and in whichever file they are.
EnabledRight ==
    /\ enabled = Shows
    /\ \A i \in DOMAIN ifdefs : ifdefs[i] = \A j \in 1..i - 1 : conds[j]

\* CURRENT_FILE and CURRENT_DIR are those of the file being read, so names in
\* an #include are looked for where it is.
CurrentFileRight ==
    result = "open" => Last(current_file) = Lexer.file /\ current_dir = Dir(Lexer.file)

\* The lines of text of the output.
TextOf(lines) ==
    LET upto[i \in 0..Len(lines)] ==
            IF i = 0 THEN <<>>
            ELSE IF lines[i].kind = "text" THEN Append(upto[i - 1], lines[i]) ELSE upto[i - 1]
    IN  upto[Len(lines)]

\* The output has the lines of text all of whose conditions hold, once each
\* and in the order they were read.
OutputRight == result = "done" => TextOf(output) = shown

\* Where the #line directives of the output say that each of its lines is.
Placed(lines) ==
    LET at[i \in 0..Len(lines)] ==
            IF i = 0 THEN <<Main, 0>>
            ELSE IF lines[i].kind = "line" THEN <<lines[i].file, lines[i].number>>
            ELSE <<at[i - 1][1], at[i - 1][2] + 1>>
    IN  {<<lines[i].place, at[i - 1]>> : i \in {j \in DOMAIN lines : lines[j].kind = "text"}}

\* Each line of text is where it says, but for files with #line directives of
\* their own: the compiler reports its errors there.
Renumbered == {f \in Files : \E i \in DOMAIN content[f] : content[f][i].kind = "line"}
PositionsRight ==
    result = "done" => \A p \in Placed(output) : p[1] = p[2] \/ p[1][1] \in Renumbered

\* A file with a #pragma once that took effect is not read again, and an
\* #include once reads only what no #include has read before.
OnceOnly ==
    [][\A f \in Files : begun'[f] > begun[f] =>
            /\ f \notin sealed
            /\ content'[Lexer.file][Lexer.pos].kind = "include once" => f = Main \/ begun[f] = 0]_vars

\* Inside a block one of whose conditions fails nothing is defined nor read.
DisabledInert == [][~Shows => id_table' = id_table /\ begun' = begun]_vars
===========================================================================
