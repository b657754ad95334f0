------------------------------- MODULE Syntax -------------------------------
(***************************************************************************)
(* The language as a program writes it: phrases built with what they mean. *)
(* A phrase has the tree it stands for, the tokens it is written with and  *)
(* how tightly it binds; an operand that binds more loosely than its place *)
(* allows is put in parentheses.  The levels are those of Python, whose    *)
(* syntax the language has: nothing here looks at how the parser works.    *)
(* The reference the parser is held against; only Leaf and Node are shared.*)
(***************************************************************************)
EXTENDS Grammar, SequencesExt

Part(trees, text) == [trees |-> trees, text |-> text]
Word(k) == Part(<<Leaf(k)>>, <<k>>)
Words(s) == Part([i \in DOMAIN s |-> Leaf(s[i])], s)
Mark(k) == Part(<<>>, <<k>>)                \* written, but no part of the meaning
Said(e) == Part(<<e.tree>>, e.text)
In(e, level) == Part(<<e.tree>>, IF e.level < level THEN <<"(">> \o e.text \o <<")">> ELSE e.text)

Trees(parts) == FlattenSeq([i \in DOMAIN parts |-> parts[i].trees])
Text(parts) == FlattenSeq([i \in DOMAIN parts |-> parts[i].text])
Phrase(level, parts) ==
    [level |-> level, text |-> Text(parts),
     tree |-> IF Len(Trees(parts)) = 1 THEN Trees(parts)[1] ELSE Node(Trees(parts))]

-----------------------------------------------------------------------------
(***************************************************************************)
(* Expressions: every form of an expression with the operands d, e and f.  *)
(***************************************************************************)
Lambdas == 0
Conditionals == 1
Members == 14
Atoms == 15

Operators == {<<2, <<"or">>>>, <<3, <<"and">>>>,
              <<5, <<"==">>>>, <<5, <<"in">>>>, <<5, <<"not", "in">>>>, <<5, <<"is">>>>,
              <<5, <<"is", "not">>>>, <<6, <<"|">>>>, <<7, <<"^">>>>, <<8, <<"&">>>>,
              <<9, <<"<<">>>>, <<10, <<"+">>>>, <<10, <<"-">>>>, <<11, <<"*">>>>, <<11, <<"//">>>>}

X == Phrase(Atoms, <<Word("x")>>)
Y == Phrase(Atoms, <<Word("y")>>)

\* A comma after the last of several: it may be written and means nothing.
LastComma == Mark(",")

Operations(d, e) ==
    {Phrase(op[1], <<In(d, op[1]), Words(op[2]), In(e, op[1] + 1)>>) : op \in Operators}
    \cup {Phrase(12, <<Word(op), In(d, 12)>>) : op \in {"-", "~", "&", "*"}}
    \cup {Phrase(4, <<Word("not"), In(d, 4)>>),
          Phrase(13, <<In(d, Members), Word("**"), In(e, 13)>>)}

Displays(d, e) ==
    {Phrase(Atoms, parts) : parts \in {
        <<Words(<<"[", "]">>)>>, <<Words(<<"{", "}">>)>>, <<Mark("("), Word(")")>>,
        <<Word("["), Said(d), Word(","), Said(e), Word("]")>>,
        <<Word("["), Said(d), LastComma, Word("]")>>,
        <<Word("{"), Said(d), Word(","), Said(e), LastComma, Word("}")>>,
        <<Word("{"), Said(d), Word(":"), Said(e), Word(","), Said(e), Word(":"), Said(d), Word("}")>>,
        <<Mark("("), Said(d), Word(","), Mark(")")>>,
        <<Mark("("), Said(d), Word(","), Said(e), LastComma, Mark(")")>>,
        <<Word("["), Said(d), Words(<<"for", "x", "in">>), In(e, 2), Word("]")>>,
        <<Word("["), Said(d), Words(<<"for", "y", "in">>), In(e, 2), Word("if"), In(d, 2), Word("]")>>}}

\* The name after a `.` that is called is a method; a member that is a
\* function takes parentheses of its own.
Postfixed(d, e) ==
    {Phrase(Atoms, <<In(d, Members)>> \o parts) : parts \in {
        <<Words(<<".", "x", "(">>), Said(e), Word(","), Said(d), Word(")")>>,
        <<Word("["), Said(e), Word("]")>>,
        <<Word("["), Said(e), Word(":"), Said(d), Word("]")>>,
        <<Words(<<"[", ":">>), Said(e), Words(<<":", "]">>)>>}}
    \cup {Phrase(Atoms, <<In(d, Atoms)>> \o parts) : parts \in {
        <<Words(<<"(", ")">>)>>,
        <<Word("("), Said(e), Words(<<",", "y", "=">>), Said(d), LastComma, Word(")")>>}}
    \cup {Phrase(Members, <<In(d, Members), Words(<<".", "y">>)>>),
          Phrase(Atoms, <<Words(<<"y", "{", "x", "=">>), Said(d), Words(<<",", "y", "=">>), Said(e), Word("}")>>),
          Phrase(Atoms, <<Words(<<"int32", "(">>), Said(d), Word(")")>>)}

Others(d, e) ==
    {Phrase(Conditionals, <<In(d, 2), Word("if"), In(e, 2), Word("else"), In(d, Lambdas)>>),
     Phrase(Lambdas, <<Words(<<"lambda", ":">>), Said(e)>>),
     Phrase(Lambdas, <<Words(<<"lambda", "x", ",", "y", ":">>), Said(d)>>)}

Forms(d, e) == Operations(d, e) \cup Displays(d, e) \cup Postfixed(d, e) \cup Others(d, e)

Types(t, u) ==
    {Phrase(Atoms, parts) : parts \in {
        <<Word("None")>>, <<Word("int32")>>, <<Word("x")>>,
        <<Word("volatile"), Said(t)>>,
        <<Words(<<"Ptr", "[">>), Said(t), Word("]")>>,
        <<Words(<<"Fn", "[">>), Said(t), Word(","), Said(u), Word("]")>>,
        <<Words(<<"Dict", "[">>), Said(t), Word(","), Said(u), Word("]")>>,
        <<Words(<<"Array", "[", "NUMBER", ",">>), Said(t), Word("]")>>,
        <<Words(<<"Percpu", "[">>), Said(t), Word("]")>>,
        <<Words(<<"y", "[">>), Said(t), Word(","), Said(u), Word("]")>>}}

-----------------------------------------------------------------------------
(***************************************************************************)
(* Statements and declarations.  A line ends with NEWLINE, and blank lines *)
(* may follow it ("LINE"); the parser wants none after the head of a match *)
(* or of a union, nor after a decorator of a declaration ("NEWLINE").      *)
(***************************************************************************)
Line == Mark("LINE")
Suite(s, t) == Part(<<Leaf(":"), s.tree, t.tree>>,
                    <<":", "LINE", "INDENT">> \o s.text \o t.text \o <<"DEDENT">>)
Only(s) == Part(<<Leaf(":"), s.tree>>, <<":", "LINE", "INDENT">> \o s.text \o <<"DEDENT">>)

\* The characters of a program: a blank between words and for each block, and
\* if it is spread out, a comment of its own line wherever that may be and
\* every word in brackets on a line of its own.
Spell(k) == CASE k = "NUMBER" -> <<"1">>
              [] k = "==" -> <<"=", "=">>
              [] k = "+=" -> <<"+", "=">>
              [] k = "|=" -> <<"|", "=">>
              [] k = "<<" -> <<"<", "<">>
              [] k = "//" -> <<"/", "/">>
              [] k = "**" -> <<"*", "*">>
              [] k = "->" -> <<"-", ">">>
              [] OTHER -> <<k>>
Opening == {"(", "[", "{"}
Closing == {")", "]", "}"}

Gap(w, spread) == IF w.fresh THEN [i \in 1 .. w.depth |-> " "]
                  ELSE IF spread /\ w.nest > 0 THEN <<"\n">> ELSE <<" ">>
Write(w, k, spread) ==
    CASE k = "INDENT" -> [w EXCEPT !.depth = @ + 1]
      [] k = "DEDENT" -> [w EXCEPT !.depth = @ - 1]
      [] k \in {"NEWLINE", "LINE"} ->
            [w EXCEPT !.fresh = TRUE,
                      !.text = @ \o (IF spread /\ k = "LINE" THEN <<"\n", " ", "#", "x", "\n">> ELSE <<"\n">>)]
      [] OTHER ->
            [w EXCEPT !.fresh = FALSE,
                      !.text = @ \o Gap(w, spread) \o Spell(k),
                      !.nest = IF k \in Opening THEN @ + 1 ELSE IF k \in Closing THEN @ - 1 ELSE @]

Written(text, spread) ==
    FoldLeft(LAMBDA w, k : Write(w, k, spread),
             [text |-> <<>>, depth |-> 0, nest |-> 0, fresh |-> TRUE], text).text

\* What may be assigned to, besides a name.
Target(d) == In(d, 12)

LineStatements(d, e, t) ==
    {Phrase(Atoms, parts \o <<Line>>) : parts \in {
        <<Word("pass")>>, <<Word("return")>>, <<Word("return"), Said(d)>>, <<Word("raise"), Said(e)>>,
        <<Words(<<"global", "x", ",", "y">>)>>,
        <<Word("assert"), Said(d), Word(","), Said(e)>>,
        <<Said(d)>>,
        <<Target(d), Word("="), Said(e)>>,
        <<Target(e), Word("+="), Said(d)>>,
        <<Words(<<"x", "|=">>), Said(d)>>,
        <<Words(<<"x", ":">>), Said(t)>>,
        <<Words(<<"x", ":">>), Said(t), Word("="), Said(e)>>,
        <<Words(<<"x", ",", "y", "=">>), Said(Phrase(0, <<Said(d), Word(","), Said(e)>>))>>}}

Compounds(d, s, t) ==
    {Phrase(Atoms, parts) : parts \in {
        <<Word("if"), Said(d), Only(s)>>,
        <<Word("if"), Said(d), Suite(s, t), Word("elif"), Said(d), Only(t), Word("else"), Only(s)>>,
        <<Word("while"), Said(d), Suite(s, t)>>,
        <<Word("do"), Suite(s, t), Word("while"), Said(d), Line>>,
        <<Words(<<"for", "x", ",", "y", "in">>), Said(d), Only(s)>>,
        <<Word("defer"), Said(s)>>,
        <<Word("match"), Said(d), Word(":"), Mark("NEWLINE"), Mark("INDENT"),
          Words(<<"case", "_">>), Only(s), Word("case"), Said(Phrase(Atoms, <<Words(<<"x", "(", "y", ")">>)>>)),
          Suite(t, s), Mark("DEDENT")>>,
        <<Word("try"), Only(s), Words(<<"except", "x", "as", "y">>), Only(t), Word("except"), Only(s),
          Word("else"), Only(t), Word("finally"), Suite(s, t)>>,
        <<Word("with"), Said(d), Words(<<"as", "x", ",">>), Said(d), Only(s)>>}}

Parameter1(t) == Said(Phrase(Atoms, <<Words(<<"x", ":">>), Said(t)>>))
Parameter2(t, e) == Said(Phrase(Atoms, <<Words(<<"y", ":">>), Said(t), Word("="), Said(e)>>))

Declarations(e, t, s) ==
    {Phrase(Atoms, parts) : parts \in {
        <<Words(<<"x", ":">>), Said(t), Word("="), Said(e), Line>>,
        <<Words(<<"from", "x", ".", "y", "import", "x", "as", "y", ",", "x">>), Line>>,
        <<Words(<<"from", "x", "import", "(", "x">>), LastComma, Word(")"), Line>>,
        <<Words(<<"import", "x", "as", "y">>), Line>>,
        <<Words(<<"extern", "def", "x", "(">>), Parameter1(t), Words(<<")", "->">>), Said(t), Line>>,
        <<Words(<<"def", "x", "(", ")">>), Only(s)>>,
        <<Words(<<"@", "x">>), Mark("NEWLINE"), Words(<<"def", "x", "(">>), Parameter1(t), Word(","),
          Parameter2(t, e), Words(<<")", "->">>), Said(t), Suite(s, s)>>,
        <<Words(<<"union", "x">>), Word(":"), Mark("NEWLINE"), Mark("INDENT"),
          Said(Phrase(Atoms, <<Words(<<"y", ":">>), Said(t), Line>>)), Mark("DEDENT")>>,
        <<Words(<<"class", "x", "(", "y", ")", ":">>), Line, Mark("INDENT"),
          Said(Phrase(Atoms, <<Words(<<"x", ":">>), Said(t), Word("="), Said(e), Line>>)),
          Said(Phrase(Atoms, <<Words(<<"@", "property">>), Line, Words(<<"def", "y", "(", "self", ",">>),
                               Parameter2(t, e), Word(")"), Only(s)>>)),
          Said(Phrase(Atoms, <<Word("pass"), Line>>)), Mark("DEDENT")>>}}
=============================================================================
