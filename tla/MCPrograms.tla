------------------------------ MODULE MCPrograms ------------------------------
(***************************************************************************)
(* Programs of the language, of two levels of nesting, and programs that   *)
(* lack a token, for small instances of the parser and the front end.      *)
(***************************************************************************)
EXTENDS Syntax

\* Two levels of every form of an expression, a type and a statement.
Simples == Forms(X, Y)
Expressions == UNION {Forms(e, Y) \cup Forms(X, e) : e \in Simples}
Word32 == Phrase(Atoms, <<Word("int32")>>)
TypesDeep == UNION {Types(t, Word32) \cup Types(Word32, t) : t \in Types(Word32, X)}

Pass == Phrase(Atoms, <<Word("pass"), Line>>)
Lines == LineStatements(X, Y, Word32)
Statements ==
    UNION {LineStatements(e, Y, Word32) \cup LineStatements(X, e, Word32) \cup Compounds(e, Pass, Pass) : e \in Simples}
    \cup UNION {Compounds(X, s, Pass) \cup Compounds(Y, Pass, s) : s \in Lines \cup Compounds(X, Pass, Pass)}

Global(t, e) == Phrase(Atoms, <<Words(<<"x", ":">>), Said(t), Word("="), Said(e), Mark("NEWLINE")>>)
Body1(s) == Phrase(Atoms, <<Words(<<"def", "x", "(", ")">>), Only(s)>>)
Some == Declarations(X, Word32, Pass)

\* Those that are also written spread out: all but the expressions of two
\* levels, in whose brackets lines do not count.
Shorter ==
    {<<Global(Word32, e)>> : e \in Simples} \cup {<<Global(t, X)>> : t \in TypesDeep}
    \cup {<<Body1(s)>> : s \in Statements} \cup {<<d, e>> : d \in Some, e \in Some}
Programs == Shorter \cup {<<Global(Word32, e)>> : e \in Expressions}

\* A declaration that lacks one token, other than the lines and blocks the
\* lexer gives it, and a function, class or union after it.
Layout == {"NEWLINE", "LINE", "INDENT", "DEDENT"}
Damaged(d) ==
    {[d EXCEPT !.text = RemoveAt(d.text, i), !.tree = Leaf("damaged")] :
        i \in {j \in DOMAIN d.text : d.text[j] \notin Layout}}

Broken ==
    {<<d, e>> : d \in UNION {Damaged(c) : c \in Some \cup {Body1(s) : s \in Compounds(X, Pass, Pass) \cup Lines}},
                e \in {c \in Some : c.text[1] \in {"def", "class", "union"}}}

\* The words in them that are written as one letter: nesting adds none.
Marks == Layout \cup Opening \cup Closing
         \cup {"NUMBER", "=", "==", "+=", "|=", "<<", "//", "**", "->", "+", "-", "*", "&", "|", "^",
               "~", ",", ":", ".", "@"}
OneLetter == UNION {Range(p.text) : p \in Simples \cup TypesDeep \cup Lines \cup Compounds(X, Pass, Pass) \cup Some} \ Marks
=============================================================================
