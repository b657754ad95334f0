------------------------------- MODULE MCLexer -------------------------------
(* Small instances of Lexer for TLC. *)
EXTENDS Lexer

Concat(A, B) == {a \o b : a \in A, b \in B}
Texts(S, n) == SeqOf(S, n)

\* Four lines of code or comment; three with brackets.
Indents == {<<>>, <<" ">>, <<" ", " ">>}
Plain == Concat(Indents, {<<"a", "\n">>, <<"#", "\n">>})
Bracketed == Concat(Indents, {<<"a", "\n">>, <<"(", "\n">>, <<")", "\n">>})
Blocks == Concat(Concat(Plain, Plain), Concat(Plain, Plain))
          \cup Concat(Bracketed, Concat(Bracketed, Bracketed))

\* Tabs, carriage returns, continued lines, ends of the text in any place.
Endings == Texts({" ", "\t", "\n", "\r", "#", "a"}, 4) \cup Texts({" ", "\n", "\r", "a"}, 5)
           \cup Texts({" ", "\\", "\n", "\r", "a", "("}, 4)

Words == Texts({"0", "1", "8", "x", "b", "e", "_", ".", "+"}, 4)
         \cup {<<"0", "o">> \o w : w \in Texts({"1", "8", "_", "e"}, 3)}
         \cup {<<"1", ".", "0">> \o w : w \in Texts({"1", "_", "e", "+", "."}, 4)}
Strings == Texts({"\"", "'", "\\", "\n", "a", "x"}, 4)
           \cup Concat({<<"\"", "\\">>, <<"'", "\\">>, <<"\"", "\\", "x">>, <<"\"", "\"", "\"">>},
                      Texts({"\"", "'", "a", "\\"}, 4))
           \cup Concat({<<"f">>, <<"r">>, <<"b">>}, Texts({"\"", "\\", "\n", "x", "1"}, 4))
Symbols == Texts({"*", "=", "<", "-", ">", "\n", "!", ".", "$"}, 3)
           \cup Texts({"(", "]", "{", "\n", " ", "*", "="}, 4)



MCSources == Blocks \cup Endings \cup Words \cup Strings \cup Symbols
===============================================================================
