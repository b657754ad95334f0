-------------------------------- MODULE Lexer --------------------------------
(***************************************************************************)
(* compiler/lexer.py: Lexer.tokenize, one action per turn of its loop.  A  *)
(* source is a sequence of characters; a token is its kind and the span of *)
(* characters it was made from.  The values of literals are left out, a    *)
(* name and a keyword are both an IDENT, and an operator is told by its    *)
(* characters.  What matters of most words is where they begin and end, so *)
(* a word may be written as if it were one letter.                         *)
(***************************************************************************)
EXTENDS Integers, Sequences, SequencesExt, FiniteSetsExt

CONSTANTS
    Sources,        \* the texts to be scanned
    Vocabulary      \* the words that are written as one letter

End == ""       \* what current_char and peek_char read beyond the text
Digits == {"0", "1", "8"}
HexLetters == {"a", "b", "e", "f"}
Alnum == Digits \cup HexLetters \cup {"o", "r", "x", "z", "_"} \cup Vocabulary
Quotes == {"\"", "'"}
Space == " "
Blank == {Space, "\t"}
Chars == Alnum \cup Quotes \cup Blank
         \cup {"\n", "\r", "#", "\\", "(", ")", "[", "]", "{", "}", "$", "!"}
         \cup {"+", "-", "*", "/", "%", "=", "<", ">", "&", "|", "^", "~",
               ",", ":", ";", ".", "@"}

ASSUME SourcesAssumption == Sources \subseteq Seq(Chars)
\* A word is no character that lays out a line.
ASSUME VocabularyAssumption == Vocabulary \cap (Blank \cup {End, "\n", "\r", "#", "\\"}) = {}

VARIABLES
    src,            \* the text
    pos,            \* the next character
    at_line_start,
    indent_stack,   \* the widths of the blocks that are open
    paren_depth,    \* how many brackets are
    tokens,         \* the tokens so far
    outcome         \* scanning, done, an error, or spinning: never to return

vars == <<src, pos, at_line_start, indent_stack, paren_depth, tokens, outcome>>

-----------------------------------------------------------------------------
Char(p) == IF p \in DOMAIN src THEN src[p] ELSE End     \* current_char, peek_char

\* The first position from p on, or in the word w, that is not in S.
After(p, S) == CHOOSE q \in p .. Len(src) + 1 :
                  Char(q) \notin S /\ \A r \in p .. q - 1 : Char(r) \in S
AfterIn(w, i, S) == Min({j \in i .. Len(w) + 1 : j > Len(w) \/ w[j] \notin S})

Token(kind, from, to) == [kind |-> kind, from |-> from, to |-> to]
Mark(kind, at) == Token(kind, at, at - 1)       \* a token made of no character

InitScan == /\ pos = 1 /\ at_line_start = TRUE
            /\ indent_stack = <<0>> /\ paren_depth = 0
            /\ tokens = <<>>
            /\ outcome = "scanning"
Init == src \in Sources /\ InitScan

Scanning == outcome = "scanning" /\ pos <= Len(src)
AtIndent == Scanning /\ at_line_start /\ src[pos] \notin {"\n", "\r"}
Next1(S) == Scanning /\ ~AtIndent /\ src[pos] \in S     \* the branch for S is taken

Emit(token, next) == /\ tokens' = Append(tokens, token)
                     /\ pos' = next
                     /\ UNCHANGED <<src, at_line_start, indent_stack, paren_depth, outcome>>
Skip(next) == /\ pos' = next
              /\ UNCHANGED <<src, at_line_start, indent_stack, paren_depth, tokens, outcome>>
Stop(why) == /\ outcome' = why
             /\ UNCHANGED <<src, pos, at_line_start, indent_stack, paren_depth, tokens>>

(***************************************************************************)
(* handle_indentation: spaces, then tabs; what comes after them decides    *)
(* whether the line counts.                                                *)
(***************************************************************************)
Spaces == After(pos, {Space}) - pos
Tabs == After(pos + Spaces, {"\t"}) - (pos + Spaces)
Indent == Spaces + 8 * Tabs
Body == pos + Spaces + Tabs

EndsNever(p) == FALSE       \* a slip: blank lines count
EndsLine(p) == Char(p) \in {"\n", "#"}

InBrackets == /\ AtIndent /\ paren_depth > 0
              /\ at_line_start' = FALSE
              /\ UNCHANGED <<src, pos, indent_stack, paren_depth, tokens, outcome>>

BlankLine == /\ AtIndent /\ paren_depth = 0 /\ EndsLine(Body)
             /\ pos' = Body /\ at_line_start' = FALSE
             /\ UNCHANGED <<src, indent_stack, paren_depth, tokens, outcome>>

CodeLine == AtIndent /\ paren_depth = 0 /\ ~EndsLine(Body)

\* At most one block is opened.
Deeper == /\ CodeLine /\ Indent >= Last(indent_stack)
          /\ IF Indent = Last(indent_stack) THEN UNCHANGED <<indent_stack, tokens>>
             ELSE /\ indent_stack' = Append(indent_stack, Indent)
                  /\ tokens' = Append(tokens, Mark("INDENT", Body))
          /\ pos' = Body /\ at_line_start' = FALSE
          /\ UNCHANGED <<src, paren_depth, outcome>>

\* The lowest width is 0, so one is always kept.
Kept(indent) ==
    SubSeq(indent_stack, 1, Max({i \in DOMAIN indent_stack : indent_stack[i] <= indent}))
Dedents(n, at) == [i \in 1 .. n |-> Mark("DEDENT", at)]

MatchesOpen(indent) == Last(Kept(indent)) = indent

Shallower == /\ CodeLine /\ Indent < Last(indent_stack)
             /\ indent_stack' = Kept(Indent)
             /\ tokens' = tokens \o Dedents(Len(indent_stack) - Len(indent_stack'), Body)
             /\ outcome' = IF MatchesOpen(Indent) THEN outcome ELSE "bad indent"
             /\ pos' = Body /\ at_line_start' = FALSE
             /\ UNCHANGED <<src, paren_depth>>

(***************************************************************************)
(* Blanks, comments and the ends of lines.  The end of the source reads as *)
(* an empty string, and that is `in ' \t'`: skip_whitespace goes on.       *)
(***************************************************************************)
SkipBlanks == /\ Next1(Blank) /\ After(pos, Blank) <= Len(src)
              /\ Skip(After(pos, Blank))

Spin == Next1(Blank) /\ After(pos, Blank) > Len(src) /\ Stop("spinning")

\* A slip: skip_comment does the same.
CommentEndNever == LET e == After(pos, Chars \ {"\n"}) IN IF e > Len(src) THEN pos ELSE e
CommentEnd == After(pos, Chars \ {"\n"})
Comment == Next1({"#"}) /\ Skip(CommentEnd)

LineBreak == IF Char(pos) = "\r" /\ Char(pos + 1) = "\n" THEN pos + 1 ELSE pos

NewlineAlways == TRUE       \* a slip: brackets are forgotten
NewlineCounts == paren_depth = 0

Newline == /\ Next1({"\n", "\r"})
           /\ tokens' = IF NewlineCounts
                          THEN Append(tokens, Token("NEWLINE", pos, LineBreak)) ELSE tokens
           /\ pos' = LineBreak + 1 /\ at_line_start' = TRUE
           /\ UNCHANGED <<src, indent_stack, paren_depth, outcome>>

\* A backslash takes the line break after it along, if that is a plain one.
\* A slip: it takes any character.
AfterBackslashAny == IF pos < Len(src) THEN pos + 2 ELSE pos + 1
AfterBackslash == IF Char(pos + 1) = "\n" THEN pos + 2 ELSE pos + 1
Continuation == Next1({"\\"}) /\ Skip(AfterBackslash)

(***************************************************************************)
(* Texts: where the one that opens with a quote at p ends, 0 if it does    *)
(* not.  After a backslash the next character is taken blindly, a line     *)
(* break too; \x takes two more, which int(_, 16) must accept.             *)
(***************************************************************************)
HexPair(c, d) == \/ c \in Digits \cup HexLetters \cup Blank \cup {"+", "\n", "\r"}
                       /\ d \in Digits \cup HexLetters
                 \/ c \in Digits \cup HexLetters /\ d \in Blank \cup {"\n", "\r", End}
                 \/ c = "-" /\ d = "0"

CloseOf(p, hex) ==
    LET close[q \in p + 1 .. Len(src) + 4] ==
            CASE Char(q) \in {End, "\n"} -> 0
              [] Char(q) = src[p] -> q
              [] Char(q) = "\\" /\ Char(q + 1) = "x" /\ hex ->
                    IF HexPair(Char(q + 2), Char(q + 3)) THEN close[q + 4] ELSE 0
              [] Char(q) = "\\" /\ ~(Char(q + 1) = "x" /\ hex) -> close[q + 2]
              [] OTHER -> close[q + 1]
    IN  close[p + 1]

Three(p, c) == \A q \in p .. p + 2 : Char(q) = c
TripleOf(p) == LET ends == {q \in p + 3 .. Len(src) - 2 : Three(q, src[p])}
               IN  IF ends = {} THEN 0 ELSE Min(ends) + 2

StringEnd(p) == IF Char(p) = End THEN 0     \* r or b is the last character
                ELSE IF Three(p, src[p]) THEN TripleOf(p) ELSE CloseOf(p, TRUE)
FStringEnd(p) == IF Char(p) = End THEN 0 ELSE CloseOf(p, FALSE)

EmitText(kind, from, to) == IF to = 0 THEN Stop("bad text")
                            ELSE Emit(Token(kind, from, to), to + 1)

\* 'c' and '\c'; anything else in single quotes is a string.
PlainChar == Char(pos + 1) \notin Quotes \cup {"\\"} /\ Char(pos + 2) = "'"
EscapedChar == Char(pos + 1) = "\\" /\ Char(pos + 3) = "'"

CharLiteral ==
    /\ Next1({"'"})
    /\ \/ PlainChar /\ EmitText("CHAR_LIT", pos, pos + 2)
       \/ EscapedChar /\ EmitText("CHAR_LIT", pos, IF Char(pos + 2) = "x" THEN 0 ELSE pos + 3)

String == /\ Next1(Quotes)
          /\ ~ (src[pos] = "'" /\ (PlainChar \/ EscapedChar))
          /\ EmitText("STRING", pos, StringEnd(pos))

\* The end of the source counts as a quote here, too.
Prefixed(S) == Next1(S) /\ Char(pos + 1) \in Quotes \cup {End}
FString == Prefixed({"f"}) /\ EmitText("FSTRING", pos, FStringEnd(pos + 1))
RawOrBytes == Prefixed({"r", "b"}) /\ EmitText("STRING", pos, StringEnd(pos + 1))

(***************************************************************************)
(* Words.  read_digit_token reads a run of alphanumerics, a fraction, a    *)
(* signed exponent; _try_classify_number says whether that is a number.    *)
(***************************************************************************)
DigitRun == Digits \cup {"_"}
HasDigit(w, i, j) == \E k \in i .. j : w[k] \in Digits

\* A dot begins a fraction only before a digit, a sign an exponent likewise.
Fraction(p, w) == /\ \A q \in p .. w - 1 : src[q] \in DigitRun
                  /\ Char(w) = "." /\ Char(w + 1) \in Digits

Exponent(w) == src[w - 1] = "e" /\ Char(w) \in {"+", "-"} /\ Char(w + 1) \in Digits

DigitTokenEnd(p) ==
    LET w1 == After(p, Alnum)
        w2 == IF Fraction(p, w1) THEN After(w1 + 1, Alnum) ELSE w1
        w3 == IF Exponent(w2) THEN After(w2 + 1, Alnum) ELSE w2
    IN  w3 - 1

InBase(w, prefix, S) ==
    Len(w) >= 3 /\ w[1] = "0" /\ w[2] = prefix /\ Range(SubSeq(w, 3, Len(w))) \subseteq S

\* A slip: an integer part is enough.
IsDecimalLoose(w) == w[1] \in Digits /\ AfterIn(w, 1, DigitRun) > 1
IsDecimal(w) ==
    \E i \in {AfterIn(w, 1, DigitRun)} :
    \E j \in {IF i <= Len(w) /\ w[i] = "." THEN AfterIn(w, i + 1, DigitRun) ELSE i} :
    \E k \in {IF j < Len(w) /\ w[j + 1] \in {"+", "-"} THEN j + 1 ELSE j} :
    \E n \in {IF j <= Len(w) /\ w[j] = "e" THEN AfterIn(w, k + 1, DigitRun) ELSE j} :
        /\ i <= Len(w) /\ w[i] = "." => HasDigit(w, i + 1, j - 1)
        /\ j <= Len(w) /\ w[j] = "e" => HasDigit(w, k + 1, n - 1)
        /\ n = Len(w) + 1

\* A word that begins like 0x is in that base or no number at all.
IsNumber(w) ==
    IF Len(w) >= 3 /\ w[1] = "0" /\ w[2] \in {"x", "b", "o"}
      THEN /\ \/ InBase(w, "x", DigitRun \cup HexLetters)
              \/ InBase(w, "b", {"0", "1", "_"})
              \/ InBase(w, "o", DigitRun \ {"8"})
           /\ \E k \in 3 .. Len(w) : w[k] # "_"
      ELSE IsDecimal(w)

DigitToken == /\ Next1(Digits)
              /\ \E to \in {DigitTokenEnd(pos)} :
                    Emit(Token(IF IsNumber(SubSeq(src, pos, to)) THEN "NUMBER" ELSE "IDENT",
                               pos, to), to + 1)

Identifier == /\ Next1(Alnum \ Digits)
              /\ src[pos] \in {"f", "r", "b"} => Char(pos + 1) \notin Quotes \cup {End}
              /\ Emit(Token("IDENT", pos, After(pos, Alnum) - 1), After(pos, Alnum))

(***************************************************************************)
(* Operators and brackets.  The nested matches take the longest operator;  *)
(* `**=` is taken for one and recorded as `**`.                            *)
(***************************************************************************)
Operators ==
    {<<c>> : c \in {"+", "-", "*", "/", "%", "=", "<", ">", "&", "|", "^", "~",
                    ",", ":", ";", ".", "@"}}
    \cup {<<c, "=">> : c \in {"+", "-", "*", "/", "%", "=", "!", "<", ">", "&", "|", "^", ":"}}
    \cup {<<c, c>> : c \in {"*", "/", "<", ">", "."}}
    \cup {<<"-", ">">>, <<"<", "<", "=">>, <<">", ">", "=">>, <<".", ".", ".">>,
          <<"*", "*", "=">>}

OperatorChars == {op[1] : op \in Operators}
Matching == {op \in Operators : \A i \in DOMAIN op : Char(pos + i - 1) = op[i]}
Longest == CHOOSE op \in Matching : \A o \in Matching : Len(o) <= Len(op)

OpenBrackets == {"(", "[", "{"}
CloseBrackets == {")", "]", "}"}

Operator == /\ Next1(OperatorChars) /\ Matching # {}
            /\ Emit(Token("OP", pos, pos + (IF Longest = <<"*", "*", "=">>
                                             THEN 1 ELSE Len(Longest) - 1)),
                    pos + Len(Longest))

OpenBracket == /\ Next1(OpenBrackets)
               /\ paren_depth' = paren_depth + 1
               /\ tokens' = Append(tokens, Token("OPEN", pos, pos))
               /\ pos' = pos + 1
               /\ UNCHANGED <<src, at_line_start, indent_stack, outcome>>

Below == IF paren_depth > 0 THEN paren_depth - 1 ELSE 0

CloseBracket == /\ Next1(CloseBrackets)
                /\ paren_depth' = Below
                /\ tokens' = Append(tokens, Token("CLOSE", pos, pos))
                /\ pos' = pos + 1
                /\ UNCHANGED <<src, at_line_start, indent_stack, outcome>>

Unexpected == Next1({"$", "!"}) /\ Matching = {} /\ Stop("bad character")

\* The blocks still open are closed, whatever the last line looks like.
Finish == /\ outcome = "scanning" /\ pos > Len(src)
          /\ tokens' = tokens \o Dedents(Len(indent_stack) - 1, pos) \o <<Mark("EOF", pos)>>
          /\ indent_stack' = <<0>>
          /\ outcome' = "done"
          /\ UNCHANGED <<src, pos, at_line_start, paren_depth>>

Next == \/ InBrackets \/ BlankLine \/ Deeper \/ Shallower
        \/ SkipBlanks \/ Spin \/ Comment \/ Newline \/ Continuation
        \/ CharLiteral \/ String \/ FString \/ RawOrBytes
        \/ DigitToken \/ Identifier
        \/ Operator \/ OpenBracket \/ CloseBracket \/ Unexpected
        \/ Finish

Spec == Init /\ [][Next]_vars

-----------------------------------------------------------------------------
LayoutKinds == {"NEWLINE", "INDENT", "DEDENT"}

\* Tokens are only ever appended, so what they must be can be said at the end.
Final == outcome # "scanning"

(***************************************************************************)
(* The block structure said without a stack.  A logical line begins after  *)
(* a NEWLINE; its width is that of the blanks there.                       *)
(***************************************************************************)
Width(p) == LET lead == p .. After(p, Blank) - 1
            IN  Cardinality({q \in lead : src[q] = Space})
                + 8 * Cardinality({q \in lead : src[q] = "\t"})

\* The token before the i-th one that is no INDENT or DEDENT, or 0.
BlockMarks == {"INDENT", "DEDENT"}
Before(i) == CHOOSE j \in 0 .. i - 1 :
                /\ j > 0 => tokens[j].kind \notin BlockMarks
                /\ \A k \in j + 1 .. i - 1 : tokens[k].kind \in BlockMarks
BeginsLine(i) == /\ tokens[i].kind \notin LayoutKinds
                 /\ Before(i) = 0 \/ tokens[Before(i)].kind = "NEWLINE"
LineWidth(i) == IF tokens[i].kind = "EOF" THEN 0
                ELSE Width(IF Before(i) = 0 THEN 1 ELSE tokens[Before(i)].to + 1)
LineWidths == [i \in {j \in DOMAIN tokens : BeginsLine(j) \/ tokens[j].kind = "EOF"} |-> LineWidth(i)]

\* The blocks line i is in: of every line before it that no line since has
\* been shallower than, the width.
OpenAt(w, i) == {0} \cup {w[j] : j \in {j \in DOMAIN w : j <= i
                            /\ \A k \in DOMAIN w : j <= k /\ k <= i => w[k] >= w[j]}}
Marks(kind, i) == Cardinality({j \in 1 .. i : tokens[j].kind = kind})
Depth(i) == Marks("INDENT", i) - Marks("DEDENT", i)

\* Lines that look blank to handle_indentation: those with nothing but blanks
\* end in a plain line break, none begins with a backslash, and no space
\* follows a tab.
LineStarts == {p \in DOMAIN src : p = 1 \/ src[p - 1] \in {"\n", "\r"}}
PlainIndents ==
    \A p \in LineStarts :
        LET e == After(p, Blank)
        IN  /\ \A q \in p .. e - 2 : ~ (src[q] = "\t" /\ src[q + 1] = Space)
            /\ e > p => Char(e) \notin {"\r", End}
            /\ Char(e) # "\\"

\* Every line is in exactly the blocks its indentation puts it in, and
\* between two lines there is one INDENT, or only the DEDENTs needed: blank
\* and comment lines open and close nothing, and the end closes everything.
\* Only a line whose width no open block has is refused (handle_indentation).
LayoutFollowsIndents ==
    Final /\ PlainIndents =>
        LET w == LineWidths
        IN  /\ \A i \in DOMAIN w :
                  LET before == {j \in DOMAIN w : j < i}
                      j == IF before = {} THEN 0 ELSE Max(before)
                  IN  /\ Depth(i) = Cardinality(OpenAt(w, i)) - 1
                      /\ Marks("INDENT", i) - Marks("INDENT", j) =
                            (IF Depth(i) > Depth(j) THEN 1 ELSE 0)
            /\ outcome = "bad indent" =>
                  Width(Max({p \in LineStarts : p <= pos})) \notin OpenAt(w, Max(DOMAIN w))

\* While a bracket is open lines do not count; a closing bracket too many
\* does not make up for one opened later (paren_depth).
Level(i) == Max({Cardinality({k \in j .. i - 1 : tokens[k].kind = "OPEN"})
                 - Cardinality({k \in j .. i - 1 : tokens[k].kind = "CLOSE"}) : j \in 1 .. i})
BracketsHideLines ==
    Final => \A i \in DOMAIN tokens :
        tokens[i].kind \in LayoutKinds /\ tokens[i].from <= Len(src) => Level(i) = 0

\* Every character of the program reaches a token, in its place: what is
\* passed over is a blank, a line break, a comment, a backslash outside of a
\* text, or the last character of `**=`.
InComment(p) == \E h \in 1 .. p : src[h] = "#" /\ \A q \in h .. p : src[q] # "\n"
NothingSwallowed ==
    Final =>
    LET covered == UNION {tokens[i].from .. tokens[i].to : i \in DOMAIN tokens}
    IN  /\ \A i \in 2 .. Len(tokens) : tokens[i - 1].to < tokens[i].from
        /\ \A p \in 1 .. pos - 1 :
              \/ p \in covered
              \/ src[p] \in Blank \cup {"\n", "\r", "\\"}
              \/ InComment(p)
              \/ p > 2 /\ SubSeq(src, p - 2, p) = <<"*", "*", "=">>

\* A word that begins with a digit is a number exactly if it has one of the
\* forms of LANGUAGE.md (82-88); `_` alone is no digit.
Run(w, i, j) == /\ \A k \in i .. j : w[k] \in DigitRun
                /\ HasDigit(w, i, j)
ExponentAt(w, j) == /\ j < Len(w) /\ w[j] = "e"
                    /\ \/ Run(w, j + 1, Len(w))
                       \/ w[j + 1] \in {"+", "-"} /\ Run(w, j + 2, Len(w))
NumberForm(w) ==
    \/ \E b \in {<<"x", DigitRun \cup HexLetters>>, <<"b", {"0", "1", "_"}>>,
                 <<"o", {"0", "1", "_"}>>} :
          InBase(w, b[1], b[2]) /\ \E k \in 3 .. Len(w) : w[k] # "_"
    \/ Run(w, 1, Len(w))
    \/ \E j \in 2 .. Len(w) : Run(w, 1, j - 1) /\ ExponentAt(w, j)
    \/ \E d \in 2 .. Len(w) - 1 :
          /\ w[d] = "." /\ Run(w, 1, d - 1)
          /\ \/ Run(w, d + 1, Len(w))
             \/ \E j \in d + 2 .. Len(w) : Run(w, d + 1, j - 1) /\ ExponentAt(w, j)

Word(t) == SubSeq(src, t.from, t.to)
NumbersAsDocumented ==
    Final => \A i \in DOMAIN tokens :
        tokens[i].kind \in {"NUMBER", "IDENT"} /\ src[tokens[i].from] \in Digits =>
            (tokens[i].kind = "NUMBER" <=> NumberForm(Word(tokens[i])))

\* The scan ends, unless the text ends in blanks with no line break after.
EndsInBlank == src # <<>> /\ Last(src) \in Blank
Terminates == ~EndsInBlank => <>(outcome \notin {"scanning", "spinning"})
==============================================================================
