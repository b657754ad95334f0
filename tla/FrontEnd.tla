------------------------------ MODULE FrontEnd ------------------------------
(***************************************************************************)
(* parse and parse_with_errors of compiler/parser.py: the whole text is    *)
(* tokenized, then the tokens are parsed.  A LexerError ends both.  The    *)
(* parser sees the kinds of the tokens; here words become keywords, and    *)
(* operators that are treated alike become one kind.                       *)
(***************************************************************************)
EXTENDS Lexer

VARIABLES
    kinds,          \* what the parser is given
    cursor, declarations, errors, parsed        \* the parser's

P == INSTANCE Parser WITH tokens <- kinds, pos <- cursor, outcome <- parsed

parserVars == <<kinds, cursor, declarations, errors, parsed>>
frontVars == <<vars, parserVars>>

-----------------------------------------------------------------------------
Spelling(t) == SubSeq(src, t.from, t.to)

\* KEYWORDS, and the type names the parser knows.
WordKind(w) == IF Len(w) = 1 /\ w[1] \in Vocabulary \cup {"_"} THEN w[1] ELSE "x"

OpKind(w) ==
    CASE Len(w) = 1 -> IF w[1] \in {"/", "%"} THEN "//" ELSE IF w[1] = ">" THEN "<" ELSE w[1]
      [] w[1] \in {"=", "!"} -> "=="
      [] w \in {<<"<", "=">>, <<">", "=">>} -> "<"
      [] w[1] \in {"+", "-", "*", "/", "%"} /\ Last(w) = "=" -> "+="
      [] w[1] \in {"&", "|", "^", "<", ">"} /\ Last(w) = "=" -> "|="
      [] w[1] \in {"<", ">"} -> "<<"
      [] w[1] = "*" -> "**"
      [] w[1] = "/" -> "//"
      [] w[1] = "-" -> "->"
      [] OTHER -> "other"

Kind(t) == CASE t.kind = "IDENT" -> WordKind(Spelling(t))
             [] t.kind = "OP" -> OpKind(Spelling(t))
             [] t.kind \in {"OPEN", "CLOSE"} -> src[t.from]
             [] OTHER -> t.kind

InitFront == /\ InitScan
             /\ kinds = <<>> /\ cursor = 0
             /\ declarations = <<>> /\ errors = <<>>
             /\ parsed = ""

Scan == Next /\ UNCHANGED parserVars

\* Parser(tokenize(source)), and the blank lines it begins with.
Deliver == /\ outcome = "done" /\ kinds = <<>>
           /\ kinds' = [i \in DOMAIN tokens |-> Kind(tokens[i])]
           /\ cursor' = Min({q \in DOMAIN kinds' : kinds'[q] # "NEWLINE"})
           /\ UNCHANGED <<vars, declarations, errors, parsed>>

Parse == /\ kinds # <<>>
         /\ P!Next
         /\ UNCHANGED vars

FrontNext == Scan \/ Deliver \/ Parse

\* The scan is a loop that is never waited for.  So is the parser's, which has
\* a property of its own: each of its turns moves on.
FrontFair == WF_frontVars(Scan)

-----------------------------------------------------------------------------
\* What tokenize raises ends the parse before it begins.
Refused == outcome \notin {"scanning", "done", "spinning"}
=============================================================================
