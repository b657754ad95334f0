------------------------------- MODULE Grammar -------------------------------
(***************************************************************************)
(* compiler/parser.py: the methods that parse types, expressions,          *)
(* statements and declarations, each as the rule it follows.  A rule says  *)
(* which tokens the method expects, in which order, and on which token it  *)
(* decides; Run follows a rule from a position, as the method does.        *)
(*                                                                         *)
(* A token is its kind; a few kinds stand for all that are treated alike   *)
(* ("int32" for every type that can be a cast, "+=" for + - * / %, "|=" for *)
(* & | ^ << >>).  A tree has the tokens that matter as leaves, grouped as  *)
(* the nodes of the syntax tree are; names and values are left out.        *)
(***************************************************************************)
EXTENDS Integers, Sequences, FiniteSetsExt

VARIABLE tokens     \* what the lexer delivered; the last one is EOF

Idents == {"x", "y", "Percpu", "_"}
Literals == {"NUMBER", "STRING", "FSTRING", "CHAR_LIT", "True", "None"}
CastTypes == {"int32"}
Primitives == CastTypes \cup {"bool"}
NameOps == {"=", "+=", "|="}        \* assignments to a name
TargetOps == {"=", "+="}            \* and to anything else
AnyToken == {"any"}

Leaf(k) == [token |-> k, parts |-> <<>>]
Node(parts) == [token |-> "", parts |-> parts]

-----------------------------------------------------------------------------
(***************************************************************************)
(* Rules.                                                                  *)
(***************************************************************************)
Tok(S) == <<"tok", S>>              \* expect one of S
T(k) == Tok({k})
D(k) == <<"drop", {k}>>             \* expect k; the tree does not show it
R(method) == <<"rule", method>>
g & h == <<"then", g, h>>
g | h == <<"or", g, h>>             \* g if its first token is there
Opt(g) == <<"opt", g>>              \* if match(...)
Many(g) == <<"many", g>>            \* while match(...)
Unless(S, g) == <<"unless", S, g>>  \* if not check(...)
Until(S, g) == <<"until", S, g>>    \* the loop over a block
Commas(stop, g) == <<"commas", stop, g>>    \* more elements; a last comma is allowed
Group(g) == <<"group", g>>          \* one node of all that g reads
Once(f, g) == <<"once", f, g>>      \* f, and with the first token of g, both in a node
Chain(f, g) == <<"chain", f, g>>    \* the same over and over: left associative
IfNext(S, g, h) == <<"next", S, g, h>>  \* a name with one of S after it, or not
Newlines == <<"newlines">>          \* skip_newlines
End == D("NEWLINE")

List(g) == g & Many(T(",") & g)
Name == Tok(Idents)
Names == List(Name)

\* parse_type
Type ==
    T("None")
    | Group(T("volatile") & R("type"))
    | Group(Tok({"Ptr", "List", "Optional"}) & T("[") & R("type") & T("]"))
    | Group(Tok({"Fn", "Tuple"}) & T("[") & List(R("type")) & T("]"))
    | Group(T("Dict") & T("[") & R("type") & T(",") & R("type") & T("]"))
    | Group(T("Array") & T("[") & T("NUMBER") & T(",") & R("type") & T("]"))
    | Tok(Primitives)
    | Group(T("Percpu") & Opt(T("[") & R("type") & T("]")))
    | Group(Name & Opt(T("[") & List(R("type")) & T("]")))

(***************************************************************************)
(* Expressions, from the loosest binding to the tightest.                  *)
(***************************************************************************)
Conditional == Once(R("or"), T("if") & R("or") & T("else") & R("expression"))

\* A slip: the right operand reaches as far as it can.
OrRight == Once(R("and"), T("or") & R("or"))
Or == Chain(R("and"), T("or") & R("and"))
And == Chain(R("not"), T("and") & R("not"))
Not == Group(T("not") & R("not")) | R("comparison")

Comparison == Chain(R("bitor"),
    Tok({"==", "<", "in"}) & R("bitor")
    | T("is") & Opt(T("not")) & R("bitor")
    | T("not in") & T("in") & R("bitor"))

BitOr == Chain(R("bitxor"), T("|") & R("bitxor"))
BitXor == Chain(R("bitand"), T("^") & R("bitand"))
BitAnd == Chain(R("shift"), T("&") & R("shift"))
Shift == Chain(R("additive"), T("<<") & R("additive"))
Additive == Chain(R("multiplicative"), Tok({"+", "-"}) & R("multiplicative"))
Multiplicative == Chain(R("unary"), Tok({"*", "//"}) & R("unary"))
Unary == Group(Tok({"-", "~", "&", "*"}) & R("unary")) | R("power")
Power == Once(R("postfix"), T("**") & R("power"))

\* parse_postfix.  An argument is a keyword argument if it is a mere name
\* and `=` follows; only a call may end its arguments with a comma.
Expr == R("expression")
Argument == <<"argument">>
CallSuffix == T("(") & Unless({")"}, Argument & Commas({")"}, Argument)) & T(")")
SliceEnd == Unless({"]", ":"}, Expr) & Opt(T(":") & Unless({"]"}, Expr)) & T("]")
IndexSuffix == T("[") & (T(":") & SliceEnd | Expr & (T(":") & SliceEnd | T("]")))
MemberSuffix == T(".") & Name & Opt(T("(") & Unless({")"}, List(Expr)) & T(")"))
FieldValue == Name & T("=") & Expr
StructSuffix == T("{") & Unless({"}"}, FieldValue & Commas({"}"}, FieldValue)) & T("}")

Postfix == Chain(R("primary"), CallSuffix | IndexSuffix | MemberSuffix | StructSuffix)

\* parse_primary.  Its branch for `sizeof` comes after the one for names and
\* is never reached: sizeof(...) is read as a call.
CastCall == T("(") & Expr & T(")")
ListRest == T("for") & Name & T("in") & R("or") & Opt(T("if") & R("or")) & T("]")
            | Commas({"]"}, Expr) & T("]")
DictRest == T(":") & Expr & Commas({"}"}, Expr & T(":") & Expr) & T("}")
            | Commas({"}"}, Expr) & T("}")
Parenthesized ==
    D("(") & (T(")") | Once(Expr, T(",") & Unless({")"}, Expr & Commas({")"}, Expr))) & D(")"))

Primary ==
    Tok(Literals \cup {"self"} \cup Idents)
    | Group(Tok(CastTypes) & Opt(CastCall))
    | Group(T("cast") & T("[") & R("type") & T("]") & CastCall)
    | Group(T("Ptr") & T("[") & R("type") & T("]") & Opt(CastCall))
    | Group(T("[") & (T("]") | Expr & ListRest))
    | Group(T("{") & (T("}") | Expr & DictRest))
    | Parenthesized
    | Group(T("lambda") & Unless({":"}, Names) & T(":") & Expr)
    | Group(T("asm") & T("(") & T("STRING") & T(")"))

(***************************************************************************)
(* Statements.                                                             *)
(***************************************************************************)
Block == T(":") & End & Newlines & D("INDENT")
         & Until({"DEDENT", "EOF"}, R("statement")) & D("DEDENT")

If == T("if") & Expr & R("block") & Many(T("elif") & Expr & R("block"))
      & Opt(T("else") & R("block"))
Loop == T("while") & Expr & R("block")
        | T("do") & R("block") & T("while") & Expr       \* and no NEWLINE
        | T("for") & Names & T("in") & Expr & R("block")
MayReturn == Tok({"return", "raise", "yield"}) & Unless({"NEWLINE"}, Expr) & End
Simple == Tok({"break", "continue", "pass"}) & End
          | T("global") & Names & End
          | T("defer") & R("statement")
          | T("assert") & Expr & Opt(T(",") & Expr) & End

Pattern == T("_") | Group(Name & Opt(T("(") & Unless({")"}, Names) & T(")")))
Match == T("match") & Expr & T(":") & End & D("INDENT")
         & Many(T("case") & Pattern & R("block")) & D("DEDENT")

Try == T("try") & R("block")
       & Many(T("except") & Unless({":"}, Name & Opt(T("as") & Name)) & R("block"))
       & Opt(T("else") & R("block")) & Opt(T("finally") & R("block"))

With == T("with") & List(Expr & Opt(T("as") & Name)) & R("block")

\* A statement that begins with a name, decided on the token after it; the
\* cursor goes back if that is none of these.
ExprStatement == Expr & (Tok(TargetOps) & Expr & End | End)
NameStatement ==
    IfNext({","}, Name & T(",") & Names & T("=") & Once(Expr, T(",") & List(Expr)) & End,
    IfNext({":"}, Name & T(":") & R("type") & Opt(T("=") & Expr) & End,
    IfNext(NameOps, Name & Tok(NameOps) & Expr & End,
           ExprStatement)))

Statement == Group(MayReturn | If | Loop | Simple | Match | Try | With
                   | NameStatement | ExprStatement)

(***************************************************************************)
(* Declarations.                                                           *)
(***************************************************************************)
Parameter == Group(Name & Opt(T(":") & R("type")) & Opt(T("=") & Expr))
Parameters == Unless({")"}, List(Parameter))
ReturnType == Opt(T("->") & R("type"))

\* In a class `self` comes first; elsewhere it is read and forgotten.
Method == T("def") & Name & T("(") & T("self") & Opt(T(",")) & Parameters
          & T(")") & ReturnType & R("block")
Function == T("def") & Name & T("(")
            & Unless({")"}, Opt(D("self") & Opt(D(","))) & Parameters)
            & T(")") & ReturnType & R("block")

Field == Name & T(":") & R("type") & Opt(T("=") & Expr) & End
MethodDecorator == T("@") & Tok(Idents \cup {"property"}) & End & Newlines
Member == Group(T("pass") & End | MethodDecorator & Many(MethodDecorator) & Method
                | Method | Field)
Class == T("class") & Name & Opt(T("(") & Unless({")"}, Names) & T(")"))
         & T(":") & End & Newlines & D("INDENT")
         & Until({"DEDENT", "EOF"}, Member) & D("DEDENT")

Union == T("union") & Name & T(":") & End & D("INDENT")
         & Until({"DEDENT", "EOF"}, Group(T("pass") & End | Name & T(":") & R("type") & End))
         & D("DEDENT")

Path == Name & Many(T(".") & Name)
Alias == Opt(T("as") & Name)
Import == T("from") & Path & T("import")
            & (T("*") & End
                | T("(") & Name & Commas({")"}, Name) & T(")") & End
                | List(Name & Alias) & End)
          | T("import") & Path & Alias & End

Extern == T("extern") & T("def") & Name & T("(") & Parameters & T(")") & ReturnType & End

\* One turn of parse_program.  Here a decorator is a name, and its line is
\* followed by no blank one.
GlobalVariable == IfNext({":"}, Field, Tok({}))
Declaration == Group(Many(T("@") & Name & End)
                     & (Import | Extern | Function | Class | Union | GlobalVariable))

Rules == [
    type |-> Type, expression |-> Conditional, or |-> Or,
    and |-> And, not |-> Not, comparison |-> Comparison,
    bitor |-> BitOr, bitxor |-> BitXor, bitand |-> BitAnd,
    shift |-> Shift, additive |-> Additive, multiplicative |-> Multiplicative,
    unary |-> Unary, power |-> Power, postfix |-> Postfix,
    primary |-> Primary, block |-> Block, statement |-> Statement]

-----------------------------------------------------------------------------
(***************************************************************************)
(* Following a rule.  What a rule yields is whether it was kept to, where  *)
(* the cursor is, also when ParseError is raised, and the trees read.      *)
(***************************************************************************)
Ok(p, trees) == [ok |-> TRUE, pos |-> p, trees |-> trees]
Raise(p) == [ok |-> FALSE, pos |-> p, trees |-> <<>>]

\* current, advance: the cursor stays on EOF.
At(p) == tokens[p]
Advance(p) == IF p < Len(tokens) THEN p + 1 ELSE p

\* check; "not in" is a `not` with `in` after it.
Sees(p, S) == \/ At(p) \in S \/ "any" \in S
              \/ "not in" \in S /\ At(p) = "not" /\ At(Advance(p)) = "in"

SkipNewlines(p) == CHOOSE q \in p .. Len(tokens) :
                      At(q) # "NEWLINE" /\ \A r \in p .. q - 1 : At(r) = "NEWLINE"

RECURSIVE First(_)      \* the tokens on which a rule is taken
First(g) == CASE g[1] \in {"tok", "drop"} -> g[2]
              [] g[1] \in {"then", "group"} -> First(g[2])
              [] g[1] = "or" -> First(g[2]) \cup First(g[3])
              [] g[1] = "next" -> Idents
              [] OTHER -> AnyToken

Join(trees) == IF Len(trees) = 1 THEN trees ELSE <<Node(trees)>>
IsName(trees) == Len(trees) = 1 /\ trees[1].token \in Idents \cup {"self"} \cup CastTypes

RECURSIVE Run(_, _)

\* r, and then g from where r ended.
Then(r, g) ==
    IF ~r.ok THEN r
    ELSE LET s == Run(g, r.pos) IN IF s.ok THEN Ok(s.pos, r.trees \o s.trees) ELSE s

AsNode(r) == IF r.ok THEN Ok(r.pos, Join(r.trees)) ELSE r

RECURSIVE Again(_, _)   \* r, and g again as long as its first token is there
Again(r, g) == IF ~r.ok \/ ~Sees(r.pos, First(g)) THEN r ELSE Again(Then(r, g), g)

RECURSIVE Nest(_, _)    \* the same; each time all that is read becomes a node
Nest(r, g) ==
    IF ~r.ok \/ ~Sees(r.pos, First(g)) THEN r
    ELSE IF At(r.pos) = "{" /\ ~IsName(r.trees) THEN Raise(Advance(r.pos))
    ELSE Nest(AsNode(Then(r, g)), g)

RECURSIVE Elements(_, _, _)
Elements(r, stop, g) ==
    IF ~r.ok \/ At(r.pos) # "," THEN r
    ELSE IF At(Advance(r.pos)) \in stop THEN Ok(Advance(r.pos), r.trees)
    ELSE Elements(Then(r, T(",") & g), stop, g)

RECURSIVE Body(_, _, _)
Body(r, stop, g) ==
    IF ~r.ok THEN r
    ELSE LET s == Ok(SkipNewlines(r.pos), r.trees)
         IN  IF At(s.pos) \in stop THEN s ELSE Body(Then(s, g), stop, g)

Run(g, p) ==
    CASE g[1] = "tok" -> IF Sees(p, g[2]) THEN Ok(Advance(p), <<Leaf(At(p))>>) ELSE Raise(p)
      [] g[1] = "drop" -> IF At(p) \in g[2] THEN Ok(Advance(p), <<>>) ELSE Raise(p)
      [] g[1] = "rule" -> Run(Rules[g[2]], p)
      [] g[1] = "then" -> LET r == Run(g[2], p) IN Then(r, g[3])
      [] g[1] = "or" -> IF Sees(p, First(g[2])) THEN Run(g[2], p) ELSE Run(g[3], p)
      [] g[1] = "opt" -> IF Sees(p, First(g[2])) THEN Run(g[2], p) ELSE Ok(p, <<>>)
      [] g[1] = "many" -> Again(Ok(p, <<>>), g[2])
      [] g[1] = "unless" -> IF At(p) \in g[2] THEN Ok(p, <<>>) ELSE Run(g[3], p)
      [] g[1] = "until" -> Body(Ok(p, <<>>), g[2], g[3])
      [] g[1] = "commas" -> Elements(Ok(p, <<>>), g[2], g[3])
      [] g[1] = "group" -> AsNode(Run(g[2], p))
      [] g[1] = "once" -> LET r == Run(g[2], p)
                          IN  IF r.ok /\ Sees(r.pos, First(g[3])) THEN AsNode(Then(r, g[3])) ELSE r
      [] g[1] = "chain" -> LET r == Run(g[2], p) IN Nest(r, g[3])
      [] g[1] = "next" -> IF At(p) \in Idents /\ At(Advance(p)) \in g[2]
                            THEN Run(g[3], p) ELSE Run(g[4], p)
      [] g[1] = "newlines" -> Ok(SkipNewlines(p), <<>>)
      [] g[1] = "argument" -> LET r == Run(Expr, p)
                              IN  IF r.ok /\ At(r.pos) = "=" /\ IsName(r.trees)
                                    THEN Then(r, T("=") & Expr) ELSE r
==============================================================================
