------------------------------ MODULE CanaryScan ------------------------------
(***************************************************************************)
(* Which functions get a stack canary (compiler/codegen_x86.py):           *)
(* _function_needs_canary walks the body twice, for local arrays of at     *)
(* least STACK_PROTECTOR_ARRAY_THRESHOLD elements and for the address      *)
(* operator, before any code is generated; FrameLayout takes the decision. *)
(*                                                                         *)
(* A body is a tree, grown node by node in breadth-first order.  A child   *)
(* of a node stands under the name the field has in compiler/ast_nodes.py; *)
(* literals and identifiers are left out.                                  *)
(***************************************************************************)
EXTENDS Integers, Sequences

CONSTANTS
    STACK_PROTECTOR_ARRAY_THRESHOLD,
    STACK_PROTECTOR_SKIP,   \* the names, and those with the prefixes, to skip
    Functions,              \* the names functions have, and were written with
    ArraySizes,             \* the lengths a local array may have
    MaxNodes                \* bound on the nodes of a body

ASSUME ScanAssumption ==
    /\ STACK_PROTECTOR_ARRAY_THRESHOLD \in Nat \ {0} /\ ArraySizes \subseteq Nat
    /\ MaxNodes \in Nat

VARIABLES
    func,           \* the function's name and how it was written
    nodes,          \* its body
    needs_canary    \* the decision, once it is made

vars == <<func, nodes, needs_canary>>

-----------------------------------------------------------------------------
(* The syntax tree.                                                         *)
ExprFields ==
    [address      |-> {"operand"},
     unary        |-> {"operand"},
     binary       |-> {"left", "right"},
     call         |-> {"func", "args", "kwargs"},
     method_call  |-> {"obj", "args"},
     index        |-> {"obj", "index"},
     member       |-> {"obj"},
     conditional  |-> {"condition", "then_expr", "else_expr"},
     cast         |-> {"expr"},
     container_of |-> {"expr"}]

StmtFields ==
    [var       |-> {"value"},
     assign    |-> {"target", "value"},
     expr_stmt |-> {"expr"},
     return    |-> {"value"},
     if        |-> {"condition", "elif_condition"},
     while     |-> {"condition"},
     do_while  |-> {"condition"},
     for       |-> {"iterable"},
     simple    |-> {}]

Bodies == [if |-> {"then_body", "elif_body", "else_body"},
           while |-> {"body"}, do_while |-> {"body"}, for |-> {"body"}]

Exprs == DOMAIN ExprFields
Stmts == DOMAIN StmtFields
Lists == {"args", "kwargs", "elif_condition", "then_body", "elif_body",
          "else_body", "body"}

Fields(kind) == IF kind \in Exprs THEN ExprFields[kind] ELSE StmtFields[kind]
BodiesOf(kind) == IF kind \in DOMAIN Bodies THEN Bodies[kind] ELSE {}

Child(i, field) == {c \in DOMAIN nodes : nodes[c].parent = i /\ nodes[c].field = field}

\* A slip: the name the symbol has.
WrittenNow == func.name
Written == IF func.orig_name # <<>> THEN func.orig_name ELSE func.name

\* A function is called as it is written; a private one is renamed with its
\* module's path in front, a method with its class's, and both remember.
Plain(n) == [name |-> <<n>>, orig_name |-> <<>>]
Prefixed(p, n) == [name |-> <<p, n>>, orig_name |-> <<n>>]

ASSUME FunctionsAssumption == \A f \in Functions :
            f = Plain(f.name[1]) \/ f = Prefixed(f.name[1], f.name[2])

Init == /\ func \in Functions
        /\ nodes = <<>>
        /\ needs_canary = "unknown"

\* The body gets a node more: a statement at its top (parent 0), or an
\* expression or a statement under one of the nodes it has.
Grow(kind, size, parent, field) ==
    /\ needs_canary = "unknown" /\ Len(nodes) < MaxNodes
    /\ nodes # <<>> => parent >= nodes[Len(nodes)].parent
    /\ field \in Lists \/ Child(parent, field) = {}
    /\ nodes' = Append(nodes, [kind |-> kind, size |-> size, parent |-> parent,
                               field |-> field])
    /\ UNCHANGED <<func, needs_canary>>

GrowStmt(kind, size, i) ==
    /\ kind # "var" => size = 0
    /\ \/ i = 0 /\ Grow(kind, size, 0, "body")
       \/ i # 0 /\ \E field \in BodiesOf(nodes[i].kind) : Grow(kind, size, i, field)
GrowExpr(kind, i) == \E field \in Fields(nodes[i].kind) : Grow(kind, 0, i, field)

-----------------------------------------------------------------------------
(* _stmt_uses_addr_of_local and _stmt_has_big_array_local: which fields the *)
(* walks enter.  A slip: an arm of an if is forgotten.                      *)
NoElifs(kind) == IF kind = "if" THEN {"condition", "then_body", "else_body"}
                                ELSE Fields(kind) \cup BodiesOf(kind)
Walked(kind) ==
    CASE kind = "call"        -> {"args", "kwargs"}
      [] kind = "method_call" -> {}
      [] OTHER                -> Fields(kind) \cup BodiesOf(kind)

UsesAddr ==
    LET uses[i \in DOMAIN nodes] ==
            \/ nodes[i].kind = "address"
            \/ \E f \in Walked(nodes[i].kind) : \E c \in Child(i, f) : uses[c]
    IN  \E i \in Child(0, "body") : uses[i]

HasBigArray ==
    LET has[i \in DOMAIN nodes] ==
            \/ nodes[i].kind = "var" /\ nodes[i].size >= STACK_PROTECTOR_ARRAY_THRESHOLD
            \/ \E f \in BodiesOf(nodes[i].kind) : \E c \in Child(i, f) : has[c]
    IN  \E i \in Child(0, "body") : has[i]

\* _function_needs_canary.
Decide == /\ needs_canary = "unknown"
          /\ needs_canary' = IF /\ ~ \E n \in STACK_PROTECTOR_SKIP : Written = <<n>>
                                /\ HasBigArray \/ UsesAddr
                             THEN "yes" ELSE "no"
          /\ UNCHANGED <<func, nodes>>

Next == \/ \E kind \in Stmts, size \in ArraySizes \cup {0}, i \in 0 .. Len(nodes) :
                GrowStmt(kind, size, i)
        \/ \E kind \in Exprs, i \in DOMAIN nodes : GrowExpr(kind, i)
        \/ Decide

Spec == Init /\ [][Next]_vars

-----------------------------------------------------------------------------
Skipped == func.name[Len(func.name)] \in STACK_PROTECTOR_SKIP

\* Node i stands inside a method call or the target of a call.
Hidden(i) ==
    LET under[j \in 0 .. Len(nodes)] ==
            IF j = 0 THEN FALSE
            ELSE LET p == nodes[j].parent IN
                 \/ under[p]
                 \/ p # 0 /\ \/ nodes[p].kind = "method_call"
                             \/ nodes[p].kind = "call" /\ nodes[j].field = "func"
    IN  under[i]

\* A function is protected if it has a local array of the threshold length or
\* more, "OR if it takes the address of any local with &" (lines 1213-1217),
\* at any depth of branches, loops and operands, except where the walk does
\* not go: the receiver and the arguments of a method call, and the target
\* of an indirect call.
ExposedAreProtected ==
    needs_canary = "no" /\ ~Skipped =>
        \A i \in DOMAIN nodes :
            /\ nodes[i].size < STACK_PROTECTOR_ARRAY_THRESHOLD
            /\ nodes[i].kind = "address" => Hidden(i)

\* A function that must not get a canary never gets one, wherever it is
\* written ("orig_name carries the pre-mangle spelling", lines 1355-1356),
\* and no other gets one without cause.
NoCanaryUncalledFor ==
    needs_canary = "yes" =>
        /\ ~Skipped
        /\ \E i \in DOMAIN nodes : \/ nodes[i].kind = "address"
                                   \/ nodes[i].size >= STACK_PROTECTOR_ARRAY_THRESHOLD
==============================================================================
