--------------------------- MODULE CanaryScanProofs ---------------------------
(***************************************************************************)
(* Theorems about CanaryScan, for bodies of any size and depth.            *)
(***************************************************************************)
EXTENDS CanaryScan, Recursion, SequenceTheorems

-----------------------------------------------------------------------------
(***************************************************************************)
(* The walks.                                                              *)
(***************************************************************************)
\* What is in A, or has a successor along E that is marked.
Marked(U, D, A, E) == \A i \in D : i \in U <=> i \in A \/ \E c \in U : <<i, c>> \in E

LEMMA Marking == ASSUME NEW D, NEW A, NEW E PROVE \E U \in SUBSET D : Marked(U, D, A, E)
<1> DEFINE Closed(S) == \A i \in D : (i \in A \/ \E c \in S : <<i, c>> \in E) => i \in S
           U == {i \in D : \A S \in SUBSET D : Closed(S) => i \in S}
<1>1. Closed(U)
  <2> SUFFICES ASSUME NEW i \in D, i \in A \/ \E c \in U : <<i, c>> \in E,
                      NEW S \in SUBSET D, Closed(S)
               PROVE  i \in S
    OBVIOUS
  <2> QED OBVIOUS
<1>2. ASSUME NEW i \in U, ~(i \in A \/ \E c \in U : <<i, c>> \in E) PROVE FALSE
  <2>1. Closed(U \ {i})
    BY <1>1, <1>2
  <2>2. U \ {i} \in SUBSET D
    OBVIOUS
  <2> HIDE DEF Closed
  <2> QED BY <2>1, <2>2
<1>3. U \in SUBSET D
  OBVIOUS
<1> HIDE DEF U
<1> QED BY <1>1, <1>2, <1>3 DEF Marked

\* The functions the walks define.
UsesIs(g) == g = [i \in DOMAIN nodes |->
                    \/ nodes[i].kind = "address"
                    \/ \E f \in Walked(nodes[i].kind) : \E c \in Child(i, f) : g[c]]
HasIs(g) == g = [i \in DOMAIN nodes |->
                    \/ nodes[i].kind = "var" /\ nodes[i].size >= STACK_PROTECTOR_ARRAY_THRESHOLD
                    \/ \E f \in BodiesOf(nodes[i].kind) : \E c \in Child(i, f) : g[c]]
InCall(j) == /\ nodes[j].parent # 0
             /\ \/ nodes[nodes[j].parent].kind = "method_call"
                \/ nodes[nodes[j].parent].kind = "call" /\ nodes[j].field = "func"
UnderIs(g) == g = [j \in 0 .. Len(nodes) |->
                     IF j = 0 THEN FALSE ELSE g[nodes[j].parent] \/ InCall(j)]

\* What is true or false and has the same truth value is equal.
LEMMA SameTruth == ASSUME NEW a \in BOOLEAN, NEW b \in BOOLEAN, a <=> b PROVE a = b
BY Zenon

LEMMA UsesSolved ==
    \E g : /\ \A i \in DOMAIN nodes :
                g[i] <=> \/ nodes[i].kind = "address"
                         \/ \E f \in Walked(nodes[i].kind) : \E c \in Child(i, f) : g[c]
           /\ UsesAddr <=> \E i \in Child(0, "body") : g[i]
<1> DEFINE A == {i \in DOMAIN nodes : nodes[i].kind = "address"}
           E == {e \in (DOMAIN nodes) \X (DOMAIN nodes) :
                    \E f \in Walked(nodes[e[1]].kind) : e[2] \in Child(e[1], f)}
<1>1. PICK U \in SUBSET DOMAIN nodes : Marked(U, DOMAIN nodes, A, E)
  BY Marking
<1> DEFINE u == [i \in DOMAIN nodes |-> i \in U]
<1>2. \A c \in DOMAIN nodes : u[c] <=> c \in U
  OBVIOUS
<1>3. u = [i \in DOMAIN nodes |-> i \in U]
  OBVIOUS
<1> HIDE DEF u
<1>4. ASSUME NEW i \in DOMAIN nodes
      PROVE  (i \in U) = (\/ nodes[i].kind = "address"
                          \/ \E f \in Walked(nodes[i].kind) : \E c \in Child(i, f) : u[c])
  <2>1. i \in U <=> i \in A \/ \E c \in U : <<i, c>> \in E
    BY <1>1 DEF Marked
  <2>2. ASSUME NEW c \in U, <<i, c>> \in E
        PROVE  \E f \in Walked(nodes[i].kind) : \E d \in Child(i, f) : u[d]
    <3>1. PICK f \in Walked(nodes[i].kind) : c \in Child(i, f)
      BY <2>2
    <3> QED BY <1>1, <1>2, <3>1
  <2>3. ASSUME NEW f \in Walked(nodes[i].kind), NEW c \in Child(i, f), u[c]
        PROVE  \E d \in U : <<i, d>> \in E
    <3>1. c \in DOMAIN nodes
      BY DEF Child
    <3>2. c \in U
      BY <1>2, <2>3, <3>1
    <3> HIDE DEF A, E
    <3>3. <<i, c>>[1] = i /\ <<i, c>>[2] = c
      OBVIOUS
    <3>4. <<i, c>> \in (DOMAIN nodes) \X (DOMAIN nodes)
      BY <3>1
    <3>5. <<i, c>> \in E
      BY <3>3, <3>4, Zenon DEF E
    <3> QED BY <3>2, <3>5
  <2>4. (i \in U) <=> \/ nodes[i].kind = "address"
                      \/ \E f \in Walked(nodes[i].kind) : \E c \in Child(i, f) : u[c]
    <3> HIDE DEF E
    <3> QED BY <2>1, <2>2, <2>3
  <2>5. (i \in U) \in BOOLEAN
    BY SMT
  <2>6. (\/ nodes[i].kind = "address"
         \/ \E f \in Walked(nodes[i].kind) : \E c \in Child(i, f) : u[c]) \in BOOLEAN
    BY SMT
  <2> QED BY <2>4, <2>5, <2>6, SameTruth, Zenon
<1>5. UsesIs(u)
  BY <1>3, <1>4, Zenon DEF UsesIs
<1> DEFINE g == CHOOSE h : UsesIs(h)
<1>6. UsesIs(g)
  BY <1>5
<1>7. UsesAddr <=> \E i \in Child(0, "body") : g[i]
  BY DEF UsesAddr, UsesIs
<1> HIDE DEF g
<1>8. \A i \in DOMAIN nodes :
         g[i] <=> \/ nodes[i].kind = "address"
                  \/ \E f \in Walked(nodes[i].kind) : \E c \in Child(i, f) : g[c]
  BY <1>6, Zenon DEF UsesIs
<1> QED BY <1>7, <1>8

LEMMA HasSolved ==
    \E g : /\ \A i \in DOMAIN nodes :
                g[i] <=> \/ nodes[i].kind = "var" /\ nodes[i].size >= STACK_PROTECTOR_ARRAY_THRESHOLD
                         \/ \E f \in BodiesOf(nodes[i].kind) : \E c \in Child(i, f) : g[c]
           /\ HasBigArray <=> \E i \in Child(0, "body") : g[i]
<1> DEFINE A == {i \in DOMAIN nodes : nodes[i].kind = "var" /\ nodes[i].size >= STACK_PROTECTOR_ARRAY_THRESHOLD}
           E == {e \in (DOMAIN nodes) \X (DOMAIN nodes) :
                    \E f \in BodiesOf(nodes[e[1]].kind) : e[2] \in Child(e[1], f)}
<1>1. PICK U \in SUBSET DOMAIN nodes : Marked(U, DOMAIN nodes, A, E)
  BY Marking
<1> DEFINE u == [i \in DOMAIN nodes |-> i \in U]
<1>2. \A c \in DOMAIN nodes : u[c] <=> c \in U
  OBVIOUS
<1>3. u = [i \in DOMAIN nodes |-> i \in U]
  OBVIOUS
<1> HIDE DEF u
<1>4. ASSUME NEW i \in DOMAIN nodes
      PROVE  (i \in U) = (\/ nodes[i].kind = "var" /\ nodes[i].size >= STACK_PROTECTOR_ARRAY_THRESHOLD
                          \/ \E f \in BodiesOf(nodes[i].kind) : \E c \in Child(i, f) : u[c])
  <2>1. i \in U <=> i \in A \/ \E c \in U : <<i, c>> \in E
    BY <1>1 DEF Marked
  <2>2. ASSUME NEW c \in U, <<i, c>> \in E
        PROVE  \E f \in BodiesOf(nodes[i].kind) : \E d \in Child(i, f) : u[d]
    <3>1. PICK f \in BodiesOf(nodes[i].kind) : c \in Child(i, f)
      BY <2>2
    <3> QED BY <1>1, <1>2, <3>1
  <2>3. ASSUME NEW f \in BodiesOf(nodes[i].kind), NEW c \in Child(i, f), u[c]
        PROVE  \E d \in U : <<i, d>> \in E
    <3>1. c \in DOMAIN nodes
      BY DEF Child
    <3>2. c \in U
      BY <1>2, <2>3, <3>1
    <3> HIDE DEF A, E
    <3>3. <<i, c>>[1] = i /\ <<i, c>>[2] = c
      OBVIOUS
    <3>4. <<i, c>> \in (DOMAIN nodes) \X (DOMAIN nodes)
      BY <3>1
    <3>5. <<i, c>> \in E
      BY <3>3, <3>4, Zenon DEF E
    <3> QED BY <3>2, <3>5
  <2>4. (i \in U) <=> \/ nodes[i].kind = "var" /\ nodes[i].size >= STACK_PROTECTOR_ARRAY_THRESHOLD
                      \/ \E f \in BodiesOf(nodes[i].kind) : \E c \in Child(i, f) : u[c]
    <3> HIDE DEF E
    <3> QED BY <2>1, <2>2, <2>3
  <2>5. (i \in U) \in BOOLEAN
    BY SMT
  <2>6. (\/ nodes[i].kind = "var" /\ nodes[i].size >= STACK_PROTECTOR_ARRAY_THRESHOLD
         \/ \E f \in BodiesOf(nodes[i].kind) : \E c \in Child(i, f) : u[c]) \in BOOLEAN
    BY SMT
  <2> QED BY <2>4, <2>5, <2>6, SameTruth, Zenon
<1>5. HasIs(u)
  BY <1>3, <1>4, Zenon DEF HasIs
<1> DEFINE g == CHOOSE h : HasIs(h)
<1>6. HasIs(g)
  BY <1>5
<1>7. HasBigArray <=> \E i \in Child(0, "body") : g[i]
  BY DEF HasBigArray, HasIs
<1> HIDE DEF g
<1>8. \A i \in DOMAIN nodes :
         g[i] <=> \/ nodes[i].kind = "var" /\ nodes[i].size >= STACK_PROTECTOR_ARRAY_THRESHOLD
                  \/ \E f \in BodiesOf(nodes[i].kind) : \E c \in Child(i, f) : g[c]
  BY <1>6, Zenon DEF HasIs
<1> QED BY <1>7, <1>8

-----------------------------------------------------------------------------
(***************************************************************************)
(* The tree.                                                               *)
(***************************************************************************)
LEMMA Kinds ==
    /\ Exprs = {"address", "unary", "binary", "call", "method_call", "index", "member",
                "conditional", "cast", "container_of"}
    /\ Stmts = {"var", "assign", "expr_stmt", "return", "if", "while", "do_while", "for", "simple"}
    /\ DOMAIN Bodies = {"if", "while", "do_while", "for"}
    /\ ExprFields["call"] = {"func", "args", "kwargs"}
BY DEF Exprs, Stmts, Bodies, ExprFields, StmtFields

\* Where a node may stand: a statement at the top or in a body of a statement,
\* an expression in a field of any node.
Placed(i) ==
    LET k == nodes[i].kind
        p == nodes[i].parent
    IN  /\ k \in Exprs \cup Stmts
        /\ p \in Nat /\ p < i
        /\ p = 0 => k \in Stmts /\ nodes[i].field = "body"
        /\ p # 0 => \/ k \in Stmts /\ nodes[i].field \in BodiesOf(nodes[p].kind)
                    \/ k \in Exprs /\ nodes[i].field \in Fields(nodes[p].kind)
        /\ nodes[i].size \in Nat /\ (k # "var" => nodes[i].size = 0)

FieldNames == {"body"} \cup UNION {Fields(k) \cup BodiesOf(k) : k \in Exprs \cup Stmts}
NodeRecs == [kind : Exprs \cup Stmts, size : Nat, parent : Nat, field : FieldNames]

IInv ==
    /\ func \in Functions
    /\ nodes \in Seq(NodeRecs) /\ \A i \in DOMAIN nodes : Placed(i)
    /\ needs_canary \in {"unknown", "yes", "no"}
    /\ LET found == /\ ~ \E n \in STACK_PROTECTOR_SKIP : Written = <<n>>
                    /\ HasBigArray \/ UsesAddr
       IN  (needs_canary = "yes" => found) /\ (needs_canary = "no" => ~found)

LEMMA Initially == Init => IInv
BY DEF Init, IInv

\* The body does not change any more once the decision is made.
LEMMA SameDecision ==
    ASSUME UNCHANGED <<func, nodes>>
    PROVE  UsesAddr' = UsesAddr /\ HasBigArray' = HasBigArray /\ Written' = Written
BY DEF UsesAddr, HasBigArray, Written, Child

LEMMA Grows ==
    ASSUME IInv, NEW kind \in Exprs \cup Stmts, NEW size \in Nat, NEW parent \in 0 .. Len(nodes),
           NEW field \in FieldNames, Grow(kind, size, parent, field),
           kind # "var" => size = 0,
           parent = 0 => kind \in Stmts /\ field = "body",
           parent # 0 => \/ kind \in Stmts /\ field \in BodiesOf(nodes[parent].kind)
                         \/ kind \in Exprs /\ field \in Fields(nodes[parent].kind)
    PROVE  IInv'
<1> DEFINE node == [kind |-> kind, size |-> size, parent |-> parent, field |-> field]
<1>1. nodes' = Append(nodes, node) /\ UNCHANGED <<func, needs_canary>> /\ needs_canary = "unknown"
  BY DEF Grow
<1>2. nodes \in Seq(NodeRecs) /\ (\A i \in DOMAIN nodes : Placed(i)) /\ func \in Functions
  BY DEF IInv
<1>3. node \in NodeRecs /\ node.kind = kind /\ node.size = size /\ node.parent = parent
      /\ node.field = field
  BY DEF NodeRecs
<1> HIDE DEF node
<1>4. /\ nodes' \in Seq(NodeRecs) /\ Len(nodes) \in Nat /\ DOMAIN nodes = 1 .. Len(nodes)
      /\ DOMAIN nodes' = 1 .. Len(nodes) + 1 /\ nodes'[Len(nodes) + 1] = node
      /\ \A i \in 1 .. Len(nodes) : nodes'[i] = nodes[i]
  BY <1>1, <1>2, <1>3, LenProperties
<1>5. ASSUME NEW i \in DOMAIN nodes' PROVE Placed(i)'
  <2>1. CASE i = Len(nodes) + 1
    <3>1. /\ nodes'[i] = node /\ parent \in Nat /\ parent < i
          /\ parent # 0 => nodes'[parent] = nodes[parent]
      BY <1>4, <2>1
    <3> QED BY <1>3, <3>1 DEF Placed
  <2>2. CASE i # Len(nodes) + 1
    <3>1. i \in DOMAIN nodes /\ nodes'[i] = nodes[i] /\ Placed(i)
      BY <1>2, <1>4, <2>2
    <3>2. nodes[i].parent \in Nat /\ nodes[i].parent < i
      BY <3>1 DEF Placed
    <3>3. nodes[i].parent # 0 => nodes'[nodes[i].parent] = nodes[nodes[i].parent]
      BY <1>4, <3>1, <3>2
    <3> QED BY <3>1, <3>3 DEF Placed
  <2> QED BY <2>1, <2>2
<1> QED BY <1>1, <1>2, <1>4, <1>5 DEF IInv

LEMMA Steps == IInv /\ [Next]_vars => IInv'
<1> SUFFICES ASSUME IInv, [Next]_vars PROVE IInv'
  OBVIOUS
<1>1. Len(nodes) \in Nat /\ DOMAIN nodes = 1 .. Len(nodes)
      /\ \A i \in DOMAIN nodes : nodes[i].kind \in Exprs \cup Stmts
  BY LenProperties DEF IInv, Placed
<1>2. ASSUME NEW kind \in Stmts, NEW size \in ArraySizes \cup {0}, NEW i \in 0 .. Len(nodes),
             GrowStmt(kind, size, i)
      PROVE  IInv'
  <2>1. size \in Nat /\ (kind # "var" => size = 0)
    BY <1>2, ScanAssumption DEF GrowStmt
  <2>2. CASE i = 0
    <3>1. Grow(kind, size, 0, "body") /\ 0 \in 0 .. Len(nodes) /\ "body" \in FieldNames
      BY <1>1, <1>2, <2>2 DEF GrowStmt, FieldNames
    <3> QED BY <2>1, <3>1, Grows
  <2>3. CASE i # 0
    <3>1. PICK field \in BodiesOf(nodes[i].kind) : Grow(kind, size, i, field)
      BY <1>2, <2>3 DEF GrowStmt
    <3>2. i \in DOMAIN nodes
      BY <1>1, <2>3
    <3>3. field \in FieldNames
      BY <1>1, <3>1, <3>2 DEF FieldNames
    <3> QED BY <2>1, <2>3, <3>1, <3>3, Grows
  <2> QED BY <2>2, <2>3
<1>3. ASSUME NEW kind \in Exprs, NEW i \in DOMAIN nodes, GrowExpr(kind, i) PROVE IInv'
  <2>1. PICK field \in Fields(nodes[i].kind) : Grow(kind, 0, i, field)
    BY <1>3 DEF GrowExpr
  <2>2. field \in FieldNames /\ i \in 0 .. Len(nodes) /\ i # 0
    BY <1>1, <2>1 DEF FieldNames
  <2> QED BY <2>1, <2>2, Grows
<1>4. CASE Decide
  <2>1. UNCHANGED <<func, nodes>>
    BY <1>4 DEF Decide
  <2>2. (\A i \in DOMAIN nodes : Placed(i))'
    BY <2>1 DEF IInv, Placed
  <2> QED BY <1>4, <2>1, <2>2, SameDecision DEF IInv, Decide
<1>5. CASE UNCHANGED vars
  <2>1. UNCHANGED <<func, nodes>> /\ UNCHANGED needs_canary
    BY <1>5 DEF vars
  <2>2. (\A i \in DOMAIN nodes : Placed(i))'
    BY <2>1 DEF IInv, Placed
  <2> QED BY <2>1, <2>2, SameDecision DEF IInv
<1> QED BY <1>2, <1>3, <1>4, <1>5 DEF Next

LEMMA Invariance == Spec => []IInv
BY Initially, Steps, PTL DEF Spec

-----------------------------------------------------------------------------
\* The name the code compares is the one the function was written with.
LEMMA WrittenAs ==
    ASSUME func \in Functions
    PROVE  Skipped <=> \E n \in STACK_PROTECTOR_SKIP : Written = <<n>>
<1>1. CASE func = Plain(func.name[1])
  <2>1. PICK n : func.name = <<n>> /\ func.orig_name = <<>>
    BY <1>1 DEF Plain
  <2>2. Written = <<n>> /\ func.name[Len(func.name)] = n
    BY <2>1 DEF Written
  <2> QED BY <2>2 DEF Skipped
<1>2. CASE func = Prefixed(func.name[1], func.name[2])
  <2>1. PICK p, n : func.name = <<p, n>> /\ func.orig_name = <<n>>
    BY <1>2 DEF Prefixed
  <2>2. Written = <<n>> /\ func.name[Len(func.name)] = n
    BY <2>1 DEF Written
  <2> QED BY <2>2 DEF Skipped
<1> QED BY <1>1, <1>2, FunctionsAssumption

\* Of a set of nodes that is not empty, one is the first and one the last.
LEMMA FirstLast ==
    ASSUME nodes \in Seq(NodeRecs), NEW S \in SUBSET DOMAIN nodes, S # {}
    PROVE  /\ \E i \in S : \A j \in S : ~(j < i)
           /\ \E i \in S : \A j \in S : ~(j > i)
<1>1. Len(nodes) \in Nat /\ DOMAIN nodes = 1 .. Len(nodes)
  BY LenProperties
<1>2. \E i \in S : \A j \in S : ~(j < i)
  BY <1>1, LeastNat
<1>3. \E i \in S : \A j \in S : ~(j > i)
  <2> DEFINE T == {k \in Nat : \E i \in S : k = Len(nodes) - i}
  <2>1. T # {} /\ T \subseteq Nat
    <3>1. PICK i \in S : TRUE
      OBVIOUS
    <3>2. Len(nodes) - i \in T
      BY <1>1
    <3> QED BY <3>2
  <2>2. PICK k \in T : \A l \in T : ~(l < k)
    BY <2>1, LeastNat
  <2>3. PICK i \in S : k = Len(nodes) - i
    BY <2>2
  <2>4. ASSUME NEW j \in S, j > i PROVE FALSE
    <3>1. Len(nodes) - j \in T /\ Len(nodes) - j < k
      BY <1>1, <2>3, <2>4
    <3> QED BY <2>2, <3>1
  <2> QED BY <2>4
<1> QED BY <1>2, <1>3

\* A function that must not get a canary never gets one, and no other gets
\* one without cause (_function_needs_canary), whatever its body.
THEOREM NoneUncalledFor == Spec => []NoCanaryUncalledFor
<1>1. IInv => NoCanaryUncalledFor
  <2> SUFFICES ASSUME IInv, needs_canary = "yes"
               PROVE  /\ ~Skipped
                      /\ \E i \in DOMAIN nodes : \/ nodes[i].kind = "address"
                                                 \/ nodes[i].size >= STACK_PROTECTOR_ARRAY_THRESHOLD
    BY DEF NoCanaryUncalledFor
  <2>1. /\ func \in Functions /\ nodes \in Seq(NodeRecs)
        /\ ~ \E n \in STACK_PROTECTOR_SKIP : Written = <<n>>
        /\ HasBigArray \/ UsesAddr
        /\ \A i \in DOMAIN nodes : \A f : \A c \in Child(i, f) : c \in DOMAIN nodes /\ i < c
    BY DEF IInv, Placed, Child
  <2>2. ~Skipped
    BY <2>1, WrittenAs
  <2>3. ASSUME UsesAddr PROVE \E i \in DOMAIN nodes : nodes[i].kind = "address"
    <3>1. PICK g :
             /\ \A i \in DOMAIN nodes :
                   g[i] <=> \/ nodes[i].kind = "address"
                            \/ \E f \in Walked(nodes[i].kind) : \E c \in Child(i, f) : g[c]
             /\ UsesAddr <=> \E i \in Child(0, "body") : g[i]
      BY UsesSolved
    <3> DEFINE S == {i \in DOMAIN nodes : g[i]}
    <3>2. S # {}
      BY <2>3, <3>1 DEF Child
    <3>3. PICK i \in S : \A j \in S : ~(j > i)
      BY <2>1, <3>2, FirstLast
    <3>4. ~ \E f \in Walked(nodes[i].kind) : \E c \in Child(i, f) : g[c]
      BY <2>1, <3>3
    <3> QED BY <3>1, <3>3, <3>4
  <2>4. ASSUME HasBigArray
        PROVE  \E i \in DOMAIN nodes : nodes[i].size >= STACK_PROTECTOR_ARRAY_THRESHOLD
    <3>1. PICK g :
             /\ \A i \in DOMAIN nodes :
                   g[i] <=> \/ nodes[i].kind = "var" /\ nodes[i].size >= STACK_PROTECTOR_ARRAY_THRESHOLD
                            \/ \E f \in BodiesOf(nodes[i].kind) : \E c \in Child(i, f) : g[c]
             /\ HasBigArray <=> \E i \in Child(0, "body") : g[i]
      BY HasSolved
    <3> DEFINE S == {i \in DOMAIN nodes : g[i]}
    <3>2. S # {}
      BY <2>4, <3>1 DEF Child
    <3>3. PICK i \in S : \A j \in S : ~(j > i)
      BY <2>1, <3>2, FirstLast
    <3>4. ~ \E f \in BodiesOf(nodes[i].kind) : \E c \in Child(i, f) : g[c]
      BY <2>1, <3>3
    <3> QED BY <3>1, <3>3, <3>4
  <2> QED BY <2>1, <2>2, <2>3, <2>4
<1> QED BY <1>1, Invariance, PTL

LEMMA UnderSolved ==
    ASSUME IInv
    PROVE  \E g : /\ \A j \in DOMAIN nodes : g[j] <=> g[nodes[j].parent] \/ InCall(j)
                  /\ ~g[0]
                  /\ \A j : Hidden(j) <=> g[j]
<1> DEFINE D == DOMAIN nodes
           A == {j \in D : InCall(j)}
           E == {e \in D \X D : e[2] = nodes[e[1]].parent}
<1>1. /\ Len(nodes) \in Nat /\ D = 1 .. Len(nodes)
      /\ \A j \in D : nodes[j].parent = 0 \/ nodes[j].parent \in D
  <2>1. nodes \in Seq(NodeRecs) /\ Len(nodes) \in Nat /\ D = 1 .. Len(nodes)
    BY LenProperties DEF IInv
  <2>2. ASSUME NEW j \in D PROVE nodes[j].parent = 0 \/ nodes[j].parent \in D
    BY <2>1, <2>2 DEF IInv, Placed
  <2> QED BY <2>1, <2>2
<1> HIDE DEF D
<1>2. PICK U \in SUBSET D : Marked(U, D, A, E)
  BY Marking
<1> DEFINE u == [j \in 0 .. Len(nodes) |-> j \in U]
<1>3. (\A j \in D : u[j] <=> j \in U) /\ ~u[0]
  <2>1. (\A j \in D : j \in 0 .. Len(nodes)) /\ 0 \in 0 .. Len(nodes) /\ 0 \notin U
    BY <1>1, <1>2
  <2> HIDE DEF A, E
  <2> QED BY <2>1
<1>4. u = [j \in 0 .. Len(nodes) |-> j \in U]
  OBVIOUS
<1> HIDE DEF u
<1>5. ASSUME NEW j \in 0 .. Len(nodes)
      PROVE  (j \in U) = (IF j = 0 THEN FALSE ELSE u[nodes[j].parent] \/ InCall(j))
  <2>1. (j \in U) <=> (IF j = 0 THEN FALSE ELSE u[nodes[j].parent] \/ InCall(j))
    <3>1. CASE j = 0
      BY <1>1, <1>2, <3>1
    <3>2. CASE j # 0
      <4>1. j \in D
        BY <1>1, <3>2
      <4>2. j \in U <=> InCall(j) \/ \E c \in U : <<j, c>> \in E
        BY <1>2, <4>1 DEF Marked
      <4> DEFINE p == nodes[j].parent
      <4>3. (\E c \in U : <<j, c>> \in E) <=> p \in U
        <5>1. ASSUME NEW c \in U, <<j, c>> \in E PROVE c = p
          BY <5>1
        <5>2. ASSUME p \in U PROVE <<j, p>> \in E
          BY <1>2, <4>1, <5>2
        <5> HIDE DEF E, p
        <5> QED BY <5>1, <5>2
      <4>4. p \in U <=> u[p]
        <5>1. CASE p = 0
          BY <1>1, <1>2, <1>3, <5>1
        <5>2. CASE p \in D
          BY <1>3, <5>2
        <5> QED BY <1>1, <4>1, <5>1, <5>2
      <4> HIDE DEF E
      <4> QED BY <3>2, <4>2, <4>3, <4>4
    <3> QED BY <3>1, <3>2
  <2>2. (j \in U) \in BOOLEAN
    BY SMT
  <2>3. (u[nodes[j].parent] \/ InCall(j)) \in BOOLEAN
    BY SMT
  <2>4. (IF j = 0 THEN FALSE ELSE u[nodes[j].parent] \/ InCall(j)) \in BOOLEAN
    BY <2>3
  <2> QED BY <2>1, <2>2, <2>4, SameTruth, Zenon
<1>6. UnderIs(u)
  BY <1>4, <1>5, Zenon DEF UnderIs
<1> DEFINE g == CHOOSE h : UnderIs(h)
<1>7. UnderIs(g)
  BY <1>6
<1>8. \A j : Hidden(j) <=> g[j]
  BY DEF Hidden, UnderIs, InCall
<1> HIDE DEF g
<1>9. \A j \in 0 .. Len(nodes) :
         g[j] <=> IF j = 0 THEN FALSE ELSE g[nodes[j].parent] \/ InCall(j)
  BY <1>7, Zenon DEF UnderIs
<1>10. (\A j \in DOMAIN nodes : j \in 0 .. Len(nodes) /\ j # 0) /\ 0 \in 0 .. Len(nodes)
  BY <1>1 DEF D
<1>11. (\A j \in DOMAIN nodes : g[j] <=> g[nodes[j].parent] \/ InCall(j)) /\ ~g[0]
  BY <1>9, <1>10
<1> QED BY <1>8, <1>11

\* A function without a canary has no array of the threshold length, and takes
\* no address but where the walk does not go (_function_needs_canary), however
\* deep its statements and operands are nested.
THEOREM ExposedProtected == Spec => []ExposedAreProtected
<1>1. IInv => ExposedAreProtected
  <2> SUFFICES ASSUME IInv, needs_canary = "no", ~Skipped, NEW i \in DOMAIN nodes
               PROVE  /\ nodes[i].size < STACK_PROTECTOR_ARRAY_THRESHOLD
                      /\ nodes[i].kind = "address" => Hidden(i)
    BY DEF ExposedAreProtected
  <2>1. /\ func \in Functions /\ nodes \in Seq(NodeRecs)
        /\ \A j \in DOMAIN nodes : Placed(j)
        /\ Len(nodes) \in Nat /\ DOMAIN nodes = 1 .. Len(nodes)
    BY LenProperties DEF IInv
  <2>2. ~HasBigArray /\ ~UsesAddr
    BY <2>1, WrittenAs DEF IInv
  <2>3. Stmts \cap Exprs = {} /\ DOMAIN Bodies \subseteq Stmts
    BY Kinds
  \* The node above a node, and the field the node stands in.
  <2>4. ASSUME NEW j \in DOMAIN nodes, nodes[j].parent # 0
        PROVE  /\ nodes[j].parent \in DOMAIN nodes /\ nodes[j].parent < j
               /\ j \in Child(nodes[j].parent, nodes[j].field)
    BY <2>1, <2>4 DEF Placed, Child
  <2>5. ASSUME NEW j \in DOMAIN nodes, nodes[j].parent = 0
        PROVE  j \in Child(0, "body")
    BY <2>1, <2>5 DEF Placed, Child
  <2>6. ASSUME ~(nodes[i].size < STACK_PROTECTOR_ARRAY_THRESHOLD) PROVE FALSE
    <3>1. PICK g :
             /\ \A j \in DOMAIN nodes :
                   g[j] <=> \/ nodes[j].kind = "var" /\ nodes[j].size >= STACK_PROTECTOR_ARRAY_THRESHOLD
                            \/ \E f \in BodiesOf(nodes[j].kind) : \E c \in Child(j, f) : g[c]
             /\ HasBigArray <=> \E j \in Child(0, "body") : g[j]
      BY HasSolved
    <3>2. /\ nodes[i].kind = "var" /\ nodes[i].size >= STACK_PROTECTOR_ARRAY_THRESHOLD
          /\ nodes[i].kind \in Stmts
      BY <2>1, <2>6, ScanAssumption, Kinds DEF Placed
    <3> DEFINE S == {j \in DOMAIN nodes : g[j] /\ nodes[j].kind \in Stmts}
    <3>3. S # {}
      BY <3>1, <3>2
    <3>4. PICK j \in S : \A k \in S : ~(k < j)
      BY <2>1, <3>3, FirstLast
    <3>5. nodes[j].parent # 0
      BY <2>2, <2>5, <3>1, <3>4
    <3>6. nodes[j].field \in BodiesOf(nodes[nodes[j].parent].kind)
      BY <2>1, <2>3, <3>4, <3>5 DEF Placed
    <3>7. nodes[nodes[j].parent].kind \in Stmts
      BY <2>3, <3>6 DEF BodiesOf
    <3>8. nodes[j].parent \in S
      BY <2>4, <3>1, <3>4, <3>5, <3>6, <3>7
    <3> QED BY <2>4, <3>4, <3>5, <3>8
  <2>7. ASSUME nodes[i].kind = "address", ~Hidden(i) PROVE FALSE
    <3>1. PICK g :
             /\ \A j \in DOMAIN nodes :
                   g[j] <=> \/ nodes[j].kind = "address"
                            \/ \E f \in Walked(nodes[j].kind) : \E c \in Child(j, f) : g[c]
             /\ UsesAddr <=> \E j \in Child(0, "body") : g[j]
      BY UsesSolved
    <3>2. PICK h : /\ \A j \in DOMAIN nodes : h[j] <=> h[nodes[j].parent] \/ InCall(j)
                   /\ ~h[0]
                   /\ \A j : Hidden(j) <=> h[j]
      BY UnderSolved
    <3> DEFINE S == {j \in DOMAIN nodes : g[j] /\ ~h[j]}
    <3>3. S # {}
      BY <2>7, <3>1, <3>2
    <3>4. PICK j \in S : \A k \in S : ~(k < j)
      BY <2>1, <3>3, FirstLast
    <3>5. nodes[j].parent # 0
      BY <2>2, <2>5, <3>1, <3>4
    <3> DEFINE p == nodes[j].parent
               k == nodes[p].kind
    <3>6. p \in DOMAIN nodes /\ p < j /\ j \in Child(p, nodes[j].field)
      BY <2>4, <3>4, <3>5
    <3>7. ~h[p] /\ ~InCall(j)
      BY <3>2, <3>4
    <3>8. nodes[j].field \in Walked(k)
      <4>1. nodes[j].field \in Fields(k) \cup BodiesOf(k)
        BY <2>1, <3>4, <3>5 DEF Placed
      <4>2. k # "method_call" /\ ~(k = "call" /\ nodes[j].field = "func")
        BY <3>5, <3>7 DEF InCall
      <4>3. CASE k = "call"
        <5>1. Fields("call") = {"func", "args", "kwargs"} /\ BodiesOf("call") = {}
          BY Kinds DEF Fields, BodiesOf
        <5> QED BY <4>1, <4>2, <4>3, <5>1 DEF Walked
      <4>4. CASE k # "call"
        BY <4>1, <4>2, <4>4 DEF Walked
      <4> QED BY <4>3, <4>4
    <3>9. g[p]
      BY <3>1, <3>4, <3>6, <3>8
    <3> QED BY <3>4, <3>6, <3>7, <3>9
  <2> QED BY <2>6, <2>7
<1> QED BY <1>1, Invariance, PTL
===============================================================================
