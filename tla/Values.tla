-------------------------------- MODULE Values --------------------------------
(***************************************************************************)
(* Integers at run time (compiler/codegen_x86.py): an expression is        *)
(* computed in whole registers, whatever the types of its operands;        *)
(* variables narrower than a word are stored and loaded by their size; and *)
(* the types the compiler can tell choose between the signed and the       *)
(* unsigned form of an instruction.                                        *)
(*                                                                         *)
(* Beside the bits the machine has, each operand and the variable carry    *)
(* the integer the program means, and how many of their low bits are bound *)
(* to be right: 0 where the language leaves the result open, and no more   *)
(* than a type has where the code lets junk stay above it.  Words are      *)
(* scaled down from 64 bits to WordBits, the narrow types (8, 16 and 32    *)
(* bits) to NarrowBits.                                                    *)
(***************************************************************************)
EXTENDS Integers, Sequences, FiniteSetsExt, Bitwise

CONSTANTS
    WordBits, NarrowBits,
    IntLiterals,    \* the integers that are written out
    Initials,       \* what a variable may hold at first
    MaxNodes        \* bound on the literals, reads, calls, unary operators and casts

ASSUME BitsAssumption == WordBits \in Nat /\ NarrowBits \in 1 .. WordBits - 1
ASSUME NodesAssumption == /\ IntLiterals \subseteq 0 .. 2^WordBits - 1
                           /\ Initials \subseteq Int /\ MaxNodes \in Nat

VARIABLES
    var,        \* a variable: its type, its home, its word, and what it means
    stack,      \* the operands evaluated, the last one in %rax
    nodes,      \* how many of those there were
    outcome     \* "": going on; stopped: trapped, rightly; or trapped

vars == <<var, stack, nodes, outcome>>

-----------------------------------------------------------------------------
IntTypes == [bits : {NarrowBits, WordBits}, signed : BOOLEAN]
Untyped == [bits |-> 0, signed |-> FALSE]   \* get_expr_type returns None
Known(t) == t # Untyped
KnownSigned(t) == Known(t) /\ t.signed
KnownUnsigned(t) == Known(t) /\ ~t.signed

\* A local, a global, and what is reached by an address or %gs: (an element
\* or a field, for example).
Homes == {"local", "global", "cell"}

Low(bits, n) == n % 2^bits              \* two's complement
Signed(bits, b) == IF b >= 2^(bits - 1) THEN b - 2^bits ELSE b
Number(bits, signed, reg) == IF signed THEN Signed(bits, Low(bits, reg)) ELSE Low(bits, reg)
Wrapped(t, n) == Number(t.bits, t.signed, n)    \* the value a type keeps of an integer
Holds(t) == IF t.signed THEN -(2^(t.bits - 1)) .. 2^(t.bits - 1) - 1 ELSE 0 .. 2^t.bits - 1

Word(n) == Low(WordBits, n)
SignedWords == Holds([bits |-> WordBits, signed |-> TRUE])
UnsignedWords == Holds([bits |-> WordBits, signed |-> FALSE])

Operand(reg, type, means, good) ==
    [reg |-> Word(reg), type |-> type, means |-> IF good = 0 THEN 0 ELSE means, good |-> good]

(***************************************************************************)
(* Loads and stores.                                                       *)
(***************************************************************************)
\* emit_load_sized, and the load from %gs:.
LoadZero(t, word) == Low(t.bits, word)

\* A slip: a local is loaded like everything else.
LoadLocalZero(t, word) == Low(t.bits, word)
\* _emit_local_load.
LoadLocal(t, word) == Word(Number(t.bits, t.signed, word))

\* emit_store_sized, _emit_local_store: the rest of the word stays.
StoreSized(t, word, reg) == (word - Low(t.bits, word)) + Low(t.bits, reg)

Init ==
    /\ \E t \in IntTypes : \E home \in Homes : \E n \in Holds(t) \cap Initials :
          var = [type |-> t, home |-> home, word |-> Word(n), means |-> n, good |-> WordBits]
    /\ stack = <<>> /\ nodes = 0 /\ outcome = ""

Leaf(o) == /\ outcome = "" /\ nodes < MaxNodes /\ Len(stack) < 2
           /\ stack' = Append(stack, o)
           /\ nodes' = nodes + 1
           /\ UNCHANGED <<var, outcome>>

Literal == \E n \in IntLiterals : Leaf(Operand(n, Untyped, n, WordBits))

\* What is right of a value of the variable's type after a load that extends
\* it, or not.
Extended(rightly) == IF var.good < var.type.bits THEN var.good
                     ELSE IF rightly THEN WordBits ELSE var.type.bits

\* gen_identifier: a global is read as a word whatever its type.
ReadLocal ==
    /\ var.home = "local"
    /\ Leaf(Operand(LoadLocal(var.type, var.word), var.type, var.means, Extended(TRUE)))
ReadGlobal == /\ var.home = "global"
              /\ Leaf(Operand(var.word, var.type, var.means, var.good))

\* gen_index_load, gen_member_load, a dereference: never sign-extended.  A
\* local and a global can be read in this way, too, through a pointer.
ReadCell == Leaf(Operand(LoadZero(var.type, var.word), var.type, var.means, Extended(var.means >= 0)))

\* A call of a function of a narrow type: neither "return" nor the ABI says
\* what is in the rest of the register.
Call == \E t \in {u \in IntTypes : u.bits = NarrowBits} : \E n \in Holds(t) :
            \E reg \in {r \in UnsignedWords : Low(NarrowBits, r) = Low(NarrowBits, n)} :
                Leaf(Operand(reg, t, n, NarrowBits))

\* gen_assignment, VarDecl, the spills of parameters.
Top == stack[Len(stack)]
Sized == Min({Top.good, var.type.bits})
Store(word, good) ==
    /\ outcome = "" /\ Len(stack) = 1
    /\ var' = [var EXCEPT !.word = word, !.good = good,
                          !.means = IF good = 0 THEN 0 ELSE Wrapped(var.type, Top.means)]
    /\ stack' = <<>>
    /\ UNCHANGED <<nodes, outcome>>

StoreLocal == /\ stack # <<>> /\ var.home = "local"
              /\ Store(StoreSized(var.type, var.word, Top.reg), Sized)

\* The whole word: what does not fit the type is kept there, too.
StoreGlobal == /\ stack # <<>> /\ var.home = "global"
               /\ Store(Top.reg, IF Top.means \in Holds(var.type) THEN Top.good ELSE Sized)

\* Through an address.  Above it the word stays, which suits a new value
\* only if neither is negative.
StoreCell ==
    /\ stack # <<>>
    /\ Store(StoreSized(var.type, var.word, Top.reg),
             IF /\ Sized = var.type.bits /\ var.good = WordBits
                /\ var.means >= 0 /\ Wrapped(var.type, Top.means) >= 0
               THEN WordBits ELSE Sized)

(***************************************************************************)
(* Which form of an instruction: the compiler knows a type of variables,   *)
(* casts and calls, and of nothing that is computed.                       *)
(***************************************************************************)
\* _rel_cc.  A slip: only the left operand is looked at.
RelLeft(l, r) == ~ KnownUnsigned(l)
RelSigned(l, r) == ~ (KnownUnsigned(l) \/ KnownUnsigned(r))

\* _binop_signed_op.
OpSigned(l, r) == /\ ~ (KnownUnsigned(l) \/ KnownUnsigned(r))
                  /\ KnownSigned(l) \/ KnownSigned(r)

(***************************************************************************)
(* gen_unary and gen_binary.  Sums, differences, products, bitwise         *)
(* operators and left shift are right in as many low bits as their         *)
(* operands are, in either form.                                           *)
(***************************************************************************)
Truth(b) == IF b THEN 1 ELSE 0

Computed(n, reg, means, good) ==
    /\ outcome = ""
    /\ stack' = Append(SubSeq(stack, 1, Len(stack) - n), Operand(reg, Untyped, means, good))
    /\ UNCHANGED <<var, outcome>>

Unary == /\ stack # <<>> /\ nodes < MaxNodes
         /\ nodes' = nodes + 1
         /\ \/ Computed(1, -Top.reg, -Top.means, Top.good)
            \/ Computed(1, 2^WordBits - 1 - Top.reg, -Top.means - 1, Top.good)
            \/ Computed(1, Truth(Top.reg = 0), Truth(Word(Top.means) = 0),
                        IF Top.good = WordBits THEN WordBits ELSE 0)

\* A cast changes the type and no bits: to a narrow type it means nothing
\* ("callers that care about the upper bits use explicit masks").
Cast == /\ outcome = "" /\ stack # <<>> /\ nodes < MaxNodes
        /\ nodes' = nodes + 1
        /\ \E t \in IntTypes :
              stack' = [stack EXCEPT ![Len(stack)].type = t,
                                     ![Len(stack)].means = IF t.bits = WordBits THEN Wrapped(t, @) ELSE @]
        /\ UNCHANGED <<var, outcome>>

\* gen_binary evaluates the right operand first.
Left == stack[Len(stack)]
Right == stack[Len(stack) - 1]
Both == Min({Left.good, Right.good})
Combined(reg, means, good) == Computed(2, reg, means, good) /\ UNCHANGED nodes

Add == /\ Len(stack) = 2
       /\ \/ Combined(Left.reg + Right.reg, Left.means + Right.means, Both)
          \/ Combined(Left.reg - Right.reg, Left.means - Right.means, Both)
          \/ Combined(Left.reg * Right.reg, Left.means * Right.means, Both)

Bits == /\ Len(stack) = 2
        /\ LET l == Word(Left.means)
               r == Word(Right.means)
           IN  \/ Combined(Left.reg & Right.reg, l & r, Both)
               \/ Combined(Left.reg | Right.reg, l | r, Both)
               \/ Combined(Left.reg ^^ Right.reg, l ^^ r, Both)

\* The processor takes the count modulo the width.
Count == Right.reg % WordBits
CountFits == Right.good = WordBits /\ Right.means \in 0 .. WordBits - 1
ShiftLeft == /\ Len(stack) = 2
             /\ Combined(Left.reg * 2^Count, Left.means * 2^Count, IF CountFits THEN Left.good ELSE 0)

(***************************************************************************)
(* The others depend on the form.  "If either operand is uint*, the        *)
(* codegen emits the unsigned variant; if both are signed, the signed      *)
(* variant" (LANGUAGE.md, lines 198-201): with a known type the result is  *)
(* bound to be right if both values fit a word of that signedness.         *)
(* Without one, compares are signed and the others unsigned by default.    *)
(***************************************************************************)
Fit(default) ==
    IF KnownUnsigned(Left.type) \/ KnownUnsigned(Right.type) THEN UnsignedWords
    ELSE IF KnownSigned(Left.type) \/ KnownSigned(Right.type) THEN SignedWords
    ELSE default

Within(S) == Both = WordBits /\ {Left.means, Right.means} \subseteq S
Decided(ok, reg, means) == Combined(reg, means, IF ok THEN WordBits ELSE 0)

Compare ==
    /\ Len(stack) = 2
    /\ LET signed == RelSigned(Left.type, Right.type)
           l == Number(WordBits, signed, Left.reg)
           r == Number(WordBits, signed, Right.reg)
           ok == Within(Fit(SignedWords))
       IN  \/ Decided(ok, Truth(l < r), Truth(Left.means < Right.means))
           \/ Decided(ok, Truth(l <= r), Truth(Left.means <= Right.means))

\* sete compares bits, whatever their signs; so do the tests of "and", "or".
Equal == /\ Len(stack) = 2
         /\ Decided(Within(SignedWords) \/ Within(UnsignedWords),
                    Truth(Left.reg = Right.reg), Truth(Left.means = Right.means))
Logic == /\ Len(stack) = 2
         /\ LET l == Word(Left.means) # 0
                r == Word(Right.means) # 0
            IN  \/ Decided(Both = WordBits, Truth(Left.reg # 0 /\ Right.reg # 0), Truth(l /\ r))
                \/ Decided(Both = WordBits, Truth(Left.reg # 0 \/ Right.reg # 0), Truth(l \/ r))

\* sarq and shrq.
ShiftRight ==
    /\ Len(stack) = 2
    /\ LET l == Number(WordBits, OpSigned(Left.type, Right.type), Left.reg)
       IN  Decided(Within(Fit(UnsignedWords)) /\ CountFits, l \div 2^Count, Left.means \div 2^Count)

\* idivq and divq: towards zero, and the remainder has the sign of the
\* dividend.  They trap on zero and on a quotient of more than a word.
Magnitude(a) == IF a < 0 THEN -a ELSE a
Quotient(a, b) == IF b = 0 THEN 0
                  ELSE LET q == Magnitude(a) \div Magnitude(b)
                       IN  IF (a < 0) = (b < 0) THEN q ELSE -q
Divide ==
    /\ Len(stack) = 2
    /\ LET signed == OpSigned(Left.type, Right.type)
           l == Number(WordBits, signed, Left.reg)
           r == Number(WordBits, signed, Right.reg)
           q == Quotient(l, r)
           m == Quotient(Left.means, Right.means)
           range == Fit(UnsignedWords)
           ok == Within(range) /\ Right.means # 0 /\ m \in range
       IN  IF r = 0 \/ (signed /\ q \notin SignedWords)
             THEN /\ outcome = "" /\ outcome' = IF ok THEN "trapped" ELSE "stopped"
                  /\ UNCHANGED <<var, stack, nodes>>
             ELSE \/ Decided(ok, q, m)
                  \/ Decided(ok, l - q * r, Left.means - m * Right.means)

Eval == \/ Literal \/ ReadLocal \/ ReadGlobal \/ ReadCell \/ Call
        \/ StoreLocal \/ StoreGlobal \/ StoreCell
        \/ Unary \/ Cast \/ Add \/ Bits \/ ShiftLeft
        \/ Compare \/ Equal \/ Logic \/ ShiftRight \/ Divide

EvalSpec == Init /\ [][Eval]_vars

-----------------------------------------------------------------------------
Congruent(bits, a, b) == Low(bits, a) = Low(bits, b)

\* The machine has what the program means, in as many bits as it is bound to,
\* through any mixture of widths, signs, casts, stores of one width and reads
\* of another; and a division that is defined does not trap (lines 193-201
\* of LANGUAGE.md, gen_binary, _rel_cc, _binop_signed_op, _emit_local_load).
ResultsAsMeant ==
    /\ \A i \in DOMAIN stack : Congruent(stack[i].good, stack[i].reg, stack[i].means)
    /\ Congruent(var.good, var.word, var.means)
    /\ outcome # "trapped"

\* "Reads zero-extend or sign-extend per the type's signedness" (LANGUAGE.md,
\* line 195): a variable that holds a value of its type is read as that
\* value.  It does not hold of a negative one read through an address.
ReadsExtend ==
    [][(ReadLocal \/ ReadCell) /\ var.good >= var.type.bits =>
            Congruent(WordBits, Top.reg', Wrapped(var.type, var.means))]_vars
===============================================================================
