------------------------------ MODULE ExprStack ------------------------------
(***************************************************************************)
(* The expression stack machine of compiler/codegen_x86.py: gen_expr,      *)
(* gen_binary, gen_index_address, the member and index stores of           *)
(* gen_assignment, gen_call, gen_method_call and gen_io_intrinsic.         *)
(*                                                                         *)
(* Every expression leaves its value in %rax and nothing on the stack;     *)
(* operands that must survive the evaluation of another one are pushed.    *)
(* The instructions are executed here as they are emitted: an entry of     *)
(* work is a gen_* call that is waiting for an operand, and what that      *)
(* operand looks like is chosen freely.  Words are the values of           *)
(* expressions, an expression's value being the number it is met under, so *)
(* that a word that went to the wrong place is seen.                       *)
(***************************************************************************)
EXTENDS Integers, Sequences, SequencesExt

CONSTANTS
    ARG_REGS,   \* the argument registers, in order
    MaxArgs,    \* bound on the arguments of a call
    MaxExprs    \* bound on the expressions of a statement

ASSUME RegsAssumption == /\ ARG_REGS \in Seq(STRING) /\ IsInjective(ARG_REGS)
                         /\ Range(ARG_REGS) \cap {"rax", "r11"} = {}
ASSUME ArgsAssumption == MaxArgs \in Nat /\ MaxExprs \in Nat

VARIABLES
    mode,   \* eval: an operand is to be evaluated; value: %rax holds it;
            \* ready: all operands are where the instruction wants them
    work,   \* the gen_* calls under way, innermost last
    stack,  \* words below the frame of the function, the top last
    regs,   \* register -> word
    exprs   \* expressions met

vars == <<mode, work, stack, regs, exprs>>

Junk == 0
Regs == {"rax", "rcx", "rdx", "r11"} \cup Range(ARG_REGS)
Kinds == {"unary", "pair", "out", "ternary", "call"}

Top == work[Len(work)]
Pop(k) == SubSeq(stack, 1, Len(stack) - k)
FromTop(k) == stack[Len(stack) - k]     \* the word at 8*k(%rsp)
Junks(k) == [i \in 1 .. k |-> Junk]

-----------------------------------------------------------------------------
(* The arguments of a call: the first ones travel in ARG_REGS, the others   *)
(* in a block of stack words rounded up to 16 bytes.                        *)
NReg(f) == IF f.n < Len(ARG_REGS) THEN f.n ELSE Len(ARG_REGS)
NStk(f) == f.n - NReg(f)
WordsUnrounded(f) == NStk(f)
StackWords(f) == 2 * ((NStk(f) + 1) \div 2)
NTarget(f) == IF f.direct THEN 0 ELSE 1

\* The operands in evaluation order: the target of an indirect call, the
\* stack arguments, the register arguments.  Argument evaluated as the k-th:
Turn(f, k) == LET j == k - NTarget(f) IN
              IF j <= NStk(f) THEN NReg(f) + j ELSE j - NStk(f)

Arity(f) == CASE f.kind = "unary" -> 1
              [] f.kind = "call"  -> NTarget(f) + f.n
              [] OTHER            -> 2

\* Every operand of f has been evaluated.
Gathered(f) == Len(f.ops) = Arity(f)

-----------------------------------------------------------------------------
Init == /\ mode = "eval" /\ work = <<>> /\ stack = <<>>
        /\ regs = [r \in Regs |-> Junk]
        /\ exprs = 0

\* Expression number exprs + 1 is met, as an operand of the innermost call;
\* MaxExprs leaves room for it, its operands and those still owed to others.
Owed(calls) == FoldSeq(LAMBDA f, sum : Arity(f) - Len(f.ops) + sum, 0, calls)
Meet == /\ mode = "eval"
        /\ exprs' = exprs + 1
        /\ exprs' + Owed(work') <= MaxExprs
AsOperand == IF work = <<>> THEN <<>>
             ELSE [work EXCEPT ![Len(work)].ops = Append(@, exprs + 1)]

\* Evaluated(id, r): expression id ends with its value in %rax.  Nothing
\* later may depend on what its evaluation left in %rcx and %rdx.
Evaluated(id, r) ==
    /\ regs' = [r EXCEPT !["rax"] = id, !["rcx"] = Junk, !["rdx"] = Junk]
    /\ mode' = "value"

\* A literal or an identifier.
Leaf == /\ work' = AsOperand
        /\ Meet
        /\ Evaluated(exprs + 1, regs)
        /\ UNCHANGED stack

\* A gen_* call begins; a direct call reserves its argument block at once.
Open(kind, direct, n) ==
    LET f == [id |-> exprs + 1, kind |-> kind, direct |-> direct, n |-> n,
              ops |-> <<>>, entry |-> stack]
        reserves == kind = "call" /\ direct
    IN  /\ work' = Append(AsOperand, f)
        /\ Meet
        /\ stack' = IF reserves THEN stack \o Junks(StackWords(f)) ELSE stack
        /\ UNCHANGED <<mode, regs>>

Result == Evaluated(Top.id, regs) /\ work' = Front(work)

Operand(kind, k) == /\ mode = "value" /\ work # <<>>
                    /\ Top.kind = kind /\ Len(Top.ops) = k
                    /\ UNCHANGED exprs

\* Unary operators, casts, container_of, loads through an address, in*().
Unary == Operand("unary", 1) /\ Result /\ UNCHANGED stack

\* Binary operators (right, then left), element addresses (index, then
\* base), stores (address, then value), out*() (value, then port).
PushFirst(kind) == /\ Operand(kind, 1)
                   /\ stack' = Append(stack, regs["rax"])
                   /\ mode' = "eval"
                   /\ UNCHANGED <<work, regs>>

PopSwapped == /\ Operand("pair", 2)
              /\ regs' = [regs EXCEPT !["rcx"] = regs["rax"], !["rax"] = FromTop(0)]
              /\ stack' = Pop(1)
              /\ mode' = "ready"
              /\ UNCHANGED work

PopFirst == /\ Operand("pair", 2)
            /\ regs' = [regs EXCEPT !["rcx"] = FromTop(0)]
            /\ stack' = Pop(1)
            /\ mode' = "ready"
            /\ UNCHANGED work

PopOut == /\ Operand("out", 2)
          /\ regs' = [regs EXCEPT !["rdx"] = regs["rax"], !["rax"] = FromTop(0)]
          /\ stack' = Pop(1)
          /\ mode' = "ready"
          /\ UNCHANGED work

Combine == /\ mode = "ready" /\ Top.kind \in {"pair", "out"}
           /\ Result /\ UNCHANGED <<stack, exprs>>

\* a if c else b: one of a and b is evaluated after c.
TestTernary == /\ Operand("ternary", 1)
               /\ mode' = "eval" /\ UNCHANGED <<work, stack, regs>>
EndTernary == Operand("ternary", 2) /\ Result /\ UNCHANGED stack

(***************************************************************************)
(* gen_call                                                                *)
(***************************************************************************)
\* The function pointer is stashed above a word of padding.
StashTarget == /\ Operand("call", 1) /\ ~Top.direct
               /\ stack' = stack \o <<regs["rax"], Junk>> \o Junks(StackWords(Top))
               /\ mode' = "eval"
               /\ UNCHANGED <<work, regs>>

Argument == Turn(Top, Len(Top.ops))

IsArgument == /\ Operand("call", Len(Top.ops))
              /\ Len(Top.ops) > NTarget(Top)
              /\ mode' = "eval"
              /\ UNCHANGED <<work, regs>>

StoreStackArg == /\ IsArgument
                 /\ Argument > NReg(Top)
                 /\ stack' = [stack EXCEPT ![Len(stack) - (Argument - NReg(Top) - 1)]
                                             = regs["rax"]]

PushRegArg == /\ IsArgument
              /\ Argument <= NReg(Top)
              /\ stack' = Append(stack, regs["rax"])

\* The register arguments are popped in reverse: the i-th comes off last.
PoppedForward(i) == FromTop(i - 1)
Popped(i) == FromTop(NReg(Top) - i)

\* Pop them and fetch the target.
LoadArgs ==
    LET k == NReg(Top) IN
        /\ mode = "eval" /\ work # <<>> /\ Top.kind = "call" /\ Gathered(Top)
        /\ regs' = [r \in Regs |->
                      CASE r \in {ARG_REGS[i] : i \in 1 .. k} ->
                                Popped(CHOOSE i \in 1 .. k : ARG_REGS[i] = r)
                        [] r = "r11" /\ ~Top.direct -> FromTop(k + StackWords(Top) + 1)
                        [] r = "rax" -> Junk
                        [] OTHER -> regs[r]]
        /\ stack' = Pop(k)
        /\ mode' = "ready"
        /\ UNCHANGED <<work, exprs>>

\* What the caller takes off the stack afterwards: block and stash.
ReclaimedWord(f) == StackWords(f) + NTarget(f)
Reclaimed(f) == StackWords(f) + 2 * NTarget(f)

\* The callee may leave anything in the caller-saved registers.
Return == /\ mode = "ready" /\ Top.kind = "call"
          /\ Evaluated(Top.id, [r \in Regs |-> Junk])
          /\ stack' = Pop(Reclaimed(Top))
          /\ work' = Front(work)
          /\ UNCHANGED exprs

\* The next statement of the function.
NextStmt == /\ mode = "value" /\ work = <<>>
            /\ mode' = "eval" /\ UNCHANGED <<work, stack, regs, exprs>>

\* A gen_* call with an operand to go asks for it.
Wants == mode = "eval" /\ (work # <<>> => ~Gathered(Top))

Next == \/ Wants /\ \/ Leaf
                    \/ \E kind \in Kinds \ {"call"} : Open(kind, FALSE, 0)
                    \/ \E direct \in BOOLEAN, n \in 0 .. MaxArgs : Open("call", direct, n)
        \/ Unary \/ PushFirst("pair") \/ PushFirst("out") \/ PopFirst \/ PopOut
        \/ Combine \/ TestTernary \/ EndTernary
        \/ StashTarget \/ StoreStackArg \/ PushRegArg \/ LoadArgs \/ Return
        \/ NextStmt

Spec == Init /\ [][Next]_vars
-----------------------------------------------------------------------------

\* When the two operands of an operator, a store or an out instruction meet,
\* each is in its own register: the first evaluated in %rcx (for out: in
\* %rax), the second in %rax (for out: in %rdx).
OperandsMeet ==
    mode = "ready" /\ Top.kind \in {"pair", "out"} =>
        LET first  == IF Top.kind = "pair" THEN "rcx" ELSE "rax"
            second == IF Top.kind = "pair" THEN "rax" ELSE "rdx"
        IN  regs[first] = Top.ops[1] /\ regs[second] = Top.ops[2]

\* The operand that is the a-th argument.
Arg(f, a) == f.ops[CHOOSE k \in NTarget(f) + 1 .. Arity(f) : Turn(f, k) = a]

\* At every call instruction each argument is where the prologue of the
\* callee looks for it (gen_function, lines 1428-1463) and %r11 holds the
\* function pointer of an indirect call, whatever calls the evaluation of
\* the arguments made in between.
ArgumentsInPlace ==
    mode = "ready" /\ Top.kind = "call" =>
        /\ \A a \in 1 .. NReg(Top) : regs[ARG_REGS[a]] = Arg(Top, a)
        /\ \A a \in NReg(Top) + 1 .. Top.n : FromTop(a - NReg(Top) - 1) = Arg(Top, a)
        /\ ~Top.direct => regs["r11"] = Top.ops[1]

\* Words the gen_* calls around the innermost one have pushed one by one.
Pending(f) == CASE f.kind \in {"pair", "out"} -> Len(f.ops) - 1
                [] f.kind = "call" /\ Len(f.ops) > NTarget(f) + NStk(f) ->
                      Len(f.ops) - (NTarget(f) + NStk(f)) - 1
                [] OTHER -> 0
PushedUpTo[i \in 0 .. Len(work)] == IF i = 0 THEN 0 ELSE PushedUpTo[i - 1] + Pending(work[i])
Pushed == PushedUpTo[Len(work) - 1]

\* A call instruction finds %rsp misaligned exactly when the calls around
\* it hold an odd number of pushed words: blocks and stashes never break
\* the alignment themselves (lines 2829-2863).  "16-byte stack alignment at
\* call boundaries" (line 16) is kept up to those pushes.
MisalignedByPushesOnly ==
    mode = "ready" /\ Top.kind = "call" => Len(stack) % 2 = Pushed % 2

\* An expression, however deep, leaves the stack as it found it.
RestoresStack == [][Len(work') < Len(work) => stack' = Top.entry]_vars
==============================================================================
