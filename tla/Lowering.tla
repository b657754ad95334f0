------------------------------- MODULE Lowering -------------------------------
(***************************************************************************)
(* Control-flow lowering of compiler/codegen_x86.py: gen_stmt, gen_if,     *)
(* gen_while, gen_do_while, gen_for_range, gen_for_array and the epilogue  *)
(* of gen_function, with the label counter, the loop stack that break and  *)
(* continue consult, and the name -> slot map that alloc_local rebinds.    *)
(*                                                                         *)
(* A behaviour compiles one function.  Which statement comes next is       *)
(* chosen freely, so that the reachable "done" states hold every function  *)
(* body of at most MaxStmts statements; src records its tokens.  A gen_*   *)
(* call that is waiting for the statements of its body is an entry of      *)
(* open.  Expressions are abstracted to the one observable instruction     *)
(* that evaluates them.                                                    *)
(***************************************************************************)
EXTENDS Integers, Sequences, SequencesExt

CONSTANTS
    Names,              \* names of locals
    Kinds,              \* the kinds of statement the function may contain
    MaxStmts,           \* bound on its statements
    AnyRedeclaration    \* may a name be declared again inside a block?

ASSUME KindsAssumption ==
    Kinds \subseteq {"eff", "decl", "assign", "read", "if", "while", "do", "for",
                     "forarr", "break", "continue", "return"}
ASSUME BoundAssumption == MaxStmts \in Nat /\ AnyRedeclaration \in BOOLEAN

VARIABLES
    needs_canary,   \* the function is protected: one shared epilogue
    phase,          \* gen, done, or rejected by a CodeGenError
    src,            \* tokens of the source statements met so far
    code,           \* instructions emitted so far
    open,           \* gen_* calls under way, innermost last
    loop_stack,     \* LoopContexts, innermost last
    label_counter,  \* labels handed out by new_label
    locals,         \* name -> slot
    nslots,         \* slots allocated
    nstmts          \* statements met, for the bound

genVars == <<needs_canary, phase, src, code, open, loop_stack, label_counter,
             locals, nslots, nstmts>>

-----------------------------------------------------------------------------
(* Instructions.  Labels are the numbers new_label appends; the shared      *)
(* epilogue label of a protected function is 0.                             *)
Epilogue == 0
Lab(l) == [op |-> "lab", lab |-> l]
Jmp(l) == [op |-> "jmp", lab |-> l]
Jz(l)  == [op |-> "jz",  lab |-> l]
Jnz(l) == [op |-> "jnz", lab |-> l]
Ret    == [op |-> "ret"]            \* leave; ret
Check  == [op |-> "check"]          \* the canary comparison

\* An instruction that the source accounts for: token Len(src) + 1 does op.
Obs(op) == [op |-> op, tok |-> Len(src) + 1]
\* ... on variable n, through the slot n is bound to when it is emitted.
On(op, n, slot) == [op |-> op, tok |-> Len(src) + 1, n |-> n, slot |-> slot]

Token(t) == src' = Append(src, t)
Emit(instrs) == code' = code \o instrs
NewLabel(k) == label_counter + k

BeginStmt == phase = "gen" /\ nstmts < MaxStmts /\ nstmts' = nstmts + 1
Generating == phase = "gen" /\ UNCHANGED nstmts

\* A slip: a name that is bound keeps its slot.
AllocFirst(names) ==
    /\ nslots' = nslots + Len(names)
    /\ locals' = [m \in DOMAIN locals \cup {names[i] : i \in DOMAIN names} |->
                     IF m \in DOMAIN locals THEN locals[m]
                       ELSE nslots + CHOOSE i \in DOMAIN names : names[i] = m]

Bindable(n) == n \in DOMAIN locals => AnyRedeclaration \/ open = <<>>

\* alloc_local, as far as names are concerned: always a new slot.
Alloc(names) ==
    /\ nslots' = nslots + Len(names)
    /\ locals' = [m \in DOMAIN locals \cup {names[i] : i \in DOMAIN names} |->
                     IF \E i \in DOMAIN names : names[i] = m
                       THEN nslots + CHOOSE i \in DOMAIN names : names[i] = m
                       ELSE locals[m]]

-----------------------------------------------------------------------------
Init == /\ needs_canary \in BOOLEAN
        /\ phase = "gen"
        /\ src = <<>> /\ code = <<>> /\ open = <<>> /\ loop_stack = <<>>
        /\ label_counter = 0
        /\ locals = [n \in {} |-> 0]
        /\ nslots = 0 /\ nstmts = 0

(***************************************************************************)
(* Statements without a body.                                              *)
(***************************************************************************)
Simple == /\ BeginStmt
          /\ UNCHANGED <<needs_canary, phase, open, loop_stack, label_counter>>

ExprStmt == /\ "eff" \in Kinds
            /\ Simple /\ Token("eff") /\ Emit(<<Obs("eff")>>)
            /\ UNCHANGED <<locals, nslots>>

VarDecl(n) == /\ "decl" \in Kinds /\ Bindable(n)
              /\ Simple /\ Token("decl")
              /\ Alloc(<<n>>)
              /\ Emit(<<On("write", n, nslots + 1)>>)

Assignment(n) == /\ "assign" \in Kinds /\ n \in DOMAIN locals
                 /\ Simple /\ Token("assign")
                 /\ Emit(<<On("write", n, locals[n])>>)
                 /\ UNCHANGED <<locals, nslots>>

ReadStmt(n) == /\ "read" \in Kinds /\ n \in DOMAIN locals
               /\ Simple /\ Token("read")
               /\ Emit(<<On("read", n, locals[n])>>)
               /\ UNCHANGED <<locals, nslots>>

\* In a protected function every return goes to the shared epilogue.
LeaveAtOnce == Ret
Leave == IF needs_canary THEN Jmp(Epilogue) ELSE Ret

ReturnStmt == /\ "return" \in Kinds
              /\ Simple /\ Token("return")
              /\ Emit(<<Obs("eff"), Leave>>)
              /\ UNCHANGED <<locals, nslots>>

\* current_loop, which break and continue consult.
OutermostLoop == Head(loop_stack)
CurrentLoop == Last(loop_stack)
StartLabel == CurrentLoop.start
ContinueLabel == CurrentLoop.cont

BreakStmt == /\ "break" \in Kinds /\ loop_stack # <<>>
             /\ Simple /\ Token("break")
             /\ Emit(<<Jmp(CurrentLoop.end)>>)
             /\ UNCHANGED <<locals, nslots>>

ContinueStmt == /\ "continue" \in Kinds /\ loop_stack # <<>>
                /\ Simple /\ Token("continue")
                /\ Emit(<<Jmp(ContinueLabel)>>)
                /\ UNCHANGED <<locals, nslots>>

\* break or continue outside of loop: CodeGenError, nothing is produced.
Reject == /\ phase = "gen" /\ nstmts < MaxStmts
          /\ Kinds \cap {"break", "continue"} # {} /\ loop_stack = <<>>
          /\ phase' = "rejected"
          /\ UNCHANGED <<needs_canary, src, code, open, loop_stack,
                         label_counter, locals, nslots, nstmts>>

(***************************************************************************)
(* gen_if.  `more` says whether another arm follows, which gen_if knows    *)
(* from its arguments: it decides where the failed test of an arm jumps.   *)
(***************************************************************************)
Test(more, else_label, end_label) ==
    <<Obs("test"), Jz(IF more THEN else_label ELSE end_label)>>

If(more) ==
    LET e == NewLabel(1)  else == NewLabel(2) IN
    /\ "if" \in Kinds /\ BeginStmt
    /\ Token("if") /\ Emit(Test(more, else, e))
    /\ open' = Append(open, [stmt |-> "if", end |-> e, else |-> else, more |-> more])
    /\ label_counter' = NewLabel(2)
    /\ UNCHANGED <<needs_canary, phase, loop_stack, locals, nslots>>

InArm(more) == /\ open # <<>> /\ Last(open).stmt = "if"
               /\ Last(open).more = more

Elif(more) ==
    LET top == Last(open)  else == NewLabel(1) IN
    /\ InArm(TRUE) /\ BeginStmt
    /\ Token("elif")
    /\ Emit(<<Jmp(top.end), Lab(top.else)>> \o Test(more, else, top.end))
    /\ open' = Append(Front(open), [top EXCEPT !.else = else, !.more = more])
    /\ label_counter' = NewLabel(1)
    /\ UNCHANGED <<needs_canary, phase, loop_stack, locals, nslots>>

Else ==
    LET top == Last(open) IN
    /\ InArm(TRUE) /\ BeginStmt
    /\ Token("else")
    /\ Emit(<<Jmp(top.end), Lab(top.else)>>)
    /\ open' = Append(Front(open), [top EXCEPT !.stmt = "else"])
    /\ UNCHANGED <<needs_canary, phase, loop_stack, label_counter, locals, nslots>>

Close(tok, stmt) == /\ Generating
                    /\ open # <<>> /\ Last(open).stmt = stmt
                    /\ open' = Front(open)
                    /\ Token(tok)
                    /\ UNCHANGED <<needs_canary, phase, label_counter, locals, nslots>>

EndIf == /\ \/ InArm(FALSE) /\ Close("endif", "if")
               /\ Emit(<<Jmp(Last(open).end), Lab(Last(open).end)>>)
            \/ Close("endif", "else") /\ Emit(<<Lab(Last(open).end)>>)
         /\ UNCHANGED loop_stack

(***************************************************************************)
(* Loops.  Each pushes a LoopContext before its body and pops it after the *)
(* tail: continue goes to the test of a while, to the cont label of a      *)
(* do-while and to the step of a for.                                      *)
(***************************************************************************)
PushLoop(start, end, cont) ==
    loop_stack' = Append(loop_stack, [start |-> start, end |-> end, cont |-> cont])
PopLoop == loop_stack' = Front(loop_stack)

While ==
    LET start == NewLabel(1)  e == NewLabel(2) IN
    /\ "while" \in Kinds /\ BeginStmt
    /\ Token("while") /\ PushLoop(start, e, start)
    /\ Emit(<<Lab(start), Obs("test"), Jz(e)>>)
    /\ open' = Append(open, [stmt |-> "while", start |-> start, end |-> e])
    /\ label_counter' = NewLabel(2)
    /\ UNCHANGED <<needs_canary, phase, locals, nslots>>

EndWhile == /\ Close("endwhile", "while") /\ PopLoop
            /\ Emit(<<Jmp(Last(open).start), Lab(Last(open).end)>>)

DoWhile ==
    LET start == NewLabel(1)  cont == NewLabel(2)  e == NewLabel(3) IN
    /\ "do" \in Kinds /\ BeginStmt
    /\ Token("do") /\ PushLoop(cont, e, cont)
    /\ Emit(<<Lab(start)>>)
    /\ open' = Append(open, [stmt |-> "do", start |-> start, cont |-> cont, end |-> e])
    /\ label_counter' = NewLabel(3)
    /\ UNCHANGED <<needs_canary, phase, locals, nslots>>

EndDoWhile ==
    LET top == Last(open) IN
    /\ Close("enddo", "do") /\ PopLoop
    /\ Emit(<<Lab(top.cont), Obs("test"), Jnz(top.start), Lab(top.end)>>)

\* A for loop of either form; the counter is n itself or a hidden index.
For(kind, counter, names, binds) ==
    LET start == NewLabel(1)  step == NewLabel(2)  e == NewLabel(3)
        slot == nslots + 1
    IN
    /\ kind \in Kinds /\ BeginStmt
    /\ Token(kind) /\ Alloc(names) /\ PushLoop(start, e, step)
    /\ Emit(<<On("init", counter, slot), Lab(start), On("cmp", counter, slot), Jz(e)>>
              \o binds)
    /\ open' = Append(open, [stmt |-> kind, start |-> start, cont |-> step,
                             end |-> e, counter |-> counter])
    /\ label_counter' = NewLabel(3)
    /\ UNCHANGED <<needs_canary, phase>>

\* for n in range(...)
ForRange(n) == Bindable(n) /\ For("for", n, <<n>>, <<>>)

\* for n in array: the hidden index is named after the label counter.
ForArray(n) ==
    LET idx == <<"__for_idx", label_counter>> IN
    /\ Bindable(n)
    /\ For("forarr", idx, <<idx, n>>, <<On("bind", n, nslots + 2)>>)

\* The step is generated after the body, as an assignment to the counter BY
\* NAME: it goes through whatever slot that name is bound to by then.
EndFor(kind) ==
    LET top == Last(open) IN
    /\ Close([for |-> "endfor", forarr |-> "endforarr"][kind], kind) /\ PopLoop
    /\ Emit(<<Lab(top.cont), On("step", top.counter, locals[top.counter]),
              Jmp(top.start), Lab(top.end)>>)

(***************************************************************************)
(* The end of gen_function.                                                *)
(***************************************************************************)
LastIsReturn == src # <<>> /\ Last(src) = "return"

EndFunction ==
    /\ phase = "gen" /\ open = <<>>
    /\ phase' = "done"
    /\ Emit((IF LastIsReturn THEN <<>> ELSE <<Leave>>)
            \o (IF needs_canary THEN <<Lab(Epilogue), Check, Ret>> ELSE <<>>))
    /\ UNCHANGED <<needs_canary, src, open, loop_stack, label_counter,
                   locals, nslots, nstmts>>

Next == \/ ExprStmt \/ ReturnStmt \/ BreakStmt \/ ContinueStmt \/ Reject
        \/ \E n \in Names : \/ VarDecl(n) \/ Assignment(n) \/ ReadStmt(n)
                            \/ ForRange(n) \/ ForArray(n)
        \/ \E more \in BOOLEAN : If(more) \/ Elif(more)
        \/ Else \/ EndIf
        \/ While \/ EndWhile \/ DoWhile \/ EndDoWhile
        \/ EndFor("for") \/ EndFor("forarr")
        \/ EndFunction

Spec == Init /\ [][Next]_genVars
-----------------------------------------------------------------------------

==============================================================================
