------------------------------ MODULE LoweredRun ------------------------------
(***************************************************************************)
(* The processor running the function Lowering produced.  Conditions come  *)
(* out either way.  Variables live in slots; a counted loop compares and   *)
(* steps the contents of slots, and ghost `last` remembers through which   *)
(* slot each name was last written.                                        *)
(***************************************************************************)
EXTENDS Lowering

CONSTANT Trip       \* iterations of every counted loop
ASSUME TripAssumption == Trip \in Nat

VARIABLES
    run,    \* idle, running, returned
    pc,     \* the next instruction
    zf,     \* the last testq found zero
    val,    \* slot -> a count, or Junk
    last,   \* name -> the slot it was last written through
    checks  \* canary comparisons executed

runVars == <<run, pc, zf, val, last, checks>>
vars == <<genVars, runVars>>

Junk == -1

RunInit == /\ Init
           /\ run = "idle" /\ pc = 1 /\ zf = TRUE
           /\ val = <<>> /\ last = [n \in {} |-> 0] /\ checks = 0

Call == /\ phase = "done" /\ run = "idle"
        /\ run' = "running"
        /\ val' = [s \in 1 .. nslots |-> Junk]
        /\ UNCHANGED <<pc, zf, last, checks>>

Target(l) == CHOOSE i \in DOMAIN code : code[i] = Lab(l)
At(ops) == run = "running" /\ pc \in DOMAIN code /\ code[pc].op \in ops
Advance == pc' = pc + 1 /\ UNCHANGED run

\* The slot becomes what `name` means from now on.
Written(instr, v) == /\ val' = [val EXCEPT ![instr.slot] = v]
                     /\ last' = [n \in DOMAIN last \cup {instr.n} |->
                                   IF n = instr.n THEN instr.slot ELSE last[n]]

Skip == At({"lab"}) /\ Advance /\ UNCHANGED <<zf, val, last, checks>>

Jump == LET taken == \/ code[pc].op = "jmp"
                     \/ code[pc].op = "jz" /\ zf
                     \/ code[pc].op = "jnz" /\ ~zf
        IN  /\ At({"jmp", "jz", "jnz"})
            /\ pc' = IF taken THEN Target(code[pc].lab) ELSE pc + 1
            /\ UNCHANGED <<run, zf, val, last, checks>>

Evaluate == At({"eff", "read"}) /\ Advance /\ UNCHANGED <<zf, val, last, checks>>

Condition == At({"test"}) /\ Advance /\ zf' \in BOOLEAN
             /\ UNCHANGED <<val, last, checks>>

Store == /\ At({"write", "init", "bind"}) /\ Advance
         /\ Written(code[pc], IF code[pc].op = "init" THEN 0 ELSE Junk)
         /\ UNCHANGED <<zf, checks>>

\* i < stop; a slot the loop does not own may hold anything.
Compare == LET v == val[code[pc].slot] IN
           /\ At({"cmp"}) /\ Advance
           /\ IF v = Junk THEN zf' \in BOOLEAN ELSE zf' = (v >= Trip)
           /\ UNCHANGED <<val, last, checks>>

\* i = i + 1.  Counts above Trip + 1 are all alike.
Step == LET v == val[code[pc].slot] IN
        /\ At({"step"}) /\ Advance
        /\ Written(code[pc], IF v = Junk \/ v > Trip THEN v ELSE v + 1)
        /\ UNCHANGED <<zf, checks>>

CheckCanary == At({"check"}) /\ Advance /\ checks' = checks + 1
               /\ UNCHANGED <<zf, val, last>>

Return == At({"ret"}) /\ run' = "returned" /\ UNCHANGED <<pc, zf, val, last, checks>>

Instruction == \/ Skip \/ Jump \/ Evaluate \/ Condition \/ Store \/ Compare
               \/ Step \/ CheckCanary \/ Return

RunNext == \/ Next /\ UNCHANGED runVars
           \/ (Call \/ Instruction) /\ UNCHANGED genVars

\* Once called, the processor keeps executing instructions.
RunSpec == RunInit /\ [][RunNext]_vars
           /\ WF_vars(Instruction /\ UNCHANGED genVars)

-----------------------------------------------------------------------------
(***************************************************************************)
(* Refinement: the position in the source is the first instruction from    *)
(* pc on, along jumps, labels and canary checks, that the source accounts  *)
(* for; its tests read the flag as it is.                                  *)
(***************************************************************************)
SourceAt ==
    LET Observable[i \in DOMAIN code] ==
          LET c == code[i] IN
          CASE c.op \in {"lab", "check"} -> Observable[i + 1]
            [] c.op = "jmp" \/ (c.op = "jz" /\ zf) \/ (c.op = "jnz" /\ ~zf) ->
                  Observable[Target(c.lab)]
            [] c.op \in {"jz", "jnz"} -> Observable[i + 1]
            [] c.op = "ret" -> <<0, "ret">>
            [] OTHER -> <<c.tok, c.op>>
    IN  CASE run = "idle"     -> <<0, "idle">>
          [] run = "running"  -> Observable[pc]
          [] run = "returned" -> <<0, "gone">>

Source == INSTANCE SourceRun WITH
            src <- IF run = "idle" THEN <<>> ELSE src,
            at <- SourceAt, truth <- ~zf

\* The emitted code executes exactly the statements, tests and loop steps
\* that the block structure of the source prescribes, in that order, for
\* every outcome of every test (gen_stmt, gen_if and the gen_ loops).
ImplementsSource == Source!Spec

\* Control never runs past the last instruction into whatever the assembler
\* places next (the last_is_return shortcut, lines 1484-1518), and a protected
\* function compares its canary exactly once on every way out, an unprotected
\* one never ("so the check happens exactly once per function regardless of
\* how many returns", lines 1618-1624).
CheckedOnce ==
    /\ run = "running" => pc \in DOMAIN code
    /\ run = "returned" => checks = IF needs_canary THEN 1 ELSE 0

\* Whenever a name is read, compared or stepped, the instruction uses the
\* slot the name was last written through: no stale copy of a variable is
\* ever seen (alloc_local rebinds names at compile time, code runs later).
ReadsSeeLastWrite ==
    At({"read", "cmp", "step"}) /\ code[pc].n \in DOMAIN last =>
        last[code[pc].n] = code[pc].slot

\* A function whose only loops are counted ones returns.
CountedLoopsEnd ==
    (run = "running" /\ \A t \in {"while", "do", "assign"} : ~Contains(src, t))
        ~> run = "returned"
==============================================================================
