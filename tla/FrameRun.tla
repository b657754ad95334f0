------------------------------- MODULE FrameRun -------------------------------
(***************************************************************************)
(* The code of gen_function running in the frame FrameLayout lays out: the *)
(* prologue, the stores of the body, overruns of aggregate locals, and the *)
(* epilogue with its canary check.                                         *)
(*                                                                         *)
(* Memory is the frame and the two words above it, in 8-byte words: word w *)
(* holds the bytes 8w .. 8w+7 from %rbp, so word 0 is the caller's %rbp    *)
(* and word 1 the return address.  A word is abstracted to what it holds.  *)
(* The body may execute its stores in any order and any number of times.   *)
(***************************************************************************)
EXTENDS FrameLayout

VARIABLES
    mem,        \* word -> what it holds
    run,        \* idle (not called yet), body, returned, failed
    overran     \* some write of the body left its own variable

runVars == <<mem, run, overran>>

Contents == {"junk", "guard", "data", "stray", "saved_rbp", "return_address"}
FrameWords == -(frame_size \div 8) .. 1
CanaryWordLow == -2
CanaryWord == -1                            \* -8(%rbp)

WordsOf(bytes) == {b \div 8 : b \in bytes}
Write(words, what) ==
    mem' = [w \in DOMAIN mem |-> IF w \in words THEN what ELSE mem[w]]

RunInit == /\ Init
           /\ mem = [w \in {} |-> "junk"] /\ run = "idle" /\ overran = FALSE

(***************************************************************************)
(* pushq %rbp; subq $frame_size; the guard is stored before the spills.    *)
(***************************************************************************)
Call == /\ phase = "done" /\ run = "idle"
        /\ run' = "body"
        /\ mem' = [w \in FrameWords |->
                     CASE w = 0 -> "saved_rbp"
                       [] w = 1 -> "return_address"
                       [] w = CanaryWord /\ needs_canary -> "guard"
                       [] OTHER -> "junk"]
        /\ UNCHANGED overran

\* One store of the body (or a spill): the guard's own store is never redone.
Execute(st) == /\ run = "body"
               /\ st.var.name # CanaryName
               /\ Write(WordsOf(Touched(st)), "data")
               /\ UNCHANGED <<run, overran>>

\* A loop over an array or object local that does not stop at its end:
\* every word from its base up to word `last` is written.
Overrun(v, last) == /\ run = "body"
                    /\ ~v.type.scalar
                    /\ last * 8 > v.offset + Round8(v.type.size) - 8
                    /\ Write((v.offset \div 8) .. last, "stray")
                    /\ overran' = TRUE
                    /\ UNCHANGED run

\* A slip: a return path that bypasses the check.
EpilogueUnchecked == /\ run = "body"
                     /\ run' = "returned"
                     /\ UNCHANGED <<mem, overran>>

\* leave; ret - after xorq __stack_chk_guard, jnz __stack_chk_fail if needed.
Epilogue == /\ run = "body"
            /\ run' = IF needs_canary /\ mem[CanaryWord] # "guard"
                        THEN "failed" ELSE "returned"
            /\ UNCHANGED <<mem, overran>>

RunNext == \/ Next /\ UNCHANGED runVars
           \/ /\ UNCHANGED vars
              /\ \/ Call
                 \/ \E st \in stores : Execute(st)
                 \/ \E v \in slots, last \in DOMAIN mem : Overrun(v, last)
                 \/ Epilogue

RunSpec == RunInit /\ [][RunNext]_<<vars, runVars>>

-----------------------------------------------------------------------------
RunTypeOK == /\ run \in {"idle", "body", "returned", "failed"}
             /\ run # "idle" => mem \in [FrameWords -> Contents]
             /\ overran \in BOOLEAN

\* `ret` is only executed with the caller's %rbp and the return address as
\* they were: always in a protected function, however far a local was
\* overrun, and elsewhere as long as nothing overran (lines 1379-1387 and
\* 1476-1512).
ReturnIntact ==
    run = "returned" /\ (needs_canary \/ ~overran) =>
        mem[0] = "saved_rbp" /\ mem[1] = "return_address"

\* __stack_chk_fail is only reached when a local really was overrun: the
\* function's own stores, spills and constructors never touch the guard
\* ("it doesn't break working code", tests/test_compiler_stack_canary.ad).
FailMeansOverrun == run = "failed" => overran
==============================================================================
