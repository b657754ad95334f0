----------------------------- MODULE MCExprStack -----------------------------
(* Small instances of ExprStack for TLC. *)
EXTENDS ExprStack

\* Two argument registers, both of them scratch registers of gen_binary:
\* a third argument already travels on the stack.
MCArgRegs == <<"rdx", "rcx">>
==============================================================================
