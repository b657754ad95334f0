----------------------------- MODULE MCCanaryScan -----------------------------
(* Small instances of CanaryScan for TLC. *)
EXTENDS CanaryScan

\* A function under its own name, and a private one of a module that has a
\* name to skip.
MCFunctions == {Plain("f"), Prefixed("kernel_panic", "_hang")}
==============================================================================
