------------------------------- MODULE MCValues -------------------------------
(* Small instances of Values and RangeLoop for TLC. *)
EXTENDS RangeLoop

\* The ends of the narrow types are among them.
MCInitials == {-2, -1, 1, 3, 9}
MCSteps == {-3, -1, 1, 2}
===============================================================================
