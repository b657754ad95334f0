------------------------------ MODULE MCFrameRun ------------------------------
(* Small instances of FrameRun for TLC. *)
EXTENDS FrameRun, TLC

\* An int32, a one-byte array, a 12-byte array or object.
MCTypes == {[size |-> 4, scalar |-> TRUE], [size |-> 1, scalar |-> FALSE],
            [size |-> 12, scalar |-> FALSE]}

NameSymmetry == Permutations(Names)
==============================================================================
