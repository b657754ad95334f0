----------------------------- MODULE MCLoweredRun -----------------------------
(* Small instances of LoweredRun for TLC. *)
EXTENDS LoweredRun

(***************************************************************************)
(* Functions that bind First before any other name: all others are one of  *)
(* them under other names.  Unlike a SYMMETRY this is sound for liveness.  *)
(* The canary says nothing about names or loops.                           *)
(***************************************************************************)
First == CHOOSE n \in Names : TRUE
FirstFirst == DOMAIN locals \cap Names = {} => DOMAIN locals' \cap Names \subseteq {First}

NamesSpec == /\ RunInit /\ ~needs_canary
             /\ [][RunNext /\ FirstFirst]_vars
             /\ WF_vars(Instruction /\ UNCHANGED genVars)
==============================================================================
