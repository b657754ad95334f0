------------------------------ MODULE MCFrontEnd ------------------------------
(***************************************************************************)
(* The front end on the texts of MCLexer, and on programs, sound and       *)
(* damaged, written out in two ways.                                       *)
(***************************************************************************)
EXTENDS FrontEnd, MCLexer

VARIABLE given      \* the declarations the text was written for, if it was

G == INSTANCE MCPrograms WITH tokens <- kinds
MCVocabulary == G!OneLetter

MCInit == /\ \/ given = <<>> /\ src \in Sources
             \/ /\ given \in G!Programs \cup G!Broken
                /\ src = G!Written(G!Text(given), FALSE)
             \/ /\ given \in G!Shorter \cup G!Broken
                /\ src = G!Written(G!Text(given), TRUE)
          /\ InitFront

MCSpec == /\ MCInit /\ [][FrontNext /\ UNCHANGED given]_<<frontVars, given>>
          /\ FrontFair

Broken == G!Leaf("damaged")
Intact == \A i \in DOMAIN given : given[i].tree # Broken
Read == [i \in DOMAIN declarations |-> declarations[i].tree]

-----------------------------------------------------------------------------
(***************************************************************************)
(* A program is read as what it was written to say: operators group by     *)
(* their levels and associate as in Python, parentheses, blank lines,      *)
(* comments, lines broken in brackets and last commas change nothing, a    *)
(* block holds its statements, and no construct takes a token of the next  *)
(* one.                                                                    *)
(***************************************************************************)
ParsesBack ==
    (parsed # "" \/ Refused) /\ given # <<>> /\ Intact =>
        parsed = "parsed" /\ Read = [i \in DOMAIN given |-> given[i].tree]

(***************************************************************************)
(* A declaration that lacks a token, whether it still parses or not, costs *)
(* no more than itself: recovery is done by the time the next function,    *)
(* class or union begins, and that one is read as it was written.  Not if  *)
(* it lacks a closing bracket, which hides all lines to come; nor if the   *)
(* error is met on the word the next one begins with, as after a block     *)
(* left without a statement: recovery skips that word.                     *)
(***************************************************************************)
OnDeclaration(e) == kinds[e] \in P!DeclStart
ResumesAtDeclaration ==
    parsed # "" /\ ~Intact /\ paren_depth = 0 /\ (\A e \in Range(errors) : ~OnDeclaration(e)) =>
        declarations # <<>> /\ Last(declarations).tree = Last(given).tree

(***************************************************************************)
(* No part of a program is skipped without a word: of a program that       *)
(* parses every token but NEWLINE belongs to a declaration, and no error   *)
(* was raised inside a declaration that was read.                          *)
(***************************************************************************)
Owned(d) == d.from .. d.to - 1
NothingUnreported ==
    /\ parsed = "parsed" =>
          \A i \in 1 .. Len(kinds) - 1 :
             kinds[i] = "NEWLINE" \/ \E d \in Range(declarations) : i \in Owned(d)
    /\ \A d \in Range(declarations) : \A e \in Range(errors) : e \notin Owned(d)

(***************************************************************************)
(* The parser gets on: each turn leaves the cursor further on, behind the  *)
(* token at fault after an error, so no error is met twice.                *)
(***************************************************************************)
MovesOn == [][kinds # <<>> => cursor' > cursor \/ parsed' # ""]_frontVars
===============================================================================
