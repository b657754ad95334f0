------------------------------- MODULE Parser -------------------------------
(***************************************************************************)
(* compiler/parser.py: parse_program with its recovery from errors.  One   *)
(* step is one turn of its loop: a declaration is read, or ParseError is   *)
(* caught, recorded, and synchronize skips to where a declaration may      *)
(* begin.                                                                  *)
(***************************************************************************)
EXTENDS Grammar

VARIABLES
    pos,            \* the cursor
    declarations,   \* what was read: the tree, and the tokens from..to-1
    errors,         \* where ParseError was raised
    outcome         \* "", then "parsed" or "rejected"

vars == <<tokens, pos, declarations, errors, outcome>>

DeclStart == {"def", "class", "from", "import", "extern", "union"}

InitParser ==
    /\ pos = SkipNewlines(1)
    /\ declarations = <<>>
    /\ errors = <<>>
    /\ outcome = ""

-----------------------------------------------------------------------------
\* synchronize.  A decorator or a name counts at the beginning of a line only.
\* Slips: the token at fault is not skipped; declarations are looked for at
\* the beginning of a line only.
SyncHere(p) ==
    Min({q \in p .. Len(tokens) :
            \/ At(q) \in DeclStart \cup {"EOF"}
            \/ q > 1 /\ At(q - 1) = "NEWLINE" /\ At(q) \in Idents \cup {"@"}})
SyncLines(p) ==
    Min({q \in Advance(p) .. Len(tokens) :
            \/ At(q) = "EOF"
            \/ q > Advance(p) /\ At(q - 1) = "NEWLINE" /\ At(q) \in DeclStart})
Synchronize(p) ==
    LET first == Advance(p)
    IN  Min({q \in first .. Len(tokens) :
               \/ At(q) \in DeclStart \cup {"EOF"}
               \/ q > first /\ At(q - 1) = "NEWLINE" /\ At(q) \in Idents \cup {"@"}})

Declare(r) ==
    /\ r.ok
    /\ declarations' = Append(declarations, [tree |-> r.trees[1], from |-> pos, to |-> r.pos])
    /\ pos' = SkipNewlines(r.pos)
    /\ UNCHANGED errors

Recover(r) ==
    /\ ~r.ok
    /\ errors' = Append(errors, r.pos)
    /\ pos' = Synchronize(r.pos)
    /\ UNCHANGED declarations

Turn ==
    /\ At(pos) # "EOF"
    /\ \E r \in {Run(Declaration, pos)} : Declare(r) \/ Recover(r)
    /\ UNCHANGED <<tokens, outcome>>

\* All errors are raised as one: nothing that was read is returned.  A slip:
\* what was read is returned anyway.
ReturnAnyway ==
    /\ At(pos) = "EOF"
    /\ outcome = ""
    /\ outcome' = "parsed"
    /\ UNCHANGED <<tokens, pos, declarations, errors>>
Return ==
    /\ At(pos) = "EOF"
    /\ outcome = ""
    /\ outcome' = IF errors = <<>> THEN "parsed" ELSE "rejected"
    /\ UNCHANGED <<tokens, pos, declarations, errors>>

Next == Turn \/ Return
=============================================================================
