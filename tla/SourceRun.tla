------------------------------ MODULE SourceRun ------------------------------
(***************************************************************************)
(* What a function body means, from the source alone: the order in which   *)
(* its statements, conditions and loop steps are executed, following the   *)
(* block structure (LANGUAGE.md, "Control Flow").  There are no labels and *)
(* no jumps here: a position is a token of the source and the part of it   *)
(* that is executed next, and every test may come out either way.          *)
(***************************************************************************)
EXTENDS Integers, Sequences, FiniteSetsExt

VARIABLES
    src,    \* the tokens of the body
    at,     \* <<token, part>> executed next
    truth   \* how the last test came out

Openers == {"if", "while", "do", "for", "forarr"}
Closers == {"endif", "endwhile", "enddo", "endfor", "endforarr"}
Loops   == Openers \ {"if"}

Idle == <<0, "idle">>
End  == <<0, "ret">>      \* the function is about to return
Gone == <<0, "gone">>

\* The closer of the block that token i opens.
Nesting(s, i, j) == Cardinality({k \in i .. j : s[k] \in Openers})
                      - Cardinality({k \in i .. j : s[k] \in Closers})
Closer(s, i) == Min({j \in i .. Len(s) : s[j] \in Closers /\ Nesting(s, i, j) = 0})
Opener(s, j) == CHOOSE i \in 1 .. j : s[i] \in Openers /\ Closer(s, i) = j

\* From an arm at token i: the next elif, else or endif of the same if.
NextArm(s, i) == Min({j \in (i + 1) .. Len(s) :
                        \/ s[j] \in {"elif", "else"} /\ Nesting(s, i + 1, j) = 0
                        \/ s[j] = "endif" /\ Nesting(s, i + 1, j) = -1})
LastArm(s, i) == Min({j \in i .. Len(s) : s[j] = "endif" /\ Nesting(s, i, j) = -1})

\* The innermost loop around token i.
LoopAround(s, i) == Max({k \in 1 .. i : s[k] \in Loops /\ Closer(s, k) > i})

(***************************************************************************)
(* The first part that is executed when control reaches token i.           *)
(***************************************************************************)
Enter(s, i) ==
    LET Reach[j \in 1 .. Len(s) + 1] ==
          IF j > Len(s) THEN End ELSE
          CASE s[j] = "eff" \/ s[j] = "return" -> <<j, "eff">>
            [] s[j] \in {"decl", "assign"}     -> <<j, "write">>
            [] s[j] = "read"                   -> <<j, "read">>
            [] s[j] \in {"if", "while", "enddo"} -> <<j, "test">>
            [] s[j] \in {"for", "forarr"}      -> <<j, "init">>
            [] s[j] \in {"endfor", "endforarr"} -> <<j, "step">>
            [] s[j] \in {"do", "endif"}        -> Reach[j + 1]
            [] s[j] \in {"elif", "else"}       -> Reach[LastArm(s, j) + 1]
            [] s[j] = "endwhile"               -> <<Opener(s, j), "test">>
            [] s[j] = "break"    -> Reach[Closer(s, LoopAround(s, j)) + 1]
            [] s[j] = "continue" -> LET loop == LoopAround(s, j) IN
                                    IF s[loop] = "while" THEN <<loop, "test">>
                                                         ELSE Reach[Closer(s, loop)]
    IN  Reach[i]

\* An if or elif at token i whose test failed.
Otherwise(s, i) == LET j == NextArm(s, i) IN
                   IF s[j] = "elif" THEN <<j, "test">> ELSE Enter(s, j + 1)

\* What follows the part `p` when its test (if it is one) came out b.
Following(s, p, b) ==
    LET i == p[1]  part == p[2] IN
    CASE p = End -> Gone
      [] part = "eff" -> IF s[i] = "return" THEN End ELSE Enter(s, i + 1)
      [] part \in {"write", "read", "bind"} -> Enter(s, i + 1)
      [] part = "test" /\ s[i] \in {"if", "elif"} ->
            IF b THEN Enter(s, i + 1) ELSE Otherwise(s, i)
      [] part = "test" /\ s[i] = "while" ->
            Enter(s, IF b THEN i + 1 ELSE Closer(s, i) + 1)
      [] part = "test" /\ s[i] = "enddo" ->
            Enter(s, IF b THEN Opener(s, i) + 1 ELSE i + 1)
      [] part = "init" -> <<i, "cmp">>
      [] part = "cmp" -> IF ~b THEN Enter(s, Closer(s, i) + 1)
                         ELSE IF s[i] = "forarr" THEN <<i, "bind">>
                         ELSE Enter(s, i + 1)
      [] part = "step" -> <<Opener(s, i), "cmp">>

Init == src = <<>> /\ at = Idle /\ truth = FALSE

\* A body is given, and execution starts at its first statement.
Start == at = Idle /\ at' = Enter(src', 1) /\ UNCHANGED truth

Execute == /\ at \notin {Idle, Gone}
           /\ truth' # truth => at[2] \in {"test", "cmp"}
           /\ at' = Following(src, at, truth')
           /\ UNCHANGED src

Next == Start \/ Execute
Spec == Init /\ [][Next]_<<src, at, truth>>
==============================================================================
