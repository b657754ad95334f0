----------------------------- MODULE ImportOrder -----------------------------
(***************************************************************************)
(* collect_all_imports of compiler/adder.py: the work list that finds the  *)
(* files of a program and the order in which they are merged.  Which file  *)
(* imports which is arbitrary, cycles included, and fixed during a run.    *)
(***************************************************************************)
EXTENDS Integers, Sequences, Functions

CONSTANTS
    Files,          \* the .ad files of the project
    Missing,        \* an import that resolve_import does not find
    ImportLists     \* the lists of imports a file may have

ASSUME MissingAssumption == Missing \notin Files
ASSUME ListsAssumption == ImportLists \subseteq Seq(Files \cup {Missing})

VARIABLES
    main,       \* the file given to the compiler
    imports,    \* file -> its imports, in source order
    stage,      \* pop, scan, done; failed: a file could not be parsed
    current,    \* the file whose imports are scanned
    scanned,    \* how many of them have been
    visited, to_process, ordered

importVars == <<main, imports, stage, current, scanned, visited, to_process, ordered>>

ImportInit == /\ main \in Files
              /\ imports \in [Files -> ImportLists]
              /\ stage = "pop" /\ current = main /\ scanned = 0
              /\ visited = {}
              /\ to_process = <<main>>
              /\ ordered = <<>>

LastOf(s) == s[Len(s)]
FrontOf(s) == SubSeq(s, 1, Len(s) - 1)

\* current = to_process.pop(), which is at the end of the list.
Popped == /\ stage = "pop" /\ to_process # <<>>
          /\ to_process' = FrontOf(to_process)
          /\ UNCHANGED <<main, imports, ordered>>

SkipUnpopped == /\ stage = "pop" /\ to_process # <<>>
                /\ LastOf(to_process) \in visited
                /\ UNCHANGED importVars

SkipVisited == /\ Popped
               /\ LastOf(to_process) \in visited
               /\ UNCHANGED <<stage, current, scanned, visited>>

ParseAgain == /\ Popped
              /\ current' = LastOf(to_process)
              /\ visited' = visited \cup {LastOf(to_process)}
              /\ scanned' = 0
              /\ stage' = "scan"

ParseFile == /\ Popped
             /\ LastOf(to_process) \notin visited
             /\ current' = LastOf(to_process)
             /\ visited' = visited \cup {LastOf(to_process)}
             /\ scanned' = 0
             /\ stage' = "scan"

\* LexerError or ParseError: the compiler exits.
ParseError == /\ Popped
              /\ LastOf(to_process) \notin visited
              /\ current' = LastOf(to_process)
              /\ visited' = visited \cup {LastOf(to_process)}
              /\ stage' = "failed"
              /\ UNCHANGED scanned

\* Imports that are not found are ignored, visited files are not queued.
Queued(imp) == imp # Missing /\ imp \notin visited

\* One turn of "for imp in program.imports".
ScanImport ==
    /\ stage = "scan" /\ scanned < Len(imports[current])
    /\ scanned' = scanned + 1
    /\ to_process' = LET imp == imports[current][scanned + 1] IN
                     IF Queued(imp) THEN Append(to_process, imp) ELSE to_process
    /\ UNCHANGED <<main, imports, stage, current, visited, ordered>>

AppendFile == /\ stage = "scan" /\ scanned = Len(imports[current])
              /\ ordered' = Append(ordered, current)
              /\ stage' = "pop"
              /\ UNCHANGED <<main, imports, current, scanned, visited, to_process>>

\* ordered.insert(0, current)
InsertFile == /\ stage = "scan" /\ scanned = Len(imports[current])
              /\ ordered' = <<current>> \o ordered
              /\ stage' = "pop"
              /\ UNCHANGED <<main, imports, current, scanned, visited, to_process>>

FinishEarly == /\ stage = "pop" /\ Len(to_process) <= 1
               /\ stage' = "done"
               /\ UNCHANGED <<main, imports, current, scanned, visited, to_process, ordered>>

FinishImports == /\ stage = "pop" /\ to_process = <<>>
                 /\ stage' = "done"
                 /\ UNCHANGED <<main, imports, current, scanned, visited, to_process, ordered>>

ImportNext == SkipVisited \/ ParseFile \/ ParseError \/ ScanImport \/ InsertFile \/ FinishImports

\* A sequential loop: it takes a step whenever it can.
ImportSpec == ImportInit /\ [][ImportNext]_importVars /\ WF_importVars(ImportNext)

-----------------------------------------------------------------------------
Imports(f) == Range(imports[f]) \ {Missing}

\* The files the program consists of: main and what it imports, transitively.
Closed(S) == \A f \in S : Imports(f) \subseteq S
Program == {f \in Files : \A S \in SUBSET Files : main \in S /\ Closed(S) => f \in S}

\* The work list holds files, ordered holds files that were parsed.
ImportTypeOK == /\ main \in Files
                /\ imports \in [Files -> Seq(Files \cup {Missing})]
                /\ stage \in {"pop", "scan", "done", "failed"}
                /\ current \in Files
                /\ scanned \in Nat
                /\ visited \subseteq Files
                /\ to_process \in Seq(Files)
                /\ ordered \in Seq(Files)

\* No file is merged twice, in spite of cycles and of files imported from
\* several places (a second copy of a file is a duplicate definition of
\* everything in it), and every file met is merged, except the one at hand.
MergedOnce ==
    /\ \A i, j \in DOMAIN ordered : i # j => ordered[i] # ordered[j]
    /\ Range(ordered) = IF stage \in {"pop", "done"} THEN visited
                                                     ELSE visited \ {current}

\* Nothing outside the program is ever parsed (a stray file would put its
\* public names into the one namespace).
OnlyProgram == visited \cup Range(to_process) \subseteq Program

\* When the loop ends, every file of the program has been collected.
AllCollected == stage = "done" => Program \subseteq Range(ordered)

\* What the order does guarantee: main comes last and every other file comes
\* before at least one file that imports it.
BeforeAnImporter ==
    \A i \in DOMAIN ordered :
        IF i = Len(ordered) THEN ordered[i] = main
        ELSE \E j \in i + 1 .. Len(ordered) : ordered[i] \in Imports(ordered[j])

==============================================================================
