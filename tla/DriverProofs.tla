------------------------------ MODULE DriverProofs ------------------------------
(***************************************************************************)
(* Theorems about a whole build, for every project: what is proved of      *)
(* ImportOrder and ModuleScope alone holds of the two in sequence (the     *)
(* merge gets the files the import loop has ordered, once it has ended:    *)
(* Handover), and the assembler and the linker go through the sources in   *)
(* the same order (Assembling).                                            *)
(*                                                                         *)
(* DuplicatesAreReal needs both halves: a file that declares extern what   *)
(* another one defines, below it in a tree of imports, comes after it, for *)
(* otherwise the files before the definition would be closed under         *)
(* imports.                                                                *)
(***************************************************************************)
EXTENDS Driver, FiniteSetTheorems, SequenceTheorems, TLAPS

-----------------------------------------------------------------------------
(***************************************************************************)
(* Collecting the files: ImportOrder.                                      *)
(***************************************************************************)
\* Taking the last element off a list of files.
LEMMA PopEnd ==
    ASSUME NEW s \in Seq(Files), s # <<>>
    PROVE  /\ FrontOf(s) \in Seq(Files)
           /\ LastOf(s) \in Files
           /\ Range(s) = Range(FrontOf(s)) \cup {LastOf(s)}
<1>1. Len(s) \in Nat \ {0} /\ s \in [1 .. Len(s) -> Files]
  BY SMT
<1>2. /\ FrontOf(s) \in Seq(Files)
      /\ Len(FrontOf(s)) = Len(s) - 1
      /\ \A i \in 1 .. Len(s) - 1 : FrontOf(s)[i] = s[i]
  BY <1>1, SMT DEF FrontOf
<1>3. Range(FrontOf(s)) = {s[i] : i \in 1 .. Len(s) - 1}
  BY <1>2, SMT DEF Range
<1>4. Range(s) = {s[i] : i \in 1 .. Len(s)}
  BY <1>1, SMT DEF Range
<1> QED
  BY <1>1, <1>2, <1>3, <1>4, SMT DEF LastOf

\* Putting a file at the end of a list.
LEMMA PushEnd ==
    ASSUME NEW s \in Seq(Files), NEW f \in Files
    PROVE  /\ Append(s, f) \in Seq(Files)
           /\ Range(Append(s, f)) = Range(s) \cup {f}
           /\ Append(s, f) # <<>>
<1>1. /\ Append(s, f) \in Seq(Files)
      /\ Len(Append(s, f)) = Len(s) + 1
      /\ \A i \in 1 .. Len(s) : Append(s, f)[i] = s[i]
      /\ Append(s, f)[Len(s) + 1] = f
  BY SMT
<1>2. Range(Append(s, f)) = {Append(s, f)[i] : i \in 1 .. Len(s) + 1}
  BY <1>1, SMT DEF Range
<1>3. Range(s) = {s[i] : i \in 1 .. Len(s)}
  BY SMT DEF Range
<1>4. Len(s) \in Nat /\ 1 .. Len(s) + 1 = (1 .. Len(s)) \cup {Len(s) + 1}
  BY SMT
<1> QED
  BY <1>1, <1>2, <1>3, <1>4, SMT

\* insert(0, ...) shifts a list by one.
LEMMA InsertFront ==
    ASSUME NEW s \in Seq(Files), NEW f \in Files
    PROVE  LET t == <<f>> \o s IN
           /\ t \in Seq(Files)
           /\ Len(t) = Len(s) + 1
           /\ t[1] = f
           /\ \A i \in 1 .. Len(s) : t[i + 1] = s[i]
           /\ \A i \in 2 .. Len(t) : t[i] = s[i - 1] /\ i - 1 \in 1 .. Len(s)
           /\ Range(t) = {f} \cup Range(s)
<1> DEFINE t == <<f>> \o s
<1>1. /\ t \in Seq(Files)
      /\ Len(t) = Len(s) + 1
      /\ t[1] = f
      /\ \A i \in 1 .. Len(s) : t[i + 1] = s[i]
      /\ \A i \in 2 .. Len(t) : t[i] = s[i - 1] /\ i - 1 \in 1 .. Len(s)
  BY SMT
<1> HIDE DEF t
<1>2. Range(t) = {t[i] : i \in 1 .. Len(s) + 1}
  <2>1. DOMAIN t = 1 .. Len(t)
    BY <1>1, SMT
  <2> QED BY <1>1, <2>1 DEF Range
<1>3. Range(s) = {s[i] : i \in 1 .. Len(s)}
  BY SMT DEF Range
<1>4. Len(s) \in Nat
  BY SMT
<1>5. Range(t) \subseteq {f} \cup Range(s)
  <2> SUFFICES ASSUME NEW i \in 1 .. Len(s) + 1
               PROVE  t[i] \in {f} \cup Range(s)
    BY <1>2
  <2>1. CASE i = 1
    BY <2>1, <1>1
  <2>2. CASE i # 1
    BY <2>2, <1>1, <1>3, <1>4, SMT
  <2> QED BY <2>1, <2>2
<1>6. {f} \cup Range(s) \subseteq Range(t)
  <2>1. f \in Range(t)
    BY <1>1, <1>2, <1>4, SMT
  <2>2. ASSUME NEW i \in 1 .. Len(s) PROVE s[i] \in Range(t)
    <3>1. i + 1 \in 1 .. Len(s) + 1 /\ t[i + 1] = s[i]
      BY <1>1, <1>4, SMT
    <3> QED BY <1>2, <3>1, Zenon
  <2> QED BY <1>3, <2>1, <2>2
<1> QED BY <1>1, <1>5, <1>6 DEF t

-----------------------------------------------------------------------------
SeenFiles == visited \cup Range(to_process)
WantedBy(f, S) == \E g \in S : f \in Imports(g)

\* The position in the loop.
ImportPosition ==
    /\ stage \in {"scan", "failed"} => current \in visited
    /\ stage = "scan" => scanned <= Len(imports[current])
    /\ stage = "done" => to_process = <<>>

\* The main file is the first one popped.
MainFirst == IF visited = {} THEN to_process = <<main>> /\ stage = "pop"
                             ELSE main \in visited

\* What has been scanned of a file has been seen.
Followed ==
    \A f \in visited :
        IF f = current /\ stage \in {"scan", "failed"}
          THEN stage = "scan" => \A k \in 1 .. scanned :
                                    imports[f][k] \in SeenFiles \cup {Missing}
          ELSE Imports(f) \subseteq SeenFiles

\* Files wait in to_process because a visited file imports them.
Wanted ==
    /\ \A f \in Range(to_process) : f = main \/ WantedBy(f, visited)
    /\ stage = "scan" => IF ordered = <<>> THEN current = main
                                           ELSE WantedBy(current, Range(ordered))

ImportIInv == /\ ImportTypeOK /\ MergedOnce /\ OnlyProgram /\ BeforeAnImporter
              /\ ImportPosition /\ MainFirst /\ Followed /\ Wanted

\* What a file of the program imports belongs to the program.
LEMMA ProgramClosed ==
    ASSUME ImportTypeOK, NEW f \in Program, NEW g \in Imports(f)
    PROVE  g \in Program
<1>1. f \in Files /\ imports[f] \in Seq(Files \cup {Missing})
  BY DEF Program, ImportTypeOK
<1>2. g \in Files
  BY <1>1, SMT DEF Imports, Range
<1>3. ASSUME NEW S \in SUBSET Files, main \in S, Closed(S)
      PROVE  g \in S
  BY <1>3 DEF Program, Closed
<1> QED
  BY <1>2, <1>3 DEF Program

\* The first state satisfies the invariant.
LEMMA InitImportIInv == ImportInit => ImportIInv
<1> SUFFICES ASSUME ImportInit PROVE ImportIInv
  OBVIOUS
<1>1. to_process \in Seq(Files) /\ Range(to_process) = {main}
  BY SMT DEF ImportInit, Range
<1>2. ordered \in Seq(Files) /\ Range(ordered) = {} /\ DOMAIN ordered = {}
  BY SMT DEF ImportInit, Range
<1>3. imports \in [Files -> Seq(Files \cup {Missing})]
  BY ListsAssumption DEF ImportInit
<1>4. ImportTypeOK
  BY <1>1, <1>2, <1>3 DEF ImportInit, ImportTypeOK
<1>5. main \in Program
  BY DEF ImportInit, Program
<1> QED
  BY <1>1, <1>2, <1>4, <1>5
     DEF ImportInit, ImportIInv, MergedOnce, OnlyProgram, BeforeAnImporter, ImportPosition, MainFirst,
         Followed, Wanted

\* Popping a file and, if it is new, visiting it.
LEMMA PopStep ==
    ASSUME ImportIInv, SkipVisited \/ ParseFile \/ ParseError
    PROVE  ImportIInv'
<1> DEFINE f == LastOf(to_process)
<1> USE DEF ImportIInv
<1>1. /\ to_process' \in Seq(Files) /\ f \in Files
      /\ Range(to_process) = Range(to_process') \cup {f}
      /\ stage = "pop"
      /\ UNCHANGED <<main, imports, ordered>>
  BY PopEnd DEF SkipVisited, ParseFile, ParseError, Popped, ImportTypeOK
<1>2. SeenFiles' = SeenFiles
  BY <1>1 DEF SkipVisited, ParseFile, ParseError, SeenFiles
<1>3. /\ Program' = Program
      /\ \A g : Imports(g)' = Imports(g)
  BY <1>1 DEF Program, Closed, Imports
<1>4. OnlyProgram'
  BY <1>2, <1>3 DEF OnlyProgram, SeenFiles
<1>5. BeforeAnImporter'
  BY <1>1, <1>3 DEF BeforeAnImporter
<1>6. CASE SkipVisited
  <2>1. ImportTypeOK'
    BY <1>1, <1>6 DEF SkipVisited, ImportTypeOK
  <2>2. MergedOnce' /\ ImportPosition'
    BY <1>1, <1>6 DEF SkipVisited, MergedOnce, ImportPosition
  <2>3. MainFirst'
    BY <1>1, <1>6 DEF SkipVisited, MainFirst
  <2>4. Followed'
    BY <1>1, <1>2, <1>3, <1>6 DEF SkipVisited, Followed
  <2>5. Wanted'
    BY <1>1, <1>3, <1>6 DEF SkipVisited, Wanted, WantedBy
  <2> QED BY <1>4, <1>5, <2>1, <2>2, <2>3, <2>4, <2>5
<1>7. CASE ParseFile
  <2>0. /\ f \notin visited /\ visited' = visited \cup {f} /\ current' = f
        /\ scanned' = 0 /\ stage' = "scan"
    BY <1>7 DEF ParseFile
  <2>1. ImportTypeOK'
    BY <1>1, <2>0 DEF ImportTypeOK
  <2>2. MergedOnce'
    BY <1>1, <2>0 DEF MergedOnce
  <2>3. ImportPosition'
    <3>1. imports[f] \in Seq(Files \cup {Missing})
      BY <1>1 DEF ImportTypeOK
    <3> QED BY <1>1, <2>0, <3>1, SMT DEF ImportPosition
  <2>4. visited = {} => f = main
    BY <1>1 DEF MainFirst, Range, LastOf
  <2>5. MainFirst'
    BY <1>1, <2>0, <2>4 DEF MainFirst
  <2>6. Followed'
    BY <1>1, <1>2, <1>3, <2>0 DEF Followed
  <2>7. IF ordered = <<>> THEN f = main ELSE WantedBy(f, Range(ordered))
    <3>1. Range(ordered) = visited
      BY <1>1 DEF MergedOnce
    <3>2. ordered = <<>> <=> visited = {}
      <4>1. ordered = <<>> => Range(ordered) = {}
        BY SMT DEF Range
      <4>2. ordered \in Seq(Files)
        BY DEF ImportTypeOK
      <4>3. ordered # <<>> => ordered[1] \in Range(ordered)
        BY <4>2, SMT DEF Range
      <4> QED BY <3>1, <4>1, <4>3
    <3>3. visited # {} => f # main
      BY <2>0 DEF MainFirst
    <3> QED BY <1>1, <2>4, <3>1, <3>2, <3>3 DEF Wanted
  <2>8. Wanted'
    BY <1>1, <1>3, <2>0, <2>7 DEF Wanted, WantedBy
  <2> QED BY <1>4, <1>5, <2>1, <2>2, <2>3, <2>5, <2>6, <2>8
<1>8. CASE ParseError
  <2>0. /\ f \notin visited /\ visited' = visited \cup {f} /\ current' = f
        /\ scanned' = scanned /\ stage' = "failed"
    BY <1>8 DEF ParseError
  <2>1. ImportTypeOK'
    BY <1>1, <2>0 DEF ImportTypeOK
  <2>2. MergedOnce' /\ ImportPosition'
    BY <1>1, <2>0 DEF MergedOnce, ImportPosition
  <2>3. visited = {} => f = main
    BY <1>1 DEF MainFirst, Range, LastOf
  <2>4. MainFirst'
    BY <1>1, <2>0, <2>3 DEF MainFirst
  <2>5. Followed'
    BY <1>1, <1>2, <1>3, <2>0 DEF Followed
  <2>6. Wanted'
    BY <1>1, <1>3, <2>0 DEF Wanted, WantedBy
  <2> QED BY <1>4, <1>5, <2>1, <2>2, <2>4, <2>5, <2>6
<1> QED BY <1>6, <1>7, <1>8

\* Scanning one import of the current file.
LEMMA ScanStep ==
    ASSUME ImportIInv, ScanImport
    PROVE  ImportIInv'
<1> DEFINE imp == imports[current][scanned + 1]
<1> USE DEF ImportIInv
<1>1. /\ stage = "scan" /\ scanned < Len(imports[current]) /\ scanned' = scanned + 1
      /\ UNCHANGED <<main, imports, stage, current, visited, ordered>>
      /\ to_process' = IF imp # Missing /\ imp \notin visited
                         THEN Append(to_process, imp) ELSE to_process
  BY DEF ScanImport, Queued
<1>2. imports[current] \in Seq(Files \cup {Missing}) /\ scanned \in Nat /\ current \in Files
  BY DEF ImportTypeOK
<1>3. imp \in Files \cup {Missing} /\ (imp # Missing => imp \in Imports(current))
  BY <1>1, <1>2, SMT DEF Imports, Range
<1>4. /\ to_process' \in Seq(Files)
      /\ Range(to_process') = Range(to_process) \cup
                                (IF imp # Missing /\ imp \notin visited THEN {imp} ELSE {})
  BY <1>1, <1>3, PushEnd DEF ImportTypeOK
<1>5. SeenFiles' = SeenFiles \cup (IF imp # Missing THEN {imp} ELSE {})
  BY <1>1, <1>4 DEF SeenFiles
<1>6. Program' = Program /\ \A g : Imports(g)' = Imports(g)
  BY <1>1 DEF Program, Closed, Imports
<1>7. current \in visited
  BY <1>1 DEF ImportPosition
<1>8. ImportTypeOK'
  BY <1>1, <1>2, <1>4, SMT DEF ImportTypeOK
<1>9. MergedOnce' /\ BeforeAnImporter'
  BY <1>1, <1>6 DEF MergedOnce, BeforeAnImporter
<1>10. OnlyProgram'
  BY <1>3, <1>5, <1>6, <1>7, ProgramClosed DEF OnlyProgram, SeenFiles
<1>11. ImportPosition'
  BY <1>1, <1>2, SMT DEF ImportPosition
<1>12. MainFirst'
  BY <1>1, <1>7 DEF MainFirst
<1>13. Followed'
  <2>1. \A k \in 1 .. scanned' : k \in 1 .. scanned \/ k = scanned + 1
    BY <1>1, <1>2, SMT
  <2> QED BY <1>1, <1>5, <1>6, <2>1 DEF Followed
<1>14. Wanted'
  BY <1>1, <1>3, <1>4, <1>6, <1>7 DEF Wanted, WantedBy
<1> QED BY <1>8, <1>9, <1>10, <1>11, <1>12, <1>13, <1>14

\* A scanned file goes to the front of the order.
LEMMA InsertStep ==
    ASSUME ImportIInv, InsertFile
    PROVE  ImportIInv'
<1> USE DEF ImportIInv
<1>1. /\ stage = "scan" /\ scanned = Len(imports[current]) /\ stage' = "pop"
      /\ ordered' = <<current>> \o ordered
      /\ UNCHANGED <<main, imports, current, scanned, visited, to_process>>
  BY DEF InsertFile
<1>2. current \in Files /\ current \in visited /\ ordered \in Seq(Files)
  BY <1>1 DEF ImportTypeOK, ImportPosition
<1>3. /\ ordered' \in Seq(Files)
      /\ Len(ordered') = Len(ordered) + 1
      /\ ordered'[1] = current
      /\ \A i \in 1 .. Len(ordered) : ordered'[i + 1] = ordered[i]
      /\ \A i \in 2 .. Len(ordered') :
            ordered'[i] = ordered[i - 1] /\ i - 1 \in 1 .. Len(ordered)
      /\ Range(ordered') = {current} \cup Range(ordered)
  BY <1>1, <1>2, InsertFront
<1>4. SeenFiles' = SeenFiles /\ Program' = Program /\ \A g : Imports(g)' = Imports(g)
  BY <1>1 DEF Program, Closed, Imports, SeenFiles
<1>5. ImportTypeOK'
  BY <1>1, <1>3 DEF ImportTypeOK
<1>6. OnlyProgram' /\ ImportPosition' /\ MainFirst'
  BY <1>1, <1>2, <1>4 DEF OnlyProgram, SeenFiles, ImportPosition, MainFirst
<1>7. \A i \in DOMAIN ordered : ordered[i] \in Range(ordered)
  BY DEF Range
<1>8. Range(ordered) = visited \ {current}
  BY <1>1 DEF MergedOnce
<1>9. /\ DOMAIN ordered' = 1 .. Len(ordered')
      /\ DOMAIN ordered = 1 .. Len(ordered)
      /\ Len(ordered) \in Nat /\ Len(ordered') \in Nat
  BY <1>2, <1>3, SMT
<1>10. MergedOnce'
  <2>1. ASSUME NEW i \in DOMAIN ordered', NEW j \in DOMAIN ordered', i < j
        PROVE  ordered'[i] # ordered'[j]
    <3>1. j \in 2 .. Len(ordered')
      BY <1>9, <2>1, SMT
    <3>2. CASE i = 1
      BY <1>3, <1>7, <1>8, <1>9, <3>1, <3>2
    <3>3. CASE i # 1
      <4>1. i \in 2 .. Len(ordered') /\ i - 1 # j - 1
        BY <1>9, <2>1, <3>3, SMT
      <4> QED BY <1>3, <1>9, <3>1, <4>1 DEF MergedOnce
    <3> QED BY <3>2, <3>3
  <2>2. \A i, j \in DOMAIN ordered' : i # j => i < j \/ j < i
    BY <1>9, SMT
  <2>3. \A i, j \in DOMAIN ordered' : i # j => ordered'[i] # ordered'[j]
    BY <2>1, <2>2
  <2> QED BY <1>1, <1>2, <1>3, <1>8, <2>3 DEF MergedOnce
<1>11. BeforeAnImporter'
  <2> SUFFICES ASSUME NEW i \in DOMAIN ordered'
               PROVE  IF i = Len(ordered') THEN ordered'[i] = main
                      ELSE \E j \in i + 1 .. Len(ordered') :
                              ordered'[i] \in Imports(ordered'[j])
    BY <1>1, <1>4 DEF BeforeAnImporter
  <2>1. CASE i = 1 /\ ordered = <<>>
    BY <1>1, <1>3, <1>9, <2>1, SMT DEF Wanted
  <2>2. CASE i = 1 /\ ordered # <<>>
    <3>1. PICK k \in 1 .. Len(ordered) : current \in Imports(ordered[k])
      BY <1>1, <1>9, <2>2 DEF Wanted, WantedBy, Range
    <3>2. k + 1 \in i + 1 .. Len(ordered') /\ i # Len(ordered')
      BY <1>3, <1>9, <2>2, SMT
    <3> QED BY <1>3, <2>2, <3>1, <3>2
  <2>3. CASE i # 1
    <3>1. /\ i \in 2 .. Len(ordered') /\ i - 1 \in DOMAIN ordered
          /\ i = Len(ordered') <=> i - 1 = Len(ordered)
      BY <1>3, <1>9, <2>3, SMT
    <3>2. ordered'[i] = ordered[i - 1]
      BY <1>3, <3>1
    <3>3. CASE i = Len(ordered')
      BY <3>1, <3>2, <3>3 DEF BeforeAnImporter
    <3>4. CASE i # Len(ordered')
      <4>1. PICK k \in (i - 1) + 1 .. Len(ordered) : ordered[i - 1] \in Imports(ordered[k])
        BY <3>1, <3>4 DEF BeforeAnImporter
      <4>2. k \in 1 .. Len(ordered) /\ k + 1 \in i + 1 .. Len(ordered')
        BY <1>3, <1>9, <3>1, <4>1, SMT
      <4> QED BY <1>3, <3>2, <3>4, <4>1, <4>2
    <3> QED BY <3>3, <3>4
  <2> QED BY <2>1, <2>2, <2>3
<1>12. Followed'
  <2>1. Imports(current) \subseteq SeenFiles
    <3>1. imports[current] \in Seq(Files \cup {Missing})
      BY <1>2 DEF ImportTypeOK
    <3>2. Range(imports[current]) = {imports[current][k] : k \in 1 .. scanned}
      BY <1>1, <3>1, SMT DEF Range
    <3> QED BY <1>1, <1>2, <3>2 DEF Followed, Imports
  <2> QED BY <1>1, <1>4, <2>1 DEF Followed
<1>13. Wanted'
  BY <1>1, <1>4 DEF Wanted, WantedBy
<1> QED BY <1>5, <1>6, <1>10, <1>11, <1>12, <1>13

\* Every step keeps the invariant.
LEMMA NextImportIInv == ImportIInv /\ [ImportNext]_importVars => ImportIInv'
<1> SUFFICES ASSUME ImportIInv, [ImportNext]_importVars PROVE ImportIInv'
  OBVIOUS
<1>1. CASE SkipVisited \/ ParseFile \/ ParseError
  BY <1>1, PopStep
<1>2. CASE ScanImport
  BY <1>2, ScanStep
<1>3. CASE InsertFile
  BY <1>3, InsertStep
<1>4. CASE FinishImports
  BY <1>4 DEF FinishImports, ImportIInv, ImportTypeOK, MergedOnce, OnlyProgram, Program, Closed, Imports,
              BeforeAnImporter, ImportPosition, MainFirst, Followed, SeenFiles, Wanted, WantedBy
<1>5. CASE UNCHANGED importVars
  BY <1>5 DEF importVars, ImportIInv, ImportTypeOK, MergedOnce, OnlyProgram, Program, Closed, Imports,
              BeforeAnImporter, ImportPosition, MainFirst, Followed, SeenFiles, Wanted, WantedBy
<1> QED BY <1>1, <1>2, <1>3, <1>4, <1>5 DEF ImportNext

\* The strengthening holds throughout.
LEMMA ImportInvariance == ImportSpec => []ImportIInv
  BY InitImportIInv, NextImportIInv, PTL DEF ImportSpec

-----------------------------------------------------------------------------
\* The variables of the loop keep their types.
THEOREM ImportTypeCorrect == ImportSpec => []ImportTypeOK
<1>1. ImportIInv => ImportTypeOK
  BY DEF ImportIInv
<1> QED BY ImportInvariance, <1>1, PTL

\* No file is merged twice and none that was parsed is lost, for every
\* import graph, cycles included.
THEOREM EachFileOnce == ImportSpec => []MergedOnce
<1>1. ImportIInv => MergedOnce
  BY DEF ImportIInv
<1> QED BY ImportInvariance, <1>1, PTL

\* Only files reachable from main are parsed.
THEOREM NoStrayFile == ImportSpec => []OnlyProgram
<1>1. ImportIInv => OnlyProgram
  BY DEF ImportIInv
<1> QED BY ImportInvariance, <1>1, PTL

\* When the loop ends, what was visited contains main and is closed under
\* imports.
LEMMA Complete == ImportIInv => AllCollected
<1>1. ASSUME ImportIInv, stage = "done" PROVE Program \subseteq Range(ordered)
  <2> USE <1>1 DEF ImportIInv
  <2>1. Range(to_process) = {}
    BY SMT DEF ImportPosition, Range
  <2>2. Closed(visited)
    BY <2>1 DEF Followed, SeenFiles, Closed
  <2>3. main \in visited /\ visited \in SUBSET Files
    BY DEF MainFirst, ImportTypeOK
  <2>4. Range(ordered) = visited
    BY DEF MergedOnce
  <2> QED BY <2>2, <2>3, <2>4 DEF Program
<1> QED BY <1>1 DEF AllCollected

\* Every file reachable from main is merged.
THEOREM WholeProgram == ImportSpec => []AllCollected
  BY ImportInvariance, Complete, PTL

\* main is merged last and every other file before one of its importers.
THEOREM SomeImporterLater == ImportSpec => []BeforeAnImporter
<1>1. ImportIInv => BeforeAnImporter
  BY DEF ImportIInv
<1> QED BY ImportInvariance, <1>1, PTL


-----------------------------------------------------------------------------
(***************************************************************************)
(* Renaming and merging: ModuleScope.                                      *)
(***************************************************************************)
Tables == UNION {[S -> Symbols] : S \in SUBSET Private}
MergeEntries == [module : Nat \ {0}, decl : Decls]

Typed == /\ programs \in Seq(Modules)
         /\ phase \in {"export", "scope", "merge", "done", "duplicate"}
         /\ exported \subseteq Names
         /\ renames \in Seq(Tables) /\ Len(renames) <= Len(programs)
         /\ file \in 1 .. Len(programs) + 1 /\ next \in Nat \ {0}
         /\ merged \in Seq(MergeEntries) /\ seen \subseteq Symbols

\* The phases come one after the other.
ScopePhases == /\ phase = "export" => renames = <<>>
               /\ phase \in {"export", "scope"} =>
                     file = 1 /\ next = 1 /\ merged = <<>> /\ seen = {}
               /\ phase \notin {"export", "scope"} => Len(renames) = Len(programs)
               /\ phase = "done" => file > Len(programs)

\* All files are renamed with the names that all files export.
Scoped == /\ phase # "export" => exported = Exported
          /\ \A m \in DOMAIN renames : renames[m] = RenameMap(m)

\* The symbols seen are those in the program, each of them there once.
Single == /\ seen = {Symbol(merged[i]) : i \in DOMAIN merged}
          /\ \A i, j \in DOMAIN merged : i # j => Symbol(merged[i]) # Symbol(merged[j])

\* What is merged was declared by a file the merge has come to.
Origin == \A i \in DOMAIN merged : /\ merged[i].module \in DOMAIN programs
                                   /\ merged[i].module <= file
                                   /\ merged[i].decl \in DeclsOf(merged[i].module)

\* Whatever comes before the position of the merge and is not an extern
\* declaration is in the program.
Before(m, k) == m < file \/ (m = file /\ k < next)
SoFar == \A m \in DOMAIN programs : \A k \in DOMAIN programs[m].decls :
            Before(m, k) /\ programs[m].decls[k].kind # "extern" =>
                \E i \in DOMAIN merged :
                    merged[i] = [module |-> m, decl |-> programs[m].decls[k]]

\* The compiler exits at a definition of a symbol it has seen.
Clash == phase = "duplicate" =>
            /\ file \in DOMAIN programs /\ next \in DOMAIN programs[file].decls
            /\ Entry.decl.kind # "extern"
            /\ Symbol(Entry) \in seen

ScopeIInv == Clash /\ Typed /\ ScopePhases /\ Scoped /\ Single /\ Origin /\ SoFar

-----------------------------------------------------------------------------
\* The declarations of a file are declarations of names.
LEMMA DeclTypes ==
    ASSUME Typed, NEW m \in DOMAIN programs
    PROVE  /\ m \in 1 .. Len(programs)
           /\ programs[m].slug \in Slugs
           /\ programs[m].imported \subseteq Names
           /\ programs[m].decls \in Seq(Decls)
           /\ DeclsOf(m) \subseteq Decls
           /\ Owned(m) \subseteq Names
<1>1. m \in 1 .. Len(programs) /\ programs[m] \in Modules
  BY DEF Typed
<1>2. /\ programs[m].slug \in Slugs
      /\ programs[m].imported \subseteq Names
      /\ programs[m].decls \in Seq(Decls)
  BY <1>1, ModulesAssumption
<1>3. DeclsOf(m) \subseteq Decls
  BY <1>2 DEF DeclsOf, Range
<1>4. Owned(m) \subseteq Names
  BY <1>3 DEF Owned, Decls
<1> QED BY <1>1, <1>2, <1>3, <1>4

\* The rename map of a file takes private names to symbols.
LEMMA MapTypes ==
    ASSUME Typed, NEW m \in DOMAIN programs
    PROVE  RenameMap(m) \in Tables
<1>1. /\ (Owned(m) \cap Private) \ exported \in SUBSET Private
      /\ \A n \in (Owned(m) \cap Private) \ exported : Mangle(m, n) \in Symbols
  BY DeclTypes, NamesAssumption DEF Mangle, Symbols
<1>2. RenameMap(m) \in [(Owned(m) \cap Private) \ exported -> Symbols]
  BY <1>1 DEF RenameMap
<1> QED BY <1>1, <1>2 DEF Tables

\* What a name is renamed to is a symbol.
LEMMA RenamedTypes ==
    ASSUME Typed, NEW m \in DOMAIN renames, NEW n \in Names
    PROVE  Renamed(m, n) \in Symbols
<1>1. renames[m] \in Tables
  BY DEF Typed
<1>2. n \in DOMAIN renames[m] => renames[m][n] \in Symbols
  BY <1>1 DEF Tables
<1>3. AsWritten(n) \in Symbols
  BY DEF AsWritten, Symbols
<1> QED BY <1>2, <1>3 DEF Renamed

\* The declaration the merge has come to.
LEMMA EntryTypes ==
    ASSUME Typed, More
    PROVE  /\ Entry \in MergeEntries
           /\ next \in 1 .. Len(programs[file].decls)
           /\ file \in 1 .. Len(programs)
<1>1. programs[file].decls \in Seq(Decls) /\ file \in 1 .. Len(programs)
  BY DeclTypes DEF More
<1>2. next \in 1 .. Len(programs[file].decls)
  BY <1>1 DEF More
<1>3. programs[file].decls[next] \in Decls
  BY <1>1, <1>2
<1> QED BY <1>1, <1>2, <1>3 DEF Entry, MergeEntries

\* Moving on to the next declaration of the file.
LEMMA OneFurther ==
    ASSUME Typed, More, NEW m \in DOMAIN programs, NEW k \in DOMAIN programs[m].decls,
           m < file \/ (m = file /\ k < next + 1)
    PROVE  Before(m, k) \/ (m = file /\ k = next)
<1>1. k \in Nat /\ m \in Nat
  BY DeclTypes
<1> QED BY <1>1 DEF Before, Typed

-----------------------------------------------------------------------------
LEMMA ScopeInit == Init => ScopeIInv
<1> SUFFICES ASSUME Init PROVE ScopeIInv
  OBVIOUS
<1>1. Typed
  BY DEF Init, Typed
<1>2. Clash /\ ScopePhases /\ Scoped /\ Single /\ Origin
  BY DEF Init, Clash, ScopePhases, Scoped, Single, Origin
<1>3. SoFar
  <2>1. \A m \in DOMAIN programs : \A k \in DOMAIN programs[m].decls : ~Before(m, k)
    <3> TAKE m \in DOMAIN programs
    <3>1. m \in Nat \ {0} /\ programs[m].decls \in Seq(Decls)
      BY <1>1, DeclTypes
    <3> TAKE k \in DOMAIN programs[m].decls
    <3>2. k \in Nat \ {0}
      BY <3>1
    <3> QED BY <3>1, <3>2 DEF Before, Init
  <2> QED BY <2>1 DEF SoFar
<1> QED BY <1>1, <1>2, <1>3 DEF ScopeIInv

\* Once the files are renamed, symbols are what they are.
LEMMA ScopedStays ==
    ASSUME Scoped, UNCHANGED <<programs, exported, renames>>,
           phase # "export" \/ UNCHANGED phase
    PROVE  Scoped' /\ \A e : Symbol(e)' = Symbol(e)
<1>1. Exported' = Exported
  BY DEF Exported, ImportedNames, ExternNames, DeclsOf
<1>2. \A m \in DOMAIN renames : RenameMap(m)' = RenameMap(m)
  BY DEF RenameMap, Owned, DeclsOf, Mangle
<1>3. \A m \in DOMAIN renames : renames[m] = RenameMap(m)
  BY DEF Scoped
<1>4. (phase' # "export" => exported = Exported) => Scoped'
  BY <1>1, <1>2, <1>3 DEF Scoped
<1>5. \A e : Symbol(e)' = Symbol(e)
  BY DEF Symbol, Renamed, AsWritten
<1> QED BY <1>4, <1>5 DEF Scoped

\* Merging the declaration at hand, which keeps the invariant but for next.
LEMMA KeepStep == ScopeIInv /\ Keep => ScopeIInv'
<1> SUFFICES ASSUME ScopeIInv, Keep PROVE ScopeIInv'
  OBVIOUS
<1> USE DEF ScopeIInv
<1>1. /\ Entry \in MergeEntries
      /\ next \in 1 .. Len(programs[file].decls)
      /\ file \in 1 .. Len(programs)
  BY EntryTypes DEF Keep
<1>2. /\ merged \in Seq(MergeEntries) /\ merged' \in Seq(MergeEntries)
      /\ Len(merged') = Len(merged) + 1
      /\ \A i \in 1 .. Len(merged) : merged'[i] = merged[i]
      /\ merged'[Len(merged) + 1] = Entry
  BY <1>1 DEF Keep, Typed
<1>3. Scoped' /\ \A e : Symbol(e)' = Symbol(e)
  BY ScopedStays DEF Keep
<1>4. Symbol(Entry) \in Symbols
  <2>1. file \in DOMAIN renames
    BY <1>1 DEF Typed, ScopePhases, Keep, More
  <2> QED BY <1>1, <2>1, RenamedTypes DEF Symbol, MergeEntries, Entry, Decls
<1>5. Typed'
  BY <1>1, <1>2, <1>4 DEF Typed, Keep
<1>6. ScopePhases' /\ Clash'
  BY DEF ScopePhases, Clash, Keep, More
<1>7. Single'
  <2>1. DOMAIN merged' = DOMAIN merged \cup {Len(merged) + 1}
    BY <1>2
  <2>2. /\ \A i \in DOMAIN merged : merged'[i] = merged[i]
        /\ merged'[Len(merged) + 1] = Entry
    BY <1>2
  <2>3. seen' = seen \cup {Symbol(Entry)} /\ Symbol(Entry) \notin seen
    BY DEF Keep
  <2> QED BY <2>1, <2>2, <2>3, <1>3 DEF Single
<1>8. SoFar'
  <2> SUFFICES ASSUME NEW m \in DOMAIN programs, NEW k \in DOMAIN programs[m].decls,
                      Before(m, k)', programs[m].decls[k].kind # "extern"
               PROVE  \E i \in DOMAIN merged' :
                         merged'[i] = [module |-> m, decl |-> programs[m].decls[k]]
    BY DEF SoFar, Keep
  <2>1. CASE Before(m, k)
    <3>1. PICK i \in DOMAIN merged :
             merged[i] = [module |-> m, decl |-> programs[m].decls[k]]
      BY <2>1 DEF SoFar
    <3> QED BY <3>1, <1>2
  <2>2. CASE m = file /\ k = next
    <3>1. merged'[Len(merged) + 1] = [module |-> m, decl |-> programs[m].decls[k]]
      BY <2>2, <1>2 DEF Entry
    <3> QED BY <3>1, <1>2
  <2>3. Before(m, k) \/ (m = file /\ k = next)
    BY OneFurther DEF Keep, Before
  <2> QED BY <2>1, <2>2, <2>3
<1>9. Origin'
  <2>1. Entry.module = file /\ Entry.decl \in DeclsOf(file) /\ file \in DOMAIN programs
    BY DEF Keep, More, Entry, DeclsOf, Range
  <2>2. \A m : DeclsOf(m)' = DeclsOf(m)
    BY DEF Keep, DeclsOf
  <2>3. DOMAIN merged' = DOMAIN merged \cup {Len(merged) + 1}
    BY <1>2
  <2> QED BY <1>1, <1>2, <2>1, <2>2, <2>3 DEF Origin, Keep
<1> QED BY <1>3, <1>5, <1>6, <1>7, <1>8, <1>9

\* Dropping an extern declaration.
LEMMA DropStep == ScopeIInv /\ DropExtern => ScopeIInv'
<1> SUFFICES ASSUME ScopeIInv, DropExtern PROVE ScopeIInv'
  OBVIOUS
<1> USE DEF ScopeIInv
<1>1. Typed'
  BY DEF Typed, DropExtern
<1>2. ScopePhases' /\ Clash'
  BY DEF ScopePhases, Clash, DropExtern, More
<1>3. Scoped' /\ Single'
  BY ScopedStays DEF Single, DropExtern
<1>4. SoFar'
  <2> SUFFICES ASSUME NEW m \in DOMAIN programs, NEW k \in DOMAIN programs[m].decls,
                      Before(m, k)', programs[m].decls[k].kind # "extern"
               PROVE  \E i \in DOMAIN merged :
                         merged[i] = [module |-> m, decl |-> programs[m].decls[k]]
    BY DEF SoFar, DropExtern
  <2>1. Before(m, k) \/ (m = file /\ k = next)
    BY OneFurther DEF DropExtern, Before
  <2>2. ~(m = file /\ k = next)
    BY DEF DropExtern, Entry
  <2> QED BY <2>1, <2>2 DEF SoFar
<1>5. Origin'
  BY DEF Origin, DropExtern, DeclsOf
<1> QED BY <1>1, <1>2, <1>3, <1>4, <1>5

\* Going on to the next file.
LEMMA NextFileStep == ScopeIInv /\ NextFile => ScopeIInv'
<1> SUFFICES ASSUME ScopeIInv, NextFile PROVE ScopeIInv'
  OBVIOUS
<1> USE DEF ScopeIInv
<1>1. file \in 1 .. Len(programs) /\ programs[file].decls \in Seq(Decls)
  BY DeclTypes DEF NextFile
<1>2. Typed'
  BY <1>1 DEF Typed, NextFile
<1>3. ScopePhases' /\ Clash'
  BY DEF ScopePhases, Clash, NextFile
<1>4. Scoped' /\ Single'
  BY ScopedStays DEF Single, NextFile
<1>5. SoFar'
  <2> SUFFICES ASSUME NEW m \in DOMAIN programs, NEW k \in DOMAIN programs[m].decls,
                      Before(m, k)', programs[m].decls[k].kind # "extern"
               PROVE  \E i \in DOMAIN merged :
                         merged[i] = [module |-> m, decl |-> programs[m].decls[k]]
    BY DEF SoFar, NextFile
  <2>1. m \in 1 .. Len(programs) /\ programs[m].decls \in Seq(Decls)
    BY DeclTypes
  <2>2. Before(m, k)
    BY <1>1, <2>1 DEF NextFile, Before, Typed
  <2> QED BY <2>2 DEF SoFar
<1>6. Origin'
  <2>1. \A i \in DOMAIN merged : merged[i].module \in Nat
    <3> TAKE i \in DOMAIN merged
    <3>1. merged[i].module \in DOMAIN programs
      BY DEF Origin
    <3> QED BY <3>1, DeclTypes
  <2> QED BY <1>1, <2>1 DEF Origin, NextFile, DeclsOf
<1> QED BY <1>2, <1>3, <1>4, <1>5, <1>6

\* The steps that leave the merged program and the position alone.
LEMMA PhaseStep ==
    ScopeIInv /\ (CollectExports \/ ScopeModule \/ AllScoped \/ Duplicate \/ Finish
               \/ UNCHANGED vars) => ScopeIInv'
<1> SUFFICES ASSUME ScopeIInv, CollectExports \/ ScopeModule \/ AllScoped \/ Duplicate
                            \/ Finish \/ UNCHANGED vars
             PROVE  ScopeIInv'
  OBVIOUS
<1> USE DEF ScopeIInv
<1>1. UNCHANGED <<programs, file, next, merged, seen>>
  BY DEF CollectExports, ScopeModule, AllScoped, Duplicate, Finish, vars
<1>2. SoFar' /\ Origin'
  BY <1>1 DEF SoFar, Before, Origin, DeclsOf
<1>3. /\ Exported \subseteq Names
      /\ Exported' = Exported
  <2>1. Exported \subseteq Names
    BY DeclTypes, NamesAssumption DEF Exported, ImportedNames, ExternNames, Decls
  <2> QED BY <2>1, <1>1 DEF Exported, ImportedNames, ExternNames, DeclsOf
<1>4. CASE CollectExports
  <2>1. Typed' /\ ScopePhases' /\ Clash'
    BY <1>3, <1>4 DEF CollectExports, Typed, ScopePhases, Clash
  <2>2. Scoped' /\ Single'
    BY <1>3, <1>4 DEF CollectExports, Scoped, ScopePhases, Single
  <2> QED BY <2>1, <2>2, <1>2
<1>5. CASE ScopeModule
  <2> DEFINE m == Len(renames) + 1
  <2>1. m \in DOMAIN programs /\ renames' = Append(renames, RenameMap(m))
        /\ UNCHANGED <<phase, exported>> /\ phase = "scope"
    BY <1>5 DEF ScopeModule
  <2>2. renames' \in Seq(Tables) /\ Len(renames') <= Len(programs)
    BY <2>1, MapTypes DEF Typed
  <2>3. Typed' /\ ScopePhases' /\ Single' /\ Clash'
    BY <2>1, <2>2, <1>1 DEF Typed, ScopePhases, Single, Clash
  <2>4. \A k \in DOMAIN programs : RenameMap(k)' = RenameMap(k)
    BY <1>1, <2>1 DEF RenameMap, Owned, DeclsOf, Mangle
  <2>5. \A k \in DOMAIN renames' : renames'[k] = RenameMap(k)
    BY <2>1 DEF Typed, Scoped
  <2>6. DOMAIN renames' \subseteq DOMAIN programs
    BY <2>2 DEF Typed
  <2>7. Scoped'
    BY <2>1, <2>4, <2>5, <2>6, <1>3 DEF Scoped
  <2> QED BY <2>3, <2>7, <1>2
<1>6. CASE AllScoped \/ Duplicate \/ Finish \/ UNCHANGED vars
  <2>1. UNCHANGED <<exported, renames>>
    BY <1>6 DEF AllScoped, Duplicate, Finish, vars
  <2>2. /\ phase' \in {phase, "merge", "done", "duplicate"}
        /\ phase' # phase => Len(renames) = Len(programs) /\ phase # "export"
        /\ phase' = "done" => file > Len(programs)
        /\ phase' \in {"export", "scope"} => phase' = phase
    <3>1. CASE AllScoped
      BY <3>1 DEF AllScoped, Typed
    <3>2. CASE Duplicate
      BY <3>2 DEF Duplicate, More, ScopePhases
    <3>3. CASE Finish
      <4>1. programs \in Seq(Modules) /\ Len(programs) = Len(programs)
        BY DEF Typed
      <4> QED BY <3>3, <4>1 DEF Finish, ScopePhases
    <3>4. CASE UNCHANGED vars
      BY <3>4 DEF vars, ScopePhases
    <3> QED BY <1>6, <3>1, <3>2, <3>3, <3>4
  <2>3. Typed'
    BY <1>1, <2>1, <2>2 DEF Typed
  <2>4. ScopePhases'
    BY <1>1, <2>1, <2>2 DEF ScopePhases
  <2>5. Scoped' /\ Single'
    BY <1>1, <2>1, <2>2, ScopedStays DEF Single
  <2>6. Clash'
    <3>1. CASE phase' = phase
      BY <3>1, <1>1, <2>1, ScopedStays DEF Clash, Entry
    <3>2. CASE phase' # phase /\ Duplicate
      BY <3>2, <1>1, <2>1, <2>2, ScopedStays DEF Clash, Duplicate, More, Entry
    <3>3. CASE phase' # phase /\ ~Duplicate
      BY <3>3, <1>6 DEF Clash, AllScoped, Finish, vars
    <3> QED BY <3>1, <3>2, <3>3
  <2> QED BY <2>3, <2>4, <2>5, <2>6, <1>2
<1> QED BY <1>4, <1>5, <1>6

LEMMA ScopeSteps == ScopeIInv /\ [Next]_vars => ScopeIInv'
  BY KeepStep, DropStep, NextFileStep, PhaseStep DEF Next

THEOREM ScopeInvariance == Spec => []ScopeIInv
  BY ScopeInit, ScopeSteps, PTL DEF Spec

-----------------------------------------------------------------------------
(***************************************************************************)
(* What it implies.                                                        *)
(***************************************************************************)
\* The tables of merge_programs are well formed and no symbol is merged
\* twice, whatever the files declare.
THEOREM TablesCorrect == Spec => []TypeOK
<1>1. ScopeIInv => TypeOK
  BY DEF ScopeIInv, Typed, Single, TypeOK, Tables
<1> QED BY ScopeInvariance, <1>1, PTL

\* The merge has passed all declarations, and the definitions it passes are
\* merged.
LEMMA DefinitionsMerged == ScopeIInv => NothingDropped
<1>1. ASSUME ScopeIInv, phase = "done", NEW m \in DOMAIN programs, NEW d \in DeclsOf(m),
             d.kind # "extern"
      PROVE  [module |-> m, decl |-> d] \in Range(merged)
  <2> USE <1>1 DEF ScopeIInv
  <2>1. PICK k \in DOMAIN programs[m].decls : d = programs[m].decls[k]
    BY DEF DeclsOf, Range
  <2>2. Before(m, k)
    BY DeclTypes DEF Before, ScopePhases, Typed
  <2>3. PICK i \in DOMAIN merged : merged[i] = [module |-> m, decl |-> d]
    BY <2>1, <2>2 DEF SoFar
  <2> QED BY <2>3 DEF Range
<1> QED BY <1>1 DEF NothingDropped

\* A merged program holds every function, variable and class of every file.
THEOREM AllDefined == Spec => []NothingDropped
  BY ScopeInvariance, DefinitionsMerged, PTL

\* The names a body binds are in the shadow set of its declaration.
LEMMA InShadow ==
    ASSUME NEW m, NEW d, NEW b \in DOMAIN d.bodies, NEW n \in d.bodies[b].locals
    PROVE  n \in Shadow(m, d)
BY DEF Shadow, BoundIn

\* A symbol is defined by the one module that a definition of it came from.
LEMMA Definer ==
    ASSUME Single, NEW e \in Range(merged), e.decl.kind # "extern"
    PROVE  DefinedBy(Symbol(e)) = e.module
<1> DEFINE Defines(x) == x.decl.kind # "extern" /\ Symbol(x) = Symbol(e)
           c == CHOOSE x \in Range(merged) : Defines(x)
<1>1. c \in Range(merged) /\ Defines(c)
  OBVIOUS
<1>2. c = e
  BY <1>1 DEF Range, Single
<1>3. \E i \in DOMAIN merged : Defines(merged[i])
  BY DEF Range
<1> QED BY <1>2, <1>3 DEF DefinedBy

\* A reference that no body of its declaration binds is to the symbol the
\* file's rename map gives, and to whatever module defines that.
LEMMA Unbound ==
    ASSUME NEW m, NEW d, NEW b \in DOMAIN d.bodies, NEW n, n \notin BoundIn(d)
    PROVE  Reaches(m, d, d.bodies[b], n) = DefinedBy(Renamed(m, n))
<1>1. n \notin d.bodies[b].locals
  BY InShadow DEF Shadow
<1>2. Rewritten(m, d, n) = Renamed(m, n)
  BY DEF Rewritten, Shadow
<1> QED BY <1>1, <1>2 DEF Reaches

\* Once all files are renamed, the private names a file keeps for itself are
\* mangled with its slug and all other names are as written.
LEMMA AllRenamed ==
    ASSUME ScopeIInv, phase \notin {"export", "scope"}, NEW m \in DOMAIN programs, NEW n
    PROVE  /\ n \in (Owned(m) \cap Private) \ exported =>
                 Renamed(m, n) = <<programs[m].slug, n>>
           /\ n \notin (Owned(m) \cap Private) \ exported => Renamed(m, n) = <<Plain, n>>
<1>1. m \in 1 .. Len(programs)
  BY DeclTypes DEF ScopeIInv
<1>2. DOMAIN renames = 1 .. Len(programs)
  BY DEF ScopeIInv, Typed, ScopePhases
<1>3. renames[m] = RenameMap(m)
  BY <1>1, <1>2 DEF ScopeIInv, Scoped
<1>4. DOMAIN renames[m] = (Owned(m) \cap Private) \ exported
  BY <1>3 DEF RenameMap
<1>5. ASSUME n \in DOMAIN renames[m] PROVE Renamed(m, n) = <<programs[m].slug, n>>
  BY <1>3, <1>4, <1>5 DEF Renamed, RenameMap, Mangle
<1> QED BY <1>4, <1>5 DEF Renamed, AsWritten

\* A definition of a file is found under the symbol its name is renamed to.
LEMMA Found ==
    ASSUME Single, NEW m \in DOMAIN programs, NEW n \in Owned(m),
           \A d \in DeclsOf(m) :
              d.kind # "extern" => [module |-> m, decl |-> d] \in Range(merged)
    PROVE  DefinedBy(Renamed(m, n)) = m
<1>1. PICK d \in DeclsOf(m) : d.kind # "extern" /\ d.name = n
  BY DEF Owned
<1>2. [module |-> m, decl |-> d] \in Range(merged)
  BY <1>1
<1>3. Symbol([module |-> m, decl |-> d]) = Renamed(m, n)
  BY <1>1 DEF Symbol
<1> QED BY <1>1, <1>2, <1>3, Definer

\* The definition a file has for a name is the one found under its symbol.
LEMMA OwnReached == ScopeIInv => OwnDefinition
<1>1. ASSUME Single, NothingDropped, phase = "done",
             NEW m \in DOMAIN programs, NEW d \in DeclsOf(m), NEW b \in DOMAIN d.bodies,
             NEW n \in Owned(m) \ BoundIn(d)
      PROVE  Reaches(m, d, d.bodies[b], n) = m
  BY <1>1, Unbound, Found DEF NothingDropped
<1> QED BY <1>1, DefinitionsMerged DEF ScopeIInv, OwnDefinition, EveryReference

\* A reference to a name of its own file reaches that file's definition, for
\* any modules: no namesake elsewhere can capture it.
THEOREM NoCapture == Spec => []OwnDefinition
  BY ScopeInvariance, OwnReached, PTL

\* An exported name has the same symbol in every file.
LEMMA ExportsReached == ScopeIInv => CrossModuleNames
<1>1. ASSUME ScopeIInv, NothingDropped, phase = "done",
             NEW m \in DOMAIN programs, NEW n \in Private \ Owned(m),
             \/ n \in programs[m].imported
             \/ \E e \in DeclsOf(m) : e.kind = "extern" /\ e.name = n,
             NEW k \in DOMAIN programs, n \in Owned(k)
      PROVE  DefinedBy(Renamed(m, n)) # Undefined
  <2> USE <1>1 DEF ScopeIInv
  <2>1. n \in exported
    BY DEF Scoped, Exported, ImportedNames, ExternNames
  <2>2. k \in Nat \ {0}
    BY DeclTypes
  <2>3. Renamed(m, n) = Renamed(k, n)
    BY <2>1, AllRenamed
  <2>4. DefinedBy(Renamed(k, n)) = k
    BY Found DEF NothingDropped
  <2> QED BY <2>2, <2>3, <2>4 DEF Undefined
<1>2. ASSUME ScopeIInv, NothingDropped, phase = "done",
             NEW m \in DOMAIN programs, NEW d \in DeclsOf(m), NEW b \in DOMAIN d.bodies,
             NEW n \in Private \ (Owned(m) \cup BoundIn(d)),
             \/ n \in programs[m].imported
             \/ \E e \in DeclsOf(m) : e.kind = "extern" /\ e.name = n,
             NEW k \in DOMAIN programs, n \in Owned(k)
      PROVE  Reaches(m, d, d.bodies[b], n) # Undefined
  BY <1>1, <1>2, Unbound
<1> QED BY <1>2, DefinitionsMerged DEF CrossModuleNames, EveryReference

\* An imported or extern private name reaches a definition wherever one is.
THEOREM ImportsReach == Spec => []CrossModuleNames
  BY ScopeInvariance, ExportsReached, PTL

\* The compiler exits over a private name only if a file with the same slug
\* has declared it too.
THEOREM NoPrivateClash == Spec => []PrivateNeverClash
<1>1. ASSUME ScopeIInv, phase = "duplicate", Entry.decl.name \in Private \ exported
      PROVE  \E i \in DOMAIN merged :
                /\ merged[i].decl.name = Entry.decl.name
                /\ programs[merged[i].module].slug = programs[file].slug
  <2> USE <1>1 DEF ScopeIInv
  <2>1. PICK i \in DOMAIN merged : Symbol(merged[i]) = Symbol(Entry)
    BY DEF Clash, Single
  <2>2. file \in DOMAIN programs
    BY DEF Clash
  <2>3. Entry.decl.name \in Owned(file)
    <3>1. Entry.decl \in DeclsOf(file)
      BY DEF Clash, Entry, DeclsOf, Range
    <3> QED BY <3>1 DEF Owned, Clash
  <2>4. Symbol(Entry) = <<programs[file].slug, Entry.decl.name>>
    BY <2>2, <2>3, AllRenamed DEF Symbol, Entry
  <2>5. merged[i].module \in DOMAIN programs /\ programs[file].slug \in Slugs
    BY <2>2, DeclTypes DEF Origin
  <2>6. \/ Symbol(merged[i]) = <<programs[merged[i].module].slug, merged[i].decl.name>>
        \/ Symbol(merged[i]) = <<Plain, merged[i].decl.name>>
    BY <2>5, AllRenamed DEF Symbol
  <2> QED BY <2>1, <2>4, <2>5, <2>6, SlugAssumption
<1>2. ScopeIInv => PrivateNeverClash
  BY <1>1 DEF PrivateNeverClash
<1> QED BY ScopeInvariance, <1>2, PTL

-----------------------------------------------------------------------------
(***************************************************************************)
(* The whole build: Driver.                                                *)
(***************************************************************************)

\* Nothing is merged before the files are known, nor are they collected again.
Fresh == /\ programs = <<>> /\ exported = {} /\ renames = <<>>
         /\ file = 1 /\ next = 1 /\ merged = <<>> /\ seen = {}
Handover == /\ contents \in [Files -> Modules]
            /\ phase = "collect" => Fresh
            /\ phase # "collect" => /\ stage = "done" /\ ScopeIInv
                                    /\ programs = [i \in DOMAIN ordered |-> contents[ordered[i]]]

\* Every job that is done left its object, unless a later one overwrote it.
Assembling ==
    /\ target \in Targets /\ extra_s \in Seq(Stems)
    /\ assembled \in 0 .. Len(Jobs)
    /\ ObjectsDiffer => \A i \in 1 .. assembled : /\ ObjectOf(Jobs[i]) \in DOMAIN objects
                                                  /\ objects[ObjectOf(Jobs[i])] = Jobs[i]
    /\ result = "ok" /\ target = "bare" /\ ObjectsDiffer => image = Jobs

BuildIInv == ImportIInv /\ Handover /\ Assembling

-----------------------------------------------------------------------------
\* The sources of a build.
Sources == [stem : Stems \cup {"header", "head_64", "hamnix_main", "runtime", "progname"},
            number : Nat]

LEMMA JobTypes ==
    ASSUME extra_s \in Seq(Stems)
    PROVE  /\ Extras \in Seq(Sources)
           /\ Jobs \in Seq(Sources)
<1>1. /\ Source("header", 0) \in Sources /\ Source("head_64", 0) \in Sources
      /\ Source("runtime", 0) \in Sources /\ Source("progname", 0) \in Sources
      /\ Compiled \in Sources
  BY DEF Source, Sources, Compiled
<1>2. Extras \in Seq(Sources)
  <2>1. \A i \in 1 .. Len(extra_s) : Source(extra_s[i], i) \in Sources
    BY DEF Source, Sources
  <2> QED BY <2>1 DEF Extras
<1>3. <<Source("header", 0), Source("head_64", 0), Compiled>> \in Seq(Sources)
  BY <1>1
<1>4. <<Source("runtime", 0), Source("progname", 0), Compiled>> \in Seq(Sources)
  BY <1>1
<1> HIDE DEF Sources
<1> QED BY <1>2, <1>3, <1>4 DEF Jobs

\* One list after another.
LEMMA Joined ==
    ASSUME NEW S, NEW s \in Seq(S), NEW t \in Seq(S), Len(s) = 3
    PROVE  /\ Len(s \o t) = Len(t) + 3
           /\ DOMAIN (s \o t) = 1 .. Len(s \o t)
           /\ \A i \in 1 .. 3 : (s \o t)[i] = s[i]
           /\ \A i \in 1 .. Len(t) + 3 : i > 3 => (s \o t)[i] = t[i - 3]
<1>0. Len(t) \in Nat
  OBVIOUS
<1>1. s \o t \in Seq(S) /\ Len(s \o t) = Len(s) + Len(t)
  BY ConcatProperties
<1>2. \A i \in 1 .. Len(s) + Len(t) :
         (s \o t)[i] = IF i <= Len(s) THEN s[i] ELSE t[i - Len(s)]
  BY ConcatProperties
<1>3. DOMAIN (s \o t) = 1 .. Len(s \o t)
  BY <1>1
<1> QED BY <1>0, <1>1, <1>2, <1>3

\* The linker is given the objects of the kernel's sources, in their order.
LEMMA LinkedInOrder ==
    ASSUME extra_s \in Seq(Stems), target = "bare"
    PROVE  /\ DOMAIN LinkList = DOMAIN Jobs
           /\ \A i \in DOMAIN Jobs : LinkList[i] = ObjectOf(Jobs[i])
           /\ Jobs[1] = Source("header", 0) /\ 1 \in DOMAIN Jobs
<1> DEFINE fixed == <<Source("header", 0), Source("head_64", 0), Compiled>>
           names == [i \in DOMAIN Extras |-> ObjectOf(Extras[i])]
<1>1. Extras \in Seq(Sources)
  BY JobTypes
<1>2. Jobs = fixed \o Extras /\ LinkList = <<"header", "head_64", "main">> \o names
  BY DEF Jobs, LinkList
<1>3. fixed \in Seq(Sources)
  BY DEF Source, Sources, Compiled
<1>4. /\ ObjectOf(fixed[1]) = "header" /\ ObjectOf(fixed[2]) = "head_64"
      /\ ObjectOf(fixed[3]) = "main"
  BY DEF ObjectOf, Source, Compiled
<1>5. Len(fixed) = 3 /\ fixed[1] = Source("header", 0)
  OBVIOUS
<1> DEFINE Names0 == {ObjectOf(s) : s \in Sources} \cup {"header", "head_64", "main"}
<1>6. /\ names \in Seq(Names0) /\ Len(names) = Len(Extras)
      /\ <<"header", "head_64", "main">> \in Seq(Names0)
  <2>1. names \in [1 .. Len(Extras) -> Names0] /\ Len(Extras) \in Nat
    BY <1>1
  <2> HIDE DEF Names0, names
  <2> QED BY <2>1 DEF Names0
<1>7. names = [i \in 1 .. Len(Extras) |-> ObjectOf(Extras[i])]
  BY <1>1
<1> HIDE DEF fixed, names, Names0
<1> DEFINE given == <<"header", "head_64", "main">>
<1>0. given \in Seq(Names0) /\ Len(given) = 3
      /\ given[1] = "header" /\ given[2] = "head_64" /\ given[3] = "main"
  BY <1>6
<1> HIDE DEF given
<1>8. /\ Len(Jobs) = Len(Extras) + 3 /\ DOMAIN Jobs = 1 .. Len(Jobs)
      /\ \A i \in 1 .. 3 : Jobs[i] = fixed[i]
      /\ \A i \in 1 .. Len(Extras) + 3 : i > 3 => Jobs[i] = Extras[i - 3]
  BY <1>1, <1>2, <1>3, <1>5, Joined
<1>11. /\ Len(LinkList) = Len(Extras) + 3 /\ DOMAIN LinkList = 1 .. Len(LinkList)
       /\ \A i \in 1 .. 3 : LinkList[i] = given[i]
       /\ \A i \in 1 .. Len(Extras) + 3 : i > 3 => LinkList[i] = names[i - 3]
  <2>1. LinkList = given \o names
    BY <1>2 DEF given
  <2> QED BY <1>0, <1>6, <2>1, Joined
<1>9. ASSUME NEW i \in 1 .. Len(Extras) + 3 PROVE LinkList[i] = ObjectOf(Jobs[i])
  <2>1. CASE i \in 1 .. 3
    <3>1. i = 1 \/ i = 2 \/ i = 3
      BY <2>1
    <3> QED BY <1>0, <1>4, <1>8, <1>11, <2>1, <3>1
  <2>2. CASE i > 3
    <3>1. i - 3 \in 1 .. Len(Extras)
      BY <1>1, <2>2
    <3>2. Jobs[i] = Extras[i - 3] /\ LinkList[i] = names[i - 3]
      BY <1>8, <1>11, <2>2
    <3>3. names[i - 3] = ObjectOf(Extras[i - 3])
      BY <1>7, <3>1
    <3> QED BY <3>2, <3>3
  <2> QED BY <1>1, <2>1, <2>2
<1>10. 1 \in 1 .. 3 /\ Len(Extras) \in Nat
  BY <1>1
<1>12. Jobs[1] = Source("header", 0) /\ 1 \in DOMAIN Jobs
  BY <1>5, <1>8, <1>10
<1> QED BY <1>8, <1>9, <1>11, <1>12

-----------------------------------------------------------------------------
LEMMA BuildInit == DriverInit => BuildIInv
<1> SUFFICES ASSUME DriverInit PROVE BuildIInv
  OBVIOUS
<1>1. ImportIInv
  BY InitImportIInv DEF DriverInit
<1>2. Handover
  BY DEF DriverInit, Handover, Fresh
<1>3. Assembling
  <2>1. extra_s \in Seq(Stems) /\ target \in Targets /\ result = ""
    BY StemsAssumption DEF DriverInit
  <2>2. assembled = 0
    BY DEF DriverInit
  <2>3. Len(Jobs) \in Nat
    BY <2>1, JobTypes, LenProperties
  <2>4. assembled \in 0 .. Len(Jobs) /\ 1 .. assembled = {}
    BY <2>2, <2>3
  <2> QED BY <2>1, <2>4 DEF Assembling
<1> QED BY <1>1, <1>2, <1>3 DEF BuildIInv

\* The jobs depend on nothing that changes.
LEMMA JobsStay ==
    ASSUME UNCHANGED <<target, extra_s>>
    PROVE  Jobs' = Jobs /\ ObjectsDiffer' = ObjectsDiffer
<1>1. Jobs' = Jobs
  BY DEF Jobs, Extras, Source, Compiled
<1> QED BY <1>1 DEF ObjectsDiffer, ObjectOf, Compiled, Source

\* No import is followed once the loop has ended.
LEMMA CollectStep == BuildIInv /\ ImportNext /\ UNCHANGED <<vars, buildVars>> => BuildIInv'
<1> SUFFICES ASSUME BuildIInv, ImportNext, UNCHANGED <<vars, buildVars>> PROVE BuildIInv'
  OBVIOUS
<1>1. ImportIInv'
  BY NextImportIInv DEF BuildIInv
<1>2. stage # "done"
  BY DEF ImportNext, SkipVisited, ParseFile, ParseError, Popped, ScanImport, InsertFile,
         FinishImports
<1>3. Handover'
  BY <1>2 DEF BuildIInv, Handover, Fresh, vars, buildVars
<1>4. Assembling'
  BY JobsStay DEF BuildIInv, Assembling, buildVars, ObjectOf, Compiled, Source
<1> QED BY <1>1, <1>3, <1>4 DEF BuildIInv

\* The merge starts from the parsed files as from any others.
LEMMA MergeStarts == Init' => ScopeIInv'
  BY ScopeInit, PTL

LEMMA ParseStep == BuildIInv /\ ParseProgram => BuildIInv'
<1> SUFFICES ASSUME BuildIInv, ParseProgram PROVE BuildIInv'
  OBVIOUS
<1>1. ImportIInv'
  <2>1. UNCHANGED importVars
    BY DEF ParseProgram
  <2> QED BY <2>1, NextImportIInv DEF BuildIInv
<1>2. programs' \in Seq(Modules)
  <2>1. ordered \in Seq(Files) /\ contents \in [Files -> Modules]
    BY DEF BuildIInv, ImportIInv, ImportTypeOK, Handover
  <2>2. /\ DOMAIN ordered = 1 .. Len(ordered) /\ Len(ordered) \in Nat
        /\ \A i \in 1 .. Len(ordered) : contents[ordered[i]] \in Modules
    BY <2>1
  <2>3. programs' = [i \in 1 .. Len(ordered) |-> contents[ordered[i]]]
    BY <2>2 DEF ParseProgram
  <2> QED BY <2>2, <2>3
<1>3. Init'
  BY <1>2 DEF ParseProgram, BuildIInv, Handover, Fresh, Init
<1>4. Handover'
  BY <1>3, MergeStarts DEF ParseProgram, BuildIInv, Handover, importVars, buildVars
<1>5. Assembling'
  BY JobsStay DEF BuildIInv, Assembling, ParseProgram, buildVars, ObjectOf, Compiled, Source
<1> QED BY <1>1, <1>4, <1>5 DEF BuildIInv

\* The steps of the merge are those of ModuleScope.
LEMMA MergeStep == BuildIInv /\ Next /\ UNCHANGED <<importVars, buildVars>> => BuildIInv'
<1> SUFFICES ASSUME BuildIInv, Next, UNCHANGED <<importVars, buildVars>> PROVE BuildIInv'
  OBVIOUS
<1>1. ImportIInv'
  BY NextImportIInv DEF BuildIInv
<1>2. phase # "collect" /\ phase' # "collect" /\ programs' = programs
  BY DEF Next, CollectExports, ScopeModule, AllScoped, Keep, DropExtern, Duplicate, NextFile,
         Finish, More
<1>3. ScopeIInv'
  BY <1>2, ScopeSteps DEF BuildIInv, Handover
<1>4. Handover'
  BY <1>2, <1>3 DEF BuildIInv, Handover, importVars, buildVars
<1>5. Assembling'
  BY JobsStay DEF BuildIInv, Assembling, buildVars, ObjectOf, Compiled, Source
<1> QED BY <1>1, <1>4, <1>5 DEF BuildIInv

\* Running the tools leaves what was collected and merged alone.
LEMMA ToolStep == BuildIInv /\ (EmitOnly \/ Assemble \/ Link \/ BuildFails) => BuildIInv'
<1> SUFFICES ASSUME BuildIInv, EmitOnly \/ Assemble \/ Link \/ BuildFails PROVE BuildIInv'
  OBVIOUS
<1>1. Building
  BY DEF EmitOnly, Assemble, Link, BuildFails
<1>2. UNCHANGED <<importVars, vars, contents, target, extra_s>>
  BY <1>1 DEF Building
<1>3. ImportIInv'
  BY <1>2, NextImportIInv DEF BuildIInv
<1>4. Handover'
  <2>1. ScopeIInv => ScopeIInv'
    BY <1>2, ScopeSteps
  <2> QED BY <1>2, <2>1 DEF BuildIInv, Handover, Fresh, importVars, vars
<1>5. Assembling'
  <2> USE DEF Assembling
  <2>0. Assembling /\ Jobs' = Jobs /\ ObjectsDiffer' = ObjectsDiffer
        /\ \A s : ObjectOf(s)' = ObjectOf(s)
        /\ Jobs \in Seq(Sources)
    BY <1>2, JobsStay, JobTypes DEF BuildIInv, ObjectOf, Compiled, Source
  <2>1. CASE EmitOnly
    BY <1>2, <2>0, <2>1 DEF EmitOnly
  <2>2. CASE Assemble
    <3> DEFINE j == assembled + 1
    <3>1. j \in 1 .. Len(Jobs) /\ assembled \in Nat /\ Len(Jobs) \in Nat
          /\ DOMAIN Jobs = 1 .. Len(Jobs)
      BY <2>0, <2>2 DEF Assemble
    <3>2. /\ DOMAIN objects' = DOMAIN objects \cup {ObjectOf(Jobs[j])}
          /\ objects'[ObjectOf(Jobs[j])] = Jobs[j]
          /\ \A o \in DOMAIN objects : o # ObjectOf(Jobs[j]) => objects'[o] = objects[o]
          /\ assembled' = j /\ UNCHANGED result /\ result = ""
      BY <2>2 DEF Assemble, Building
    <3>3. ASSUME ObjectsDiffer, NEW i \in 1 .. j
          PROVE  ObjectOf(Jobs[i]) \in DOMAIN objects' /\ objects'[ObjectOf(Jobs[i])] = Jobs[i]
      <4>1. CASE i = j
        BY <3>2, <4>1
      <4>2. CASE i # j
        <5>1. i \in 1 .. assembled /\ i \in DOMAIN Jobs /\ j \in DOMAIN Jobs
          BY <3>1, <4>2
        <5>2. ObjectOf(Jobs[i]) # ObjectOf(Jobs[j])
          BY <3>3, <4>2, <5>1 DEF ObjectsDiffer
        <5> QED BY <2>0, <3>2, <3>3, <5>1, <5>2
      <4> QED BY <4>1, <4>2
    <3>4. assembled' \in 0 .. Len(Jobs)
      <4>1. assembled' = assembled + 1
        BY <2>2 DEF Assemble
      <4> QED BY <3>1, <4>1
    <3>5. ObjectsDiffer' => \A i \in 1 .. assembled' :
             ObjectOf(Jobs[i])' \in DOMAIN objects' /\ objects'[ObjectOf(Jobs[i])'] = Jobs'[i]
      <4>1. \A i : ObjectOf(Jobs[i])' = ObjectOf(Jobs[i])
        BY <2>0 DEF ObjectOf, Compiled, Source
      <4> QED BY <2>0, <3>2, <3>3, <4>1
    <3>6. target' \in Targets /\ extra_s' \in Seq(Stems) /\ result' # "ok"
      BY <1>2, <2>0, <3>2 DEF Targets
    <3> QED BY <2>0, <3>4, <3>5, <3>6
  <2>3. CASE Link
    <3>1. ASSUME target = "bare", ObjectsDiffer PROVE image' = Jobs
      <4>1. /\ DOMAIN LinkList = DOMAIN Jobs
            /\ \A i \in DOMAIN Jobs : LinkList[i] = ObjectOf(Jobs[i])
        BY <2>0, <3>1, LinkedInOrder
      <4>2. image' = [i \in DOMAIN Jobs |-> objects[LinkList[i]]]
        BY <2>3, <4>1 DEF Link
      <4>3. \A i \in DOMAIN Jobs : objects[LinkList[i]] = Jobs[i]
        BY <2>0, <2>3, <3>1, <4>1 DEF Link
      <4> QED BY <2>0, <4>2, <4>3
    <3>2. UNCHANGED <<assembled, objects>>
      BY <2>3 DEF Link
    <3> QED BY <1>2, <2>0, <3>1, <3>2
  <2>4. CASE BuildFails
    BY <1>2, <2>0, <2>4 DEF BuildFails
  <2> QED BY <2>1, <2>2, <2>3, <2>4
<1> QED BY <1>3, <1>4, <1>5 DEF BuildIInv

\* The parts of a build keep one another's invariants.
LEMMA BuildInvariance == DriverSpec => []BuildIInv
<1>1. BuildIInv /\ [DriverNext]_allVars => BuildIInv'
  <2> SUFFICES ASSUME BuildIInv, [DriverNext]_allVars PROVE BuildIInv'
    OBVIOUS
  <2>1. CASE UNCHANGED allVars
    <3>1. UNCHANGED <<importVars, vars, buildVars>>
      BY <2>1 DEF allVars
    <3>2. ImportIInv' /\ (ScopeIInv => ScopeIInv')
      BY <3>1, NextImportIInv, ScopeSteps DEF BuildIInv
    <3>3. Handover'
      BY <3>1, <3>2 DEF BuildIInv, Handover, Fresh, importVars, vars, buildVars
    <3>4. Assembling'
      BY <3>1, JobsStay DEF BuildIInv, Assembling, buildVars, ObjectOf, Compiled, Source
    <3> QED BY <3>2, <3>3, <3>4 DEF BuildIInv
  <2> QED BY <2>1, CollectStep, ParseStep, MergeStep, ToolStep DEF DriverNext
<1> QED BY BuildInit, <1>1, PTL DEF DriverSpec

-----------------------------------------------------------------------------
(***************************************************************************)
(* The order of the merge in a tree of imports.                            *)
(***************************************************************************)
\* A file that is imported once is imported by one file; one that is not
\* imported at all, by none.
LEMMA ImportsFinite ==
    ASSUME ImportTypeOK, Range(ordered) = Program, NEW f
    PROVE  IsFiniteSet(ImportsOf(f))
<1> DEFINE At(g) == {<<g, i>> : i \in {k \in DOMAIN imports[g] : imports[g][k] = f}}
           All == {At(g) : g \in Program}
<1>1. IsFiniteSet(1 .. Len(ordered)) /\ DOMAIN ordered = 1 .. Len(ordered)
  <2>1. Len(ordered) \in Int /\ DOMAIN ordered = 1 .. Len(ordered)
    BY DEF ImportTypeOK
  <2> QED BY <2>1, FS_Interval
<1>2. IsFiniteSet(All)
  <2> DEFINE h == [i \in 1 .. Len(ordered) |-> At(ordered[i])]
  <2>1. Program = {ordered[i] : i \in 1 .. Len(ordered)}
    BY <1>1 DEF Range
  <2> HIDE DEF At
  <2>2. h \in Surjection(1 .. Len(ordered), All)
    <3>1. h \in [1 .. Len(ordered) -> All]
      BY <2>1
    <3>2. \A T \in All : \E i \in 1 .. Len(ordered) : h[i] = T
      BY <2>1
    <3> QED BY <3>1, <3>2 DEF Surjection
  <2> HIDE DEF h, All
  <2> QED BY <1>1, <2>2, FS_Surjection
<1>3. ASSUME NEW T \in All PROVE IsFiniteSet(T)
  <2>1. PICK g \in Program : T = At(g)
    OBVIOUS
  <2>2. imports[g] \in Seq(Files \cup {Missing})
    BY DEF Program, ImportTypeOK
  <2>3. IsFiniteSet(1 .. Len(imports[g])) /\ DOMAIN imports[g] = 1 .. Len(imports[g])
    <3>1. Len(imports[g]) \in Int /\ DOMAIN imports[g] = 1 .. Len(imports[g])
      BY <2>2
    <3> QED BY <3>1, FS_Interval
  <2>4. IsFiniteSet({g} \X (1 .. Len(imports[g])))
    BY <2>3, FS_Singleton, FS_Product
  <2>5. T \in SUBSET ({g} \X (1 .. Len(imports[g])))
    BY <2>1, <2>3
  <2> QED BY <2>4, <2>5, FS_Subset
<1>4. ImportsOf(f) = UNION All
  BY DEF ImportsOf
<1> HIDE DEF All
<1> QED BY <1>2, <1>3, <1>4, FS_UNION

LEMMA OneImporter ==
    ASSUME ImportTypeOK, Range(ordered) = Program, TreeOfImports,
           NEW f \in Program, NEW g \in Program, f \in Imports(g)
    PROVE  /\ f # main
           /\ \A h \in Program : f \in Imports(h) => h = g
<1>1. ASSUME NEW h \in Program, f \in Imports(h)
      PROVE  \E i : <<h, i>> \in ImportsOf(f)
  <2>1. PICK i \in DOMAIN imports[h] : imports[h][i] = f
    BY <1>1 DEF Imports, Range
  <2>2. <<h, i>> \in ImportsOf(f)
    BY <2>1 DEF ImportsOf
  <2> QED BY <2>2
<1>2. IsFiniteSet(ImportsOf(f))
  BY ImportsFinite
<1>3. ImportsOf(f) # {}
  BY <1>1
<1>4. Cardinality(ImportsOf(f)) = 1 /\ f # main
  <2>1. Cardinality(ImportsOf(f)) # 0
    BY <1>2, <1>3, FS_EmptySet
  <2>2. Cardinality(ImportsOf(f)) = IF f = main THEN 0 ELSE 1
    BY DEF TreeOfImports
  <2> QED BY <2>1, <2>2
<1>5. PICK x : ImportsOf(f) = {x}
  BY <1>2, <1>4, FS_Singleton
<1>6. PICK i : <<g, i>> = x
  BY <1>1, <1>5
<1>7. ASSUME NEW h \in Program, f \in Imports(h) PROVE h = g
  BY <1>1, <1>5, <1>6, <1>7
<1> QED BY <1>4, <1>7

\* In a tree of imports every file comes before all that are above it.
LEMMA BelowComesFirst ==
    ASSUME ImportIInv, stage = "done", TreeOfImports,
           NEW a \in DOMAIN ordered, NEW b \in DOMAIN ordered,
           Above(ordered[a], ordered[b]), a # b
    PROVE  b < a
<1> DEFINE S == {ordered[k] : k \in 1 .. b - 1}
<1> USE DEF ImportIInv
<1>1. /\ ordered \in Seq(Files) /\ DOMAIN ordered = 1 .. Len(ordered) /\ Len(ordered) \in Nat
      /\ a \in Nat /\ b \in Nat /\ b <= Len(ordered) /\ a <= Len(ordered) /\ a >= 1
  BY DEF ImportTypeOK
<1>2. Range(ordered) = Program
  <2>1. Program \subseteq Range(ordered)
    BY Complete DEF AllCollected
  <2>2. Range(ordered) \subseteq Program
    BY DEF MergedOnce, OnlyProgram
  <2> QED BY <2>1, <2>2
<1>3. \A i \in 1 .. Len(ordered) : ordered[i] \in Program
  BY <1>1, <1>2 DEF Range
<1>4. ASSUME NEW k \in 1 .. b - 1, NEW f \in Imports(ordered[k])
      PROVE  f \in S
  <2>1. k \in 1 .. Len(ordered) /\ ordered[k] \in Program
    BY <1>1, <1>3
  <2>2. f \in Program
    BY <1>4, <2>1, ProgramClosed
  <2>3. PICK l \in 1 .. Len(ordered) : ordered[l] = f
    BY <1>1, <1>2, <2>2 DEF Range
  <2>4. f # main /\ \A h \in Program : f \in Imports(h) => h = ordered[k]
    BY <1>2, <1>4, <2>1, <2>2, OneImporter
  <2>5. PICK j \in l + 1 .. Len(ordered) : f \in Imports(ordered[j])
    BY <1>1, <2>3, <2>4 DEF BeforeAnImporter
  <2>6. j \in 1 .. Len(ordered) /\ l < j
    BY <1>1, <2>5
  <2>7. j = k
    BY <1>1, <1>3, <2>1, <2>4, <2>5, <2>6 DEF MergedOnce
  <2>8. l \in 1 .. b - 1
    BY <1>1, <2>6, <2>7
  <2> QED BY <2>3, <2>8
<1>5. S \subseteq Files
  BY <1>1
<1>6. Closed(S)
  BY <1>4 DEF Closed
<1>7. ordered[b] \notin S
  BY <1>1 DEF MergedOnce
<1>8. ordered[a] \notin S
  BY <1>5, <1>6, <1>7 DEF Above
<1>9. a \notin 1 .. b - 1
  BY <1>8
<1> QED BY <1>1, <1>9

-----------------------------------------------------------------------------
(***************************************************************************)
(* What holds of every build.                                              *)
(***************************************************************************)
\* No file is merged twice and none that was parsed is lost.
THEOREM BuildMergesOnce == DriverSpec => []MergedOnce
<1>1. BuildIInv => MergedOnce
  BY DEF BuildIInv, ImportIInv
<1> QED BY BuildInvariance, <1>1, PTL

\* Every file reachable from main is merged.
THEOREM BuildIsWhole == DriverSpec => []AllCollected
<1>1. BuildIInv => AllCollected
  BY Complete DEF BuildIInv
<1> QED BY BuildInvariance, <1>1, PTL

\* The merged program holds every definition of every file collected.
THEOREM BuildDropsNothing == DriverSpec => []NothingDropped
<1>1. BuildIInv => NothingDropped
  BY DefinitionsMerged DEF BuildIInv, Handover, NothingDropped
<1> QED BY BuildInvariance, <1>1, PTL

\* References to the names of a file reach them, in whatever order the import
\* loop found the files.
THEOREM BuildOwnDefinition == DriverSpec => []OwnDefinition
<1>1. BuildIInv => OwnDefinition
  BY OwnReached DEF BuildIInv, Handover, OwnDefinition, EveryReference
<1> QED BY BuildInvariance, <1>1, PTL

\* References to exported private names reach their definition.
THEOREM BuildCrossModuleNames == DriverSpec => []CrossModuleNames
<1>1. BuildIInv => CrossModuleNames
  BY ExportsReached DEF BuildIInv, Handover, CrossModuleNames, EveryReference
<1> QED BY BuildInvariance, <1>1, PTL

\* A kernel image is made of each of its sources, once and in order, unless
\* two object files share a name.
THEOREM ImageComplete == DriverSpec => []ImageHoldsEverySource
<1>1. ASSUME BuildIInv, result = "ok", target = "bare", ObjectsDiffer
      PROVE  /\ image[1] = Source("header", 0)
             /\ \A s \in Range(Jobs) : Cardinality({i \in DOMAIN image : image[i] = s}) = 1
  <2>1. image = Jobs /\ extra_s \in Seq(Stems)
    BY <1>1 DEF BuildIInv, Assembling
  <2>2. image[1] = Source("header", 0)
    BY <1>1, <2>1, LinkedInOrder
  <2>3. ASSUME NEW s \in Range(Jobs)
        PROVE  Cardinality({i \in DOMAIN image : image[i] = s}) = 1
    <3>1. PICK k \in DOMAIN Jobs : Jobs[k] = s
      BY DEF Range
    <3>2. {i \in DOMAIN image : image[i] = s} = {k}
      BY <1>1, <2>1, <3>1 DEF ObjectsDiffer
    <3> QED BY <3>2, FS_Singleton
  <2> QED BY <2>2, <2>3
<1>2. BuildIInv => ImageHoldsEverySource
  BY <1>1 DEF ImageHoldsEverySource
<1> QED BY BuildInvariance, <1>2, PTL

\* In a tree of imports whose extern declarations are above the definitions,
\* the compiler exits over a duplicate only if there are two definitions.
THEOREM DuplicatesReal == DriverSpec => []DuplicatesAreReal
<1>1. ASSUME BuildIInv, phase = "duplicate", TreeOfImports, ExternsFromAbove,
             NEW i \in DOMAIN merged, Symbol(merged[i]) = Symbol(Entry),
             merged[i].decl.kind = "extern"
      PROVE  FALSE
  <2> DEFINE m == merged[i].module
             n == merged[i].decl.name
  <2>1. /\ ImportIInv /\ stage = "done" /\ ScopeIInv /\ contents \in [Files -> Modules]
        /\ programs = [k \in DOMAIN ordered |-> contents[ordered[k]]]
    BY <1>1 DEF BuildIInv, Handover
  <2>2. Typed /\ Scoped /\ Origin /\ Clash
    BY <2>1 DEF ScopeIInv
  <2>3. /\ m \in DOMAIN programs /\ m <= file /\ merged[i].decl \in DeclsOf(m)
        /\ file \in DOMAIN programs /\ m \in Nat /\ file \in Nat
    BY <1>1, <2>2, DeclTypes DEF Origin, Clash
  <2>4. n \in exported /\ n \in Names
    BY <1>1, <2>2, <2>3, DeclTypes DEF Scoped, Exported, ExternNames, Decls
  <2>5. Symbol(merged[i]) = <<Plain, n>>
    BY <1>1, <2>1, <2>3, <2>4, AllRenamed DEF Symbol
  <2>6. Entry.module = file /\ Entry.decl \in DeclsOf(file) /\ Entry.decl.kind # "extern"
    BY <1>1, <2>2 DEF Clash, Entry, DeclsOf, Range
  <2>7. Entry.decl.name = n
    <3>1. \/ Symbol(Entry) = <<programs[file].slug, Entry.decl.name>>
          \/ Symbol(Entry) = <<Plain, Entry.decl.name>>
      BY <1>1, <2>1, <2>3, <2>6, AllRenamed DEF Symbol
    <3>2. programs[file].slug # Plain
      BY <2>2, <2>3, DeclTypes, SlugAssumption
    <3> QED BY <1>1, <2>5, <3>1, <3>2
  <2>8. /\ m \in DOMAIN ordered /\ file \in DOMAIN ordered
        /\ programs[m] = contents[ordered[m]] /\ programs[file] = contents[ordered[file]]
    BY <2>1, <2>3
  <2>9. ordered[m] \in Program /\ ordered[file] \in Program
    BY <2>1, <2>8 DEF ImportIInv, MergedOnce, OnlyProgram, Range
  <2>10. Named(ordered[m], n, TRUE)
    BY <1>1, <2>3, <2>8 DEF Named, DeclsOf, Range
  <2>11. Named(ordered[file], n, FALSE)
    BY <2>6, <2>7, <2>8 DEF Named, DeclsOf, Range
  <2>12. ordered[m] # ordered[file] /\ Above(ordered[m], ordered[file])
    BY <1>1, <2>4, <2>9, <2>10, <2>11 DEF ExternsFromAbove
  <2>13. file < m
    BY <1>1, <2>1, <2>8, <2>12, BelowComesFirst
  <2> QED BY <2>3, <2>13
<1>2. ASSUME BuildIInv, phase = "duplicate"
      PROVE  \E i \in DOMAIN merged : Symbol(merged[i]) = Symbol(Entry)
  BY <1>2 DEF BuildIInv, Handover, ScopeIInv, Clash, Single
<1>3. BuildIInv => DuplicatesAreReal
  BY <1>1, <1>2 DEF DuplicatesAreReal
<1> QED BY BuildInvariance, <1>3, PTL
===============================================================================
