------------------------------ MODULE ModuleScope ------------------------------
(***************************************************************************)
(* Names across files: resolve_module_scopes and merge_programs of         *)
(* compiler/adder.py.  Names with a leading underscore are mangled with    *)
(* their module's slug unless some file imports or declares them extern,   *)
(* references are rewritten to match, and the declarations are merged into *)
(* one program in which a symbol may be defined once.                      *)
(*                                                                         *)
(* What the files declare is arbitrary and fixed during a run; they come   *)
(* in the order ImportOrder finds.  A symbol is a pair: the slug it was    *)
(* mangled with, Plain if it was not, and the source name.                 *)
(***************************************************************************)
EXTENDS Integers, Sequences, SequencesExt

CONSTANTS
    Names,          \* top-level and local names
    Private,        \* those with a leading underscore
    Reserved,       \* _CODEGEN_RESERVED_SYMBOLS
    Slugs,          \* module paths with their dots replaced by underscores
    Plain,          \* the slug of a name that is not mangled
    Modules         \* what a file may be: its slug, imported names, declarations

\* A function has one body, a class one for each method, an extern
\* declaration none.  A body binds some names and refers to some.
Bodies == [locals : SUBSET Names, refs : SUBSET Names]
Decls  == [kind : {"def", "class", "extern"}, name : Names, bodies : Seq(Bodies)]

ASSUME NamesAssumption == Private \subseteq Names /\ Reserved \subseteq Private
ASSUME SlugAssumption == Plain \notin Slugs
ASSUME ModulesAssumption ==
    \A m \in Modules : /\ m.slug \in Slugs /\ m.imported \subseteq Names
                       /\ m.decls \in Seq(Decls)

VARIABLES
    programs,   \* the parsed files, in merge order
    phase,      \* export, scope, merge, done; duplicate: the compiler exits
    exported,   \* names that stay as they are
    renames,    \* for each module scoped so far: private name -> symbol
    file, next, \* the loops of the merge: file, and declaration in it
    merged,     \* declarations merged so far, with their modules
    seen        \* symbols in seen_names

vars == <<programs, phase, exported, renames, file, next, merged, seen>>

Symbols == (Slugs \cup {Plain}) \X Names
AsWritten(n) == <<Plain, n>>

DeclsOf(m) == Range(programs[m].decls)
Owned(m) == {d.name : d \in {e \in DeclsOf(m) : e.kind # "extern"}}

-----------------------------------------------------------------------------
Init == /\ programs \in Seq(Modules)
        /\ phase = "export"
        /\ exported = {} /\ renames = <<>>
        /\ file = 1 /\ next = 1 /\ merged = <<>> /\ seen = {}

\* _collect_exported_names: over all files, before any of them is scoped.
ImportedNames == UNION {programs[m].imported : m \in DOMAIN programs}
ExternNames == {d.name : d \in {e \in UNION {DeclsOf(m) : m \in DOMAIN programs} :
                                   e.kind = "extern"}}

\* A slip: importing a name does not export it.
ExternsOnly == Reserved \cup ExternNames
Exported == Reserved \cup ImportedNames \cup ExternNames

CollectExports == /\ phase = "export"
                  /\ phase' = "scope"
                  /\ exported' = Exported
                  /\ UNCHANGED <<programs, renames, file, next, merged, seen>>

\* The rename map of module m.
Mangle(m, n) == <<programs[m].slug, n>>
RenameMap(m) == [n \in (Owned(m) \cap Private) \ exported |-> Mangle(m, n)]

ScopeModule ==
    LET m == Len(renames) + 1 IN
    /\ phase = "scope" /\ m \in DOMAIN programs
    /\ renames' = Append(renames, RenameMap(m))
    /\ UNCHANGED <<programs, phase, exported, file, next, merged, seen>>

AllScoped == /\ phase = "scope" /\ Len(renames) = Len(programs)
             /\ phase' = "merge"
             /\ UNCHANGED <<programs, exported, renames, file, next, merged, seen>>

Renamed(m, n) == IF n \in DOMAIN renames[m] THEN renames[m][n] ELSE AsWritten(n)
Symbol(entry) == Renamed(entry.module, entry.decl.name)

\* The declaration the merge has come to.
More == phase = "merge" /\ file \in DOMAIN programs /\ next \in DOMAIN programs[file].decls
Entry == [module |-> file, decl |-> programs[file].decls[next]]

Keep == /\ More
        /\ Symbol(Entry) \notin seen
        /\ seen' = seen \cup {Symbol(Entry)}
        /\ merged' = Append(merged, Entry)
        /\ next' = next + 1
        /\ UNCHANGED <<programs, phase, exported, renames, file>>

\* A slip: whatever is declared already is dropped.
DropRepeated == /\ More
                /\ Symbol(Entry) \in seen
                /\ next' = next + 1
                /\ UNCHANGED <<programs, phase, exported, renames, file, merged, seen>>

\* A repeated extern declaration, or one of something defined before.
DropExtern == /\ More
              /\ Symbol(Entry) \in seen
              /\ Entry.decl.kind = "extern"
              /\ next' = next + 1
              /\ UNCHANGED <<programs, phase, exported, renames, file, merged, seen>>

\* "duplicate top-level definition"
Duplicate == /\ More
             /\ Symbol(Entry) \in seen
             /\ Entry.decl.kind # "extern"
             /\ phase' = "duplicate"
             /\ UNCHANGED <<programs, exported, renames, file, next, merged, seen>>

NextFile == /\ phase = "merge" /\ file \in DOMAIN programs
            /\ next > Len(programs[file].decls)
            /\ file' = file + 1 /\ next' = 1
            /\ UNCHANGED <<programs, phase, exported, renames, merged, seen>>

Finish == /\ phase = "merge" /\ file > Len(programs)
          /\ phase' = "done"
          /\ UNCHANGED <<programs, exported, renames, file, next, merged, seen>>

Next == CollectExports \/ ScopeModule \/ AllScoped \/ Keep \/ DropExtern
        \/ Duplicate \/ NextFile \/ Finish

Spec == Init /\ [][Next]_vars

-----------------------------------------------------------------------------
(***************************************************************************)
(* _rewrite_refs, and what a reference then reaches.  _collect_local_names *)
(* gathers the names bound anywhere in the declaration; the code generator *)
(* looks a name up among the locals of the body at hand, then among the    *)
(* merged declarations, and leaves the rest to the linker.                 *)
(***************************************************************************)
BoundIn(d) == UNION {d.bodies[b].locals : b \in DOMAIN d.bodies}

\* A slip: one shadow set for the whole file.
ShadowFile(m, d) == UNION {BoundIn(e) : e \in DeclsOf(m)}
Shadow(m, d) == BoundIn(d)
Rewritten(m, d, n) == IF n \in Shadow(m, d) THEN AsWritten(n) ELSE Renamed(m, n)

Undefined == 0
Local == -1
DefinedBy(s) == \* the module that defines s
    IF \E i \in DOMAIN merged : merged[i].decl.kind # "extern" /\ Symbol(merged[i]) = s
    THEN (CHOOSE e \in Range(merged) : e.decl.kind # "extern" /\ Symbol(e) = s).module
    ELSE Undefined
Reaches(m, d, body, n) ==
    LET s == Rewritten(m, d, n)
    IN  IF s = AsWritten(n) /\ n \in body.locals THEN Local ELSE DefinedBy(s)

\* Every reference of the program: Good(module, declaration, body, name).
EveryReference(Good(_, _, _, _)) ==
    phase = "done" =>
        \A m \in DOMAIN programs : \A d \in DeclsOf(m) : \A b \in DOMAIN d.bodies :
            \A n \in d.bodies[b].refs : Good(m, d, d.bodies[b], n)

\* The tables hold what their names say.
TypeOK == /\ phase \in {"export", "scope", "merge", "done", "duplicate"}
          /\ exported \subseteq Names
          /\ Len(renames) <= Len(programs)
          /\ \A m \in DOMAIN renames : /\ DOMAIN renames[m] \subseteq Private
                                       /\ \A n \in DOMAIN renames[m] : renames[m][n] \in Symbols
          /\ seen \subseteq Symbols
          /\ \A i \in DOMAIN merged : Symbol(merged[i]) \in seen
          /\ \A i, j \in DOMAIN merged : i # j => Symbol(merged[i]) # Symbol(merged[j])

\* No definition is dropped: once merged, the program holds every function,
\* variable and class of every file ("silent dedup once meant two modules
\* each defined _find_free_slot, the second was silently dropped", lines
\* 399-401).
NothingDropped ==
    phase = "done" =>
        \A m \in DOMAIN programs : \A d \in DeclsOf(m) :
            d.kind # "extern" => [module |-> m, decl |-> d] \in Range(merged)

\* A reference to a name its own file defines, private or not, reaches that
\* definition and no namesake, unless a body of the same declaration binds
\* the name (lines 141-145).
OwnDefinition ==
    EveryReference(LAMBDA m, d, body, n :
        n \in Owned(m) \ BoundIn(d) => Reaches(m, d, body, n) = m)

\* A private name that a file imports or declares extern, and that some
\* other file defines, reaches that definition ("the import statement is
\* itself the export annotation", lines 147-156).
CrossModuleNames ==
    EveryReference(LAMBDA m, d, body, n :
        /\ n \in Private \ (Owned(m) \cup BoundIn(d))
        /\ n \in programs[m].imported
             \/ \E e \in DeclsOf(m) : e.kind = "extern" /\ e.name = n
        /\ \E k \in DOMAIN programs : n \in Owned(k)
        => Reaches(m, d, body, n) # Undefined)

\* "a _helper in one .ad file never collides with a _helper in another"
\* (lines 142-143): the compiler only exits over a private name if a file
\* of the same slug has declared it too.
PrivateNeverClash ==
    phase = "duplicate" /\ Entry.decl.name \in Private \ exported =>
        \E i \in DOMAIN merged : /\ merged[i].decl.name = Entry.decl.name
                                 /\ programs[merged[i].module].slug = programs[file].slug
==============================================================================
