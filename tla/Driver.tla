-------------------------------- MODULE Driver --------------------------------
(***************************************************************************)
(* One build (compiler/adder.py, cmd_compile): the files of the program    *)
(* are collected (ImportOrder), their declarations merged in the order     *)
(* found (ModuleScope), code is generated, and the assembler and the       *)
(* linker are run.  The external tools succeed or fail as they like.       *)
(*                                                                         *)
(* An assembly source has a stem, and a number that tells the .S files the *)
(* kernel build picks up apart; an object file is named by a stem alone,   *)
(* for they all are in one temporary directory.                            *)
(***************************************************************************)
EXTENDS ImportOrder, ModuleScope

CONSTANTS
    Stems,          \* names of assembly sources without their .S
    ExtraLists      \* lists of stems: the .S files the roots may hold, sorted

ASSUME StemsAssumption == ExtraLists \subseteq Seq(Stems)

Targets == {"kbuild", "bare", "user"}

VARIABLES
    contents,       \* file -> what it declares
    target,
    extra_s,        \* the stems of the .S files to be picked up
    assembled,      \* how many jobs of the assembler are done
    objects,        \* object file -> the source it was last made from
    image,          \* the sources linked, in order
    result          \* "", then ok or failed

buildVars == <<contents, target, extra_s, assembled, objects, image, result>>

-----------------------------------------------------------------------------
DriverInit ==
    /\ ImportInit
    /\ contents \in [Files -> Modules]
    /\ programs = <<>> /\ phase = "collect"
    /\ exported = {} /\ renames = <<>>
    /\ file = 1 /\ next = 1 /\ merged = <<>> /\ seen = {}
    /\ target \in Targets
    /\ extra_s \in ExtraLists
    /\ assembled = 0 /\ objects = [o \in {} |-> {}] /\ image = <<>> /\ result = ""

\* collect_all_imports has returned; merge_programs parses the files again.
ParseProgram ==
    /\ phase = "collect" /\ stage = "done"
    /\ programs' = [i \in DOMAIN ordered |-> contents[ordered[i]]]
    /\ phase' = "export"
    /\ UNCHANGED <<exported, renames, file, next, merged, seen, importVars, buildVars>>

(***************************************************************************)
(* Assembling and linking.                                                 *)
(***************************************************************************)
Source(stem, n) == [stem |-> stem, number |-> n]
Compiled == Source("hamnix_main", 0)
Extras == [i \in DOMAIN extra_s |-> Source(extra_s[i], i)]

ObjectOf(s) == IF s = Compiled THEN "main" ELSE s.stem

Jobs == IF target = "bare"
          THEN <<Source("header", 0), Source("head_64", 0), Compiled>> \o Extras
          ELSE <<Source("runtime", 0), Source("progname", 0), Compiled>>

\* A slip: the objects of the .S files that were picked up are forgotten.
LinkFixed == IF target = "bare" THEN <<"header", "head_64", "main">>
                                ELSE <<"progname", "runtime", "main">>
LinkList == IF target = "bare"
              THEN <<"header", "head_64", "main">> \o [i \in DOMAIN Extras |-> ObjectOf(Extras[i])]
              ELSE <<"progname", "runtime", "main">>

\* The program is merged, and code can be generated for it.  For the Linux
\* kernel's own build the assembly source is all that is wanted.
Building == phase = "done" /\ result = "" /\ UNCHANGED <<importVars, vars, contents, target, extra_s>>

EmitOnly == /\ Building /\ target = "kbuild"
            /\ image' = <<Compiled>> /\ result' = "ok"
            /\ UNCHANGED <<assembled, objects>>

Assemble == /\ Building /\ target # "kbuild" /\ assembled < Len(Jobs)
            /\ LET s == Jobs[assembled + 1]
               IN  objects' = [o \in DOMAIN objects \cup {ObjectOf(s)} |->
                                 IF o = ObjectOf(s) THEN s ELSE objects[o]]
            /\ assembled' = assembled + 1
            /\ UNCHANGED <<image, result>>

Link == /\ Building /\ target # "kbuild" /\ assembled = Len(Jobs)
        /\ image' = [i \in DOMAIN LinkList |-> objects[LinkList[i]]]
        /\ result' = "ok"
        /\ UNCHANGED <<assembled, objects>>

\* CodeGenError, or a tool that is missing or returns an error.
BuildFails == /\ Building
              /\ result' = "failed"
              /\ UNCHANGED <<assembled, objects, image>>

DriverNext == \/ ImportNext /\ UNCHANGED <<vars, buildVars>>
              \/ ParseProgram
              \/ Next /\ UNCHANGED <<importVars, buildVars>>
              \/ EmitOnly \/ Assemble \/ Link \/ BuildFails

allVars == <<importVars, vars, buildVars>>

\* One sequential process, whose tools return.
DriverSpec == DriverInit /\ [][DriverNext]_allVars /\ WF_allVars(DriverNext)

-----------------------------------------------------------------------------
(***************************************************************************)
(* The order of the merge and what it does to extern declarations: when    *)
(* the imports form a tree, and a name is declared extern only by files    *)
(* that import its definition, directly or not, the compiler exits over a  *)
(* duplicate only if there really are two definitions (lines 446-461).     *)
(***************************************************************************)
ImportsOf(f) == UNION {{<<g, i>> : i \in {k \in DOMAIN imports[g] : imports[g][k] = f}} : g \in Program}
TreeOfImports == \A f \in Program : Cardinality(ImportsOf(f)) = IF f = main THEN 0 ELSE 1

Above(f, g) == \A S \in SUBSET Files : f \in S /\ Closed(S) => g \in S   \* f imports g in the end
Named(f, n, ext) == \E i \in DOMAIN contents[f].decls :
                        /\ contents[f].decls[i].name = n
                        /\ (contents[f].decls[i].kind = "extern") <=> ext
ExternsFromAbove ==
    \A f, g \in Program : \A n \in Names :
        Named(f, n, TRUE) /\ Named(g, n, FALSE) => f # g /\ Above(f, g)

DuplicatesAreReal ==
    phase = "duplicate" /\ TreeOfImports /\ ExternsFromAbove =>
        \E i \in DOMAIN merged : merged[i].decl.kind # "extern" /\ Symbol(merged[i]) = Symbol(Entry)

\* A kernel image holds every source exactly once, header.S in front ("drop
\* a new file in and rebuild", lines 540-542; "Order matters", line 583), as
\* long as no two object files have the same name.
ObjectsDiffer == \A i, j \in DOMAIN Jobs : i # j => ObjectOf(Jobs[i]) # ObjectOf(Jobs[j])
ImageHoldsEverySource ==
    result = "ok" /\ target = "bare" /\ ObjectsDiffer =>
        /\ image[1] = Source("header", 0)
        /\ \A s \in Range(Jobs) : Cardinality({i \in DOMAIN image : image[i] = s}) = 1

\* Every build ends, whatever the import graph.
BuildEnds == <>(stage = "failed" \/ phase = "duplicate" \/ result # "")
===============================================================================
