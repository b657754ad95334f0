------------------------------- MODULE MCDriver -------------------------------
(* Small instances of Driver for TLC. *)
EXTENDS Driver

CONSTANTS f, g, h

\* At most two imports, of any file (itself too) or of nothing known.
MCImportLists == SeqOf(Files \cup {Missing}, 2)

Body(locals, refs) == [locals |-> locals, refs |-> refs]
Def(n, body) == [kind |-> "def", name |-> n, bodies |-> <<body>>]
Class(n, bodies) == [kind |-> "class", name |-> n, bodies |-> bodies]
Extern(n) == [kind |-> "extern", name |-> n, bodies |-> <<>>]

\* A user of the private name "_q" in a function of its own, in a function
\* that also binds it, and in a class one of whose methods binds it.
Users == {Def("f", Body({}, {"_q"})),
          Def("f", Body({"_q"}, {"_q"})),
          Class("f", <<Body({"_q"}, {"_q"}), Body({}, {"_q"})>>)}

Helper == Def("_q", Body({}, {}))
Caller == Def("g", Body({}, {"_q"}))
MainDecls == {<<>>} \cup {<<u>> : u \in Users}
             \cup {<<d, u>> : d \in {Helper, Extern("_q")}, u \in Users}
MCDecls == MainDecls
           \cup {<<Helper>>, <<Extern("_q")>>, <<Caller>>, <<Extern("_q"), Helper>>,
                 <<Helper, Helper>>, <<Def("_s", Body({}, {"_q"}))>>,
                 <<Helper, Def("f", Body({"_q"}, {"_q"})), Caller>>}

\* Each of these slugs is that of a/b/c.ad, a/b_c.ad, a_b/c.ad and a_b_c.ad,
\* so several files may share one.
MCSlugs == {"a_b_c", "d_e_f"}

Privates == [slug : MCSlugs, imported : {{}, {"_q"}}, decls : MCDecls]

\* Files that define a public name, declare it extern, or do neither.
Empty == [slug |-> "a_b_c", imported |-> {}, decls |-> <<>>]
Publics == {[Empty EXCEPT !.decls = ds] : ds \in {<<>>, <<Caller>>, <<Extern("g")>>}}

MCModules == Privates \cup Publics
MCExtraLists == SeqOf({"a", "b", "main"}, 3)

-----------------------------------------------------------------------------
(***************************************************************************)
(* Four kinds of builds: any import graph; contents of three files that    *)
(* import one another in a row, the last to be merged a user of the        *)
(* private name, one of the others anything and one of them at most a      *)
(* declaration; any graph without self-imports over files that share a     *)
(* public name; and all that can be linked.                                *)
(***************************************************************************)
Chain == f :> <<g>> @@ g :> <<h>> @@ h :> <<>>

OtherImports == {i \in [Files -> SeqOf(Files, 2)] : \A p \in Files : p \notin Range(i[p])}

EmitsOnly == target = "kbuild" /\ extra_s = <<>>
Graphs == EmitsOnly /\ contents = [p \in Files |-> Empty]
FewDecls == {<<>>, <<Helper>>, <<Extern("_q")>>, <<Caller>>}
Contents == /\ EmitsOnly /\ main = f /\ imports = Chain
            /\ contents \in [Files -> Privates]
            /\ contents[f].slug = "a_b_c" /\ contents[f].decls \in MainDecls
           /\ \E p \in {g, h} : contents[p].decls \in FewDecls
Externs == /\ EmitsOnly /\ main = f /\ imports \in OtherImports
           /\ contents \in [Files -> Publics]
Links == /\ main = f /\ imports = [p \in Files |-> <<>>]
         /\ contents = [p \in Files |-> Empty] /\ target \in {"bare", "user"}

MCInit == (Graphs \/ Contents \/ Externs \/ Links) /\ DriverInit
MCSpec == MCInit /\ [][DriverNext]_allVars /\ WF_allVars(DriverNext)
===============================================================================
