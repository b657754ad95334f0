----------------------------- MODULE MCDataLayout -----------------------------
(* Small instances of StructLayout and DataLayout for TLC. *)
EXTENDS MCStructLayout, DataLayout

None == [kind |-> "none"]
Word == [kind |-> "int"]
String(n) == [kind |-> "string", length |-> n]
Global(t, p, v) == [type |-> t, percpu |-> p, value |-> v]

MCTypes == {Scalar(1), Scalar(4), Scalar(8), Array(3, Scalar(1)), Array(2, Scalar(8)), Class(1), Array(2, Class(2))}
MCGlobals ==
    {Global(t, p, None) : t \in MCTypes, p \in BOOLEAN}
    \cup {Global(t, p, Word) : t \in {Scalar(4), Scalar(8), Array(3, Scalar(1))}, p \in BOOLEAN}
    \cup {Global(Scalar(8), p, [kind |-> "name"]) : p \in BOOLEAN}
    \cup {Global(Scalar(4), FALSE, [kind |-> "name"])}
    \cup {Global(Array(3, Scalar(1)), FALSE, String(n)) : n \in {2, 4}}

\* Any two of them, or three of those that differ in the section, the size or
\* the alignment.
MCMixed ==
    {Global(t, p, None) : t \in {Scalar(1), Scalar(8), Array(3, Scalar(1)), Class(1)}, p \in BOOLEAN}
    \cup {Global(Scalar(4), p, Word) : p \in BOOLEAN}
    \cup {Global(Array(3, Scalar(1)), FALSE, String(2))}
MCGlobalLists == SeqOf(MCGlobals, 2) \cup [1 .. 3 -> MCMixed]

\* Globals are declared beside classes of a byte, or of a word and a byte,
\* that inherit nothing.
PlainFields == {<<Field("a", Scalar(1))>>, <<Field("b", Scalar(8)), Field("c", Scalar(1))>>}
MCAllFields == MCFieldLists \cup PlainFields
Beside == /\ globals \in MCGlobalLists
          /\ bases = [c \in Classes |-> <<>>]
          /\ fields \in [Classes -> PlainFields \cup {<<>>}]
          /\ \A c \in Classes : fields[c] = <<>> <=> c = N
          /\ methods = [c \in Classes |-> {}]

\* Without globals: classes without a method and any fields, or classes with
\* a method somewhere and, where they have fields, whole words of them.
Acyclic(b) == \A S \in (SUBSET Classes) \ {{}} : \E c \in S : Range(b[c]) \cap S = {}
Hierarchies == {b \in [Classes -> MCBaseLists] : Acyclic(b)}
Whole == {<<>>, <<Field("b", Scalar(8))>>, <<Field("c", Array(9, Scalar(1))), Field("d", Scalar(4))>>}
         \cup {<<Field("g", Array(2, Class(c))), Field("h", Scalar(8))>> : c \in Classes}
Alone == /\ globals = <<>>
         /\ bases \in Hierarchies
         /\ \/ methods = [c \in Classes |-> {}] /\ fields \in [Classes -> MCFieldLists]
            \/ /\ methods \in [Classes -> SUBSET Methods] /\ \E c \in Classes : methods[c] # {}
               /\ fields \in [Classes -> Whole]

MCInit == (Alone \/ Beside) /\ Init /\ DataInit
MCSpec == MCInit /\ [][Step]_<<vars, dataVars>>
==============================================================================
