---------------------------- MODULE MCStructLayout ----------------------------
(* Small instances of StructLayout for TLC. *)
EXTENDS StructLayout

Scalar(n) == [cls |-> 0, size |-> n, count |-> 1]
Class(c) == [cls |-> c, size |-> 8, count |-> 1]
Array(k, t) == [t EXCEPT !.count = k]
Field(n, t) == [name |-> n, type |-> t]

\* Nothing, a byte, a word, an array of odd length, an object after a byte,
\* an array of objects before a word.  Two classes may declare one name.
MCFieldLists ==
    {<<>>,
     <<Field("a", Scalar(1))>>,
     <<Field("b", Scalar(8))>>,
     <<Field("c", Array(9, Scalar(1))), Field("d", Scalar(4))>>}
    \cup {<<Field("e", Scalar(1)), Field("f", Class(c))>> : c \in Classes}
    \cup {<<Field("g", Array(2, Class(c))), Field("h", Scalar(8))>> : c \in Classes}

MCBaseLists == {s \in SeqOf(Classes, 2) : Len(s) = 2 => s[1] # s[2]}
===============================================================================
