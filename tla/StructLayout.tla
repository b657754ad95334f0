----------------------------- MODULE StructLayout -----------------------------
(***************************************************************************)
(* Classes in compiler/codegen_x86.py: layout_struct, which gives every    *)
(* class a flat field layout in declaration order, _collect_class_methods, *)
(* which resolves inherited methods and where their receiver begins, and   *)
(* gen_method_call, which passes that receiver.  The sizes of types come   *)
(* from the table of classes laid out so far.                              *)
(*                                                                         *)
(* Class c is the c-th one declared.  What the classes declare is          *)
(* arbitrary and fixed during a run; only a class that would contain or    *)
(* inherit itself is left out.                                             *)
(***************************************************************************)
EXTENDS Integers, Sequences, SequencesExt

CONSTANTS
    N,              \* the number of classes
    FieldLists,     \* the lists of fields a class may declare
    BaseLists,      \* the lists of bases it may have
    Methods         \* method names

Classes == 1 .. N

\* `count` elements of class `cls`, or of `size` bytes if cls is 0: a scalar
\* or a pointer.  What is not an array has count 1.
Types == [cls : 0 .. N, size : {1, 2, 4, 8}, count : Nat]

ASSUME NAssumption == N \in Nat
ASSUME FieldsAssumption == FieldLists \subseteq Seq([name : STRING, type : Types])
ASSUME BasesAssumption == BaseLists \subseteq Seq(Classes)

VARIABLES
    bases, fields, methods, \* what each class declares
    phase,          \* class, fields, methods, emit; rejected
    cur,            \* the class to be laid out
    todo,           \* its fields, inherited ones first, not yet placed
    placed,         \* those that are, with their offsets
    offset,         \* the end of the last one
    structs,        \* class -> its layout, for the classes laid out
    class_methods,  \* class -> method -> its owner and the receiver's offset
    call            \* the receiver of the last method call generated

program == <<bases, fields, methods>>
vars == <<bases, fields, methods, phase, cur, todo, placed, offset, structs,
          class_methods, call>>

-----------------------------------------------------------------------------
RoundUp(n, a) == ((n + a - 1) \div a) * a

\* get_type_size: a class that is not in the table yet counts as 8 bytes.
ElemSize(t) == IF t.cls = 0 THEN t.size
               ELSE IF t.cls \in DOMAIN structs THEN structs[t.cls].total ELSE 8
Size(t) == t.count * ElemSize(t)

\* natural_align: at most 8, at least 1 for a class without fields.
Align(t) == CASE ElemSize(t) = 0 -> 1
              [] ElemSize(t) > 8 -> 8
              [] OTHER -> ElemSize(t)

\* Where a field of type t goes after one that ends at n, and where it ends.
\* A slip: an array counts as one element.
Start(n, t) == RoundUp(n, Align(t))
EndElem(at, t) == at + ElemSize(t)
End(at, t) == at + Size(t)

\* A slip: the class's own fields first.
FlatOwnFirst == LET flat[d \in 0 .. N] ==
              [c \in Classes |-> IF d = 0 THEN <<>>
                  ELSE fields[c] \o
                       FlattenSeq([i \in DOMAIN bases[c] |-> flat[d - 1][bases[c][i]]])]
        IN  flat[N]

\* _collect_inherited: the fields of the bases, depth first and left to
\* right, then the class's own.  d bounds the depth of the hierarchy.
Flat == LET flat[d \in 0 .. N] ==
              [c \in Classes |-> IF d = 0 THEN <<>>
                  ELSE FlattenSeq([i \in DOMAIN bases[c] |-> flat[d - 1][bases[c][i]]])
                       \o fields[c]]
        IN  flat[N]

\* end_of_fields: where the last field of class c ends, without the padding.
EndOfFields(c) ==
    LET fs == Flat[c]
        end[i \in 0 .. Len(fs)] ==
            IF i = 0 THEN 0 ELSE End(Start(end[i - 1], fs[i].type), fs[i].type)
    IN  end[Len(fs)]

\* Only programs whose classes have a size: no class contains or inherits
\* itself, directly or not.
Uses(c) == {bases[c][i] : i \in DOMAIN bases[c]}
           \cup {fields[c][i].type.cls : i \in DOMAIN fields[c]}
WellFounded == ~ \E S \in (SUBSET Classes) \ {{}} : \A c \in S : Uses(c) \cap S # {}

NoCall == [cls |-> 0]

Init == /\ bases \in [Classes -> BaseLists]
        /\ fields \in [Classes -> FieldLists]
        /\ WellFounded
        /\ methods \in [Classes -> SUBSET Methods]
        /\ phase = "class" /\ cur = 1
        /\ todo = <<>> /\ placed = <<>> /\ offset = 0
        /\ structs = <<>>
        /\ class_methods = <<>>
        /\ call = NoCall

(***************************************************************************)
(* layout_struct                                                           *)
(***************************************************************************)
StartClass == /\ phase = "class" /\ cur <= N
              /\ phase' = "fields"
              /\ todo' = Flat[cur] /\ placed' = <<>> /\ offset' = 0
              /\ UNCHANGED <<program, cur, structs, class_methods, call>>

SeenNames == {placed[i].name : i \in DOMAIN placed}

PlaceField ==
    /\ phase = "fields" /\ todo # <<>>
    /\ LET f  == Head(todo)
           at == Start(offset, f.type)
       IN  /\ f.name \notin SeenNames
           /\ placed' = Append(placed, [name |-> f.name, type |-> f.type, offset |-> at])
           /\ offset' = End(at, f.type)
    /\ todo' = Tail(todo)
    /\ UNCHANGED <<program, phase, cur, structs, class_methods, call>>

\* A field inherited twice, or declared again: CodeGenError.
DuplicateField == /\ phase = "fields" /\ todo # <<>>
                  /\ Head(todo).name \in SeenNames
                  /\ phase' = "rejected"
                  /\ UNCHANGED <<program, cur, todo, placed, offset, structs,
                                 class_methods, call>>

Total == RoundUp(offset, 8)

FinishClass == /\ phase = "fields" /\ todo = <<>>
               /\ structs' = Append(structs, [fields |-> placed, total |-> Total])
               /\ cur' = cur + 1
               /\ phase' = "class"
               /\ UNCHANGED <<program, todo, placed, offset, class_methods, call>>

(***************************************************************************)
(* _collect_class_methods.  A method comes from the class itself or else   *)
(* from the last base that has it: each base overwrites the entries of     *)
(* those before it.  base_table's offset is bumped by the span of the      *)
(* bases to the left.                                                      *)
(***************************************************************************)
NoBump(c, i) == 0       \* a slip
Span(c, i) == \* running_offset at the i-th base of c
    LET run[k \in 0 .. i - 1] ==
            IF k = 0 THEN 0 ELSE run[k - 1] + EndOfFields(bases[c][k])
    IN  run[i - 1]

\* A slip: an inherited method is put over the class's own.
OverridesLate(c, m) == m \in methods[c] /\ bases[c] = <<>>
Overrides(c, m) == m \in methods[c]

\* The table of class c, when h has those of its bases.
From(c, h, m) == {i \in DOMAIN bases[c] : m \in DOMAIN h[bases[c][i]]}
LastFrom(c, h, m) == CHOOSE i \in From(c, h, m) : \A j \in From(c, h, m) : j <= i
Table(c, h) ==
    [m \in methods[c] \cup UNION {DOMAIN h[bases[c][i]] : i \in DOMAIN bases[c]} |->
        IF Overrides(c, m) \/ From(c, h, m) = {}
          THEN [owner |-> c, offset |-> 0]
          ELSE LET i == LastFrom(c, h, m)
                   entry == h[bases[c][i]][m]
               IN  [owner |-> entry.owner, offset |-> Span(c, i) + entry.offset]]

Resolve == LET table[d \in 0 .. N] ==
                 [c \in Classes |-> IF d = 0 THEN [m \in {} |-> 0] ELSE Table(c, table[d - 1])]
           IN  table[N]

CollectMethods == /\ phase = "class" /\ cur > N
                  /\ phase' = "emit"
                  /\ class_methods' = Resolve
                  /\ UNCHANGED <<program, cur, todo, placed, offset, structs, call>>

(***************************************************************************)
(* gen_method_call, on a variable of class c or through a Ptr[c].  The     *)
(* receiver is `&obj + offset` or `ptr + offset`, built as an ADD node     *)
(* that gen_binary lowers: with a pointer it scales by the class's size.   *)
(***************************************************************************)
Bump(c, at, ptr) == IF ptr /\ Size([cls |-> c, size |-> 8, count |-> 1]) > 1
                      THEN at * structs[c].total ELSE at

MethodCall(c, m, ptr) ==
    /\ phase = "emit"
    /\ m \in DOMAIN class_methods[c]
    /\ LET entry == class_methods[c][m]
       IN  call' = [cls |-> c, method |-> m, ptr |-> ptr, owner |-> entry.owner,
                    offset |-> entry.offset, bump |-> Bump(c, entry.offset, ptr)]
    /\ UNCHANGED <<program, phase, cur, todo, placed, offset, structs, class_methods>>

Next == \/ StartClass \/ PlaceField \/ DuplicateField \/ FinishClass
        \/ CollectMethods
        \/ \E c \in Classes, m \in Methods, ptr \in BOOLEAN : MethodCall(c, m, ptr)

Spec == Init /\ [][Next]_vars

-----------------------------------------------------------------------------
\* The classes of all fields are laid out before the class that has them,
\* those of inherited fields included.
TypesFirst == \A c \in Classes : \A i \in DOMAIN Flat[c] : Flat[c][i].type.cls < c

Fields(c) == structs[c].fields
Bytes(f) == f.offset .. f.offset + Size(f.type) - 1

\* No two fields of an object overlap and all of them lie inside it, so an
\* element of an array never runs into the next one.
Apart(c) == /\ \A i, j \in DOMAIN Fields(c) :
                  i # j => Bytes(Fields(c)[i]) \cap Bytes(Fields(c)[j]) = {}
            /\ \A i \in DOMAIN Fields(c) :
                  Bytes(Fields(c)[i]) \subseteq 0 .. structs[c].total - 1

\* In a program that declares each class after the classes its fields are
\* made of, inherited fields included, fields never overlap, as seen with
\* the sizes the code generator uses afterwards (layout_struct).
FieldsApart == TypesFirst => \A c \in DOMAIN structs : Apart(c)

\* An object of a derived class starts with an object of its first base:
\* "Ptr[Derived] is bit-identical to Ptr[Base] at offset 0" (lines 691-694).
FirstBasePrefix ==
    TypesFirst => \A c \in DOMAIN structs :
        bases[c] # <<>> /\ bases[c][1] \in DOMAIN structs =>
            IsPrefix(Fields(bases[c][1]), Fields(c))

\* The receiver of an inherited method points at an object of the class that
\* declared it: each field of that class is where its code will look for it.
ReceiverFits ==
    \A i \in DOMAIN Fields(call.owner) : \E j \in DOMAIN Fields(call.cls) :
        LET f == Fields(call.owner)[i]
            g == Fields(call.cls)[j]
        IN  g.name = f.name /\ g.type = f.type /\ g.offset = call.bump + f.offset

\* That holds when the object is a variable, or at offset 0 in any case, as
\* long as the fields of every class end on a whole word.
WholeWords == \A c \in Classes : EndOfFields(c) % 8 = 0
ReceiverInWords ==
    call # NoCall /\ TypesFirst /\ WholeWords /\ (call.ptr => call.offset = 0) =>
        ReceiverFits

\* Whichever class supplies an inherited method, no class between it and the
\* receiver's class declares that method again, unless the class is reached
\* through two bases ("the child's own methods OVERRIDE inherited names").
Derives == LET up[d \in 0 .. N] == [c \in Classes |->
                 IF d = 0 THEN {} ELSE {c} \cup UNION {up[d - 1][bases[c][i]] :
                                                         i \in DOMAIN bases[c]}]
           IN  up[N]     \* class -> itself and its ancestors
OnePath == \A c \in Classes : \A i, j \in DOMAIN bases[c] :
              i # j => Derives[bases[c][i]] \cap Derives[bases[c][j]] = {}
NearestOwner ==
    call # NoCall /\ OnePath =>
        /\ call.method \in methods[call.owner]
        /\ \A d \in Derives[call.cls] :
              call.owner \in Derives[d] /\ call.method \in methods[d] => d = call.owner

\* "Pointer arithmetic in Adder is un-scaled (byte arithmetic) - just add
\* the byte offset" (lines 2969-2970): so a call through a pointer works
\* wherever the same call on a variable does.
ReceiverOfPointer == call # NoCall /\ TypesFirst /\ WholeWords /\ call.ptr => ReceiverFits

==============================================================================
