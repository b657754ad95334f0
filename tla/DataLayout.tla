------------------------------ MODULE DataLayout ------------------------------
(***************************************************************************)
(* Global variables in compiler/codegen_x86.py: once the classes are laid  *)
(* out, pass 1 of gen_program gives every per-CPU variable its offset in   *)
(* the per-CPU area, and gen_data emits the variables, section by section. *)
(* Code finds a global by its label, a per-CPU variable by its offset; at  *)
(* boot each CPU's area is a copy of the per-CPU section.                  *)
(*                                                                         *)
(* An address is the number of bytes emitted before it in its section,     *)
(* which begins on a multiple of 8.                                        *)
(***************************************************************************)
EXTENDS StructLayout, FiniteSetsExt

CONSTANT GlobalLists    \* the lists of globals a program may declare

\* The initialiser: none, an integer, a function's name, or a string of
\* `length` bytes.
Values == [kind : {"none", "int", "name"}] \cup [kind : {"string"}, length : Nat]

VarDecls == [type : Types, percpu : BOOLEAN, value : Values]

ASSUME GlobalsAssumption == GlobalLists \subseteq Seq(VarDecls)

VARIABLES
    globals,            \* what the program declares, in order
    next,               \* the next declaration of pass 1
    percpu_offsets,     \* per-CPU variable -> its offset
    percpu_size,        \* where the last one ends
    todoData,           \* the globals still to be emitted
    at,                 \* global -> where its label is
    sections,           \* section -> the number of bytes in it
    cursor              \* where gen_data thinks it is in the per-CPU section

dataVars == <<globals, next, percpu_offsets, percpu_size, todoData, at, sections, cursor>>

-----------------------------------------------------------------------------
With(f, x, v) == [y \in DOMAIN f \cup {x} |-> IF y = x THEN v ELSE f[y]]

Aggregate(t) == t.count # 1 \/ t.cls # 0
SectionOf(g) == CASE g.percpu -> "percpu"
                  [] ~g.percpu /\ g.value.kind = "none" -> "bss"
                  [] OTHER -> "data"

\* gen_data's lists: initialised globals, then the others, each in the order
\* they are declared in; then per-CPU variables by their offsets, of those
\* with one offset the initialised ones first.
Rank(i) == CASE SectionOf(globals[i]) = "data" -> <<0, 0, 0>>
             [] SectionOf(globals[i]) = "bss" -> <<1, 0, 0>>
             [] OTHER -> <<2, percpu_offsets[i], IF globals[i].value.kind = "none" THEN 1 ELSE 0>>
Earlier(i, j) ==
    LET r == Rank(i) \o <<i>>
        s == Rank(j) \o <<j>>
    IN  \E k \in 1 .. 4 : r[k] < s[k] /\ \A l \in 1 .. k - 1 : r[l] = s[l]

DataInit ==
    /\ globals \in GlobalLists
    /\ next = 1
    /\ percpu_offsets = [i \in {} |-> 0] /\ percpu_size = 0
    /\ todoData = DOMAIN globals
    /\ at = [i \in {} |-> 0]
    /\ sections = [s \in {"data", "bss", "percpu"} |-> 0]
    /\ cursor = 0

(***************************************************************************)
(* gen_program, pass 1.                                                    *)
(***************************************************************************)
PassGlobal ==
    /\ phase = "emit" /\ next <= Len(globals)
    /\ ~globals[next].percpu
    /\ next' = next + 1
    /\ UNCHANGED <<globals, percpu_offsets, percpu_size, todoData, at, sections, cursor>>

PercpuPacked(t) == percpu_size                          \* a slip
PercpuOffset(t) == RoundUp(percpu_size, Align(t))

AssignOffset ==
    /\ phase = "emit" /\ next <= Len(globals)
    /\ LET t == globals[next].type
       IN  /\ globals[next].percpu
           /\ percpu_offsets' = With(percpu_offsets, next, PercpuOffset(t))
           /\ percpu_size' = PercpuOffset(t) + Size(t)
    /\ next' = next + 1
    /\ UNCHANGED <<globals, todoData, at, sections, cursor>>

(***************************************************************************)
(* gen_data.                                                               *)
(***************************************************************************)
Turn(i) == /\ phase = "emit" /\ next > Len(globals)
           /\ i \in todoData /\ \A j \in todoData \ {i} : Earlier(i, j)

\* `i` goes to `place` of its section and fills it up to place + bytes.
Emit(i, place, bytes) ==
    /\ at' = With(at, i, place)
    /\ sections' = [sections EXCEPT ![SectionOf(globals[i])] = place + bytes]
    /\ todoData' = todoData \ {i}
    /\ UNCHANGED <<globals, next, percpu_offsets, percpu_size>>

End_(i) == sections[SectionOf(globals[i])]

\* emit_init: an integer is a .quad where the section has got to.
EmitInt(i) ==
    /\ Turn(i)
    /\ SectionOf(globals[i]) = "data" /\ globals[i].value.kind = "int"
    /\ Emit(i, End_(i), 8)
    /\ UNCHANGED cursor

\* A function's name initialises a function pointer.
Pointer(t) == ~Aggregate(t) /\ t.size = 8
EmitName(i) ==
    /\ Turn(i)
    /\ SectionOf(globals[i]) = "data" /\ globals[i].value.kind = "name"
    /\ Pointer(globals[i].type)
    /\ Emit(i, RoundUp(End_(i), 8), 8)
    /\ UNCHANGED cursor

\* A string fills an array of bytes, with NULs after it.
StringFits(g) == /\ g.type.count # 1 /\ ElemSize(g.type) = 1
                 /\ g.value.length <= g.type.count
EmitString(i) ==
    /\ Turn(i)
    /\ SectionOf(globals[i]) = "data" /\ globals[i].value.kind = "string"
    /\ StringFits(globals[i])
    /\ Emit(i, RoundUp(End_(i), 8), globals[i].type.count)
    /\ UNCHANGED cursor

\* emit_zero: at least a word, in whole words.  A slip: what the type takes.
ZeroBytesExact(t) == Size(t)
ZeroBytes(t) == RoundUp(IF Size(t) < 8 THEN 8 ELSE Size(t), 8)
EmitZero(i) ==
    /\ Turn(i)
    /\ SectionOf(globals[i]) = "bss"
    /\ Emit(i, RoundUp(End_(i), 8), ZeroBytes(globals[i].type))
    /\ UNCHANGED cursor

\* The per-CPU section: a gap up to the offset, the label, a .quad or whole
\* words.  The cursor moves on by the size of the type.
TemplateWord(g) == 8    \* a slip
TemplateBytes(g) == IF g.value.kind = "int" THEN 8 ELSE RoundUp(Size(g.type), 8)
Gap(want) == IF want > cursor THEN want - cursor ELSE 0
EmitPercpu(i) ==
    /\ Turn(i)
    /\ globals[i].percpu /\ globals[i].value.kind \in {"none", "int"}
    /\ Emit(i, End_(i) + Gap(percpu_offsets[i]), TemplateBytes(globals[i]))
    /\ cursor' = cursor + Gap(percpu_offsets[i]) + Size(globals[i].type)

\* Any other initialiser: CodeGenError.
RejectGlobal(i) ==
    /\ Turn(i)
    /\ \/ globals[i].percpu /\ globals[i].value.kind \in {"name", "string"}
       \/ globals[i].value.kind = "string" /\ ~StringFits(globals[i])
       \/ globals[i].value.kind = "name" /\ ~Pointer(globals[i].type)
    /\ phase' = "rejected"
    /\ UNCHANGED <<program, cur, todo, placed, offset, structs, class_methods, call>>

DataNext ==
    \/ /\ UNCHANGED vars
       /\ \/ PassGlobal \/ AssignOffset
          \/ \E i \in DOMAIN globals :
                EmitInt(i) \/ EmitName(i) \/ EmitString(i) \/ EmitZero(i) \/ EmitPercpu(i)
    \/ UNCHANGED dataVars /\ \E i \in DOMAIN globals : RejectGlobal(i)

Step == (Next /\ UNCHANGED dataVars) \/ DataNext

DataSpec == Init /\ DataInit /\ [][Step]_<<vars, dataVars>>

-----------------------------------------------------------------------------
Emitted == phase = "emit" /\ next > Len(globals) /\ todoData = {}
Percpus == {i \in DOMAIN globals : globals[i].percpu}

\* What the preconditions ask of a program: an integer does not initialise
\* an array or an object (`.quad` would give it a single word).
IntsOnScalars == \A i \in DOMAIN globals :
                    globals[i].value.kind = "int" => ~Aggregate(globals[i].type)

(***************************************************************************)
(* No access to a global reaches another one or the end of its section:    *)
(* scalars are loaded and stored as whole words whatever their type is     *)
(* (gen_identifier, gen_assignment), everything else byte for byte.        *)
(***************************************************************************)
Accessed(i) == at[i] .. at[i] + (IF Aggregate(globals[i].type) THEN Size(globals[i].type) ELSE 8) - 1
GlobalsApart ==
    Emitted /\ IntsOnScalars =>
        \A i \in DOMAIN globals \ Percpus :
            /\ Accessed(i) \subseteq 0 .. sections[SectionOf(globals[i])] - 1
            /\ \A j \in DOMAIN globals \ (Percpus \cup {i}) :
                  SectionOf(globals[i]) = SectionOf(globals[j]) => Accessed(i) \cap Accessed(j) = {}

(***************************************************************************)
(* The parts of the per-CPU area the code accesses are apart, aligned, and *)
(* inside the template each CPU gets a copy of.                            *)
(***************************************************************************)
InArea(i) == percpu_offsets[i] .. percpu_offsets[i] + Size(globals[i].type) - 1
PercpuAreaCovers ==
    Emitted /\ IntsOnScalars =>
        \A i \in Percpus :
            /\ percpu_offsets[i] % Align(globals[i].type) = 0
            /\ InArea(i) \subseteq 0 .. sections["percpu"] - 1
            /\ \A j \in Percpus \ {i} : InArea(i) \cap InArea(j) = {}

(***************************************************************************)
(* A per-CPU variable starts with its own initial value: its template is   *)
(* where the code looks for it ("packed in offset order so the linker      *)
(* preserves the exact byte layout our access sites assume", lines         *)
(* 1147-1149), as long as every variable before it takes whole words.      *)
(***************************************************************************)
WholeWordsBefore(i) ==
    \A j \in Percpus : percpu_offsets[j] < percpu_offsets[i] => Size(globals[j].type) % 8 = 0
TemplateAtOffset ==
    Emitted /\ IntsOnScalars =>
        \A i \in Percpus : WholeWordsBefore(i) /\ InArea(i) # {} => at[i] = percpu_offsets[i]
==============================================================================
