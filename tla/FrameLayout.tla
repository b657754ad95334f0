----------------------------- MODULE FrameLayout -----------------------------
(***************************************************************************)
(* Stack-frame layout of one generated function: FunctionContext and       *)
(* gen_function of compiler/codegen_x86.py.  The generator walks the       *)
(* function once; every parameter, declaration and loop it meets takes a   *)
(* new %rbp-relative slot, and the size of the frame is only patched into  *)
(* the prologue after the walk.  A behaviour is one walk over one          *)
(* function; which statements it meets is chosen as it goes.               *)
(*                                                                         *)
(* A type is abstracted to what the layout depends on: get_type_size and   *)
(* whether it is a scalar (array and class types decay to an address).     *)
(***************************************************************************)
EXTENDS Integers, FiniteSets

CONSTANTS
    Names,      \* names the source gives to parameters and locals
    Types,      \* a set of records [size |-> Nat, scalar |-> BOOLEAN]
    MaxVars     \* bound on the number of slots allocated in one walk

ASSUME TypesAssumption == Types \subseteq [size : Nat, scalar : BOOLEAN]
ASSUME MaxVarsAssumption == MaxVars \in Nat

VARIABLES
    needs_canary,   \* _function_needs_canary of the function
    phase,          \* where gen_function is: enter, params, body, done
    locals,         \* name -> LocalVar, what a name means from here on
    slots,          \* every LocalVar allocated so far
    stack_size,     \* bytes allocated below %rbp
    label_counter,  \* new_label's counter, which names hidden locals
    stores,         \* the store instructions emitted so far
    frame_size      \* the immediate of the prologue's subq

vars == <<needs_canary, phase, locals, slots, stack_size, label_counter,
          stores, frame_size>>

\* Names the generator makes up.  A source that uses one of them itself is
\* not rejected by the compiler, and is outside this model.
CanaryName == <<"__canary", 0>>
ForIdx(n)  == <<"__for_idx", n>>
MadeUp     == {"__canary", "__for_idx"} \X Nat

ASSUME NamesAssumption == Names \cap MadeUp = {}

Word     == [size |-> 8, scalar |-> TRUE]   \* a canary or an index slot
VarTypes == Types \cup {Word}
LocalVar == [name : Names \cup MadeUp, offset : Int, type : VarTypes]

Round8Down(n) == (n \div 8) * 8
Round8(n)  == ((n + 7) \div 8) * 8        \* (n + 7) & ~7
Round16(n) == ((n + 15) \div 16) * 16     \* (n + 15) & ~15

\* The bytes, as offsets from %rbp, that alloc_local set aside for v.
Bytes(v) == v.offset .. (v.offset + Round8(v.type.size) - 1)
Touched(st) == st.at .. (st.at + st.width - 1)

(***************************************************************************)
(* _emit_local_store: a 1, 2 or 4 byte scalar is stored at its own width,  *)
(* everything else with movq.  A constructor call passes &v instead, and   *)
(* the callee fills the whole object.                                      *)
(***************************************************************************)
StoreWidth(t) == IF t.scalar /\ t.size \in {1, 2, 4} THEN t.size ELSE 8
StoreTo(v) == [var |-> v, at |-> v.offset, width |-> StoreWidth(v.type)]
CtorInit(v) == [var |-> v, at |-> v.offset, width |-> v.type.size]

\* alloc_local: the slot ends where the previous one began.
NewVar(n, t, top) == [name |-> n, offset |-> -(top + Round8(t.size)), type |-> t]

\* self.locals[name] = var: a redeclared name means its newest slot.
Bind(v) == [n \in DOMAIN locals \cup {v.name} |->
                IF n = v.name THEN v ELSE locals[n]]

\* A slip: every slot one word.
AllocWord(v) == /\ Cardinality(slots) < MaxVars
                /\ stack_size' = stack_size + 8
                /\ slots' = slots \cup {v}
                /\ locals' = Bind(v)

Alloc(v) == /\ Cardinality(slots) < MaxVars
            /\ stack_size' = stack_size + Round8(v.type.size)
            /\ slots' = slots \cup {v}
            /\ locals' = Bind(v)

-----------------------------------------------------------------------------
Init == /\ needs_canary \in BOOLEAN
        /\ phase = "enter"
        /\ locals = [n \in {} |-> 0]
        /\ slots = {}
        /\ stack_size = 0
        /\ label_counter = 0
        /\ stores = {}
        /\ frame_size = 0

\* gen_function, first step: the canary takes the slot next to saved %rbp.
Enter == /\ phase = "enter"
         /\ phase' = "params"
         /\ IF needs_canary
              THEN Alloc(NewVar(CanaryName, Word, stack_size))
              ELSE UNCHANGED <<locals, slots, stack_size>>
         /\ UNCHANGED <<needs_canary, label_counter, stores, frame_size>>

\* for param in func.params: alloc_local(...)
Param(n, t) ==
    /\ phase = "params"
    /\ Alloc(NewVar(n, t, stack_size))
    /\ UNCHANGED <<needs_canary, phase, label_counter, stores, frame_size>>

(***************************************************************************)
(* The prologue: the guard goes to the literal address -8(%rbp), then      *)
(* each parameter is spilled from its register or from the caller's stack  *)
(* into the slot its name is bound to.                                     *)
(***************************************************************************)
GuardStores == {[var |-> v, at |-> -8, width |-> 8] :
                   v \in {s \in slots : needs_canary /\ s.name = CanaryName}}
Spills == {StoreTo(locals[n]) : n \in DOMAIN locals \ {CanaryName}}

Prologue == /\ phase = "params"
            /\ phase' = "body"
            /\ stores' = GuardStores \cup Spills
            /\ UNCHANGED <<needs_canary, locals, slots, stack_size,
                           label_counter, frame_size>>

(***************************************************************************)
(* `n: t`, `n: t = value`, or a class constructor run on the slot itself.  *)
(***************************************************************************)
InitStores(v, init) == CASE init = "none"  -> {}
                         [] init = "value" -> {StoreTo(v)}
                         [] init = "class" -> {CtorInit(v)}

VarDecl(n, t, init) ==
    LET v == NewVar(n, t, stack_size) IN
    /\ phase = "body"
    /\ init = "class" => ~t.scalar
    /\ Alloc(v)
    /\ stores' = stores \cup InitStores(v, init)
    /\ UNCHANGED <<needs_canary, phase, label_counter, frame_size>>

\* `n = value` (also the step of a range loop) and `n = Class(...)`: the
\* variable is looked up by name.
Assign(n, init) ==
    /\ phase = "body"
    /\ n \in DOMAIN locals
    /\ init = "class" => ~locals[n].type.scalar
    /\ stores' = stores \cup InitStores(locals[n], init)
    /\ UNCHANGED <<needs_canary, phase, locals, slots, stack_size,
                   label_counter, frame_size>>

\* `for n in range(...)`: a slot for n, initialised; three labels.
ForRange(n, t) ==
    LET v == NewVar(n, t, stack_size) IN
    /\ phase = "body"
    /\ Alloc(v)
    /\ stores' = stores \cup {StoreTo(v)}
    /\ label_counter' = label_counter + 3
    /\ UNCHANGED <<needs_canary, phase, frame_size>>

\* `for n in array`: a hidden index named after the label counter, then n.
ForArray(n, t) ==
    LET idx == NewVar(ForIdx(label_counter), Word, stack_size)
        v   == NewVar(n, t, stack_size + 8)
    IN
    /\ phase = "body"
    /\ Cardinality(slots) + 1 < MaxVars
    /\ stack_size' = stack_size + 8 + Round8(t.size)
    /\ slots' = slots \cup {idx, v}
    /\ locals' = [m \in DOMAIN locals \cup {idx.name, n} |->
                     CASE m = n -> v [] m = idx.name -> idx
                       [] OTHER -> locals[m]]
    /\ stores' = stores \cup {StoreTo(idx), StoreTo(v)}
    /\ label_counter' = label_counter + 3
    /\ UNCHANGED <<needs_canary, phase, frame_size>>

\* The walk is over: the prologue's placeholder becomes subq $frame_size.
Finish == /\ phase = "body"
          /\ phase' = "done"
          /\ frame_size' = Round16(stack_size)
          /\ UNCHANGED <<needs_canary, locals, slots, stack_size,
                         label_counter, stores>>

Next == \/ Enter
        \/ Prologue
        \/ Finish
        \/ \E n \in Names, init \in {"value", "class"} : Assign(n, init)
        \/ \E n \in Names, t \in Types :
              \/ Param(n, t)
              \/ \E init \in {"none", "value", "class"} : VarDecl(n, t, init)
              \/ ForRange(n, t)
              \/ ForArray(n, t)

Spec == Init /\ [][Next]_vars

-----------------------------------------------------------------------------
\* The state of the walk is well formed, and every meaning of a name is a
\* slot that was allocated under that name.
TypeOK == /\ needs_canary \in BOOLEAN
          /\ phase \in {"enter", "params", "body", "done"}
          /\ slots \subseteq LocalVar
          /\ DOMAIN locals \subseteq Names \cup MadeUp
          /\ \A n \in DOMAIN locals : locals[n] \in slots /\ locals[n].name = n
          /\ stack_size \in Nat
          /\ label_counter \in Nat
          /\ stores \subseteq [var : slots, at : Int, width : Nat]
          /\ frame_size \in Nat

\* Two variables never share a byte of the frame, whatever was declared,
\* redeclared or hidden in between (alloc_local, lines 227-234).
SlotsDisjoint ==
    \A v, w \in slots : v # w => Bytes(v) \cap Bytes(w) = {}

\* No two array loops of a function share a hidden index, so the step of a
\* nested loop never advances the loop around it (gen_for_array, line 1983).
ForIdxUnique ==
    \A v, w \in slots : v.name = w.name /\ v.name \notin Names => v = w

\* Every store the generator emits stays inside the slot of the variable it
\* is meant for: no other local, not the canary, not saved %rbp and not the
\* return address (the sized spills and _emit_local_store, lines 488-505).
StoresInOwnSlot ==
    \A st \in stores : Touched(st) \subseteq Bytes(st.var)

\* In a protected function the guard owns exactly the eight bytes below
\* saved %rbp, where the epilogue rereads it, and every other slot lies
\* below: an overrun that climbs out of a local meets the guard before it
\* reaches saved %rbp (the comment at lines 1379-1387).
CanaryShields ==
    needs_canary /\ phase # "enter" =>
        /\ \E c \in slots : c.name = CanaryName /\ Bytes(c) = -8 .. -1
        /\ \A v \in slots : v.name # CanaryName =>
              \A b \in Bytes(v) : b < -8

\* The frame the prologue reserves covers every byte the body writes and
\* keeps %rsp a multiple of 16: nothing is written below %rsp, so an
\* interrupt cannot clobber it (red zone, lines 17-20 and 1466-1474).
FrameCoversStores ==
    phase = "done" =>
        /\ frame_size % 16 = 0
        /\ \A st \in stores : \A b \in Touched(st) : -frame_size <= b /\ b < 0
==============================================================================
