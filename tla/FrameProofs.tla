----------------------------- MODULE FrameProofs -----------------------------
(***************************************************************************)
(* Theorems about FrameLayout, for every set of names, every set of types  *)
(* and every bound on the walk, and about FrameRun, for every function     *)
(* FrameLayout can lay out.                                                *)
(*                                                                         *)
(* SlotsDisjoint is not inductive alone: a new slot misses the old ones    *)
(* only because they all lie between %rbp and stack_size (Packed).  The    *)
(* guard keeps the top of the frame only because it was allocated first    *)
(* and every later slot starts below it (Guarded), and a store is inside   *)
(* its slot because stores are aimed at a LocalVar's own offset (Aimed).   *)
(*                                                                         *)
(* A return only looks at the guard.  That it also finds saved %rbp and    *)
(* the return address as they were is the invariant Shielded: whatever     *)
(* damages them has gone through the guard first.  It holds because every  *)
(* store stays below the guard (Stores) and every overrun starts below it  *)
(* and climbs (Climbs).                                                    *)
(***************************************************************************)
EXTENDS FrameRun, TLAPS

\* The slots of S lie between the top of the frame and %rbp, and are apart.
Packed(S, top) ==
    /\ S \subseteq LocalVar
    /\ \A v \in S : -top <= v.offset /\ v.offset + Round8(v.type.size) <= 0
    /\ \A v, w \in S : v # w => Bytes(v) \cap Bytes(w) = {}

\* (n + 7) & ~7 and (n + 15) & ~15 round up.
LEMMA Rounding ==
    ASSUME NEW n \in Nat
    PROVE  /\ Round8(n) \in Nat
           /\ n <= Round8(n)
           /\ n > 0 => 8 <= Round8(n)
           /\ Round16(n) \in Nat
           /\ n <= Round16(n)
           /\ Round16(n) % 16 = 0
  BY SMT DEF Round8, Round16

\* Canary and index slots are eight bytes.
LEMMA WordSize == Word.size = 8 /\ Round8(8) = 8 /\ Word.size \in Nat
  BY SMT DEF Word, Round8

\* Every type of a variable has a size, and so has its slot.
LEMMA TypeSize == ASSUME NEW t \in VarTypes
                  PROVE t.size \in Nat /\ Round8(t.size) \in Nat
  BY TypesAssumption, WordSize, Rounding DEF VarTypes

\* alloc_local keeps the frame packed.
LEMMA PackedExtend ==
    ASSUME NEW S, NEW top \in Nat, Packed(S, top),
           NEW n \in Names \cup MadeUp, NEW t \in VarTypes
    PROVE  Packed(S \cup {NewVar(n, t, top)}, top + Round8(t.size))
<1> DEFINE v == NewVar(n, t, top)
<1>1. /\ v \in LocalVar
      /\ v.offset = -(top + Round8(t.size))
      /\ v.type = t
  BY TypeSize DEF NewVar, LocalVar
<1>2. \A w \in S : w.offset \in Int /\ Round8(w.type.size) \in Nat
  BY TypeSize DEF Packed, LocalVar
<1>3. \A w \in S : Bytes(v) \cap Bytes(w) = {}
  <2> SUFFICES ASSUME NEW w \in S, NEW b \in Int,
                      b \in Bytes(v), b \in Bytes(w)
               PROVE  FALSE
    BY <1>1, <1>2, TypeSize DEF Bytes
  <2>1. b <= v.offset + Round8(t.size) - 1
    BY <1>1, TypeSize DEF Bytes
  <2>2. w.offset <= b
    BY <1>2 DEF Bytes
  <2>3. -top <= w.offset
    BY DEF Packed
  <2> QED
    BY <1>1, <1>2, <2>1, <2>2, <2>3, TypeSize
<1>4. \A w \in S : -(top + Round8(t.size)) <= w.offset
  BY <1>2, TypeSize DEF Packed
<1> QED
  BY <1>1, <1>3, <1>4, TypeSize DEF Packed

-----------------------------------------------------------------------------
(***************************************************************************)
(* The inductive invariant.                                                *)
(***************************************************************************)
NonEmptyTypes == \A t \in Types : t.size > 0

\* The guard is at -8 and everything else ends below it.
Guarded ==
    needs_canary /\ phase # "enter" =>
        /\ stack_size >= 8
        /\ \E c \in slots : c.name = CanaryName
        /\ \A v \in slots : IF v.name = CanaryName
                              THEN v.offset = -8 /\ v.type = Word
                              ELSE v.offset + Round8(v.type.size) <= -8

\* A made-up name is the canary's or carries an old value of the counter.
Hidden ==
    /\ \A v \in slots : v.name \notin Names =>
          v.name = CanaryName \/ \E k \in Nat : k < label_counter /\ v.name = ForIdx(k)
    /\ ForIdxUnique

\* A store is aimed at the base of its variable and no wider than its slot.
Aimed == NonEmptyTypes =>
    \A st \in stores : /\ st.at = st.var.offset
                       /\ st.width <= Round8(st.var.type.size)

Fresh == phase = "enter" => slots = {} /\ locals = [n \in {} |-> 0] /\ stack_size = 0

\* The patched prologue reserves what the walk allocated.
Patched == phase = "done" => frame_size = Round16(stack_size)

IInv == /\ TypeOK /\ Packed(slots, stack_size)
        /\ Guarded /\ Hidden /\ Aimed /\ Fresh /\ Patched

\* The empty frame satisfies the invariant.
LEMMA InitIInv == Init => IInv
<1> SUFFICES ASSUME Init PROVE IInv
  OBVIOUS
<1>1. TypeOK
  BY DEF Init, TypeOK
<1>2. Packed(slots, stack_size)
  BY DEF Init, Packed
<1>3. Guarded /\ Hidden /\ Aimed /\ Fresh /\ Patched
  BY DEF Init, Guarded, Hidden, ForIdxUnique, Aimed, Fresh, Patched
<1> QED
  BY <1>1, <1>2, <1>3 DEF IInv

\* A store to a variable's own base fits its slot.
LEMMA StoreFits ==
    ASSUME NEW v \in LocalVar
    PROVE  /\ StoreTo(v) \in [var : {v}, at : Int, width : Nat]
           /\ CtorInit(v) \in [var : {v}, at : Int, width : Nat]
           /\ StoreTo(v).at = v.offset /\ CtorInit(v).at = v.offset
           /\ NonEmptyTypes => StoreTo(v).width <= Round8(v.type.size)
           /\ CtorInit(v).width <= Round8(v.type.size)
<1>1. v.type \in VarTypes /\ v.type.size \in Nat /\ v.offset \in Int
  BY TypeSize DEF LocalVar
<1>2. StoreWidth(v.type) \in Nat
  BY <1>1 DEF StoreWidth
<1>3. NonEmptyTypes => v.type.size > 0
  BY <1>1, WordSize DEF VarTypes, NonEmptyTypes
<1>4. NonEmptyTypes => StoreWidth(v.type) <= Round8(v.type.size)
  BY <1>1, <1>3, Rounding DEF StoreWidth
<1> QED
  BY <1>1, <1>2, <1>4, Rounding DEF StoreTo, CtorInit

\* Declaring a source variable keeps the frame packed and the names bound.
LEMMA AllocStep ==
    ASSUME IInv, NEW n \in Names, NEW t \in Types,
           phase # "enter", phase' # "enter", UNCHANGED needs_canary,
           label_counter' \in Nat, label_counter' >= label_counter,
           Alloc(NewVar(n, t, stack_size))
    PROVE  /\ Packed(slots', stack_size')
           /\ Guarded' /\ Hidden' /\ Fresh'
           /\ stack_size' \in Nat
           /\ slots \subseteq slots' /\ slots' \subseteq LocalVar
           /\ NewVar(n, t, stack_size) \in slots'
           /\ DOMAIN locals' \subseteq Names \cup MadeUp
           /\ \A m \in DOMAIN locals' :
                 locals'[m] \in slots' /\ locals'[m].name = m
<1> DEFINE v == NewVar(n, t, stack_size)
<1>1. /\ v.name = n /\ v.type = t
      /\ v.offset = -(stack_size + Round8(t.size))
      /\ t \in VarTypes /\ Round8(t.size) \in Nat
  BY TypeSize DEF NewVar, VarTypes
<1>2. /\ slots' = slots \cup {v}
      /\ stack_size' = stack_size + Round8(t.size)
      /\ locals' = Bind(v)
  BY <1>1 DEF Alloc
<1>3. stack_size \in Nat /\ label_counter \in Nat
  BY DEF IInv, TypeOK
<1>4. Packed(slots', stack_size')
  BY <1>1, <1>2, <1>3, PackedExtend DEF IInv
<1>5. n # CanaryName /\ n \notin MadeUp
  BY NamesAssumption DEF CanaryName, MadeUp
<1>6. Guarded'
  BY <1>1, <1>2, <1>3, <1>5 DEF IInv, Guarded
<1>7. Hidden'
  BY <1>1, <1>2, <1>3 DEF IInv, Hidden, ForIdxUnique
<1>8. DOMAIN locals' = DOMAIN locals \cup {n}
  BY <1>1, <1>2 DEF Bind
<1>9. \A m \in DOMAIN locals' : locals'[m] = IF m = n THEN v ELSE locals[m]
  BY <1>1, <1>2, <1>8 DEF Bind
<1> QED
  BY <1>1, <1>2, <1>3, <1>4, <1>6, <1>7, <1>8, <1>9
     DEF IInv, TypeOK, Packed, Fresh

\* Stores added to the slots that are there keep the store part of the
\* invariant, whatever slots are added.
StoresInto(T, S) == \A st \in T : \E v \in S : st = StoreTo(v) \/ st = CtorInit(v)
AimedInto(T, S) ==
    /\ T \subseteq [var : S, at : Int, width : Nat]
    /\ NonEmptyTypes => \A st \in T : /\ st.at = st.var.offset
                                      /\ st.width <= Round8(st.var.type.size)

LEMMA StoresGrow ==
    ASSUME IInv, NEW T, NEW S, slots \subseteq S, S \subseteq LocalVar, StoresInto(T, S)
    PROVE  AimedInto(stores \cup T, S)
<1>1. stores \subseteq [var : S, at : Int, width : Nat]
  BY DEF IInv, TypeOK
<1>2. \A st \in T : /\ st \in [var : S, at : Int, width : Nat]
                    /\ st.at = st.var.offset
                    /\ NonEmptyTypes => st.width <= Round8(st.var.type.size)
  <2> SUFFICES ASSUME NEW st \in T
               PROVE  /\ st \in [var : S, at : Int, width : Nat]
                      /\ st.at = st.var.offset
                      /\ NonEmptyTypes => st.width <= Round8(st.var.type.size)
    OBVIOUS
  <2>1. PICK v \in S : st = StoreTo(v) \/ st = CtorInit(v)
    BY DEF StoresInto
  <2>2. st.var = v
    BY <2>1 DEF StoreTo, CtorInit
  <2> QED
    BY <2>1, <2>2, StoreFits
<1> QED
  BY <1>1, <1>2 DEF IInv, Aimed, AimedInto

\* Every step of the walk keeps the invariant.
LEMMA NextIInv == IInv /\ [Next]_vars => IInv'
<1> SUFFICES ASSUME IInv, [Next]_vars PROVE IInv'
  OBVIOUS
<1> USE DEF IInv
<1>1. CASE Enter
  <2> USE <1>1 DEF Enter
  <2>1. /\ CanaryName \in MadeUp /\ CanaryName \notin Names /\ Word \in VarTypes
        /\ stack_size = 0 /\ slots = {} /\ DOMAIN locals = {}
    BY NamesAssumption DEF CanaryName, MadeUp, VarTypes, Fresh
  <2>2. CASE needs_canary
    <3> DEFINE c == NewVar(CanaryName, Word, 0)
    <3>1. /\ slots' = {c} /\ stack_size' = 8
          /\ c.name = CanaryName /\ c.type = Word /\ c.offset = -8
          /\ locals' = Bind(c)
      BY <2>1, <2>2, WordSize DEF Alloc, NewVar
    <3>2. Packed({} \cup {c}, 0 + Round8(Word.size))
      BY <2>1, PackedExtend DEF Packed
    <3>3. Packed(slots', stack_size')
      BY <3>1, <3>2, WordSize
    <3>4. TypeOK'
      BY <2>1, <3>1, <3>3 DEF TypeOK, Bind, Packed
    <3>5. Guarded' /\ Hidden' /\ Aimed' /\ Fresh' /\ Patched'
      BY <2>1, <3>1 DEF Guarded, Hidden, ForIdxUnique, Aimed, Fresh, Patched
    <3> QED
      BY <3>3, <3>4, <3>5
  <2>3. CASE ~needs_canary
    BY <2>1, <2>3 DEF TypeOK, Packed, Guarded, Hidden, ForIdxUnique, Aimed, Fresh, Patched
  <2> QED
    BY <2>2, <2>3
<1>2. CASE Prologue
  <2> USE <1>2 DEF Prologue
  <2>1. Packed(slots', stack_size') /\ Guarded' /\ Hidden' /\ Fresh'
    BY DEF Packed, Guarded, Hidden, ForIdxUnique, Fresh, Patched
  <2>0. slots \subseteq slots /\ slots \subseteq LocalVar
    BY DEF TypeOK
  <2>2. \A st \in GuardStores : \E v \in slots : st = StoreTo(v)
    <3> SUFFICES ASSUME NEW st \in GuardStores
                 PROVE  \E v \in slots : st = StoreTo(v)
      OBVIOUS
    <3>1. PICK v \in slots : /\ needs_canary /\ v.name = CanaryName
                            /\ st = [var |-> v, at |-> -8, width |-> 8]
      BY DEF GuardStores
    <3>2. v.offset = -8 /\ v.type = Word
      BY <3>1 DEF Guarded
    <3> QED
      BY <3>1, <3>2 DEF StoreTo, StoreWidth, Word
  <2>3. \A st \in Spills : \E v \in slots : st = StoreTo(v)
    BY DEF Spills, TypeOK
  <2>4. StoresInto(stores', slots)
    BY <2>2, <2>3 DEF StoresInto
  <2>6. AimedInto(stores \cup stores', slots)
    BY <2>0, <2>4, StoresGrow
  <2>5. /\ stores \cup stores' \subseteq [var : slots, at : Int, width : Nat]
        /\ NonEmptyTypes => \A st \in stores \cup stores' :
                                /\ st.at = st.var.offset
                                /\ st.width <= Round8(st.var.type.size)
    BY <2>6 DEF AimedInto
  <2> QED
    BY <2>1, <2>5 DEF TypeOK, Aimed, Patched
<1>3. CASE Finish
  <2> USE <1>3 DEF Finish
  <2>1. frame_size' \in Nat
    BY Rounding DEF TypeOK
  <2> QED
    BY <2>1 DEF TypeOK, Packed, Guarded, Hidden, ForIdxUnique, Aimed, Fresh, Patched
<1>4. ASSUME NEW n \in Names, NEW init \in {"value", "class"}, Assign(n, init)
      PROVE  IInv'
  <2> USE <1>4 DEF Assign
  <2> DEFINE v == locals[n]
  <2>1. v \in slots /\ v \in LocalVar
    BY DEF TypeOK
  <2>2. ASSUME NEW st \in {StoreTo(v), CtorInit(v)}
        PROVE  /\ st \in [var : slots, at : Int, width : Nat]
               /\ st.var = v /\ st.at = v.offset
               /\ NonEmptyTypes => st.width <= Round8(v.type.size)
    BY <2>1, StoreFits DEF StoreTo, CtorInit
  <2>3. /\ stores' = stores \cup InitStores(v, init)
        /\ InitStores(v, init) \subseteq {StoreTo(v), CtorInit(v)}
    BY DEF InitStores
  <2>4. stores' \subseteq [var : slots, at : Int, width : Nat]
    BY <2>2, <2>3 DEF TypeOK
  <2>5. Aimed'
    BY <2>2, <2>3 DEF Aimed
  <2> QED
    BY <2>4, <2>5 DEF TypeOK, Packed, Guarded, Hidden, ForIdxUnique, Fresh, Patched
<1>5. ASSUME NEW n \in Names, NEW t \in Types, Param(n, t) PROVE IInv'
  <2>1. /\ phase # "enter" /\ phase' # "enter" /\ UNCHANGED <<phase, stores>>
        /\ UNCHANGED <<needs_canary, label_counter, frame_size>>
        /\ Alloc(NewVar(n, t, stack_size))
        /\ label_counter \in Nat
    BY <1>5 DEF Param, TypeOK
  <2>2. /\ Packed(slots', stack_size') /\ Guarded' /\ Hidden' /\ Fresh'
        /\ stack_size' \in Nat /\ slots \subseteq slots' /\ slots' \subseteq LocalVar
        /\ DOMAIN locals' \subseteq Names \cup MadeUp
        /\ \A m \in DOMAIN locals' : locals'[m] \in slots' /\ locals'[m].name = m
    BY <2>1, AllocStep
  <2>3. stores' \subseteq [var : slots', at : Int, width : Nat]
    BY <2>1, <2>2 DEF TypeOK
  <2>4. Aimed'
    BY <2>1 DEF Aimed
  <2> QED
    BY <1>5, <2>1, <2>2, <2>3, <2>4 DEF TypeOK, Param, Patched
<1>6. ASSUME NEW n \in Names, NEW t \in Types, NEW T,
             phase = "body", UNCHANGED <<needs_canary, phase, frame_size>>,
             label_counter' \in Nat, label_counter' >= label_counter,
             Alloc(NewVar(n, t, stack_size)), stores' = stores \cup T,
             T \subseteq {StoreTo(NewVar(n, t, stack_size)), CtorInit(NewVar(n, t, stack_size))}
      PROVE  IInv'
  <2>1. /\ Packed(slots', stack_size') /\ Guarded' /\ Hidden' /\ Fresh'
        /\ stack_size' \in Nat /\ slots \subseteq slots' /\ slots' \subseteq LocalVar
        /\ NewVar(n, t, stack_size) \in slots'
        /\ DOMAIN locals' \subseteq Names \cup MadeUp
        /\ \A m \in DOMAIN locals' : locals'[m] \in slots' /\ locals'[m].name = m
    BY <1>6, AllocStep
  <2>2. /\ stores' \subseteq [var : slots', at : Int, width : Nat]
        /\ NonEmptyTypes => \A st \in stores' :
                                /\ st.at = st.var.offset
                                /\ st.width <= Round8(st.var.type.size)
    <3>1. slots \subseteq slots' /\ slots' \subseteq LocalVar
      BY <2>1
    <3>2. stores' = stores \cup T /\ StoresInto(T, slots')
      BY <1>6, <2>1 DEF StoresInto
    <3>3. AimedInto(stores \cup T, slots')
      <4> HIDE DEF IInv
      <4> QED BY <3>1, <3>2, StoresGrow
    <3> QED BY <3>2, <3>3 DEF AimedInto
  <2>3. TypeOK'
    BY <1>6, <2>1, <2>2 DEF TypeOK
  <2>4. Aimed' /\ Patched'
    BY <1>6, <2>2 DEF Aimed, Patched
  <2> QED
    BY <2>1, <2>3, <2>4
<1>7. ASSUME NEW n \in Names, NEW t \in Types, NEW init \in {"none", "value", "class"},
             VarDecl(n, t, init)
      PROVE  IInv'
  <2>1. label_counter' = label_counter /\ label_counter \in Nat
    BY <1>7 DEF VarDecl, TypeOK
  <2>2. InitStores(NewVar(n, t, stack_size), init) \subseteq
           {StoreTo(NewVar(n, t, stack_size)), CtorInit(NewVar(n, t, stack_size))}
    BY DEF InitStores
  <2> QED
    BY <1>6, <1>7, <2>1, <2>2 DEF VarDecl
<1>8. ASSUME NEW n \in Names, NEW t \in Types, ForRange(n, t) PROVE IInv'
  <2>1. label_counter' = label_counter + 3 /\ label_counter \in Nat
    BY <1>8 DEF ForRange, TypeOK
  <2>2. label_counter' \in Nat /\ label_counter' >= label_counter
    BY <2>1
  <2>3. {StoreTo(NewVar(n, t, stack_size))} \subseteq
           {StoreTo(NewVar(n, t, stack_size)), CtorInit(NewVar(n, t, stack_size))}
    OBVIOUS
  <2> QED
    BY <1>6, <1>8, <2>2, <2>3 DEF ForRange
<1>9. ASSUME NEW n \in Names, NEW t \in Types, ForArray(n, t) PROVE IInv'
  <2> DEFINE idx == NewVar(ForIdx(label_counter), Word, stack_size)
             v   == NewVar(n, t, stack_size + 8)
  <2> USE <1>9 DEF ForArray
  <2>1. /\ stack_size \in Nat /\ label_counter \in Nat
        /\ ForIdx(label_counter) \in MadeUp /\ t \in VarTypes /\ Word \in VarTypes
        /\ ForIdx(label_counter) \notin Names /\ n \notin MadeUp
        /\ ForIdx(label_counter) # CanaryName /\ n # CanaryName
        /\ Round8(t.size) \in Nat
    BY NamesAssumption, TypeSize DEF TypeOK, ForIdx, MadeUp, VarTypes, CanaryName
  <2>2. /\ idx.name = ForIdx(label_counter) /\ idx.type = Word /\ idx.offset = -(stack_size + 8)
        /\ v.name = n /\ v.type = t /\ v.offset = -(stack_size + 8 + Round8(t.size))
    BY WordSize DEF NewVar
  <2>3. /\ slots' = slots \cup {idx, v}
        /\ stack_size' = stack_size + 8 + Round8(t.size)
        /\ stores' = stores \cup {StoreTo(idx), StoreTo(v)}
        /\ label_counter' = label_counter + 3
    OBVIOUS
  <2>4. Packed(slots', stack_size')
    <3>1. Packed(slots \cup {idx}, stack_size + 8)
      BY <2>1, PackedExtend, WordSize
    <3>2. Packed((slots \cup {idx}) \cup {v}, (stack_size + 8) + Round8(t.size))
      <4>1. stack_size + 8 \in Nat /\ n \in Names \cup MadeUp
        BY <2>1
      <4> HIDE DEF idx, ForArray, IInv
      <4> QED
        BY <2>1, <3>1, <4>1, PackedExtend
    <3>3. /\ (slots \cup {idx}) \cup {v} = slots'
          /\ (stack_size + 8) + Round8(t.size) = stack_size'
      BY <2>3
    <3> HIDE DEF idx, v, ForArray
    <3> QED
      BY <3>2, <3>3
  <2>5. Guarded'
    BY <2>1, <2>2, <2>3, WordSize DEF Guarded, TypeOK
  <2>6. Hidden'
    <3>1. \A w \in slots' : w.name \notin Names =>
             w.name = CanaryName \/ \E k \in Nat : k < label_counter' /\ w.name = ForIdx(k)
      BY <2>1, <2>2, <2>3 DEF Hidden
    <3>2. \A w \in slots : w.name # ForIdx(label_counter)
      BY <2>1 DEF Hidden, ForIdx, CanaryName
    <3>3. ForIdxUnique'
      BY <2>1, <2>2, <2>3, <3>2 DEF Hidden, ForIdxUnique
    <3> QED
      BY <3>1, <3>3 DEF Hidden
  <2>7. /\ stores' \subseteq [var : slots', at : Int, width : Nat]
        /\ NonEmptyTypes => \A st \in stores' :
                                /\ st.at = st.var.offset
                                /\ st.width <= Round8(st.var.type.size)
    <3>1. slots \subseteq slots' /\ slots' \subseteq LocalVar
      BY <2>3, <2>4 DEF Packed
    <3>2. \A st \in {StoreTo(idx), StoreTo(v)} :
             \E w \in slots' : st = StoreTo(w) \/ st = CtorInit(w)
      BY <2>3
    <3> HIDE DEF idx, v, ForArray, IInv
    <3>5. AimedInto(stores \cup {StoreTo(idx), StoreTo(v)}, slots')
      <4>1. StoresInto({StoreTo(idx), StoreTo(v)}, slots')
        BY <3>2 DEF StoresInto
      <4> QED BY <3>1, <4>1, StoresGrow
    <3>3. /\ stores \cup {StoreTo(idx), StoreTo(v)} \subseteq
                 [var : slots', at : Int, width : Nat]
          /\ NonEmptyTypes => \A st \in stores \cup {StoreTo(idx), StoreTo(v)} :
                                  /\ st.at = st.var.offset
                                  /\ st.width <= Round8(st.var.type.size)
      BY <3>5 DEF AimedInto
    <3> QED
      BY <2>3, <3>3
  <2>8. /\ DOMAIN locals' \subseteq Names \cup MadeUp
        /\ \A m \in DOMAIN locals' : locals'[m] \in slots' /\ locals'[m].name = m
    <3>1. locals' = [m \in DOMAIN locals \cup {idx.name, n} |->
                        CASE m = n -> v [] m = idx.name -> idx
                          [] OTHER -> locals[m]]
      OBVIOUS
    <3>2. /\ idx \in slots' /\ v \in slots' /\ slots \subseteq slots'
          /\ idx.name \in MadeUp /\ v.name = n /\ idx.name # n
      BY <2>1, <2>2, <2>3
    <3> HIDE DEF idx, v, ForArray
    <3>3. \A m \in DOMAIN locals' :
             locals'[m] = IF m = n THEN v ELSE IF m = idx.name THEN idx ELSE locals[m]
      BY <3>1, <3>2
    <3> QED
      BY <3>1, <3>2, <3>3 DEF TypeOK
  <2>9. Fresh' /\ stack_size' \in Nat /\ label_counter' \in Nat
    BY <2>1, <2>3 DEF Fresh
  <2> QED
    BY <2>3, <2>4, <2>5, <2>6, <2>7, <2>8, <2>9 DEF TypeOK, Packed, Aimed, Patched
<1>10. CASE UNCHANGED vars
  BY <1>10 DEF vars, TypeOK, Packed, Guarded, Hidden, ForIdxUnique, Aimed, Fresh, Patched
<1> QED
  BY <1>1, <1>2, <1>3, <1>4, <1>5, <1>7, <1>8, <1>9, <1>10 DEF Next

\* The strengthening holds throughout.
LEMMA Invariance == Spec => []IInv
  BY InitIInv, NextIInv, PTL DEF Spec
-----------------------------------------------------------------------------
\* gen_function's context is well formed throughout every walk.
THEOREM TypeCorrect == Spec => []TypeOK
<1>1. IInv => TypeOK
  BY DEF IInv
<1> QED
  BY <1>1, Invariance, PTL

\* No two locals of any function share a byte of its frame, whatever the
\* number, the sizes and the (re)declarations of its variables.
THEOREM DisjointFrames == Spec => []SlotsDisjoint
<1>1. IInv => SlotsDisjoint
  BY DEF IInv, Packed, SlotsDisjoint
<1> QED
  BY <1>1, Invariance, PTL

\* Array loops of one function, nested or not, never share a hidden index.
THEOREM HiddenIndices == Spec => []ForIdxUnique
<1>1. IInv => ForIdxUnique
  BY DEF IInv, Hidden
<1> QED
  BY <1>1, Invariance, PTL

\* Where no type is empty, every emitted store stays in its own slot.
THEOREM StoresContained == ASSUME NonEmptyTypes PROVE Spec => []StoresInOwnSlot
<1>1. ASSUME IInv PROVE StoresInOwnSlot
  <2> SUFFICES ASSUME NEW st \in stores PROVE Touched(st) \subseteq Bytes(st.var)
    BY DEF StoresInOwnSlot
  <2>1. /\ st.var \in LocalVar /\ st.width \in Nat
        /\ st.at = st.var.offset /\ st.width <= Round8(st.var.type.size)
    BY <1>1 DEF IInv, TypeOK, Aimed
  <2>2. st.var.offset \in Int /\ Round8(st.var.type.size) \in Nat
    BY <2>1, TypeSize DEF LocalVar
  <2> QED
    BY <2>1, <2>2 DEF Touched, Bytes
<1>2. IInv => StoresInOwnSlot
  BY <1>1
<1> QED
  BY <1>2, Invariance, PTL

\* The guard keeps the eight bytes below saved %rbp to itself, with every
\* local below it, in every protected function.
THEOREM GuardOutermost == Spec => []CanaryShields
<1>1. IInv => CanaryShields
  <2> SUFFICES ASSUME IInv, needs_canary, phase # "enter"
               PROVE  /\ \E c \in slots : c.name = CanaryName /\ Bytes(c) = -8 .. -1
                      /\ \A v \in slots : v.name # CanaryName =>
                            \A b \in Bytes(v) : b < -8
    BY DEF CanaryShields
  <2>1. PICK c \in slots : c.name = CanaryName
    BY DEF IInv, Guarded
  <2>2. Bytes(c) = -8 .. -1
    BY <2>1, WordSize DEF IInv, Guarded, Bytes
  <2>3. ASSUME NEW v \in slots, v.name # CanaryName, NEW b \in Bytes(v) PROVE b < -8
    <3>1. /\ v.offset \in Int /\ Round8(v.type.size) \in Nat
          /\ v.offset + Round8(v.type.size) <= -8
      BY <2>3, TypeSize DEF IInv, TypeOK, Guarded, LocalVar
    <3> QED
      BY <2>3, <3>1 DEF Bytes
  <2> QED
    BY <2>1, <2>2, <2>3
<1> QED
  BY <1>1, Invariance, PTL

\* Where no type is empty, the reserved frame covers every store of the
\* body and keeps %rsp a multiple of 16: the code never needs the red zone.
THEOREM RedZoneUnused == ASSUME NonEmptyTypes PROVE Spec => []FrameCoversStores
<1>1. ASSUME IInv PROVE FrameCoversStores
  <2> SUFFICES ASSUME phase = "done"
               PROVE  /\ frame_size % 16 = 0
                      /\ \A st \in stores : \A b \in Touched(st) :
                            -frame_size <= b /\ b < 0
    BY DEF FrameCoversStores
  <2>1. /\ stack_size \in Nat /\ frame_size = Round16(stack_size)
        /\ frame_size \in Nat /\ stack_size <= frame_size /\ frame_size % 16 = 0
    BY <1>1, Rounding DEF IInv, TypeOK, Patched
  <2>2. ASSUME NEW st \in stores, NEW b \in Touched(st)
        PROVE  -frame_size <= b /\ b < 0
    <3>1. /\ st.var \in slots /\ st.var \in LocalVar /\ st.width \in Nat
          /\ st.at = st.var.offset /\ st.width <= Round8(st.var.type.size)
      BY <1>1 DEF IInv, TypeOK, Aimed
    <3>2. st.var.offset \in Int /\ Round8(st.var.type.size) \in Nat
      BY <3>1, TypeSize DEF LocalVar
    <3>3. /\ -stack_size <= st.var.offset
          /\ st.var.offset + Round8(st.var.type.size) <= 0
      BY <1>1, <3>1 DEF IInv, Packed
    <3>4. b \in Int /\ st.at <= b /\ b <= st.at + st.width - 1
      BY <3>1, <3>2 DEF Touched
    <3> QED
      BY <2>1, <3>1, <3>2, <3>3, <3>4
  <2> QED
    BY <2>1, <2>2
<1>2. IInv => FrameCoversStores
  BY <1>1
<1> QED
  BY <1>2, Invariance, PTL

-----------------------------------------------------------------------------
(***************************************************************************)
(* Running the function.                                                   *)
(***************************************************************************)
Intact == mem[0] = "saved_rbp" /\ mem[1] = "return_address"
GuardSeen == mem[CanaryWord] = "guard"

\* The frame is in use only once it is laid out.
InUse == run # "idle" => phase = "done" /\ mem \in [FrameWords -> Contents]

Shielded == run # "idle" =>
                /\ ~overran => Intact /\ (needs_canary => GuardSeen)
                /\ needs_canary /\ GuardSeen => Intact

\* What the epilogue has found.
Judged == /\ run = "returned" /\ needs_canary => GuardSeen
          /\ run = "failed" => overran

RInv == /\ IInv
        /\ run \in {"idle", "body", "returned", "failed"} /\ overran \in BOOLEAN
        /\ InUse /\ Shielded /\ Judged

-----------------------------------------------------------------------------
\* The words the properties speak of are in the frame.
LEMMA Words ==
    ASSUME IInv, phase = "done"
    PROVE  /\ FrameWords \subseteq Int
           /\ 0 \in FrameWords /\ 1 \in FrameWords
           /\ needs_canary => CanaryWord \in FrameWords
<1>1. stack_size \in Nat /\ frame_size = Round16(stack_size)
  BY DEF IInv, TypeOK, Patched
<1>2. frame_size \in Nat /\ stack_size <= frame_size
  BY <1>1, Rounding
<1>3. needs_canary => stack_size >= 8
  BY DEF IInv, Guarded
<1> QED BY <1>2, <1>1, <1>3, SMT DEF FrameWords, CanaryWord

\* A store other than the guard's stays below saved %rbp, and below the
\* guard if there is one.
LEMMA Stores ==
    ASSUME NonEmptyTypes, IInv, phase = "done",
           NEW st \in stores, st.var.name # CanaryName, NEW w \in WordsOf(Touched(st))
    PROVE  w \in Int /\ w < 0 /\ (needs_canary => w < CanaryWord)
<1>1. /\ st.var \in slots /\ st.var \in LocalVar /\ st.width \in Nat
      /\ st.at = st.var.offset /\ st.width <= Round8(st.var.type.size)
  BY DEF IInv, TypeOK, Aimed
<1>2. st.var.offset \in Int /\ Round8(st.var.type.size) \in Nat
  BY <1>1, TypeSize DEF LocalVar
<1>3. /\ st.var.offset + Round8(st.var.type.size) <= 0
      /\ needs_canary => st.var.offset + Round8(st.var.type.size) <= -8
  BY <1>1 DEF IInv, Packed, Guarded
<1>4. PICK b \in Touched(st) : w = b \div 8
  BY DEF WordsOf
<1>5. /\ b \in Int /\ b < 0
      /\ needs_canary => b < -8
  BY <1>1, <1>2, <1>3, <1>4 DEF Touched
<1> QED BY <1>4, <1>5, SMT DEF CanaryWord

\* An overrun starts below saved %rbp, and not above the guard.
LEMMA Climbs ==
    ASSUME IInv, phase = "done", NEW v \in slots, ~v.type.scalar
    PROVE  /\ v.offset \div 8 \in Int
           /\ v.offset \div 8 <= 0
           /\ needs_canary => v.offset \div 8 <= CanaryWord
<1>1. /\ v.offset \in Int /\ Round8(v.type.size) \in Nat
  BY TypeSize DEF IInv, TypeOK, LocalVar
<1>2. v.type # Word
  BY DEF Word
<1>3. /\ v.offset + Round8(v.type.size) <= 0
      /\ needs_canary => v.offset + Round8(v.type.size) <= -8
  BY <1>2 DEF IInv, Packed, Guarded
<1> QED BY <1>1, <1>3, SMT DEF CanaryWord

-----------------------------------------------------------------------------
\* The walk is over when the code runs.
LEMMA LayoutStep == RInv /\ Next /\ UNCHANGED runVars => RInv'
<1> SUFFICES ASSUME RInv, Next, UNCHANGED runVars PROVE RInv'
  OBVIOUS
<1>1. IInv'
  BY NextIInv DEF RInv
<1>2. phase # "done"
  BY DEF Next, Enter, Prologue, Finish, Assign, Param, VarDecl, ForRange, ForArray
<1>3. run = "idle"
  BY <1>2 DEF RInv, InUse
<1> QED BY <1>1, <1>3 DEF RInv, runVars, InUse, Shielded, Judged

\* The prologue.
LEMMA CallStep == RInv /\ Call /\ UNCHANGED vars => RInv'
<1> SUFFICES ASSUME RInv, Call, UNCHANGED vars PROVE RInv'
  OBVIOUS
<1>1. IInv'
  BY NextIInv DEF RInv
<1>2. UNCHANGED <<needs_canary, phase, frame_size>> /\ phase = "done" /\ run = "idle"
  BY DEF vars, Call
<1>3. /\ FrameWords \subseteq Int
      /\ 0 \in FrameWords /\ 1 \in FrameWords
      /\ needs_canary => CanaryWord \in FrameWords
  BY <1>2, Words DEF RInv
<1>4. mem' \in [FrameWords -> Contents] /\ FrameWords' = FrameWords
  BY <1>2 DEF Call, Contents, FrameWords
<1>5. mem'[0] = "saved_rbp" /\ mem'[1] = "return_address"
  BY <1>3 DEF Call, CanaryWord
<1>6. needs_canary => mem'[CanaryWord] = "guard"
  BY <1>3 DEF Call, CanaryWord
<1> QED BY <1>1, <1>2, <1>4, <1>5, <1>6
        DEF RInv, Call, InUse, Shielded, Judged, Intact, GuardSeen, CanaryWord

\* A write of the body.
LEMMA Written ==
    ASSUME RInv, UNCHANGED vars, run = "body", UNCHANGED run, overran' \in BOOLEAN,
           NEW words, NEW what \in Contents, Write(words, what)
    PROVE  /\ IInv' /\ InUse' /\ Judged'
           /\ \A w \in {0, 1} : mem'[w] = IF w \in words THEN what ELSE mem[w]
           /\ needs_canary => mem'[CanaryWord] = IF CanaryWord \in words THEN what
                                                  ELSE mem[CanaryWord]
<1>1. IInv'
  BY NextIInv DEF RInv
<1>2. UNCHANGED <<needs_canary, phase, frame_size>> /\ phase = "done"
      /\ mem \in [FrameWords -> Contents]
  BY DEF vars, RInv, InUse
<1>3. /\ 0 \in FrameWords /\ 1 \in FrameWords
      /\ needs_canary => CanaryWord \in FrameWords
  BY <1>2, Words DEF RInv
<1>4. mem' \in [FrameWords -> Contents] /\ FrameWords' = FrameWords
  BY <1>2 DEF Write, FrameWords
<1>5. InUse' /\ Judged'
  BY <1>2, <1>4 DEF InUse, Judged
<1> QED BY <1>1, <1>2, <1>3, <1>5 DEF Write

LEMMA ExecuteStep ==
    ASSUME NonEmptyTypes, RInv, UNCHANGED vars, NEW st \in stores, Execute(st)
    PROVE  RInv'
<1>1. phase = "done" /\ IInv
  BY DEF RInv, InUse, Execute
<1>2. /\ IInv' /\ InUse' /\ Judged'
      /\ \A w \in {0, 1} : mem'[w] = IF w \in WordsOf(Touched(st)) THEN "data" ELSE mem[w]
      /\ needs_canary => mem'[CanaryWord] = IF CanaryWord \in WordsOf(Touched(st))
                                              THEN "data" ELSE mem[CanaryWord]
  BY Written DEF Execute, RInv, Contents
<1>3. /\ 0 \notin WordsOf(Touched(st)) /\ 1 \notin WordsOf(Touched(st))
      /\ needs_canary => CanaryWord \notin WordsOf(Touched(st))
  BY <1>1, Stores DEF Execute, CanaryWord
<1>4. /\ mem'[0] = mem[0] /\ mem'[1] = mem[1]
      /\ needs_canary => mem'[CanaryWord] = mem[CanaryWord]
  BY <1>2, <1>3
<1>5. UNCHANGED <<needs_canary, run, overran>>
  BY DEF Execute, vars
<1>6. Shielded'
  BY <1>4, <1>5 DEF RInv, Shielded, Intact, GuardSeen, CanaryWord
<1> QED BY <1>2, <1>5, <1>6 DEF RInv

LEMMA OverrunStep ==
    ASSUME RInv, UNCHANGED vars, NEW v \in slots, NEW last \in DOMAIN mem, Overrun(v, last)
    PROVE  RInv'
<1> DEFINE words == (v.offset \div 8) .. last
<1>1. phase = "done" /\ IInv /\ last \in Int
  BY Words DEF RInv, InUse, Overrun
<1>2. /\ IInv' /\ InUse' /\ Judged'
      /\ \A w \in {0, 1} : mem'[w] = IF w \in words THEN "stray" ELSE mem[w]
      /\ needs_canary => mem'[CanaryWord] = IF CanaryWord \in words
                                              THEN "stray" ELSE mem[CanaryWord]
  BY Written DEF Overrun, RInv, Contents
<1>3. needs_canary /\ CanaryWord \notin words => 0 \notin words /\ 1 \notin words
  BY <1>1, Climbs DEF Overrun, CanaryWord
<1>4. UNCHANGED <<needs_canary, run>> /\ overran'
  BY DEF Overrun, vars
<1>5. ASSUME needs_canary, mem'[CanaryWord] = "guard"
      PROVE  mem'[0] = mem[0] /\ mem'[1] = mem[1] /\ mem[CanaryWord] = "guard"
  BY <1>2, <1>3, <1>5
<1>6. Shielded'
  BY <1>4, <1>5 DEF RInv, Shielded, Intact, GuardSeen, CanaryWord, Overrun
<1> QED BY <1>2, <1>4, <1>6 DEF RInv, Overrun

LEMMA EpilogueStep == RInv /\ Epilogue /\ UNCHANGED vars => RInv'
<1> SUFFICES ASSUME RInv, Epilogue, UNCHANGED vars PROVE RInv'
  OBVIOUS
<1>1. IInv'
  BY NextIInv DEF RInv
<1>2. UNCHANGED <<needs_canary, phase, frame_size, mem, overran>>
  BY DEF vars, Epilogue
<1> QED BY <1>1, <1>2 DEF RInv, Epilogue, InUse, Shielded, Judged, Intact, GuardSeen,
                          CanaryWord, FrameWords

LEMMA RunInvariance == ASSUME NonEmptyTypes PROVE RunSpec => []RInv
<1>1. RunInit => RInv
  BY InitIInv DEF RunInit, RInv, InUse, Shielded, Judged
<1>2. RInv /\ [RunNext]_<<vars, runVars>> => RInv'
  <2> SUFFICES ASSUME RInv, [RunNext]_<<vars, runVars>> PROVE RInv'
    OBVIOUS
  <2>1. CASE Next /\ UNCHANGED runVars
    BY <2>1, LayoutStep
  <2>2. CASE Call /\ UNCHANGED vars
    BY <2>2, CallStep
  <2>3. CASE UNCHANGED vars /\ \E st \in stores : Execute(st)
    BY <2>3, ExecuteStep
  <2>4. CASE UNCHANGED vars /\ \E v \in slots, last \in DOMAIN mem : Overrun(v, last)
    BY <2>4, OverrunStep
  <2>5. CASE Epilogue /\ UNCHANGED vars
    BY <2>5, EpilogueStep
  <2>6. CASE UNCHANGED <<vars, runVars>>
    <3>1. IInv' /\ UNCHANGED <<needs_canary, phase, frame_size, mem, overran, run>>
      BY <2>6, NextIInv DEF RInv, vars, runVars
    <3> QED BY <3>1 DEF RInv, InUse, Shielded, Judged, Intact, GuardSeen, CanaryWord,
                        FrameWords
  <2> QED BY <2>1, <2>2, <2>3, <2>4, <2>5, <2>6 DEF RunNext
<1> QED BY <1>1, <1>2, PTL DEF RunSpec

-----------------------------------------------------------------------------
\* Memory is the frame and the two words above it whenever the code runs.
THEOREM RunTypeCorrect == ASSUME NonEmptyTypes PROVE RunSpec => []RunTypeOK
<1>1. RInv => RunTypeOK
  BY DEF RInv, InUse, RunTypeOK
<1> QED BY <1>1, RunInvariance, PTL

\* Where no type is empty, no protected function returns through a damaged
\* frame, however far and often its locals were overrun, and an unprotected
\* one does not unless one was.
THEOREM NoSmashedReturn == ASSUME NonEmptyTypes PROVE RunSpec => []ReturnIntact
<1>1. RInv => ReturnIntact
  BY DEF RInv, Shielded, Judged, Intact, ReturnIntact
<1> QED BY <1>1, RunInvariance, PTL

\* There the check fails only after an overrun: no store, spill, constructor
\* or redeclaration the generator emits touches the guard.
THEOREM NoFalseAlarm == ASSUME NonEmptyTypes PROVE RunSpec => []FailMeansOverrun
<1>1. RInv => FailMeansOverrun
  BY DEF RInv, Judged, FailMeansOverrun
<1> QED BY <1>1, RunInvariance, PTL
===============================================================================
