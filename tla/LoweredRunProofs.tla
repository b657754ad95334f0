--------------------------- MODULE LoweredRunProofs ---------------------------
(***************************************************************************)
(* Theorems about Lowering and LoweredRun, for every function body, however *)
(* long and however deeply nested, and every outcome of its tests.         *)
(*                                                                         *)
(* The processor stays inside the code because every label a jump refers   *)
(* to is placed or due: a gen_ call under way will place it (Targets); the *)
(* canary is compared once because only the end of gen_function emits the  *)
(* comparison and, in a protected function, the ret behind it (Body).      *)
(*                                                                         *)
(* A name is read through the slot it was last written through because a   *)
(* name is bound again outside every statement only, where no label is     *)
(* pending: the labels of the code before and of the code behind such a    *)
(* place are apart, so that no jump leads over it in either direction      *)
(* (Split), and whoever passes it writes the name next (Entry).            *)
(***************************************************************************)
EXTENDS LoweredRun, SequenceTheorems, TLAPS

SrcTokens == {"eff", "decl", "assign", "read", "return", "break", "continue", "if", "elif", "else",
              "endif", "while", "endwhile", "do", "enddo", "for", "endfor", "forarr", "endforarr"}

\* Locals and hidden indices.
AllNames == Names \cup ({"__for_idx"} \X Nat)

Labelled == {Lab(l) : l \in Nat} \cup {Jmp(l) : l \in Nat}
               \cup {Jz(l) : l \in Nat} \cup {Jnz(l) : l \in Nat}
Accounted == [op : {"eff", "test"}, tok : Nat]
                \cup [op : {"write", "read", "init", "cmp", "bind", "step"},
                      tok : Nat, n : AllNames, slot : Nat]
Instrs == Labelled \cup {Ret, Check} \cup Accounted

Loops == [stmt : {"while"}, start : Nat, end : Nat]
            \cup [stmt : {"do"}, start : Nat, cont : Nat, end : Nat]
            \cup [stmt : {"for", "forarr"}, start : Nat, cont : Nat, end : Nat,
                  counter : AllNames]
Frames == Loops \cup [stmt : {"if", "else"}, end : Nat, else : Nat, more : BOOLEAN]

GenTyped ==
    /\ needs_canary \in BOOLEAN
    /\ phase \in {"gen", "done", "rejected"}
    /\ src \in Seq(SrcTokens)
    /\ code \in Seq(Instrs)
    /\ open \in Seq(Frames)
    /\ loop_stack \in Seq([start : Nat, end : Nat, cont : Nat])
    /\ label_counter \in Nat /\ nslots \in Nat
    /\ DOMAIN locals \subseteq AllNames
    /\ \A n \in DOMAIN locals : locals[n] \in Nat
    /\ \A f \in Range(open) : f.stmt \in {"for", "forarr"} => f.counter \in DOMAIN locals

-----------------------------------------------------------------------------
(***************************************************************************)
(* Lists.                                                                  *)
(***************************************************************************)
\* One list after another.
LEMMA Joined ==
    ASSUME NEW S, NEW s \in Seq(S), NEW t \in Seq(S)
    PROVE  /\ s \o t \in Seq(S)
           /\ Len(s \o t) = Len(s) + Len(t)
           /\ Range(s \o t) = Range(s) \cup Range(t)
           /\ t # <<>> => s \o t # <<>> /\ Last(s \o t) = Last(t)
<1>1. /\ s \o t \in Seq(S)
      /\ Len(s \o t) = Len(s) + Len(t)
      /\ \A i \in 1 .. Len(s) + Len(t) :
            (s \o t)[i] = IF i <= Len(s) THEN s[i] ELSE t[i - Len(s)]
  BY ConcatProperties
<1>2. /\ Len(s) \in Nat /\ Len(t) \in Nat /\ DOMAIN s = 1 .. Len(s) /\ DOMAIN t = 1 .. Len(t)
      /\ DOMAIN (s \o t) = 1 .. Len(s) + Len(t)
  BY <1>1, LenProperties
<1> DEFINE u == s \o t
<1>3. u = s \o t
  OBVIOUS
<1> HIDE DEF u
<1>4. Range(u) \subseteq Range(s) \cup Range(t)
  <2> SUFFICES ASSUME NEW i \in 1 .. Len(s) + Len(t) PROVE u[i] \in Range(s) \cup Range(t)
    BY <1>2, <1>3 DEF Range
  <2>1. CASE i <= Len(s)
    BY <1>1, <1>2, <1>3, <2>1 DEF Range
  <2>2. CASE ~(i <= Len(s))
    <3>1. i - Len(s) \in 1 .. Len(t) /\ u[i] = t[i - Len(s)]
      BY <1>1, <1>2, <1>3, <2>2
    <3> QED BY <1>2, <3>1 DEF Range
  <2> QED BY <2>1, <2>2
<1>5. Range(s) \cup Range(t) \subseteq Range(u)
  <2>1. ASSUME NEW i \in 1 .. Len(s) PROVE s[i] \in Range(u)
    <3>1. i \in 1 .. Len(s) + Len(t) /\ u[i] = s[i]
      BY <1>1, <1>2, <1>3
    <3> QED BY <1>2, <1>3, <3>1 DEF Range
  <2>2. ASSUME NEW i \in 1 .. Len(t) PROVE t[i] \in Range(u)
    <3>1. /\ i + Len(s) \in 1 .. Len(s) + Len(t) /\ ~(i + Len(s) <= Len(s))
          /\ (i + Len(s)) - Len(s) = i
      BY <1>2
    <3>2. u[i + Len(s)] = t[i]
      BY <1>1, <1>3, <3>1
    <3> QED BY <1>2, <1>3, <3>1, <3>2 DEF Range
  <2> QED BY <1>2, <2>1, <2>2 DEF Range
<1>6. t # <<>> => u # <<>> /\ Last(u) = Last(t)
  <2> SUFFICES ASSUME t # <<>> PROVE u # <<>> /\ Last(u) = Last(t)
    OBVIOUS
  <2>1. Len(t) > 0 /\ Len(u) = Len(s) + Len(t)
    BY <1>1, <1>2, <1>3, EmptySeq
  <2>2. u # <<>>
    BY <1>2, <2>1
  <2>3. /\ Len(u) \in 1 .. Len(s) + Len(t) /\ ~(Len(u) <= Len(s))
        /\ Len(u) - Len(s) = Len(t)
    BY <1>2, <2>1
  <2> QED BY <1>1, <1>3, <2>2, <2>3 DEF Last
<1> QED BY <1>1, <1>3, <1>4, <1>5, <1>6

\* Putting an element at the end of a list.
LEMMA Pushed ==
    ASSUME NEW S, NEW s \in Seq(S), NEW e \in S
    PROVE  /\ Append(s, e) \in Seq(S)
           /\ Range(Append(s, e)) = Range(s) \cup {e}
           /\ Append(s, e) # <<>> /\ Last(Append(s, e)) = e
<1>1. <<e>> \in Seq(S) /\ <<e>> # <<>> /\ Len(<<e>>) = 1 /\ <<e>>[1] = e
  OBVIOUS
<1>2. Range(<<e>>) = {e}
  BY DEF Range
<1>3. Append(s, e) = s \o <<e>>
  OBVIOUS
<1> DEFINE t == <<e>>
<1>4. t \in Seq(S) /\ t # <<>> /\ Last(t) = e /\ Range(t) = {e} /\ Append(s, e) = s \o t
  BY <1>1, <1>2, <1>3 DEF Last
<1> HIDE DEF t
<1> QED BY <1>4, Joined

\* ... is joining it.
LEMMA PushedIsJoined ==
    ASSUME NEW S, NEW s \in Seq(S), NEW e \in S
    PROVE  s \o <<e>> = Append(s, e) /\ <<e>> \in Seq(S)
OBVIOUS

\* Taking the last element off.
LEMMA Shortened ==
    ASSUME NEW S, NEW s \in Seq(S), s # <<>>
    PROVE  /\ Front(s) \in Seq(S)
           /\ Last(s) \in S /\ Last(s) \in Range(s)
           /\ Range(s) = Range(Front(s)) \cup {Last(s)}
<1>1. Len(s) \in Nat \ {0} /\ s \in [1 .. Len(s) -> S]
  BY EmptySeq, LenProperties
<1>2. /\ Front(s) \in Seq(S)
      /\ Len(Front(s)) = Len(s) - 1
      /\ \A i \in 1 .. Len(s) - 1 : Front(s)[i] = s[i]
  BY <1>1 DEF Front
<1>3. Range(Front(s)) = {s[i] : i \in 1 .. Len(s) - 1}
  BY <1>2 DEF Range
<1>4. Range(s) = {s[i] : i \in 1 .. Len(s)}
  BY <1>1 DEF Range
<1> QED BY <1>1, <1>2, <1>3, <1>4 DEF Last

\* The elements of short lists.
LEMMA Ranges ==
    /\ \A a : Range(<<a>>) = {a} /\ Last(<<a>>) = a
    /\ \A a, b : Range(<<a, b>>) = {a, b} /\ Last(<<a, b>>) = b
    /\ \A a, b, c : Range(<<a, b, c>>) = {a, b, c} /\ Last(<<a, b, c>>) = c
    /\ \A a, b, c, d : Range(<<a, b, c, d>>) = {a, b, c, d} /\ Last(<<a, b, c, d>>) = d
BY DEF Range, Last

-----------------------------------------------------------------------------
(***************************************************************************)
(* The invariant of the generator.                                         *)
(***************************************************************************)
\* The labels a gen_ call under way will place.
Due(f) == CASE f.stmt = "if" -> {f.end} \cup (IF f.more THEN {f.else} ELSE {})
            [] f.stmt \in {"else", "while"} -> {f.end}
            [] OTHER -> {f.end, f.cont}
DueLabels == UNION {Due(f) : f \in Range(open)}

\* A label that is placed, or will be before the function ends.
Placed(l) == \/ Lab(l) \in Range(code)
             \/ l \in DueLabels
             \/ l = Epilogue /\ needs_canary

IsJump(c) == c.op \in {"jmp", "jz", "jnz"}
IsLoop(f) == f.stmt \in {"while", "do", "for", "forarr"}

\* Every label that is referred to, or may still be, is such a label.
Targets == /\ \A c \in Range(code) : IsJump(c) => Placed(c.lab)
           /\ \A c \in Range(loop_stack) : Placed(c.end) /\ Placed(c.cont)
           /\ \A f \in Range(open) : IsLoop(f) => Placed(f.start)

\* The statements of a body do not emit the comparison of the canary; in a
\* protected function they do not return.
Inner(c) == c.op # "check" /\ (needs_canary => c.op # "ret")
Body == \A c \in Range(code) : Inner(c)

\* What last_is_return relies on.
EndsInLeave == LastIsReturn => code # <<>> /\ Last(code) = Leave

\* The finished function ends with ret; if it is protected, that is its only
\* one, and the only comparison is right before it.
Finished == /\ code # <<>> /\ Last(code) = Ret
            /\ \A c \in Range(code) : IsJump(c) => Lab(c.lab) \in Range(code)
            /\ needs_canary =>
                  /\ Len(code) > 2
                  /\ \A i \in DOMAIN code : /\ code[i].op = "check" <=> i = Len(code) - 1
                                            /\ code[i].op = "ret" <=> i = Len(code)
            /\ ~needs_canary => Body

Unfinished == Targets /\ Body /\ EndsInLeave
GenIInv == /\ GenTyped
           /\ phase # "done" => Unfinished
           /\ phase = "done" => Finished

\* What every statement that emits something has to see to.
LEMMA Emitting ==
    ASSUME GenTyped, Targets, Body, UNCHANGED needs_canary,
           NEW instrs \in Seq(Instrs), Emit(instrs), instrs # <<>>,
           \A l \in DueLabels : l \in DueLabels' \/ Lab(l) \in Range(instrs),
           \A c \in Range(instrs) : Inner(c) /\ (IsJump(c) => Placed(c.lab)'),
           \A c \in Range(loop_stack)' :
              c \in Range(loop_stack) \/ (Placed(c.end)' /\ Placed(c.cont)'),
           \A f \in Range(open)' : f \in Range(open) \/ (IsLoop(f) => Placed(f.start)')
    PROVE  /\ code' \in Seq(Instrs)
           /\ Targets' /\ Body'
           /\ code' # <<>> /\ Last(code') = Last(instrs)
<1>1. /\ code' \in Seq(Instrs)
      /\ Range(code') = Range(code) \cup Range(instrs)
      /\ code' # <<>> /\ Last(code') = Last(instrs)
  BY Joined DEF Emit, GenTyped
<1>2. \A l : Placed(l) => Placed(l)'
  BY <1>1 DEF Placed
<1>3. Targets'
  BY <1>1, <1>2 DEF Targets, IsJump, IsLoop
<1>4. Body'
  BY <1>1 DEF Body, Inner
<1> QED BY <1>1, <1>3, <1>4

\* A token of the source.
LEMMA Tokens ==
    ASSUME GenTyped, NEW t \in SrcTokens, Token(t)
    PROVE  /\ src' \in Seq(SrcTokens)
           /\ t # "return" => EndsInLeave'
           /\ LastIsReturn' => t = "return"
<1>1. src' \in Seq(SrcTokens) /\ Last(src') = t
  BY Pushed DEF GenTyped, Token
<1> QED BY <1>1 DEF EndsInLeave, LastIsReturn

\* Instructions are instructions.
LEMMA InstrTypes ==
    ASSUME GenTyped
    PROVE  /\ \A l \in Nat : /\ Lab(l) \in Instrs /\ Jmp(l) \in Instrs
                             /\ Jz(l) \in Instrs /\ Jnz(l) \in Instrs
           /\ Ret \in Instrs /\ Check \in Instrs /\ Leave \in Instrs
           /\ \A op \in {"eff", "test"} : Obs(op) \in Instrs
           /\ \A op \in {"write", "read", "init", "cmp", "bind", "step"} :
                 \A n \in AllNames : \A slot \in Nat : On(op, n, slot) \in Instrs
<1>1. Len(src) + 1 \in Nat
  BY LenProperties DEF GenTyped
<1>2. \A op \in {"eff", "test"} : Obs(op) \in Accounted
  BY <1>1 DEF Obs, Accounted
<1>3. \A op \in {"write", "read", "init", "cmp", "bind", "step"} :
         \A n \in AllNames : \A slot \in Nat : On(op, n, slot) \in Accounted
  BY <1>1 DEF On, Accounted
<1>4. Leave \in Instrs
  BY DEF Leave, Epilogue, Instrs, Labelled
<1> QED BY <1>2, <1>3, <1>4 DEF Instrs, Labelled

\* What an instruction is, by its op.
LEMMA Ops ==
    /\ \A l : /\ Lab(l).op = "lab" /\ Jmp(l).op = "jmp" /\ Jz(l).op = "jz" /\ Jnz(l).op = "jnz"
              /\ Jmp(l).lab = l /\ Jz(l).lab = l /\ Jnz(l).lab = l
    /\ Ret.op = "ret" /\ Check.op = "check"
    /\ \A op : Obs(op).op = op
    /\ \A op, n, slot : On(op, n, slot).op = op
BY DEF Lab, Jmp, Jz, Jnz, Ret, Check, Obs, On

\* alloc_local gives names slots.
LEMMA Allocated ==
    ASSUME GenTyped, NEW names \in Seq(AllNames), Alloc(names)
    PROVE  /\ nslots' \in Nat
           /\ DOMAIN locals \subseteq DOMAIN locals'
           /\ Range(names) \subseteq DOMAIN locals'
           /\ DOMAIN locals' \subseteq AllNames
           /\ \A n \in DOMAIN locals' : locals'[n] \in Nat
<1>1. Len(names) \in Nat /\ DOMAIN names = 1 .. Len(names)
  BY LenProperties
<1>2. nslots' \in Nat
  BY <1>1 DEF GenTyped, Alloc
<1>3. DOMAIN locals' = DOMAIN locals \cup Range(names)
  BY DEF Alloc, Range
<1>4. ASSUME NEW n \in DOMAIN locals' PROVE locals'[n] \in Nat
  <2>1. CASE \E i \in DOMAIN names : names[i] = n
    <3> DEFINE c == CHOOSE i \in DOMAIN names : names[i] = n
    <3>1. c \in 1 .. Len(names)
      BY <1>1, <2>1
    <3>2. locals'[n] = nslots + c
      BY <1>4, <2>1 DEF Alloc
    <3> HIDE DEF c
    <3> QED BY <1>1, <3>1, <3>2 DEF GenTyped
  <2>2. CASE ~ \E i \in DOMAIN names : names[i] = n
    <3>1. locals'[n] = locals[n] /\ n \in DOMAIN locals
      BY <1>4, <2>2 DEF Alloc
    <3> QED BY <3>1 DEF GenTyped
  <2> QED BY <2>1, <2>2
<1>5. Range(names) \subseteq AllNames
  BY <1>1 DEF Range
<1> QED BY <1>2, <1>3, <1>4, <1>5 DEF GenTyped

-----------------------------------------------------------------------------
(***************************************************************************)
(* Statements without a body.                                              *)
(***************************************************************************)
\* Names keep their slots or get new ones.
SlotsKept == /\ nslots' \in Nat
             /\ DOMAIN locals \subseteq DOMAIN locals' /\ DOMAIN locals' \subseteq AllNames
             /\ \A n \in DOMAIN locals' : locals'[n] \in Nat

\* A statement of no more than instructions and a token.
LEMMA PlainStep ==
    ASSUME GenIInv, Simple, SlotsKept, src' \in Seq(SrcTokens),
           NEW instrs \in Seq(Instrs), instrs # <<>>, Emit(instrs),
           \A c \in Range(instrs) : Inner(c) /\ (IsJump(c) => Placed(c.lab)),
           LastIsReturn' => Last(instrs) = Leave
    PROVE  GenIInv'
<1>1. /\ phase = "gen" /\ UNCHANGED <<needs_canary, phase, open, loop_stack, label_counter>>
      /\ GenTyped /\ Targets /\ Body
  BY DEF Simple, BeginStmt, GenIInv, Unfinished
<1>2. DueLabels' = DueLabels
  BY <1>1 DEF DueLabels
<1>3. /\ code' \in Seq(Instrs)
      /\ \A l : Placed(l) => Placed(l)'
  <2>1. code' \in Seq(Instrs) /\ Range(code') = Range(code) \cup Range(instrs)
    BY <1>1, Joined DEF Emit, GenTyped
  <2> QED BY <1>1, <1>2, <2>1 DEF Placed
<1>4. Targets' /\ Body' /\ code' # <<>> /\ Last(code') = Last(instrs)
  BY <1>1, <1>2, <1>3, Emitting
<1>5. EndsInLeave'
  BY <1>1, <1>4 DEF EndsInLeave, Leave, Ret, Jmp, Epilogue
<1>6. GenTyped'
  BY <1>1, <1>3 DEF GenTyped, SlotsKept
<1> QED BY <1>1, <1>4, <1>5, <1>6 DEF GenIInv, Unfinished

\* Nothing is bound.
LEMMA SameSlots ==
    ASSUME GenTyped, UNCHANGED <<locals, nslots>>
    PROVE  SlotsKept
BY DEF GenTyped, SlotsKept

LEMMA ExprStep == GenIInv /\ ExprStmt => GenIInv'
<1> SUFFICES ASSUME GenIInv, ExprStmt PROVE GenIInv'
  OBVIOUS
<1> DEFINE c == Obs("eff")
           instrs == <<c>>
<1>0. GenTyped
  BY DEF GenIInv
<1>1. c \in Instrs /\ c.op = "eff"
  BY <1>0, InstrTypes, Ops
<1> HIDE DEF c
<1>2. instrs \in Seq(Instrs) /\ instrs # <<>> /\ Range(instrs) = {c}
  BY <1>1, Ranges
<1>3. Emit(instrs) /\ Simple /\ Token("eff") /\ SlotsKept
  BY <1>0, SameSlots DEF ExprStmt, c
<1>4. src' \in Seq(SrcTokens) /\ ~LastIsReturn'
  BY <1>0, <1>3, Tokens DEF SrcTokens
<1> HIDE DEF instrs
<1> QED BY <1>1, <1>2, <1>3, <1>4, PlainStep DEF Inner, IsJump

\* A statement that accesses a variable.
LEMMA AccessStep ==
    ASSUME GenIInv, Simple, SlotsKept, NEW t \in SrcTokens, t # "return", Token(t),
           NEW op \in {"write", "read"}, NEW n \in AllNames, NEW slot \in Nat,
           Emit(<<On(op, n, slot)>>)
    PROVE  GenIInv'
<1> DEFINE c == On(op, n, slot)
           instrs == <<c>>
<1>0. GenTyped
  BY DEF GenIInv
<1>1. c \in Instrs /\ c.op \in {"write", "read"}
  BY <1>0, InstrTypes, Ops
<1>2. Emit(<<c>>)
  OBVIOUS
<1> HIDE DEF c
<1>3. instrs \in Seq(Instrs) /\ instrs # <<>> /\ Range(instrs) = {c} /\ Emit(instrs)
  BY <1>1, <1>2, Ranges
<1>4. src' \in Seq(SrcTokens) /\ ~LastIsReturn'
  BY <1>0, Tokens
<1> HIDE DEF instrs
<1> QED BY <1>1, <1>3, <1>4, PlainStep DEF Inner, IsJump

LEMMA VariableStep ==
    ASSUME GenIInv, NEW n \in Names, VarDecl(n) \/ Assignment(n) \/ ReadStmt(n)
    PROVE  GenIInv'
<1>0. GenTyped /\ n \in AllNames
  BY DEF GenIInv, AllNames
<1>1. CASE VarDecl(n)
  <2>1. <<n>> \in Seq(AllNames)
    BY <1>0
  <2>2. SlotsKept
    BY <1>0, <1>1, <2>1, Allocated DEF VarDecl, SlotsKept
  <2>3. nslots + 1 \in Nat
    BY <1>0 DEF GenTyped
  <2> QED BY <1>0, <1>1, <2>2, <2>3, AccessStep DEF VarDecl, SrcTokens
<1>2. CASE Assignment(n)
  <2>1. SlotsKept /\ locals[n] \in Nat
    BY <1>0, <1>2, SameSlots DEF Assignment, GenTyped
  <2> QED BY <1>0, <1>2, <2>1, AccessStep DEF Assignment, SrcTokens
<1>3. CASE ReadStmt(n)
  <2>1. SlotsKept /\ locals[n] \in Nat
    BY <1>0, <1>3, SameSlots DEF ReadStmt, GenTyped
  <2> QED BY <1>0, <1>3, <2>1, AccessStep DEF ReadStmt, SrcTokens
<1> QED BY <1>1, <1>2, <1>3

LEMMA ReturnStep == GenIInv /\ ReturnStmt => GenIInv'
<1> SUFFICES ASSUME GenIInv, ReturnStmt PROVE GenIInv'
  OBVIOUS
<1> DEFINE c == Obs("eff")
           instrs == <<c, Leave>>
<1>0. GenTyped
  BY DEF GenIInv
<1>1. c \in Instrs /\ c.op = "eff" /\ Leave \in Instrs
  BY <1>0, InstrTypes, Ops
<1>2. Emit(instrs) /\ Simple /\ Token("return") /\ SlotsKept
  BY <1>0, SameSlots DEF ReturnStmt
<1>3. Inner(Leave) /\ (IsJump(Leave) => Placed(Leave.lab))
  BY Ops DEF Leave, Inner, IsJump, Placed
<1> HIDE DEF c
<1>4. instrs \in Seq(Instrs) /\ instrs # <<>> /\ Range(instrs) = {c, Leave}
      /\ Last(instrs) = Leave
  BY <1>1, Ranges
<1>5. src' \in Seq(SrcTokens)
  BY <1>0, <1>2, Tokens DEF SrcTokens
<1> HIDE DEF instrs
<1> QED BY <1>1, <1>2, <1>3, <1>4, <1>5, PlainStep DEF Inner, IsJump

\* The labels of a loop are placed or due while it is on the stack, and the
\* loop on top is the one break and continue refer to.
LEMMA JumpOutStep == GenIInv /\ (BreakStmt \/ ContinueStmt) => GenIInv'
<1> SUFFICES ASSUME GenIInv, BreakStmt \/ ContinueStmt PROVE GenIInv'
  OBVIOUS
<1>0. GenTyped /\ Simple /\ SlotsKept /\ loop_stack # <<>> /\ Targets
  BY SameSlots DEF GenIInv, BreakStmt, ContinueStmt, Simple, BeginStmt, Unfinished
<1>1. CurrentLoop \in Range(loop_stack)
      /\ CurrentLoop \in [start : Nat, end : Nat, cont : Nat]
  BY <1>0, Shortened DEF CurrentLoop, GenTyped
<1>2. PICK l \in {CurrentLoop.end, CurrentLoop.cont} : Emit(<<Jmp(l)>>)
  BY DEF BreakStmt, ContinueStmt, ContinueLabel
<1>3. l \in Nat /\ Placed(l)
  BY <1>0, <1>1, <1>2 DEF Targets
<1> DEFINE c == Jmp(l)
           instrs == <<c>>
<1>4. c \in Instrs /\ c.op = "jmp" /\ c.lab = l /\ Emit(<<c>>)
  BY <1>0, <1>2, <1>3, InstrTypes, Ops
<1> HIDE DEF c
<1>5. instrs \in Seq(Instrs) /\ instrs # <<>> /\ Range(instrs) = {c} /\ Emit(instrs)
  BY <1>4, Ranges
<1>6. src' \in Seq(SrcTokens) /\ ~LastIsReturn'
  BY <1>0, Tokens DEF BreakStmt, ContinueStmt, SrcTokens
<1> HIDE DEF instrs
<1> QED BY <1>0, <1>3, <1>4, <1>5, <1>6, PlainStep DEF Inner

-----------------------------------------------------------------------------
(***************************************************************************)
(* Statements with a body.                                                 *)
(***************************************************************************)
LoopTypes == [start : Nat, end : Nat, cont : Nat]

\* A label that is placed or due after a step that emits instrs.
StaysPlaced(l, instrs) == Placed(l) \/ l \in DueLabels' \/ Lab(l) \in Range(instrs)

\* The beginning, the end, or an arm of a statement.
LEMMA BlockStep ==
    ASSUME GenIInv, phase = "gen", UNCHANGED <<needs_canary, phase>>, SlotsKept,
           label_counter' \in Nat,
           NEW t \in SrcTokens, t # "return", Token(t),
           NEW instrs \in Seq(Instrs), instrs # <<>>, Emit(instrs),
           \A c \in Range(instrs) : Inner(c) /\ (IsJump(c) => StaysPlaced(c.lab, instrs)),
           open' \in Seq(Frames),
           \A f \in Range(open)' : \/ f \in Range(open)
                                   \/ /\ IsLoop(f) => StaysPlaced(f.start, instrs)
                                      /\ f.stmt \in {"for", "forarr"} => f.counter \in DOMAIN locals',
           \A l \in DueLabels : l \in DueLabels' \/ Lab(l) \in Range(instrs),
           loop_stack' \in Seq(LoopTypes),
           \A c \in Range(loop_stack)' :
              c \in Range(loop_stack) \/ (StaysPlaced(c.end, instrs) /\ StaysPlaced(c.cont, instrs))
    PROVE  GenIInv'
<1>1. GenTyped /\ Targets /\ Body
  BY DEF GenIInv, Unfinished
<1>2. code' \in Seq(Instrs) /\ Range(code') = Range(code) \cup Range(instrs)
  BY <1>1, Joined DEF Emit, GenTyped
<1>3. \A l : StaysPlaced(l, instrs) => Placed(l)'
  BY <1>2 DEF Placed, StaysPlaced
<1>4. Targets' /\ Body'
  BY <1>1, <1>3, Emitting
<1>5. src' \in Seq(SrcTokens) /\ EndsInLeave'
  BY <1>1, Tokens
<1>6. \A f \in Range(open)' : f.stmt \in {"for", "forarr"} => f.counter \in DOMAIN locals'
  BY <1>1 DEF GenTyped, SlotsKept
<1>7. GenTyped'
  BY <1>1, <1>2, <1>5, <1>6 DEF GenTyped, SlotsKept, LoopTypes
<1> QED BY <1>4, <1>5, <1>7 DEF GenIInv, Unfinished

\* A gen_ call begins.
LEMMA Opened ==
    ASSUME GenTyped, NEW f \in Frames, open' = Append(open, f)
    PROVE  /\ open' \in Seq(Frames)
           /\ Range(open)' = Range(open) \cup {f}
           /\ DueLabels' = DueLabels \cup Due(f)
<1>1. open' \in Seq(Frames) /\ Range(open)' = Range(open) \cup {f}
  BY Pushed DEF GenTyped
<1> QED BY <1>1 DEF DueLabels

\* A gen_ call ends.
LEMMA Ended ==
    ASSUME GenTyped, open # <<>>, open' = Front(open)
    PROVE  /\ open' \in Seq(Frames)
           /\ Last(open) \in Frames /\ Last(open) \in Range(open)
           /\ Range(open)' \subseteq Range(open)
           /\ DueLabels \subseteq DueLabels' \cup Due(Last(open))
           /\ Due(Last(open)) \subseteq DueLabels
<1>1. /\ open' \in Seq(Frames)
      /\ Last(open) \in Frames /\ Last(open) \in Range(open)
      /\ Range(open) = Range(open)' \cup {Last(open)}
  BY Shortened DEF GenTyped
<1> QED BY <1>1 DEF DueLabels

\* gen_if goes on to another arm.
LEMMA Changed ==
    ASSUME GenTyped, open # <<>>, NEW f \in Frames, open' = Append(Front(open), f)
    PROVE  /\ open' \in Seq(Frames)
           /\ Last(open) \in Frames /\ Last(open) \in Range(open)
           /\ Range(open)' \subseteq Range(open) \cup {f}
           /\ DueLabels \subseteq DueLabels' \cup Due(Last(open))
           /\ Due(f) \subseteq DueLabels'
           /\ Due(Last(open)) \subseteq DueLabels
<1>1. /\ Front(open) \in Seq(Frames)
      /\ Last(open) \in Frames /\ Last(open) \in Range(open)
      /\ Range(open) = Range(Front(open)) \cup {Last(open)}
  BY Shortened DEF GenTyped
<1>2. open' \in Seq(Frames) /\ Range(open)' = Range(Front(open)) \cup {f}
  BY <1>1, Pushed
<1> QED BY <1>1, <1>2 DEF DueLabels

\* What gen_if keeps in its frame.
LEMMA IfFrame ==
    ASSUME NEW f \in Frames, f.stmt \in {"if", "else"}
    PROVE  /\ f.end \in Nat /\ f.else \in Nat /\ f.more \in BOOLEAN
           /\ f = [stmt |-> f.stmt, end |-> f.end, else |-> f.else, more |-> f.more]
BY DEF Frames, Loops

\* gen_if goes on to an arm with another test.
LEMMA IfFrameNext ==
    ASSUME NEW f \in Frames, f.stmt = "if", NEW el, NEW m
    PROVE  [f EXCEPT !.else = el, !.more = m]
              = [stmt |-> "if", end |-> f.end, else |-> el, more |-> m]
<1> DEFINE g == [f EXCEPT !.else = el]
<1>1. f = [stmt |-> "if", end |-> f.end, else |-> f.else, more |-> f.more]
  BY IfFrame
<1>2. g = [stmt |-> "if", end |-> f.end, else |-> el, more |-> f.more]
  BY <1>1
<1> HIDE DEF g
<1>3. [g EXCEPT !.more = m] = [stmt |-> "if", end |-> f.end, else |-> el, more |-> m]
  BY <1>2
<1>4. [f EXCEPT !.else = el, !.more = m] = [g EXCEPT !.more = m]
  BY Zenon DEF g
<1> QED BY <1>3, <1>4

\* The instructions of a test.
LEMMA Tested ==
    ASSUME GenTyped, NEW l \in Nat
    PROVE  /\ <<Obs("test"), Jz(l)>> \in Seq(Instrs)
           /\ \A c \in Range(<<Obs("test"), Jz(l)>>) : Inner(c) /\ (IsJump(c) => c.lab = l)
<1> DEFINE c == Obs("test")
           d == Jz(l)
<1>1. c \in Instrs /\ d \in Instrs /\ c.op = "test" /\ d.op = "jz" /\ d.lab = l
  BY InstrTypes, Ops
<1> HIDE DEF c, d
<1>2. <<c, d>> \in Seq(Instrs) /\ Range(<<c, d>>) = {c, d}
  BY <1>1, Ranges
<1>3. \A x \in {c, d} : Inner(x) /\ (IsJump(x) => x.lab = l)
  BY <1>1 DEF Inner, IsJump
<1> QED BY <1>2, <1>3 DEF c, d

LEMMA IfStep ==
    ASSUME GenIInv, NEW more \in BOOLEAN, If(more)
    PROVE  GenIInv'
<1> DEFINE e == NewLabel(1)
           el == NewLabel(2)
           f == [stmt |-> "if", end |-> e, else |-> el, more |-> more]
           l == IF more THEN el ELSE e
           instrs == <<Obs("test"), Jz(l)>>
<1>0. /\ GenTyped /\ phase = "gen" /\ UNCHANGED <<needs_canary, phase, loop_stack>>
      /\ SlotsKept /\ Token("if") /\ "if" \in SrcTokens
  BY SameSlots DEF GenIInv, If, BeginStmt, SrcTokens
<1>1. e \in Nat /\ el \in Nat /\ label_counter' \in Nat /\ l \in Nat
  BY <1>0 DEF GenTyped, NewLabel, If
<1>2. f \in Frames /\ open' = Append(open, f) /\ Emit(instrs) /\ ~IsLoop(f)
      /\ l \in Due(f) /\ f.stmt = "if"
  BY <1>1 DEF Frames, If, Test, IsLoop, Due
<1> HIDE DEF e, el
<1>3. instrs \in Seq(Instrs) /\ instrs # <<>>
      /\ \A c \in Range(instrs) : Inner(c) /\ (IsJump(c) => c.lab = l)
  BY <1>0, <1>1, Tested
<1> HIDE DEF f, l, instrs
<1>4. open' \in Seq(Frames) /\ Range(open)' = Range(open) \cup {f}
      /\ DueLabels' = DueLabels \cup Due(f)
  BY <1>0, <1>2, Opened
<1>5. loop_stack' \in Seq(LoopTypes)
  BY <1>0 DEF GenTyped, LoopTypes
<1>6. \A c \in Range(instrs) : Inner(c) /\ (IsJump(c) => StaysPlaced(c.lab, instrs))
  BY <1>2, <1>3, <1>4 DEF StaysPlaced
<1> QED BY <1>0, <1>1, <1>2, <1>3, <1>4, <1>5, <1>6, BlockStep

LEMMA ElifStep ==
    ASSUME GenIInv, NEW more \in BOOLEAN, Elif(more)
    PROVE  GenIInv'
<1> DEFINE top == Last(open)
           e == top.end
           arm == top.else
           el == NewLabel(1)
           f == [stmt |-> "if", end |-> e, else |-> el, more |-> more]
           l == IF more THEN el ELSE e
           tail == <<Obs("test"), Jz(l)>>
           head == <<Jmp(e), Lab(arm)>>
           instrs == head \o tail
<1>0. /\ GenTyped /\ phase = "gen" /\ UNCHANGED <<needs_canary, phase, loop_stack>>
      /\ SlotsKept /\ Token("elif") /\ "elif" \in SrcTokens
  BY SameSlots DEF GenIInv, Elif, BeginStmt, SrcTokens
<1>1. open # <<>> /\ top.stmt = "if" /\ top.more
  BY DEF Elif, InArm
<1>2. top \in Frames /\ top \in Range(open)
  BY <1>0, <1>1, Shortened DEF GenTyped
<1> HIDE DEF top
<1>3. e \in Nat /\ arm \in Nat /\ Due(top) = {e, arm}
  BY <1>1, <1>2, IfFrame DEF Due
<1>4. el \in Nat /\ label_counter' \in Nat /\ l \in Nat
  BY <1>0, <1>3 DEF GenTyped, NewLabel, Elif
<1>5. f = [top EXCEPT !.else = el, !.more = more]
  BY <1>1, <1>2, IfFrameNext
<1>6. f \in Frames /\ open' = Append(Front(open), f) /\ Emit(instrs) /\ ~IsLoop(f)
      /\ l \in Due(f) /\ e \in Due(f) /\ f.stmt = "if"
  BY <1>3, <1>4, <1>5 DEF Frames, Elif, Test, IsLoop, Due, top
<1>7. /\ Range(open)' \subseteq Range(open) \cup {f} /\ open' \in Seq(Frames)
      /\ DueLabels \subseteq DueLabels' \cup Due(top) /\ Due(f) \subseteq DueLabels'
  BY <1>0, <1>1, <1>6, Changed DEF top
<1> HIDE DEF e, el, arm, f, l
<1>8. /\ tail \in Seq(Instrs) /\ tail # <<>>
      /\ \A c \in Range(tail) : Inner(c) /\ (IsJump(c) => c.lab = l)
  BY <1>0, <1>4, Tested
<1>9. /\ head \in Seq(Instrs) /\ Range(head) = {Jmp(e), Lab(arm)}
  BY <1>0, <1>3, InstrTypes, Ranges
<1> HIDE DEF head, tail
<1>10. /\ instrs \in Seq(Instrs) /\ instrs # <<>>
       /\ Range(instrs) = {Jmp(e), Lab(arm)} \cup Range(tail)
  BY <1>8, <1>9, Joined
<1> HIDE DEF instrs
<1>11. \A c \in Range(instrs) : Inner(c) /\ (IsJump(c) => c.lab \in {e, l})
  BY <1>8, <1>10, Ops DEF Inner, IsJump
<1>12. \A c \in Range(instrs) : Inner(c) /\ (IsJump(c) => StaysPlaced(c.lab, instrs))
  BY <1>6, <1>7, <1>11 DEF StaysPlaced
<1>13. \A d \in DueLabels : d \in DueLabels' \/ Lab(d) \in Range(instrs)
  BY <1>3, <1>6, <1>7, <1>10
<1>14. loop_stack' \in Seq(LoopTypes)
  BY <1>0 DEF GenTyped, LoopTypes
<1> QED BY <1>0, <1>4, <1>6, <1>7, <1>10, <1>12, <1>13, <1>14, BlockStep

LEMMA ElseStep == GenIInv /\ Else => GenIInv'
<1> SUFFICES ASSUME GenIInv, Else PROVE GenIInv'
  OBVIOUS
<1> DEFINE top == Last(open)
           e == top.end
           arm == top.else
           f == [top EXCEPT !.stmt = "else"]
           instrs == <<Jmp(e), Lab(arm)>>
<1>0. /\ GenTyped /\ phase = "gen" /\ UNCHANGED <<needs_canary, phase, loop_stack>>
      /\ SlotsKept /\ Token("else") /\ "else" \in SrcTokens
  BY SameSlots DEF GenIInv, Else, BeginStmt, SrcTokens
<1>1. open # <<>> /\ top.stmt = "if" /\ top.more
  BY DEF Else, InArm
<1>2. top \in Frames /\ top \in Range(open)
  BY <1>0, <1>1, Shortened DEF GenTyped
<1>3. open' = Append(Front(open), f) /\ Emit(instrs)
  BY DEF Else
<1>4. label_counter' \in Nat
  BY <1>0 DEF GenTyped, Else
<1> HIDE DEF top
<1>5. e \in Nat /\ arm \in Nat /\ Due(top) = {e, arm}
  BY <1>1, <1>2, IfFrame DEF Due
<1>6. f \in Frames /\ ~IsLoop(f) /\ Due(f) = {e} /\ f.stmt = "else"
  <2>1. top = [stmt |-> top.stmt, end |-> top.end, else |-> top.else, more |-> top.more]
        /\ top.more \in BOOLEAN
    BY <1>1, <1>2, IfFrame
  <2>2. f = [stmt |-> "else", end |-> e, else |-> arm, more |-> top.more]
    BY <2>1
  <2> QED BY <1>5, <2>1, <2>2 DEF Frames, IsLoop, Due
<1> HIDE DEF f
<1>7. /\ Range(open)' \subseteq Range(open) \cup {f} /\ open' \in Seq(Frames)
      /\ DueLabels \subseteq DueLabels' \cup Due(top) /\ Due(f) \subseteq DueLabels'
  BY <1>0, <1>1, <1>3, <1>6, Changed DEF top
<1> HIDE DEF e, arm
<1>8. /\ instrs \in Seq(Instrs) /\ instrs # <<>> /\ Range(instrs) = {Jmp(e), Lab(arm)}
  BY <1>0, <1>5, InstrTypes, Ranges
<1> HIDE DEF instrs
<1>9. \A c \in Range(instrs) : Inner(c) /\ (IsJump(c) => StaysPlaced(c.lab, instrs))
  BY <1>6, <1>7, <1>8, Ops DEF Inner, IsJump, StaysPlaced
<1>10. \A d \in DueLabels : d \in DueLabels' \/ Lab(d) \in Range(instrs)
  BY <1>5, <1>6, <1>7, <1>8
<1>11. loop_stack' \in Seq(LoopTypes)
  BY <1>0 DEF GenTyped, LoopTypes
<1> QED BY <1>0, <1>3, <1>4, <1>6, <1>7, <1>8, <1>9, <1>10, <1>11, BlockStep

\* What the end of a statement with a body has in common.
LEMMA CloseStep ==
    ASSUME GenIInv, NEW t \in SrcTokens, t # "return", NEW s, Close(t, s),
           loop_stack' = loop_stack \/ PopLoop,
           NEW instrs \in Seq(Instrs), instrs # <<>>, Emit(instrs),
           \A c \in Range(instrs) : Inner(c) /\ (IsJump(c) => StaysPlaced(c.lab, instrs)),
           \A l \in Due(Last(open)) : Lab(l) \in Range(instrs)
    PROVE  GenIInv'
<1>1. /\ GenTyped /\ phase = "gen" /\ UNCHANGED <<needs_canary, phase, label_counter>>
      /\ Token(t) /\ open # <<>> /\ open' = Front(open) /\ SlotsKept
  BY SameSlots DEF GenIInv, Close, Generating
<1>2. /\ open' \in Seq(Frames) /\ Range(open)' \subseteq Range(open)
      /\ DueLabels \subseteq DueLabels' \cup Due(Last(open))
  BY <1>1, Ended
<1>3. loop_stack' \in Seq(LoopTypes) /\ Range(loop_stack)' \subseteq Range(loop_stack)
  <2>1. loop_stack \in Seq(LoopTypes)
    BY <1>1 DEF GenTyped, LoopTypes
  <2>2. CASE loop_stack = <<>> /\ PopLoop
    BY <2>2 DEF PopLoop, Front, Range
  <2>3. CASE loop_stack # <<>> /\ PopLoop
    BY <2>1, <2>3, Shortened DEF PopLoop
  <2> QED BY <2>1, <2>2, <2>3
<1>4. label_counter' \in Nat
  BY <1>1 DEF GenTyped
<1> QED BY <1>1, <1>2, <1>3, <1>4, BlockStep

LEMMA EndIfStep == GenIInv /\ EndIf => GenIInv'
<1> SUFFICES ASSUME GenIInv, EndIf PROVE GenIInv'
  OBVIOUS
<1> DEFINE top == Last(open)
           e == top.end
<1>1. GenTyped /\ open # <<>> /\ top.stmt \in {"if", "else"} /\ "endif" \in SrcTokens
  BY DEF GenIInv, EndIf, InArm, Close, SrcTokens
<1>2. top \in Frames
  BY <1>1, Shortened DEF GenTyped
<1>3. PICK s : Close("endif", s)
  BY DEF EndIf
<1>4. loop_stack' = loop_stack
  BY DEF EndIf
<1>5. CASE InArm(FALSE) /\ Emit(<<Jmp(e), Lab(e)>>)
  <2> DEFINE instrs == <<Jmp(e), Lab(e)>>
  <2>1. e \in Nat /\ Due(top) \subseteq {e}
    BY <1>1, <1>2, <1>5, IfFrame DEF Due, InArm
  <2> HIDE DEF e
  <2>2. /\ instrs \in Seq(Instrs) /\ instrs # <<>> /\ Range(instrs) = {Jmp(e), Lab(e)}
        /\ Emit(instrs)
    BY <1>1, <1>5, <2>1, InstrTypes, Ranges
  <2> HIDE DEF instrs
  <2>3. \A c \in Range(instrs) : Inner(c) /\ (IsJump(c) => StaysPlaced(c.lab, instrs))
    BY <2>2, Ops DEF Inner, IsJump, StaysPlaced
  <2>4. \A l \in Due(top) : Lab(l) \in Range(instrs)
    BY <2>1, <2>2
  <2> QED BY <1>1, <1>3, <1>4, <2>2, <2>3, <2>4, CloseStep
<1>6. CASE top.stmt = "else" /\ Emit(<<Lab(e)>>)
  <2> DEFINE instrs == <<Lab(e)>>
  <2>1. e \in Nat /\ Due(top) \subseteq {e}
    BY <1>1, <1>2, <1>6, IfFrame DEF Due
  <2> HIDE DEF e
  <2>2. /\ instrs \in Seq(Instrs) /\ instrs # <<>> /\ Range(instrs) = {Lab(e)}
        /\ Emit(instrs)
    BY <1>1, <1>6, <2>1, InstrTypes, Ranges
  <2> HIDE DEF instrs
  <2>3. \A c \in Range(instrs) : Inner(c) /\ (IsJump(c) => StaysPlaced(c.lab, instrs))
    BY <2>2, Ops DEF Inner, IsJump, StaysPlaced
  <2>4. \A l \in Due(top) : Lab(l) \in Range(instrs)
    BY <2>1, <2>2
  <2> QED BY <1>1, <1>3, <1>4, <2>2, <2>3, <2>4, CloseStep
<1> QED BY <1>5, <1>6 DEF EndIf, Close

\* What the beginning of a loop has in common: its start label is placed at
\* once, the others are due.
LEMMA LoopStep ==
    ASSUME GenIInv, BeginStmt, UNCHANGED <<needs_canary, phase>>, SlotsKept,
           label_counter' \in Nat,
           NEW t \in SrcTokens, t # "return", Token(t),
           NEW f \in Loops, open' = Append(open, f),
           f.stmt \in {"for", "forarr"} => f.counter \in DOMAIN locals',
           NEW l \in Nat, NEW e \in Nat, NEW cont \in Nat, PushLoop(l, e, cont),
           e \in Due(f), cont \in Due(f) \cup {f.start},
           NEW instrs \in Seq(Instrs), Emit(instrs),
           Lab(f.start) \in Range(instrs),
           \A c \in Range(instrs) : Inner(c) /\ (IsJump(c) => c.lab \in Due(f))
    PROVE  GenIInv'
<1>1. GenTyped /\ phase = "gen" /\ f \in Frames /\ instrs # <<>>
  BY DEF GenIInv, BeginStmt, Frames, Range
<1>2. /\ open' \in Seq(Frames) /\ Range(open)' = Range(open) \cup {f}
      /\ DueLabels' = DueLabels \cup Due(f)
  BY <1>1, Opened
<1> DEFINE ctx == [start |-> l, end |-> e, cont |-> cont]
<1>3. ctx \in LoopTypes /\ ctx.end = e /\ ctx.cont = cont /\ loop_stack \in Seq(LoopTypes)
      /\ loop_stack' = Append(loop_stack, ctx)
  BY <1>1 DEF LoopTypes, GenTyped, PushLoop
<1> HIDE DEF ctx
<1>4. loop_stack' \in Seq(LoopTypes) /\ Range(loop_stack)' = Range(loop_stack) \cup {ctx}
  BY <1>3, Pushed
<1>5. \A d \in Due(f) \cup {f.start} : StaysPlaced(d, instrs)
  BY <1>2 DEF StaysPlaced
<1> QED BY <1>1, <1>2, <1>3, <1>4, <1>5, BlockStep

LEMMA WhileStep == GenIInv /\ While => GenIInv'
<1> SUFFICES ASSUME GenIInv, While PROVE GenIInv'
  OBVIOUS
<1> DEFINE l == NewLabel(1)
           e == NewLabel(2)
           f == [stmt |-> "while", start |-> l, end |-> e]
           b == Lab(l)
           c == Obs("test")
           d == Jz(e)
           instrs == <<b, c, d>>
<1>0. /\ GenTyped /\ BeginStmt /\ UNCHANGED <<needs_canary, phase>>
      /\ SlotsKept /\ Token("while") /\ "while" \in SrcTokens
  BY SameSlots DEF GenIInv, While, SrcTokens
<1>1. l \in Nat /\ e \in Nat /\ label_counter' \in Nat
  BY <1>0 DEF GenTyped, NewLabel, While
<1>2. open' = Append(open, f) /\ PushLoop(l, e, l) /\ Emit(instrs)
  BY DEF While
<1> HIDE DEF l, e
<1>3. f \in Loops /\ Due(f) = {e} /\ f.start = l /\ f.stmt = "while"
  BY <1>1 DEF Loops, Due
<1> HIDE DEF f
<1>4. /\ b \in Instrs /\ c \in Instrs /\ d \in Instrs
      /\ b.op = "lab" /\ c.op = "test" /\ d.op = "jz" /\ d.lab = e
  BY <1>0, <1>1, InstrTypes, Ops
<1>5. b = Lab(f.start)
  BY <1>3
<1> HIDE DEF b, c, d
<1>6. instrs \in Seq(Instrs) /\ Range(instrs) = {b, c, d}
  BY <1>4, Ranges
<1> HIDE DEF instrs
<1>7. Lab(f.start) \in Range(instrs)
      /\ \A x \in Range(instrs) : Inner(x) /\ (IsJump(x) => x.lab \in Due(f))
  BY <1>3, <1>4, <1>5, <1>6 DEF Inner, IsJump
<1> QED BY <1>0, <1>1, <1>2, <1>3, <1>6, <1>7, LoopStep

LEMMA DoWhileStep == GenIInv /\ DoWhile => GenIInv'
<1> SUFFICES ASSUME GenIInv, DoWhile PROVE GenIInv'
  OBVIOUS
<1> DEFINE l == NewLabel(1)
           cont == NewLabel(2)
           e == NewLabel(3)
           f == [stmt |-> "do", start |-> l, cont |-> cont, end |-> e]
           b == Lab(l)
           instrs == <<b>>
<1>0. /\ GenTyped /\ BeginStmt /\ UNCHANGED <<needs_canary, phase>>
      /\ SlotsKept /\ Token("do") /\ "do" \in SrcTokens
  BY SameSlots DEF GenIInv, DoWhile, SrcTokens
<1>1. l \in Nat /\ cont \in Nat /\ e \in Nat /\ label_counter' \in Nat
  BY <1>0 DEF GenTyped, NewLabel, DoWhile
<1>2. open' = Append(open, f) /\ PushLoop(cont, e, cont) /\ Emit(instrs)
  BY DEF DoWhile
<1> HIDE DEF l, e, cont
<1>3. f \in Loops /\ Due(f) = {e, cont} /\ f.start = l /\ f.stmt = "do"
  BY <1>1 DEF Loops, Due
<1> HIDE DEF f
<1>4. b \in Instrs /\ b.op = "lab" /\ b = Lab(f.start)
  BY <1>0, <1>1, <1>3, InstrTypes, Ops
<1> HIDE DEF b
<1>5. instrs \in Seq(Instrs) /\ Range(instrs) = {b}
  BY <1>4, Ranges
<1> HIDE DEF instrs
<1>6. Lab(f.start) \in Range(instrs)
      /\ \A x \in Range(instrs) : Inner(x) /\ (IsJump(x) => x.lab \in Due(f))
  BY <1>4, <1>5 DEF Inner, IsJump
<1> QED BY <1>0, <1>1, <1>2, <1>3, <1>5, <1>6, LoopStep

\* Either form of for: the names it binds include its counter.
LEMMA ForStep ==
    ASSUME GenIInv, NEW kind \in {"for", "forarr"}, NEW counter \in AllNames,
           NEW names \in Seq(AllNames), counter \in Range(names),
           NEW binds \in Seq(Instrs), \A c \in Range(binds) : c.op = "bind",
           For(kind, counter, names, binds)
    PROVE  GenIInv'
<1> DEFINE l == NewLabel(1)
           cont == NewLabel(2)
           e == NewLabel(3)
           slot == nslots + 1
           f == [stmt |-> kind, start |-> l, cont |-> cont, end |-> e, counter |-> counter]
           a == On("init", counter, slot)
           b == Lab(l)
           c == On("cmp", counter, slot)
           d == Jz(e)
           head == <<a, b, c, d>>
           instrs == head \o binds
<1>0. /\ GenTyped /\ BeginStmt /\ UNCHANGED <<needs_canary, phase>>
      /\ Alloc(names) /\ Token(kind) /\ kind \in SrcTokens /\ kind # "return"
  BY DEF GenIInv, For, SrcTokens
<1>1. /\ l \in Nat /\ cont \in Nat /\ e \in Nat /\ label_counter' \in Nat
      /\ slot \in Nat
  BY <1>0 DEF GenTyped, NewLabel, For
<1>2. open' = Append(open, f) /\ PushLoop(l, e, cont) /\ Emit(instrs)
  BY DEF For
<1>3. SlotsKept /\ counter \in DOMAIN locals'
  BY <1>0, Allocated DEF SlotsKept
<1> HIDE DEF l, e, cont, slot
<1>4. f \in Loops /\ Due(f) = {e, cont} /\ f.start = l /\ f.counter = counter
  BY <1>1 DEF Loops, Due
<1> HIDE DEF f
<1>5. /\ a \in Instrs /\ b \in Instrs /\ c \in Instrs /\ d \in Instrs
      /\ a.op = "init" /\ b.op = "lab" /\ c.op = "cmp" /\ d.op = "jz" /\ d.lab = e
  BY <1>0, <1>1, InstrTypes, Ops
<1>6. b = Lab(f.start)
  BY <1>4
<1> HIDE DEF a, b, c, d
<1>7. head \in Seq(Instrs) /\ Range(head) = {a, b, c, d}
  BY <1>5, Ranges
<1> HIDE DEF head
<1>8. instrs \in Seq(Instrs) /\ Range(instrs) = {a, b, c, d} \cup Range(binds)
  BY <1>7, Joined
<1> HIDE DEF instrs
<1>9. Lab(f.start) \in Range(instrs)
      /\ \A x \in Range(instrs) : Inner(x) /\ (IsJump(x) => x.lab \in Due(f))
  BY <1>4, <1>5, <1>6, <1>8 DEF Inner, IsJump
<1> QED BY <1>0, <1>1, <1>2, <1>3, <1>4, <1>8, <1>9, LoopStep

LEMMA AnyForStep ==
    ASSUME GenIInv, NEW n \in Names, ForRange(n) \/ ForArray(n)
    PROVE  GenIInv'
<1>0. GenTyped /\ n \in AllNames /\ label_counter \in Nat /\ nslots \in Nat
  BY DEF GenIInv, AllNames, GenTyped
<1>1. CASE ForRange(n)
  <2>1. <<n>> \in Seq(AllNames) /\ n \in Range(<<n>>)
    BY <1>0, Ranges
  <2>2. <<>> \in Seq(Instrs) /\ Range(<<>>) = {}
    BY DEF Range
  <2> QED BY <1>0, <1>1, <2>1, <2>2, ForStep DEF ForRange
<1>2. CASE ForArray(n)
  <2> DEFINE idx == <<"__for_idx", label_counter>>
             names == <<idx, n>>
             c == On("bind", n, nslots + 2)
             binds == <<c>>
  <2>1. idx \in AllNames
    BY <1>0 DEF AllNames
  <2>2. c \in Instrs /\ c.op = "bind"
    <3>1. nslots + 2 \in Nat
      BY <1>0
    <3> QED BY <1>0, <3>1, InstrTypes, Ops
  <2>3. For("forarr", idx, names, binds)
    BY <1>2 DEF ForArray
  <2> HIDE DEF idx, c
  <2>4. names \in Seq(AllNames) /\ idx \in Range(names)
    BY <1>0, <2>1, Ranges
  <2>5. binds \in Seq(Instrs) /\ Range(binds) = {c}
    BY <2>2, Ranges
  <2> HIDE DEF names, binds
  <2> QED BY <2>1, <2>2, <2>3, <2>4, <2>5, ForStep
<1> QED BY <1>1, <1>2

\* What a gen_ loop keeps in its frame; where its body began is placed.
LEMMA LoopFrame ==
    ASSUME GenTyped, Targets, open # <<>>, IsLoop(Last(open))
    PROVE  LET f == Last(open) IN
           /\ f.start \in Nat /\ f.end \in Nat /\ Placed(f.start)
           /\ f.stmt = "while" => Due(f) = {f.end}
           /\ f.stmt # "while" => Due(f) = {f.end, f.cont} /\ f.cont \in Nat
           /\ f.stmt \in {"for", "forarr"} =>
                 f.counter \in AllNames /\ locals[f.counter] \in Nat
<1> DEFINE f == Last(open)
<1>1. f \in Frames /\ f \in Range(open)
  BY Shortened DEF GenTyped
<1>2. Placed(f.start)
  BY <1>1 DEF Targets
<1>3. f.stmt \in {"for", "forarr"} => f.counter \in DOMAIN locals
  BY <1>1 DEF GenTyped
<1> HIDE DEF f
<1>4. IsLoop(f)
  BY DEF f
<1>5. /\ f.start \in Nat /\ f.end \in Nat
      /\ f.stmt # "while" => f.cont \in Nat
      /\ f.stmt \in {"for", "forarr"} => f.counter \in AllNames
  BY <1>1, <1>4 DEF Frames, Loops, IsLoop
<1>6. f.stmt = "while" => Due(f) = {f.end}
  BY DEF Due
<1>7. f.stmt # "while" => Due(f) = {f.end, f.cont}
  BY <1>4 DEF Due, IsLoop
<1> QED BY <1>2, <1>3, <1>5, <1>6, <1>7 DEF GenTyped, f

LEMMA EndWhileStep == GenIInv /\ EndWhile => GenIInv'
<1> SUFFICES ASSUME GenIInv, EndWhile PROVE GenIInv'
  OBVIOUS
<1> DEFINE top == Last(open)
           l == top.start
           e == top.end
           instrs == <<Jmp(l), Lab(e)>>
<1>1. /\ GenTyped /\ Targets /\ Close("endwhile", "while") /\ PopLoop /\ Emit(instrs)
      /\ open # <<>> /\ top.stmt = "while" /\ "endwhile" \in SrcTokens
  BY DEF GenIInv, Unfinished, EndWhile, Close, Generating, SrcTokens
<1>2. l \in Nat /\ e \in Nat /\ Placed(l) /\ Due(top) = {e}
  BY <1>1, LoopFrame DEF IsLoop
<1> HIDE DEF top, l, e
<1>3. instrs \in Seq(Instrs) /\ instrs # <<>> /\ Range(instrs) = {Jmp(l), Lab(e)}
  BY <1>1, <1>2, InstrTypes, Ranges
<1> HIDE DEF instrs
<1>4. \A c \in Range(instrs) : Inner(c) /\ (IsJump(c) => StaysPlaced(c.lab, instrs))
  BY <1>2, <1>3, Ops DEF Inner, IsJump, StaysPlaced
<1>5. \A d \in Due(Last(open)) : Lab(d) \in Range(instrs)
  BY <1>2, <1>3 DEF top
<1> QED BY <1>1, <1>3, <1>4, <1>5, CloseStep

LEMMA EndDoWhileStep == GenIInv /\ EndDoWhile => GenIInv'
<1> SUFFICES ASSUME GenIInv, EndDoWhile PROVE GenIInv'
  OBVIOUS
<1> DEFINE top == Last(open)
           l == top.start
           e == top.end
           cont == top.cont
           a == Lab(cont)
           b == Obs("test")
           c == Jnz(l)
           d == Lab(e)
           instrs == <<a, b, c, d>>
<1>1. /\ GenTyped /\ Targets /\ Close("enddo", "do") /\ PopLoop /\ Emit(instrs)
      /\ open # <<>> /\ top.stmt = "do" /\ "enddo" \in SrcTokens
  BY DEF GenIInv, Unfinished, EndDoWhile, Close, Generating, SrcTokens
<1>2. l \in Nat /\ e \in Nat /\ cont \in Nat /\ Placed(l) /\ Due(top) = {e, cont}
  BY <1>1, LoopFrame DEF IsLoop
<1> HIDE DEF top, l, e, cont
<1>3. /\ a \in Instrs /\ b \in Instrs /\ c \in Instrs /\ d \in Instrs
      /\ a.op = "lab" /\ b.op = "test" /\ c.op = "jnz" /\ c.lab = l /\ d.op = "lab"
  BY <1>1, <1>2, InstrTypes, Ops
<1>4. a = Lab(cont) /\ d = Lab(e)
  OBVIOUS
<1> HIDE DEF a, b, c, d
<1>5. instrs \in Seq(Instrs) /\ instrs # <<>> /\ Range(instrs) = {a, b, c, d}
  BY <1>3, Ranges
<1> HIDE DEF instrs
<1>6. \A x \in Range(instrs) : Inner(x) /\ (IsJump(x) => StaysPlaced(x.lab, instrs))
  BY <1>2, <1>3, <1>5 DEF Inner, IsJump, StaysPlaced
<1>7. \A x \in Due(Last(open)) : Lab(x) \in Range(instrs)
  BY <1>2, <1>4, <1>5 DEF top
<1> QED BY <1>1, <1>5, <1>6, <1>7, CloseStep

LEMMA EndForStep ==
    ASSUME GenIInv, NEW kind \in {"for", "forarr"}, EndFor(kind)
    PROVE  GenIInv'
<1> DEFINE top == Last(open)
           l == top.start
           e == top.end
           cont == top.cont
           a == Lab(cont)
           b == On("step", top.counter, locals[top.counter])
           c == Jmp(l)
           d == Lab(e)
           instrs == <<a, b, c, d>>
           t == [for |-> "endfor", forarr |-> "endforarr"][kind]
<1>1. /\ GenTyped /\ Targets /\ Close(t, kind) /\ PopLoop /\ Emit(instrs)
      /\ open # <<>> /\ top.stmt = kind /\ t \in SrcTokens /\ t # "return"
  BY DEF GenIInv, Unfinished, EndFor, Close, Generating, SrcTokens
<1> HIDE DEF t
<1>2. /\ l \in Nat /\ e \in Nat /\ cont \in Nat /\ Placed(l) /\ Due(top) = {e, cont}
      /\ top.counter \in AllNames /\ locals[top.counter] \in Nat
  BY <1>1, LoopFrame DEF IsLoop
<1> HIDE DEF top, l, e, cont
<1>3. /\ a \in Instrs /\ b \in Instrs /\ c \in Instrs /\ d \in Instrs
      /\ a.op = "lab" /\ b.op = "step" /\ c.op = "jmp" /\ c.lab = l /\ d.op = "lab"
  BY <1>1, <1>2, InstrTypes, Ops
<1>4. a = Lab(cont) /\ d = Lab(e)
  OBVIOUS
<1> HIDE DEF a, b, c, d
<1>5. instrs \in Seq(Instrs) /\ instrs # <<>> /\ Range(instrs) = {a, b, c, d}
  BY <1>3, Ranges
<1> HIDE DEF instrs
<1>6. \A x \in Range(instrs) : Inner(x) /\ (IsJump(x) => StaysPlaced(x.lab, instrs))
  BY <1>2, <1>3, <1>5 DEF Inner, IsJump, StaysPlaced
<1>7. \A x \in Due(Last(open)) : Lab(x) \in Range(instrs)
  BY <1>2, <1>4, <1>5 DEF top
<1> QED BY <1>1, <1>5, <1>6, <1>7, CloseStep

-----------------------------------------------------------------------------
(***************************************************************************)
(* The end of the function.                                                *)
(***************************************************************************)
\* The shared epilogue.
LEMMA ProtectedEnd ==
    ASSUME NEW t, t = <<Lab(Epilogue), Check, Ret>>
    PROVE  /\ t \in Seq(Instrs) /\ Len(t) = 3 /\ t # <<>> /\ Last(t) = Ret
           /\ Lab(Epilogue) \in Range(t)
           /\ \A c \in Range(t) : ~IsJump(c)
           /\ \A i \in 1 .. 3 : (t[i].op = "check" <=> i = 2) /\ (t[i].op = "ret" <=> i = 3)
<1> DEFINE b == Lab(Epilogue)
<1>0. b = Lab(Epilogue) /\ t = <<b, Check, Ret>>
  OBVIOUS
<1>1. /\ b \in Instrs /\ Check \in Instrs /\ Ret \in Instrs
      /\ b.op = "lab" /\ Check.op = "check" /\ Ret.op = "ret"
  BY Ops DEF Instrs, Labelled, Epilogue
<1> HIDE DEF b
<1>2. Range(t) = {b, Check, Ret} /\ Last(t) = Ret
  BY <1>0, Ranges
<1>3. t \in Seq(Instrs) /\ Len(t) = 3 /\ t # <<>> /\ t[1] = b /\ t[2] = Check /\ t[3] = Ret
  BY <1>0, <1>1
<1>4. \A i \in 1 .. 3 : i = 1 \/ i = 2 \/ i = 3
  OBVIOUS
<1>5. \A i \in 1 .. 3 : (t[i].op = "check" <=> i = 2) /\ (t[i].op = "ret" <=> i = 3)
  BY <1>1, <1>3, <1>4
<1>6. b \in Range(t) /\ \A c \in Range(t) : ~IsJump(c)
  BY <1>1, <1>2 DEF IsJump
<1>7. b = Lab(Epilogue)
  BY <1>0
<1> QED BY <1>2, <1>3, <1>5, <1>6, <1>7, Zenon

\* No statement is open, so no label is due any more.
LEMMA NothingDue ==
    ASSUME Targets, open = <<>>
    PROVE  \A c \in Range(code) :
              IsJump(c) => \/ Lab(c.lab) \in Range(code)
                           \/ c.lab = Epilogue /\ needs_canary
<1>1. DueLabels = {}
  BY DEF DueLabels, Range
<1> QED BY <1>1 DEF Targets, Placed

\* The body, with the way out that its last statement may already be.
LEMMA BodyEnd ==
    ASSUME GenIInv, phase = "gen", open = <<>>,
           NEW pre, pre = IF LastIsReturn THEN <<>> ELSE <<Leave>>,
           NEW body, body = code \o pre
    PROVE  /\ pre \in Seq(Instrs) /\ body \in Seq(Instrs) /\ body # <<>> /\ Last(body) = Leave
           /\ \A c \in Range(body) : Inner(c)
           /\ \A c \in Range(body) : IsJump(c) => \/ Lab(c.lab) \in Range(body)
                                                  \/ c.lab = Epilogue /\ needs_canary
<1>1. GenTyped /\ Body /\ EndsInLeave /\ Targets /\ code \in Seq(Instrs)
  BY DEF GenIInv, Unfinished, GenTyped
<1>2. \A c \in Range(code) : IsJump(c) => \/ Lab(c.lab) \in Range(code)
                                          \/ c.lab = Epilogue /\ needs_canary
  BY <1>1, NothingDue
<1> DEFINE c == Leave
<1>3. c \in Instrs /\ Inner(c) /\ (IsJump(c) => c.lab = Epilogue /\ needs_canary)
  BY <1>1, InstrTypes, Ops DEF Leave, Inner, IsJump
<1>4. c = Leave
  OBVIOUS
<1> HIDE DEF c
<1>5. CASE LastIsReturn
  <2>1. pre = <<>> /\ pre \in Seq(Instrs)
    BY <1>5
  <2>2. body = code
    BY <1>1, <2>1, ConcatEmptySeq
  <2>3. code # <<>> /\ Last(code) = Leave
    BY <1>1, <1>5 DEF EndsInLeave
  <2> QED BY <1>1, <1>2, <2>1, <2>2, <2>3, Zenon DEF Body
<1>6. CASE ~LastIsReturn
  <2>1. pre = <<c>> /\ pre \in Seq(Instrs)
    BY <1>3, <1>4, <1>6
  <2>2. body = Append(code, c)
    BY <1>1, <1>3, <2>1, PushedIsJoined, Zenon
  <2>3. /\ body \in Seq(Instrs) /\ Range(body) = Range(code) \cup {c}
        /\ body # <<>> /\ Last(body) = c
    <3>1. /\ Append(code, c) \in Seq(Instrs) /\ Range(Append(code, c)) = Range(code) \cup {c}
          /\ Append(code, c) # <<>> /\ Last(Append(code, c)) = c
      BY <1>1, <1>3, Pushed
    <3> QED BY <2>2, <3>1
  <2>4. \A d \in Range(body) : d \in Range(code) \/ d = c
    BY <2>3, Zenon
  <2> QED BY <1>1, <1>2, <1>3, <1>4, <2>1, <2>3, <2>4, Zenon DEF Body
<1> QED BY <1>5, <1>6

LEMMA EndStep == GenIInv /\ EndFunction => GenIInv'
<1> SUFFICES ASSUME GenIInv, EndFunction PROVE GenIInv'
  OBVIOUS
<1> DEFINE pre == IF LastIsReturn THEN <<>> ELSE <<Leave>>
           body == code \o pre
           t == <<Lab(Epilogue), Check, Ret>>
           post == IF needs_canary THEN t ELSE <<>>
<1>0. /\ GenTyped /\ phase = "gen" /\ phase' = "done" /\ open = <<>> /\ code \in Seq(Instrs)
      /\ UNCHANGED <<needs_canary, src, open, loop_stack, label_counter, locals, nslots>>
      /\ code' = code \o (pre \o post)
  BY DEF GenIInv, GenTyped, EndFunction, Emit
<1>10. pre = (IF LastIsReturn THEN <<>> ELSE <<Leave>>) /\ body = code \o pre
  OBVIOUS
<1>11. t = <<Lab(Epilogue), Check, Ret>>
  OBVIOUS
<1> HIDE DEF pre, body, t
<1>1. /\ pre \in Seq(Instrs) /\ body \in Seq(Instrs) /\ body # <<>> /\ Last(body) = Leave
      /\ \A c \in Range(body) : Inner(c)
      /\ \A c \in Range(body) : IsJump(c) => \/ Lab(c.lab) \in Range(body)
                                             \/ c.lab = Epilogue /\ needs_canary
  BY <1>0, <1>10, BodyEnd
<1>2. code' \in Seq(Instrs) => GenTyped'
  BY <1>0 DEF GenTyped
<1>3. /\ t \in Seq(Instrs) /\ Len(t) = 3 /\ t # <<>> /\ Last(t) = Ret
      /\ Lab(Epilogue) \in Range(t)
      /\ \A c \in Range(t) : ~IsJump(c)
      /\ \A i \in 1 .. 3 : (t[i].op = "check" <=> i = 2) /\ (t[i].op = "ret" <=> i = 3)
  BY <1>11, ProtectedEnd
<1>4. post \in Seq(Instrs)
  BY <1>3
<1> HIDE DEF post
<1>5. code' = body \o post
  <2>1. \A s, u, v \in Seq(Instrs) : (s \o u) \o v = s \o (u \o v)
    BY ConcatAssociative
  <2>2. code \in Seq(Instrs) /\ pre \in Seq(Instrs) /\ post \in Seq(Instrs)
    BY <1>0, <1>1, <1>4
  <2>3. (code \o pre) \o post = code \o (pre \o post)
    BY <2>1, <2>2
  <2> QED BY <1>0, <1>10, <2>3
<1>6. CASE needs_canary
  <2>1. code' = body \o t
    BY <1>5, <1>6 DEF post
  <2>2. /\ code' \in Seq(Instrs) /\ Len(code') = Len(body) + 3
        /\ Range(code') = Range(body) \cup Range(t)
        /\ code' # <<>> /\ Last(code') = Ret
    <3>1. body \in Seq(Instrs) /\ t \in Seq(Instrs) /\ t # <<>> /\ Len(t) = 3 /\ Last(t) = Ret
      BY <1>1, <1>3
    <3>2. \A s, u \in Seq(Instrs) : /\ s \o u \in Seq(Instrs)
                                    /\ Len(s \o u) = Len(s) + Len(u)
                                    /\ Range(s \o u) = Range(s) \cup Range(u)
                                    /\ u # <<>> => s \o u # <<>> /\ Last(s \o u) = Last(u)
      BY Joined
    <3>3. /\ body \o t \in Seq(Instrs)
          /\ Len(body \o t) = Len(body) + Len(t)
          /\ Range(body \o t) = Range(body) \cup Range(t)
          /\ body \o t # <<>> /\ Last(body \o t) = Last(t)
      BY <3>1, <3>2, Zenon
    <3> QED BY <2>1, <3>1, <3>3
  <2>3. \A c \in Range(code') : IsJump(c) => Lab(c.lab) \in Range(code')
    BY <1>1, <1>3, <2>2
  <2>4. /\ DOMAIN code' = 1 .. Len(body) + 3 /\ Len(body) \in Nat /\ Len(body) > 0
        /\ \A i \in 1 .. Len(body) + 3 :
              code'[i] = IF i <= Len(body) THEN body[i] ELSE t[i - Len(body)]
    BY <1>1, <1>3, <2>1, <2>2, LenProperties, ConcatProperties, EmptySeq
  <2>5. ASSUME NEW i \in DOMAIN code'
        PROVE  /\ code'[i].op = "check" <=> i = Len(code') - 1
               /\ code'[i].op = "ret" <=> i = Len(code')
    <3>1. i \in 1 .. Len(body) + 3
      BY <2>4, <2>5
    <3>2. CASE i <= Len(body)
      <4>1. i \in DOMAIN body
        BY <1>1, <2>4, <3>1, <3>2, LenProperties
      <4>2. code'[i] = body[i] /\ body[i] \in Range(body)
        BY <2>4, <3>1, <3>2, <4>1 DEF Range
      <4>3. code'[i].op # "check" /\ code'[i].op # "ret"
        BY <1>1, <1>6, <4>2 DEF Inner
      <4>4. i # Len(code') - 1 /\ i # Len(code')
        BY <2>2, <2>4, <3>1, <3>2
      <4> QED BY <4>3, <4>4
    <3>3. CASE ~(i <= Len(body))
      <4> DEFINE k == i - Len(body)
      <4>1. k \in 1 .. 3 /\ (k = 2 <=> i = Len(code') - 1) /\ (k = 3 <=> i = Len(code'))
        BY <2>2, <2>4, <3>1, <3>3
      <4>2. code'[i] = t[k]
        BY <2>4, <3>1, <3>3
      <4> HIDE DEF k
      <4>3. (t[k].op = "check" <=> k = 2) /\ (t[k].op = "ret" <=> k = 3)
        BY <1>3, <4>1, Zenon
      <4> QED BY <4>1, <4>2, <4>3
    <3> QED BY <3>2, <3>3
  <2>6. Len(code') > 2
    BY <2>2, <2>4
  <2>7. Finished'
    BY <1>0, <1>6, <2>2, <2>3, <2>5, <2>6 DEF Finished
  <2> QED BY <1>0, <1>2, <2>2, <2>7 DEF GenIInv
<1>7. CASE ~needs_canary
  <2>1. code' = body
    BY <1>1, <1>5, <1>7, ConcatEmptySeq DEF post
  <2>2. Last(code') = Ret /\ Body'
    BY <1>0, <1>1, <1>7, <2>1 DEF Leave, Body, Inner
  <2> QED BY <1>0, <1>1, <1>2, <1>7, <2>1, <2>2 DEF GenIInv, Finished
<1> QED BY <1>6, <1>7

-----------------------------------------------------------------------------
(***************************************************************************)
(* The invariant holds.                                                    *)
(***************************************************************************)
LEMMA InitGenIInv == Init => GenIInv
<1> SUFFICES ASSUME Init PROVE GenIInv
  OBVIOUS
<1>1. Range(<<>>) = {}
  BY DEF Range
<1>2. GenTyped
  BY <1>1 DEF Init, GenTyped
<1>3. Unfinished
  BY <1>1 DEF Init, Unfinished, Targets, Body, EndsInLeave, LastIsReturn
<1> QED BY <1>2, <1>3 DEF Init, GenIInv

LEMMA NextGenIInv == GenIInv /\ [Next]_genVars => GenIInv'
<1> SUFFICES ASSUME GenIInv, [Next]_genVars PROVE GenIInv'
  OBVIOUS
<1>1. CASE Reject
  BY <1>1 DEF Reject, GenIInv, GenTyped, Unfinished, Targets, Placed, DueLabels, Body, Inner,
              EndsInLeave, LastIsReturn, Leave
<1>2. CASE UNCHANGED genVars
  BY <1>2 DEF genVars, GenIInv, GenTyped, Unfinished, Targets, Placed, DueLabels, Body, Inner,
              EndsInLeave, LastIsReturn, Leave, Finished
<1>3. CASE \E n \in Names : VarDecl(n) \/ Assignment(n) \/ ReadStmt(n) \/ ForRange(n) \/ ForArray(n)
  BY <1>3, VariableStep, AnyForStep
<1>4. CASE \E more \in BOOLEAN : If(more) \/ Elif(more)
  BY <1>4, IfStep, ElifStep
<1>5. CASE EndFor("for") \/ EndFor("forarr")
  BY <1>5, EndForStep
<1> QED
  BY <1>1, <1>2, <1>3, <1>4, <1>5, ExprStep, ReturnStep, JumpOutStep, ElseStep, EndIfStep,
     WhileStep, EndWhileStep, DoWhileStep, EndDoWhileStep, EndStep DEF Next

-----------------------------------------------------------------------------
(***************************************************************************)
(* The processor.                                                          *)
(***************************************************************************)
\* A protected function compares its canary on the way from its last but one
\* instruction to its last.
RunOK ==
    /\ run \in {"idle", "running", "returned"}
    /\ run # "idle" => phase = "done" /\ pc \in DOMAIN code
    /\ run = "idle" => pc = 1 /\ checks = 0
    /\ run = "returned" => code[pc].op = "ret"
    /\ checks = IF run # "idle" /\ needs_canary /\ pc = Len(code) THEN 1 ELSE 0

LowIInv == GenIInv /\ RunOK

\* What the finished code offers the processor.
LEMMA Fetched ==
    ASSUME LowIInv, run # "idle"
    PROVE  /\ phase = "done" /\ Finished /\ code \in Seq(Instrs)
           /\ Len(code) \in Nat /\ Len(code) > 0
           /\ DOMAIN code = 1 .. Len(code) /\ pc \in 1 .. Len(code)
           /\ code[pc] \in Range(code)
           /\ code[Len(code)].op = "ret"
<1>1. phase = "done" /\ Finished /\ GenTyped /\ pc \in DOMAIN code /\ code \in Seq(Instrs)
  BY DEF LowIInv, RunOK, GenIInv, GenTyped
<1>2. Len(code) \in Nat /\ Len(code) > 0 /\ DOMAIN code = 1 .. Len(code)
  BY <1>1, LenProperties, EmptySeq DEF Finished
<1>3. code[Len(code)] = Ret
  BY <1>1 DEF Finished, Last
<1>4. code[Len(code)].op = "ret"
  BY <1>3, Ops
<1> QED BY <1>1, <1>2, <1>4 DEF Range

\* An instruction that is neither a comparison of the canary nor a return,
\* followed by the next one.
LEMMA AdvanceStep ==
    ASSUME LowIInv, run = "running", UNCHANGED genVars, UNCHANGED run, pc' = pc + 1,
           code[pc].op # "ret",
           checks' = IF code[pc].op = "check" THEN checks + 1 ELSE checks
    PROVE  LowIInv'
<1>1. /\ phase = "done" /\ Finished /\ Len(code) \in Nat /\ Len(code) > 0
      /\ DOMAIN code = 1 .. Len(code) /\ pc \in 1 .. Len(code)
      /\ code[pc] \in Range(code) /\ code[Len(code)].op = "ret"
  BY Fetched
<1>2. pc # Len(code) /\ pc \in 1 .. Len(code) /\ Len(code) \in Nat
  BY <1>1
<1>3. pc + 1 \in 1 .. Len(code)
  BY <1>2
<1>4. checks = 0
  BY <1>2 DEF LowIInv, RunOK
<1>5. GenIInv'
  BY NextGenIInv DEF LowIInv
<1>6. UNCHANGED <<code, needs_canary, phase>>
  BY DEF genVars
<1>7. checks' = IF needs_canary /\ pc + 1 = Len(code) THEN 1 ELSE 0
  <2>1. CASE needs_canary
    <3>1. code[pc].op = "check" <=> pc = Len(code) - 1
      BY <1>1, <2>1 DEF Finished
    <3>2. pc = Len(code) - 1 <=> pc + 1 = Len(code)
      BY <1>1
    <3>3. CASE code[pc].op = "check"
      BY <1>4, <2>1, <3>1, <3>2, <3>3
    <3>4. CASE code[pc].op # "check"
      BY <1>4, <2>1, <3>1, <3>2, <3>4
    <3> QED BY <3>3, <3>4
  <2>2. CASE ~needs_canary
    BY <1>1, <1>4, <2>2 DEF Finished, Body, Inner
  <2> QED BY <2>1, <2>2
<1> QED BY <1>1, <1>3, <1>5, <1>6, <1>7 DEF LowIInv, RunOK

\* A jump that is taken finds its label: it is neither the comparison nor the ret.
LEMMA TargetStep ==
    ASSUME LowIInv, run = "running", UNCHANGED genVars, UNCHANGED <<run, checks>>,
           IsJump(code[pc]), pc' = Target(code[pc].lab)
    PROVE  LowIInv'
<1>1. /\ phase = "done" /\ Finished /\ Len(code) \in Nat /\ Len(code) > 0
      /\ DOMAIN code = 1 .. Len(code) /\ pc \in 1 .. Len(code)
      /\ code[pc] \in Range(code) /\ code[Len(code)].op = "ret"
  BY Fetched
<1> DEFINE l == code[pc].lab
<1>2. Lab(l) \in Range(code)
  BY <1>1 DEF Finished
<1>3. \E i \in DOMAIN code : code[i] = Lab(l)
  BY <1>2 DEF Range
<1>4. pc' \in DOMAIN code /\ code[pc'] = Lab(l)
  BY <1>3 DEF Target
<1>5. code[pc'].op = "lab"
  BY <1>4, Ops
<1>6. pc' # Len(code) /\ pc # Len(code)
  BY <1>1, <1>5 DEF IsJump
<1>7. GenIInv'
  BY NextGenIInv DEF LowIInv
<1>8. UNCHANGED <<code, needs_canary, phase>>
  BY DEF genVars
<1>9. checks = 0
  BY <1>6 DEF LowIInv, RunOK
<1> QED BY <1>1, <1>4, <1>6, <1>7, <1>8, <1>9 DEF LowIInv, RunOK

LEMMA InstructionStep == LowIInv /\ Instruction /\ UNCHANGED genVars => LowIInv'
<1> SUFFICES ASSUME LowIInv, Instruction, UNCHANGED genVars PROVE LowIInv'
  OBVIOUS
<1>1. run = "running"
  BY DEF Instruction, Skip, Jump, Evaluate, Condition, Store, Compare, Step, CheckCanary, Return, At
<1>2. ASSUME Skip \/ Evaluate \/ Condition \/ Store \/ Compare \/ Step PROVE LowIInv'
  <2>1. /\ UNCHANGED <<run, checks>> /\ pc' = pc + 1
        /\ code[pc].op # "ret" /\ code[pc].op # "check"
    BY <1>2 DEF Skip, Evaluate, Condition, Store, Compare, Step, At, Advance
  <2> QED BY <1>1, <2>1, AdvanceStep
<1>3. ASSUME CheckCanary PROVE LowIInv'
  <2>1. UNCHANGED run /\ pc' = pc + 1 /\ checks' = checks + 1 /\ code[pc].op = "check"
    BY <1>3 DEF CheckCanary, At, Advance
  <2> QED BY <1>1, <2>1, AdvanceStep
<1>4. ASSUME Jump PROVE LowIInv'
  <2>1. IsJump(code[pc]) /\ UNCHANGED <<run, checks>>
    BY <1>4 DEF Jump, At, IsJump
  <2>2. code[pc].op # "ret" /\ code[pc].op # "check"
    BY <2>1 DEF IsJump
  <2>3. CASE pc' = Target(code[pc].lab)
    BY <1>1, <2>1, <2>3, TargetStep
  <2>4. CASE pc' = pc + 1
    BY <1>1, <2>1, <2>2, <2>4, AdvanceStep
  <2>5. pc' = Target(code[pc].lab) \/ pc' = pc + 1
    BY <1>4 DEF Jump
  <2> QED BY <2>3, <2>4, <2>5
<1>5. ASSUME Return PROVE LowIInv'
  <2>1. code[pc].op = "ret" /\ run' = "returned" /\ UNCHANGED <<pc, checks>>
    BY <1>5 DEF Return, At
  <2>2. GenIInv' /\ UNCHANGED <<code, needs_canary, phase>>
    BY NextGenIInv DEF LowIInv, genVars
  <2> QED BY <1>1, <2>1, <2>2 DEF LowIInv, RunOK
<1> QED BY <1>2, <1>3, <1>4, <1>5 DEF Instruction

LEMMA CallStep == LowIInv /\ Call /\ UNCHANGED genVars => LowIInv'
<1> SUFFICES ASSUME LowIInv, Call, UNCHANGED genVars PROVE LowIInv'
  OBVIOUS
<1>1. /\ phase = "done" /\ run = "idle" /\ run' = "running" /\ UNCHANGED <<pc, checks>>
      /\ pc = 1 /\ checks = 0 /\ Finished /\ code \in Seq(Instrs)
  BY DEF Call, LowIInv, RunOK, GenIInv, GenTyped
<1>2. Len(code) \in Nat /\ Len(code) > 0 /\ DOMAIN code = 1 .. Len(code)
  BY <1>1, LenProperties, EmptySeq DEF Finished
<1>3. needs_canary => pc # Len(code)
  BY <1>1, <1>2 DEF Finished
<1>4. pc \in DOMAIN code
  BY <1>1, <1>2
<1>5. GenIInv' /\ UNCHANGED <<code, needs_canary, phase>>
  BY NextGenIInv DEF LowIInv, genVars
<1> QED BY <1>1, <1>3, <1>4, <1>5 DEF LowIInv, RunOK

\* Statements are met while the function is generated.
LEMMA OnlyGenerating == Next => phase = "gen"
BY DEF Next, ExprStmt, ReturnStmt, BreakStmt, ContinueStmt, Simple, Reject, VarDecl, Assignment,
       ReadStmt, ForRange, ForArray, For, If, Elif, Else, EndIf, Close, Generating, While,
       EndWhile, DoWhile, EndDoWhile, EndFor, EndFunction, BeginStmt

\* While the function is generated nothing runs.
LEMMA GeneratingStep == LowIInv /\ Next /\ UNCHANGED runVars => LowIInv'
<1> SUFFICES ASSUME LowIInv, Next, UNCHANGED runVars PROVE LowIInv'
  OBVIOUS
<1>1. phase = "gen"
  BY OnlyGenerating
<1>2. run = "idle"
  BY <1>1 DEF LowIInv, RunOK
<1>3. GenIInv'
  BY NextGenIInv DEF LowIInv
<1> QED BY <1>2, <1>3 DEF LowIInv, RunOK, runVars

LEMMA LowInit == RunInit => LowIInv
BY InitGenIInv DEF RunInit, LowIInv, RunOK

LEMMA LowNext == LowIInv /\ [RunNext]_vars => LowIInv'
<1> SUFFICES ASSUME LowIInv, [RunNext]_vars PROVE LowIInv'
  OBVIOUS
<1>1. CASE UNCHANGED vars
  <2>1. UNCHANGED genVars /\ UNCHANGED runVars
    BY <1>1 DEF vars
  <2>2. GenIInv'
    BY <2>1, NextGenIInv DEF LowIInv
  <2> QED BY <2>1, <2>2 DEF LowIInv, RunOK, genVars, runVars
<1>2. CASE RunNext
  BY <1>2, GeneratingStep, CallStep, InstructionStep DEF RunNext
<1> QED BY <1>1, <1>2

LEMMA LowInvariance == RunSpec => []LowIInv
BY LowInit, LowNext, PTL DEF RunSpec

\* The processor never runs past the code of the function, and a protected
\* function that has returned compared its canary exactly once, an unprotected
\* one never: for every body that gen_stmt accepts and every outcome of its
\* tests (gen_function's shared epilogue, gen_return's jumps to it).
THEOREM CanaryComparedOnce == RunSpec => []CheckedOnce
<1>1. LowIInv => CheckedOnce
  <2> SUFFICES ASSUME LowIInv PROVE CheckedOnce
    OBVIOUS
  <2>1. run = "running" => pc \in DOMAIN code
    BY DEF LowIInv, RunOK
  <2>2. ASSUME run = "returned" PROVE checks = IF needs_canary THEN 1 ELSE 0
    <3>1. Finished /\ pc \in 1 .. Len(code) /\ DOMAIN code = 1 .. Len(code) /\ run # "idle"
      BY <2>2, Fetched
    <3>2. code[pc].op = "ret"
      BY <2>2 DEF LowIInv, RunOK
    <3>3. needs_canary => pc = Len(code)
      BY <3>1, <3>2 DEF Finished
    <3> QED BY <3>1, <3>3 DEF LowIInv, RunOK
  <2> QED BY <2>1, <2>2 DEF CheckedOnce
<1> QED BY <1>1, LowInvariance, PTL

-----------------------------------------------------------------------------
(***************************************************************************)
(* The slots of a name: what the generator keeps.                          *)
(***************************************************************************)
IsNamed(c) == c.op \in {"write", "read", "init", "cmp", "bind", "step"}
IsWrite(c) == c.op \in {"write", "init", "bind"}
HasLabel(c) == c.op \in {"lab", "jmp", "jz", "jnz"}
Uses(i, n) == i \in DOMAIN code /\ IsNamed(code[i]) /\ code[i].n = n

\* The labels that may still be emitted but are handed out already.
FrameLabels(f) == CASE f.stmt = "if" -> {f.end, f.else}
                    [] f.stmt = "else" -> {f.end}
                    [] f.stmt = "while" -> {f.start, f.end}
                    [] OTHER -> {f.start, f.end, f.cont}
ContextLabels(c) == {c.start, c.end, c.cont}
PendingLabels == (UNION {FrameLabels(f) : f \in Range(open)})
                    \cup (UNION {ContextLabels(c) : c \in Range(loop_stack)})

\* The labels up to L belong to the code before j and all others to the code
\* from j on: no jump leads past j or back over it, but for the epilogue.
Split(j, L) == \A i \in DOMAIN code :
                  HasLabel(code[i]) /\ code[i].lab # Epilogue => (i < j <=> code[i].lab <= L)
Sealed(L) == \A l \in PendingLabels : l > L

\* Whoever comes to j writes n at m: the two are the same, or the first
\* element of an array is bound there once the hidden index is 0.
Entry(j, m, n) ==
    /\ j \in DOMAIN code /\ Uses(m, n) /\ IsWrite(code[m])
    /\ \/ m = j
       \/ /\ m = j + 4
          /\ code[j].op = "init" /\ code[j + 1].op = "lab"
          /\ code[j + 2].op = "cmp" /\ code[j + 2].slot = code[j].slot
          /\ code[j + 3].op = "jz" /\ code[m].op = "bind"

\* After i the name n was bound again, at a place between whose two sides
\* nothing but the way through it leads.
Rebound(n, i, j, m) ==
    /\ i < j /\ Entry(j, m, n)
    /\ \E L \in 0 .. label_counter : Split(j, L) /\ Sealed(L)

LabelsKnown == /\ \A i \in DOMAIN code : HasLabel(code[i]) => code[i].lab \in 0 .. label_counter
               /\ PendingLabels \subseteq 1 .. label_counter

SlotsKnown ==
    /\ \A n \in DOMAIN locals : locals[n] \in 1 .. nslots
    /\ \A i \in DOMAIN code :
          IsNamed(code[i]) => /\ code[i].n \in DOMAIN locals
                              /\ code[i].slot \in 1 .. locals[code[i].n]
                              /\ code[i].op = "bind" => "forarr" \in Kinds
    /\ \A n \in DOMAIN locals \ Names : n[2] < label_counter

\* A name that has two slots was bound again in between.
SlotsChange ==
    \A n \in DOMAIN locals : \A i \in DOMAIN code : Uses(i, n) =>
       /\ \A k \in DOMAIN code : Uses(k, n) /\ code[i].slot < code[k].slot =>
             \E j, m \in DOMAIN code : Rebound(n, i, j, m) /\ m <= k
       /\ code[i].slot < locals[n] => \E j, m \in DOMAIN code : Rebound(n, i, j, m)

\* Every loop under way has a context on the stack, and there are no others:
\* d counts the loops among the first p calls under way.
Depth(d) == /\ d[0] = 0
            /\ \A p \in DOMAIN open : d[p] = d[p - 1] + (IF IsLoop(open[p]) THEN 1 ELSE 0)
            /\ d[Len(open)] = Len(loop_stack)
Nested == \E d \in [0 .. Len(open) -> Nat] : Depth(d)

\* Behind the epilogue's label nothing happens but the comparison.
AtEpilogue(e) == e \in DOMAIN code /\ code[e].op = "lab" /\ code[e].lab = Epilogue
PlainEnd == /\ \A e, i \in DOMAIN code :
                  AtEpilogue(e) /\ e <= i => ~IsNamed(code[i]) /\ ~IsJump(code[i])
            /\ phase # "done" => \A e \in DOMAIN code : ~AtEpilogue(e)

BindIInv == LabelsKnown /\ SlotsKnown /\ SlotsChange /\ Nested /\ PlainEnd

\* A place j that is passed on the way to writing n at m, and at no other time.
Gate(j, m, n) == Entry(j, m, n) /\ \E L \in 0 .. label_counter : Split(j, L)

\* The processor has not come past j, or is on its way from j to m.
OnTheWay(j, m) ==
    \/ pc <= j
    \/ m = j + 4 /\ pc \in {j + 1, j + 2} /\ val[code[j].slot] = 0
    \/ m = j + 4 /\ pc = j + 3 /\ ~zf
    \/ m = j + 4 /\ pc = m

\* The last write to n went through the slot that is current at pc: uses of a
\* later slot are behind a gate that is still to be passed, uses of an earlier
\* one before a gate that has been.
Current(n) ==
    \A i \in DOMAIN code : Uses(i, n) =>
        /\ last[n] < code[i].slot =>
              \E j, m \in DOMAIN code : m <= i /\ Gate(j, m, n) /\ OnTheWay(j, m)
        /\ last[n] > code[i].slot =>
              \E j, m \in DOMAIN code : i < j /\ j < pc /\ Gate(j, m, n)

InEpilogue == \E e \in DOMAIN code : e <= pc /\ AtEpilogue(e)

LastIInv ==
    /\ \A n \in DOMAIN last : last[n] \in Nat
    /\ run = "idle" => DOMAIN last = {}
    /\ run = "running" => /\ DOMAIN val = 1 .. nslots
                          /\ InEpilogue \/ \A n \in DOMAIN last : Current(n)

-----------------------------------------------------------------------------
(***************************************************************************)
(* A step of the generator and the slots of names.                         *)
(***************************************************************************)
LEMMA Longer ==
    ASSUME NEW S, NEW s \in Seq(S), NEW t \in Seq(S)
    PROVE  /\ Len(s) \in Nat /\ DOMAIN s = 1 .. Len(s)
           /\ Len(t) \in Nat /\ DOMAIN t = 1 .. Len(t)
           /\ DOMAIN (s \o t) = 1 .. Len(s) + Len(t)
           /\ \A i \in DOMAIN s : i \in DOMAIN (s \o t) /\ (s \o t)[i] = s[i]
           /\ \A i \in DOMAIN t : Len(s) + i \in DOMAIN (s \o t) /\ (s \o t)[Len(s) + i] = t[i]
           /\ \A i \in DOMAIN (s \o t) :
                 i \in DOMAIN s \/ (i > Len(s) /\ i - Len(s) \in DOMAIN t
                                      /\ (s \o t)[i] = t[i - Len(s)] /\ (s \o t)[i] \in Range(t))
<1> DEFINE u == s \o t
<1>1. /\ Len(u) = Len(s) + Len(t) /\ u \in Seq(S)
      /\ \A i \in 1 .. Len(s) + Len(t) :
            u[i] = IF i <= Len(s) THEN s[i] ELSE t[i - Len(s)]
  BY ConcatProperties
<1> HIDE DEF u
<1>2. /\ Len(s) \in Nat /\ DOMAIN s = 1 .. Len(s)
      /\ Len(t) \in Nat /\ DOMAIN t = 1 .. Len(t)
      /\ DOMAIN u = 1 .. Len(s) + Len(t)
  BY <1>1, LenProperties
<1>3. \A i \in DOMAIN s : i \in DOMAIN u /\ u[i] = s[i]
  BY <1>1, <1>2
<1>4. ASSUME NEW i \in DOMAIN t PROVE Len(s) + i \in DOMAIN u /\ u[Len(s) + i] = t[i]
  <2>1. /\ Len(s) + i \in 1 .. Len(s) + Len(t) /\ ~(Len(s) + i <= Len(s))
        /\ (Len(s) + i) - Len(s) = i
    BY <1>2
  <2> QED BY <1>1, <1>2, <2>1
<1>5. ASSUME NEW i \in DOMAIN u, i \notin DOMAIN s
      PROVE  i > Len(s) /\ i - Len(s) \in DOMAIN t /\ u[i] = t[i - Len(s)] /\ u[i] \in Range(t)
  <2>1. i > Len(s) /\ i - Len(s) \in DOMAIN t /\ u[i] = t[i - Len(s)]
    BY <1>1, <1>2, <1>5
  <2> QED BY <2>1 DEF Range
<1> QED BY <1>2, <1>3, <1>4, <1>5 DEF u

NewLabels == label_counter + 1 .. label_counter'

\* What is emitted refers to pending and new labels only.
Growing(instrs) ==
    /\ Emit(instrs)
    /\ label_counter' \in Nat /\ label_counter <= label_counter'
    /\ \A c \in Range(instrs) :
          HasLabel(c) => c.lab = Epilogue \/ c.lab \in PendingLabels \cup NewLabels
    /\ PendingLabels' \subseteq PendingLabels \cup NewLabels

\* What code was and is.
LEMMA Grown ==
    ASSUME GenTyped, NEW instrs \in Seq(Instrs), Emit(instrs)
    PROVE  /\ Len(code) \in Nat /\ DOMAIN code = 1 .. Len(code)
           /\ Len(instrs) \in Nat /\ DOMAIN instrs = 1 .. Len(instrs)
           /\ DOMAIN code' = 1 .. Len(code) + Len(instrs)
           /\ \A i \in DOMAIN code : i \in DOMAIN code' /\ code'[i] = code[i]
           /\ \A i \in DOMAIN instrs : Len(code) + i \in DOMAIN code'
                                         /\ code'[Len(code) + i] = instrs[i]
           /\ \A i \in DOMAIN code' :
                 i \in DOMAIN code
                 \/ (i > Len(code) /\ i - Len(code) \in DOMAIN instrs
                       /\ code'[i] = instrs[i - Len(code)] /\ code'[i] \in Range(instrs))
BY Longer DEF GenTyped, Emit

LEMMA GrowLabels ==
    ASSUME GenTyped, LabelsKnown, NEW instrs \in Seq(Instrs), Growing(instrs)
    PROVE  /\ LabelsKnown'
           /\ \A n, i, j, m : i \in DOMAIN code /\ Rebound(n, i, j, m) => Rebound(n, i, j, m)'
<1>1. /\ Len(code) \in Nat /\ DOMAIN code = 1 .. Len(code)
      /\ \A i \in DOMAIN code : i \in DOMAIN code' /\ code'[i] = code[i]
      /\ \A i \in DOMAIN code' :
            i \in DOMAIN code \/ (i > Len(code) /\ code'[i] \in Range(instrs))
      /\ DOMAIN code' \subseteq Nat
  BY Grown DEF Growing
<1>2. label_counter \in Nat /\ label_counter' \in Nat /\ label_counter <= label_counter'
  BY DEF Growing, GenTyped
<1>3. \A l \in PendingLabels \cup NewLabels : l \in 1 .. label_counter'
  <2>1. \A l \in 1 .. label_counter : l \in 1 .. label_counter'
    BY <1>2
  <2>2. \A l \in label_counter + 1 .. label_counter' : l \in 1 .. label_counter'
    BY <1>2
  <2> QED BY <2>1, <2>2 DEF LabelsKnown, NewLabels
<1>4. PendingLabels' \subseteq 1 .. label_counter'
  BY <1>3 DEF Growing
<1>5. ASSUME NEW i \in DOMAIN code', HasLabel(code'[i]) PROVE code'[i].lab \in 0 .. label_counter'
  <2>1. CASE i \in DOMAIN code
    <3>1. code[i].lab \in 0 .. label_counter /\ code'[i].lab = code[i].lab
      BY <1>1, <1>5, <2>1 DEF LabelsKnown
    <3> QED BY <1>2, <3>1
  <2>2. CASE code'[i] \in Range(instrs)
    <3>1. code'[i].lab = Epilogue \/ code'[i].lab \in PendingLabels \cup NewLabels
      BY <1>5, <2>2 DEF Growing
    <3> QED BY <1>2, <1>3, <3>1 DEF Epilogue
  <2> QED BY <1>1, <2>1, <2>2
<1>6. LabelsKnown'
  BY <1>4, <1>5 DEF LabelsKnown, HasLabel
<1>7. ASSUME NEW n, NEW i \in DOMAIN code, NEW j, NEW m, Rebound(n, i, j, m)
      PROVE  Rebound(n, i, j, m)'
  <2>1. i < j /\ Entry(j, m, n) /\ j \in DOMAIN code /\ m \in DOMAIN code
    BY <1>7 DEF Rebound, Entry, Uses
  <2>2. Entry(j, m, n)'
    <3>1. code'[j] = code[j] /\ code'[m] = code[m] /\ j \in DOMAIN code' /\ m \in DOMAIN code'
      BY <1>1, <2>1
    <3>2. CASE m = j
      BY <2>1, <3>1, <3>2 DEF Entry, Uses, IsNamed, IsWrite
    <3>3. CASE m = j + 4
      <4>1. j + 1 \in DOMAIN code /\ j + 2 \in DOMAIN code /\ j + 3 \in DOMAIN code
        BY <1>1, <2>1, <3>3
      <4>2. code'[j + 1] = code[j + 1] /\ code'[j + 2] = code[j + 2] /\ code'[j + 3] = code[j + 3]
        BY <1>1, <4>1
      <4>3. m # j
        BY <1>1, <2>1, <3>3
      <4> QED BY <2>1, <3>1, <3>3, <4>2, <4>3 DEF Entry, Uses, IsNamed, IsWrite
    <3> QED BY <2>1, <3>2, <3>3 DEF Entry
  <2>3. PICK L \in 0 .. label_counter : Split(j, L) /\ Sealed(L)
    BY <1>7 DEF Rebound
  <2>4. L \in 0 .. label_counter' /\ L \in Nat /\ L <= label_counter
    BY <1>2, <2>3
  <2>5. \A l \in PendingLabels \cup NewLabels : l > L
    <3>1. \A l \in PendingLabels : l > L
      BY <2>3 DEF Sealed
    <3>2. \A l \in NewLabels : l > L
      BY <1>2, <2>4 DEF NewLabels
    <3> QED BY <3>1, <3>2
  <2>6. Sealed(L)'
    BY <2>5 DEF Sealed, Growing
  <2>7. ASSUME NEW k \in DOMAIN code', HasLabel(code'[k]), code'[k].lab # Epilogue
        PROVE  k < j <=> code'[k].lab <= L
    <3>1. CASE k \in DOMAIN code
      BY <1>1, <2>3, <2>7, <3>1 DEF Split
    <3>2. CASE k > Len(code) /\ code'[k] \in Range(instrs)
      <4>1. code'[k].lab \in PendingLabels \cup NewLabels
        BY <2>7, <3>2 DEF Growing
      <4>2. code'[k].lab > L /\ code'[k].lab \in Nat
        BY <1>3, <2>5, <4>1
      <4>3. ~(k < j)
        BY <1>1, <2>1, <3>2
      <4>4. ~(code'[k].lab <= L)
        BY <2>4, <4>2
      <4> QED BY <4>3, <4>4
    <3> QED BY <1>1, <3>1, <3>2
  <2>8. Split(j, L)'
    BY <2>7 DEF Split, HasLabel
  <2> QED BY <2>1, <2>2, <2>4, <2>6, <2>8 DEF Rebound
<1> QED BY <1>6, <1>7

\* The name n is bound again by what is emitted, outside every statement.
Again(n, instrs) ==
    /\ locals[n] < locals'[n] /\ PendingLabels = {}
    /\ \E j, m \in DOMAIN code' :
          /\ j = Len(code) + 1 /\ Entry(j, m, n)'
          /\ \A k \in DOMAIN instrs : IsNamed(instrs[k]) /\ instrs[k].n = n => m <= Len(code) + k

\* What is emitted uses the slots names are bound to now.
Binding(instrs) ==
    /\ \A n \in DOMAIN locals' : locals'[n] \in 1 .. nslots'
    /\ \A c \in Range(instrs) : IsNamed(c) => /\ c.n \in DOMAIN locals' /\ c.slot = locals'[c.n]
                                              /\ c.op = "bind" => "forarr" \in Kinds
    /\ \A n \in DOMAIN locals' \ Names : n[2] < label_counter'
    /\ \A n \in DOMAIN locals : n \in DOMAIN locals' /\ (locals'[n] = locals[n] \/ Again(n, instrs))

LEMMA GrowSlots ==
    ASSUME GenTyped, LabelsKnown, SlotsKnown, SlotsChange,
           NEW instrs \in Seq(Instrs), Growing(instrs), Binding(instrs), nslots' \in Nat
    PROVE  SlotsKnown' /\ SlotsChange'
<1>1. /\ Len(code) \in Nat /\ DOMAIN code = 1 .. Len(code)
      /\ \A i \in DOMAIN code : i \in DOMAIN code' /\ code'[i] = code[i]
      /\ \A i \in DOMAIN code' :
            \/ i \in DOMAIN code
            \/ /\ i > Len(code) /\ i - Len(code) \in DOMAIN instrs
               /\ code'[i] = instrs[i - Len(code)] /\ code'[i] \in Range(instrs)
      /\ DOMAIN code' \subseteq Nat
  BY Grown DEF Growing
<1>2. label_counter \in Nat /\ label_counter' \in Nat /\ label_counter <= label_counter'
  BY DEF Growing, GenTyped
<1>3. /\ LabelsKnown'
      /\ \A n, i, j, m : i \in DOMAIN code /\ Rebound(n, i, j, m) => Rebound(n, i, j, m)'
  BY GrowLabels
<1>4. \A n \in DOMAIN locals : /\ n \in DOMAIN locals' /\ locals[n] \in Nat /\ locals'[n] \in Nat
                               /\ locals[n] <= locals'[n]
  <2> SUFFICES ASSUME NEW n \in DOMAIN locals
               PROVE  /\ n \in DOMAIN locals' /\ locals[n] \in Nat /\ locals'[n] \in Nat
                      /\ locals[n] <= locals'[n]
    OBVIOUS
  <2>1. n \in DOMAIN locals' /\ (locals'[n] = locals[n] \/ locals[n] < locals'[n])
    BY DEF Binding, Again
  <2>2. locals[n] \in 1 .. nslots /\ locals'[n] \in 1 .. nslots' /\ nslots \in Nat
    BY <2>1 DEF Binding, SlotsKnown, GenTyped
  <2> QED BY <2>1, <2>2
\* Instructions emitted before and now.
<1>5. \A i \in DOMAIN code : IsNamed(code[i]) =>
         /\ code[i].n \in DOMAIN locals /\ code[i].slot \in 1 .. locals[code[i].n]
         /\ code[i].slot \in Nat /\ (code[i].op = "bind" => "forarr" \in Kinds)
  BY <1>4 DEF SlotsKnown
<1>6. \A i \in DOMAIN code' : i \notin DOMAIN code /\ IsNamed(code'[i]) =>
         /\ code'[i].n \in DOMAIN locals' /\ code'[i].slot = locals'[code'[i].n]
         /\ code'[i].op = "bind" => "forarr" \in Kinds
  BY <1>1 DEF Binding
<1>7. SlotsKnown'
  <2>1. ASSUME NEW i \in DOMAIN code', IsNamed(code'[i])
        PROVE  /\ code'[i].n \in DOMAIN locals' /\ code'[i].slot \in 1 .. locals'[code'[i].n]
               /\ code'[i].op = "bind" => "forarr" \in Kinds
    <3>1. CASE i \in DOMAIN code
      <4>1. /\ code'[i] = code[i] /\ IsNamed(code[i]) /\ code[i].n \in DOMAIN locals
            /\ code[i].slot \in 1 .. locals[code[i].n]
            /\ code[i].op = "bind" => "forarr" \in Kinds
        BY <1>1, <1>5, <2>1, <3>1
      <4>2. /\ code[i].n \in DOMAIN locals' /\ locals[code[i].n] \in Nat
            /\ locals'[code[i].n] \in Nat /\ locals[code[i].n] <= locals'[code[i].n]
        BY <1>4, <4>1
      <4> QED BY <4>1, <4>2
    <3>2. CASE i \notin DOMAIN code
      <4>1. /\ code'[i].n \in DOMAIN locals' /\ code'[i].slot = locals'[code'[i].n]
            /\ code'[i].op = "bind" => "forarr" \in Kinds
        BY <1>6, <2>1, <3>2
      <4>2. locals'[code'[i].n] \in 1 .. nslots'
        BY <4>1 DEF Binding
      <4> QED BY <4>1, <4>2
    <3> QED BY <3>1, <3>2
  <2> QED BY <2>1 DEF SlotsKnown, Binding, IsNamed
\* A use from before of a name whose slot has changed.
<1>8. ASSUME NEW n \in DOMAIN locals', NEW i \in DOMAIN code, IsNamed(code[i]), code[i].n = n,
             code[i].slot < locals'[n]
      PROVE  \E j, m \in DOMAIN code' :
                /\ Rebound(n, i, j, m)'
                /\ \A k \in DOMAIN instrs : IsNamed(instrs[k]) /\ instrs[k].n = n => m <= Len(code) + k
  <2>1. n \in DOMAIN locals /\ Uses(i, n)
    BY <1>5, <1>8 DEF Uses
  <2>2. CASE locals'[n] = locals[n]
    <3>1. PICK j, m \in DOMAIN code : Rebound(n, i, j, m)
      BY <1>8, <2>1, <2>2 DEF SlotsChange
    <3>2. \A k \in DOMAIN instrs : m <= Len(code) + k
      <4>1. \A k \in DOMAIN instrs : k \in Nat
        BY Grown DEF Growing
      <4> QED BY <1>1, <4>1
    <3> QED BY <1>1, <1>3, <3>1, <3>2
  <2>3. CASE Again(n, instrs)
    <3>1. PICK j, m \in DOMAIN code' :
             /\ j = Len(code) + 1 /\ Entry(j, m, n)'
             /\ \A k \in DOMAIN instrs : IsNamed(instrs[k]) /\ instrs[k].n = n => m <= Len(code) + k
      BY <2>3 DEF Again
    <3>2. PendingLabels = {}
      BY <2>3 DEF Again
    <3>3. i < j
      BY <1>1, <3>1
    <3> DEFINE L == label_counter
    <3>4. L \in 0 .. label_counter' /\ L \in Nat
      BY <1>2
    <3>5. PendingLabels' \subseteq NewLabels
      BY <3>2 DEF Growing
    <3>6. \A l \in NewLabels : l \in Nat /\ l > L
      BY <1>2 DEF NewLabels
    <3>7. \A k \in DOMAIN code' : HasLabel(code'[k]) /\ code'[k].lab # Epilogue =>
             (k < j <=> code'[k].lab <= L)
      <4> SUFFICES ASSUME NEW k \in DOMAIN code', HasLabel(code'[k]), code'[k].lab # Epilogue
                   PROVE  k < j <=> code'[k].lab <= L
        OBVIOUS
      <4>1. CASE k \in DOMAIN code
        <5>1. code'[k].lab \in 0 .. label_counter
          BY <1>1, <4>1 DEF LabelsKnown
        <5>2. k < j /\ code'[k].lab <= L
          BY <1>1, <1>2, <3>1, <4>1, <5>1
        <5> QED BY <5>2
      <4>2. CASE k > Len(code) /\ code'[k] \in Range(instrs)
        <5>1. code'[k].lab \in NewLabels
          BY <3>2, <4>2 DEF Growing
        <5>2. ~(k < j) /\ ~(code'[k].lab <= L)
          BY <1>1, <3>1, <3>4, <3>6, <4>2, <5>1
        <5> QED BY <5>2
      <4> QED BY <1>1, <4>1, <4>2
    <3> HIDE DEF L
    <3>8. \E l \in 0 .. label_counter' : l = L
      BY <3>4
    <3>9. PICK l \in 0 .. label_counter' : l = L
      BY <3>8
    <3>10. Split(j, l)' /\ Sealed(l)'
      BY <3>5, <3>6, <3>7, <3>9 DEF Split, Sealed, HasLabel
    <3> QED BY <3>1, <3>3, <3>10 DEF Rebound
  <2> QED BY <2>1, <2>2, <2>3 DEF Binding
<1>9. ASSUME NEW n \in DOMAIN locals', NEW i \in DOMAIN code', Uses(i, n)'
      PROVE  /\ \A k \in DOMAIN code' : Uses(k, n)' /\ code'[i].slot < code'[k].slot =>
                   \E j, m \in DOMAIN code' : Rebound(n, i, j, m)' /\ m <= k
             /\ code'[i].slot < locals'[n] => \E j, m \in DOMAIN code' : Rebound(n, i, j, m)'
  <2>0. IsNamed(code'[i]) /\ code'[i].n = n
    BY <1>9 DEF Uses, IsNamed
  <2>1. CASE i \in DOMAIN code
    <3>0. code'[i] = code[i] /\ IsNamed(code[i]) /\ code[i].n = n /\ Uses(i, n) /\ n \in DOMAIN locals
      BY <1>1, <1>5, <2>0, <2>1 DEF Uses
    <3>1. ASSUME NEW k \in DOMAIN code', Uses(k, n)', code'[i].slot < code'[k].slot
          PROVE  \E j, m \in DOMAIN code' : Rebound(n, i, j, m)' /\ m <= k
      <4>0. IsNamed(code'[k]) /\ code'[k].n = n
        BY <3>1 DEF Uses, IsNamed
      <4>1. CASE k \in DOMAIN code
        <5>1. code'[k] = code[k] /\ Uses(k, n)
          BY <1>1, <4>0, <4>1 DEF Uses
        <5>2. PICK j, m \in DOMAIN code : Rebound(n, i, j, m) /\ m <= k
          BY <2>1, <3>0, <3>1, <4>1, <5>1 DEF SlotsChange
        <5> QED BY <1>1, <1>3, <2>1, <5>2
      <4>2. CASE k \notin DOMAIN code
        <5>1. code'[k].slot = locals'[n] /\ k - Len(code) \in DOMAIN instrs
              /\ code'[k] = instrs[k - Len(code)]
          BY <1>1, <1>6, <4>0, <4>2
        <5>2. PICK j, m \in DOMAIN code' :
                 /\ Rebound(n, i, j, m)'
                 /\ \A q \in DOMAIN instrs : IsNamed(instrs[q]) /\ instrs[q].n = n => m <= Len(code) + q
          BY <1>8, <2>1, <3>0, <3>1, <5>1
        <5>3. m <= Len(code) + (k - Len(code))
          BY <4>0, <5>1, <5>2
        <5>4. m <= k
          BY <1>1, <5>3
        <5> QED BY <5>2, <5>4
      <4> QED BY <4>1, <4>2
    <3>2. ASSUME code'[i].slot < locals'[n]
          PROVE  \E j, m \in DOMAIN code' : Rebound(n, i, j, m)'
      BY <1>8, <2>1, <3>0, <3>2
    <3> QED BY <3>1, <3>2
  <2>2. CASE i \notin DOMAIN code
    <3>1. code'[i].slot = locals'[n]
      BY <1>6, <2>0, <2>2
    <3>2. \A k \in DOMAIN code' : Uses(k, n)' => code'[k].slot \in 1 .. locals'[n] /\ locals'[n] \in Nat
      <4> SUFFICES ASSUME NEW k \in DOMAIN code', Uses(k, n)'
                   PROVE  code'[k].slot \in 1 .. locals'[n] /\ locals'[n] \in Nat
        OBVIOUS
      <4>1. IsNamed(code'[k]) /\ code'[k].n = n
        BY DEF Uses, IsNamed
      <4>2. code'[k].slot \in 1 .. locals'[n]
        BY <1>7, <4>1 DEF SlotsKnown, IsNamed
      <4>3. locals'[n] \in 1 .. nslots'
        BY DEF Binding
      <4> QED BY <4>2, <4>3
    <3>3. locals'[n] \in Nat
      BY DEF Binding
    <3> QED BY <3>1, <3>2, <3>3
  <2> QED BY <2>1, <2>2
<1>10. SlotsChange'
  BY <1>9 DEF SlotsChange
<1> QED BY <1>7, <1>10

-----------------------------------------------------------------------------
(***************************************************************************)
(* Loops and their contexts.                                               *)
(***************************************************************************)
\* Outside every statement no label is pending.
LEMMA NothingPending ==
    ASSUME GenTyped, Nested, open = <<>>
    PROVE  PendingLabels = {} /\ loop_stack = <<>>
<1>1. Len(open) = 0 /\ Range(open) = {}
  BY DEF Range
<1>2. Len(loop_stack) = 0
  BY <1>1 DEF Nested, Depth
<1>3. loop_stack = <<>>
  BY <1>2, EmptySeq DEF GenTyped
<1>4. Range(loop_stack) = {}
  BY <1>3 DEF Range
<1> QED BY <1>1, <1>3, <1>4 DEF PendingLabels

\* The last call under way is a loop only if there is a context.
LEMMA LoopHasContext ==
    ASSUME GenTyped, Nested, open # <<>>, IsLoop(Last(open))
    PROVE  loop_stack # <<>>
<1>1. Len(open) \in Nat \ {0} /\ DOMAIN open = 1 .. Len(open)
  BY EmptySeq, LenProperties DEF GenTyped
<1>2. PICK d \in [0 .. Len(open) -> Nat] : Depth(d)
  BY DEF Nested
<1>3. Len(open) - 1 \in 0 .. Len(open) /\ Len(open) \in DOMAIN open
  BY <1>1
<1>4. d[Len(open)] = d[Len(open) - 1] + 1 /\ d[Len(open) - 1] \in Nat
  BY <1>2, <1>3 DEF Depth, Last
<1>5. Len(loop_stack) # 0
  BY <1>2, <1>4 DEF Depth
<1> QED BY <1>5, EmptySeq

\* A statement begins.
LEMMA NestedOpened ==
    ASSUME GenTyped, Nested, NEW f \in Frames, open' = Append(open, f),
           IF IsLoop(f) THEN \E c \in LoopTypes : loop_stack' = Append(loop_stack, c)
                        ELSE loop_stack' = loop_stack
    PROVE  Nested'
<1>1. /\ Len(open) \in Nat /\ DOMAIN open = 1 .. Len(open)
      /\ Len(open') = Len(open) + 1 /\ DOMAIN open' = 1 .. Len(open) + 1
      /\ \A p \in DOMAIN open : open'[p] = open[p]
      /\ open'[Len(open) + 1] = f
  BY LenProperties, AppendProperties DEF GenTyped
<1>2. Len(loop_stack) \in Nat
      /\ Len(loop_stack') = Len(loop_stack) + (IF IsLoop(f) THEN 1 ELSE 0)
  BY LenProperties, AppendProperties DEF GenTyped, LoopTypes
<1>3. PICK d \in [0 .. Len(open) -> Nat] : Depth(d)
  BY DEF Nested
<1> DEFINE g == [p \in 0 .. Len(open) + 1 |->
                   IF p = Len(open) + 1 THEN Len(loop_stack') ELSE d[p]]
<1>4. /\ g \in [0 .. Len(open') -> Nat]
      /\ g[Len(open) + 1] = Len(loop_stack')
      /\ \A p \in 0 .. Len(open) : g[p] = d[p]
  BY <1>1, <1>2
<1> HIDE DEF g
<1>5. g[0] = 0 /\ g[Len(open')] = Len(loop_stack')
  BY <1>1, <1>3, <1>4 DEF Depth
<1>6. ASSUME NEW p \in DOMAIN open'
      PROVE  g[p] = g[p - 1] + (IF IsLoop(open'[p]) THEN 1 ELSE 0)
  <2>1. CASE p = Len(open) + 1
    <3>1. p - 1 = Len(open) /\ Len(open) \in 0 .. Len(open)
      BY <1>1, <2>1
    <3>2. g[p - 1] = Len(loop_stack) /\ open'[p] = f
      BY <1>1, <1>3, <1>4, <2>1, <3>1 DEF Depth
    <3> QED BY <1>2, <1>4, <2>1, <3>2
  <2>2. CASE p # Len(open) + 1
    <3>1. p \in DOMAIN open /\ p - 1 \in 0 .. Len(open) /\ p \in 0 .. Len(open)
      BY <1>1, <2>2
    <3> QED BY <1>1, <1>3, <1>4, <3>1 DEF Depth
  <2> QED BY <2>1, <2>2
<1> QED BY <1>4, <1>5, <1>6 DEF Nested, Depth, IsLoop

\* The end of a statement.
LEMMA NestedClosed ==
    ASSUME GenTyped, Nested, open # <<>>, open' = Front(open),
           IF IsLoop(Last(open)) THEN loop_stack' = Front(loop_stack)
                                 ELSE loop_stack' = loop_stack
    PROVE  Nested'
<1>1. /\ Len(open) \in Nat \ {0} /\ DOMAIN open = 1 .. Len(open)
  BY EmptySeq, LenProperties DEF GenTyped
<1>2. /\ Len(open') = Len(open) - 1 /\ DOMAIN open' = 1 .. Len(open) - 1
      /\ \A p \in 1 .. Len(open) - 1 : open'[p] = open[p]
  BY <1>1 DEF GenTyped, Front
<1>3. PICK d \in [0 .. Len(open) -> Nat] : Depth(d)
  BY DEF Nested
<1>4. /\ Len(open) - 1 \in 0 .. Len(open) /\ Len(open) \in DOMAIN open
      /\ d[Len(open) - 1] \in Nat
      /\ d[Len(open)] = d[Len(open) - 1] + (IF IsLoop(Last(open)) THEN 1 ELSE 0)
  BY <1>1, <1>3 DEF Depth, Last
<1>5. Len(loop_stack') = d[Len(open) - 1]
  <2>1. CASE IsLoop(Last(open))
    <3>1. Len(loop_stack) = d[Len(open) - 1] + 1
      BY <1>3, <1>4, <2>1 DEF Depth
    <3>2. Len(loop_stack') = Len(loop_stack) - 1
      BY <1>4, <2>1, <3>1 DEF Front
    <3> QED BY <1>4, <3>1, <3>2
  <2>2. CASE ~IsLoop(Last(open))
    BY <1>3, <1>4, <2>2 DEF Depth
  <2> QED BY <2>1, <2>2
<1> DEFINE g == [p \in 0 .. Len(open) - 1 |-> d[p]]
<1>6. /\ g \in [0 .. Len(open') -> Nat]
      /\ \A p \in 0 .. Len(open) - 1 : g[p] = d[p]
  BY <1>1, <1>2
<1> HIDE DEF g
<1>7. g[0] = 0 /\ g[Len(open')] = Len(loop_stack')
  BY <1>1, <1>2, <1>3, <1>5, <1>6 DEF Depth
<1>8. ASSUME NEW p \in DOMAIN open'
      PROVE  g[p] = g[p - 1] + (IF IsLoop(open'[p]) THEN 1 ELSE 0)
  <2>1. p \in DOMAIN open /\ p \in 0 .. Len(open) - 1 /\ p - 1 \in 0 .. Len(open) - 1
        /\ p \in 1 .. Len(open) - 1
    BY <1>1, <1>2
  <2> QED BY <1>2, <1>3, <1>6, <2>1 DEF Depth
<1> QED BY <1>6, <1>7, <1>8 DEF Nested, Depth, IsLoop

\* gen_if goes on to another arm.
LEMMA NestedChanged ==
    ASSUME GenTyped, Nested, open # <<>>, NEW f \in Frames, open' = Append(Front(open), f),
           ~IsLoop(f), ~IsLoop(Last(open)), loop_stack' = loop_stack
    PROVE  Nested'
<1>1. /\ Len(open) \in Nat \ {0} /\ DOMAIN open = 1 .. Len(open)
  BY EmptySeq, LenProperties DEF GenTyped
<1>2. /\ Front(open) \in Seq(Frames) /\ Len(Front(open)) = Len(open) - 1
      /\ \A p \in 1 .. Len(open) - 1 : Front(open)[p] = open[p]
  BY <1>1 DEF GenTyped, Front
<1>3. /\ Len(open') = (Len(open) - 1) + 1
      /\ DOMAIN open' = 1 .. (Len(open) - 1) + 1
      /\ \A p \in 1 .. Len(open) - 1 : open'[p] = open[p]
      /\ open'[(Len(open) - 1) + 1] = f
  BY <1>2, LenProperties, AppendProperties
<1>9. (Len(open) - 1) + 1 = Len(open)
  BY <1>1
<1>4. /\ Len(open') = Len(open) /\ DOMAIN open' = DOMAIN open /\ open'[Len(open)] = f
  BY <1>1, <1>3, <1>9, Zenon
<1>5. \A p \in DOMAIN open : IsLoop(open'[p]) <=> IsLoop(open[p])
  <2> SUFFICES ASSUME NEW p \in DOMAIN open PROVE IsLoop(open'[p]) <=> IsLoop(open[p])
    OBVIOUS
  <2>1. CASE p = Len(open)
    BY <1>4, <2>1 DEF Last
  <2>2. CASE p # Len(open)
    <3>1. p \in 1 .. Len(open) - 1
      BY <1>1, <2>2
    <3> QED BY <1>3, <3>1
  <2> QED BY <2>1, <2>2
<1>6. PICK d \in [0 .. Len(open) -> Nat] : Depth(d)
  BY DEF Nested
<1>7. \A p \in DOMAIN open' : d[p] = d[p - 1] + (IF IsLoop(open'[p]) THEN 1 ELSE 0)
  BY <1>4, <1>5, <1>6 DEF Depth
<1> QED BY <1>4, <1>6, <1>7 DEF Nested, Depth, IsLoop

-----------------------------------------------------------------------------
(***************************************************************************)
(* What a statement has to see to, and statements without a body.          *)
(***************************************************************************)
\* A name that is bound stays bound outside every statement only; hidden
\* indices are no names of the source.
NamesKept == ~AnyRedeclaration /\ \A n \in Names : n \notin {"__for_idx"} \X Nat

\* An instruction the invariant allows for.
Harmless(c) ==
    /\ HasLabel(c) => \/ c.lab \in PendingLabels \cup NewLabels
                      \/ c.op = "jmp" /\ c.lab = Epilogue
    /\ IsNamed(c) => /\ c.n \in DOMAIN locals' /\ c.slot = locals'[c.n]
                     /\ c.op = "bind" => "forarr" \in Kinds

LEMMA HarmlessOnes ==
    /\ \A l \in PendingLabels \cup NewLabels :
          Harmless(Lab(l)) /\ Harmless(Jmp(l)) /\ Harmless(Jz(l)) /\ Harmless(Jnz(l))
    /\ \A op \in {"eff", "test"} : Harmless(Obs(op))
    /\ Harmless(Leave)
    /\ \A op \in {"write", "read", "init", "cmp", "bind", "step"} : \A n \in DOMAIN locals' :
          (op = "bind" => "forarr" \in Kinds) =>
             \A slot : slot = locals'[n] => Harmless(On(op, n, slot))
BY DEF Harmless, HasLabel, IsNamed, Lab, Jmp, Jz, Jnz, Obs, Leave, Ret, On

\* What a statement, or an end of one, has to see to.
LEMMA BindStep ==
    ASSUME GenIInv, BindIInv, phase = "gen", phase' = "gen", nslots' \in Nat,
           label_counter' \in Nat, label_counter <= label_counter',
           NEW instrs \in Seq(Instrs), Emit(instrs),
           \A c \in Range(instrs) : Harmless(c),
           \A f \in Range(open)' : f \in Range(open) \/ FrameLabels(f) \subseteq PendingLabels \cup NewLabels,
           \A c \in Range(loop_stack)' :
              c \in Range(loop_stack) \/ ContextLabels(c) \subseteq PendingLabels \cup NewLabels,
           Nested',
           \A n \in DOMAIN locals' : locals'[n] \in 1 .. nslots',
           \A n \in DOMAIN locals' \ Names : n[2] < label_counter',
           \A n \in DOMAIN locals : n \in DOMAIN locals' /\ (locals'[n] = locals[n] \/ Again(n, instrs))
    PROVE  BindIInv'
<1>1. GenTyped /\ LabelsKnown /\ SlotsKnown /\ SlotsChange /\ PlainEnd
  BY DEF GenIInv, BindIInv
<1>2. PendingLabels' \subseteq PendingLabels \cup NewLabels
  <2> SUFFICES ASSUME NEW l \in PendingLabels' PROVE l \in PendingLabels \cup NewLabels
    OBVIOUS
  <2>1. CASE \E f \in Range(open)' : l \in FrameLabels(f)
    <3>1. PICK f \in Range(open)' : l \in FrameLabels(f)
      BY <2>1
    <3>2. f \in Range(open) => l \in PendingLabels
      BY <3>1 DEF PendingLabels
    <3> QED BY <3>1, <3>2
  <2>2. CASE \E c \in Range(loop_stack)' : l \in ContextLabels(c)
    <3>1. PICK c \in Range(loop_stack)' : l \in ContextLabels(c)
      BY <2>2
    <3>2. c \in Range(loop_stack) => l \in PendingLabels
      BY <3>1 DEF PendingLabels
    <3> QED BY <3>1, <3>2
  <2> QED BY <2>1, <2>2 DEF PendingLabels
<1>3. \A c \in Range(instrs) :
         HasLabel(c) => c.lab = Epilogue \/ c.lab \in PendingLabels \cup NewLabels
  BY DEF Harmless
<1>4. Growing(instrs)
  BY <1>2, <1>3 DEF Growing
<1>5. Binding(instrs)
  BY DEF Binding, Harmless
<1>6. LabelsKnown' /\ SlotsKnown' /\ SlotsChange'
  BY <1>1, <1>4, <1>5, GrowLabels, GrowSlots
<1>7. \A l \in PendingLabels \cup NewLabels : l # Epilogue
  BY <1>1 DEF LabelsKnown, NewLabels, Epilogue, GenTyped
<1>8. \A c \in Range(instrs) : ~(c.op = "lab" /\ c.lab = Epilogue)
  BY <1>7 DEF Harmless, HasLabel
<1>9. \A e \in DOMAIN code' : ~(code'[e].op = "lab" /\ code'[e].lab = Epilogue)
  <2> SUFFICES ASSUME NEW e \in DOMAIN code'
               PROVE  ~(code'[e].op = "lab" /\ code'[e].lab = Epilogue)
    OBVIOUS
  <2>1. \/ e \in DOMAIN code /\ code'[e] = code[e]
        \/ code'[e] \in Range(instrs)
    BY <1>1, Grown
  <2> QED BY <1>1, <1>8, <2>1 DEF PlainEnd, AtEpilogue
<1>10. PlainEnd'
  BY <1>9 DEF PlainEnd, AtEpilogue
<1> QED BY <1>6, <1>10 DEF BindIInv

\* ... one that binds no name.
LEMMA QuietStep ==
    ASSUME GenIInv, BindIInv, phase = "gen", UNCHANGED <<phase, locals, nslots>>,
           label_counter' \in Nat, label_counter <= label_counter',
           NEW instrs \in Seq(Instrs), Emit(instrs),
           \A c \in Range(instrs) : Harmless(c),
           \A f \in Range(open)' : f \in Range(open) \/ FrameLabels(f) \subseteq PendingLabels \cup NewLabels,
           \A c \in Range(loop_stack)' :
              c \in Range(loop_stack) \/ ContextLabels(c) \subseteq PendingLabels \cup NewLabels,
           Nested'
    PROVE  BindIInv'
<1>1. GenTyped /\ SlotsKnown /\ locals' = locals /\ nslots' = nslots /\ phase' = "gen"
  BY DEF GenIInv, BindIInv
<1>2. nslots' \in Nat /\ label_counter \in Nat
  BY <1>1 DEF GenTyped
<1>3. \A n \in DOMAIN locals' : locals'[n] \in 1 .. nslots'
  BY <1>1 DEF SlotsKnown
<1>4. ASSUME NEW n \in DOMAIN locals' \ Names PROVE n[2] < label_counter'
  <2>1. n \in {"__for_idx"} \X Nat
    BY <1>1 DEF GenTyped, AllNames
  <2>2. n[2] \in Nat /\ n[2] < label_counter
    BY <1>1, <2>1 DEF SlotsKnown
  <2> QED BY <1>2, <2>2
<1> QED BY <1>1, <1>2, <1>3, <1>4, BindStep

\* ... and has no body.
LEMMA QuietSimple ==
    ASSUME GenIInv, BindIInv, Simple, UNCHANGED <<locals, nslots>>,
           NEW instrs \in Seq(Instrs), Emit(instrs), \A c \in Range(instrs) : Harmless(c)
    PROVE  BindIInv'
<1>1. /\ phase = "gen" /\ UNCHANGED <<phase, open, loop_stack, label_counter>>
      /\ GenTyped /\ Nested
  BY DEF Simple, BeginStmt, GenIInv, BindIInv
<1>2. label_counter' \in Nat /\ label_counter <= label_counter'
  BY <1>1 DEF GenTyped
<1>3. Nested'
  BY <1>1 DEF Nested, Depth
<1> QED BY <1>1, <1>2, <1>3, QuietStep

LEMMA BindSimple ==
    ASSUME GenIInv, BindIInv, ExprStmt \/ ReturnStmt \/ BreakStmt \/ ContinueStmt
    PROVE  BindIInv'
<1>0. GenTyped
  BY DEF GenIInv
<1>1. CASE ExprStmt
  <2> DEFINE c == Obs("eff")
             instrs == <<c>>
  <2>1. c \in Instrs /\ Harmless(c) /\ Emit(instrs) /\ Simple /\ UNCHANGED <<locals, nslots>>
    BY <1>0, <1>1, InstrTypes, HarmlessOnes DEF ExprStmt
  <2> HIDE DEF c
  <2>2. instrs \in Seq(Instrs) /\ Range(instrs) = {c}
    BY <2>1, Ranges
  <2> HIDE DEF instrs
  <2>3. \A x \in Range(instrs) : Harmless(x)
    BY <2>1, <2>2
  <2> QED BY <2>1, <2>2, <2>3, QuietSimple
<1>2. CASE ReturnStmt
  <2> DEFINE c == Obs("eff")
             d == Leave
             instrs == <<c, d>>
  <2>1. /\ c \in Instrs /\ Harmless(c) /\ d \in Instrs /\ Harmless(d)
        /\ Emit(instrs) /\ Simple /\ UNCHANGED <<locals, nslots>>
    BY <1>0, <1>2, InstrTypes, HarmlessOnes DEF ReturnStmt
  <2> HIDE DEF c, d
  <2>2. instrs \in Seq(Instrs) /\ Range(instrs) = {c, d}
    BY <2>1, Ranges
  <2> HIDE DEF instrs
  <2>3. \A x \in Range(instrs) : Harmless(x)
    BY <2>1, <2>2
  <2> QED BY <2>1, <2>2, <2>3, QuietSimple
<1>3. CASE BreakStmt \/ ContinueStmt
  <2>1. Simple /\ UNCHANGED <<locals, nslots>> /\ loop_stack # <<>>
    BY <1>3 DEF BreakStmt, ContinueStmt
  <2>2. CurrentLoop \in Range(loop_stack)
        /\ CurrentLoop \in [start : Nat, end : Nat, cont : Nat]
    BY <1>0, <2>1, Shortened DEF CurrentLoop, GenTyped
  <2>3. ContextLabels(CurrentLoop) \subseteq PendingLabels
    BY <2>2 DEF PendingLabels
  <2>4. PICK l \in {CurrentLoop.end, CurrentLoop.cont} : Emit(<<Jmp(l)>>)
    BY <1>3 DEF BreakStmt, ContinueStmt, ContinueLabel
  <2>5. l \in PendingLabels /\ l \in Nat
    BY <2>2, <2>3, <2>4 DEF ContextLabels
  <2> DEFINE c == Jmp(l)
             instrs == <<c>>
  <2>6. c \in Instrs /\ Harmless(c) /\ Emit(instrs)
    BY <1>0, <2>4, <2>5, InstrTypes, HarmlessOnes
  <2> HIDE DEF c
  <2>7. instrs \in Seq(Instrs) /\ Range(instrs) = {c}
    BY <2>6, Ranges
  <2> HIDE DEF instrs
  <2>8. \A x \in Range(instrs) : Harmless(x)
    BY <2>6, <2>7
  <2> QED BY <2>1, <2>6, <2>7, <2>8, QuietSimple
<1> QED BY <1>1, <1>2, <1>3

LEMMA BindAccess ==
    ASSUME GenIInv, BindIInv, NEW n \in Names, Assignment(n) \/ ReadStmt(n)
    PROVE  BindIInv'
<1>0. GenTyped /\ n \in AllNames
  BY DEF GenIInv, AllNames
<1>1. PICK op \in {"write", "read"} : Emit(<<On(op, n, locals[n])>>)
  BY DEF Assignment, ReadStmt
<1>2. Simple /\ UNCHANGED <<locals, nslots>> /\ n \in DOMAIN locals
  BY DEF Assignment, ReadStmt
<1> DEFINE c == On(op, n, locals[n])
           instrs == <<c>>
<1>3. c \in Instrs /\ Emit(instrs)
  BY <1>0, <1>1, <1>2, InstrTypes DEF GenTyped
<1>4. Harmless(c)
  BY <1>2, HarmlessOnes
<1> HIDE DEF c
<1>5. instrs \in Seq(Instrs) /\ Range(instrs) = {c}
  BY <1>3, Ranges
<1> HIDE DEF instrs
<1>6. \A x \in Range(instrs) : Harmless(x)
  BY <1>4, <1>5
<1> QED BY <1>2, <1>3, <1>5, <1>6, QuietSimple

\* Names that are allocated get slots above all others.
LEMMA FreshSlots ==
    ASSUME GenTyped, SlotsKnown, NEW names \in Seq(AllNames), Alloc(names)
    PROVE  /\ nslots' \in Nat
           /\ DOMAIN locals' = DOMAIN locals \cup Range(names)
           /\ \A n \in DOMAIN locals' : locals'[n] \in 1 .. nslots'
           /\ \A n \in DOMAIN locals : n \notin Range(names) => locals'[n] = locals[n]
           /\ \A n \in DOMAIN locals : n \in Range(names) => locals[n] < locals'[n]
           /\ \A i \in DOMAIN names : (\A k \in DOMAIN names : names[k] = names[i] => k = i) =>
                 locals'[names[i]] = nslots + i
<1>1. Len(names) \in Nat /\ DOMAIN names = 1 .. Len(names) /\ nslots \in Nat
  BY LenProperties DEF GenTyped
<1>2. nslots' = nslots + Len(names) /\ nslots' \in Nat
  BY <1>1 DEF Alloc
<1>3. DOMAIN locals' = DOMAIN locals \cup Range(names)
  BY DEF Alloc, Range
<1>4. ASSUME NEW n \in Range(names)
      PROVE  \E i \in DOMAIN names : names[i] = n /\ locals'[n] = nslots + i
  <2> DEFINE c == CHOOSE i \in DOMAIN names : names[i] = n
  <2>1. \E i \in DOMAIN names : names[i] = n
    BY <1>4 DEF Range
  <2>2. c \in DOMAIN names /\ names[c] = n
    BY <2>1
  <2>3. locals'[n] = nslots + c
    BY <1>3, <2>1 DEF Alloc
  <2> HIDE DEF c
  <2> QED BY <2>2, <2>3
<1>5. ASSUME NEW n \in DOMAIN locals, n \notin Range(names) PROVE locals'[n] = locals[n]
  <2>1. ~ \E i \in DOMAIN names : names[i] = n
    BY <1>5 DEF Range
  <2> QED BY <1>3, <2>1 DEF Alloc
<1>6. ASSUME NEW n \in DOMAIN locals' PROVE locals'[n] \in 1 .. nslots'
  <2>1. CASE n \in Range(names)
    <3>1. PICK i \in DOMAIN names : locals'[n] = nslots + i
      BY <1>4, <2>1
    <3> QED BY <1>1, <1>2, <3>1
  <2>2. CASE n \notin Range(names)
    <3>1. locals'[n] = locals[n] /\ locals[n] \in 1 .. nslots
      BY <1>3, <1>5, <2>2 DEF SlotsKnown
    <3> QED BY <1>1, <1>2, <3>1
  <2> QED BY <2>1, <2>2
<1>7. ASSUME NEW n \in DOMAIN locals, n \in Range(names) PROVE locals[n] < locals'[n]
  <2>1. PICK i \in DOMAIN names : locals'[n] = nslots + i
    BY <1>4, <1>7
  <2>2. locals[n] \in 1 .. nslots
    BY DEF SlotsKnown
  <2> QED BY <1>1, <2>1, <2>2
<1>8. ASSUME NEW i \in DOMAIN names, \A k \in DOMAIN names : names[k] = names[i] => k = i
      PROVE  locals'[names[i]] = nslots + i
  <2>1. names[i] \in Range(names)
    BY DEF Range
  <2> QED BY <1>4, <1>8, <2>1
<1> QED BY <1>2, <1>3, <1>5, <1>6, <1>7, <1>8

LEMMA BindDecl ==
    ASSUME GenIInv, BindIInv, NamesKept, NEW n \in Names, VarDecl(n)
    PROVE  BindIInv'
<1>0. GenTyped /\ SlotsKnown /\ Nested /\ n \in AllNames
  BY DEF GenIInv, BindIInv, AllNames
<1>1. /\ Simple /\ Alloc(<<n>>) /\ Emit(<<On("write", n, nslots + 1)>>) /\ Bindable(n)
      /\ phase = "gen" /\ phase' = "gen" /\ UNCHANGED <<open, loop_stack, label_counter>>
  BY DEF VarDecl, Simple, BeginStmt
<1> DEFINE names == <<n>>
<1>2. names \in Seq(AllNames) /\ Range(names) = {n} /\ DOMAIN names = {1} /\ names[1] = n
  BY <1>0, Ranges
<1>3. Alloc(names)
  BY <1>1
<1> HIDE DEF names
<1>4. /\ nslots' \in Nat
      /\ DOMAIN locals' = DOMAIN locals \cup {n}
      /\ \A m \in DOMAIN locals' : locals'[m] \in 1 .. nslots'
      /\ \A m \in DOMAIN locals : m # n => locals'[m] = locals[m]
      /\ n \in DOMAIN locals => locals[n] < locals'[n]
      /\ locals'[n] = nslots + 1
  BY <1>0, <1>2, <1>3, FreshSlots
<1> DEFINE c == On("write", n, nslots + 1)
           instrs == <<c>>
<1>5. /\ c \in Instrs /\ Harmless(c) /\ Emit(instrs)
      /\ c.op = "write" /\ c.n = n
  <2>1. nslots + 1 \in Nat
    BY <1>0 DEF GenTyped
  <2>2. n \in DOMAIN locals' /\ nslots + 1 = locals'[n]
    BY <1>4
  <2> QED BY <1>0, <1>1, <2>1, <2>2, InstrTypes, HarmlessOnes DEF On
<1> HIDE DEF c
<1>6. instrs \in Seq(Instrs) /\ Range(instrs) = {c} /\ DOMAIN instrs = {1} /\ instrs[1] = c
  BY <1>5, Ranges
<1> HIDE DEF instrs
<1>7. \A x \in Range(instrs) : Harmless(x)
  BY <1>5, <1>6
<1>8. ASSUME NEW m \in DOMAIN locals
      PROVE  m \in DOMAIN locals' /\ (locals'[m] = locals[m] \/ Again(m, instrs))
  <2>1. CASE m # n
    BY <1>4, <2>1
  <2>2. CASE m = n
    <3>1. open = <<>>
      BY <1>1, <2>2 DEF Bindable, NamesKept
    <3>2. PendingLabels = {}
      BY <1>0, <3>1, NothingPending
    <3> DEFINE j == Len(code) + 1
    <3>3. j \in DOMAIN code' /\ code'[j] = c
      BY <1>0, <1>5, <1>6, Grown
    <3>4. PICK k \in DOMAIN code' : k = j
      BY <3>3
    <3>5. Entry(k, k, n)'
      BY <1>5, <3>3, <3>4 DEF Entry, Uses, IsNamed, IsWrite
    <3>6. \A q \in DOMAIN instrs : k <= Len(code) + q
      BY <1>0, <1>6, <3>4, Grown, <1>5
    <3> QED BY <1>4, <2>2, <3>2, <3>4, <3>5, <3>6 DEF Again
  <2> QED BY <2>1, <2>2
<1>9. label_counter' \in Nat /\ label_counter <= label_counter' /\ label_counter' = label_counter
  BY <1>0, <1>1 DEF GenTyped
<1>10. \A m \in DOMAIN locals' \ Names : m[2] < label_counter'
  BY <1>0, <1>4, <1>9 DEF SlotsKnown
<1>11. Nested'
  BY <1>0, <1>1 DEF Nested, Depth
<1> QED BY <1>1, <1>4, <1>5, <1>6, <1>7, <1>8, <1>9, <1>10, <1>11, BindStep

-----------------------------------------------------------------------------
(***************************************************************************)
(* Statements with a body: the slots of names.                             *)
(***************************************************************************)
HarmlessInstrs == {c \in Instrs : Harmless(c)}
AllHarmless(instrs) == instrs \in Seq(Instrs) /\ \A c \in Range(instrs) : Harmless(c)
Labels == PendingLabels \cup NewLabels

LEMMA HarmlessParts ==
    ASSUME GenTyped, LabelsKnown, label_counter' \in Nat, label_counter <= label_counter'
    PROVE  /\ Labels \subseteq Nat
           /\ \A l \in Labels : /\ Lab(l) \in HarmlessInstrs /\ Jmp(l) \in HarmlessInstrs
                                /\ Jz(l) \in HarmlessInstrs /\ Jnz(l) \in HarmlessInstrs
           /\ \A op \in {"eff", "test"} : Obs(op) \in HarmlessInstrs
           /\ \A op \in {"write", "read", "init", "cmp", "bind", "step"} :
                 (op = "bind" => "forarr" \in Kinds) =>
                    \A n \in AllNames \cap DOMAIN locals' :
                       \A slot \in Nat : slot = locals'[n] => On(op, n, slot) \in HarmlessInstrs
<1>1. Labels \subseteq Nat
  BY DEF Labels, LabelsKnown, NewLabels, GenTyped
<1> QED BY <1>1, InstrTypes, HarmlessOnes DEF HarmlessInstrs, Labels

LEMMA HarmlessLists ==
    /\ \A a \in HarmlessInstrs : AllHarmless(<<a>>)
    /\ \A a, b \in HarmlessInstrs : AllHarmless(<<a, b>>)
    /\ \A a, b, c \in HarmlessInstrs : AllHarmless(<<a, b, c>>)
    /\ \A a, b, c, d \in HarmlessInstrs : AllHarmless(<<a, b, c, d>>)
    /\ \A s, t : AllHarmless(s) /\ AllHarmless(t) => AllHarmless(s \o t)
<1>1. ASSUME NEW a \in HarmlessInstrs
      PROVE  AllHarmless(<<a>>)
  <2> DEFINE s == <<a>>
  <2>1. s \in Seq(Instrs) /\ Range(s) = {a}
    BY Ranges DEF HarmlessInstrs
  <2> HIDE DEF s
  <2>2. AllHarmless(s)
    BY <2>1 DEF AllHarmless, HarmlessInstrs
  <2> QED BY <2>2 DEF s
<1>2. ASSUME NEW a \in HarmlessInstrs, NEW b \in HarmlessInstrs
      PROVE  AllHarmless(<<a, b>>)
  <2> DEFINE s == <<a, b>>
  <2>1. s \in Seq(Instrs) /\ Range(s) = {a, b}
    BY Ranges DEF HarmlessInstrs
  <2> HIDE DEF s
  <2>2. AllHarmless(s)
    BY <2>1 DEF AllHarmless, HarmlessInstrs
  <2> QED BY <2>2 DEF s
<1>3. ASSUME NEW a \in HarmlessInstrs, NEW b \in HarmlessInstrs, NEW c \in HarmlessInstrs
      PROVE  AllHarmless(<<a, b, c>>)
  <2> DEFINE s == <<a, b, c>>
  <2>1. s \in Seq(Instrs) /\ Range(s) = {a, b, c}
    BY Ranges DEF HarmlessInstrs
  <2> HIDE DEF s
  <2>2. AllHarmless(s)
    BY <2>1 DEF AllHarmless, HarmlessInstrs
  <2> QED BY <2>2 DEF s
<1>4. ASSUME NEW a \in HarmlessInstrs, NEW b \in HarmlessInstrs, NEW c \in HarmlessInstrs,
             NEW d \in HarmlessInstrs
      PROVE  AllHarmless(<<a, b, c, d>>)
  <2> DEFINE s == <<a, b, c, d>>
  <2>1. s \in Seq(Instrs) /\ Range(s) = {a, b, c, d}
    BY Ranges DEF HarmlessInstrs
  <2> HIDE DEF s
  <2>2. AllHarmless(s)
    BY <2>1 DEF AllHarmless, HarmlessInstrs
  <2> QED BY <2>2 DEF s
<1>5. ASSUME NEW s, NEW t, AllHarmless(s), AllHarmless(t) PROVE AllHarmless(s \o t)
  BY <1>5, Joined DEF AllHarmless
<1> QED BY <1>1, <1>2, <1>3, <1>4, <1>5

\* The innermost call under way.
LEMMA Innermost ==
    ASSUME GenTyped, open # <<>>
    PROVE  /\ Last(open) \in Frames /\ Last(open) \in Range(open)
           /\ FrameLabels(Last(open)) \subseteq Labels
           /\ Front(open) \in Seq(Frames) /\ Range(Front(open)) \subseteq Range(open)
<1>1. /\ Last(open) \in Frames /\ Last(open) \in Range(open)
      /\ Front(open) \in Seq(Frames) /\ Range(Front(open)) \subseteq Range(open)
  BY Shortened DEF GenTyped
<1> QED BY <1>1 DEF Labels, PendingLabels

\* gen_if begins or goes on.
LEMMA BindIf ==
    ASSUME GenIInv, BindIInv, NEW more \in BOOLEAN, If(more)
    PROVE  BindIInv'
<1> DEFINE e == NewLabel(1)
           el == NewLabel(2)
           f == [stmt |-> "if", end |-> e, else |-> el, more |-> more]
           l == IF more THEN el ELSE e
           c == Obs("test")
           d == Jz(l)
           instrs == <<c, d>>
<1>0. /\ GenTyped /\ LabelsKnown /\ Nested /\ phase = "gen"
      /\ UNCHANGED <<phase, loop_stack, locals, nslots>>
      /\ open' = Append(open, f) /\ Emit(instrs) /\ label_counter' = NewLabel(2)
  BY DEF GenIInv, BindIInv, If, BeginStmt, Test
<1>1. /\ e \in NewLabels /\ el \in NewLabels /\ e \in Nat /\ el \in Nat
      /\ label_counter' \in Nat /\ label_counter <= label_counter'
  BY <1>0 DEF GenTyped, NewLabel, NewLabels
<1>2. f \in Frames /\ ~IsLoop(f) /\ FrameLabels(f) \subseteq Labels
  BY <1>1 DEF Frames, IsLoop, FrameLabels, Labels
<1>3. l \in Labels
  BY <1>1 DEF Labels
<1> HIDE DEF e, el, f, l
<1>4. c \in HarmlessInstrs /\ d \in HarmlessInstrs
  BY <1>0, <1>1, <1>3, HarmlessParts
<1> HIDE DEF c, d
<1>5. AllHarmless(instrs)
  BY <1>4, HarmlessLists
<1>6. Nested'
  BY <1>0, <1>2, NestedOpened
<1>7. Range(open)' = Range(open) \cup {f}
  BY <1>0, <1>2, Opened
<1> HIDE DEF instrs
<1> QED BY <1>0, <1>1, <1>2, <1>5, <1>6, <1>7, QuietStep DEF AllHarmless, Labels

LEMMA BindElif ==
    ASSUME GenIInv, BindIInv, NEW more \in BOOLEAN, Elif(more)
    PROVE  BindIInv'
<1> DEFINE top == Last(open)
           e == top.end
           arm == top.else
           el == NewLabel(1)
           f == [stmt |-> "if", end |-> e, else |-> el, more |-> more]
           l == IF more THEN el ELSE e
           c == Obs("test")
           d == Jz(l)
           tail == <<c, d>>
           head == <<Jmp(e), Lab(arm)>>
           instrs == head \o tail
<1>0. /\ GenTyped /\ LabelsKnown /\ Nested /\ phase = "gen"
      /\ UNCHANGED <<phase, loop_stack, locals, nslots>>
      /\ open # <<>> /\ top.stmt = "if"
      /\ open' = Append(Front(open), [top EXCEPT !.else = el, !.more = more])
      /\ Emit(instrs) /\ label_counter' = NewLabel(1)
  BY DEF GenIInv, BindIInv, Elif, InArm, BeginStmt, Test
<1>1. /\ top \in Frames /\ FrameLabels(top) \subseteq Labels
      /\ Front(open) \in Seq(Frames) /\ Range(Front(open)) \subseteq Range(open)
  BY <1>0, Innermost
<1>2. ~IsLoop(top)
  BY <1>0 DEF IsLoop
<1>3. Last(open) = top
  OBVIOUS
<1> HIDE DEF top
<1>4. e \in Labels /\ arm \in Labels /\ e \in Nat
  BY <1>0, <1>1, IfFrame DEF FrameLabels
<1>5. f = [top EXCEPT !.else = el, !.more = more]
  BY <1>0, <1>1, IfFrameNext
<1>6. /\ el \in NewLabels /\ el \in Nat
      /\ label_counter' \in Nat /\ label_counter <= label_counter'
  BY <1>0 DEF GenTyped, NewLabel, NewLabels
<1>7. open' = Append(Front(open), f)
  BY <1>0, <1>5
<1> HIDE DEF e, arm, el
<1>8. f \in Frames /\ ~IsLoop(f) /\ FrameLabels(f) \subseteq Labels
  BY <1>4, <1>6 DEF Frames, IsLoop, FrameLabels, Labels
<1>9. l \in Labels
  BY <1>4, <1>6 DEF Labels
<1> HIDE DEF f, l
<1>10. /\ c \in HarmlessInstrs /\ d \in HarmlessInstrs
       /\ Jmp(e) \in HarmlessInstrs /\ Lab(arm) \in HarmlessInstrs
  BY <1>0, <1>4, <1>6, <1>9, HarmlessParts
<1> HIDE DEF c, d
<1>11. AllHarmless(head) /\ AllHarmless(tail)
  BY <1>10, HarmlessLists
<1> HIDE DEF head, tail
<1>12. AllHarmless(instrs)
  BY <1>11, HarmlessLists
<1>13. Nested'
  BY <1>0, <1>2, <1>3, <1>7, <1>8, NestedChanged
<1>14. Range(open)' \subseteq Range(open) \cup {f}
  BY <1>0, <1>7, <1>8, Changed
<1> HIDE DEF instrs
<1> QED BY <1>0, <1>6, <1>8, <1>12, <1>13, <1>14, QuietStep DEF AllHarmless, Labels

LEMMA BindElse ==
    ASSUME GenIInv, BindIInv, Else
    PROVE  BindIInv'
<1> DEFINE top == Last(open)
           e == top.end
           arm == top.else
           f == [top EXCEPT !.stmt = "else"]
           instrs == <<Jmp(e), Lab(arm)>>
<1>0. /\ GenTyped /\ LabelsKnown /\ Nested /\ phase = "gen"
      /\ UNCHANGED <<phase, loop_stack, locals, nslots, label_counter>>
      /\ open # <<>> /\ top.stmt = "if" /\ open' = Append(Front(open), f)
      /\ Emit(instrs)
  BY DEF GenIInv, BindIInv, Else, InArm, BeginStmt
<1>1. /\ top \in Frames /\ FrameLabels(top) \subseteq Labels
  BY <1>0, Innermost
<1>2. ~IsLoop(top)
  BY <1>0 DEF IsLoop
<1>3. Last(open) = top
  OBVIOUS
<1> HIDE DEF top
<1>4. e \in Labels /\ arm \in Labels /\ e \in Nat
  BY <1>0, <1>1, IfFrame DEF FrameLabels
<1>5. label_counter' \in Nat /\ label_counter <= label_counter'
  BY <1>0 DEF GenTyped
<1>6. f \in Frames /\ ~IsLoop(f) /\ FrameLabels(f) \subseteq Labels
  <2>1. /\ top = [stmt |-> top.stmt, end |-> top.end, else |-> top.else, more |-> top.more]
        /\ top.more \in BOOLEAN /\ top.end \in Nat /\ top.else \in Nat
    BY <1>0, <1>1, IfFrame
  <2>2. f = [stmt |-> "else", end |-> e, else |-> arm, more |-> top.more]
    BY <2>1
  <2> QED BY <1>4, <2>1, <2>2 DEF Frames, IsLoop, FrameLabels
<1> HIDE DEF f, e, arm
<1>7. Jmp(e) \in HarmlessInstrs /\ Lab(arm) \in HarmlessInstrs
  BY <1>0, <1>4, <1>5, HarmlessParts
<1>8. AllHarmless(instrs)
  BY <1>7, HarmlessLists
<1>9. Nested'
  BY <1>0, <1>2, <1>3, <1>6, NestedChanged
<1>10. Range(open)' \subseteq Range(open) \cup {f}
  BY <1>0, <1>6, Changed
<1> HIDE DEF instrs
<1> QED BY <1>0, <1>5, <1>6, <1>8, <1>9, <1>10, QuietStep DEF AllHarmless, Labels

\* The end of a statement.
LEMMA BindClose ==
    ASSUME GenIInv, BindIInv, NEW t, NEW s, Close(t, s),
           NEW instrs, AllHarmless(instrs), Emit(instrs),
           IF s \in {"if", "else"} THEN loop_stack' = loop_stack ELSE PopLoop
    PROVE  BindIInv'
<1>0. /\ GenTyped /\ LabelsKnown /\ Nested /\ phase = "gen"
      /\ UNCHANGED <<phase, locals, nslots, label_counter>>
      /\ open # <<>> /\ Last(open).stmt = s /\ open' = Front(open)
  BY DEF GenIInv, BindIInv, Close, Generating
<1>1. /\ Last(open) \in Frames /\ Range(open)' \subseteq Range(open)
  BY <1>0, Ended
<1>2. IsLoop(Last(open)) <=> s \notin {"if", "else"}
  BY <1>0, <1>1 DEF Frames, Loops, IsLoop
<1>3. Nested'
  BY <1>0, <1>2, NestedClosed DEF PopLoop
<1>4. Range(loop_stack)' \subseteq Range(loop_stack)
  <2>1. CASE IsLoop(Last(open))
    <3>1. loop_stack # <<>>
      BY <1>0, <2>1, LoopHasContext
    <3>2. Range(Front(loop_stack)) \subseteq Range(loop_stack)
      BY <1>0, <3>1, Shortened DEF GenTyped
    <3> QED BY <1>2, <2>1, <3>2 DEF PopLoop
  <2>2. CASE ~IsLoop(Last(open))
    BY <1>2, <2>2
  <2> QED BY <2>1, <2>2
<1>5. label_counter' \in Nat /\ label_counter <= label_counter'
  BY <1>0 DEF GenTyped
<1> QED BY <1>0, <1>1, <1>3, <1>4, <1>5, QuietStep DEF AllHarmless

LEMMA BindEndIf ==
    ASSUME GenIInv, BindIInv, EndIf
    PROVE  BindIInv'
<1> DEFINE top == Last(open)
           e == top.end
<1>0. GenTyped /\ LabelsKnown /\ open # <<>> /\ label_counter' = label_counter
      /\ top.stmt \in {"if", "else"}
  BY DEF GenIInv, BindIInv, EndIf, Close
<1>1. label_counter' \in Nat /\ label_counter <= label_counter'
  BY <1>0 DEF GenTyped
<1>2. top \in Frames /\ FrameLabels(top) \subseteq Labels
  BY <1>0, Innermost
<1> HIDE DEF top
<1>3. e \in Labels
  BY <1>0, <1>2 DEF FrameLabels
<1>4. Jmp(e) \in HarmlessInstrs /\ Lab(e) \in HarmlessInstrs
  BY <1>0, <1>1, <1>3, HarmlessParts
<1>5. AllHarmless(<<Jmp(e), Lab(e)>>) /\ AllHarmless(<<Lab(e)>>)
  BY <1>4, HarmlessLists
<1>6. CASE Close("endif", "if") /\ Emit(<<Jmp(e), Lab(e)>>)
  <2> DEFINE instrs == <<Jmp(e), Lab(e)>>
  <2>1. AllHarmless(instrs) /\ Emit(instrs) /\ loop_stack' = loop_stack
    BY <1>5, <1>6 DEF EndIf
  <2> HIDE DEF instrs
  <2> QED BY <1>6, <2>1, BindClose
<1>7. CASE Close("endif", "else") /\ Emit(<<Lab(e)>>)
  <2> DEFINE instrs == <<Lab(e)>>
  <2>1. AllHarmless(instrs) /\ Emit(instrs) /\ loop_stack' = loop_stack
    BY <1>5, <1>7 DEF EndIf
  <2> HIDE DEF instrs
  <2> QED BY <1>7, <2>1, BindClose
<1> QED BY <1>6, <1>7 DEF EndIf, top

\* The beginning of a loop.
LEMMA LoopBegun ==
    ASSUME GenTyped, Nested, NEW f \in Loops, open' = Append(open, f), FrameLabels(f) \subseteq Labels,
           NEW l \in Labels \cap Nat, NEW e \in Labels \cap Nat, NEW cont \in Labels \cap Nat,
           PushLoop(l, e, cont)
    PROVE  /\ Nested'
           /\ \A g \in Range(open)' : g \in Range(open) \/ FrameLabels(g) \subseteq Labels
           /\ \A c \in Range(loop_stack)' : c \in Range(loop_stack) \/ ContextLabels(c) \subseteq Labels
<1>1. f \in Frames /\ IsLoop(f)
  BY DEF Frames, Loops, IsLoop
<1>2. Range(open)' = Range(open) \cup {f}
  BY <1>1, Opened
<1> DEFINE ctx == [start |-> l, end |-> e, cont |-> cont]
<1>3. ctx \in LoopTypes /\ ContextLabels(ctx) \subseteq Labels /\ loop_stack \in Seq(LoopTypes)
      /\ loop_stack' = Append(loop_stack, ctx)
  BY DEF LoopTypes, GenTyped, PushLoop, ContextLabels
<1> HIDE DEF ctx
<1>4. Range(loop_stack)' = Range(loop_stack) \cup {ctx}
  BY <1>3, Pushed
<1>5. Nested'
  BY <1>1, <1>3, NestedOpened
<1> QED BY <1>2, <1>3, <1>4, <1>5

LEMMA BindWhile ==
    ASSUME GenIInv, BindIInv, While
    PROVE  BindIInv'
<1> DEFINE l == NewLabel(1)
           e == NewLabel(2)
           f == [stmt |-> "while", start |-> l, end |-> e]
           b == Lab(l)
           c == Obs("test")
           d == Jz(e)
           instrs == <<b, c, d>>
<1>0. /\ GenTyped /\ LabelsKnown /\ Nested /\ phase = "gen"
      /\ UNCHANGED <<phase, locals, nslots>>
      /\ open' = Append(open, f) /\ PushLoop(l, e, l) /\ Emit(instrs)
      /\ label_counter' = NewLabel(2)
  BY DEF GenIInv, BindIInv, While, BeginStmt
<1>1. /\ l \in Labels \cap Nat /\ e \in Labels \cap Nat
      /\ label_counter' \in Nat /\ label_counter <= label_counter'
  BY <1>0 DEF GenTyped, NewLabel, NewLabels, Labels
<1> HIDE DEF l, e
<1>2. f \in Loops /\ FrameLabels(f) \subseteq Labels
  BY <1>1 DEF Loops, FrameLabels
<1> HIDE DEF f
<1>3. b \in HarmlessInstrs /\ c \in HarmlessInstrs /\ d \in HarmlessInstrs
  BY <1>0, <1>1, HarmlessParts
<1> HIDE DEF b, c, d
<1>4. AllHarmless(instrs)
  BY <1>3, HarmlessLists
<1> HIDE DEF instrs
<1>5. /\ Nested'
      /\ \A g \in Range(open)' : g \in Range(open) \/ FrameLabels(g) \subseteq Labels
      /\ \A x \in Range(loop_stack)' : x \in Range(loop_stack) \/ ContextLabels(x) \subseteq Labels
  BY <1>0, <1>1, <1>2, LoopBegun
<1> QED BY <1>0, <1>1, <1>4, <1>5, QuietStep DEF AllHarmless, Labels

LEMMA BindDoWhile ==
    ASSUME GenIInv, BindIInv, DoWhile
    PROVE  BindIInv'
<1> DEFINE l == NewLabel(1)
           cont == NewLabel(2)
           e == NewLabel(3)
           f == [stmt |-> "do", start |-> l, cont |-> cont, end |-> e]
           b == Lab(l)
           instrs == <<b>>
<1>0. /\ GenTyped /\ LabelsKnown /\ Nested /\ phase = "gen"
      /\ UNCHANGED <<phase, locals, nslots>>
      /\ open' = Append(open, f) /\ PushLoop(cont, e, cont) /\ Emit(instrs)
      /\ label_counter' = NewLabel(3)
  BY DEF GenIInv, BindIInv, DoWhile, BeginStmt
<1>1. /\ l \in Labels \cap Nat /\ cont \in Labels \cap Nat /\ e \in Labels \cap Nat
      /\ label_counter' \in Nat /\ label_counter <= label_counter'
  BY <1>0 DEF GenTyped, NewLabel, NewLabels, Labels
<1> HIDE DEF l, cont, e
<1>2. f \in Loops /\ FrameLabels(f) \subseteq Labels
  BY <1>1 DEF Loops, FrameLabels
<1> HIDE DEF f
<1>3. b \in HarmlessInstrs
  BY <1>0, <1>1, HarmlessParts
<1> HIDE DEF b
<1>4. AllHarmless(instrs)
  BY <1>3, HarmlessLists
<1> HIDE DEF instrs
<1>5. /\ Nested'
      /\ \A g \in Range(open)' : g \in Range(open) \/ FrameLabels(g) \subseteq Labels
      /\ \A x \in Range(loop_stack)' : x \in Range(loop_stack) \/ ContextLabels(x) \subseteq Labels
  BY <1>0, <1>1, <1>2, LoopBegun
<1> QED BY <1>0, <1>1, <1>4, <1>5, QuietStep DEF AllHarmless, Labels

LEMMA BindEndLoop ==
    ASSUME GenIInv, BindIInv, EndWhile \/ EndDoWhile
    PROVE  BindIInv'
<1> DEFINE top == Last(open)
<1>0. /\ GenTyped /\ LabelsKnown /\ open # <<>> /\ label_counter' = label_counter /\ PopLoop
  BY DEF GenIInv, BindIInv, EndWhile, EndDoWhile, Close
<1>1. label_counter' \in Nat /\ label_counter <= label_counter'
  BY <1>0 DEF GenTyped
<1>2. FrameLabels(top) \subseteq Labels
  BY <1>0, Innermost
<1>3. CASE EndWhile
  <2> DEFINE l == top.start
             e == top.end
             instrs == <<Jmp(l), Lab(e)>>
  <2>1. Close("endwhile", "while") /\ top.stmt = "while" /\ Emit(instrs)
    BY <1>3 DEF EndWhile, Close
  <2>2. l \in Labels /\ e \in Labels
    BY <1>2, <2>1 DEF FrameLabels
  <2> HIDE DEF l, e
  <2>3. Jmp(l) \in HarmlessInstrs /\ Lab(e) \in HarmlessInstrs
    BY <1>0, <1>1, <2>2, HarmlessParts
  <2>4. AllHarmless(instrs)
    BY <2>3, HarmlessLists
  <2> HIDE DEF instrs
  <2> QED BY <1>0, <2>1, <2>4, BindClose
<1>4. CASE EndDoWhile
  <2> DEFINE l == top.start
             e == top.end
             cont == top.cont
             c == Obs("test")
             instrs == <<Lab(cont), c, Jnz(l), Lab(e)>>
  <2>1. Close("enddo", "do") /\ top.stmt = "do" /\ Emit(instrs)
    BY <1>4 DEF EndDoWhile, Close
  <2>2. l \in Labels /\ e \in Labels /\ cont \in Labels
    BY <1>2, <2>1 DEF FrameLabels
  <2> HIDE DEF l, e, cont
  <2>3. /\ Lab(cont) \in HarmlessInstrs /\ c \in HarmlessInstrs
        /\ Jnz(l) \in HarmlessInstrs /\ Lab(e) \in HarmlessInstrs
    BY <1>0, <1>1, <2>2, HarmlessParts
  <2> HIDE DEF c
  <2>4. AllHarmless(instrs)
    BY <2>3, HarmlessLists
  <2> HIDE DEF instrs
  <2> QED BY <1>0, <2>1, <2>4, BindClose
<1> QED BY <1>3, <1>4

LEMMA BindEndFor ==
    ASSUME GenIInv, BindIInv, NEW kind \in {"for", "forarr"}, EndFor(kind)
    PROVE  BindIInv'
<1> DEFINE top == Last(open)
           l == top.start
           e == top.end
           cont == top.cont
           n == top.counter
           c == On("step", n, locals[n])
           instrs == <<Lab(cont), c, Jmp(l), Lab(e)>>
<1>0. /\ GenTyped /\ LabelsKnown /\ open # <<>> /\ label_counter' = label_counter /\ PopLoop
      /\ locals' = locals
      /\ top.stmt = kind /\ Emit(instrs)
      /\ Close([for |-> "endfor", forarr |-> "endforarr"][kind], kind)
  BY DEF GenIInv, BindIInv, EndFor, Close
<1>1. label_counter' \in Nat /\ label_counter <= label_counter'
  BY <1>0 DEF GenTyped
<1>2. FrameLabels(top) \subseteq Labels /\ top \in Range(open)
  BY <1>0, Innermost
<1>3. n \in DOMAIN locals /\ n \in AllNames /\ locals[n] \in Nat
  BY <1>0, <1>2 DEF GenTyped
<1>4. l \in Labels /\ e \in Labels /\ cont \in Labels
  BY <1>0, <1>2 DEF FrameLabels
<1> HIDE DEF l, e, cont, n
<1>5. /\ Lab(cont) \in HarmlessInstrs /\ c \in HarmlessInstrs
      /\ Jmp(l) \in HarmlessInstrs /\ Lab(e) \in HarmlessInstrs
  BY <1>0, <1>1, <1>3, <1>4, HarmlessParts
<1> HIDE DEF c
<1>6. AllHarmless(instrs)
  BY <1>5, HarmlessLists
<1> HIDE DEF instrs
<1> DEFINE t == [for |-> "endfor", forarr |-> "endforarr"][kind]
<1>7. Close(t, kind) /\ kind \notin {"if", "else"}
  BY <1>0
<1> HIDE DEF t, top
<1> QED BY <1>0, <1>6, <1>7, BindClose

ForHead(counter) == <<On("init", counter, nslots + 1), Lab(NewLabel(1)),
                      On("cmp", counter, nslots + 1), Jz(NewLabel(3))>>

LEMMA BindFor ==
    ASSUME GenIInv, BindIInv, NEW kind \in {"for", "forarr"}, NEW counter \in AllNames,
           NEW names \in Seq(AllNames), counter \in Range(names), NEW binds, AllHarmless(binds),
           For(kind, counter, names, binds), locals'[counter] = nslots + 1,
           \A m \in DOMAIN locals' \ Names : m[2] < label_counter',
           \A m \in DOMAIN locals : m \in Range(names) => Again(m, ForHead(counter) \o binds)
    PROVE  BindIInv'
<1> DEFINE l == NewLabel(1)
           cont == NewLabel(2)
           e == NewLabel(3)
           f == [stmt |-> kind, start |-> l, cont |-> cont, end |-> e, counter |-> counter]
           slot == nslots + 1
           a == On("init", counter, slot)
           b == Lab(l)
           c == On("cmp", counter, slot)
           d == Jz(e)
           head == ForHead(counter)
           instrs == head \o binds
<1>0. /\ GenTyped /\ LabelsKnown /\ SlotsKnown /\ Nested /\ phase = "gen" /\ phase' = "gen"
      /\ open' = Append(open, f) /\ PushLoop(l, e, cont) /\ Emit(instrs)
      /\ label_counter' = NewLabel(3) /\ Alloc(names)
  BY DEF GenIInv, BindIInv, For, BeginStmt, ForHead
<1>1. /\ l \in Labels \cap Nat /\ cont \in Labels \cap Nat /\ e \in Labels \cap Nat
      /\ label_counter' \in Nat /\ label_counter <= label_counter' /\ slot \in Nat
  BY <1>0 DEF GenTyped, NewLabel, NewLabels, Labels
<1>2. head = <<a, b, c, d>>
  BY DEF ForHead
<1>3. slot = locals'[counter]
  OBVIOUS
<1> HIDE DEF l, cont, e, slot, head
<1>4. f \in Loops /\ FrameLabels(f) \subseteq Labels
  BY <1>1 DEF Loops, FrameLabels
<1> HIDE DEF f
<1>5. /\ nslots' \in Nat
      /\ DOMAIN locals' = DOMAIN locals \cup Range(names)
      /\ \A m \in DOMAIN locals' : locals'[m] \in 1 .. nslots'
      /\ \A m \in DOMAIN locals : m \notin Range(names) => locals'[m] = locals[m]
  BY <1>0, FreshSlots
<1>6. a \in HarmlessInstrs /\ b \in HarmlessInstrs /\ c \in HarmlessInstrs /\ d \in HarmlessInstrs
  BY <1>0, <1>1, <1>3, <1>5, HarmlessParts
<1> HIDE DEF a, b, c, d
<1>7. AllHarmless(head)
  BY <1>2, <1>6, HarmlessLists
<1>8. AllHarmless(instrs)
  BY <1>7, HarmlessLists
<1>9. \A m \in DOMAIN locals : m \in DOMAIN locals' /\ (locals'[m] = locals[m] \/ Again(m, instrs))
  BY <1>5 DEF head
<1> HIDE DEF instrs
<1>10. /\ Nested'
       /\ \A g \in Range(open)' : g \in Range(open) \/ FrameLabels(g) \subseteq Labels
       /\ \A x \in Range(loop_stack)' : x \in Range(loop_stack) \/ ContextLabels(x) \subseteq Labels
  BY <1>0, <1>1, <1>4, LoopBegun
<1> QED BY <1>0, <1>1, <1>5, <1>8, <1>9, <1>10, BindStep DEF AllHarmless, Labels

\* Where the instructions of a for statement end up.
LEMMA ForPlaces ==
    ASSUME GenTyped, NEW counter \in AllNames, NEW binds \in Seq(Instrs),
           Emit(ForHead(counter) \o binds)
    PROVE  /\ \A i \in 1 .. 4 : /\ i \in DOMAIN (ForHead(counter) \o binds)
                                /\ (ForHead(counter) \o binds)[i] = ForHead(counter)[i]
                                /\ Len(code) + i \in DOMAIN code'
                                /\ code'[Len(code) + i] = ForHead(counter)[i]
           /\ \A i \in DOMAIN binds : /\ Len(code) + 4 + i \in DOMAIN code'
                                      /\ code'[Len(code) + 4 + i] = binds[i]
           /\ \A i \in DOMAIN (ForHead(counter) \o binds) :
                 /\ i \in Nat /\ i >= 1
                 /\ i \in 1 .. 4 \/ i > 4
           /\ Len(code) \in Nat
<1> DEFINE a == On("init", counter, nslots + 1)
           b == Lab(NewLabel(1))
           c == On("cmp", counter, nslots + 1)
           d == Jz(NewLabel(3))
           head == ForHead(counter)
           instrs == head \o binds
<1>1. a \in Instrs /\ b \in Instrs /\ c \in Instrs /\ d \in Instrs
  <2>1. NewLabel(1) \in Nat /\ NewLabel(3) \in Nat /\ nslots + 1 \in Nat
    BY DEF GenTyped, NewLabel
  <2> QED BY <2>1, InstrTypes
<1>2. head = <<a, b, c, d>>
  BY DEF ForHead
<1> HIDE DEF a, b, c, d, head
<1>3. head \in Seq(Instrs) /\ Len(head) = 4
  BY <1>1, <1>2
<1>4. /\ instrs \in Seq(Instrs)
      /\ DOMAIN head = 1 .. 4 /\ DOMAIN instrs = 1 .. 4 + Len(binds) /\ Len(binds) \in Nat
      /\ \A i \in DOMAIN head : i \in DOMAIN instrs /\ instrs[i] = head[i]
      /\ \A i \in DOMAIN binds : 4 + i \in DOMAIN instrs /\ instrs[4 + i] = binds[i]
      /\ DOMAIN binds = 1 .. Len(binds)
  <2>1. /\ DOMAIN head = 1 .. Len(head) /\ Len(binds) \in Nat /\ DOMAIN binds = 1 .. Len(binds)
        /\ DOMAIN instrs = 1 .. Len(head) + Len(binds)
        /\ \A i \in DOMAIN head : i \in DOMAIN instrs /\ instrs[i] = head[i]
        /\ \A i \in DOMAIN binds :
              Len(head) + i \in DOMAIN instrs /\ instrs[Len(head) + i] = binds[i]
    <3>1. \A s, t \in Seq(Instrs) :
             /\ DOMAIN s = 1 .. Len(s) /\ Len(t) \in Nat /\ DOMAIN t = 1 .. Len(t)
             /\ DOMAIN (s \o t) = 1 .. Len(s) + Len(t)
             /\ \A i \in DOMAIN s : i \in DOMAIN (s \o t) /\ (s \o t)[i] = s[i]
             /\ \A i \in DOMAIN t : Len(s) + i \in DOMAIN (s \o t) /\ (s \o t)[Len(s) + i] = t[i]
      BY Longer
    <3>2. head \in Seq(Instrs) /\ binds \in Seq(Instrs)
      BY <1>3
    <3> QED BY <3>1, <3>2, Zenon
  <2>2. instrs \in Seq(Instrs)
    BY <1>3, Joined
  <2> HIDE DEF instrs
  <2> QED BY <1>3, <2>1, <2>2
<1>5. Emit(instrs)
  BY DEF head
<1>6. instrs = ForHead(counter) \o binds /\ head = ForHead(counter)
  BY DEF head
<1> HIDE DEF instrs
<1>7. /\ Len(code) \in Nat
      /\ \A i \in DOMAIN instrs : Len(code) + i \in DOMAIN code' /\ code'[Len(code) + i] = instrs[i]
  BY <1>4, <1>5, Grown
<1>8. ASSUME NEW i \in DOMAIN binds
      PROVE  Len(code) + 4 + i \in DOMAIN code' /\ code'[Len(code) + 4 + i] = binds[i]
  <2>1. Len(code) + (4 + i) = Len(code) + 4 + i
    BY <1>4, <1>7
  <2>2. 4 + i \in DOMAIN instrs /\ instrs[4 + i] = binds[i]
    BY <1>4
  <2> QED BY <1>7, <2>1, <2>2
<1>9. \A i \in DOMAIN instrs : i \in Nat /\ i >= 1 /\ (i \in 1 .. 4 \/ i > 4)
  BY <1>4
<1>10. \A i \in 1 .. 4 : /\ i \in DOMAIN instrs /\ instrs[i] = head[i]
                         /\ Len(code) + i \in DOMAIN code' /\ code'[Len(code) + i] = head[i]
  BY <1>4, <1>7
<1> QED BY <1>6, <1>7, <1>8, <1>9, <1>10

LEMMA HeadParts ==
    ASSUME NEW counter
    PROVE  /\ ForHead(counter)[1] = On("init", counter, nslots + 1)
           /\ ForHead(counter)[2] = Lab(NewLabel(1))
           /\ ForHead(counter)[3] = On("cmp", counter, nslots + 1)
           /\ ForHead(counter)[4] = Jz(NewLabel(3))
BY DEF ForHead

LEMMA BindForRange ==
    ASSUME GenIInv, BindIInv, NamesKept, NEW n \in Names, ForRange(n)
    PROVE  BindIInv'
<1>0. /\ GenTyped /\ SlotsKnown /\ Nested /\ n \in AllNames
      /\ Bindable(n) /\ For("for", n, <<n>>, <<>>)
  BY DEF GenIInv, BindIInv, AllNames, ForRange
<1> DEFINE names == <<n>>
           binds == <<>>
           instrs == ForHead(n) \o binds
<1>1. names \in Seq(AllNames) /\ Range(names) = {n} /\ DOMAIN names = {1} /\ names[1] = n
  BY <1>0, Ranges
<1>2. For("for", n, names, binds) /\ Alloc(names) /\ Emit(instrs)
      /\ label_counter' = label_counter + 3
  BY <1>0 DEF For, ForHead, NewLabel
<1>3. binds \in Seq(Instrs) /\ AllHarmless(binds)
  <2>1. Range(<<>>) = {}
    BY DEF Range
  <2> QED BY <2>1 DEF AllHarmless
<1>4. instrs = ForHead(n) \o binds
  OBVIOUS
<1> HIDE DEF names, binds, instrs
<1>5. /\ DOMAIN locals' = DOMAIN locals \cup {n}
      /\ n \in DOMAIN locals => locals[n] < locals'[n]
      /\ locals'[n] = nslots + 1
  BY <1>0, <1>1, <1>2, FreshSlots
<1>6. \A m \in DOMAIN locals' \ Names : m[2] < label_counter'
  <2> SUFFICES ASSUME NEW m \in DOMAIN locals' \ Names PROVE m[2] < label_counter'
    OBVIOUS
  <2>1. m \in DOMAIN locals \ Names
    BY <1>5
  <2>2. m[2] < label_counter /\ m \in {"__for_idx"} \X Nat
    BY <1>0, <2>1 DEF SlotsKnown, GenTyped, AllNames
  <2>3. m[2] \in Nat /\ label_counter \in Nat
    BY <1>0, <2>2 DEF GenTyped
  <2> QED BY <1>2, <2>2, <2>3
<1>7. ASSUME NEW m \in DOMAIN locals, m \in Range(names) PROVE Again(m, instrs)
  <2>1. m = n
    BY <1>1, <1>7
  <2>2. open = <<>>
    BY <1>0, <2>1 DEF Bindable, NamesKept
  <2>3. PendingLabels = {}
    BY <1>0, <2>2, NothingPending
  <2>4. /\ Len(code) + 1 \in DOMAIN code' /\ code'[Len(code) + 1] = On("init", n, nslots + 1)
        /\ Len(code) \in Nat
        /\ \A i \in DOMAIN instrs : i \in Nat /\ i >= 1
    BY <1>0, <1>2, <1>3, <1>4, ForPlaces, HeadParts
  <2>5. PICK k \in DOMAIN code' : k = Len(code) + 1
    BY <2>4
  <2>6. code'[k].op = "init" /\ code'[k].n = n
    BY <2>4, <2>5 DEF On
  <2>7. Entry(k, k, n)'
    BY <2>6 DEF Entry, Uses, IsNamed, IsWrite
  <2>8. \A q \in DOMAIN instrs : k <= Len(code) + q
    BY <2>4, <2>5
  <2> QED BY <1>5, <2>1, <2>3, <2>5, <2>7, <2>8 DEF Again
<1>8. \A m \in DOMAIN locals : m \in Range(names) => Again(m, ForHead(n) \o binds)
  BY <1>4, <1>7
<1> QED BY <1>0, <1>1, <1>2, <1>3, <1>5, <1>6, <1>8, BindFor

LEMMA BindForArray ==
    ASSUME GenIInv, BindIInv, NamesKept, NEW n \in Names, ForArray(n)
    PROVE  BindIInv'
<1> DEFINE idx == <<"__for_idx", label_counter>>
           names == <<idx, n>>
           b == On("bind", n, nslots + 2)
           binds == <<b>>
           instrs == ForHead(idx) \o binds
<1>0. /\ GenTyped /\ SlotsKnown /\ LabelsKnown /\ Nested /\ n \in AllNames
      /\ Bindable(n) /\ For("forarr", idx, names, binds)
      /\ Alloc(names) /\ Emit(instrs) /\ label_counter' = label_counter + 3
      /\ "forarr" \in Kinds
  BY DEF GenIInv, BindIInv, AllNames, ForArray, For, ForHead, NewLabel
<1>1. label_counter \in Nat /\ nslots \in Nat
  BY <1>0 DEF GenTyped
<1>2. idx \in {"__for_idx"} \X Nat /\ idx[2] = label_counter
  BY <1>1
<1>3. idx \in AllNames /\ idx # n /\ idx \notin Names
  BY <1>2 DEF AllNames, NamesKept
<1>4. idx \notin DOMAIN locals
  BY <1>0, <1>1, <1>2, <1>3 DEF SlotsKnown
<1>5. instrs = ForHead(idx) \o binds
  OBVIOUS
<1>6. b.op = "bind" /\ b.n = n /\ b = On("bind", n, nslots + 2)
  BY DEF On
<1> HIDE DEF idx
<1>7. names \in Seq(AllNames) /\ Range(names) = {idx, n} /\ DOMAIN names = {1, 2}
      /\ names[1] = idx /\ names[2] = n
  BY <1>0, <1>3, Ranges
<1> HIDE DEF names
<1>8. /\ DOMAIN locals' = DOMAIN locals \cup {idx, n}
      /\ n \in DOMAIN locals => locals[n] < locals'[n]
      /\ locals'[idx] = nslots + 1 /\ locals'[n] = nslots + 2
  <2>1. /\ 1 \in DOMAIN names /\ (\A k \in DOMAIN names : names[k] = names[1] => k = 1)
        /\ 2 \in DOMAIN names /\ (\A k \in DOMAIN names : names[k] = names[2] => k = 2)
    BY <1>3, <1>7
  <2>2. /\ DOMAIN locals' = DOMAIN locals \cup Range(names)
        /\ \A m \in DOMAIN locals : m \in Range(names) => locals[m] < locals'[m]
        /\ locals'[names[1]] = nslots + 1 /\ locals'[names[2]] = nslots + 2
    BY <1>0, <1>7, <2>1, FreshSlots
  <2> QED BY <1>7, <2>2
<1>9. b \in HarmlessInstrs
  <2>1. n \in AllNames \cap DOMAIN locals' /\ nslots + 2 \in Nat /\ nslots + 2 = locals'[n]
    BY <1>0, <1>1, <1>8
  <2>2. label_counter' \in Nat /\ label_counter <= label_counter'
    BY <1>0, <1>1
  <2> QED BY <1>0, <1>6, <2>1, <2>2, HarmlessParts
<1> HIDE DEF b
<1>10. AllHarmless(binds) /\ binds \in Seq(Instrs) /\ DOMAIN binds = {1} /\ binds[1] = b
  BY <1>9, HarmlessLists DEF AllHarmless
<1> HIDE DEF binds
<1>11. \A m \in DOMAIN locals' \ Names : m[2] < label_counter'
  <2> SUFFICES ASSUME NEW m \in DOMAIN locals' \ Names PROVE m[2] < label_counter'
    OBVIOUS
  <2>1. CASE m = idx
    BY <1>0, <1>1, <1>2, <2>1
  <2>2. CASE m # idx
    <3>1. m \in DOMAIN locals \ Names
      BY <1>8, <2>2
    <3>2. m[2] < label_counter /\ m \in {"__for_idx"} \X Nat
      BY <1>0, <3>1 DEF SlotsKnown, GenTyped, AllNames
    <3> QED BY <1>0, <1>1, <3>2
  <2> QED BY <2>1, <2>2
<1> HIDE DEF instrs
<1>12. ASSUME NEW m \in DOMAIN locals, m \in Range(names) PROVE Again(m, instrs)
  <2>1. m = n
    BY <1>4, <1>7, <1>12
  <2>2. open = <<>>
    BY <1>0, <2>1 DEF Bindable, NamesKept
  <2>3. PendingLabels = {}
    BY <1>0, <2>2, NothingPending
  <2>4. /\ Len(code) \in Nat
        /\ \A i \in 1 .. 4 : /\ i \in DOMAIN instrs /\ instrs[i] = ForHead(idx)[i]
                             /\ Len(code) + i \in DOMAIN code'
                             /\ code'[Len(code) + i] = ForHead(idx)[i]
        /\ Len(code) + 4 + 1 \in DOMAIN code' /\ code'[Len(code) + 4 + 1] = b
        /\ \A i \in DOMAIN instrs : i \in Nat /\ i >= 1 /\ (i \in 1 .. 4 \/ i > 4)
    BY <1>0, <1>3, <1>5, <1>10, ForPlaces
  <2>5. /\ ForHead(idx)[1] = On("init", idx, nslots + 1)
        /\ ForHead(idx)[2] = Lab(NewLabel(1))
        /\ ForHead(idx)[3] = On("cmp", idx, nslots + 1)
        /\ ForHead(idx)[4] = Jz(NewLabel(3))
    BY HeadParts
  <2>6. PICK j \in DOMAIN code' : j = Len(code) + 1
    BY <2>4
  <2>7. j + 1 = Len(code) + 2 /\ j + 2 = Len(code) + 3 /\ j + 3 = Len(code) + 4
        /\ j + 4 = Len(code) + 4 + 1
    BY <2>4, <2>6
  <2>8. PICK k \in DOMAIN code' : k = j + 4
    BY <2>4, <2>7
  <2>9. /\ code'[j].op = "init" /\ code'[j].slot = nslots + 1
        /\ code'[j + 1].op = "lab"
        /\ code'[j + 2].op = "cmp" /\ code'[j + 2].slot = nslots + 1
        /\ code'[j + 3].op = "jz"
    BY <2>4, <2>5, <2>6, <2>7 DEF On, Lab, Jz
  <2>10. code'[k].op = "bind" /\ code'[k].n = n
    BY <1>6, <2>4, <2>7, <2>8
  <2>11. Entry(j, k, n)'
    BY <2>8, <2>9, <2>10 DEF Entry, Uses, IsNamed, IsWrite
  <2>12. ASSUME NEW q \in DOMAIN instrs, IsNamed(instrs[q]), instrs[q].n = n
         PROVE  k <= Len(code) + q
    <3>1. ~(q \in 1 .. 4)
      <4> SUFFICES ASSUME q \in 1 .. 4 PROVE FALSE
        OBVIOUS
      <4>1. instrs[q] = ForHead(idx)[q]
        BY <2>4
      <4>2. q = 1 \/ q = 2 \/ q = 3 \/ q = 4
        OBVIOUS
      <4>3. ForHead(idx)[1].n = idx /\ ForHead(idx)[3].n = idx
            /\ ~IsNamed(ForHead(idx)[2]) /\ ~IsNamed(ForHead(idx)[4])
        BY <2>5 DEF On, Lab, Jz, IsNamed
      <4> QED BY <1>3, <2>12, <4>1, <4>2, <4>3
    <3>2. q \in Nat /\ q > 4
      BY <2>4, <3>1
    <3> QED BY <2>4, <2>7, <2>8, <3>2
  <2> QED BY <1>8, <2>1, <2>3, <2>6, <2>11, <2>12 DEF Again
<1>13. \A m \in DOMAIN locals : m \in Range(names) => Again(m, ForHead(idx) \o binds)
  BY <1>5, <1>12
<1>14. idx \in Range(names)
  BY <1>7
<1> QED BY <1>0, <1>3, <1>7, <1>8, <1>10, <1>11, <1>13, <1>14, BindFor

\* The end of gen_function: no name is used, and nothing behind the label of
\* the epilogue jumps.
LEMMA BindEnd ==
    ASSUME GenIInv, BindIInv, EndFunction
    PROVE  BindIInv'
<1> DEFINE pre == IF LastIsReturn THEN <<>> ELSE <<Leave>>
           post == IF needs_canary THEN <<Lab(Epilogue), Check, Ret>> ELSE <<>>
           instrs == pre \o post
<1>0. /\ GenTyped /\ LabelsKnown /\ SlotsKnown /\ SlotsChange /\ Nested /\ PlainEnd
      /\ phase = "gen" /\ phase' = "done" /\ Emit(instrs)
      /\ UNCHANGED <<open, loop_stack, label_counter, locals, nslots>>
  BY DEF GenIInv, BindIInv, EndFunction
<1>1. /\ pre \in Seq(Instrs) /\ \A c \in Range(pre) : c = Leave
  <2>1. CASE LastIsReturn
    <3>1. pre = <<>>
      BY <2>1
    <3> QED BY <3>1 DEF Range
  <2>2. CASE ~LastIsReturn
    <3>1. pre = <<Leave>>
      BY <2>2
    <3>2. Leave \in Instrs
      BY <1>0, InstrTypes
    <3>3. Range(<<Leave>>) = {Leave} /\ <<Leave>> \in Seq(Instrs)
      BY <3>2, Ranges
    <3> QED BY <3>1, <3>3
  <2> QED BY <2>1, <2>2
<1>2. /\ post \in Seq(Instrs) /\ \A c \in Range(post) : c \in {Lab(Epilogue), Check, Ret}
  <2>1. CASE needs_canary
    <3>1. post = <<Lab(Epilogue), Check, Ret>>
      BY <2>1
    <3>2. Lab(Epilogue) \in Instrs /\ Check \in Instrs /\ Ret \in Instrs
      BY <1>0, InstrTypes DEF Epilogue
    <3>3. /\ Range(<<Lab(Epilogue), Check, Ret>>) = {Lab(Epilogue), Check, Ret}
          /\ <<Lab(Epilogue), Check, Ret>> \in Seq(Instrs)
      BY <3>2, Ranges
    <3> QED BY <3>1, <3>3
  <2>2. CASE ~needs_canary
    <3>1. post = <<>>
      BY <2>2
    <3> QED BY <3>1 DEF Range
  <2> QED BY <2>1, <2>2
<1> HIDE DEF pre, post
<1>3. Leave.op # "lab" /\ ~IsNamed(Leave) /\ (HasLabel(Leave) => Leave.lab = Epilogue)
  BY DEF Leave, IsNamed, HasLabel, Ret, Jmp
<1>4. \A c \in {Lab(Epilogue), Check, Ret} :
         ~IsNamed(c) /\ ~IsJump(c) /\ (HasLabel(c) => c.lab = Epilogue)
  BY DEF Lab, Check, Ret, IsNamed, IsJump, HasLabel
<1>5. instrs \in Seq(Instrs) /\ Range(instrs) = Range(pre) \cup Range(post)
  BY <1>1, <1>2, Joined
<1>6. \A c \in Range(instrs) : ~IsNamed(c) /\ (HasLabel(c) => c.lab = Epilogue)
  BY <1>1, <1>2, <1>3, <1>4, <1>5
<1>7. \A p, q \in DOMAIN instrs : instrs[p].op = "lab" /\ p <= q => ~IsJump(instrs[q])
  <2> SUFFICES ASSUME NEW p \in DOMAIN instrs, NEW q \in DOMAIN instrs,
                      instrs[p].op = "lab", p <= q
               PROVE  ~IsJump(instrs[q])
    OBVIOUS
  <2>1. \A s, t \in Seq(Instrs) :
           /\ DOMAIN s = 1 .. Len(s) /\ Len(s) \in Nat
           /\ \A i \in DOMAIN s : (s \o t)[i] = s[i]
           /\ \A i \in DOMAIN (s \o t) : /\ i \in Nat /\ i >= 1
                                         /\ i \in DOMAIN s \/ (i > Len(s) /\ (s \o t)[i] \in Range(t))
    BY Longer
  <2>2. /\ DOMAIN pre = 1 .. Len(pre) /\ Len(pre) \in Nat
        /\ \A i \in DOMAIN pre : instrs[i] = pre[i]
        /\ \A i \in DOMAIN instrs : /\ i \in Nat /\ i >= 1
                                    /\ i \in DOMAIN pre \/ (i > Len(pre) /\ instrs[i] \in Range(post))
    BY <1>1, <1>2, <2>1
  <2> HIDE DEF instrs
  <2>3. p \notin DOMAIN pre
    <3> SUFFICES ASSUME p \in DOMAIN pre PROVE FALSE
      OBVIOUS
    <3>1. instrs[p] \in Range(pre)
      BY <2>2 DEF Range
    <3> QED BY <1>1, <1>3, <3>1
  <2>4. q \notin DOMAIN pre
    BY <2>2, <2>3
  <2> QED BY <1>2, <1>4, <2>2, <2>4
<1> HIDE DEF instrs
<1>8. label_counter' \in Nat /\ label_counter <= label_counter' /\ nslots' \in Nat
  BY <1>0 DEF GenTyped
<1>9. Growing(instrs)
  BY <1>0, <1>6, <1>8 DEF Growing, PendingLabels
<1>10. Binding(instrs)
  BY <1>0, <1>6 DEF Binding, SlotsKnown
<1>11. LabelsKnown' /\ SlotsKnown' /\ SlotsChange'
  BY <1>0, <1>5, <1>8, <1>9, <1>10, GrowLabels, GrowSlots
<1>12. Nested'
  BY <1>0 DEF Nested, Depth
<1>13. /\ Len(code) \in Nat /\ DOMAIN code = 1 .. Len(code)
       /\ \A i \in DOMAIN code : i \in DOMAIN code' /\ code'[i] = code[i]
       /\ \A i \in DOMAIN code' :
             \/ i \in DOMAIN code
             \/ /\ i > Len(code) /\ i - Len(code) \in DOMAIN instrs
                /\ code'[i] = instrs[i - Len(code)] /\ code'[i] \in Range(instrs)
       /\ DOMAIN code' = 1 .. Len(code) + Len(instrs) /\ Len(instrs) \in Nat
  BY <1>0, <1>5, Grown
<1>14. ASSUME NEW e \in DOMAIN code', NEW i \in DOMAIN code', code'[e].op = "lab",
              code'[e].lab = Epilogue, e <= i
       PROVE  ~IsNamed(code'[i]) /\ ~IsJump(code'[i])
  <2>1. e \notin DOMAIN code
    BY <1>0, <1>13, <1>14 DEF PlainEnd, AtEpilogue
  <2>2. e > Len(code) /\ e - Len(code) \in DOMAIN instrs /\ instrs[e - Len(code)].op = "lab"
    BY <1>13, <1>14, <2>1
  <2>3. i \notin DOMAIN code /\ e - Len(code) <= i - Len(code)
    BY <1>13, <1>14, <2>2
  <2>4. i - Len(code) \in DOMAIN instrs /\ code'[i] = instrs[i - Len(code)]
        /\ code'[i] \in Range(instrs)
    BY <1>13, <2>3
  <2> QED BY <1>6, <1>7, <2>2, <2>3, <2>4
<1>15. PlainEnd'
  BY <1>0, <1>14 DEF PlainEnd, AtEpilogue, IsNamed, IsJump
<1> QED BY <1>11, <1>12, <1>15 DEF BindIInv

\* Nothing is emitted.
LEMMA BindSame ==
    ASSUME BindIInv, UNCHANGED <<code, open, loop_stack, label_counter, locals, nslots>>,
           phase' = phase \/ phase # "done"
    PROVE  BindIInv'
<1>1. PlainEnd'
  BY DEF BindIInv, PlainEnd, AtEpilogue
<1>2. LabelsKnown' /\ SlotsKnown' /\ Nested'
  BY DEF BindIInv, LabelsKnown, SlotsKnown, Nested, Depth, PendingLabels
<1>3. SlotsChange'
  <2>1. \A n, j, m : Entry(j, m, n)' <=> Entry(j, m, n)
    BY DEF Entry, Uses
  <2>2. \A j, L : Split(j, L)' <=> Split(j, L)
    BY DEF Split
  <2>3. \A L : Sealed(L)' <=> Sealed(L)
    BY DEF Sealed, PendingLabels
  <2>4. \A n, i, j, m : Rebound(n, i, j, m)' <=> Rebound(n, i, j, m)
    BY <2>1, <2>2, <2>3 DEF Rebound
  <2>5. \A n, i : Uses(i, n)' <=> Uses(i, n)
    BY DEF Uses
  <2> QED BY <2>4, <2>5 DEF BindIInv, SlotsChange
<1> QED BY <1>1, <1>2, <1>3 DEF BindIInv

LEMMA InitBindIInv == Init => BindIInv
<1> SUFFICES ASSUME Init PROVE BindIInv
  OBVIOUS
<1>1. /\ code = <<>> /\ open = <<>> /\ loop_stack = <<>> /\ label_counter = 0
      /\ DOMAIN locals = {} /\ DOMAIN code = {} /\ Range(open) = {} /\ Range(loop_stack) = {}
      /\ Len(open) = 0 /\ DOMAIN open = {} /\ Len(loop_stack) = 0
  BY DEF Init, Range
<1>2. PendingLabels = {}
  BY <1>1 DEF PendingLabels
<1> DEFINE d == [p \in 0 .. 0 |-> 0]
<1>3. d \in [0 .. Len(open) -> Nat] /\ d[0] = 0
  BY <1>1
<1> HIDE DEF d
<1>4. Nested
  BY <1>1, <1>3 DEF Nested, Depth
<1> QED BY <1>1, <1>2, <1>4 DEF BindIInv, LabelsKnown, SlotsKnown, SlotsChange, PlainEnd

LEMMA NextBindIInv ==
    ASSUME GenIInv, BindIInv, NamesKept, [Next]_genVars
    PROVE  BindIInv'
<1>1. CASE UNCHANGED genVars
  BY <1>1, BindSame DEF genVars
<1>2. CASE Reject
  BY <1>2, BindSame DEF Reject
<1>3. CASE \E n \in Names : VarDecl(n) \/ Assignment(n) \/ ReadStmt(n) \/ ForRange(n) \/ ForArray(n)
  BY <1>3, BindDecl, BindAccess, BindForRange, BindForArray
<1>4. CASE \E more \in BOOLEAN : If(more) \/ Elif(more)
  BY <1>4, BindIf, BindElif
<1>5. CASE EndFor("for") \/ EndFor("forarr")
  BY <1>5, BindEndFor
<1> QED
  BY <1>1, <1>2, <1>3, <1>4, <1>5, BindSimple, BindElse, BindEndIf, BindWhile, BindDoWhile,
     BindEndLoop, BindEnd DEF Next

-----------------------------------------------------------------------------
(***************************************************************************)
(* The processor and the slots of names.                                   *)
(***************************************************************************)
\* An array that is looped over has an element.
ArraysFilled == "forarr" \in Kinds => Trip > 0

\* Where an instruction other than ret leads.
Moves == pc' = pc + 1 \/ (IsJump(code[pc]) /\ pc' = Target(code[pc].lab))

LEMMA Moving ==
    ASSUME At({"lab", "jmp", "jz", "jnz", "eff", "read", "test", "write", "init", "bind", "cmp",
               "step", "check"}), Instruction
    PROVE  Moves /\ UNCHANGED run
BY DEF Instruction, Skip, Jump, Evaluate, Condition, Store, Compare, Step, CheckCanary, Return, At,
       Advance, Moves, IsJump

\* A jump ends at its label.
LEMMA Landing ==
    ASSUME LowIInv, run = "running", IsJump(code[pc])
    PROVE  /\ Target(code[pc].lab) \in DOMAIN code
           /\ code[Target(code[pc].lab)] = Lab(code[pc].lab)
<1>1. Finished /\ code[pc] \in Range(code)
  BY Fetched
<1>2. Lab(code[pc].lab) \in Range(code)
  BY <1>1 DEF Finished
<1>3. \E i \in DOMAIN code : code[i] = Lab(code[pc].lab)
  BY <1>2 DEF Range
<1> QED BY <1>3 DEF Target

\* Gates are not jumped over, neither forth nor back.
LEMMA NotJumped ==
    ASSUME LowIInv, run = "running", Moves, UNCHANGED genVars,
           NEW j, NEW m, NEW n, Gate(j, m, n)
    PROVE  \/ InEpilogue'
           \/ (pc < j => pc' <= j) /\ (j < pc => j < pc')
<1>1. /\ Len(code) \in Nat /\ DOMAIN code = 1 .. Len(code) /\ pc \in 1 .. Len(code)
  BY Fetched
<1>2. j \in DOMAIN code /\ code[j].op # "lab"
  BY DEF Gate, Entry, Uses, IsWrite
<1>3. PICK L \in 0 .. label_counter : Split(j, L)
  BY DEF Gate
<1>4. j \in Nat /\ pc \in Nat
  BY <1>1, <1>2
<1>5. CASE pc' = pc + 1
  BY <1>4, <1>5
<1>6. CASE IsJump(code[pc]) /\ pc' = Target(code[pc].lab)
  <2> DEFINE t == Target(code[pc].lab)
             l == code[pc].lab
  <2>1. t \in DOMAIN code /\ code[t] = Lab(l)
    BY <1>6, Landing
  <2>2. code[t].op = "lab" /\ code[t].lab = l
    BY <2>1 DEF Lab
  <2>3. pc' = t /\ HasLabel(code[pc]) /\ HasLabel(code[t]) /\ code[pc].lab = l
    BY <1>6, <2>2 DEF HasLabel, IsJump
  <2> HIDE DEF t, l
  <2>4. CASE l = Epilogue
    <3>1. code' = code
      BY DEF genVars
    <3>2. t \in DOMAIN code' /\ t <= pc' /\ code'[t].op = "lab" /\ code'[t].lab = Epilogue
      BY <1>1, <2>1, <2>2, <2>3, <2>4, <3>1
    <3> QED BY <3>2 DEF InEpilogue, AtEpilogue
  <2>5. CASE l # Epilogue
    <3>1. (pc < j <=> l <= L) /\ (t < j <=> l <= L)
      BY <1>1, <1>3, <2>1, <2>2, <2>3, <2>5 DEF Split
    <3>2. t # j
      BY <1>2, <2>2
    <3>3. t \in Nat
      BY <1>1, <2>1
    <3> QED BY <1>4, <2>3, <3>1, <3>2, <3>3
  <2> QED BY <2>4, <2>5
<1> QED BY <1>5, <1>6 DEF Moves

\* Behind the epilogue's label the processor stays there.
LEMMA EpilogueStays ==
    ASSUME LowIInv, BindIInv, run = "running", Moves, UNCHANGED genVars, InEpilogue
    PROVE  InEpilogue'
<1>1. /\ Len(code) \in Nat /\ DOMAIN code = 1 .. Len(code) /\ pc \in 1 .. Len(code)
  BY Fetched
<1>2. PICK e \in DOMAIN code : e <= pc /\ AtEpilogue(e)
  BY DEF InEpilogue
<1>3. ~IsJump(code[pc])
  BY <1>1, <1>2 DEF BindIInv, PlainEnd
<1>4. pc' = pc + 1 /\ e <= pc'
  BY <1>1, <1>2, <1>3 DEF Moves
<1>5. code' = code
  BY DEF genVars
<1> QED BY <1>2, <1>4, <1>5 DEF InEpilogue, AtEpilogue

\* Code that does not change keeps its gates.
LEMMA SameGates ==
    ASSUME UNCHANGED genVars
    PROVE  /\ \A n, i : Uses(i, n)' <=> Uses(i, n)
           /\ \A j, m, n : Gate(j, m, n)' <=> Gate(j, m, n)
<1>0. code' = code /\ label_counter' = label_counter
  BY DEF genVars
<1>1. \A n, j, m : Entry(j, m, n)' <=> Entry(j, m, n)
  BY <1>0 DEF Entry, Uses
<1>2. \A j, L : Split(j, L)' <=> Split(j, L)
  BY <1>0 DEF Split
<1>3. \A j, m, n : Gate(j, m, n)' <=> Gate(j, m, n)
  BY <1>0, <1>1, <1>2 DEF Gate
<1>4. \A n, i : Uses(i, n)' <=> Uses(i, n)
  BY <1>0 DEF Uses
<1> QED BY <1>3, <1>4

\* Who is on the way to a write stays on it until it is done.
LEMMA WayStep ==
    ASSUME LowIInv, BindIInv, ArraysFilled, run = "running", DOMAIN val = 1 .. nslots,
           Instruction, Moves, UNCHANGED genVars, ~InEpilogue',
           NEW j \in DOMAIN code, NEW m \in DOMAIN code, NEW n, Gate(j, m, n),
           OnTheWay(j, m), pc # m
    PROVE  OnTheWay(j, m)'
<1>1. /\ Len(code) \in Nat /\ DOMAIN code = 1 .. Len(code) /\ pc \in 1 .. Len(code)
  BY Fetched
<1>2. j \in Nat /\ m \in Nat /\ pc \in Nat /\ pc \in DOMAIN code /\ code' = code
  BY <1>1 DEF genVars
<1>3. Entry(j, m, n)
  BY DEF Gate
<1>4. CASE pc < j
  <2>1. pc' <= j
    BY <1>4, NotJumped
  <2> QED BY <2>1 DEF OnTheWay
<1>5. CASE pc = j
  <2>1. /\ m = j + 4 /\ code[j].op = "init"
    BY <1>3, <1>5 DEF Entry
  <2>2. Store
    BY <1>5, <2>1 DEF Instruction, Skip, Jump, Evaluate, Condition, Compare, Step, CheckCanary,
                      Return, At
  <2>3. code[j].slot \in 1 .. nslots
    <3>1. IsNamed(code[j])
      BY <2>1 DEF IsNamed
    <3>2. code[j].n \in DOMAIN locals /\ code[j].slot \in 1 .. locals[code[j].n]
      BY <1>5, <1>2, <3>1 DEF BindIInv, SlotsKnown
    <3>3. locals[code[j].n] \in 1 .. nslots /\ nslots \in Nat
      BY <3>2 DEF BindIInv, SlotsKnown, LowIInv, GenIInv, GenTyped
    <3> QED BY <3>2, <3>3
  <2>4. pc' = pc + 1 /\ val' = [val EXCEPT ![code[pc].slot] = 0]
    BY <1>5, <2>1, <2>2 DEF Store, Advance, Written
  <2>5. val'[code'[j].slot] = 0 /\ pc' = j + 1
    BY <1>2, <1>5, <2>3, <2>4
  <2> QED BY <2>1, <2>5 DEF OnTheWay
<1>6. CASE m = j + 4 /\ pc = j + 1 /\ val[code[j].slot] = 0
  <2>1. code[pc].op = "lab"
    BY <1>2, <1>3, <1>6 DEF Entry
  <2>2. Skip
    BY <2>1 DEF Instruction, Jump, Evaluate, Condition, Store, Compare, Step, CheckCanary,
                Return, At
  <2>3. pc' = pc + 1 /\ val' = val
    BY <2>2 DEF Skip, Advance
  <2>4. pc' = j + 2
    BY <1>2, <1>6, <2>3
  <2>5. val'[code'[j].slot] = 0
    BY <1>2, <1>6, <2>3
  <2> QED BY <1>6, <2>4, <2>5 DEF OnTheWay
<1>7. CASE m = j + 4 /\ pc = j + 2 /\ val[code[j].slot] = 0
  <2>1. code[pc].op = "cmp" /\ code[pc].slot = code[j].slot /\ code[m].op = "bind"
    BY <1>2, <1>3, <1>7 DEF Entry
  <2>2. Compare
    BY <2>1 DEF Instruction, Skip, Jump, Evaluate, Condition, Store, Step, CheckCanary,
                Return, At
  <2>3. Trip \in Nat /\ Trip > 0
    <3>1. IsNamed(code[m])
      BY <2>1 DEF IsNamed
    <3>2. "forarr" \in Kinds
      BY <2>1, <3>1 DEF BindIInv, SlotsKnown
    <3> QED BY <3>2, TripAssumption DEF ArraysFilled
  <2>4. val[code[pc].slot] = 0
    BY <1>7, <2>1
  <2>5. pc' = pc + 1 /\ zf' = (0 >= Trip)
    BY <2>2, <2>4 DEF Compare, Advance, Junk
  <2>6. (0 >= Trip) = FALSE
    BY <2>3
  <2>7. zf' = FALSE
    BY <2>5, <2>6, Zenon
  <2>8. pc' = j + 3
    BY <1>2, <1>7, <2>5
  <2> QED BY <1>7, <2>7, <2>8 DEF OnTheWay
<1>8. CASE m = j + 4 /\ pc = j + 3 /\ ~zf
  <2>1. code[pc].op = "jz"
    BY <1>2, <1>3, <1>8 DEF Entry
  <2>2. Jump
    BY <2>1 DEF Instruction, Skip, Evaluate, Condition, Store, Compare, Step, CheckCanary,
                Return, At
  <2>3. pc' = pc + 1
    BY <1>8, <2>1, <2>2 DEF Jump
  <2>4. pc' = m
    BY <1>2, <1>8, <2>3
  <2> QED BY <1>8, <2>4 DEF OnTheWay
<1>9. pc <= j => pc < j \/ pc = j
  BY <1>2
<1> QED BY <1>4, <1>5, <1>6, <1>7, <1>8, <1>9 DEF OnTheWay

\* A step that does not go through a slot of n.
LEMMA OtherNames ==
    ASSUME LowIInv, BindIInv, ArraysFilled, run = "running", DOMAIN val = 1 .. nslots,
           Instruction, Moves, UNCHANGED genVars, ~InEpilogue',
           NEW n \in DOMAIN last, Current(n), last'[n] = last[n],
           ~(IsWrite(code[pc]) /\ code[pc].n = n)
    PROVE  Current(n)'
<1>1. code' = code /\ DOMAIN code' = DOMAIN code
  BY DEF genVars
<1>2. /\ Len(code) \in Nat /\ DOMAIN code = 1 .. Len(code) /\ pc \in 1 .. Len(code)
  BY Fetched
<1>3. /\ \A x, i : Uses(i, x)' <=> Uses(i, x)
      /\ \A j, m, x : Gate(j, m, x)' <=> Gate(j, m, x)
  BY SameGates
<1>4. ASSUME NEW i \in DOMAIN code, Uses(i, n), last[n] < code[i].slot
      PROVE  \E j, m \in DOMAIN code : m <= i /\ Gate(j, m, n) /\ OnTheWay(j, m)'
  <2>1. PICK j, m \in DOMAIN code : m <= i /\ Gate(j, m, n) /\ OnTheWay(j, m)
    BY <1>4 DEF Current
  <2>2. pc # m
    BY <2>1 DEF Gate, Entry, Uses
  <2> QED BY <2>1, <2>2, WayStep
<1>5. ASSUME NEW i \in DOMAIN code, Uses(i, n), last[n] > code[i].slot
      PROVE  \E j, m \in DOMAIN code : i < j /\ j < pc' /\ Gate(j, m, n)
  <2>1. PICK j, m \in DOMAIN code : i < j /\ j < pc /\ Gate(j, m, n)
    BY <1>5 DEF Current
  <2>2. j < pc'
    BY <2>1, NotJumped
  <2> QED BY <2>1, <2>2
<1>6. \A i \in DOMAIN code' : Uses(i, n)' =>
         /\ last'[n] < code'[i].slot =>
               \E j, m \in DOMAIN code' : m <= i /\ Gate(j, m, n)' /\ OnTheWay(j, m)'
         /\ last'[n] > code'[i].slot =>
               \E j, m \in DOMAIN code' : i < j /\ j < pc' /\ Gate(j, m, n)'
  BY <1>1, <1>3, <1>4, <1>5
<1> QED BY <1>6 DEF Current

\* A step that does: from then on the slot is the one n is known by.
LEMMA WrittenName ==
    ASSUME LowIInv, BindIInv, run = "running", UNCHANGED genVars, pc' = pc + 1,
           NEW n, Uses(pc, n), last'[n] = code[pc].slot
    PROVE  Current(n)' /\ last'[n] \in Nat
<1>1. code' = code /\ DOMAIN code' = DOMAIN code
  BY DEF genVars
<1>2. /\ Len(code) \in Nat /\ DOMAIN code = 1 .. Len(code) /\ pc \in 1 .. Len(code)
      /\ pc \in DOMAIN code
  BY Fetched
<1>3. /\ \A x, i : Uses(i, x)' <=> Uses(i, x)
      /\ \A j, m, x : Gate(j, m, x)' <=> Gate(j, m, x)
  BY SameGates
<1>4. n \in DOMAIN locals /\ code[pc].slot \in Nat
  <2>1. n \in DOMAIN locals /\ code[pc].slot \in 1 .. locals[n]
    BY <1>2 DEF BindIInv, SlotsKnown, Uses
  <2> QED BY <2>1
<1>5. \A i, j, m : Rebound(n, i, j, m) => i < j /\ Gate(j, m, n)
  BY DEF Rebound, Gate
<1>6. ASSUME NEW i \in DOMAIN code, Uses(i, n), code[pc].slot < code[i].slot
      PROVE  \E j, m \in DOMAIN code : m <= i /\ Gate(j, m, n) /\ OnTheWay(j, m)'
  <2>1. PICK j, m \in DOMAIN code : Rebound(n, pc, j, m) /\ m <= i
    BY <1>2, <1>4, <1>6 DEF BindIInv, SlotsChange
  <2>2. pc < j /\ Gate(j, m, n)
    BY <1>5, <2>1
  <2>3. pc' <= j
    BY <1>2, <2>2
  <2>4. OnTheWay(j, m)'
    BY <2>3 DEF OnTheWay
  <2> QED BY <2>1, <2>2, <2>4
<1>7. ASSUME NEW i \in DOMAIN code, Uses(i, n), code[i].slot < code[pc].slot
      PROVE  \E j, m \in DOMAIN code : i < j /\ j < pc' /\ Gate(j, m, n)
  <2>1. PICK j, m \in DOMAIN code : Rebound(n, i, j, m) /\ m <= pc
    BY <1>2, <1>4, <1>7 DEF BindIInv, SlotsChange
  <2>2. i < j /\ Gate(j, m, n)
    BY <1>5, <2>1
  <2>3. m = j \/ m = j + 4
    BY <2>2 DEF Gate, Entry
  <2>4. j < pc'
    BY <1>2, <2>1, <2>3
  <2> QED BY <2>2, <2>4
<1>8. ASSUME NEW i \in DOMAIN code, Uses(i, n), code[pc].slot > code[i].slot
      PROVE  code[i].slot < code[pc].slot
  <2>1. code[i].slot \in 1 .. locals[n]
    BY <1>8 DEF BindIInv, SlotsKnown, Uses
  <2> QED BY <1>4, <1>8, <2>1
<1>9. \A i \in DOMAIN code' : Uses(i, n)' =>
         /\ last'[n] < code'[i].slot =>
               \E j, m \in DOMAIN code' : m <= i /\ Gate(j, m, n)' /\ OnTheWay(j, m)'
         /\ last'[n] > code'[i].slot =>
               \E j, m \in DOMAIN code' : i < j /\ j < pc' /\ Gate(j, m, n)'
  BY <1>1, <1>3, <1>6, <1>7, <1>8
<1> QED BY <1>4, <1>9 DEF Current

BindRun == LowIInv /\ BindIInv /\ LastIInv

LEMMA LastStep ==
    ASSUME BindRun, ArraysFilled, Instruction, UNCHANGED genVars
    PROVE  LastIInv'
<1>0. LowIInv /\ BindIInv /\ LastIInv /\ run = "running" /\ nslots' = nslots
  BY DEF BindRun, genVars, Instruction, Skip, Jump, Evaluate, Condition, Store, Compare, Step,
         CheckCanary, Return, At
<1>1. /\ \A n \in DOMAIN last : last[n] \in Nat
      /\ DOMAIN val = 1 .. nslots
      /\ InEpilogue \/ \A n \in DOMAIN last : Current(n)
  BY <1>0 DEF LastIInv
<1>2. CASE Return
  BY <1>1, <1>2 DEF Return, LastIInv
<1>3. CASE ~Return
  <2>1. Moves /\ run' = "running"
    BY <1>0, <1>3 DEF Instruction, Skip, Jump, Evaluate, Condition, Store, Compare, Step,
                      CheckCanary, At, Advance, Moves, IsJump
  <2>2. CASE Store \/ Step
    <3> DEFINE c == code[pc]
    <3>1. /\ c.op \in {"write", "init", "bind", "step"} /\ pc \in DOMAIN code /\ pc' = pc + 1
          /\ \E v : val' = [val EXCEPT ![c.slot] = v]
          /\ last' = [n \in DOMAIN last \cup {c.n} |-> IF n = c.n THEN c.slot ELSE last[n]]
      BY <2>2 DEF Store, Step, At, Advance, Written
    <3>2. DOMAIN val' = 1 .. nslots'
      BY <1>0, <1>1, <3>1
    <3>3. Uses(pc, c.n) /\ c.n \in DOMAIN last' /\ last'[c.n] = c.slot
      BY <3>1 DEF Uses, IsNamed
    <3> HIDE DEF c
    <3>4. PICK x : x = c.n
      OBVIOUS
    <3>5. Uses(pc, x) /\ last'[x] = code[pc].slot
      BY <3>3, <3>4 DEF c
    <3>6. Current(x)' /\ last'[x] \in Nat
      BY <1>0, <3>1, <3>5, WrittenName
    <3>7. \A n \in DOMAIN last' : n # x => n \in DOMAIN last /\ last'[n] = last[n]
      BY <3>1, <3>4
    <3>8. \A n \in DOMAIN last' : last'[n] \in Nat
      BY <1>1, <3>6, <3>7
    <3>9. CASE InEpilogue
      BY <1>0, <2>1, <3>2, <3>8, <3>9, EpilogueStays DEF LastIInv
    <3>10. CASE ~InEpilogue /\ ~InEpilogue'
      <4>1. ASSUME NEW n \in DOMAIN last', n # x PROVE Current(n)'
        <5>1. n \in DOMAIN last /\ last'[n] = last[n] /\ Current(n)
          BY <1>1, <3>7, <3>10, <4>1
        <5>2. code[pc].n # n
          BY <3>4, <4>1 DEF c
        <5> QED BY <1>0, <1>1, <2>1, <3>10, <5>1, <5>2, OtherNames
      <4>2. \A n \in DOMAIN last' : Current(n)'
        BY <3>6, <4>1
      <4> QED BY <2>1, <3>2, <3>8, <4>2 DEF LastIInv
    <3>11. CASE InEpilogue'
      BY <2>1, <3>2, <3>8, <3>11 DEF LastIInv
    <3> QED BY <3>9, <3>10, <3>11
  <2>3. CASE ~(Store \/ Step)
    <3>1. /\ val' = val /\ last' = last /\ ~IsWrite(code[pc])
      BY <1>3, <2>3 DEF Instruction, Skip, Jump, Evaluate, Condition, Compare, CheckCanary, At,
                        IsWrite
    <3>2. CASE InEpilogue
      BY <1>0, <1>1, <2>1, <3>1, <3>2, EpilogueStays DEF LastIInv
    <3>3. CASE ~InEpilogue /\ ~InEpilogue'
      <4>1. ASSUME NEW n \in DOMAIN last PROVE Current(n)'
        <5>1. last'[n] = last[n] /\ Current(n)
          BY <1>1, <3>1, <3>3
        <5> QED BY <1>0, <1>1, <2>1, <3>1, <3>3, <5>1, OtherNames
      <4> QED BY <1>0, <1>1, <2>1, <3>1, <4>1 DEF LastIInv
    <3>4. CASE InEpilogue'
      BY <1>0, <1>1, <2>1, <3>1, <3>4 DEF LastIInv
    <3> QED BY <3>2, <3>3, <3>4
  <2> QED BY <2>2, <2>3
<1> QED BY <1>2, <1>3

LEMMA BindInvariance ==
    ASSUME NamesKept, ArraysFilled
    PROVE  RunSpec => []BindRun
<1>1. RunInit => BindRun
  <2> SUFFICES ASSUME RunInit PROVE BindRun
    OBVIOUS
  <2>1. LowIInv /\ BindIInv
    BY LowInit, InitBindIInv DEF RunInit
  <2>2. LastIInv
    BY DEF RunInit, LastIInv
  <2> QED BY <2>1, <2>2 DEF BindRun
<1>2. BindRun /\ [RunNext]_vars => BindRun'
  <2> SUFFICES ASSUME BindRun, [RunNext]_vars PROVE BindRun'
    OBVIOUS
  <2>0. LowIInv /\ GenIInv /\ BindIInv /\ LastIInv
    BY DEF BindRun, LowIInv
  <2>1. LowIInv'
    BY <2>0, LowNext
  <2>2. [Next]_genVars
    BY DEF RunNext, vars
  <2>3. BindIInv'
    BY <2>0, <2>2, NextBindIInv
  <2>4. CASE Instruction /\ UNCHANGED genVars
    BY <2>1, <2>3, <2>4, LastStep DEF BindRun
  <2>5. CASE Call /\ UNCHANGED genVars
    <3>1. /\ run = "idle" /\ run' = "running" /\ last' = last /\ DOMAIN val' = 1 .. nslots
          /\ nslots' = nslots
      BY <2>5 DEF Call, genVars
    <3>2. DOMAIN last = {}
      BY <2>0, <3>1 DEF LastIInv
    <3>3. LastIInv'
      BY <3>1, <3>2 DEF LastIInv
    <3> QED BY <2>1, <2>3, <3>3 DEF BindRun
  <2>6. CASE Next /\ UNCHANGED runVars
    <3>1. phase = "gen"
      BY <2>6, OnlyGenerating
    <3>2. run = "idle"
      BY <2>0, <3>1 DEF LowIInv, RunOK
    <3>3. LastIInv'
      BY <2>0, <2>6, <3>2 DEF LastIInv, runVars
    <3> QED BY <2>1, <2>3, <3>3 DEF BindRun
  <2>7. CASE UNCHANGED vars
    <3>1. UNCHANGED genVars /\ UNCHANGED runVars
      BY <2>7 DEF vars
    <3>2. LastIInv'
      <4>1. InEpilogue' <=> InEpilogue
        BY <3>1 DEF InEpilogue, AtEpilogue, genVars, runVars
      <4>2. \A j, m : OnTheWay(j, m)' <=> OnTheWay(j, m)
        BY <3>1 DEF OnTheWay, genVars, runVars
      <4>3. /\ \A x, i : Uses(i, x)' <=> Uses(i, x)
            /\ \A j, m, x : Gate(j, m, x)' <=> Gate(j, m, x)
        BY <3>1, SameGates
      <4>4. \A n : Current(n)' <=> Current(n)
        BY <3>1, <4>2, <4>3 DEF Current, genVars, runVars
      <4> QED BY <2>0, <3>1, <4>1, <4>4 DEF LastIInv, genVars, runVars
    <3> QED BY <2>1, <2>3, <3>2 DEF BindRun
  <2> QED BY <2>4, <2>5, <2>6, <2>7 DEF RunNext
<1> QED BY <1>1, <1>2, PTL DEF RunSpec

\* A name that is read, compared or stepped is so through the slot it was last
\* written through, whatever the statements are and however often the loops
\* run, if names are bound again outside every statement only (alloc_local
\* rebinds a name when its declaration is generated, the code runs later).
THEOREM LatestRead ==
    ASSUME NamesKept, ArraysFilled
    PROVE  RunSpec => []ReadsSeeLastWrite
<1>1. BindRun => ReadsSeeLastWrite
  <2> SUFFICES ASSUME BindRun, At({"read", "cmp", "step"}), code[pc].n \in DOMAIN last
               PROVE  last[code[pc].n] = code[pc].slot
    BY DEF ReadsSeeLastWrite
  <2>0. LowIInv /\ BindIInv /\ LastIInv /\ run = "running" /\ pc \in DOMAIN code
        /\ code[pc].op \in {"read", "cmp", "step"}
    BY DEF BindRun, At
  <2>1. IsNamed(code[pc]) /\ ~IsWrite(code[pc])
    BY <2>0 DEF IsNamed, IsWrite
  <2>2. /\ Len(code) \in Nat /\ DOMAIN code = 1 .. Len(code) /\ pc \in 1 .. Len(code)
    BY <2>0, Fetched
  <2>3. PICK n : n = code[pc].n
    OBVIOUS
  <2>4. Uses(pc, n) /\ n \in DOMAIN last
    BY <2>0, <2>1, <2>3 DEF Uses
  <2>5. ~InEpilogue
    BY <2>0, <2>1 DEF BindIInv, PlainEnd, InEpilogue
  <2>6. Current(n) /\ last[n] \in Nat
    BY <2>0, <2>4, <2>5 DEF LastIInv
  <2>7. code[pc].slot \in Nat
    <3>1. code[pc].slot \in 1 .. locals[n]
      BY <2>0, <2>1, <2>3 DEF BindIInv, SlotsKnown
    <3> QED BY <3>1
  <2>8. ~(last[n] < code[pc].slot)
    <3> SUFFICES ASSUME last[n] < code[pc].slot PROVE FALSE
      OBVIOUS
    <3>1. PICK j, m \in DOMAIN code : m <= pc /\ Gate(j, m, n) /\ OnTheWay(j, m)
      BY <2>0, <2>4, <2>6 DEF Current
    <3>2. m # pc /\ (m = j \/ m = j + 4)
      BY <2>1, <3>1 DEF Gate, Entry
    <3>3. j \in Nat /\ m \in Nat /\ pc \in Nat
      BY <2>2
    <3> QED BY <3>1, <3>2, <3>3 DEF OnTheWay
  <2>9. ~(last[n] > code[pc].slot)
    <3> SUFFICES ASSUME last[n] > code[pc].slot PROVE FALSE
      OBVIOUS
    <3>1. PICK j, m \in DOMAIN code : pc < j /\ j < pc /\ Gate(j, m, n)
      BY <2>0, <2>4, <2>6 DEF Current
    <3> QED BY <2>2, <3>1
  <2> QED BY <2>3, <2>6, <2>7, <2>8, <2>9
<1> QED BY <1>1, BindInvariance, PTL
=============================================================================
