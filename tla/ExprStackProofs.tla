--------------------------- MODULE ExprStackProofs ---------------------------
(***************************************************************************)
(* Theorems about ExprStack, for any number of argument registers and      *)
(* expressions of any size.                                                *)
(*                                                                         *)
(* Each gen_* call under way owns the words between its entry and the      *)
(* entry of the call it waits for, and Holds says which words those are.   *)
(* The value on its way up is the operand the innermost call waits for.    *)
(***************************************************************************)
EXTENDS ExprStack, SequenceTheorems, Recursion

Calls == [id : Nat, kind : Kinds, direct : BOOLEAN, n : Nat,
          ops : Seq(Nat), entry : Seq(Nat)]

\* The variables hold what their names say.
TypeOK == /\ mode \in {"eval", "value", "ready"}
          /\ work \in Seq(Calls)
          /\ stack \in Seq(Nat)
          /\ regs \in [Regs -> Nat]
          /\ exprs \in Nat

(***************************************************************************)
(* What the gen_* call f keeps on the stack once it has dealt with its     *)
(* first d operands.                                                       *)
(***************************************************************************)
Fixed(f) == StackWords(f) + 2 * NTarget(f)  \* stash and argument block

HeldWords(f, d) ==
    CASE f.kind \in {"pair", "out"} -> IF d < 1 THEN 0 ELSE 1
      [] f.kind = "call" -> IF d < NTarget(f) THEN 0
                            ELSE IF d <= NTarget(f) + NStk(f) THEN Fixed(f)
                            ELSE Fixed(f) + (d - NTarget(f) - NStk(f))
      [] OTHER -> 0

\* The word of the k-th operand, counted from the entry of f.
Place(f, k) ==
    IF f.kind # "call" \/ k <= NTarget(f) THEN 1
    ELSE IF k <= NTarget(f) + NStk(f) THEN Fixed(f) + 1 - (k - NTarget(f))
    ELSE Fixed(f) + (k - NTarget(f) - NStk(f))

\* s is the stack f has found, and above it what f keeps.
OnTopOf(f, words, s) ==
    /\ s \in Seq(Nat) /\ Len(s) = Len(f.entry) + words
    /\ \A i \in 1 .. Len(f.entry) : s[i] = f.entry[i]

Holds(f, d, s) ==
    /\ OnTopOf(f, HeldWords(f, d), s)
    /\ f.kind \in {"pair", "out", "call"} =>
         \A k \in 1 .. d : s[Len(f.entry) + Place(f, k)] = f.ops[k]

-----------------------------------------------------------------------------
\* A call that waits has dealt with all its operands but the last.
Waits(f, s) == Len(f.ops) >= 1 /\ Holds(f, Len(f.ops) - 1, s)

\* The calls under way, the first of which has found an empty stack; each
\* but the last waits for the next, and keeps what the next has found.
Chain(calls) ==
    /\ \A i \in 1 .. Len(calls) : Len(calls[i].ops) <= Arity(calls[i])
    /\ \A i \in 1 .. Len(calls) - 1 :
          /\ Waits(calls[i], calls[i + 1].entry)
          /\ calls[i + 1].id = calls[i].ops[Len(calls[i].ops)]
    /\ calls # <<>> => calls[1].entry = <<>>

Nested == Chain(work) /\ (work = <<>> => stack = <<>>)

\* The innermost call.
Evaluating ==
    mode = "eval" /\ work # <<>> =>
        /\ Holds(Top, Len(Top.ops), stack)
        /\ Top.kind # "call" => Len(Top.ops) < Arity(Top)

Delivered ==
    mode = "value" /\ work # <<>> =>
        /\ Waits(Top, stack)
        /\ regs["rax"] = Top.ops[Len(Top.ops)]

Ready ==
    mode = "ready" =>
        /\ work # <<>> /\ Gathered(Top) /\ Top.kind \in {"pair", "out", "call"}
        /\ OnTopOf(Top, IF Top.kind = "call" THEN Fixed(Top) ELSE 0, stack)

IInv == /\ TypeOK /\ Nested /\ Evaluating /\ Delivered /\ Ready
        /\ OperandsMeet /\ ArgumentsInPlace

-----------------------------------------------------------------------------
(* Counting words and operands. *)
LEMMA Counts ==
    ASSUME NEW f \in Calls
    PROVE  /\ Len(ARG_REGS) \in Nat /\ Len(f.ops) \in Nat /\ Len(f.entry) \in Nat
           /\ NReg(f) \in Nat /\ NReg(f) <= Len(ARG_REGS)
           /\ NStk(f) \in Nat /\ f.n = NReg(f) + NStk(f)
           /\ StackWords(f) \in Nat /\ NStk(f) <= StackWords(f)
           /\ NTarget(f) \in {0, 1} /\ (f.direct <=> NTarget(f) = 0)
           /\ Fixed(f) \in Nat /\ Fixed(f) = StackWords(f) + 2 * NTarget(f)
           /\ Arity(f) \in Nat
<1>1. Len(ARG_REGS) \in Nat /\ Len(f.ops) \in Nat /\ Len(f.entry) \in Nat
  BY RegsAssumption, LenProperties DEF Calls
<1>2. f.n \in Nat /\ f.direct \in BOOLEAN
  BY DEF Calls
<1>3. /\ NReg(f) \in Nat /\ NReg(f) <= Len(ARG_REGS)
      /\ NStk(f) \in Nat /\ f.n = NReg(f) + NStk(f)
  BY <1>1, <1>2 DEF NReg, NStk
<1>4. StackWords(f) \in Nat /\ NStk(f) <= StackWords(f)
  BY <1>3 DEF StackWords
<1>5. NTarget(f) \in {0, 1} /\ (f.direct <=> NTarget(f) = 0)
  BY <1>2 DEF NTarget
<1>6. Fixed(f) \in Nat /\ Fixed(f) = StackWords(f) + 2 * NTarget(f)
  BY <1>4, <1>5 DEF Fixed
<1>7. Arity(f) \in Nat
  BY <1>2, <1>5 DEF Arity
<1> QED BY <1>1, <1>3, <1>4, <1>5, <1>6, <1>7

\* What a call keeps of its operands lies in the words it holds.
LEMMA Places ==
    ASSUME NEW f \in Calls, NEW d \in Nat,
           f.kind \in {"pair", "out"} => d <= 1,
           f.kind \in {"pair", "out", "call"}
    PROVE  /\ HeldWords(f, d) \in Nat
           /\ \A k \in 1 .. d : Place(f, k) \in 1 .. HeldWords(f, d)
<1>1. CASE f.kind \in {"pair", "out"}
  <2>1. HeldWords(f, d) = IF d < 1 THEN 0 ELSE 1
    BY <1>1 DEF HeldWords
  <2>2. \A k \in 1 .. d : Place(f, k) = 1 /\ d = 1
    BY <1>1 DEF Place
  <2> QED BY <2>1, <2>2
<1>2. CASE f.kind = "call"
  <2> DEFINE t == NTarget(f)
             stk == NStk(f)
             fix == Fixed(f)
  <2>1. /\ t \in {0, 1} /\ stk \in Nat /\ fix \in Nat
        /\ stk + 2 * t <= fix
    BY Counts
  <2>2. HeldWords(f, d) = IF d < t THEN 0
                          ELSE IF d <= t + stk THEN fix
                          ELSE fix + (d - t - stk)
    BY <1>2 DEF HeldWords
  <2>3. \A k \in 1 .. d : Place(f, k) = IF k <= t THEN 1
                                        ELSE IF k <= t + stk THEN fix + 1 - (k - t)
                                        ELSE fix + (k - t - stk)
    BY <1>2 DEF Place
  <2> HIDE DEF t, stk, fix
  <2>4. HeldWords(f, d) \in Nat
    BY <2>1, <2>2
  <2>5. ASSUME NEW k \in 1 .. d PROVE Place(f, k) \in 1 .. HeldWords(f, d)
    <3>1. k \in Nat /\ 1 <= k /\ k <= d
      OBVIOUS
    <3>2. CASE k <= t
      BY <2>1, <2>2, <2>3, <3>1, <3>2
    <3>3. CASE k > t /\ k <= t + stk
      <4>1. Place(f, k) = fix + 1 - (k - t)
        BY <2>1, <2>3, <3>1, <3>3
      <4>2. HeldWords(f, d) \in Nat /\ HeldWords(f, d) >= fix
        BY <2>1, <2>2, <2>4, <3>1, <3>3
      <4> QED BY <2>1, <3>1, <3>3, <4>1, <4>2
    <3>4. CASE k > t + stk
      <4>1. Place(f, k) = fix + (k - t - stk)
        BY <2>1, <2>3, <3>1, <3>4
      <4>2. HeldWords(f, d) = fix + (d - t - stk)
        BY <2>1, <2>2, <3>1, <3>4
      <4> QED BY <2>1, <3>1, <3>4, <4>1, <4>2
    <3> QED BY <2>1, <3>1, <3>2, <3>3, <3>4
  <2> QED BY <2>4, <2>5
<1> QED BY <1>1, <1>2

\* No two operands in one word.
LEMMA PlacesDiffer ==
    ASSUME NEW f \in Calls, f.kind = "call",
           NEW k \in Nat, NEW l \in Nat, NTarget(f) < l, k # l, 1 <= k
    PROVE  Place(f, k) # Place(f, l)
<1> DEFINE t == NTarget(f)
           stk == NStk(f)
           fix == Fixed(f)
<1>1. /\ t \in {0, 1} /\ stk \in Nat /\ fix \in Nat
      /\ stk + 2 * t <= fix
  BY Counts
<1>2. Place(f, k) = IF k <= t THEN 1
                    ELSE IF k <= t + stk THEN fix + 1 - (k - t)
                    ELSE fix + (k - t - stk)
  BY DEF Place
<1>3. Place(f, l) = IF l <= t + stk THEN fix + 1 - (l - t)
                    ELSE fix + (l - t - stk)
  BY <1>1 DEF Place
<1>4. t < l
  OBVIOUS
<1> HIDE DEF t, stk, fix
<1>5. CASE k <= t
  BY <1>1, <1>2, <1>3, <1>4, <1>5
<1>6. CASE k > t
  BY <1>1, <1>2, <1>3, <1>4, <1>6
<1> QED BY <1>1, <1>5, <1>6

-----------------------------------------------------------------------------
(* Sequences of words. *)
LEMMA NothingOnTop ==
    ASSUME NEW f \in Calls, NEW s, OnTopOf(f, 0, s)
    PROVE  s = f.entry
<1>1. f.entry \in Seq(Nat) /\ Len(f.entry) \in Nat
  BY Counts DEF Calls
<1>2. /\ s \in Seq(Nat) /\ Len(s) = Len(f.entry)
      /\ \A i \in 1 .. Len(s) : s[i] = f.entry[i]
  BY <1>1 DEF OnTopOf
<1> QED BY <1>1, <1>2, SeqEqual

LEMMA Popping ==
    ASSUME NEW s \in Seq(Nat), NEW k \in Nat, k <= Len(s)
    PROVE  /\ SubSeq(s, 1, Len(s) - k) \in Seq(Nat)
           /\ Len(SubSeq(s, 1, Len(s) - k)) = Len(s) - k
           /\ \A i \in 1 .. Len(s) - k : SubSeq(s, 1, Len(s) - k)[i] = s[i]
<1>1. Len(s) \in Nat /\ \A i \in 1 .. Len(s) : s[i] \in Nat
  BY LenProperties, ElementOfSeq
<1>2. \A i \in 1 .. Len(s) - k : s[i] \in Nat
  BY <1>1
<1> DEFINE n == Len(s) - k
<1>3. n \in Nat
  BY <1>1
<1> HIDE DEF n
<1>4. /\ SubSeq(s, 1, n) \in Seq(Nat)
      /\ Len(SubSeq(s, 1, n)) = IF 1 <= n THEN n - 1 + 1 ELSE 0
      /\ \A i \in 1 .. n - 1 + 1 : SubSeq(s, 1, n)[i] = s[1 + i - 1]
  BY <1>2, <1>3, SubSeqProperties DEF n
<1> QED BY <1>3, <1>4 DEF n

\* A word more on the stack.
LEMMA Pushing ==
    ASSUME NEW s \in Seq(Nat), NEW w \in Nat
    PROVE  /\ Append(s, w) \in Seq(Nat)
           /\ Len(Append(s, w)) = Len(s) + 1
           /\ \A i \in 1 .. Len(s) : Append(s, w)[i] = s[i]
           /\ Append(s, w)[Len(s) + 1] = w
BY AppendProperties

-----------------------------------------------------------------------------
(* The last of the calls under way. *)
LEMMA LastCall ==
    ASSUME TypeOK, work # <<>>
    PROVE  /\ Len(work) \in Nat \ {0} /\ Top \in Calls
           /\ DOMAIN work = 1 .. Len(work)
           /\ Front(work) \in Seq(Calls) /\ Len(Front(work)) = Len(work) - 1
           /\ \A i \in 1 .. Len(work) - 1 : Front(work)[i] = work[i] /\ work[i] \in Calls
           /\ (Front(work) = <<>> <=> Len(work) = 1)
<1>1. work \in Seq(Calls)
  BY DEF TypeOK
<1>2. Len(work) \in Nat \ {0} /\ DOMAIN work = 1 .. Len(work)
  BY <1>1, EmptySeq, LenProperties
<1>3. \A i \in 1 .. Len(work) : work[i] \in Calls
  BY <1>1, ElementOfSeq
<1>4. Front(work) = SubSeq(work, 1, Len(work) - 1)
  BY DEF Front
<1> DEFINE n == Len(work) - 1
<1>5. n \in Nat /\ \A i \in 1 .. n : work[i] \in Calls
  BY <1>2, <1>3
<1> HIDE DEF n
<1>6. /\ SubSeq(work, 1, n) \in Seq(Calls)
      /\ Len(SubSeq(work, 1, n)) = IF 1 <= n THEN n - 1 + 1 ELSE 0
      /\ \A i \in 1 .. n - 1 + 1 : SubSeq(work, 1, n)[i] = work[1 + i - 1]
  BY <1>5, SubSeqProperties
<1>7. /\ SubSeq(work, 1, n) \in Seq(Calls) /\ Len(SubSeq(work, 1, n)) = n
      /\ \A i \in 1 .. n : SubSeq(work, 1, n)[i] = work[i]
  BY <1>5, <1>6
<1>8. SubSeq(work, 1, n) = <<>> <=> n = 0
  BY <1>5, <1>7, EmptySeq
<1>9. Top \in Calls
  BY <1>2, <1>3 DEF Top
<1> QED BY <1>2, <1>4, <1>5, <1>7, <1>8, <1>9 DEF n

\* The next operand is asked for: f waits for it, keeping what it has.
Asking(f, id) == [f EXCEPT !.ops = Append(f.ops, id)]

LEMMA Asks ==
    ASSUME NEW f \in Calls, NEW id \in Nat
    PROVE  /\ Asking(f, id) \in Calls
           /\ Len(Asking(f, id).ops) = Len(f.ops) + 1
           /\ Asking(f, id).ops[Len(Asking(f, id).ops)] = id
           /\ Arity(Asking(f, id)) = Arity(f)
           /\ Asking(f, id).entry = f.entry /\ Asking(f, id).id = f.id
           /\ \A s : Holds(f, Len(f.ops), s) => Waits(Asking(f, id), s)
<1> DEFINE g == Asking(f, id)
<1>1. f.ops \in Seq(Nat) /\ Len(f.ops) \in Nat
  BY Counts DEF Calls
<1>2. /\ g.ops = Append(f.ops, id) /\ g.entry = f.entry /\ g.id = f.id
      /\ g.kind = f.kind /\ g.direct = f.direct /\ g.n = f.n
      /\ g = [f EXCEPT !.ops = Append(f.ops, id)]
  BY DEF Calls, Asking
<1> HIDE DEF g
<1>3. /\ g.ops \in Seq(Nat) /\ Len(g.ops) = Len(f.ops) + 1
      /\ \A k \in 1 .. Len(f.ops) : g.ops[k] = f.ops[k]
      /\ g.ops[Len(g.ops)] = id
  BY <1>1, <1>2, Pushing
<1>4. g \in Calls
  BY <1>2, <1>3 DEF Calls
<1>5. /\ NReg(g) = NReg(f) /\ NStk(g) = NStk(f) /\ NTarget(g) = NTarget(f)
      /\ StackWords(g) = StackWords(f)
  BY <1>2 DEF NReg, NStk, NTarget, StackWords
<1>6. Arity(g) = Arity(f) /\ Fixed(g) = Fixed(f)
  BY <1>2, <1>5 DEF Arity, Fixed
<1>7. \A d \in Nat : HeldWords(g, d) = HeldWords(f, d) /\ Place(g, d) = Place(f, d)
  BY <1>2, <1>5, <1>6 DEF HeldWords, Place
<1>8. Len(g.ops) - 1 = Len(f.ops) /\ Len(g.ops) >= 1
  BY <1>1, <1>3
<1>9. ASSUME NEW s, Holds(f, Len(f.ops), s) PROVE Waits(g, s)
  <2>1. OnTopOf(g, HeldWords(g, Len(f.ops)), s)
    BY <1>1, <1>2, <1>7, <1>9 DEF Holds, OnTopOf
  <2>2. ASSUME g.kind \in {"pair", "out", "call"}, NEW k \in 1 .. Len(f.ops)
        PROVE  s[Len(g.entry) + Place(g, k)] = g.ops[k]
    <3>1. k \in Nat
      OBVIOUS
    <3>2. s[Len(f.entry) + Place(f, k)] = f.ops[k]
      BY <1>2, <1>9, <2>2 DEF Holds
    <3> QED BY <1>2, <1>3, <1>7, <3>1, <3>2
  <2> QED BY <1>8, <2>1, <2>2 DEF Waits, Holds
<1> QED BY <1>2, <1>3, <1>4, <1>6, <1>9 DEF g

-----------------------------------------------------------------------------
LEMMA Registers == {"rax", "rcx", "rdx", "r11"} \subseteq Regs /\ Range(ARG_REGS) \subseteq Regs
BY DEF Regs

LEMMA ValueInRax ==
    ASSUME NEW r \in [Regs -> Nat], NEW id \in Nat, Evaluated(id, r)
    PROVE  regs' \in [Regs -> Nat] /\ regs'["rax"] = id /\ mode' = "value"
<1>1. /\ regs' = [r EXCEPT !["rax"] = id, !["rcx"] = 0, !["rdx"] = 0]
      /\ mode' = "value"
  BY DEF Evaluated, Junk
<1>2. regs' \in [Regs -> Nat]
  BY <1>1
<1>3. regs'["rax"] = id
  BY <1>1, Registers
<1> QED BY <1>1, <1>2, <1>3

(* An expression is met. *)
LEMMA Met ==
    ASSUME IInv, Wants
    PROVE  /\ AsOperand \in Seq(Calls) /\ Len(AsOperand) = Len(work)
           /\ Chain(AsOperand)
           /\ work = <<>> => AsOperand = <<>>
           /\ work # <<>> => /\ AsOperand[Len(work)] \in Calls
                             /\ Waits(AsOperand[Len(work)], stack)
                             /\ AsOperand[Len(work)].ops[Len(AsOperand[Len(work)].ops)] = exprs + 1
<1>1. CASE work = <<>>
  BY <1>1, EmptySeq DEF AsOperand, Chain
<1>2. CASE work # <<>>
  <2>1. /\ Len(work) \in Nat \ {0} /\ Top \in Calls /\ work \in Seq(Calls)
        /\ Top = work[Len(work)]
    BY <1>2, LastCall DEF IInv, TypeOK, Top
  <2> DEFINE g == Asking(Top, exprs + 1)
             s == AsOperand
             n == Len(work)
  <2>2. s = [work EXCEPT ![n] = g]
    BY <1>2, <2>1, LastCall DEF AsOperand, Top, Asking, IInv
  <2>3. Holds(Top, Len(Top.ops), stack) /\ exprs + 1 \in Nat
    BY <1>2 DEF IInv, Evaluating, Wants, TypeOK
  <2>4. /\ g \in Calls /\ Waits(g, stack)
        /\ Len(g.ops) = Len(Top.ops) + 1 /\ g.ops[Len(g.ops)] = exprs + 1
        /\ Arity(g) = Arity(Top) /\ g.entry = Top.entry /\ g.id = Top.id
    BY <2>1, <2>3, Asks
  <2>5. /\ Chain(work) /\ n \in 1 .. n
        /\ Len(Top.ops) \in Nat /\ Arity(Top) \in Nat
        /\ Len(Top.ops) # Arity(Top)
    BY <1>2, <2>1, Counts DEF IInv, Nested, Wants, Gathered
  <2> HIDE DEF g, s, n
  <2>6. Len(g.ops) <= Arity(g)
    <3>1. Len(Top.ops) <= Arity(Top)
      BY <2>1, <2>5 DEF Chain, n
    <3> QED BY <2>4, <2>5, <3>1
  <2>7. /\ s \in Seq(Calls) /\ Len(s) = n
        /\ \A i \in 1 .. n : s[i] = IF i = n THEN g ELSE work[i]
    BY <2>1, <2>2, <2>4, <2>5, ExceptSeq DEF n
  <2>8. s[n] = g /\ n \in Nat /\ n >= 1 /\ work[n] = Top
    BY <2>1, <2>5, <2>7 DEF n
  <2>9. \A i \in 1 .. n : s[i].entry = work[i].entry /\ s[i].id = work[i].id
    BY <2>4, <2>7, <2>8
  <2>10. \A i \in 1 .. n - 1 : s[i] = work[i] /\ i \in 1 .. n /\ i + 1 \in 1 .. n
    BY <2>7, <2>8
  <2>11. \A i \in 1 .. Len(s) : Len(s[i].ops) <= Arity(s[i])
    BY <2>5, <2>6, <2>7 DEF Chain, n
  <2>12. \A i \in 1 .. Len(s) - 1 : /\ Waits(s[i], s[i + 1].entry)
                                   /\ s[i + 1].id = s[i].ops[Len(s[i].ops)]
    BY <2>5, <2>7, <2>9, <2>10 DEF Chain, n
  <2>13. s[1].entry = <<>>
    BY <1>2, <2>5, <2>8, <2>9 DEF Chain
  <2>14. Chain(s)
    BY <2>11, <2>12, <2>13 DEF Chain
  <2> QED BY <1>2, <2>4, <2>7, <2>8, <2>14 DEF s, n
<1> QED BY <1>1, <1>2

LEMMA LeafStep == IInv /\ Wants /\ Leaf => IInv'
<1> SUFFICES ASSUME IInv, Wants, Leaf PROVE IInv'
  OBVIOUS
<1>1. /\ work' = AsOperand /\ stack' = stack /\ mode' = "value" /\ exprs' = exprs + 1
      /\ Evaluated(exprs + 1, regs)
  BY DEF Leaf, Meet, Evaluated
<1>2. /\ work \in Seq(Calls) /\ stack \in Seq(Nat) /\ regs \in [Regs -> Nat] /\ exprs \in Nat
      /\ Len(work) \in Nat
  BY LenProperties DEF IInv, TypeOK
<1>3. regs' \in [Regs -> Nat] /\ regs'["rax"] = exprs + 1
  BY <1>1, <1>2, ValueInRax
<1>4. TypeOK'
  BY <1>1, <1>2, <1>3, Met DEF TypeOK
<1>5. Nested'
  BY <1>1, <1>2, Met, EmptySeq DEF IInv, Nested
<1>6. Delivered'
  BY <1>1, <1>2, <1>3, Met, EmptySeq DEF Delivered, Top
<1> QED BY <1>1, <1>4, <1>5, <1>6
        DEF IInv, Evaluating, Ready, OperandsMeet, ArgumentsInPlace

\* The words a direct call reserves for the arguments that travel on the stack.
LEMMA Reserving ==
    ASSUME NEW s \in Seq(Nat), NEW n \in Nat
    PROVE  /\ s \o Junks(n) \in Seq(Nat) /\ Len(s \o Junks(n)) = Len(s) + n
           /\ \A i \in 1 .. Len(s) : (s \o Junks(n))[i] = s[i]
<1>1. Junks(n) \in Seq(Nat) /\ Len(Junks(n)) = n
  <2>1. Junks(n) \in [1 .. n -> Nat]
    BY DEF Junks, Junk
  <2> QED BY <2>1
<1>2. Len(s) \in Nat
  BY LenProperties
<1> DEFINE t == s \o Junks(n)
<1>3. /\ t \in Seq(Nat) /\ Len(t) = Len(s) + Len(Junks(n))
      /\ \A i \in 1 .. Len(s) + Len(Junks(n)) :
            t[i] = IF i <= Len(s) THEN s[i] ELSE Junks(n)[i - Len(s)]
  BY <1>1, ConcatProperties
<1> HIDE DEF t
<1>4. \A i \in 1 .. Len(s) : i \in 1 .. Len(s) + Len(Junks(n)) /\ i <= Len(s)
  BY <1>1, <1>2
<1>5. t \in Seq(Nat) /\ Len(t) = Len(s) + n /\ \A i \in 1 .. Len(s) : t[i] = s[i]
  BY <1>1, <1>3, <1>4
<1> QED BY <1>5 DEF t

LEMMA OpenStep ==
    ASSUME IInv, Wants, NEW kind \in Kinds, NEW direct \in BOOLEAN, NEW n \in Nat,
           Open(kind, direct, n)
    PROVE  IInv'
<1> DEFINE f == [id |-> exprs + 1, kind |-> kind, direct |-> direct, n |-> n,
                 ops |-> <<>>, entry |-> stack]
           w == AsOperand
<1>1. /\ work' = Append(w, f) /\ exprs' = exprs + 1 /\ mode' = "eval" /\ regs' = regs
      /\ stack' = IF kind = "call" /\ direct THEN stack \o Junks(StackWords(f)) ELSE stack
  BY DEF Open, Meet, Wants
<1>2. /\ work \in Seq(Calls) /\ stack \in Seq(Nat) /\ regs \in [Regs -> Nat] /\ exprs \in Nat
      /\ Len(work) \in Nat /\ Len(stack) \in Nat
  BY LenProperties DEF IInv, TypeOK
<1>3. /\ f \in Calls /\ f.ops = <<>> /\ Len(f.ops) = 0 /\ f.entry = stack /\ f.id = exprs + 1
      /\ f.kind = kind /\ f.direct = direct
  BY <1>2, EmptySeq DEF Calls
<1>4. w \in Seq(Calls) /\ Len(w) = Len(work) /\ Chain(w)
  BY Met
<1>5. /\ work = <<>> => w = <<>>
      /\ work # <<>> => /\ Waits(w[Len(work)], stack)
                        /\ w[Len(work)].ops[Len(w[Len(work)].ops)] = exprs + 1
  BY Met
<1> HIDE DEF f, w
<1>6. /\ work' \in Seq(Calls) /\ Len(work') = Len(w) + 1 /\ work' # <<>>
      /\ \A i \in 1 .. Len(w) : work'[i] = w[i]
      /\ work'[Len(w) + 1] = f
  BY <1>1, <1>3, <1>4, AppendProperties
<1>7. /\ StackWords(f) \in Nat /\ Arity(f) \in Nat /\ NStk(f) \in Nat
      /\ Fixed(f) = StackWords(f) + 2 * NTarget(f)
      /\ NTarget(f) \in {0, 1} /\ (f.direct <=> NTarget(f) = 0)
  BY <1>3, Counts
<1>8. HeldWords(f, 0) = IF kind = "call" /\ direct THEN StackWords(f) ELSE 0
  BY <1>3, <1>7 DEF HeldWords, Kinds
<1>9. OnTopOf(f, HeldWords(f, 0), stack')
  <2>1. CASE kind = "call" /\ direct
    <3> DEFINE k == StackWords(f)
    <3>1. k \in Nat /\ stack' = stack \o Junks(k) /\ HeldWords(f, 0) = k
      BY <1>1, <1>7, <1>8, <2>1
    <3> HIDE DEF k
    <3>2. /\ stack' \in Seq(Nat) /\ Len(stack') = Len(stack) + k
          /\ \A i \in 1 .. Len(stack) : stack'[i] = stack[i]
      BY <1>2, <3>1, Reserving
    <3> QED BY <1>3, <3>1, <3>2 DEF OnTopOf
  <2>2. CASE ~(kind = "call" /\ direct)
    BY <1>1, <1>2, <1>3, <1>8, <2>2 DEF OnTopOf
  <2> QED BY <2>1, <2>2
<1>10. Holds(f, 0, stack') /\ stack' \in Seq(Nat)
  BY <1>9 DEF Holds, OnTopOf
<1>11. TypeOK'
  BY <1>1, <1>2, <1>6, <1>10 DEF TypeOK
<1>12. Nested'
  <2>1. \A i \in 1 .. Len(work') : Len(work'[i].ops) <= Arity(work'[i])
    <3> TAKE i \in 1 .. Len(work')
    <3>1. CASE i = Len(w) + 1
      BY <1>3, <1>6, <1>7, <3>1
    <3>2. CASE i # Len(w) + 1
      <4>1. i \in 1 .. Len(w) /\ work'[i] = w[i]
        BY <1>2, <1>4, <1>6, <3>2
      <4> QED BY <1>4, <4>1 DEF Chain
    <3> QED BY <3>1, <3>2
  <2>2. ASSUME NEW i \in 1 .. Len(work') - 1
        PROVE  /\ Waits(work'[i], work'[i + 1].entry)
               /\ work'[i + 1].id = work'[i].ops[Len(work'[i].ops)]
    <3>1. i \in 1 .. Len(w) /\ work'[i] = w[i]
      BY <1>2, <1>4, <1>6
    <3>2. CASE i = Len(w)
      <4>1. work # <<>> /\ work'[i + 1] = f /\ w[Len(work)] = work'[i]
        BY <1>2, <1>4, <1>6, <3>1, <3>2, EmptySeq
      <4> QED BY <1>3, <1>5, <4>1
    <3>3. CASE i # Len(w)
      <4>1. i \in 1 .. Len(w) - 1 /\ i + 1 \in 1 .. Len(w)
        BY <1>2, <1>4, <3>1, <3>3
      <4>2. work'[i + 1] = w[i + 1]
        BY <1>6, <4>1
      <4> QED BY <1>4, <3>1, <4>1, <4>2 DEF Chain
    <3> QED BY <3>2, <3>3
  <2>3. work'[1].entry = <<>>
    <3>1. CASE work = <<>>
      <4>1. Len(w) = 0 /\ stack = <<>>
        BY <1>5, <3>1, EmptySeq DEF IInv, Nested
      <4> QED BY <1>3, <1>6, <4>1
    <3>2. CASE work # <<>>
      <4>1. 1 \in 1 .. Len(w) /\ w # <<>>
        BY <1>2, <1>4, <3>2, EmptySeq
      <4> QED BY <1>4, <1>6, <4>1 DEF Chain
    <3> QED BY <3>1, <3>2
  <2> QED BY <1>6, <2>1, <2>2, <2>3 DEF Nested, Chain
<1>13. Top' = f
  BY <1>6 DEF Top
<1>14. Evaluating'
  <2>1. f.kind # "call" => 0 < Arity(f)
    BY <1>3 DEF Arity
  <2> QED BY <1>3, <1>10, <1>13, <2>1 DEF Evaluating
<1> QED BY <1>1, <1>11, <1>12, <1>14
        DEF IInv, Delivered, Ready, OperandsMeet, ArgumentsInPlace

-----------------------------------------------------------------------------
(* The innermost call returns, with the stack it has found. *)
LEMMA Returned ==
    ASSUME IInv, work # <<>>, work' = Front(work), stack' = Top.entry, exprs' = exprs,
           mode' = "value", regs' \in [Regs -> Nat], regs'["rax"] = Top.id
    PROVE  IInv'
<1> DEFINE n == Len(work)
<1>1. /\ n \in Nat \ {0} /\ Top \in Calls /\ Top = work[n]
      /\ work' \in Seq(Calls) /\ Len(work') = n - 1
      /\ \A i \in 1 .. n - 1 : work'[i] = work[i]
      /\ (work' = <<>> <=> n = 1)
  BY LastCall DEF IInv, Top
<1>2. /\ \A i \in 1 .. n : Len(work[i].ops) <= Arity(work[i])
      /\ \A i \in 1 .. n - 1 : /\ Waits(work[i], work[i + 1].entry)
                              /\ work[i + 1].id = work[i].ops[Len(work[i].ops)]
      /\ work[1].entry = <<>>
  BY DEF IInv, Nested, Chain
<1> HIDE DEF n
<1>3. TypeOK'
  BY <1>1 DEF TypeOK, Calls, IInv
<1>4. \A i \in 1 .. Len(work') : Len(work'[i].ops) <= Arity(work'[i])
  <2> TAKE i \in 1 .. Len(work')
  <2>1. i \in 1 .. n - 1 /\ i \in 1 .. n
    BY <1>1
  <2> QED BY <1>1, <1>2, <2>1
<1>5. ASSUME NEW i \in 1 .. Len(work') - 1
      PROVE  /\ Waits(work'[i], work'[i + 1].entry)
             /\ work'[i + 1].id = work'[i].ops[Len(work'[i].ops)]
  <2>1. i \in 1 .. n - 1 /\ i + 1 \in 1 .. n - 1
    BY <1>1
  <2> QED BY <1>1, <1>2, <2>1
<1>6. work' # <<>> => work'[1].entry = <<>>
  <2>1. n # 1 => 1 \in 1 .. n - 1
    BY <1>1
  <2> QED BY <1>1, <1>2, <2>1
<1>7. Nested'
  BY <1>1, <1>2, <1>4, <1>5, <1>6 DEF Nested, Chain
<1>8. Delivered'
  <2>1. CASE n = 1
    BY <1>1, <2>1 DEF Delivered
  <2>2. CASE n # 1
    <3>1. n - 1 \in 1 .. n - 1 /\ n - 1 + 1 = n
      BY <1>1, <2>2
    <3>2. Top' = work[n - 1]
      BY <1>1, <3>1 DEF Top
    <3>3. Waits(work[n - 1], work[n].entry) /\ work[n].id = work[n - 1].ops[Len(work[n - 1].ops)]
      BY <1>2, <3>1
    <3> QED BY <1>1, <3>2, <3>3 DEF Delivered
  <2> QED BY <2>1, <2>2
<1> QED BY <1>3, <1>7, <1>8 DEF IInv, Evaluating, Ready, OperandsMeet, ArgumentsInPlace

\* A step that only moves words.
LEMMA CallsStay ==
    ASSUME IInv, work # <<>>, UNCHANGED <<work, exprs>>,
           stack' \in Seq(Nat), regs' \in [Regs -> Nat], mode' \in {"eval", "ready"}
    PROVE  TypeOK' /\ Nested' /\ Delivered' /\ work' # <<>> /\ Top' = Top
BY DEF IInv, TypeOK, Nested, Delivered, Top

\* What is known when an operand has been evaluated.
LEMMA Given ==
    ASSUME IInv, NEW kind, NEW k, Operand(kind, k)
    PROVE  /\ mode = "value" /\ work # <<>> /\ exprs' = exprs
           /\ Top \in Calls /\ Top.kind = kind /\ Len(Top.ops) = k
           /\ Holds(Top, k - 1, stack) /\ k >= 1 /\ k <= Arity(Top) /\ k \in Nat
           /\ regs["rax"] = Top.ops[k] /\ regs["rax"] \in Nat /\ Top.ops[k] \in Nat
           /\ stack \in Seq(Nat) /\ Len(stack) \in Nat /\ regs \in [Regs -> Nat]
<1>1. /\ mode = "value" /\ work # <<>> /\ exprs' = exprs
      /\ Top.kind = kind /\ Len(Top.ops) = k
  BY DEF Operand
<1>2. Top \in Calls /\ Len(work) \in 1 .. Len(work) /\ Top = work[Len(work)]
  BY <1>1, LastCall DEF IInv, Top
<1>3. Waits(Top, stack) /\ regs["rax"] = Top.ops[k]
  BY <1>1 DEF IInv, Delivered
<1>4. k <= Arity(Top) /\ k \in Nat
  BY <1>1, <1>2, Counts DEF IInv, Nested, Chain
<1>5. /\ stack \in Seq(Nat) /\ Len(stack) \in Nat
      /\ regs \in [Regs -> Nat] /\ regs["rax"] \in Nat
  BY LenProperties, Registers DEF IInv, TypeOK
<1> QED BY <1>1, <1>2, <1>3, <1>4, <1>5 DEF Waits

-----------------------------------------------------------------------------
(* Operators, stores and conditional expressions. *)
LEMMA UnaryStep == IInv /\ (Unary \/ EndTernary) => IInv' /\ stack' = Top.entry
<1> SUFFICES ASSUME IInv, NEW kind \in {"unary", "ternary"}, NEW k, Operand(kind, k),
                    Result, UNCHANGED stack
             PROVE  IInv' /\ stack' = Top.entry
  BY DEF Unary, EndTernary
<1>1. /\ mode = "value" /\ work # <<>> /\ exprs' = exprs /\ Top \in Calls /\ Top.kind = kind
      /\ Holds(Top, k - 1, stack) /\ regs \in [Regs -> Nat]
  BY Given
<1>2. OnTopOf(Top, 0, stack)
  BY <1>1 DEF Holds, HeldWords
<1>3. stack = Top.entry
  BY <1>1, <1>2, NothingOnTop
<1>4. Evaluated(Top.id, regs) /\ work' = Front(work) /\ Top.id \in Nat
  BY <1>1 DEF Result, Calls
<1>5. regs' \in [Regs -> Nat] /\ regs'["rax"] = Top.id /\ mode' = "value"
  BY <1>1, <1>4, ValueInRax
<1> QED BY <1>1, <1>3, <1>4, <1>5, Returned

LEMMA TestTernaryStep == IInv /\ TestTernary => IInv'
<1> SUFFICES ASSUME IInv, TestTernary PROVE IInv'
  OBVIOUS
<1>1. Operand("ternary", 1) /\ mode' = "eval" /\ UNCHANGED <<work, stack, regs>>
  BY DEF TestTernary
<1>2. /\ work # <<>> /\ exprs' = exprs /\ Top.kind = "ternary" /\ Len(Top.ops) = 1
      /\ Holds(Top, 1 - 1, stack) /\ stack \in Seq(Nat) /\ regs \in [Regs -> Nat]
  BY <1>1, Given
<1>3. Holds(Top, 1, stack)
  BY <1>2 DEF Holds, HeldWords
<1>4. TypeOK' /\ Nested' /\ Delivered' /\ work' # <<>> /\ Top' = Top
  BY <1>1, <1>2, CallsStay
<1>5. Len(Top.ops) < Arity(Top)
  BY <1>2 DEF Arity
<1>6. Evaluating'
  BY <1>1, <1>2, <1>3, <1>4, <1>5 DEF Evaluating
<1> QED BY <1>1, <1>4, <1>6 DEF IInv, Ready, OperandsMeet, ArgumentsInPlace

LEMMA PushFirstStep ==
    ASSUME IInv, NEW kind \in {"pair", "out"}, PushFirst(kind)
    PROVE  IInv'
<1>1. /\ Operand(kind, 1) /\ mode' = "eval" /\ UNCHANGED <<work, regs>>
      /\ stack' = Append(stack, regs["rax"])
  BY DEF PushFirst
<1>2. /\ work # <<>> /\ exprs' = exprs /\ Top \in Calls /\ Top.kind = kind /\ Len(Top.ops) = 1
      /\ Holds(Top, 1 - 1, stack) /\ stack \in Seq(Nat) /\ regs \in [Regs -> Nat]
      /\ regs["rax"] = Top.ops[1] /\ regs["rax"] \in Nat /\ Len(stack) \in Nat
  BY <1>1, Given
<1>3. /\ stack' \in Seq(Nat) /\ Len(stack') = Len(stack) + 1
      /\ \A i \in 1 .. Len(stack) : stack'[i] = stack[i]
      /\ stack'[Len(stack) + 1] = Top.ops[1]
  BY <1>1, <1>2, Pushing
<1>4. Len(stack) = Len(Top.entry) /\ \A i \in 1 .. Len(Top.entry) : stack[i] = Top.entry[i]
  BY <1>2 DEF Holds, OnTopOf, HeldWords
<1>5. HeldWords(Top, 1) = 1 /\ \A k \in 1 .. 1 : k = 1 /\ Place(Top, k) = 1
  BY <1>2 DEF HeldWords, Place
<1>6. OnTopOf(Top, HeldWords(Top, 1), stack')
  BY <1>3, <1>4, <1>5 DEF OnTopOf
<1>7. Holds(Top, 1, stack')
  BY <1>3, <1>4, <1>5, <1>6 DEF Holds
<1>8. TypeOK' /\ Nested' /\ Delivered' /\ work' # <<>> /\ Top' = Top
  BY <1>1, <1>2, <1>3, CallsStay
<1>9. Len(Top.ops) < Arity(Top)
  BY <1>2 DEF Arity
<1>10. Evaluating'
  BY <1>1, <1>2, <1>7, <1>8, <1>9 DEF Evaluating
<1> QED BY <1>1, <1>8, <1>10 DEF IInv, Ready, OperandsMeet, ArgumentsInPlace

\* The second operand is there: the first is the word on top, and below it
\* is what the call has found.
LEMMA Meeting ==
    ASSUME IInv, NEW kind \in {"pair", "out"}, Operand(kind, 2)
    PROVE  /\ FromTop(0) = Top.ops[1] /\ FromTop(0) \in Nat
           /\ Pop(1) \in Seq(Nat) /\ OnTopOf(Top, 0, Pop(1))
           /\ Gathered(Top)
<1>1. /\ Top \in Calls /\ Top.kind = kind /\ Len(Top.ops) = 2
      /\ Holds(Top, 2 - 1, stack) /\ stack \in Seq(Nat) /\ Len(stack) \in Nat
  BY Given
<1>2. HeldWords(Top, 1) = 1 /\ Place(Top, 1) = 1 /\ Gathered(Top)
  BY <1>1 DEF HeldWords, Place, Gathered, Arity
<1>3. Len(Top.entry) \in Nat
  BY <1>1, Counts
<1>4. /\ Len(stack) = Len(Top.entry) + 1
      /\ \A i \in 1 .. Len(Top.entry) : stack[i] = Top.entry[i]
      /\ stack[Len(Top.entry) + 1] = Top.ops[1]
  BY <1>1, <1>2 DEF Holds, OnTopOf
<1>5. stack[Len(stack)] \in Nat
  BY <1>1, <1>3, <1>4, ElementOfSeq
<1>6. /\ Pop(1) \in Seq(Nat) /\ Len(Pop(1)) = Len(stack) - 1
      /\ \A i \in 1 .. Len(stack) - 1 : Pop(1)[i] = stack[i]
  BY <1>1, <1>3, <1>4, Popping DEF Pop
<1>7. OnTopOf(Top, 0, Pop(1))
  BY <1>3, <1>4, <1>6 DEF OnTopOf
<1>8. FromTop(0) = stack[Len(stack)]
  BY <1>1 DEF FromTop
<1> QED BY <1>2, <1>3, <1>4, <1>5, <1>6, <1>7, <1>8

LEMMA MeetStep == IInv /\ (PopFirst \/ PopOut) => IInv'
<1> SUFFICES ASSUME IInv, PopFirst \/ PopOut PROVE IInv'
  OBVIOUS
<1>1. PICK kind \in {"pair", "out"} :
        /\ Operand(kind, 2) /\ stack' = Pop(1) /\ mode' = "ready" /\ UNCHANGED work
        /\ regs' = IF kind = "pair" THEN [regs EXCEPT !["rcx"] = FromTop(0)]
                   ELSE [regs EXCEPT !["rdx"] = regs["rax"], !["rax"] = FromTop(0)]
  BY DEF PopFirst, PopOut
<1>2. /\ work # <<>> /\ exprs' = exprs /\ Top \in Calls /\ Top.kind = kind
      /\ regs \in [Regs -> Nat] /\ regs["rax"] = Top.ops[2] /\ regs["rax"] \in Nat
  BY <1>1, Given
<1>3. /\ FromTop(0) = Top.ops[1] /\ FromTop(0) \in Nat
      /\ Pop(1) \in Seq(Nat) /\ OnTopOf(Top, 0, Pop(1)) /\ Gathered(Top)
  BY <1>1, Meeting
<1>4. /\ regs' \in [Regs -> Nat]
      /\ kind = "pair" => regs'["rcx"] = Top.ops[1] /\ regs'["rax"] = Top.ops[2]
      /\ kind = "out" => regs'["rax"] = Top.ops[1] /\ regs'["rdx"] = Top.ops[2]
  BY <1>1, <1>2, <1>3, Registers
<1>5. TypeOK' /\ Nested' /\ Delivered' /\ work' # <<>> /\ Top' = Top
  BY <1>1, <1>2, <1>3, <1>4, CallsStay
<1>6. Ready'
  BY <1>1, <1>2, <1>3, <1>5 DEF Ready, Gathered
<1>7. OperandsMeet' /\ ArgumentsInPlace'
  BY <1>1, <1>2, <1>4, <1>5 DEF OperandsMeet, ArgumentsInPlace
<1> QED BY <1>1, <1>5, <1>6, <1>7 DEF IInv, Evaluating

LEMMA CombineStep == IInv /\ Combine => IInv' /\ stack' = Top.entry
<1> SUFFICES ASSUME IInv, Combine PROVE IInv' /\ stack' = Top.entry
  OBVIOUS
<1>1. /\ mode = "ready" /\ Top.kind \in {"pair", "out"} /\ Evaluated(Top.id, regs)
      /\ work' = Front(work) /\ UNCHANGED <<stack, exprs>>
  BY DEF Combine, Result
<1>2. /\ work # <<>> /\ OnTopOf(Top, 0, stack) /\ Top \in Calls /\ regs \in [Regs -> Nat]
  BY <1>1, LastCall DEF IInv, Ready, TypeOK
<1>3. stack = Top.entry
  BY <1>2, NothingOnTop
<1>4. regs' \in [Regs -> Nat] /\ regs'["rax"] = Top.id /\ mode' = "value"
  BY <1>1, <1>2, ValueInRax DEF Calls
<1> QED BY <1>1, <1>2, <1>3, <1>4, Returned

-----------------------------------------------------------------------------
(* Calls. *)

\* The dealt operands of a call, spelled out.
LEMMA CallWords ==
    ASSUME NEW f \in Calls, f.kind = "call", NEW d \in Nat, NTarget(f) <= d
    PROVE  /\ d <= NTarget(f) + NStk(f) => HeldWords(f, d) = Fixed(f)
           /\ NTarget(f) + NStk(f) <= d =>
                HeldWords(f, d) = Fixed(f) + (d - NTarget(f) - NStk(f))
           /\ HeldWords(f, d) \in Nat /\ HeldWords(f, d) >= Fixed(f)
<1> DEFINE t == NTarget(f)
           stk == NStk(f)
           fix == Fixed(f)
<1>1. t \in {0, 1} /\ stk \in Nat /\ fix \in Nat
  BY Counts
<1>2. HeldWords(f, d) = IF d < t THEN 0
                        ELSE IF d <= t + stk THEN fix
                        ELSE fix + (d - t - stk)
  BY DEF HeldWords
<1>3. t <= d
  OBVIOUS
<1> HIDE DEF t, stk, fix
<1>4. /\ d <= t + stk => HeldWords(f, d) = fix
      /\ t + stk <= d => HeldWords(f, d) = fix + (d - t - stk)
      /\ HeldWords(f, d) \in Nat /\ HeldWords(f, d) >= fix
  BY <1>1, <1>2, <1>3
<1> QED BY <1>4 DEF t, stk, fix

LEMMA StashTargetStep == IInv /\ StashTarget => IInv'
<1> SUFFICES ASSUME IInv, StashTarget PROVE IInv'
  OBVIOUS
<1> DEFINE k == StackWords(Top)
           n == Len(stack)
<1>1. /\ Operand("call", 1) /\ ~Top.direct /\ mode' = "eval" /\ UNCHANGED <<work, regs>>
      /\ stack' = stack \o <<regs["rax"], Junk>> \o Junks(k)
  BY DEF StashTarget
<1>2. /\ work # <<>> /\ exprs' = exprs /\ Top \in Calls /\ Top.kind = "call" /\ Len(Top.ops) = 1
      /\ Holds(Top, 1 - 1, stack) /\ stack \in Seq(Nat) /\ regs \in [Regs -> Nat]
      /\ regs["rax"] = Top.ops[1] /\ regs["rax"] \in Nat /\ n \in Nat
  BY <1>1, Given
<1>3. /\ NTarget(Top) = 1 /\ NStk(Top) \in Nat /\ k \in Nat
      /\ Fixed(Top) = k + 2 /\ Fixed(Top) \in Nat
  BY <1>1, <1>2, Counts
<1> HIDE DEF k, n
<1> DEFINE s == stack \o <<regs["rax"], Junk>>
<1>4. /\ s \in Seq(Nat) /\ Len(s) = n + 2 /\ s[n + 1] = Top.ops[1]
      /\ \A i \in 1 .. n : s[i] = stack[i]
  BY <1>2 DEF Junk, n
<1> HIDE DEF s
<1>5. /\ stack' \in Seq(Nat) /\ Len(stack') = n + 2 + k
      /\ \A i \in 1 .. n + 2 : stack'[i] = s[i]
  BY <1>1, <1>3, <1>4, Reserving DEF s
<1>6. HeldWords(Top, 0) = 0 /\ HeldWords(Top, 1) = k + 2
  BY <1>2, <1>3 DEF HeldWords
<1>7. n = Len(Top.entry) /\ \A i \in 1 .. n : stack[i] = Top.entry[i]
  BY <1>2, <1>6 DEF Holds, OnTopOf, n
<1>8. /\ \A i \in 1 .. n : stack'[i] = Top.entry[i]
      /\ stack'[n + 1] = Top.ops[1]
  <2>1. n \in Nat
    BY <1>2
  <2>2. n + 1 \in 1 .. n + 2 /\ \A i \in 1 .. n : i \in 1 .. n + 2
    BY <2>1
  <2> QED BY <1>4, <1>5, <1>7, <2>2
<1>9. \A i \in 1 .. 1 : i = 1 /\ Place(Top, i) = 1
  BY <1>3 DEF Place
<1>10. OnTopOf(Top, HeldWords(Top, 1), stack')
  <2>1. n + 2 + k = n + (k + 2)
    BY <1>2, <1>3
  <2> QED BY <1>5, <1>6, <1>7, <1>8, <2>1 DEF OnTopOf
<1>11. Holds(Top, 1, stack')
  BY <1>7, <1>8, <1>9, <1>10 DEF Holds
<1>12. TypeOK' /\ Nested' /\ Delivered' /\ work' # <<>> /\ Top' = Top
  BY <1>1, <1>2, <1>5, CallsStay
<1>13. Evaluating'
  BY <1>1, <1>2, <1>11, <1>12 DEF Evaluating
<1> QED BY <1>1, <1>12, <1>13 DEF IInv, Ready, OperandsMeet, ArgumentsInPlace

\* The k-th operand of a call, an argument, has been evaluated.
LEMMA AnArgument ==
    ASSUME IInv, IsArgument
    PROVE  /\ work # <<>> /\ UNCHANGED <<work, exprs, regs>> /\ mode' = "eval"
           /\ Top \in Calls /\ Top.kind = "call" /\ Len(Top.ops) \in Nat
           /\ NTarget(Top) < Len(Top.ops) /\ Len(Top.ops) <= NTarget(Top) + Top.n
           /\ Holds(Top, Len(Top.ops) - 1, stack)
           /\ stack \in Seq(Nat) /\ Len(stack) \in Nat /\ regs \in [Regs -> Nat]
           /\ regs["rax"] = Top.ops[Len(Top.ops)] /\ regs["rax"] \in Nat
<1>1. /\ Operand("call", Len(Top.ops)) /\ NTarget(Top) < Len(Top.ops)
      /\ mode' = "eval" /\ UNCHANGED <<work, regs>>
  BY DEF IsArgument
<1>2. Top.kind = "call" => Arity(Top) = NTarget(Top) + Top.n
  BY DEF Arity
<1> QED BY <1>1, <1>2, Given

\* Which argument it is: those on the stack first.
LEMMA Turns ==
    ASSUME NEW f \in Calls, f.kind = "call",
           NEW k \in Nat, NTarget(f) < k, k <= NTarget(f) + f.n
    PROVE  /\ Turn(f, k) \in 1 .. f.n
           /\ Turn(f, k) = IF k <= NTarget(f) + NStk(f) THEN NReg(f) + (k - NTarget(f))
                           ELSE k - NTarget(f) - NStk(f)
           /\ Turn(f, k) > NReg(f) <=> k <= NTarget(f) + NStk(f)
<1> DEFINE t == NTarget(f)
           stk == NStk(f)
           reg == NReg(f)
<1>1. t \in {0, 1} /\ stk \in Nat /\ reg \in Nat /\ f.n = reg + stk
  BY Counts
<1>2. Turn(f, k) = IF k - t <= stk THEN reg + (k - t) ELSE (k - t) - stk
  BY DEF Turn
<1>3. t < k /\ k <= t + f.n
  OBVIOUS
<1> HIDE DEF t, stk, reg
<1>4. k - t <= stk <=> k <= t + stk
  BY <1>1
<1>5. Turn(f, k) = IF k <= t + stk THEN reg + (k - t) ELSE k - t - stk
  BY <1>2, <1>4
<1>6. Turn(f, k) \in 1 .. f.n /\ (Turn(f, k) > reg <=> k <= t + stk)
  BY <1>1, <1>3, <1>5
<1> QED BY <1>5, <1>6 DEF t, stk, reg

\* Once the next operand is where it belongs and the others have stayed,
\* the call goes on.
LEMMA NextArgument ==
    ASSUME IInv, IsArgument, stack' \in Seq(Nat),
           Len(stack') = Len(Top.entry) + HeldWords(Top, Len(Top.ops)),
           \A i \in 1 .. Len(Top.entry) : stack'[i] = stack[i],
           \A k \in 1 .. Len(Top.ops) - 1 :
               stack'[Len(Top.entry) + Place(Top, k)] = stack[Len(Top.entry) + Place(Top, k)],
           stack'[Len(Top.entry) + Place(Top, Len(Top.ops))] = regs["rax"]
    PROVE  IInv'
<1> DEFINE n == Len(Top.ops)
<1>1. /\ work # <<>> /\ UNCHANGED <<work, exprs, regs>> /\ mode' = "eval"
      /\ Top \in Calls /\ Top.kind = "call" /\ n \in Nat /\ 1 <= n
      /\ Holds(Top, n - 1, stack) /\ regs \in [Regs -> Nat] /\ regs["rax"] = Top.ops[n]
  <2>1. Top \in Calls /\ NTarget(Top) < n /\ n \in Nat
    BY AnArgument
  <2>2. 1 <= n
    <3>1. NTarget(Top) \in {0, 1}
      BY <2>1, Counts
    <3> QED BY <2>1, <3>1
  <2> QED BY <2>1, <2>2, AnArgument
<1>2. OnTopOf(Top, HeldWords(Top, n), stack')
  BY <1>1 DEF Holds, OnTopOf
<1> HIDE DEF n
<1>3. \A k \in 1 .. n : k = n \/ k \in 1 .. n - 1
  BY <1>1
<1>4. \A k \in 1 .. n : stack'[Len(Top.entry) + Place(Top, k)] = Top.ops[k]
  BY <1>1, <1>3 DEF Holds, n
<1>5. Holds(Top, n, stack')
  BY <1>2, <1>4 DEF Holds
<1>6. TypeOK' /\ Nested' /\ Delivered' /\ work' # <<>> /\ Top' = Top
  BY <1>1, CallsStay
<1>7. Evaluating'
  BY <1>1, <1>5, <1>6 DEF Evaluating, n
<1> QED BY <1>1, <1>6, <1>7 DEF IInv, Ready, OperandsMeet, ArgumentsInPlace

LEMMA StoreStackArgStep == IInv /\ StoreStackArg => IInv'
<1> SUFFICES ASSUME IInv, StoreStackArg PROVE IInv'
  OBVIOUS
<1> DEFINE n == Len(Top.ops)
           t == NTarget(Top)
           stk == NStk(Top)
           at == Len(stack) - (Argument - NReg(Top) - 1)
           e == Len(Top.entry)
<1>1. /\ Top \in Calls /\ Top.kind = "call" /\ n \in Nat
      /\ t < n /\ n <= t + Top.n
      /\ Holds(Top, n - 1, stack) /\ stack \in Seq(Nat) /\ Len(stack) \in Nat
      /\ regs["rax"] \in Nat /\ Argument = Turn(Top, n) /\ Argument > NReg(Top)
      /\ stack' = [stack EXCEPT ![at] = regs["rax"]]
  BY AnArgument DEF StoreStackArg, Argument
<1>2. /\ t \in {0, 1} /\ stk \in Nat /\ Fixed(Top) \in Nat /\ stk + 2 * t <= Fixed(Top)
      /\ e \in Nat /\ NReg(Top) \in Nat
  BY <1>1, Counts
<1>3. n <= t + stk /\ Argument = NReg(Top) + (n - t)
  BY <1>1, Turns
<1>4. /\ HeldWords(Top, n - 1) = Fixed(Top) /\ HeldWords(Top, n) = Fixed(Top)
      /\ Place(Top, n) = Fixed(Top) + 1 - (n - t)
  <2>1. n - 1 \in Nat /\ t <= n - 1 /\ n - 1 <= t + stk /\ t <= n
    <3>1. n \in Nat /\ t < n
      BY <1>1
    <3>2. t \in {0, 1} /\ stk \in Nat
      BY <1>2
    <3>3. n <= t + stk
      BY <1>3
    <3> HIDE DEF n, t, stk
    <3> QED BY <3>1, <3>2, <3>3
  <2>2. HeldWords(Top, n - 1) = Fixed(Top) /\ HeldWords(Top, n) = Fixed(Top)
    BY <1>1, <1>3, <2>1, CallWords
  <2>3. Place(Top, n) = Fixed(Top) + 1 - (n - t)
    BY <1>1, <1>2, <1>3 DEF Place
  <2> QED BY <2>2, <2>3
<1>5. /\ Len(stack) = e + Fixed(Top)
      /\ \A k \in 1 .. n - 1 : stack[e + Place(Top, k)] = Top.ops[k]
  BY <1>1, <1>4 DEF Holds, OnTopOf
<1>6. \A k \in 1 .. n - 1 : Place(Top, k) \in 1 .. Fixed(Top) /\ Place(Top, k) # Place(Top, n)
  <2> TAKE k \in 1 .. n - 1
  <2>1. k \in Nat /\ n - 1 \in Nat /\ k # n /\ 1 <= k
    BY <1>1, <1>2
  <2>2. Place(Top, k) \in 1 .. Fixed(Top)
    BY <1>1, <1>4, <2>1, Places
  <2>3. Place(Top, k) # Place(Top, n)
    BY <1>1, <2>1, PlacesDiffer
  <2> QED BY <2>2, <2>3
<1> HIDE DEF n, t, stk, e, at
<1>7. at = e + Place(Top, n) /\ at \in e + 1 .. Len(stack)
  <2>1. /\ n \in Nat /\ t < n /\ t \in {0, 1} /\ stk \in Nat /\ Fixed(Top) \in Nat
        /\ stk + 2 * t <= Fixed(Top) /\ e \in Nat /\ NReg(Top) \in Nat /\ n <= t + stk
    BY <1>1, <1>2, <1>3
  <2>2. Argument - NReg(Top) - 1 = n - t - 1
    BY <1>3, <2>1
  <2>3. at = e + Fixed(Top) - (n - t - 1)
    BY <1>5, <2>1, <2>2 DEF at
  <2>4. at = e + (Fixed(Top) + 1 - (n - t))
    BY <2>1, <2>3
  <2>5. at >= e + 1 /\ at <= e + Fixed(Top) /\ at \in Int
    BY <2>1, <2>4
  <2> QED BY <1>4, <1>5, <2>1, <2>4, <2>5
<1>8. at \in 1 .. Len(stack)
  BY <1>1, <1>2, <1>7
<1>9. /\ stack' \in Seq(Nat) /\ Len(stack') = Len(stack)
      /\ \A i \in 1 .. Len(stack) : stack'[i] = IF i = at THEN regs["rax"] ELSE stack[i]
  BY <1>1, <1>8, ExceptSeq
<1>10. /\ \A i \in 1 .. e : i \in 1 .. Len(stack) /\ i # at
       /\ \A k \in 1 .. n - 1 : e + Place(Top, k) \in 1 .. Len(stack) /\ e + Place(Top, k) # at
  <2>1. Fixed(Top) \in Nat /\ e \in Nat /\ Len(stack) = e + Fixed(Top)
    BY <1>2, <1>5
  <2>2. \A i \in 1 .. e : i \in 1 .. Len(stack) /\ i # at
    BY <1>7, <2>1
  <2>3. Place(Top, n) \in Int
    BY <1>1, <1>2, <1>4
  <2>4. \A p \in 1 .. Fixed(Top) : e + p \in 1 .. Len(stack) /\ (p # Place(Top, n) => e + p # at)
    BY <1>7, <2>1, <2>3
  <2> QED BY <1>6, <2>2, <2>4
<1>11. /\ \A i \in 1 .. e : stack'[i] = stack[i]
       /\ \A k \in 1 .. n - 1 : stack'[e + Place(Top, k)] = stack[e + Place(Top, k)]
       /\ stack'[e + Place(Top, n)] = regs["rax"]
  BY <1>7, <1>8, <1>9, <1>10
<1>12. IsArgument /\ Len(stack') = e + HeldWords(Top, n)
  BY <1>4, <1>5, <1>9 DEF StoreStackArg
<1> QED BY <1>9, <1>11, <1>12, NextArgument DEF e, n

LEMMA PushRegArgStep == IInv /\ PushRegArg => IInv'
<1> SUFFICES ASSUME IInv, PushRegArg PROVE IInv'
  OBVIOUS
<1> DEFINE n == Len(Top.ops)
           t == NTarget(Top)
           stk == NStk(Top)
           e == Len(Top.entry)
<1>1. /\ Top \in Calls /\ Top.kind = "call" /\ n \in Nat
      /\ t < n /\ n <= t + Top.n
      /\ Holds(Top, n - 1, stack) /\ stack \in Seq(Nat) /\ Len(stack) \in Nat
      /\ regs["rax"] \in Nat /\ ~(Turn(Top, n) > NReg(Top))
      /\ stack' = Append(stack, regs["rax"])
  <2>1. Argument <= NReg(Top) /\ Argument = Turn(Top, n)
    BY DEF PushRegArg, Argument
  <2>2. /\ Top \in Calls /\ Top.kind = "call" /\ n \in Nat
        /\ t < n /\ n <= t + Top.n
        /\ Holds(Top, n - 1, stack) /\ stack \in Seq(Nat) /\ Len(stack) \in Nat
        /\ regs["rax"] \in Nat
    BY AnArgument DEF PushRegArg
  <2>3. Turn(Top, n) \in 1 .. Top.n /\ NReg(Top) \in Nat /\ Top.n \in Nat
    BY <2>2, Turns, Counts DEF Calls
  <2> QED BY <2>1, <2>2, <2>3 DEF PushRegArg
<1>2. /\ t \in {0, 1} /\ stk \in Nat /\ Fixed(Top) \in Nat /\ e \in Nat
  BY <1>1, Counts
<1>3. ~(n <= t + stk)
  BY <1>1, Turns
<1>4. /\ HeldWords(Top, n - 1) = Fixed(Top) + (n - 1 - t - stk)
      /\ HeldWords(Top, n) = Fixed(Top) + (n - t - stk)
      /\ Place(Top, n) = Fixed(Top) + (n - t - stk)
  <2>1. n - 1 \in Nat /\ t <= n - 1 /\ t + stk <= n - 1 /\ t <= n /\ t + stk <= n
    BY <1>1, <1>2, <1>3
  <2>2. /\ HeldWords(Top, n - 1) = Fixed(Top) + (n - 1 - t - stk)
        /\ HeldWords(Top, n) = Fixed(Top) + (n - t - stk)
    BY <1>1, <2>1, CallWords
  <2>3. Place(Top, n) = Fixed(Top) + (n - t - stk)
    BY <1>1, <1>2, <1>3 DEF Place
  <2> QED BY <2>2, <2>3
<1>5. Len(stack) = e + HeldWords(Top, n - 1)
  BY <1>1 DEF Holds, OnTopOf
<1>6. \A k \in 1 .. n - 1 : Place(Top, k) \in 1 .. HeldWords(Top, n - 1)
  <2>1. n - 1 \in Nat
    BY <1>1, <1>2
  <2> QED BY <1>1, <2>1, Places
<1> HIDE DEF n, t, stk, e
<1>7. /\ stack' \in Seq(Nat) /\ Len(stack') = Len(stack) + 1
      /\ \A i \in 1 .. Len(stack) : stack'[i] = stack[i]
      /\ stack'[Len(stack) + 1] = regs["rax"]
  BY <1>1, Pushing
<1>8. Len(stack) + 1 = e + Place(Top, n) /\ Len(stack') = e + HeldWords(Top, n)
  BY <1>1, <1>2, <1>3, <1>4, <1>5, <1>7
<1>9. /\ \A i \in 1 .. e : i \in 1 .. Len(stack)
      /\ \A k \in 1 .. n - 1 : e + Place(Top, k) \in 1 .. Len(stack)
  <2>1. HeldWords(Top, n - 1) \in Nat
    BY <1>1, <1>2, <1>3, <1>4
  <2> QED BY <1>2, <1>5, <1>6, <2>1
<1>10. /\ \A i \in 1 .. e : stack'[i] = stack[i]
       /\ \A k \in 1 .. n - 1 : stack'[e + Place(Top, k)] = stack[e + Place(Top, k)]
       /\ stack'[e + Place(Top, n)] = regs["rax"]
  BY <1>7, <1>8, <1>9
<1> QED BY <1>7, <1>8, <1>10, NextArgument DEF e, n, PushRegArg

\* The operand that is argument a, and where it has been kept.
LEMMA OperandOf ==
    ASSUME NEW f \in Calls, f.kind = "call", NEW a \in 1 .. f.n
    PROVE  LET k == IF a <= NReg(f) THEN NTarget(f) + NStk(f) + a
                                    ELSE NTarget(f) + (a - NReg(f))
           IN  /\ k \in NTarget(f) + 1 .. Arity(f)
               /\ Arg(f, a) = f.ops[k]
               /\ Place(f, k) = IF a <= NReg(f) THEN Fixed(f) + a
                                ELSE Fixed(f) + 1 - (a - NReg(f))
<1> DEFINE t == NTarget(f)
           stk == NStk(f)
           reg == NReg(f)
           k == IF a <= reg THEN t + stk + a ELSE t + (a - reg)
<1>1. /\ t \in {0, 1} /\ stk \in Nat /\ reg \in Nat /\ f.n = reg + stk /\ Fixed(f) \in Nat
  BY Counts
<1>2. Arity(f) = t + f.n
  BY DEF Arity
<1>3. \A l \in Nat : t < l /\ l <= t + f.n =>
         Turn(f, l) = IF l <= t + stk THEN reg + (l - t) ELSE l - t - stk
  BY Turns
<1>4. \A l \in Nat : t < l =>
         Place(f, l) = IF l <= t + stk THEN Fixed(f) + 1 - (l - t) ELSE Fixed(f) + (l - t - stk)
  BY <1>1 DEF Place
<1>5. a \in Nat /\ 1 <= a /\ a <= f.n
  BY <1>1
<1> HIDE DEF t, stk, reg
<1>6. k \in t + 1 .. Arity(f) /\ k \in Nat /\ t < k /\ k <= t + f.n
  BY <1>1, <1>2, <1>5
<1>7. Turn(f, k) = a
  BY <1>1, <1>3, <1>5, <1>6
<1>8. ASSUME NEW l \in t + 1 .. Arity(f), Turn(f, l) = a PROVE l = k
  <2>1. l \in Nat /\ t < l /\ l <= t + f.n
    BY <1>1, <1>2
  <2>2. a = IF l <= t + stk THEN reg + (l - t) ELSE l - t - stk
    BY <1>3, <1>8, <2>1
  <2> QED BY <1>1, <1>5, <2>1, <2>2
<1>9. Place(f, k) = IF a <= reg THEN Fixed(f) + a ELSE Fixed(f) + 1 - (a - reg)
  BY <1>1, <1>4, <1>5, <1>6
<1> HIDE DEF k
<1>10. (CHOOSE l \in t + 1 .. Arity(f) : Turn(f, l) = a) = k
  BY <1>6, <1>7, <1>8
<1>11. Arg(f, a) = f.ops[k]
  BY <1>10 DEF Arg, t
<1> QED BY <1>6, <1>9, <1>11 DEF t, stk, reg, k

\* LoadArgs looks at the right words.
LEMMA LoadedWords ==
    ASSUME IInv, LoadArgs
    PROVE  /\ work # <<>> /\ Top \in Calls /\ Top.kind = "call" /\ Gathered(Top)
           /\ OnTopOf(Top, Fixed(Top), stack')
           /\ \A i \in 1 .. NReg(Top) :
                 Popped(i) = stack[Len(Top.entry) + Fixed(Top) + i] /\ Popped(i) \in Nat
           /\ ~Top.direct => /\ FromTop(NReg(Top) + StackWords(Top) + 1) = Top.ops[1]
                             /\ Top.ops[1] \in Nat
           /\ Len(stack') = Len(Top.entry) + Fixed(Top)
           /\ \A i \in 1 .. Len(Top.entry) + Fixed(Top) : stack'[i] = stack[i]
           /\ \A k \in 1 .. Arity(Top) : stack[Len(Top.entry) + Place(Top, k)] = Top.ops[k]
<1> DEFINE r == NReg(Top)
           e == Len(Top.entry)
           fix == Fixed(Top)
<1>1. /\ work # <<>> /\ Top \in Calls /\ Top.kind = "call" /\ Gathered(Top)
      /\ Holds(Top, Arity(Top), stack) /\ stack \in Seq(Nat) /\ stack' = Pop(r)
  BY LastCall DEF LoadArgs, IInv, TypeOK, Evaluating, Gathered
<1>2. /\ r \in Nat /\ NStk(Top) \in Nat /\ Top.n = r + NStk(Top)
      /\ NTarget(Top) \in {0, 1} /\ (Top.direct <=> NTarget(Top) = 0)
      /\ StackWords(Top) \in Nat /\ fix = StackWords(Top) + 2 * NTarget(Top)
      /\ e \in Nat /\ fix \in Nat
  BY <1>1, Counts
<1>3. Arity(Top) = NTarget(Top) + Top.n
  BY <1>1 DEF Arity
<1>4. /\ Arity(Top) \in Nat /\ NTarget(Top) <= Arity(Top)
      /\ NTarget(Top) + NStk(Top) <= Arity(Top)
      /\ Arity(Top) - NTarget(Top) - NStk(Top) = r
  BY <1>2, <1>3
<1>5. HeldWords(Top, Arity(Top)) = fix + r
  BY <1>1, <1>4, CallWords
<1>6. /\ Len(stack) = e + (fix + r)
      /\ \A i \in 1 .. e : stack[i] = Top.entry[i]
      /\ \A k \in 1 .. Arity(Top) : stack[e + Place(Top, k)] = Top.ops[k]
  BY <1>1, <1>5 DEF Holds, OnTopOf
<1> HIDE DEF r, e, fix
<1>12. r \in Nat /\ e \in Nat /\ fix \in Nat /\ Len(stack) = e + (fix + r)
  BY <1>2, <1>6
<1>7. r <= Len(stack) /\ Len(stack) - r = e + fix
  BY <1>12
<1>8. /\ stack' \in Seq(Nat) /\ Len(stack') = e + fix
      /\ \A i \in 1 .. e + fix : stack'[i] = stack[i]
  <2>1. stack' = SubSeq(stack, 1, Len(stack) - r)
    BY <1>1 DEF Pop
  <2>2. /\ stack' \in Seq(Nat) /\ Len(stack') = Len(stack) - r
        /\ \A i \in 1 .. Len(stack) - r : stack'[i] = stack[i]
    <3>1. r \in Nat /\ stack \in Seq(Nat) /\ r <= Len(stack)
      BY <1>1, <1>2, <1>7
    <3> QED BY <2>1, <3>1, Popping
  <2> QED BY <1>7, <2>2
<1>9. OnTopOf(Top, fix, stack')
  <2>1. \A i \in 1 .. e : i \in 1 .. e + fix
    BY <1>2
  <2> QED BY <1>6, <1>8, <2>1 DEF OnTopOf, e
<1>10. \A i \in 1 .. r : Popped(i) = stack[e + fix + i] /\ Popped(i) \in Nat
  <2> TAKE i \in 1 .. r
  <2>1. Len(stack) - (r - i) = e + fix + i /\ e + fix + i \in 1 .. Len(stack)
    BY <1>12
  <2>2. stack[e + fix + i] \in Nat
    BY <1>1, <2>1, ElementOfSeq
  <2> QED BY <2>1, <2>2 DEF Popped, FromTop, r
<1>11. ~Top.direct => FromTop(r + StackWords(Top) + 1) = Top.ops[1] /\ Top.ops[1] \in Nat
  <2> SUFFICES ASSUME ~Top.direct
               PROVE  FromTop(r + StackWords(Top) + 1) = Top.ops[1] /\ Top.ops[1] \in Nat
    OBVIOUS
  <2>1. NTarget(Top) = 1 /\ 1 \in 1 .. Arity(Top)
    BY <1>2, <1>3
  <2>2. Place(Top, 1) = 1
    BY <2>1 DEF Place
  <2>3. stack[e + 1] = Top.ops[1]
    BY <1>6, <2>1, <2>2
  <2>4. Len(stack) - (r + StackWords(Top) + 1) = e + 1
    <3>1. StackWords(Top) \in Nat /\ fix = StackWords(Top) + 2
      BY <1>2, <2>1
    <3> QED BY <1>12, <3>1
  <2>5. Top.ops[1] \in Nat
    <3>1. Top.ops \in Seq(Nat) /\ Len(Top.ops) = Arity(Top)
      BY <1>1 DEF Calls, Gathered
    <3> QED BY <2>1, <3>1, ElementOfSeq
  <2> QED BY <2>3, <2>4, <2>5 DEF FromTop
<1> QED BY <1>1, <1>6, <1>8, <1>9, <1>10, <1>11 DEF r, e, fix

LEMMA LoadArgsStep == IInv /\ LoadArgs => IInv'
<1> SUFFICES ASSUME IInv, LoadArgs PROVE IInv'
  OBVIOUS
<1> DEFINE r == NReg(Top)
           e == Len(Top.entry)
           fix == Fixed(Top)
           InReg == {ARG_REGS[i] : i \in 1 .. r}
<1>1. /\ mode' = "ready" /\ UNCHANGED <<work, exprs>>
      /\ regs' = [q \in Regs |->
                    CASE q \in InReg -> Popped(CHOOSE i \in 1 .. r : ARG_REGS[i] = q)
                      [] q = "r11" /\ ~Top.direct -> FromTop(r + StackWords(Top) + 1)
                      [] q = "rax" -> Junk
                      [] OTHER -> regs[q]]
  BY DEF LoadArgs
<1>2. /\ work # <<>> /\ Top \in Calls /\ Top.kind = "call" /\ Gathered(Top)
      /\ OnTopOf(Top, fix, stack') /\ stack' \in Seq(Nat)
      /\ \A i \in 1 .. r : Popped(i) = stack[e + fix + i] /\ Popped(i) \in Nat
      /\ ~Top.direct => /\ FromTop(r + StackWords(Top) + 1) = Top.ops[1]
                        /\ Top.ops[1] \in Nat
  BY LoadedWords DEF OnTopOf
<1>3. /\ Len(stack') = e + fix
      /\ \A i \in 1 .. e + fix : stack'[i] = stack[i]
      /\ \A k \in 1 .. Arity(Top) : stack[e + Place(Top, k)] = Top.ops[k]
  BY LoadedWords
<1>4. /\ r \in Nat /\ r <= Len(ARG_REGS) /\ NStk(Top) \in Nat /\ Top.n = r + NStk(Top)
      /\ NTarget(Top) \in {0, 1} /\ NStk(Top) + 2 * NTarget(Top) <= fix
      /\ e \in Nat /\ fix \in Nat /\ Len(ARG_REGS) \in Nat
      /\ (Top.direct <=> NTarget(Top) = 0)
  BY <1>2, Counts
<1>5. /\ \A i \in 1 .. r : /\ i \in DOMAIN ARG_REGS /\ ARG_REGS[i] \in Range(ARG_REGS)
                          /\ \A j \in 1 .. r : ARG_REGS[i] = ARG_REGS[j] => i = j
  <2>1. DOMAIN ARG_REGS = 1 .. Len(ARG_REGS)
    BY RegsAssumption
  <2>2. \A i \in 1 .. r : i \in DOMAIN ARG_REGS
    BY <1>4, <2>1
  <2> QED BY <2>2, RegsAssumption DEF Range, IsInjective
<1>6. InReg \subseteq Range(ARG_REGS) /\ InReg \subseteq Regs /\ "r11" \notin InReg /\ "rax" \notin InReg
  BY <1>5, RegsAssumption, Registers
<1>7. \A i \in 1 .. r : (CHOOSE j \in 1 .. r : ARG_REGS[j] = ARG_REGS[i]) = i
  BY <1>5
<1> HIDE DEF r, e, fix
<1>8. \A i \in 1 .. r : ARG_REGS[i] \in InReg /\ regs'[ARG_REGS[i]] = Popped(i)
  <2> TAKE i \in 1 .. r
  <2>1. ARG_REGS[i] \in InReg /\ ARG_REGS[i] \in Regs /\ ARG_REGS[i] # "r11" /\ ARG_REGS[i] # "rax"
    BY <1>6
  <2> HIDE DEF InReg
  <2>2. regs'[ARG_REGS[i]] = Popped(CHOOSE j \in 1 .. r : ARG_REGS[j] = ARG_REGS[i])
    BY <1>1, <2>1
  <2> QED BY <1>7, <2>1, <2>2
<1>9. ~Top.direct => regs'["r11"] = Top.ops[1]
  BY <1>1, <1>2, <1>6, Registers
<1>10. regs' \in [Regs -> Nat]
  <2>1. ASSUME NEW q \in Regs PROVE regs'[q] \in Nat
    <3>1. CASE q \in InReg
      BY <1>2, <1>8, <3>1
    <3>2. CASE q = "r11" /\ ~Top.direct
      BY <1>2, <1>9, <3>2
    <3>3. CASE q = "rax"
      BY <1>1, <1>6, <3>3 DEF Junk
    <3>4. CASE q \notin InReg /\ ~(q = "r11" /\ ~Top.direct) /\ q # "rax"
      <4>1. regs'[q] = regs[q]
        BY <1>1, <3>4
      <4> QED BY <4>1 DEF IInv, TypeOK
    <3> QED BY <3>1, <3>2, <3>3, <3>4
  <2> QED BY <1>1, <2>1
<1>11. TypeOK' /\ Nested' /\ Delivered' /\ work' # <<>> /\ Top' = Top
  BY <1>1, <1>2, <1>10, CallsStay
<1>12. Ready'
  BY <1>2, <1>11 DEF Ready, Gathered, fix
<1>13. OperandsMeet'
  BY <1>2, <1>11 DEF OperandsMeet
<1>14. \A a \in 1 .. r : regs'[ARG_REGS[a]] = Arg(Top, a)
  <2> TAKE a \in 1 .. r
  <2> DEFINE k == NTarget(Top) + NStk(Top) + a
  <2>1. a \in 1 .. Top.n /\ a <= NReg(Top)
    BY <1>4 DEF r
  <2>2. k \in NTarget(Top) + 1 .. Arity(Top) /\ Arg(Top, a) = Top.ops[k] /\ Place(Top, k) = fix + a
    BY <1>2, <2>1, OperandOf DEF fix
  <2>3. k \in 1 .. Arity(Top)
    BY <1>4, <2>2
  <2> HIDE DEF k
  <2>4. Popped(a) = stack[e + (fix + a)]
    <3>1. e + fix + a = e + (fix + a)
      BY <1>4
    <3> QED BY <1>2, <3>1 DEF r, e, fix
  <2> QED BY <1>3, <1>8, <2>2, <2>3, <2>4
<1>15. \A a \in r + 1 .. Top.n : stack'[Len(stack') - (a - r - 1)] = Arg(Top, a)
  <2> TAKE a \in r + 1 .. Top.n
  <2> DEFINE k == NTarget(Top) + (a - r)
  <2>1. a \in 1 .. Top.n /\ ~(a <= NReg(Top))
    <3>1. r \in Nat /\ NStk(Top) \in Nat /\ Top.n = r + NStk(Top)
      BY <1>4
    <3>2. a \in 1 .. Top.n /\ ~(a <= r)
      BY <3>1
    <3> QED BY <3>2 DEF r
  <2>2. k \in NTarget(Top) + 1 .. Arity(Top) /\ Arg(Top, a) = Top.ops[k]
        /\ Place(Top, k) = fix + 1 - (a - r)
    <3>1. Top \in Calls /\ Top.kind = "call"
      BY <1>2
    <3> QED BY <2>1, <3>1, OperandOf DEF fix, r
  <2>3. k \in 1 .. Arity(Top)
    BY <1>4, <2>2
  <2> HIDE DEF k, r, e, fix
  <2>4. Len(stack') - (a - r - 1) = e + (fix + 1 - (a - r))
    <3>1. r \in Nat /\ e \in Nat /\ fix \in Nat /\ Len(stack') = e + fix
      BY <1>3, <1>4
    <3> QED BY <3>1
  <2>5. e + (fix + 1 - (a - r)) \in 1 .. e + fix
    <3>1. /\ r \in Nat /\ e \in Nat /\ fix \in Nat /\ NStk(Top) \in Nat
          /\ Top.n = r + NStk(Top) /\ NStk(Top) <= fix
      BY <1>4
    <3> QED BY <3>1
  <2>6. stack'[e + (fix + 1 - (a - r))] = Top.ops[k]
    BY <1>3, <2>2, <2>3, <2>5
  <2> QED BY <2>2, <2>4, <2>6
<1>16. ArgumentsInPlace'
  <2>1. /\ \A a \in 1 .. NReg(Top) : regs'[ARG_REGS[a]] = Arg(Top, a)
        /\ \A a \in NReg(Top) + 1 .. Top.n : stack'[Len(stack') - (a - NReg(Top) - 1)] = Arg(Top, a)
    BY <1>14, <1>15 DEF r
  <2> QED BY <1>9, <1>11, <2>1 DEF ArgumentsInPlace, FromTop
<1> QED BY <1>1, <1>11, <1>12, <1>13, <1>16 DEF IInv, Evaluating

LEMMA ReturnStep == IInv /\ Return => IInv' /\ stack' = Top.entry
<1> SUFFICES ASSUME IInv, Return PROVE IInv' /\ stack' = Top.entry
  OBVIOUS
<1>1. /\ mode = "ready" /\ Top.kind = "call" /\ Evaluated(Top.id, [r \in Regs |-> Junk])
      /\ stack' = Pop(Reclaimed(Top)) /\ work' = Front(work) /\ exprs' = exprs
  BY DEF Return
<1>2. /\ work # <<>> /\ OnTopOf(Top, Fixed(Top), stack) /\ Top \in Calls
      /\ stack \in Seq(Nat)
  BY <1>1, LastCall DEF IInv, Ready, TypeOK
<1>3. /\ Fixed(Top) \in Nat /\ Len(Top.entry) \in Nat /\ Reclaimed(Top) = Fixed(Top)
  BY <1>2, Counts DEF Reclaimed, Fixed
<1>4. /\ Len(stack) = Len(Top.entry) + Fixed(Top)
      /\ \A i \in 1 .. Len(Top.entry) : stack[i] = Top.entry[i]
  BY <1>2 DEF OnTopOf
<1>5. Fixed(Top) <= Len(stack) /\ Len(stack) - Fixed(Top) = Len(Top.entry)
  BY <1>3, <1>4
<1>6. /\ stack' \in Seq(Nat) /\ Len(stack') = Len(stack) - Fixed(Top)
      /\ \A i \in 1 .. Len(stack) - Fixed(Top) : stack'[i] = stack[i]
  <2>1. stack' = SubSeq(stack, 1, Len(stack) - Fixed(Top))
    BY <1>1, <1>3 DEF Pop
  <2> QED BY <1>2, <1>3, <1>5, <2>1, Popping
<1>7. OnTopOf(Top, 0, stack')
  BY <1>3, <1>4, <1>5, <1>6 DEF OnTopOf
<1>8. stack' = Top.entry
  BY <1>2, <1>7, NothingOnTop
<1>9. regs' \in [Regs -> Nat] /\ regs'["rax"] = Top.id /\ mode' = "value"
  <2>1. [r \in Regs |-> Junk] \in [Regs -> Nat]
    BY DEF Junk
  <2> QED BY <1>1, <1>2, <2>1, ValueInRax DEF Calls
<1> QED BY <1>1, <1>2, <1>8, <1>9, Returned

LEMMA NextStmtStep == IInv /\ NextStmt => IInv'
BY DEF IInv, NextStmt, TypeOK, Nested, Evaluating, Delivered, Ready, OperandsMeet, ArgumentsInPlace

-----------------------------------------------------------------------------
LEMMA InitIInv == Init => IInv
<1> SUFFICES ASSUME Init PROVE IInv
  OBVIOUS
<1>1. /\ mode = "eval" /\ work = <<>> /\ stack = <<>> /\ exprs = 0
      /\ regs \in [Regs -> Nat]
  BY DEF Init, Junk
<1>2. work \in Seq(Calls) /\ stack \in Seq(Nat) /\ Len(work) = 0
  BY <1>1, EmptySeq
<1> QED BY <1>1, <1>2 DEF IInv, TypeOK, Nested, Chain, Evaluating, Delivered, Ready,
                          OperandsMeet, ArgumentsInPlace

\* Every step, and what it does to the stack when a call is done.
LEMMA NextIInv ==
    ASSUME IInv, [Next]_vars
    PROVE  IInv' /\ (Len(work') < Len(work) => stack' = Top.entry)
<1> DEFINE Restored == Len(work') < Len(work) => stack' = Top.entry
<1>1. Len(work) \in Nat
  BY LenProperties DEF IInv, TypeOK
<1>2. CASE UNCHANGED vars
  <2>1. IInv'
    BY <1>2 DEF vars, IInv, TypeOK, Nested, Evaluating, Delivered, Ready, Gathered,
                OperandsMeet, ArgumentsInPlace, Top, FromTop
  <2> QED BY <1>1, <1>2, <2>1 DEF vars
<1>3. CASE Wants /\ Leaf
  <2>1. Len(work') = Len(work)
    BY <1>3, Met DEF Leaf
  <2> QED BY <1>1, <1>3, <2>1, LeafStep
<1>4. ASSUME Wants, NEW kind \in Kinds, NEW direct \in BOOLEAN, NEW n \in Nat,
             Open(kind, direct, n)
      PROVE  IInv' /\ Restored
  <2>1. IInv'
    BY <1>4, OpenStep
  <2>2. Len(work') = Len(work) + 1
    BY <1>4, Met, AppendProperties DEF Open
  <2> QED BY <1>1, <2>1, <2>2
<1>5. CASE Unary \/ EndTernary
  BY <1>5, UnaryStep
<1>6. CASE PushFirst("pair") \/ PushFirst("out")
  BY <1>1, <1>6, PushFirstStep DEF PushFirst
<1>7. CASE PopFirst \/ PopOut
  BY <1>1, <1>7, MeetStep DEF PopFirst, PopOut
<1>8. CASE Combine
  BY <1>8, CombineStep
<1>9. CASE TestTernary
  BY <1>1, <1>9, TestTernaryStep DEF TestTernary
<1>10. CASE StashTarget
  BY <1>1, <1>10, StashTargetStep DEF StashTarget
<1>11. CASE StoreStackArg
  BY <1>1, <1>11, StoreStackArgStep DEF StoreStackArg, IsArgument
<1>12. CASE PushRegArg
  BY <1>1, <1>12, PushRegArgStep DEF PushRegArg, IsArgument
<1>13. CASE LoadArgs
  BY <1>1, <1>13, LoadArgsStep DEF LoadArgs
<1>14. CASE Return
  BY <1>14, ReturnStep
<1>15. CASE NextStmt
  BY <1>1, <1>15, NextStmtStep DEF NextStmt
<1>16. "call" \in Kinds /\ FALSE \in BOOLEAN /\ 0 \in Nat /\ 0 .. MaxArgs \subseteq Nat
  BY ArgsAssumption DEF Kinds
<1> HIDE DEF Restored
<1> QED BY <1>2, <1>3, <1>4, <1>5, <1>6, <1>7, <1>8, <1>9, <1>10, <1>11, <1>12, <1>13,
           <1>14, <1>15, <1>16 DEF Next, Restored

THEOREM IInvHolds == Spec => []IInv
<1>1. Init => IInv
  BY InitIInv
<1>2. IInv /\ [Next]_vars => IInv'
  BY NextIInv
<1> QED BY <1>1, <1>2, PTL DEF Spec

\* The two operands of an operator, a store or an out instruction meet in
\* the registers the instruction wants them in (gen_binary, gen_assignment,
\* gen_index_address, gen_io_intrinsic), however deep they nest.
THEOREM OperandsMeetHolds == Spec => []OperandsMeet
BY IInvHolds, PTL DEF IInv

\* Every call instruction finds each argument where the callee's prologue
\* looks for it and %r11 at the target of an indirect call, for any number of
\* arguments, whatever calls the arguments made (gen_call, gen_method_call).
THEOREM ArgumentsInPlaceHolds == Spec => []ArgumentsInPlace
BY IInvHolds, PTL DEF IInv

\* Every gen_* call that is done leaves the stack as it has found it.
THEOREM RestoresStackHolds == Spec => RestoresStack
<1>1. IInv /\ [Next]_vars => [Len(work') < Len(work) => stack' = Top.entry]_vars
  BY NextIInv
<1> QED BY <1>1, IInvHolds, PTL DEF Spec, RestoresStack

-----------------------------------------------------------------------------
(***************************************************************************)
(* Alignment: what the calls under way hold, counted modulo two.           *)
(***************************************************************************)
LEMMA PushedSum ==
    ASSUME TypeOK
    PROVE  \A i \in 0 .. Len(work) :
             PushedUpTo[i] = IF i = 0 THEN 0 ELSE PushedUpTo[i - 1] + Pending(work[i])
<1> DEFINE n == Len(work)
           h == [i \in 1 .. n |-> Pending(work[i])]
<1>1. n \in Nat
  BY LenProperties DEF TypeOK
<1> HIDE DEF n
<1>2. PICK g : g = [i \in 0 .. n |-> IF i = 0 THEN 0 ELSE g[i - 1] + h[i]]
  BY <1>1, RunningSum
<1>3. \A i \in 0 .. n : i # 0 => h[i] = Pending(work[i])
  BY <1>1
<1> HIDE DEF h
<1>4. g = [i \in 0 .. n |-> IF i = 0 THEN 0 ELSE g[i - 1] + Pending(work[i])]
  BY <1>2, <1>3
<1>5. PushedUpTo = [i \in 0 .. n |-> IF i = 0 THEN 0 ELSE PushedUpTo[i - 1] + Pending(work[i])]
  BY <1>4 DEF PushedUpTo, n
<1> QED BY <1>5 DEF n

LEMMA FixedIsEven ==
    ASSUME NEW f \in Calls
    PROVE  \E m \in Nat : Fixed(f) = 2 * m
<1> DEFINE stk == NStk(f)
           t == NTarget(f)
           m == (stk + 1) \div 2 + t
<1>1. stk \in Nat /\ t \in {0, 1} /\ Fixed(f) = 2 * ((stk + 1) \div 2) + 2 * t
  BY Counts DEF StackWords
<1> HIDE DEF stk, t
<1>2. Fixed(f) = 2 * m /\ m \in Nat
  BY <1>1
<1> QED BY <1>2

\* A call that waits holds the words it has pushed, and an even number more.
LEMMA PendingWords ==
    ASSUME NEW f \in Calls, Len(f.ops) >= 1, Len(f.ops) <= Arity(f)
    PROVE  /\ Pending(f) \in Nat
           /\ \E m \in Nat : HeldWords(f, Len(f.ops) - 1) = Pending(f) + 2 * m
<1> DEFINE n == Len(f.ops)
           t == NTarget(f)
           stk == NStk(f)
<1>1. /\ n \in Nat /\ t \in {0, 1} /\ stk \in Nat
  BY Counts
<1>2. n >= 1
  OBVIOUS
<1>3. CASE f.kind \in {"pair", "out"}
  <2>1. Arity(f) = 2 /\ n <= Arity(f)
    BY <1>3 DEF Arity
  <2>2. Pending(f) = n - 1 /\ HeldWords(f, n - 1) = IF n - 1 < 1 THEN 0 ELSE 1
    BY <1>3 DEF Pending, HeldWords
  <2> HIDE DEF n
  <2>3. HeldWords(f, n - 1) = Pending(f) + 2 * 0 /\ Pending(f) \in Nat
    BY <1>1, <1>2, <2>1, <2>2
  <2> QED BY <2>3 DEF n
<1>4. CASE f.kind = "call"
  <2>1. Pending(f) = IF n > t + stk THEN n - (t + stk) - 1 ELSE 0
    BY <1>4 DEF Pending
  <2>2. HeldWords(f, n - 1) = IF n - 1 < t THEN 0
                              ELSE IF n - 1 <= t + stk THEN Fixed(f)
                              ELSE Fixed(f) + (n - 1 - t - stk)
    BY <1>4 DEF HeldWords
  <2>3. PICK m \in Nat : Fixed(f) = 2 * m
    BY FixedIsEven
  <2> HIDE DEF n, t, stk
  <2>4. Pending(f) \in Nat
    BY <1>1, <2>1
  <2>5. CASE n - 1 < t
    <3>1. HeldWords(f, n - 1) = Pending(f) + 2 * 0
      BY <1>1, <2>1, <2>2, <2>5
    <3> QED BY <2>4, <3>1 DEF n
  <2>6. CASE ~(n - 1 < t)
    <3>1. HeldWords(f, n - 1) = Pending(f) + 2 * m
      BY <1>1, <2>1, <2>2, <2>3, <2>6
    <3> QED BY <2>4, <3>1 DEF n
  <2> QED BY <2>5, <2>6
<1>5. CASE f.kind \notin {"pair", "out", "call"}
  <2>1. Pending(f) = 0 /\ HeldWords(f, n - 1) = 0
    BY <1>5 DEF Pending, HeldWords
  <2>2. HeldWords(f, n - 1) = Pending(f) + 2 * 0
    BY <2>1
  <2> QED BY <2>1, <2>2
<1> QED BY <1>3, <1>4, <1>5

\* Each call has found as many words as those around it have pushed, modulo
\* two: by induction from the outermost one.
SameParity(i) == /\ PushedUpTo[i - 1] \in Nat
                 /\ Len(work[i].entry) % 2 = PushedUpTo[i - 1] % 2

LEMMA EntryParity ==
    ASSUME TypeOK, Nested
    PROVE  \A i \in 1 .. Len(work) : SameParity(i)
<1> DEFINE n == Len(work)
           Odd == {i \in 1 .. n : ~SameParity(i)}
<1> SUFFICES ASSUME Odd # {} PROVE FALSE
  OBVIOUS
<1>1. n \in Nat /\ \A i \in 1 .. n : work[i] \in Calls
  BY LenProperties, ElementOfSeq DEF TypeOK
<1>2. \A i \in 1 .. n : /\ PushedUpTo[i] = PushedUpTo[i - 1] + Pending(work[i])
                       /\ PushedUpTo[0] = 0
  <2>1. \A i \in 1 .. n : i \in 0 .. n /\ i # 0 /\ 0 \in 0 .. n
    BY <1>1
  <2> QED BY <2>1, PushedSum
<1> HIDE DEF n
<1>3. Odd \subseteq Nat
  BY <1>1
<1>4. PICK i \in Odd : \A j \in Odd : ~(j < i)
  BY <1>3, LeastNat
<1>5. i \in 1 .. n /\ i \in Nat /\ ~SameParity(i)
  BY <1>1, <1>4
<1>6. i # 1
  <2>1. n >= 1 /\ 1 \in 1 .. n
    BY <1>1, <1>5
  <2>2. work # <<>>
    BY <2>1, EmptySeq DEF n
  <2>3. work[1].entry = <<>> /\ Len(<<>>) = 0
    BY <2>2, EmptySeq DEF Nested, Chain
  <2>4. PushedUpTo[1 - 1] = 0
    BY <1>2, <2>1
  <2>5. SameParity(1)
    BY <2>3, <2>4 DEF SameParity
  <2> QED BY <1>5, <2>5
<1> DEFINE j == i - 1
           f == work[j]
<1>7. j \in 1 .. n - 1 /\ j \in 1 .. n /\ j \in Nat /\ j < i /\ j + 1 = i
  BY <1>1, <1>5, <1>6
<1>8. SameParity(j)
  BY <1>4, <1>7
<1> HIDE DEF j
<1>9. /\ f \in Calls /\ Waits(f, work[i].entry) /\ Len(f.ops) <= Arity(f)
  BY <1>1, <1>7 DEF Nested, Chain, n
<1>10. Len(work[i].entry) = Len(f.entry) + HeldWords(f, Len(f.ops) - 1) /\ Len(f.ops) >= 1
  BY <1>9 DEF Waits, Holds, OnTopOf
<1>11. PICK m \in Nat : HeldWords(f, Len(f.ops) - 1) = Pending(f) + 2 * m
  BY <1>9, <1>10, PendingWords
<1>12. Pending(f) \in Nat /\ Len(f.entry) \in Nat
  BY <1>9, <1>10, PendingWords, Counts
<1>13. PushedUpTo[i - 1] = PushedUpTo[j - 1] + Pending(f)
  BY <1>2, <1>7 DEF j
<1>14. SameParity(i)
  <2> DEFINE a == Len(f.entry)
             b == PushedUpTo[j - 1]
             c == Pending(f)
  <2>1. a \in Nat /\ b \in Nat /\ c \in Nat /\ a % 2 = b % 2
    BY <1>8, <1>12 DEF SameParity
  <2>2. Len(work[i].entry) = a + (c + 2 * m) /\ PushedUpTo[i - 1] = b + c
    BY <1>10, <1>11, <1>13
  <2> HIDE DEF a, b, c
  <2>3. (a + (c + 2 * m)) % 2 = (b + c) % 2 /\ b + c \in Nat
    BY <2>1
  <2> QED BY <2>2, <2>3 DEF SameParity
<1> QED BY <1>5, <1>14

\* A call instruction finds the stack misaligned exactly when the calls
\* around it hold an odd number of pushed words: argument blocks, padding
\* and stashed targets never break the alignment (gen_call).
THEOREM MisalignedByPushesOnlyHolds == Spec => []MisalignedByPushesOnly
<1>1. IInv => MisalignedByPushesOnly
  <2> SUFFICES ASSUME IInv, mode = "ready", Top.kind = "call"
               PROVE  Len(stack) % 2 = Pushed % 2
    BY DEF MisalignedByPushesOnly
  <2> DEFINE a == Len(Top.entry)
             b == Pushed
  <2>1. /\ Len(work) \in 1 .. Len(work) /\ Top = work[Len(work)] /\ Top \in Calls
        /\ Len(stack) = a + Fixed(Top)
    BY LastCall DEF IInv, Ready, OnTopOf, Top
  <2>2. b \in Nat /\ a % 2 = b % 2
    BY <2>1, EntryParity DEF IInv, Pushed, SameParity
  <2>3. PICK m \in Nat : Fixed(Top) = 2 * m
    BY <2>1, FixedIsEven
  <2>4. a \in Nat
    BY <2>1, Counts
  <2> HIDE DEF a, b
  <2>5. (a + 2 * m) % 2 = b % 2
    BY <2>2, <2>4
  <2> QED BY <2>1, <2>3, <2>5 DEF b
<1> QED BY <1>1, IInvHolds, PTL

==============================================================================
