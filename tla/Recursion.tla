------------------------------ MODULE Recursion ------------------------------
(***************************************************************************)
(* Induction over data, for the proofs about recursive functions.  The     *)
(* induction theorems of the library take a predicate as a parameter; here *)
(* the predicate is the set of its counterexamples, and the induction      *)
(* looks at the least of them.                                             *)
(***************************************************************************)
EXTENDS Integers, WellFoundedInduction, TLAPS

\* A set of natural numbers that is not empty has a least element.
LEMMA LeastNat ==
    ASSUME NEW S, S \subseteq Nat, S # {}
    PROVE  \E x \in S : \A y \in S : ~(y < x)
<1> DEFINE R == {ss \in Nat \X Nat : ss[1] < ss[2]}
<1>1. IsWellFoundedOn(R, Nat)
  BY NatLessThanWellFounded DEF OpToRel
<1> HIDE DEF R
<1>2. PICK x \in S : \A y \in S : ~(<<y, x>> \in R)
  BY <1>1, WFMin
<1>3. \A y \in S : y < x => <<y, x>> \in R
  BY DEF R
<1> QED BY <1>2, <1>3

\* The equation of a running sum has a solution: the function it defines
\* does satisfy it.
LEMMA RunningSum ==
    ASSUME NEW n \in Nat, NEW h
    PROVE  \E g : g = [i \in 0 .. n |-> IF i = 0 THEN 0 ELSE g[i - 1] + h[i]]
<1> DEFINE Unsolved == {k \in Nat : ~ \E g : g = [i \in 0 .. k |->
                                                   IF i = 0 THEN 0 ELSE g[i - 1] + h[i]]}
<1> SUFFICES ASSUME Unsolved # {} PROVE FALSE
  OBVIOUS
<1>1. PICK k \in Unsolved : \A j \in Unsolved : ~(j < k)
  BY LeastNat
<1>2. k # 0
  <2> DEFINE g == [i \in 0 .. 0 |-> 0]
  <2>1. g = [i \in 0 .. 0 |-> IF i = 0 THEN 0 ELSE g[i - 1] + h[i]]
    OBVIOUS
  <2> QED BY <2>1
<1>3. k - 1 \in Nat /\ k - 1 \notin Unsolved
  BY <1>1, <1>2
<1>4. PICK g : g = [i \in 0 .. k - 1 |-> IF i = 0 THEN 0 ELSE g[i - 1] + h[i]]
  BY <1>3
<1> DEFINE f == [i \in 0 .. k |-> IF i = k THEN g[k - 1] + h[k] ELSE g[i]]
<1>5. f = [i \in 0 .. k |-> IF i = 0 THEN 0 ELSE f[i - 1] + h[i]]
  <2>1. ASSUME NEW i \in 0 .. k
        PROVE  f[i] = IF i = 0 THEN 0 ELSE f[i - 1] + h[i]
    <3>1. k \in Nat /\ i \in Nat
      BY <1>1
    <3>2. CASE i = k
      BY <1>2, <3>1, <3>2
    <3>3. CASE i # k
      <4>1. i \in 0 .. k - 1 /\ (i # 0 => i - 1 \in 0 .. k /\ i - 1 # k)
        BY <3>1, <3>3
      <4>2. g[i] = IF i = 0 THEN 0 ELSE g[i - 1] + h[i]
        BY <1>4, <4>1
      <4> QED BY <3>1, <3>3, <4>1, <4>2
    <3> QED BY <3>2, <3>3
  <2> QED BY <2>1
<1> QED BY <1>1, <1>5

\* g is iterated from base: its value at i is F of i and its value before.
Iterates(g, n, base, F) == g = [i \in 0 .. n |-> IF i = 0 THEN base ELSE F[<<i, g[i - 1]>>]]

\* A function defined by what it does to its value one step before: its
\* equation has a solution, and every solution takes its values in T.
LEMMA Iterated ==
    ASSUME NEW n \in Nat, NEW T, NEW base \in T, NEW F \in [(1 .. n) \X T -> T]
    PROVE  /\ \E g : Iterates(g, n, base, F)
           /\ \A g : Iterates(g, n, base, F) => \A i \in 0 .. n : g[i] \in T
<1>1. ASSUME NEW m \in 0 .. n, NEW g, Iterates(g, m, base, F)
      PROVE  \A i \in 0 .. m : g[i] \in T
  <2> DEFINE Wrong == {i \in Nat : i <= m /\ g[i] \notin T}
  <2> SUFFICES ASSUME Wrong # {} PROVE FALSE
    OBVIOUS
  <2>1. PICK k \in Wrong : \A j \in Wrong : ~(j < k)
    BY LeastNat
  <2>2. k \in 0 .. m /\ g[k] \notin T /\ g[k] = IF k = 0 THEN base ELSE F[<<k, g[k - 1]>>]
    BY <1>1, <2>1 DEF Iterates
  <2>3. k # 0
    BY <2>2
  <2>4. k - 1 \in 0 .. m /\ k - 1 < k /\ k \in 1 .. n
    BY <2>2, <2>3
  <2>5. g[k - 1] \in T
    BY <2>1, <2>4
  <2> QED BY <2>2, <2>3, <2>4, <2>5
<1> DEFINE Unsolved == {m \in Nat : m <= n /\ ~ \E g : Iterates(g, m, base, F)}
<1>2. Unsolved = {}
  <2> SUFFICES ASSUME Unsolved # {} PROVE FALSE
    OBVIOUS
  <2>1. PICK k \in Unsolved : \A j \in Unsolved : ~(j < k)
    BY LeastNat
  <2>2. k # 0
    <3> DEFINE g == [i \in 0 .. 0 |-> base]
    <3>1. Iterates(g, 0, base, F)
      BY DEF Iterates
    <3> QED BY <2>1, <3>1
  <2>3. k - 1 \in Nat /\ k - 1 <= n /\ k - 1 \notin Unsolved
    BY <2>1, <2>2
  <2>4. PICK g : Iterates(g, k - 1, base, F)
    BY <2>3
  <2> DEFINE f == [i \in 0 .. k |-> IF i = k THEN F[<<k, g[k - 1]>>] ELSE g[i]]
  <2>5. ASSUME NEW i \in 0 .. k
        PROVE  f[i] = IF i = 0 THEN base ELSE F[<<i, f[i - 1]>>]
    <3>1. k \in Nat /\ i \in Nat
      BY <2>1
    <3>2. CASE i = k
      <4>1. f[k] = F[<<k, g[k - 1]>>] /\ f[k - 1] = g[k - 1]
        BY <2>2, <3>1
      <4> QED BY <2>2, <3>2, <4>1
    <3>3. CASE i # k
      <4>1. i \in 0 .. k - 1 /\ (i # 0 => i - 1 \in 0 .. k /\ i - 1 # k)
        BY <3>1, <3>3
      <4>2. g[i] = IF i = 0 THEN base ELSE F[<<i, g[i - 1]>>]
        BY <2>4, <4>1 DEF Iterates
      <4>3. f[i] = g[i] /\ (i # 0 => f[i - 1] = g[i - 1])
        BY <3>1, <3>3, <4>1
      <4> QED BY <4>2, <4>3
    <3> QED BY <3>2, <3>3
  <2>6. Iterates(f, k, base, F)
    BY <2>5 DEF Iterates
  <2> QED BY <2>1, <2>6
<1>3. n \in 0 .. n
  OBVIOUS
<1>4. \E g : Iterates(g, n, base, F)
  BY <1>2, <1>3
<1> QED BY <1>1, <1>3, <1>4
==============================================================================
