----------------------------- MODULE LayoutProofs -----------------------------
(***************************************************************************)
(* Theorems about StructLayout and DataLayout, for any number of classes   *)
(* and whatever they and the globals of the program declare.               *)
(***************************************************************************)
EXTENDS DataLayout, Recursion, SequenceTheorems, FiniteSetTheorems

FieldRecs == [name : STRING, type : Types]

-----------------------------------------------------------------------------
(***************************************************************************)
(* The flat list of the fields of a class.                                 *)
(***************************************************************************)
\* s is the beginning of t.
Begins(s, t) == Len(s) <= Len(t) /\ \A i \in 1 .. Len(s) : t[i] = s[i]

LEMMA ConcatBegins ==
    ASSUME NEW S, NEW s \in Seq(S), NEW t \in Seq(S)
    PROVE  Begins(s, s \o t) /\ s \o t \in Seq(S)
BY DEF Begins

LEMMA BeginsTwice ==
    ASSUME NEW S, NEW s \in Seq(S), NEW t \in Seq(S), NEW u \in Seq(S), Begins(s, t), Begins(t, u)
    PROVE  Begins(s, u)
BY DEF Begins

\* The concatenation of lists is made one list at a time.
LEMMA FlattenRuns ==
    ASSUME NEW S, NEW ss \in Seq(Seq(S)), ss # <<>>
    PROVE  \E g : /\ g[1] = ss[1] /\ FlattenSeq(ss) = g[Len(ss)]
                  /\ \A i \in 2 .. Len(ss) : g[i] = g[i - 1] \o ss[i]
                  /\ \A i \in 1 .. Len(ss) : g[i] \in Seq(S)
<1> DEFINE n == Len(ss)
           F == [p \in (1 .. n) \X Seq(S) |-> p[2] \o ss[p[1]]]
           Flats(f) == f = [i \in 1 .. n |-> IF i = 1 THEN ss[i] ELSE f[i - 1] \o ss[i]]
<1>1. n \in Nat /\ n # 0 /\ ss \in [1 .. n -> Seq(S)]
  BY LenProperties, EmptySeq
<1>2. F \in [(1 .. n) \X Seq(S) -> Seq(S)] /\ <<>> \in Seq(S)
  <2>1. \A p \in (1 .. n) \X Seq(S) : p[2] \in Seq(S) /\ ss[p[1]] \in Seq(S)
    BY <1>1
  <2>2. \A p \in (1 .. n) \X Seq(S) : p[2] \o ss[p[1]] \in Seq(S)
    BY <2>1, ConcatProperties
  <2> QED BY <2>2
<1>3. /\ \E g : Iterates(g, n, <<>>, F)
      /\ \A g : Iterates(g, n, <<>>, F) => \A i \in 0 .. n : g[i] \in Seq(S)
  <2> HIDE DEF n, F
  <2> QED BY <1>1, <1>2, Iterated
<1>4. PICK g : Iterates(g, n, <<>>, F)
  BY <1>3
<1> DEFINE f == [i \in 1 .. n |-> g[i]]
<1>5. \A i \in 1 .. n : g[i - 1] \in Seq(S) /\ g[i] = g[i - 1] \o ss[i]
  <2> TAKE i \in 1 .. n
  <2>1. i - 1 \in 0 .. n /\ i \in 0 .. n /\ i # 0
    BY <1>1
  <2>2. g[i - 1] \in Seq(S) /\ g[i] = F[<<i, g[i - 1]>>]
    BY <1>3, <1>4, <2>1 DEF Iterates
  <2> QED BY <2>2
<1>6. Flats(f)
  <2>1. ASSUME NEW i \in 1 .. n PROVE f[i] = IF i = 1 THEN ss[i] ELSE f[i - 1] \o ss[i]
    <3>1. CASE i = 1
      <4>1. i - 1 = 0 /\ 0 \in 0 .. n
        BY <1>1, <3>1
      <4>2. g[0] = <<>>
        BY <1>4, <4>1 DEF Iterates
      <4>3. g[i] = <<>> \o ss[i]
        BY <1>5, <4>1, <4>2
      <4>4. ss[i] \in Seq(S)
        BY <1>1
      <4>5. <<>> \o ss[i] = ss[i]
        BY <4>4, ConcatEmptySeq
      <4> QED BY <3>1, <4>3, <4>5
    <3>2. CASE i # 1
      <4>1. i - 1 \in 1 .. n
        BY <1>1, <3>2
      <4> QED BY <1>5, <3>2, <4>1
    <3> QED BY <3>1, <3>2
  <2> QED BY <2>1
<1> DEFINE flatten == CHOOSE h : Flats(h)
<1>7. Flats(flatten)
  BY <1>6
<1>8. FlattenSeq(ss) = flatten[n]
  BY <1>1 DEF FlattenSeq
<1> HIDE DEF flatten
<1>9. flatten[1] = ss[1] /\ \A i \in 2 .. n : flatten[i] = flatten[i - 1] \o ss[i]
  <2>1. \A i \in 1 .. n : flatten[i] = IF i = 1 THEN ss[i] ELSE flatten[i - 1] \o ss[i]
    BY <1>7
  <2>2. 1 \in 1 .. n /\ \A i \in 2 .. n : i \in 1 .. n /\ i # 1
    BY <1>1
  <2> HIDE DEF n
  <2> QED BY <2>1, <2>2
<1> DEFINE Wrong == {i \in Nat : i \in 1 .. n /\ flatten[i] \notin Seq(S)}
<1>10. Wrong = {}
  <2> SUFFICES ASSUME Wrong # {} PROVE FALSE
    OBVIOUS
  <2>1. PICK k \in Wrong : \A j \in Wrong : ~(j < k)
    BY LeastNat
  <2>2. k # 1
    BY <1>1, <1>9, <2>1
  <2>3. k - 1 \in 1 .. n /\ k - 1 < k /\ k \in 2 .. n
    BY <1>1, <2>1, <2>2
  <2>4. flatten[k - 1] \in Seq(S) /\ ss[k] \in Seq(S)
    BY <1>1, <2>1, <2>3
  <2>5. flatten[k] \in Seq(S)
    BY <1>9, <2>3, <2>4, ConcatProperties
  <2> QED BY <2>1, <2>5
<1>11. /\ flatten[1] = ss[1] /\ FlattenSeq(ss) = flatten[Len(ss)]
       /\ \A i \in 2 .. Len(ss) : flatten[i] = flatten[i - 1] \o ss[i]
       /\ \A i \in 1 .. Len(ss) : flatten[i] \in Seq(S)
  <2>1. \A i \in 1 .. n : flatten[i] \in Seq(S)
    <3> HIDE DEF n, F, Flats, f
    <3>1. n \in Nat
      BY <1>1
    <3> QED BY <1>10, <3>1
  <2> HIDE DEF n, F, Flats, f, Wrong
  <2> QED BY <1>8, <1>9, <2>1 DEF n
<1> HIDE DEF n, F, Flats, f, Wrong
<1> QED BY <1>11

\* It is a list, and begins with the first of them.
LEMMA FlattenTyped ==
    ASSUME NEW S, NEW ss \in Seq(Seq(S))
    PROVE  FlattenSeq(ss) \in Seq(S) /\ (ss # <<>> => Begins(ss[1], FlattenSeq(ss)))
<1>1. CASE ss = <<>>
  <2>1. FlattenSeq(ss) = <<>> /\ <<>> \in Seq(S)
    BY <1>1, EmptySeq DEF FlattenSeq
  <2> QED BY <1>1, <2>1
<1>2. CASE ss # <<>>
  <2> DEFINE n == Len(ss)
  <2>1. PICK g : /\ g[1] = ss[1] /\ FlattenSeq(ss) = g[n]
                 /\ \A i \in 2 .. n : g[i] = g[i - 1] \o ss[i]
                 /\ \A i \in 1 .. n : g[i] \in Seq(S)
    BY <1>2, FlattenRuns
  <2>2. n \in Nat /\ n # 0 /\ \A i \in 1 .. n : ss[i] \in Seq(S)
    BY <1>2, LenProperties, EmptySeq
  <2> HIDE DEF n
  <2> DEFINE Wrong == {i \in Nat : i \in 1 .. n /\ ~Begins(ss[1], g[i])}
  <2>3. Wrong = {}
    <3> SUFFICES ASSUME Wrong # {} PROVE FALSE
      OBVIOUS
    <3>1. PICK k \in Wrong : \A j \in Wrong : ~(j < k)
      BY LeastNat
    <3>2. k # 1
      BY <2>1, <2>2, <3>1 DEF Begins
    <3>3. k - 1 \in 1 .. n /\ k - 1 < k /\ k \in 2 .. n /\ 1 \in 1 .. n
      BY <2>2, <3>1, <3>2
    <3>4. Begins(ss[1], g[k - 1]) /\ g[k - 1] \in Seq(S) /\ ss[k] \in Seq(S) /\ ss[1] \in Seq(S)
      BY <2>1, <2>2, <3>1, <3>3
    <3>5. g[k] = g[k - 1] \o ss[k]
      BY <2>1, <3>3
    <3>6. Begins(g[k - 1], g[k]) /\ g[k] \in Seq(S)
      BY <3>4, <3>5, ConcatBegins
    <3> QED BY <3>1, <3>4, <3>6, BeginsTwice
  <2>4. n \in 1 .. n
    BY <2>2
  <2> QED BY <2>1, <2>3, <2>4
<1> QED BY <1>1, <1>2

\* Each of the lists is in it, behind those before it.
Positions(ss, pos) ==
    /\ pos[1] = 0
    /\ \A i \in 1 .. Len(ss) - 1 : pos[i + 1] = pos[i] + Len(ss[i])
    /\ \A i \in 1 .. Len(ss) :
          /\ pos[i] \in Nat /\ pos[i] + Len(ss[i]) <= Len(FlattenSeq(ss))
          /\ \A k \in 1 .. Len(ss[i]) : FlattenSeq(ss)[pos[i] + k] = ss[i][k]

LEMMA FlattenAt ==
    ASSUME NEW S, NEW ss \in Seq(Seq(S)), ss # <<>>
    PROVE  \E pos : Positions(ss, pos)
<1> DEFINE n == Len(ss)
<1>1. PICK g : /\ g[1] = ss[1] /\ FlattenSeq(ss) = g[n]
               /\ \A i \in 2 .. n : g[i] = g[i - 1] \o ss[i]
               /\ \A i \in 1 .. n : g[i] \in Seq(S)
  BY FlattenRuns
<1>2. n \in Nat /\ n # 0 /\ \A i \in 1 .. n : ss[i] \in Seq(S)
  BY LenProperties, EmptySeq
<1> DEFINE pos == [i \in 1 .. n |-> IF i = 1 THEN 0 ELSE Len(g[i - 1])]
<1> HIDE DEF n
<1>3. ASSUME NEW i \in 1 .. n
      PROVE  /\ pos[i] \in Nat /\ Len(g[i]) = pos[i] + Len(ss[i])
             /\ \A k \in 1 .. Len(ss[i]) : g[i][pos[i] + k] = ss[i][k]
  <2>1. CASE i = 1
    <3>1. g[i] = ss[i] /\ pos[i] = 0 /\ ss[i] \in Seq(S)
      BY <1>1, <1>2, <2>1
    <3> HIDE DEF pos
    <3> QED BY <3>1
  <2>2. CASE i # 1
    <3>1. i - 1 \in 1 .. n /\ i \in 2 .. n
      BY <1>2, <2>2
    <3>2. pos[i] = Len(g[i - 1]) /\ g[i - 1] \in Seq(S) /\ ss[i] \in Seq(S) /\ g[i] = g[i - 1] \o ss[i]
      BY <1>1, <1>2, <2>2, <3>1
    <3> HIDE DEF pos
    <3>3. Len(g[i]) = Len(g[i - 1]) + Len(ss[i]) /\ Len(g[i - 1]) \in Nat /\ Len(ss[i]) \in Nat
      BY <3>2, ConcatProperties, LenProperties
    <3>4. \A k \in 1 .. Len(ss[i]) : g[i][Len(g[i - 1]) + k] = ss[i][k]
      <4> DEFINE a == Len(g[i - 1])
                 b == Len(ss[i])
      <4>1. a \in Nat /\ b \in Nat
        BY <3>3
      <4>2. \A j \in 1 .. a + b : g[i][j] = IF j <= a THEN g[i - 1][j] ELSE ss[i][j - a]
        BY <3>2, ConcatProperties
      <4> HIDE DEF a, b
      <4>3. \A k \in 1 .. b : g[i][a + k] = ss[i][k]
        <5> TAKE k \in 1 .. b
        <5> DEFINE j == a + k
        <5>1. j \in 1 .. a + b /\ ~(j <= a) /\ j - a = k
          BY <4>1
        <5> HIDE DEF j
        <5>2. g[i][j] = ss[i][j - a]
          BY <4>2, <5>1
        <5>3. g[i][j] = ss[i][k]
          BY <5>1, <5>2
        <5> QED BY <5>3 DEF j
      <4> QED BY <4>3 DEF a, b
    <3> QED BY <3>2, <3>3, <3>4
  <2> QED BY <2>1, <2>2
<1>4. \A i \in 1 .. n - 1 : pos[i + 1] = pos[i] + Len(ss[i])
  <2> TAKE i \in 1 .. n - 1
  <2>1. i \in 1 .. n /\ i + 1 \in 1 .. n /\ i + 1 # 1 /\ i + 1 - 1 = i
    BY <1>2
  <2>2. pos[i + 1] = Len(g[i])
    BY <2>1
  <2> HIDE DEF pos
  <2> QED BY <1>3, <2>1, <2>2
<1>5. pos[1] = 0
  BY <1>2
<1> HIDE DEF pos
<1> DEFINE Wrong == {j \in Nat : j \in 1 .. n /\ \E i \in 1 .. n : i <= j /\ ~Begins(g[i], g[j])}
<1>6. Wrong = {}
  <2> SUFFICES ASSUME Wrong # {} PROVE FALSE
    OBVIOUS
  <2>1. PICK j \in Wrong : \A k \in Wrong : ~(k < j)
    BY LeastNat
  <2>2. PICK i \in 1 .. n : i <= j /\ ~Begins(g[i], g[j])
    BY <2>1
  <2>3. i # j
    BY <1>1, <2>1, <2>2 DEF Begins
  <2>4. j - 1 \in 1 .. n /\ j - 1 < j /\ j \in 2 .. n /\ i <= j - 1
    BY <1>2, <2>1, <2>2, <2>3
  <2>5. Begins(g[i], g[j - 1])
    BY <2>1, <2>4
  <2>6. g[j] = g[j - 1] \o ss[j] /\ g[j - 1] \in Seq(S) /\ ss[j] \in Seq(S) /\ g[i] \in Seq(S)
    BY <1>1, <1>2, <2>4
  <2>7. Begins(g[j - 1], g[j]) /\ g[j] \in Seq(S)
    BY <2>6, ConcatBegins
  <2> QED BY <2>2, <2>5, <2>6, <2>7, BeginsTwice
<1>7. ASSUME NEW i \in 1 .. n
      PROVE  /\ pos[i] + Len(ss[i]) <= Len(FlattenSeq(ss))
             /\ \A k \in 1 .. Len(ss[i]) : FlattenSeq(ss)[pos[i] + k] = ss[i][k]
  <2>1. n \in Nat /\ n \in 1 .. n /\ i <= n
    BY <1>2
  <2>2. Begins(g[i], FlattenSeq(ss))
    BY <1>1, <1>6, <2>1
  <2>3. Len(ss[i]) \in Nat
    BY <1>2, LenProperties
  <2>4. \A k \in 1 .. Len(ss[i]) : pos[i] + k \in 1 .. Len(g[i])
    BY <1>3, <2>3
  <2> QED BY <1>3, <2>2, <2>4 DEF Begins
<1>8. Positions(ss, pos)
  BY <1>3, <1>4, <1>5, <1>7 DEF n, Positions
<1> QED BY <1>8

\* What the program declares.
Declared == /\ bases \in [Classes -> BaseLists] /\ fields \in [Classes -> FieldLists]
            /\ methods \in [Classes -> SUBSET Methods]

\* The lists to a depth of the hierarchy.
FlatStep(h) == [c \in Classes |-> FlattenSeq([i \in DOMAIN bases[c] |-> h[bases[c][i]]]) \o fields[c]]
FlatTables == [Classes -> Seq(FieldRecs)]
NoFields == [c \in Classes |-> <<>>]
Flats(f) == f = [d \in 0 .. N |->
                   [c \in Classes |-> IF d = 0 THEN <<>>
                      ELSE FlattenSeq([i \in DOMAIN bases[c] |-> f[d - 1][bases[c][i]]])
                           \o fields[c]]]

LEMMA BaseList ==
    ASSUME Declared, NEW c \in Classes
    PROVE  /\ bases[c] \in Seq(Classes) /\ fields[c] \in Seq(FieldRecs)
           /\ DOMAIN bases[c] = 1 .. Len(bases[c]) /\ Len(bases[c]) \in Nat
           /\ \A i \in DOMAIN bases[c] : bases[c][i] \in Classes
<1>1. bases[c] \in Seq(Classes) /\ fields[c] \in Seq(FieldRecs)
  BY BasesAssumption, FieldsAssumption DEF Declared, FieldRecs
<1> QED BY <1>1, LenProperties

LEMMA FlatStepTyped ==
    ASSUME Declared, NEW h \in FlatTables
    PROVE  FlatStep(h) \in FlatTables
<1>1. ASSUME NEW c \in Classes
      PROVE  FlattenSeq([i \in DOMAIN bases[c] |-> h[bases[c][i]]]) \o fields[c] \in Seq(FieldRecs)
  <2> DEFINE n == Len(bases[c])
             ss == [i \in DOMAIN bases[c] |-> h[bases[c][i]]]
  <2>1. /\ n \in Nat /\ DOMAIN bases[c] = 1 .. n /\ fields[c] \in Seq(FieldRecs)
        /\ \A i \in DOMAIN bases[c] : h[bases[c][i]] \in Seq(FieldRecs)
    BY BaseList DEF FlatTables
  <2> HIDE DEF n
  <2>2. ss \in Seq(Seq(FieldRecs))
    BY <2>1
  <2> HIDE DEF ss
  <2>3. FlattenSeq(ss) \in Seq(FieldRecs)
    BY <2>2, FlattenTyped
  <2>4. FlattenSeq(ss) \o fields[c] \in Seq(FieldRecs)
    BY <2>1, <2>3, ConcatProperties
  <2> QED BY <2>4 DEF ss
<1> QED BY <1>1 DEF FlatStep, FlatTables

\* There are such lists, and they are lists of fields.
LEMMA FlatSolved ==
    ASSUME Declared
    PROVE  /\ \E f : Flats(f)
           /\ \A f : Flats(f) => \A d \in 0 .. N : f[d] \in FlatTables
<1> DEFINE F == [p \in (1 .. N) \X FlatTables |-> FlatStep(p[2])]
<1>1. N \in Nat /\ NoFields \in FlatTables /\ F \in [(1 .. N) \X FlatTables -> FlatTables]
  BY NAssumption, FlatStepTyped DEF NoFields, FlatTables
<1>2. \A i \in 1 .. N : \A h \in FlatTables : F[<<i, h>>] = FlatStep(h)
  OBVIOUS
<1> HIDE DEF F
<1>3. /\ \E g : Iterates(g, N, NoFields, F)
      /\ \A g : Iterates(g, N, NoFields, F) => \A i \in 0 .. N : g[i] \in FlatTables
  BY <1>1, Iterated
<1>4. PICK g : Iterates(g, N, NoFields, F)
  BY <1>3
<1>5. Flats(g)
  <2>1. g = [d \in 0 .. N |-> g[d]]
    BY <1>4 DEF Iterates
  <2>2. ASSUME NEW d \in 0 .. N
        PROVE  g[d] = [c \in Classes |-> IF d = 0 THEN <<>>
                         ELSE FlattenSeq([i \in DOMAIN bases[c] |-> g[d - 1][bases[c][i]]])
                              \o fields[c]]
    <3>1. CASE d = 0
      BY <1>4, <3>1 DEF Iterates, NoFields
    <3>2. CASE d # 0
      <4>1. d - 1 \in 0 .. N /\ d \in 1 .. N
        BY <1>1, <3>2
      <4>2. g[d] = F[<<d, g[d - 1]>>]
        BY <1>4, <3>2 DEF Iterates
      <4>3. g[d] = FlatStep(g[d - 1])
        BY <1>2, <1>3, <1>4, <4>1, <4>2
      <4> QED BY <3>2, <4>3 DEF FlatStep
    <3> QED BY <3>1, <3>2
  <2> QED BY <2>1, <2>2 DEF Flats
<1>6. ASSUME NEW f, Flats(f) PROVE \A d \in 0 .. N : f[d] \in FlatTables
  <2> DEFINE Wrong == {d \in Nat : d \in 0 .. N /\ f[d] \notin FlatTables}
  <2> SUFFICES ASSUME Wrong # {} PROVE FALSE
    BY <1>1
  <2>1. PICK k \in Wrong : \A j \in Wrong : ~(j < k)
    BY LeastNat
  <2>2. k # 0
    <3>1. f[0] = NoFields
      BY <1>1, <1>6 DEF Flats, NoFields
    <3>2. NoFields \in FlatTables
      BY <1>1
    <3>3. f[k] \notin FlatTables
      BY <2>1
    <3> QED BY <3>1, <3>2, <3>3
  <2>3. k - 1 \in 0 .. N /\ k - 1 < k /\ k \in 0 .. N
    BY <1>1, <2>1, <2>2
  <2>4. f[k - 1] \in FlatTables
    BY <2>1, <2>3
  <2>5. f[k] = FlatStep(f[k - 1])
    BY <1>6, <2>2, <2>3 DEF Flats, FlatStep
  <2> QED BY <2>1, <2>4, <2>5, FlatStepTyped
<1> QED BY <1>5, <1>6

\* Flat is the one of depth N.
LEMMA FlatIs ==
    ASSUME Declared
    PROVE  \E f : Flats(f) /\ Flat = f[N]
<1> DEFINE f == CHOOSE g : Flats(g)
<1>1. Flats(f)
  BY FlatSolved
<1>2. Flat = f[N]
  BY DEF Flat, Flats
<1> HIDE DEF f
<1> QED BY <1>1, <1>2

LEMMA FlatTyped ==
    ASSUME Declared, NEW c \in Classes
    PROVE  Flat[c] \in Seq(FieldRecs)
<1>1. PICK f : Flats(f) /\ Flat = f[N]
  BY FlatIs
<1>2. f[N] \in FlatTables
  BY <1>1, FlatSolved, NAssumption
<1> QED BY <1>1, <1>2 DEF FlatTables

\* In a hierarchy that is well founded, what a level of a recursion over the
\* bases adds has come to an end at level N, whatever it computes.
LEMMA Settled ==
    ASSUME Declared, WellFounded, NEW h,
           \A d, k \in 1 .. N + 1 : \A c \in Classes :
              (\A i \in DOMAIN bases[c] : h[d - 1][bases[c][i]] = h[k - 1][bases[c][i]])
                 => h[d][c] = h[k][c]
    PROVE  \A c \in Classes : h[N + 1][c] = h[N][c]
<1> DEFINE U(d) == {c \in Classes : \E k \in d .. N + 1 : h[k][c] # h[d][c]}
           \* The classes for which it is not over at level d.
<1>1. N \in Nat
  BY NAssumption
<1>2. ASSUME NEW d \in 1 .. N, NEW c \in U(d)
      PROVE  c \in U(d - 1) /\ Uses(c) \cap U(d - 1) # {}
  <2>1. d \in Nat /\ d - 1 \in 0 .. N /\ d \in 1 .. N + 1 /\ c \in Classes
    BY <1>1
  <2>2. PICK k \in d .. N + 1 : h[k][c] # h[d][c]
    OBVIOUS
  <2>3. k \in 1 .. N + 1 /\ k - 1 \in d - 1 .. N + 1 /\ k \in d - 1 .. N + 1 /\ d \in d - 1 .. N + 1
    BY <1>1, <2>1
  <2>4. c \in U(d - 1)
    BY <2>1, <2>2, <2>3
  <2>5. ASSUME \A i \in DOMAIN bases[c] : bases[c][i] \notin U(d - 1) PROVE FALSE
    <3>1. \A i \in DOMAIN bases[c] : h[k - 1][bases[c][i]] = h[d - 1][bases[c][i]]
      BY <2>1, <2>3, <2>5, BaseList
    <3> QED BY <2>1, <2>2, <2>3, <3>1
  <2>6. PICK i \in DOMAIN bases[c] : bases[c][i] \in U(d - 1)
    BY <2>5
  <2> QED BY <2>4, <2>6 DEF Uses
<1>3. \A d \in 0 .. N : IsFiniteSet(U(d)) /\ Cardinality(U(d)) \in Nat /\ Cardinality(U(d)) <= N
  <2> TAKE d \in 0 .. N
  <2>1. IsFiniteSet(Classes) /\ Cardinality(Classes) = N
    BY <1>1, FS_Interval DEF Classes
  <2>2. U(d) \in SUBSET Classes
    OBVIOUS
  <2> HIDE DEF U
  <2> QED BY <2>1, <2>2, FS_Subset, FS_CardinalityType
<1> DEFINE Wrong == {d \in Nat : d <= N /\ U(d) # {} /\ Cardinality(U(d)) + d > N}
<1>4. Wrong = {}
  <2> SUFFICES ASSUME Wrong # {} PROVE FALSE
    OBVIOUS
  <2>1. PICK d \in Wrong : \A e \in Wrong : ~(e < d)
    BY LeastNat
  <2>2. d \in 0 .. N /\ U(d) # {} /\ Cardinality(U(d)) + d > N
    BY <1>1, <2>1
  <2> HIDE DEF U
  <2>3. d # 0
    BY <1>1, <1>3, <2>2
  <2>4. d \in 1 .. N /\ d - 1 \in 0 .. N /\ d - 1 < d /\ d - 1 \in Nat
    BY <1>1, <2>2, <2>3
  <2>5. U(d) \in SUBSET U(d - 1)
    BY <1>2, <2>4
  <2>6. U(d) # U(d - 1)
    <3> SUFFICES ASSUME U(d) = U(d - 1) PROVE FALSE
      OBVIOUS
    <3>1. \A c \in U(d) : Uses(c) \cap U(d) # {}
      BY <1>2, <2>4
    <3>2. U(d) \in SUBSET Classes
      BY DEF U
    <3> QED BY <2>2, <3>1, <3>2 DEF WellFounded
  <2>7. Cardinality(U(d)) <= Cardinality(U(d - 1)) /\ Cardinality(U(d)) # Cardinality(U(d - 1))
    BY <1>3, <2>4, <2>5, <2>6, FS_Subset
  <2>8. U(d - 1) # {} /\ d - 1 \notin Wrong
    BY <2>1, <2>2, <2>4, <2>5
  <2>9. Cardinality(U(d - 1)) + (d - 1) <= N
    BY <1>1, <1>3, <2>4, <2>8
  <2>10. Cardinality(U(d)) \in Nat /\ Cardinality(U(d - 1)) \in Nat /\ d \in Nat
    BY <1>3, <2>2, <2>4
  <2> DEFINE m == Cardinality(U(d))
             n == Cardinality(U(d - 1))
  <2>11. m \in Nat /\ n \in Nat /\ m <= n /\ m # n /\ n + (d - 1) <= N /\ m + d > N
    BY <2>2, <2>7, <2>9, <2>10
  <2> HIDE DEF m, n
  <2> QED BY <1>1, <2>10, <2>11
<1>5. U(N) = {}
  <2> SUFFICES ASSUME U(N) # {} PROVE FALSE
    OBVIOUS
  <2>1. N \in Nat /\ N <= N /\ N \in 0 .. N /\ N \notin Wrong
    BY <1>1, <1>4
  <2>2. Cardinality(U(N)) = 0 /\ IsFiniteSet(U(N))
    <3> HIDE DEF U
    <3> QED BY <1>3, <2>1
  <2> HIDE DEF U
  <2> QED BY <2>2, FS_EmptySet
<1> TAKE c \in Classes
<1>6. N + 1 \in N .. N + 1 /\ c \notin U(N)
  BY <1>1, <1>5
<1> QED BY <1>6

\* A recursion over the bases, level by level: there is one, and whatever
\* satisfies its equations is a solution of them without levels at level N.
LEMMA LevelsExist ==
    ASSUME NEW T, NEW base \in T, NEW F \in [T -> T]
    PROVE  \E g : /\ g = [d \in 0 .. N |-> g[d]] /\ g[0] = base
                  /\ \A d \in 1 .. N : g[d - 1] \in T /\ g[d] = F[g[d - 1]]
<1> DEFINE G == [p \in (1 .. N) \X T |-> F[p[2]]]
<1>1. N \in Nat /\ G \in [(1 .. N) \X T -> T] /\ \A i \in 1 .. N : \A h \in T : G[<<i, h>>] = F[h]
  BY NAssumption
<1> HIDE DEF G
<1>2. /\ \E g : Iterates(g, N, base, G)
      /\ \A g : Iterates(g, N, base, G) => \A i \in 0 .. N : g[i] \in T
  BY <1>1, Iterated
<1>3. PICK g : Iterates(g, N, base, G)
  BY <1>2
<1>4. g = [d \in 0 .. N |-> g[d]] /\ g[0] = base
  <2>1. g = [i \in 0 .. N |-> IF i = 0 THEN base ELSE G[<<i, g[i - 1]>>]] /\ 0 \in 0 .. N
    BY <1>1, <1>3 DEF Iterates
  <2> QED BY <2>1
<1>5. ASSUME NEW d \in 1 .. N PROVE g[d - 1] \in T /\ g[d] = F[g[d - 1]]
  <2>1. d \in 0 .. N /\ d # 0 /\ d - 1 \in 0 .. N
    BY <1>1
  <2>2. g[d] = G[<<d, g[d - 1]>>]
    BY <1>3, <2>1 DEF Iterates
  <2>3. g[d - 1] \in T
    BY <1>2, <1>3, <2>1
  <2> QED BY <1>1, <2>2, <2>3
<1> QED BY <1>4, <1>5

\* F is a step of such a recursion: what it says of a class depends on what
\* its argument says of the bases only.  The levels of g are those it makes.
OverBases(T, F) ==
    /\ F \in [T -> T]
    /\ \A h \in T : h = [c \in Classes |-> h[c]]
    /\ \A h, k \in T : \A c \in Classes :
          (\A i \in DOMAIN bases[c] : h[bases[c][i]] = k[bases[c][i]]) => F[h][c] = F[k][c]
Levels(T, base, F, g) ==
    /\ base \in T /\ g[0] = base
    /\ \A d \in 1 .. N : g[d - 1] \in T => g[d] = F[g[d - 1]]

LEMMA LevelsSettle ==
    ASSUME Declared, WellFounded, NEW T, NEW base, NEW F, NEW g,
           OverBases(T, F), Levels(T, base, F, g)
    PROVE  g[N] \in T /\ F[g[N]] = g[N]
<1> USE DEF OverBases, Levels
<1>1. N \in Nat /\ base \in T /\ \A h \in T : F[h] \in T
  BY NAssumption
<1>2. \A d \in 0 .. N : g[d] \in T
  <2> DEFINE Wrong == {d \in Nat : d \in 0 .. N /\ g[d] \notin T}
  <2> SUFFICES ASSUME Wrong # {} PROVE FALSE
    BY <1>1
  <2>1. PICK d \in Wrong : \A e \in Wrong : ~(e < d)
    BY LeastNat
  <2>2. d # 0
    BY <1>1, <2>1
  <2>3. d \in 1 .. N /\ d - 1 \in 0 .. N /\ d - 1 < d
    BY <1>1, <2>1, <2>2
  <2>4. g[d - 1] \in T
    BY <2>1, <2>3
  <2> QED BY <1>1, <2>1, <2>3, <2>4
<1> DEFINE h == [d \in 0 .. N + 1 |-> IF d = N + 1 THEN F[g[N]] ELSE g[d]]
<1>3. /\ h[N] = g[N] /\ h[N + 1] = F[g[N]] /\ g[N] \in T /\ F[g[N]] \in T
      /\ \A d \in 1 .. N + 1 : h[d - 1] \in T /\ h[d] = F[h[d - 1]]
  <2>1. N \in 0 .. N /\ N + 1 \in 0 .. N + 1 /\ N # N + 1 /\ N \in 0 .. N + 1
    BY <1>1
  <2>2. h[N] = g[N] /\ h[N + 1] = F[g[N]] /\ g[N] \in T /\ F[g[N]] \in T
    BY <1>1, <1>2, <2>1
  <2>3. ASSUME NEW d \in 1 .. N + 1 PROVE h[d - 1] \in T /\ h[d] = F[h[d - 1]]
    <3>1. d - 1 \in 0 .. N /\ d - 1 \in 0 .. N + 1 /\ d - 1 # N + 1 /\ d \in 0 .. N + 1
      BY <1>1
    <3>2. h[d - 1] = g[d - 1] /\ g[d - 1] \in T
      BY <1>2, <3>1
    <3>3. CASE d = N + 1
      <4>1. h[d] = F[g[N]] /\ d - 1 = N
        BY <1>1, <3>1, <3>3
      <4> QED BY <3>2, <4>1
    <3>4. CASE d # N + 1
      <4>1. d \in 1 .. N /\ h[d] = g[d]
        BY <1>1, <3>1, <3>4
      <4> QED BY <3>2, <4>1
    <3> QED BY <3>3, <3>4
  <2> QED BY <2>2, <2>3
<1> HIDE DEF h
<1>4. ASSUME NEW d \in 1 .. N + 1, NEW k \in 1 .. N + 1, NEW c \in Classes,
             \A i \in DOMAIN bases[c] : h[d - 1][bases[c][i]] = h[k - 1][bases[c][i]]
      PROVE  h[d][c] = h[k][c]
  <2>1. h[d - 1] \in T /\ h[k - 1] \in T /\ h[d] = F[h[d - 1]] /\ h[k] = F[h[k - 1]]
    BY <1>3
  <2> QED BY <1>4, <2>1
<1>5. \A c \in Classes : h[N + 1][c] = h[N][c]
  BY <1>4, Settled
<1> QED BY <1>3, <1>5

\* The list of a class is the concatenation of the lists of its bases, with
\* its own fields behind, in any hierarchy that is well founded.
LEMMA FlatFixed ==
    ASSUME Declared, WellFounded
    PROVE  Flat \in FlatTables /\ Flat = FlatStep(Flat)
<1> DEFINE F == [h \in FlatTables |-> FlatStep(h)]
<1>1. PICK f : Flats(f) /\ Flat = f[N]
  BY FlatIs
<1>2. N \in Nat /\ f[0] = NoFields /\ \A d \in 1 .. N : f[d] = FlatStep(f[d - 1])
  <2>1. N \in Nat
    BY NAssumption
  <2>2. \A d \in 0 .. N : f[d] =
          [c \in Classes |-> IF d = 0 THEN <<>>
             ELSE FlattenSeq([i \in DOMAIN bases[c] |-> f[d - 1][bases[c][i]]]) \o fields[c]]
    BY <1>1 DEF Flats
  <2>3. f[0] = NoFields
    BY <2>1, <2>2 DEF NoFields
  <2>4. \A d \in 1 .. N : f[d] = FlatStep(f[d - 1])
    <3> TAKE d \in 1 .. N
    <3>1. d \in 0 .. N /\ d # 0
      BY <2>1
    <3> QED BY <2>2, <3>1 DEF FlatStep
  <2> QED BY <2>1, <2>3, <2>4
<1>3. F \in [FlatTables -> FlatTables] /\ \A h \in FlatTables : F[h] = FlatStep(h)
  BY FlatStepTyped
<1> HIDE DEF F
<1>4. OverBases(FlatTables, F)
  <2>1. ASSUME NEW h \in FlatTables, NEW k \in FlatTables, NEW c \in Classes,
               \A i \in DOMAIN bases[c] : h[bases[c][i]] = k[bases[c][i]]
        PROVE  F[h][c] = F[k][c]
    <3>1. [i \in DOMAIN bases[c] |-> h[bases[c][i]]] = [i \in DOMAIN bases[c] |-> k[bases[c][i]]]
      BY <2>1
    <3>2. FlatStep(h)[c] = FlatStep(k)[c]
      BY <3>1 DEF FlatStep
    <3> QED BY <1>3, <3>2
  <2>2. \A h \in FlatTables : h = [c \in Classes |-> h[c]]
    BY DEF FlatTables
  <2> QED BY <1>3, <2>1, <2>2 DEF OverBases
<1>5. Levels(FlatTables, NoFields, F, f)
  <2>1. NoFields \in FlatTables
    BY DEF NoFields, FlatTables
  <2> QED BY <1>2, <1>3, <2>1 DEF Levels
<1>6. f[N] \in FlatTables /\ F[f[N]] = f[N]
  BY <1>4, <1>5, LevelsSettle
<1> QED BY <1>1, <1>3, <1>6

-----------------------------------------------------------------------------
(***************************************************************************)
(* Sizes.                                                                  *)
(***************************************************************************)
PlacedRecs == [name : STRING, type : Types, offset : Nat]
Layouts == [fields : Seq(PlacedRecs), total : Nat]

\* Rounding up to a multiple of an alignment.
LEMMA RoundedUp ==
    ASSUME NEW n \in Nat, NEW a \in 1 .. 8
    PROVE  RoundUp(n, a) \in Nat /\ n <= RoundUp(n, a) /\ RoundUp(n, a) % a = 0
<1>1. a = 1 \/ a = 2 \/ a = 3 \/ a = 4 \/ a = 5 \/ a = 6 \/ a = 7 \/ a = 8
  OBVIOUS
<1> QED BY <1>1 DEF RoundUp

LEMMA Product == ASSUME NEW a \in Nat, NEW b \in Nat PROVE a * b \in Nat
OBVIOUS

LEMMA Sizes ==
    ASSUME structs \in Seq(Layouts), NEW t \in Types
    PROVE  /\ ElemSize(t) \in Nat /\ Size(t) \in Nat /\ Align(t) \in 1 .. 8
           /\ t.cls \in 0 .. N /\ t.count \in Nat
<1>1. t.cls \in 0 .. N /\ t.size \in Nat /\ t.count \in Nat
  BY DEF Types
<1>2. \A c \in DOMAIN structs : structs[c].total \in Nat
  <2>1. \A c \in DOMAIN structs : structs[c] \in Layouts
    OBVIOUS
  <2> QED BY <2>1 DEF Layouts
<1>3. ElemSize(t) \in Nat
  BY <1>1, <1>2 DEF ElemSize
<1>4. Size(t) \in Nat
  BY <1>1, <1>3, Product DEF Size
<1>5. Align(t) \in 1 .. 8
  <2> DEFINE e == ElemSize(t)
  <2>1. Align(t) = IF e = 0 THEN 1 ELSE IF e > 8 THEN 8 ELSE e
    BY DEF Align
  <2> HIDE DEF e
  <2>2. e \in Nat
    BY <1>3 DEF e
  <2> QED BY <2>1, <2>2
<1> QED BY <1>1, <1>3, <1>4, <1>5

\* A class more leaves the sizes of the types made of earlier ones alone.
LEMMA SizesKept ==
    ASSUME structs \in Seq(Layouts), NEW l \in Layouts, structs' = Append(structs, l),
           NEW t \in Types, t.cls <= Len(structs)
    PROVE  Size(t)' = Size(t) /\ Align(t)' = Align(t)
<1>1. Len(structs) \in Nat /\ DOMAIN structs = 1 .. Len(structs) /\ t.cls \in Nat
  BY LenProperties DEF Types
<1>2. DOMAIN structs' = 1 .. Len(structs) + 1 /\ \A c \in 1 .. Len(structs) : structs'[c] = structs[c]
  BY <1>1
<1>3. ElemSize(t)' = ElemSize(t)
  BY <1>1, <1>2 DEF ElemSize
<1> QED BY <1>3 DEF Size, Align

-----------------------------------------------------------------------------
(***************************************************************************)
(* layout_struct.                                                          *)
(***************************************************************************)
\* The fields fs of class c are made of classes laid out before it.
MadeOf(fs, c) == \A i \in DOMAIN fs : fs[i].type.cls < c

\* The fields fs come one after the other, and end before `top`.
Chained(fs, top) ==
    \A i \in DOMAIN fs :
        /\ fs[i].offset + Size(fs[i].type) <= top
        /\ \A j \in DOMAIN fs : i < j => fs[i].offset + Size(fs[i].type) <= fs[j].offset

StructTyped ==
    /\ Declared
    /\ phase \in {"class", "fields", "emit", "rejected"}
    /\ structs \in Seq(Layouts) /\ Len(structs) <= N
    /\ phase \in {"class", "fields"} => cur = Len(structs) + 1
    /\ phase = "fields" => cur <= N
    /\ todo \in Seq(FieldRecs)
    /\ placed \in Seq(PlacedRecs)
    /\ offset \in Nat

StructIInv ==
    /\ StructTyped
    /\ TypesFirst =>
          /\ phase = "fields" => MadeOf(todo, cur) /\ MadeOf(placed, cur) /\ Chained(placed, offset)
          /\ \A c \in DOMAIN structs : /\ MadeOf(Fields(c), c)
                                       /\ Chained(Fields(c), structs[c].total)

LEMMA SameProgram ==
    ASSUME UNCHANGED program
    PROVE  Flat' = Flat /\ TypesFirst' = TypesFirst /\ Declared' = Declared
<1>1. Flat' = Flat
  BY DEF program, Flat
<1> QED BY <1>1 DEF program, TypesFirst, Declared

LEMMA StructInit == Init => StructIInv
BY NAssumption DEF Init, StructIInv, StructTyped, Declared, TypesFirst

LEMMA StartClassStep == StructIInv /\ StartClass => StructIInv'
<1> SUFFICES ASSUME StructIInv, StartClass PROVE StructIInv'
  OBVIOUS
<1>1. UNCHANGED program /\ UNCHANGED structs /\ phase = "class" /\ phase' = "fields" /\ cur' = cur
      /\ placed' = <<>> /\ offset' = 0 /\ todo' = Flat[cur] /\ cur <= N
  BY DEF StartClass
<1>2. TypesFirst' = TypesFirst /\ Declared' /\ structs \in Seq(Layouts) /\ cur = Len(structs) + 1
      /\ Len(structs) <= N
  BY <1>1, SameProgram DEF StructIInv, StructTyped
<1>3. cur \in Classes
  BY <1>1, <1>2, NAssumption, LenProperties DEF Classes
<1>4. todo' \in Seq(FieldRecs)
  BY <1>1, <1>3, FlatTyped DEF StructIInv, StructTyped
<1>5. StructTyped'
  BY <1>1, <1>2, <1>4 DEF StructTyped
<1>6. TypesFirst => MadeOf(todo', cur)
  BY <1>1, <1>3 DEF TypesFirst, MadeOf
<1> QED BY <1>1, <1>2, <1>5, <1>6 DEF StructIInv, MadeOf, Chained, Fields, Size, ElemSize

LEMMA PlaceFieldStep == StructIInv /\ PlaceField => StructIInv'
<1> SUFFICES ASSUME StructIInv, PlaceField PROVE StructIInv'
  OBVIOUS
<1> DEFINE f == Head(todo)
           t == f.type
           pos == Start(offset, t)
           e == End(pos, t)
           g == [name |-> f.name, type |-> t, offset |-> pos]
<1>1. /\ UNCHANGED program /\ UNCHANGED <<structs, phase, cur>> /\ phase = "fields"
      /\ todo # <<>> /\ todo' = Tail(todo)
      /\ placed' = Append(placed, g) /\ offset' = e
  BY DEF PlaceField
<1>2. /\ TypesFirst' = TypesFirst /\ Declared' /\ StructTyped /\ structs \in Seq(Layouts)
      /\ offset \in Nat /\ todo \in Seq(FieldRecs)
      /\ placed \in Seq(PlacedRecs)
  BY <1>1, SameProgram DEF StructIInv, StructTyped
<1>3. f \in FieldRecs /\ f = todo[1] /\ 1 \in DOMAIN todo /\ todo' \in Seq(FieldRecs)
      /\ \A i \in DOMAIN todo' : i + 1 \in DOMAIN todo /\ todo'[i] = todo[i + 1]
  BY <1>1, <1>2
<1>4. t \in Types /\ f.name \in STRING
  BY <1>3 DEF FieldRecs
<1>5. /\ Size(t) \in Nat /\ pos \in Nat /\ offset <= pos /\ e = pos + Size(t) /\ e \in Nat
  <2>1. Size(t) \in Nat /\ Align(t) \in 1 .. 8
    BY <1>2, <1>4, Sizes
  <2>2. pos \in Nat /\ offset <= pos
    BY <1>2, <2>1, RoundedUp DEF Start
  <2> QED BY <2>1, <2>2 DEF End
<1>6. \A u : Size(u)' = Size(u)
  BY <1>1 DEF Size, ElemSize
<1> HIDE DEF f, t, pos, e
<1>7. g \in PlacedRecs /\ g.type = t /\ g.offset = pos
  BY <1>4, <1>5 DEF PlacedRecs
<1> HIDE DEF g
<1>8. /\ placed' \in Seq(PlacedRecs)
      /\ DOMAIN placed = 1 .. Len(placed) /\ Len(placed) \in Nat
      /\ DOMAIN placed' = 1 .. Len(placed) + 1
      /\ \A i \in 1 .. Len(placed) : placed'[i] = placed[i]
      /\ placed'[Len(placed) + 1] = g
  BY <1>1, <1>2, <1>7, LenProperties
<1>9. StructTyped'
  BY <1>1, <1>2, <1>3, <1>5, <1>8 DEF StructTyped
<1>10. ASSUME TypesFirst PROVE MadeOf(todo', cur) /\ MadeOf(placed', cur)
  <2>1. MadeOf(todo, cur) /\ MadeOf(placed, cur)
    BY <1>1, <1>10 DEF StructIInv
  <2>2. t.cls < cur
    BY <1>3, <2>1 DEF MadeOf, t
  <2>3. MadeOf(placed', cur)
    BY <1>7, <1>8, <2>1, <2>2 DEF MadeOf
  <2> QED BY <1>3, <2>1, <2>3 DEF MadeOf
<1>11. ASSUME Chained(placed, offset) PROVE Chained(placed', offset')
  <2> SUFFICES ASSUME NEW i \in DOMAIN placed'
               PROVE  /\ placed'[i].offset + Size(placed'[i].type) <= e
                      /\ \A j \in DOMAIN placed' : i < j =>
                             placed'[i].offset + Size(placed'[i].type) <= placed'[j].offset
    BY <1>1, <1>6 DEF Chained
  <2>1. CASE i = Len(placed) + 1
    BY <1>5, <1>7, <1>8, <2>1
  <2>2. CASE i # Len(placed) + 1
    <3>1. i \in DOMAIN placed /\ placed'[i] = placed[i]
      BY <1>8, <2>2
    <3> DEFINE o == placed[i].offset
               z == Size(placed[i].type)
    <3>2. /\ o + z <= offset
          /\ \A j \in DOMAIN placed : i < j => o + z <= placed[j].offset
      BY <1>11, <3>1 DEF Chained
    <3>3. o \in Nat /\ z \in Nat
      <4>1. placed[i] \in PlacedRecs
        BY <1>2, <3>1
      <4>2. o \in Nat /\ placed[i].type \in Types
        BY <4>1 DEF PlacedRecs
      <4> QED BY <1>2, <4>2, Sizes
    <3> HIDE DEF o, z
    <3>4. o + z <= e /\ o + z <= pos
      BY <1>2, <1>5, <3>2, <3>3
    <3>5. ASSUME NEW j \in DOMAIN placed', i < j PROVE o + z <= placed'[j].offset
      <4>1. CASE j = Len(placed) + 1
        BY <1>7, <1>8, <3>4, <4>1
      <4>2. CASE j # Len(placed) + 1
        <5>1. j \in DOMAIN placed /\ placed'[j] = placed[j]
          BY <1>8, <4>2
        <5> QED BY <3>2, <3>5, <5>1
      <4> QED BY <4>1, <4>2
    <3> QED BY <3>1, <3>4, <3>5 DEF o, z
  <2> QED BY <2>1, <2>2
<1> QED BY <1>1, <1>2, <1>6, <1>9, <1>10, <1>11 DEF StructIInv, Chained, MadeOf, Fields

\* The fields of classes laid out before keep their sizes.
LEMMA ChainedKept ==
    ASSUME structs \in Seq(Layouts), NEW l \in Layouts, structs' = Append(structs, l),
           NEW fs \in Seq(PlacedRecs), NEW c \in Nat, c <= Len(structs) + 1, MadeOf(fs, c),
           NEW top \in Nat, Chained(fs, top)
    PROVE  \A i \in DOMAIN fs :
              /\ fs[i].offset + Size(fs[i].type)' <= top
              /\ \A j \in DOMAIN fs : i < j => fs[i].offset + Size(fs[i].type)' <= fs[j].offset
<1> SUFFICES ASSUME NEW i \in DOMAIN fs PROVE Size(fs[i].type)' = Size(fs[i].type)
  BY DEF Chained
<1>1. fs[i] \in PlacedRecs
  OBVIOUS
<1>2. fs[i].type \in Types /\ fs[i].type.cls \in Int /\ Len(structs) \in Nat
  BY <1>1, NAssumption, LenProperties DEF PlacedRecs, Types
<1>3. fs[i].type.cls < c
  BY DEF MadeOf
<1>4. fs[i].type.cls <= Len(structs)
  BY <1>2, <1>3
<1> QED BY <1>2, <1>4, SizesKept

LEMMA FinishClassStep == StructIInv /\ FinishClass => StructIInv'
<1> SUFFICES ASSUME StructIInv, FinishClass PROVE StructIInv'
  OBVIOUS
<1> DEFINE l == [fields |-> placed, total |-> Total]
<1>1. /\ UNCHANGED program /\ phase = "fields" /\ phase' = "class"
      /\ structs' = Append(structs, l) /\ cur' = cur + 1 /\ UNCHANGED <<todo, placed, offset>>
  BY DEF FinishClass
<1>2. /\ TypesFirst' = TypesFirst /\ Declared' /\ StructTyped /\ structs \in Seq(Layouts)
      /\ offset \in Nat /\ placed \in Seq(PlacedRecs) /\ cur = Len(structs) + 1
  BY <1>1, SameProgram DEF StructIInv, StructTyped
<1>3. Total \in Nat /\ offset <= Total
  <2>1. 8 \in 1 .. 8
    OBVIOUS
  <2>2. RoundUp(offset, 8) \in Nat /\ offset <= RoundUp(offset, 8)
    BY <1>2, <2>1, RoundedUp
  <2> QED BY <2>2 DEF Total
<1>4. l \in Layouts /\ l.fields = placed /\ l.total = Total
  BY <1>2, <1>3 DEF Layouts
<1> HIDE DEF l
<1>5. /\ structs' \in Seq(Layouts) /\ Len(structs') = Len(structs) + 1 /\ Len(structs) \in Nat
      /\ DOMAIN structs = 1 .. Len(structs) /\ DOMAIN structs' = 1 .. Len(structs) + 1
      /\ \A c \in 1 .. Len(structs) : structs'[c] = structs[c]
      /\ structs'[Len(structs) + 1] = l
  BY <1>1, <1>2, <1>4, LenProperties
<1>6. StructTyped'
  BY <1>1, <1>2, <1>5 DEF StructTyped
<1>7. ASSUME TypesFirst, NEW c \in DOMAIN structs', NEW fs, fs = structs'[c].fields,
             NEW top, top = structs'[c].total
      PROVE  MadeOf(fs, c) /\ Chained(fs, top)'
  <2>1. fs \in Seq(PlacedRecs) /\ top \in Nat /\ c \in Nat /\ c <= Len(structs) + 1
    <3>1. structs'[c] \in Layouts
      BY <1>5, <1>7
    <3> QED BY <1>5, <1>7, <3>1 DEF Layouts
  <2>2. MadeOf(fs, c) /\ Chained(fs, top)
    <3>1. CASE c = Len(structs) + 1
      <4>1. MadeOf(placed, cur) /\ Chained(placed, offset)
        BY <1>1, <1>7 DEF StructIInv
      <4>2. \A i \in DOMAIN placed : placed[i].offset + Size(placed[i].type) <= Total
        <5> SUFFICES ASSUME NEW i \in DOMAIN placed
                     PROVE  placed[i].offset + Size(placed[i].type) <= Total
          OBVIOUS
        <5>1. placed[i] \in PlacedRecs
          BY <1>2
        <5>2. placed[i].offset \in Nat /\ placed[i].type \in Types
          BY <5>1 DEF PlacedRecs
        <5>3. Size(placed[i].type) \in Nat /\ placed[i].offset + Size(placed[i].type) <= offset
          BY <1>2, <4>1, <5>2, Sizes DEF Chained
        <5> QED BY <1>2, <1>3, <5>2, <5>3
      <4>3. Chained(placed, Total)
        BY <4>1, <4>2 DEF Chained
      <4> QED BY <1>2, <1>4, <1>5, <1>7, <3>1, <4>1, <4>3
    <3>2. CASE c # Len(structs) + 1
      <4>1. c \in DOMAIN structs /\ structs'[c] = structs[c]
        BY <1>5, <3>2
      <4>2. MadeOf(structs[c].fields, c) /\ Chained(structs[c].fields, structs[c].total)
        BY <1>7, <4>1 DEF StructIInv, Fields
      <4>3. fs = structs[c].fields /\ top = structs[c].total
        BY <1>7, <4>1
      <4> QED BY <4>2, <4>3
    <3> QED BY <3>1, <3>2
  <2>3. \A i \in DOMAIN fs :
           /\ fs[i].offset + Size(fs[i].type)' <= top
           /\ \A j \in DOMAIN fs : i < j => fs[i].offset + Size(fs[i].type)' <= fs[j].offset
    BY <1>1, <1>2, <1>4, <2>1, <2>2, ChainedKept
  <2> QED BY <2>2, <2>3 DEF Chained
<1>8. ASSUME TypesFirst', NEW c \in DOMAIN structs'
      PROVE  (MadeOf(Fields(c), c) /\ Chained(Fields(c), structs[c].total))'
  BY <1>2, <1>7, <1>8 DEF Chained, MadeOf, Fields
<1>9. phase' # "fields"
  BY <1>1
<1> QED BY <1>2, <1>6, <1>8, <1>9 DEF StructIInv

\* Steps that leave the table alone and are not in layout_struct.
LEMMA ElsewhereStep ==
    ASSUME StructIInv, UNCHANGED <<program, structs, todo, placed, offset>>,
           phase' \in {"emit", "rejected"} \/ UNCHANGED <<phase, cur>>
    PROVE  StructIInv'
<1>1. TypesFirst' = TypesFirst /\ Declared' = Declared
  BY SameProgram
<1> QED BY <1>1 DEF StructIInv, StructTyped, Chained, MadeOf, Fields, Size, ElemSize

LEMMA StructStep == StructIInv /\ [Step]_<<vars, dataVars>> => StructIInv'
<1> SUFFICES ASSUME StructIInv, [Step]_<<vars, dataVars>> PROVE StructIInv'
  OBVIOUS
<1>1. CASE UNCHANGED <<vars, dataVars>>
  BY <1>1, ElsewhereStep DEF vars, program
<1>2. CASE UNCHANGED dataVars /\ \E i \in DOMAIN globals : RejectGlobal(i)
  BY <1>2, ElsewhereStep DEF RejectGlobal
<1>3. CASE UNCHANGED vars
  BY <1>3, ElsewhereStep DEF vars, program
<1>4. CASE DuplicateField \/ CollectMethods
  BY <1>4, ElsewhereStep DEF DuplicateField, CollectMethods
<1>5. CASE \E c \in Classes, m \in Methods, ptr \in BOOLEAN : MethodCall(c, m, ptr)
  BY <1>5, ElsewhereStep DEF MethodCall
<1> QED
  BY <1>1, <1>2, <1>3, <1>4, <1>5, StartClassStep, PlaceFieldStep, FinishClassStep
  DEF Step, Next, DataNext

LEMMA StructInvariance == DataSpec => []StructIInv
BY StructInit, StructStep, PTL DEF DataSpec

\* Fields of an object never overlap and lie inside it, for any classes that
\* are declared after the classes their fields are made of (layout_struct).
THEOREM FieldsNeverOverlap == DataSpec => []FieldsApart
<1>1. StructIInv => FieldsApart
  <2> SUFFICES ASSUME StructIInv, TypesFirst, NEW c \in DOMAIN structs PROVE Apart(c)
    BY DEF FieldsApart
  <2>1. structs \in Seq(Layouts) /\ Chained(Fields(c), structs[c].total)
    BY DEF StructIInv, StructTyped
  <2>2. structs[c] \in Layouts
    BY <2>1
  <2> DEFINE fs == Fields(c)
  <2>3. fs \in Seq(PlacedRecs) /\ structs[c].total \in Nat /\ DOMAIN fs \subseteq Nat
    BY <2>2, LenProperties DEF Layouts, Fields
  <2>4. ASSUME NEW i \in DOMAIN fs
        PROVE  fs[i].offset \in Nat /\ Size(fs[i].type) \in Nat
    <3>1. fs[i] \in PlacedRecs
      BY <2>3
    <3>2. fs[i].offset \in Nat /\ fs[i].type \in Types
      BY <3>1 DEF PlacedRecs
    <3> QED BY <2>1, <3>2, Sizes
  <2> HIDE DEF fs
  <2>5. \A i \in DOMAIN fs :
           /\ fs[i].offset + Size(fs[i].type) <= structs[c].total
           /\ \A j \in DOMAIN fs : i < j => fs[i].offset + Size(fs[i].type) <= fs[j].offset
    BY <2>1 DEF Chained, fs
  <2>6. ASSUME NEW i \in DOMAIN fs PROVE Bytes(fs[i]) \subseteq 0 .. structs[c].total - 1
    BY <2>3, <2>4, <2>5 DEF Bytes
  <2>7. ASSUME NEW i \in DOMAIN fs, NEW j \in DOMAIN fs, i < j
        PROVE  Bytes(fs[i]) \cap Bytes(fs[j]) = {}
    <3>1. fs[i].offset + Size(fs[i].type) <= fs[j].offset
      BY <2>5, <2>7
    <3> QED BY <2>4, <3>1 DEF Bytes
  <2>8. ASSUME NEW i \in DOMAIN fs, NEW j \in DOMAIN fs, i # j
        PROVE  Bytes(fs[i]) \cap Bytes(fs[j]) = {}
    <3>1. i < j \/ j < i
      BY <2>3, <2>8
    <3> QED BY <2>7, <3>1
  <2> QED BY <2>6, <2>8 DEF Apart, fs
<1> QED BY <1>1, StructInvariance, PTL

-----------------------------------------------------------------------------
(***************************************************************************)
(* An object of a derived class starts with one of its first base.         *)
(***************************************************************************)
\* Where the i-th of the fields fs ends; before the first one, 0.
EndOf(fs, i) == IF i = 0 THEN 0 ELSE End(fs[i].offset, fs[i].type)

\* The fields fs are the beginning of the list `flat`, each put where the one
\* before it ends.
Laid(fs, flat) ==
    /\ Len(fs) <= Len(flat)
    /\ \A i \in DOMAIN fs :
          /\ fs[i].name = flat[i].name /\ fs[i].type = flat[i].type
          /\ fs[i].offset = Start(EndOf(fs, i - 1), fs[i].type)

FlatIInv ==
    /\ WellFounded
    /\ phase = "fields" =>
          /\ Len(placed) + Len(todo) = Len(Flat[cur])
          /\ \A i \in DOMAIN todo : todo[i] = Flat[cur][Len(placed) + i]
    /\ TypesFirst =>
          /\ phase = "fields" => Laid(placed, Flat[cur]) /\ offset = EndOf(placed, Len(placed))
          /\ \A c \in DOMAIN structs :
                Len(Fields(c)) = Len(Flat[c]) /\ Laid(Fields(c), Flat[c])

LEMMA FlatInit == Init => FlatIInv
BY DEF Init, FlatIInv, TypesFirst

LEMMA SameWellFounded == UNCHANGED program => WellFounded' = WellFounded
BY DEF program, WellFounded, Uses

\* Nothing but the sizes of the types in a layout matters to it.
LEMMA LaidKept ==
    ASSUME NEW fs \in Seq(PlacedRecs), NEW flat,
           \A i \in DOMAIN fs : Size(fs[i].type)' = Size(fs[i].type) /\ Align(fs[i].type)' = Align(fs[i].type)
    PROVE  Laid(fs, flat)' = Laid(fs, flat)
<1>1. \A i \in DOMAIN fs : i = 1 \/ i - 1 \in DOMAIN fs
  BY LenProperties
<1>2. ASSUME NEW i \in DOMAIN fs
      PROVE  Start(EndOf(fs, i - 1), fs[i].type)' = Start(EndOf(fs, i - 1), fs[i].type)
  <2>1. EndOf(fs, i - 1)' = EndOf(fs, i - 1)
    <3>1. CASE i = 1
      BY <3>1 DEF EndOf
    <3>2. CASE i - 1 \in DOMAIN fs
      BY <3>2 DEF EndOf, End
    <3> QED BY <1>1, <3>1, <3>2
  <2> QED BY <2>1 DEF Start
<1> QED BY <1>2 DEF Laid

LEMMA LaidStart == StructIInv /\ FlatIInv /\ StartClass => FlatIInv'
<1> SUFFICES ASSUME StructIInv, FlatIInv, StartClass PROVE FlatIInv'
  OBVIOUS
<1>1. UNCHANGED <<program, structs, cur>> /\ placed' = <<>> /\ offset' = 0 /\ todo' = Flat[cur]
      /\ phase = "class" /\ cur <= N
  BY DEF StartClass
<1>2. /\ TypesFirst' = TypesFirst /\ Flat' = Flat /\ WellFounded' = WellFounded
      /\ \A t : Size(t)' = Size(t) /\ Align(t)' = Align(t)
  BY <1>1, SameProgram, SameWellFounded DEF Size, Align, ElemSize
<1>3. cur \in Classes /\ Declared
  BY <1>1, NAssumption, LenProperties DEF Classes, StructIInv, StructTyped
<1>4. Flat[cur] \in Seq(FieldRecs) /\ Len(Flat[cur]) \in Nat
  BY <1>3, FlatTyped, LenProperties
<1>5. /\ Len(placed') + Len(todo') = Len(Flat[cur])
      /\ \A i \in DOMAIN todo' : todo'[i] = Flat[cur][Len(placed') + i]
  BY <1>1, <1>4
<1>6. Laid(<<>>, Flat[cur])' /\ EndOf(<<>>, Len(<<>>))' = 0
  BY <1>1, <1>2, <1>4 DEF Laid, EndOf
<1>7. ASSUME TypesFirst, NEW c \in DOMAIN structs
      PROVE  (Len(Fields(c)) = Len(Flat[c]) /\ Laid(Fields(c), Flat[c]))'
  BY <1>1, <1>2, <1>7 DEF FlatIInv, Fields, Laid, Start, EndOf, End
<1> QED BY <1>1, <1>2, <1>5, <1>6, <1>7 DEF FlatIInv

LEMMA LaidPlace == StructIInv /\ FlatIInv /\ PlaceField => FlatIInv'
<1> SUFFICES ASSUME StructIInv, FlatIInv, PlaceField PROVE FlatIInv'
  OBVIOUS
<1> DEFINE f == Head(todo)
           t == f.type
           pos == Start(offset, t)
           g == [name |-> f.name, type |-> t, offset |-> pos]
           n == Len(placed)
           flat == Flat[cur]
<1>1. /\ UNCHANGED <<program, structs, cur>> /\ phase = "fields" /\ todo # <<>>
      /\ todo' = Tail(todo) /\ placed' = Append(placed, g) /\ offset' = End(pos, t)
  BY DEF PlaceField
<1>2. /\ TypesFirst' = TypesFirst /\ Flat' = Flat /\ WellFounded' = WellFounded
      /\ \A u : Size(u)' = Size(u) /\ Align(u)' = Align(u)
  BY <1>1, SameProgram, SameWellFounded DEF Size, Align, ElemSize
<1>3. /\ todo \in Seq(FieldRecs) /\ placed \in Seq(PlacedRecs) /\ structs \in Seq(Layouts)
      /\ offset \in Nat /\ n + Len(todo) = Len(flat)
      /\ \A i \in DOMAIN todo : todo[i] = flat[n + i]
  BY <1>1 DEF StructIInv, StructTyped, FlatIInv
<1>4. /\ f \in FieldRecs /\ f = todo[1] /\ 1 \in DOMAIN todo
      /\ Len(todo') = Len(todo) - 1 /\ Len(todo) \in Nat
      /\ \A i \in DOMAIN todo' : i \in Nat /\ i + 1 \in DOMAIN todo /\ todo'[i] = todo[i + 1]
  BY <1>1, <1>3
<1>5. t \in Types /\ f.name \in STRING /\ pos \in Nat
  <2>1. t \in Types /\ f.name \in STRING
    BY <1>4 DEF FieldRecs
  <2>2. Align(t) \in 1 .. 8
    BY <1>3, <2>1, Sizes
  <2> QED BY <1>3, <2>1, <2>2, RoundedUp DEF Start
<1>6. f = flat[n + 1]
  BY <1>3, <1>4
<1>7. g \in PlacedRecs /\ g.type = t /\ g.name = f.name /\ g.offset = pos
  <2> HIDE DEF pos
  <2> QED BY <1>5 DEF PlacedRecs
<1> HIDE DEF g
<1>8. /\ placed' \in Seq(PlacedRecs) /\ n \in Nat /\ Len(placed') = n + 1
      /\ DOMAIN placed = 1 .. n /\ DOMAIN placed' = 1 .. n + 1
      /\ \A i \in 1 .. n : placed'[i] = placed[i]
      /\ placed'[n + 1] = g
  BY <1>1, <1>3, <1>7, LenProperties
<1> HIDE DEF f, t, pos, n, flat
<1>9. /\ Len(placed') + Len(todo') = Len(flat)
      /\ \A i \in DOMAIN todo' : todo'[i] = flat[Len(placed') + i]
  <2>1. Len(placed') + Len(todo') = Len(flat)
    <3>1. n \in Nat /\ Len(todo) \in Nat /\ Len(placed') = n + 1 /\ Len(todo') = Len(todo) - 1
          /\ n + Len(todo) = Len(flat)
      BY <1>3, <1>4, <1>8
    <3> QED BY <3>1
  <2>2. ASSUME NEW i \in DOMAIN todo' PROVE todo'[i] = flat[Len(placed') + i]
    <3>1. i \in Nat /\ todo'[i] = flat[n + (i + 1)]
      BY <1>3, <1>4
    <3>2. n + (i + 1) = Len(placed') + i
      BY <1>8, <3>1
    <3> QED BY <3>1, <3>2
  <2> QED BY <2>1, <2>2
<1>10. ASSUME TypesFirst, NEW ps, ps = placed'
       PROVE  Laid(ps, flat) /\ End(pos, t) = EndOf(ps, Len(ps))
  <2>1. Laid(placed, flat) /\ offset = EndOf(placed, n)
    BY <1>1, <1>10 DEF FlatIInv, flat, n
  <2>2. Len(ps) <= Len(flat)
    <3>1. Len(todo) # 0
      BY <1>4
    <3> QED BY <1>3, <1>4, <1>8, <1>10, <3>1
  <2>3. EndOf(ps, n) = EndOf(placed, n)
    <3>1. n = 0 \/ n \in 1 .. n
      BY <1>8
    <3> QED BY <1>8, <1>10, <3>1 DEF EndOf
  <2>4. ASSUME NEW i \in DOMAIN ps
        PROVE  /\ ps[i].name = flat[i].name /\ ps[i].type = flat[i].type
               /\ ps[i].offset = Start(EndOf(ps, i - 1), ps[i].type)
    <3>1. CASE i = n + 1
      <4>1. ps[i] = g /\ i - 1 = n
        BY <1>8, <1>10, <3>1
      <4>2. ps[i].offset = Start(offset, t)
        BY <1>7, <4>1 DEF pos
      <4>3. f.type = t
        BY DEF t
      <4> QED BY <1>6, <1>7, <2>1, <2>3, <3>1, <4>1, <4>2, <4>3
    <3>2. CASE i # n + 1
      <4>1. i \in DOMAIN placed /\ ps[i] = placed[i]
        BY <1>8, <1>10, <3>2
      <4>2. EndOf(ps, i - 1) = EndOf(placed, i - 1)
        <5>1. i - 1 = 0 \/ i - 1 \in 1 .. n
          BY <1>8, <4>1
        <5> QED BY <1>8, <1>10, <5>1 DEF EndOf
      <4> QED BY <2>1, <4>1, <4>2 DEF Laid
    <3> QED BY <3>1, <3>2
  <2>5. EndOf(ps, Len(ps)) = End(pos, t)
    <3>1. Len(ps) = n + 1 /\ Len(ps) # 0 /\ ps[Len(ps)] = g
      BY <1>8, <1>10
    <3> QED BY <1>7, <3>1 DEF EndOf
  <2> QED BY <2>2, <2>4, <2>5 DEF Laid
<1>11. ASSUME TypesFirst
       PROVE  Laid(placed, Flat[cur])' /\ (offset = EndOf(placed, Len(placed)))'
  <2>1. \A ps : ps = placed' => Laid(ps, flat) /\ End(pos, t) = EndOf(ps, Len(ps))
    BY <1>10, <1>11
  <2>2. \A ps : Laid(ps, flat)' = Laid(ps, flat) /\ EndOf(ps, Len(ps))' = EndOf(ps, Len(ps))
    <3>1. flat' = flat
      BY <1>1, <1>2 DEF flat
    <3> QED BY <1>2, <3>1 DEF Laid, Start, EndOf, End
  <2>3. offset' = EndOf(placed, Len(placed))'
    <3>1. \A ps : ps = placed' => EndOf(ps, Len(ps))' = End(pos, t)
      BY <2>1, <2>2
    <3> QED BY <1>1, <3>1 DEF EndOf, End
  <2>4. \A ps : ps = placed' => Laid(ps, flat)'
    BY <2>1, <2>2
  <2>5. Laid(placed, Flat[cur])'
    <3>1. flat' = (Flat[cur])'
      BY DEF flat
    <3>2. Laid(placed, flat)'
      BY <2>4 DEF Laid, Start, EndOf, End
    <3> QED BY <3>1, <3>2 DEF Laid
  <2> QED BY <2>3, <2>5
<1>12. ASSUME TypesFirst, NEW c \in DOMAIN structs
       PROVE  (Len(Fields(c)) = Len(Flat[c]) /\ Laid(Fields(c), Flat[c]))'
  BY <1>1, <1>2, <1>12 DEF FlatIInv, Fields, Laid, Start, EndOf, End
<1> QED BY <1>1, <1>2, <1>9, <1>11, <1>12 DEF FlatIInv, flat

LEMMA LaidFinish == StructIInv /\ FlatIInv /\ FinishClass => FlatIInv'
<1> SUFFICES ASSUME StructIInv, FlatIInv, FinishClass PROVE FlatIInv'
  OBVIOUS
<1> DEFINE l == [fields |-> placed, total |-> Total]
<1>1. /\ UNCHANGED program /\ phase = "fields" /\ phase' = "class" /\ todo = <<>>
      /\ structs' = Append(structs, l)
  BY DEF FinishClass
<1>2. /\ TypesFirst' = TypesFirst /\ Flat' = Flat /\ WellFounded' = WellFounded
      /\ structs \in Seq(Layouts) /\ placed \in Seq(PlacedRecs) /\ cur = Len(structs) + 1
      /\ offset \in Nat
  BY <1>1, SameProgram, SameWellFounded DEF StructIInv, StructTyped
<1>3. l \in Layouts /\ l.fields = placed
  <2>1. 8 \in 1 .. 8
    OBVIOUS
  <2>2. Total \in Nat
    BY <1>2, <2>1, RoundedUp DEF Total
  <2> QED BY <1>2, <2>2 DEF Layouts
<1> HIDE DEF l
<1>4. /\ Len(structs) \in Nat /\ DOMAIN structs = 1 .. Len(structs)
      /\ DOMAIN structs' = 1 .. Len(structs) + 1
      /\ \A c \in 1 .. Len(structs) : structs'[c] = structs[c]
      /\ structs'[Len(structs) + 1] = l
  BY <1>1, <1>2, <1>3, LenProperties
<1>5. ASSUME TypesFirst, NEW c \in DOMAIN structs', NEW fs, fs = structs'[c].fields,
             NEW flat, flat = Flat[c]
      PROVE  Len(fs) = Len(flat) /\ Laid(fs, flat)'
  <2>1. /\ Len(fs) = Len(flat) /\ Laid(fs, flat) /\ MadeOf(fs, c) /\ fs \in Seq(PlacedRecs)
        /\ c \in Nat /\ c <= Len(structs) + 1
    <3>1. CASE c = Len(structs) + 1
      <4>1. fs = placed /\ c = cur
        BY <1>2, <1>3, <1>4, <1>5, <3>1
      <4>2. Laid(placed, Flat[cur]) /\ Len(placed) + Len(todo) = Len(Flat[cur]) /\ MadeOf(placed, cur)
        BY <1>1, <1>5 DEF FlatIInv, StructIInv
      <4>3. Len(todo) = 0 /\ Len(placed) \in Nat
        BY <1>1, <1>2, LenProperties
      <4> QED BY <1>2, <1>4, <1>5, <3>1, <4>1, <4>2, <4>3
    <3>2. CASE c # Len(structs) + 1
      <4>1. c \in DOMAIN structs /\ fs = Fields(c)
        BY <1>4, <1>5, <3>2 DEF Fields
      <4>2. Len(Fields(c)) = Len(Flat[c]) /\ Laid(Fields(c), Flat[c]) /\ MadeOf(Fields(c), c)
        BY <1>5, <4>1 DEF FlatIInv, StructIInv
      <4>3. structs[c] \in Layouts
        BY <1>2, <4>1
      <4>4. Fields(c) \in Seq(PlacedRecs)
        BY <4>3 DEF Fields, Layouts
      <4> QED BY <1>4, <1>5, <4>1, <4>2, <4>4
    <3> QED BY <3>1, <3>2
  <2>2. ASSUME NEW i \in DOMAIN fs
        PROVE  Size(fs[i].type)' = Size(fs[i].type) /\ Align(fs[i].type)' = Align(fs[i].type)
    <3>1. fs[i] \in PlacedRecs
      BY <2>1
    <3>2. fs[i].type \in Types /\ fs[i].type.cls \in Int
      BY <3>1, NAssumption DEF PlacedRecs, Types
    <3>3. fs[i].type.cls <= Len(structs)
      <4>1. fs[i].type.cls < c
        BY <2>1 DEF MadeOf
      <4> QED BY <1>4, <2>1, <3>2, <4>1
    <3> QED BY <1>1, <1>2, <1>3, <3>2, <3>3, SizesKept
  <2> QED BY <2>1, <2>2, LaidKept
<1>6. ASSUME TypesFirst', NEW c \in DOMAIN structs'
      PROVE  (Len(Fields(c)) = Len(Flat[c]) /\ Laid(Fields(c), Flat[c]))'
  <2>1. \A fs, flat : fs = structs'[c].fields /\ flat = Flat[c] => Len(fs) = Len(flat) /\ Laid(fs, flat)'
    BY <1>2, <1>5, <1>6
  <2> QED BY <1>2, <2>1 DEF Fields, Laid, Start, EndOf, End
<1>7. WellFounded' /\ phase' # "fields"
  BY <1>1, <1>2 DEF FlatIInv
<1> QED BY <1>6, <1>7 DEF FlatIInv

LEMMA LaidElsewhere ==
    ASSUME FlatIInv, UNCHANGED <<program, structs, todo, placed, offset>>,
           phase' \in {"emit", "rejected"} \/ UNCHANGED <<phase, cur>>
    PROVE  FlatIInv'
<1>1. /\ TypesFirst' = TypesFirst /\ Flat' = Flat /\ WellFounded' = WellFounded
      /\ \A t : Size(t)' = Size(t) /\ Align(t)' = Align(t)
  BY SameProgram, SameWellFounded DEF Size, Align, ElemSize
<1>2. ASSUME TypesFirst, NEW c \in DOMAIN structs
      PROVE  (Len(Fields(c)) = Len(Flat[c]) /\ Laid(Fields(c), Flat[c]))'
  BY <1>1, <1>2 DEF FlatIInv, Fields, Laid, Start, EndOf, End
<1>3. ASSUME phase' = "fields"
      PROVE  /\ (Len(placed) + Len(todo) = Len(Flat[cur]))'
             /\ (\A i \in DOMAIN todo : todo[i] = Flat[cur][Len(placed) + i])'
             /\ TypesFirst => (Laid(placed, Flat[cur]) /\ offset = EndOf(placed, Len(placed)))'
  <2>1. UNCHANGED <<phase, cur, todo, placed, offset>> /\ phase = "fields"
    BY <1>3
  <2>2. /\ (Len(placed) + Len(todo) = Len(Flat[cur]))'
        /\ (\A i \in DOMAIN todo : todo[i] = Flat[cur][Len(placed) + i])'
    BY <1>1, <2>1 DEF FlatIInv
  <2>3. ASSUME TypesFirst
        PROVE  (Laid(placed, Flat[cur]) /\ offset = EndOf(placed, Len(placed)))'
    BY <1>1, <2>1, <2>3 DEF FlatIInv, Laid, Start, EndOf, End
  <2> QED BY <2>2, <2>3
<1> QED BY <1>1, <1>2, <1>3 DEF FlatIInv

LEMMA FlatStepKept == StructIInv /\ FlatIInv /\ [Step]_<<vars, dataVars>> => FlatIInv'
<1> SUFFICES ASSUME StructIInv, FlatIInv, [Step]_<<vars, dataVars>> PROVE FlatIInv'
  OBVIOUS
<1>1. CASE UNCHANGED <<vars, dataVars>>
  BY <1>1, LaidElsewhere DEF vars, program
<1>2. CASE UNCHANGED dataVars /\ \E i \in DOMAIN globals : RejectGlobal(i)
  BY <1>2, LaidElsewhere DEF RejectGlobal
<1>3. CASE UNCHANGED vars
  BY <1>3, LaidElsewhere DEF vars, program
<1>4. CASE DuplicateField \/ CollectMethods
  BY <1>4, LaidElsewhere DEF DuplicateField, CollectMethods
<1>5. CASE \E c \in Classes, m \in Methods, ptr \in BOOLEAN : MethodCall(c, m, ptr)
  BY <1>5, LaidElsewhere DEF MethodCall
<1> QED
  BY <1>1, <1>2, <1>3, <1>4, <1>5, LaidStart, LaidPlace, LaidFinish DEF Step, Next, DataNext

LEMMA FlatInvariance == DataSpec => [](StructIInv /\ FlatIInv)
<1>1. StructIInv /\ FlatIInv /\ [Step]_<<vars, dataVars>> => (StructIInv /\ FlatIInv)'
  BY StructStep, FlatStepKept
<1> QED BY <1>1, StructInit, FlatInit, PTL DEF DataSpec

\* Layouts of the beginning of a list are the beginning of the layout of the
\* list: where a field goes depends on those before it only.
LEMMA LaidBegins ==
    ASSUME NEW fs \in Seq(PlacedRecs), NEW gs \in Seq(PlacedRecs),
           NEW flat \in Seq(FieldRecs), NEW flat2 \in Seq(FieldRecs), Begins(flat, flat2),
           Laid(fs, flat), Len(fs) = Len(flat), Laid(gs, flat2), Len(gs) = Len(flat2)
    PROVE  IsPrefix(fs, gs)
<1> DEFINE m == Len(fs)
           Wrong == {i \in Nat : i \in 1 .. m /\ fs[i].offset # gs[i].offset}
<1>1. /\ m \in Nat /\ DOMAIN fs = 1 .. m /\ Len(gs) \in Nat /\ m <= Len(gs)
      /\ DOMAIN gs = 1 .. Len(gs)
  BY LenProperties DEF Begins
<1>2. \A i \in 1 .. m : fs[i].name = gs[i].name /\ fs[i].type = gs[i].type
  <2> TAKE i \in 1 .. m
  <2>1. i \in DOMAIN fs /\ i \in DOMAIN gs /\ flat2[i] = flat[i]
    BY <1>1 DEF Begins
  <2> QED BY <2>1 DEF Laid
<1>3. Wrong = {}
  <2> SUFFICES ASSUME Wrong # {} PROVE FALSE
    OBVIOUS
  <2>1. PICK k \in Wrong : \A j \in Wrong : ~(j < k)
    BY LeastNat
  <2>2. k \in 1 .. m /\ k \in DOMAIN fs /\ k \in DOMAIN gs
    BY <1>1, <2>1
  <2>3. EndOf(fs, k - 1) = EndOf(gs, k - 1)
    <3>1. CASE k = 1
      BY <3>1 DEF EndOf
    <3>2. CASE k # 1
      <4>1. k - 1 \in 1 .. m /\ k - 1 \in Nat /\ k - 1 < k
        BY <1>1, <2>2, <3>2
      <4>2. fs[k - 1].offset = gs[k - 1].offset /\ fs[k - 1].type = gs[k - 1].type
        BY <1>2, <2>1, <4>1
      <4> QED BY <4>2 DEF EndOf
    <3> QED BY <3>1, <3>2
  <2>4. /\ fs[k].offset = Start(EndOf(fs, k - 1), fs[k].type)
        /\ gs[k].offset = Start(EndOf(gs, k - 1), gs[k].type)
    BY <2>2 DEF Laid
  <2> QED BY <1>2, <2>1, <2>2, <2>3, <2>4
<1>4. \A i \in 1 .. m : fs[i] = gs[i]
  <2> TAKE i \in 1 .. m
  <2>1. fs[i] \in PlacedRecs /\ gs[i] \in PlacedRecs
    BY <1>1
  <2>2. fs[i].offset = gs[i].offset
    BY <1>1, <1>3
  <2>3. /\ fs[i] = [name |-> fs[i].name, type |-> fs[i].type, offset |-> fs[i].offset]
        /\ gs[i] = [name |-> gs[i].name, type |-> gs[i].type, offset |-> gs[i].offset]
    BY <2>1 DEF PlacedRecs
  <2> QED BY <1>2, <2>2, <2>3
<1>5. m <= Len(gs) /\ SubSeq(fs, 1, m) = SubSeq(gs, 1, m)
  <2> HIDE DEF m
  <2>1. \A i \in 1 .. m : SubSeq(fs, 1, m)[i] = fs[i] /\ SubSeq(gs, 1, m)[i] = gs[i]
    BY <1>1
  <2>2. /\ SubSeq(fs, 1, m) = [i \in 1 .. m |-> fs[i]]
        /\ SubSeq(gs, 1, m) = [i \in 1 .. m |-> gs[i]]
    BY <1>1
  <2> QED BY <1>1, <1>4, <2>2
<1> QED BY <1>5 DEF IsPrefix

\* An object of a derived class starts with an object of its first base, in
\* any hierarchy whose classes are declared after those their fields are made
\* of: `Ptr[Derived] is bit-identical to Ptr[Base] at offset 0`.
THEOREM FirstBaseFirst == DataSpec => []FirstBasePrefix
<1>1. StructIInv /\ FlatIInv => FirstBasePrefix
  <2> SUFFICES ASSUME StructIInv, FlatIInv, TypesFirst, NEW c \in DOMAIN structs,
                      bases[c] # <<>>, NEW b, b = bases[c][1], b \in DOMAIN structs
               PROVE  IsPrefix(Fields(b), Fields(c))
    BY DEF FirstBasePrefix
  <2>1. structs \in Seq(Layouts) /\ Declared /\ WellFounded /\ Len(structs) <= N
    BY DEF StructIInv, StructTyped, FlatIInv
  <2>2. structs[b] \in Layouts /\ structs[c] \in Layouts /\ c \in Classes
    <3>1. DOMAIN structs = 1 .. Len(structs) /\ Len(structs) \in Nat
      BY <2>1, LenProperties
    <3>2. c \in Classes
      BY <2>1, <3>1, NAssumption DEF Classes
    <3> QED BY <2>1, <3>2
  <2>3. Fields(b) \in Seq(PlacedRecs) /\ Fields(c) \in Seq(PlacedRecs)
    BY <2>2 DEF Fields, Layouts
  <2>4. b \in Classes /\ 1 \in DOMAIN bases[c] /\ DOMAIN bases[c] = 1 .. Len(bases[c])
        /\ bases[c] \in Seq(Classes)
    BY <2>1, <2>2, BaseList
  <2>5. Flat[b] \in Seq(FieldRecs) /\ Flat[c] \in Seq(FieldRecs)
    BY <2>1, <2>2, <2>4, FlatTyped
  <2>6. Begins(Flat[b], Flat[c])
    <3> DEFINE ss == [i \in DOMAIN bases[c] |-> Flat[bases[c][i]]]
    <3>1. Flat \in FlatTables /\ Flat[c] = FlattenSeq(ss) \o fields[c] /\ fields[c] \in Seq(FieldRecs)
      <4>1. Flat \in FlatTables /\ Flat = FlatStep(Flat)
        BY <2>1, FlatFixed
      <4>2. FlatStep(Flat)[c] = FlattenSeq(ss) \o fields[c]
        BY <2>2 DEF FlatStep
      <4> QED BY <2>1, <2>2, <4>1, <4>2, BaseList
    <3>2. ss \in Seq(Seq(FieldRecs)) /\ ss # <<>> /\ ss[1] = Flat[b]
      <4>1. \A i \in DOMAIN bases[c] : Flat[bases[c][i]] \in Seq(FieldRecs)
        BY <2>1, <2>2, <3>1, BaseList DEF FlatTables
      <4> QED BY <2>4, <4>1
    <3> HIDE DEF ss
    <3>3. FlattenSeq(ss) \in Seq(FieldRecs) /\ Begins(Flat[b], FlattenSeq(ss))
      BY <3>2, FlattenTyped
    <3>4. Begins(FlattenSeq(ss), Flat[c])
      BY <3>1, <3>3, ConcatBegins
    <3> QED BY <2>5, <3>3, <3>4, BeginsTwice
  <2>7. /\ Laid(Fields(b), Flat[b]) /\ Len(Fields(b)) = Len(Flat[b])
        /\ Laid(Fields(c), Flat[c]) /\ Len(Fields(c)) = Len(Flat[c])
    BY DEF FlatIInv
  <2> QED BY <2>3, <2>5, <2>6, <2>7, LaidBegins
<1> QED BY <1>1, FlatInvariance, PTL

-----------------------------------------------------------------------------
(***************************************************************************)
(* Inherited methods.  Derives is a partial order.                         *)
(***************************************************************************)
\* Induction over the hierarchy: what fails for a class only if it fails for
\* one of its bases does not fail at all.
LEMMA Hierarchy ==
    ASSUME WellFounded, NEW S, S \subseteq Classes,
           \A c \in S : \E i \in DOMAIN bases[c] : bases[c][i] \in S
    PROVE  S = {}
<1>1. ASSUME NEW c \in S PROVE Uses(c) \cap S # {}
  <2>1. PICK i \in DOMAIN bases[c] : bases[c][i] \in S
    OBVIOUS
  <2> QED BY <2>1 DEF Uses
<1> QED BY <1>1 DEF WellFounded

DerivesStep(h) == [c \in Classes |-> {c} \cup UNION {h[bases[c][i]] : i \in DOMAIN bases[c]}]

LEMMA DerivesFixed ==
    ASSUME Declared, WellFounded
    PROVE  /\ Derives \in [Classes -> SUBSET Classes]
           /\ \A c \in Classes :
                Derives[c] = {c} \cup UNION {Derives[bases[c][i]] : i \in DOMAIN bases[c]}
<1> DEFINE T == [Classes -> SUBSET Classes]
           F == [h \in T |-> DerivesStep(h)]
           base == [c \in Classes |-> {}]
           Ups(f) == f = [d \in 0 .. N |-> [c \in Classes |->
                           IF d = 0 THEN {}
                           ELSE {c} \cup UNION {f[d - 1][bases[c][i]] : i \in DOMAIN bases[c]}]]
           f == CHOOSE u : Ups(u)
<1>1. \A h \in T : DerivesStep(h) \in T
  <2> TAKE h \in T
  <2>1. \A c \in Classes : \A i \in DOMAIN bases[c] : h[bases[c][i]] \in SUBSET Classes
    BY BaseList
  <2>2. \A c \in Classes : {c} \cup UNION {h[bases[c][i]] : i \in DOMAIN bases[c]} \in SUBSET Classes
    BY <2>1
  <2> QED BY <2>2 DEF DerivesStep
<1>2. base \in T /\ F \in [T -> T] /\ N \in Nat /\ \A h \in T : F[h] = DerivesStep(h)
  BY <1>1, NAssumption
<1>3. \A h \in T : h = [c \in Classes |-> h[c]]
  OBVIOUS
<1>4. base = [c \in Classes |-> {}]
  OBVIOUS
<1> HIDE DEF F, base
<1>5. OverBases(T, F)
  <2>1. ASSUME NEW h \in T, NEW k \in T, NEW c \in Classes,
               \A i \in DOMAIN bases[c] : h[bases[c][i]] = k[bases[c][i]]
        PROVE  F[h][c] = F[k][c]
    <3>1. {h[bases[c][i]] : i \in DOMAIN bases[c]} = {k[bases[c][i]] : i \in DOMAIN bases[c]}
      BY <2>1
    <3>2. DerivesStep(h)[c] = DerivesStep(k)[c]
      BY <3>1 DEF DerivesStep
    <3> QED BY <1>2, <3>2
  <2> HIDE DEF T
  <2> QED BY <1>2, <1>3, <2>1 DEF OverBases
<1> HIDE DEF T
<1>6. PICK g : g = [d \in 0 .. N |-> g[d]] /\ g[0] = base
               /\ \A d \in 1 .. N : g[d - 1] \in T /\ g[d] = F[g[d - 1]]
  BY <1>2, LevelsExist
<1>7. Ups(g)
  <2>1. ASSUME NEW d \in 0 .. N
        PROVE  g[d] = [c \in Classes |-> IF d = 0 THEN {}
                         ELSE {c} \cup UNION {g[d - 1][bases[c][i]] : i \in DOMAIN bases[c]}]
    <3>1. CASE d = 0
      BY <1>4, <1>6, <3>1
    <3>2. CASE d # 0
      <4>1. d \in 1 .. N
        BY <1>2, <3>2
      <4>2. g[d] = DerivesStep(g[d - 1])
        BY <1>2, <1>6, <4>1
      <4> QED BY <3>2, <4>2 DEF DerivesStep
    <3> QED BY <3>1, <3>2
  <2> QED BY <1>6, <2>1
<1>8. Ups(f) /\ Derives = f[N]
  BY <1>7 DEF Derives
<1>9. \A d \in 0 .. N : f[d] = [c \in Classes |-> IF d = 0 THEN {}
                         ELSE {c} \cup UNION {f[d - 1][bases[c][i]] : i \in DOMAIN bases[c]}]
  <2> HIDE DEF f
  <2> QED BY <1>8
<1> HIDE DEF f, Ups
<1>10. f[0] = base
  BY <1>2, <1>4, <1>9
<1>11. \A d \in 1 .. N : f[d] = DerivesStep(f[d - 1])
  <2> TAKE d \in 1 .. N
  <2>1. d \in 0 .. N /\ d # 0
    BY <1>2
  <2> QED BY <1>9, <2>1 DEF DerivesStep
<1>12. Levels(T, base, F, f)
  BY <1>2, <1>10, <1>11 DEF Levels
<1>13. Derives \in T /\ F[Derives] = Derives
  <2>1. f[N] \in T /\ F[f[N]] = f[N]
    BY <1>5, <1>12, LevelsSettle
  <2> QED BY <1>8, <2>1
<1>14. Derives = DerivesStep(Derives)
  BY <1>2, <1>13
<1>15. \A c \in Classes :
          DerivesStep(Derives)[c] = {c} \cup UNION {Derives[bases[c][i]] : i \in DOMAIN bases[c]}
  BY DEF DerivesStep
<1> HIDE DEF DerivesStep
<1> QED BY <1>13, <1>14, <1>15 DEF T

\* Every class derives from itself, and from what it derives from derives.
LEMMA DerivesOrder ==
    ASSUME Declared, WellFounded
    PROVE  /\ \A c \in Classes : c \in Derives[c]
           /\ \A c \in Classes : \A b \in Derives[c] : b \in Classes /\ Derives[b] \subseteq Derives[c]
           /\ \A b, c \in Classes : b \in Derives[c] /\ c \in Derives[b] => b = c
<1> DEFINE S == {c \in Classes : \E b \in Derives[c] : ~(Derives[b] \subseteq Derives[c])}
           Cyclic == {c \in Classes : \E i \in DOMAIN bases[c] : c \in Derives[bases[c][i]]}
<1>1. /\ \A c \in Classes : Derives[c] \subseteq Classes
      /\ \A c \in Classes : \A i \in DOMAIN bases[c] : bases[c][i] \in Classes
      /\ \A c \in Classes : c \in Derives[c]
      /\ \A c \in Classes : \A i \in DOMAIN bases[c] : Derives[bases[c][i]] \subseteq Derives[c]
      /\ \A c \in Classes : \A b \in Derives[c] :
            b = c \/ \E i \in DOMAIN bases[c] : b \in Derives[bases[c][i]]
  BY DerivesFixed, BaseList
<1>2. S = {}
  <2>1. ASSUME NEW c \in S PROVE \E i \in DOMAIN bases[c] : bases[c][i] \in S
    <3>1. PICK b \in Derives[c] : ~(Derives[b] \subseteq Derives[c])
      OBVIOUS
    <3>2. PICK i \in DOMAIN bases[c] : b \in Derives[bases[c][i]]
      BY <1>1, <3>1
    <3> QED BY <1>1, <3>1, <3>2
  <2> HIDE DEF S
  <2>2. S \subseteq Classes
    BY DEF S
  <2> QED BY <2>1, <2>2, Hierarchy
<1>3. Cyclic = {}
  <2>1. ASSUME NEW c \in Cyclic PROVE \E i \in DOMAIN bases[c] : bases[c][i] \in Cyclic
    <3>1. c \in Classes
      OBVIOUS
    <3>2. PICK i \in DOMAIN bases[c] : c \in Derives[bases[c][i]]
      OBVIOUS
    <3> DEFINE b == bases[c][i]
    <3>3. CASE b = c
      BY <3>3
    <3>4. CASE b # c
      <4>1. b \in Classes /\ b \in Derives[c]
        BY <1>1, <3>1
      <4>2. PICK j \in DOMAIN bases[b] : c \in Derives[bases[b][j]]
        BY <1>1, <3>2, <3>4, <4>1
      <4>3. bases[b][j] \in Classes /\ Derives[c] \subseteq Derives[bases[b][j]]
        BY <1>1, <1>2, <4>1, <4>2
      <4>4. b \in Cyclic
        BY <4>1, <4>2, <4>3
      <4> QED BY <4>4
    <3> QED BY <3>3, <3>4
  <2> HIDE DEF Cyclic
  <2>2. Cyclic \subseteq Classes
    BY DEF Cyclic
  <2> QED BY <2>1, <2>2, Hierarchy
<1>4. ASSUME NEW b \in Classes, NEW c \in Classes, b \in Derives[c], c \in Derives[b], b # c
      PROVE  FALSE
  <2>1. PICK i \in DOMAIN bases[c] : b \in Derives[bases[c][i]]
    BY <1>1, <1>4
  <2>2. Derives[b] \subseteq Derives[bases[c][i]]
    BY <1>1, <1>2, <2>1
  <2> QED BY <1>3, <1>4, <2>1, <2>2
<1> QED BY <1>1, <1>2, <1>4

\* Where the fields end, one after the other: the last of these is the end of
\* the fields of the class.
FieldEnds(c, e) ==
    /\ e \in [0 .. Len(Flat[c]) -> Nat] /\ e[0] = 0
    /\ \A i \in 1 .. Len(Flat[c]) : e[i] = End(Start(e[i - 1], Flat[c][i].type), Flat[c][i].type)

LEMMA FieldEndsTo ==
    ASSUME StructTyped, NEW c \in Classes
    PROVE  \E e : FieldEnds(c, e) /\ EndOfFields(c) = e[Len(Flat[c])]
<1> DEFINE fs == Flat[c]
           n == Len(fs)
           Ends(e) == e = [i \in 0 .. n |->
                             IF i = 0 THEN 0 ELSE End(Start(e[i - 1], fs[i].type), fs[i].type)]
           F == [p \in (1 .. n) \X Nat |-> End(Start(p[2], fs[p[1]].type), fs[p[1]].type)]
           e == CHOOSE f : Ends(f)
<1>1. fs \in Seq(FieldRecs) /\ n \in Nat /\ structs \in Seq(Layouts)
  BY FlatTyped, LenProperties DEF StructTyped
<1>2. F \in [(1 .. n) \X Nat -> Nat]
  <2>1. ASSUME NEW i \in 1 .. n, NEW m \in Nat
        PROVE  End(Start(m, fs[i].type), fs[i].type) \in Nat
    <3>1. fs[i] \in FieldRecs
      BY <1>1
    <3>2. fs[i].type \in Types
      BY <3>1 DEF FieldRecs
    <3>3. Align(fs[i].type) \in 1 .. 8 /\ Size(fs[i].type) \in Nat
      BY <1>1, <3>2, Sizes
    <3>4. Start(m, fs[i].type) \in Nat
      BY <3>3, RoundedUp DEF Start
    <3> QED BY <3>3, <3>4 DEF End
  <2> QED BY <2>1
<1>3. \A i \in 1 .. n : \A m \in Nat : F[<<i, m>>] = End(Start(m, fs[i].type), fs[i].type)
  OBVIOUS
<1>4. EndOfFields(c) = e[n]
  BY DEF EndOfFields
<1> HIDE DEF F, fs, n
<1>5. /\ \E g : Iterates(g, n, 0, F)
      /\ \A g : Iterates(g, n, 0, F) => \A i \in 0 .. n : g[i] \in Nat
  BY <1>1, <1>2, Iterated
<1>6. PICK g : Iterates(g, n, 0, F)
  BY <1>5
<1>7. Ends(g)
  <2>1. ASSUME NEW i \in 0 .. n
        PROVE  g[i] = IF i = 0 THEN 0 ELSE End(Start(g[i - 1], fs[i].type), fs[i].type)
    <3>1. CASE i = 0
      BY <1>6, <3>1 DEF Iterates
    <3>2. CASE i # 0
      <4>1. i \in 1 .. n /\ i - 1 \in 0 .. n
        BY <1>1, <3>2
      <4>2. g[i] = F[<<i, g[i - 1]>>] /\ g[i - 1] \in Nat
        BY <1>5, <1>6, <3>2, <4>1 DEF Iterates
      <4> QED BY <1>3, <3>2, <4>1, <4>2
    <3> QED BY <3>1, <3>2
  <2>2. g = [i \in 0 .. n |-> g[i]]
    BY <1>6 DEF Iterates
  <2> QED BY <2>1, <2>2
<1>8. Ends(e)
  BY <1>7
<1> HIDE DEF e
<1>9. \A i \in 0 .. n : e[i] = IF i = 0 THEN 0 ELSE End(Start(e[i - 1], fs[i].type), fs[i].type)
  BY <1>8
<1>10. e = [i \in 0 .. n |-> e[i]]
  BY <1>8
<1> HIDE DEF Ends
<1>11. Iterates(e, n, 0, F)
  <2> DEFINE Wrong == {i \in Nat : i <= n /\ e[i] \notin Nat}
  <2>1. Wrong = {}
    <3> SUFFICES ASSUME Wrong # {} PROVE FALSE
      OBVIOUS
    <3>1. PICK k \in Wrong : \A j \in Wrong : ~(j < k)
      BY LeastNat
    <3>2. k \in 0 .. n /\ k # 0
      BY <1>1, <1>9, <3>1
    <3>3. k - 1 \in Nat /\ k - 1 <= n /\ k - 1 < k /\ k \in 1 .. n
      BY <1>1, <3>2
    <3>4. e[k - 1] \in Nat
      BY <3>1, <3>3
    <3>5. e[k] = F[<<k, e[k - 1]>>] /\ F[<<k, e[k - 1]>>] \in Nat
      BY <1>2, <1>3, <1>9, <3>2, <3>3, <3>4
    <3> QED BY <3>1, <3>5
  <2>2. ASSUME NEW i \in 0 .. n PROVE e[i] = IF i = 0 THEN 0 ELSE F[<<i, e[i - 1]>>]
    <3>1. CASE i # 0
      <4>1. i \in 1 .. n /\ i - 1 \in Nat /\ i - 1 <= n
        BY <1>1, <3>1
      <4>2. e[i - 1] \in Nat
        BY <2>1, <4>1
      <4> QED BY <1>3, <1>9, <3>1, <4>1, <4>2
    <3> QED BY <1>9, <3>1
  <2> QED BY <1>10, <2>2 DEF Iterates
<1>12. \A i \in 0 .. n : e[i] \in Nat
  BY <1>5, <1>11
<1>13. FieldEnds(c, e)
  <2>1. e \in [0 .. n -> Nat] /\ e[0] = 0
    BY <1>1, <1>9, <1>10, <1>12
  <2>2. \A i \in 1 .. n : e[i] = End(Start(e[i - 1], fs[i].type), fs[i].type)
    BY <1>1, <1>9
  <2> QED BY <2>1, <2>2 DEF FieldEnds, fs, n
<1> QED BY <1>4, <1>13 DEF fs, n

\* The i-th base starts where the fields of those before it end.
LEMMA Spans ==
    ASSUME StructTyped, NEW c \in Classes
    PROVE  /\ \A i \in DOMAIN bases[c] : Span(c, i) \in Nat
           /\ bases[c] # <<>> => Span(c, 1) = 0
           /\ \A i \in DOMAIN bases[c] : i + 1 \in DOMAIN bases[c] =>
                 Span(c, i + 1) = Span(c, i) + EndOfFields(bases[c][i])
<1> DEFINE Runs(f, n) == f = [k \in 0 .. n |-> IF k = 0 THEN 0 ELSE f[k - 1] + EndOfFields(bases[c][k])]
           h == [k \in Nat |-> EndOfFields(bases[c][k])]
<1>1. /\ DOMAIN bases[c] = 1 .. Len(bases[c]) /\ Len(bases[c]) \in Nat
      /\ \A i \in DOMAIN bases[c] : EndOfFields(bases[c][i]) \in Nat
  <2>1. ASSUME NEW i \in DOMAIN bases[c] PROVE EndOfFields(bases[c][i]) \in Nat
    <3>1. bases[c][i] \in Classes
      BY BaseList DEF StructTyped
    <3>2. Len(Flat[bases[c][i]]) \in Nat
      BY <3>1, FlatTyped, LenProperties DEF StructTyped
    <3> QED BY <3>1, <3>2, FieldEndsTo DEF FieldEnds
  <2> QED BY <2>1, BaseList DEF StructTyped
<1>2. ASSUME NEW i \in DOMAIN bases[c]
      PROVE  \E f : Runs(f, i - 1) /\ Span(c, i) = f[i - 1]
  <2> DEFINE f == CHOOSE g : Runs(g, i - 1)
  <2>1. i - 1 \in Nat
    BY <1>1
  <2>2. PICK g : g = [k \in 0 .. i - 1 |-> IF k = 0 THEN 0 ELSE g[k - 1] + h[k]]
    <3> HIDE DEF h
    <3> QED BY <2>1, RunningSum
  <2>3. \A k \in 0 .. i - 1 : h[k] = EndOfFields(bases[c][k])
    BY <2>1
  <2>4. Runs(g, i - 1)
    <3> HIDE DEF h
    <3> QED BY <2>2, <2>3
  <2>5. Runs(f, i - 1)
    BY <2>4
  <2>6. Span(c, i) = f[i - 1]
    BY DEF Span
  <2> HIDE DEF f
  <2> QED BY <2>5, <2>6
<1>3. ASSUME NEW n \in Nat, n <= Len(bases[c]), NEW f, Runs(f, n)
      PROVE  /\ f[0] = 0 /\ \A k \in 1 .. n : f[k] = f[k - 1] + EndOfFields(bases[c][k])
             /\ \A k \in 0 .. n : f[k] \in Nat
  <2>1. \A k \in 0 .. n : f[k] = IF k = 0 THEN 0 ELSE f[k - 1] + EndOfFields(bases[c][k])
    BY <1>3
  <2> DEFINE Wrong == {k \in Nat : k <= n /\ f[k] \notin Nat}
  <2>2. Wrong = {}
    <3> SUFFICES ASSUME Wrong # {} PROVE FALSE
      OBVIOUS
    <3>1. PICK k \in Wrong : \A j \in Wrong : ~(j < k)
      BY LeastNat
    <3>2. k # 0 /\ k \in 0 .. n
      BY <2>1, <3>1
    <3>3. k - 1 \in Nat /\ k - 1 <= n /\ k - 1 < k /\ k \in DOMAIN bases[c]
      BY <1>1, <1>3, <3>2
    <3>4. f[k - 1] \in Nat
      BY <3>1, <3>3
    <3>5. f[k] = f[k - 1] + EndOfFields(bases[c][k]) /\ EndOfFields(bases[c][k]) \in Nat
      BY <1>1, <2>1, <3>2, <3>3
    <3>6. f[k] \in Nat
      BY <3>4, <3>5
    <3> QED BY <3>1, <3>6
  <2> QED BY <2>1, <2>2
<1> HIDE DEF Runs, h
<1>4. ASSUME NEW i \in DOMAIN bases[c], i + 1 \in DOMAIN bases[c]
      PROVE  Span(c, i + 1) = Span(c, i) + EndOfFields(bases[c][i])
  <2>1. i - 1 \in Nat /\ i \in Nat /\ i <= Len(bases[c]) /\ i - 1 <= Len(bases[c]) /\ i + 1 - 1 = i
        /\ i \in 1 .. i /\ i - 1 \in 0 .. i - 1 /\ i - 1 \in 0 .. i
    BY <1>1
  <2>2. PICK f : Runs(f, i - 1) /\ Span(c, i) = f[i - 1]
    BY <1>2
  <2>3. PICK g : Runs(g, i) /\ Span(c, i + 1) = g[i]
    BY <1>2, <1>4, <2>1
  <2>4. /\ f[0] = 0 /\ \A k \in 1 .. i - 1 : f[k] = f[k - 1] + EndOfFields(bases[c][k])
        /\ g[0] = 0 /\ \A k \in 1 .. i : g[k] = g[k - 1] + EndOfFields(bases[c][k])
    BY <1>3, <2>1, <2>2, <2>3
  <2> DEFINE Wrong == {k \in Nat : k <= i - 1 /\ f[k] # g[k]}
  <2>5. Wrong = {}
    <3> SUFFICES ASSUME Wrong # {} PROVE FALSE
      OBVIOUS
    <3>1. PICK k \in Wrong : \A j \in Wrong : ~(j < k)
      BY LeastNat
    <3>2. k # 0
      BY <2>4, <3>1
    <3>3. k - 1 \in Nat /\ k - 1 <= i - 1 /\ k - 1 < k /\ k \in 1 .. i - 1 /\ k \in 1 .. i
      BY <2>1, <3>1, <3>2
    <3>4. f[k - 1] = g[k - 1]
      BY <3>1, <3>3
    <3> QED BY <2>4, <3>1, <3>3, <3>4
  <2>6. f[i - 1] = g[i - 1]
    BY <2>1, <2>5
  <2> QED BY <2>1, <2>2, <2>3, <2>4, <2>6
<1>5. ASSUME NEW i \in DOMAIN bases[c] PROVE Span(c, i) \in Nat
  <2>1. i - 1 \in Nat /\ i - 1 <= Len(bases[c]) /\ i - 1 \in 0 .. i - 1
    BY <1>1
  <2> QED BY <1>2, <1>3, <2>1
<1>6. ASSUME bases[c] # <<>> PROVE Span(c, 1) = 0
  <2>1. 1 \in DOMAIN bases[c] /\ 1 - 1 = 0 /\ 0 \in Nat /\ 0 <= Len(bases[c])
    BY <1>1, <1>6, BaseList DEF StructTyped
  <2> QED BY <1>2, <1>3, <2>1
<1> QED BY <1>4, <1>5, <1>6

-----------------------------------------------------------------------------
\* The tables of the methods of the classes, and where an entry comes from.
Entries == [owner : Classes, offset : Nat]
MethodTables == UNION {[S -> Entries] : S \in SUBSET Methods}
Tables == [Classes -> MethodTables]
NoMethods == [c \in Classes |-> [m \in {} |-> 0]]

\* Entry e of m in the table of c, when h has those of its bases: the class's
\* own, or that of one of its bases.
EntryFrom(c, h, m, e) ==
    \/ m \in methods[c] /\ e = [owner |-> c, offset |-> 0]
    \/ /\ m \notin methods[c]
       /\ \E i \in DOMAIN bases[c] :
             /\ m \in DOMAIN h[bases[c][i]]
             /\ e = [owner |-> h[bases[c][i]][m].owner,
                     offset |-> Span(c, i) + h[bases[c][i]][m].offset]

\* The last base that has a method is one of the bases that have it.
LEMMA LastBase ==
    ASSUME Declared, NEW c \in Classes, NEW h, NEW m, From(c, h, m) # {}
    PROVE  LastFrom(c, h, m) \in DOMAIN bases[c] /\ m \in DOMAIN h[bases[c][LastFrom(c, h, m)]]
<1> DEFINE Up == {n \in Nat : \A j \in From(c, h, m) : j <= n}
<1>1. From(c, h, m) \subseteq 1 .. Len(bases[c]) /\ Len(bases[c]) \in Nat
  BY BaseList DEF From
<1>2. Len(bases[c]) \in Up
  BY <1>1
<1>3. PICK k \in Up : \A j \in Up : ~(j < k)
  <2> HIDE DEF Up
  <2>1. Up \subseteq Nat
    BY DEF Up
  <2> QED BY <1>2, <2>1, LeastNat
<1>4. k \in From(c, h, m)
  <2> SUFFICES ASSUME k \notin From(c, h, m) PROVE FALSE
    OBVIOUS
  <2>1. k # 0
    BY <1>1, <1>3
  <2>2. k - 1 \in Nat /\ k - 1 < k /\ \A j \in From(c, h, m) : j <= k - 1
    BY <1>1, <1>3, <2>1
  <2> QED BY <1>3, <2>2
<1>5. \A j \in From(c, h, m) : j <= k
  BY <1>3
<1>6. LastFrom(c, h, m) \in From(c, h, m)
  BY <1>4, <1>5 DEF LastFrom
<1> QED BY <1>6 DEF From

LEMMA TableEntries ==
    ASSUME StructTyped, NEW h \in Tables, NEW c \in Classes
    PROVE  /\ Table(c, h) \in MethodTables
           /\ \A m \in DOMAIN Table(c, h) : EntryFrom(c, h, m, Table(c, h)[m])
<1> DEFINE D == methods[c] \cup UNION {DOMAIN h[bases[c][i]] : i \in DOMAIN bases[c]}
           pick(m) == LastFrom(c, h, m)
           val(m) == IF Overrides(c, m) \/ From(c, h, m) = {}
                       THEN [owner |-> c, offset |-> 0]
                       ELSE [owner |-> h[bases[c][pick(m)]][m].owner,
                             offset |-> Span(c, pick(m)) + h[bases[c][pick(m)]][m].offset]
<1>1. Table(c, h) = [m \in D |-> val(m)]
  BY DEF Table
<1>2. /\ DOMAIN bases[c] = 1 .. Len(bases[c]) /\ Len(bases[c]) \in Nat
      /\ \A i \in DOMAIN bases[c] : bases[c][i] \in Classes
      /\ methods[c] \in SUBSET Methods
  BY BaseList DEF StructTyped, Declared
<1>3. ASSUME NEW i \in DOMAIN bases[c]
      PROVE  /\ DOMAIN h[bases[c][i]] \in SUBSET Methods
             /\ \A m \in DOMAIN h[bases[c][i]] : h[bases[c][i]][m] \in Entries
  <2>1. h[bases[c][i]] \in MethodTables
    BY <1>2 DEF Tables
  <2>2. PICK S \in SUBSET Methods : h[bases[c][i]] \in [S -> Entries]
    BY <2>1 DEF MethodTables
  <2> QED BY <2>2
<1>4. \A m : From(c, h, m) # {} =>
          pick(m) \in DOMAIN bases[c] /\ m \in DOMAIN h[bases[c][pick(m)]]
  BY LastBase DEF StructTyped
<1>5. ASSUME NEW m \in D
      PROVE  val(m) \in Entries /\ EntryFrom(c, h, m, val(m))
  <2>1. CASE m \in methods[c]
    <3>1. val(m) = [owner |-> c, offset |-> 0]
      BY <2>1 DEF Overrides
    <3> HIDE DEF pick, val
    <3>2. val(m) \in Entries
      BY <3>1 DEF Entries
    <3> QED BY <2>1, <3>1, <3>2 DEF EntryFrom
  <2>2. CASE m \notin methods[c]
    <3>1. From(c, h, m) # {}
      BY <2>2 DEF From
    <3>2. pick(m) \in DOMAIN bases[c] /\ m \in DOMAIN h[bases[c][pick(m)]]
      BY <1>4, <3>1
    <3>3. val(m) = [owner |-> h[bases[c][pick(m)]][m].owner,
                    offset |-> Span(c, pick(m)) + h[bases[c][pick(m)]][m].offset]
      BY <2>2, <3>1 DEF Overrides
    <3> HIDE DEF pick, val
    <3>4. h[bases[c][pick(m)]][m] \in Entries /\ Span(c, pick(m)) \in Nat
      BY <1>3, <3>2, Spans
    <3>5. h[bases[c][pick(m)]][m].owner \in Classes /\ h[bases[c][pick(m)]][m].offset \in Nat
      BY <3>4 DEF Entries
    <3>6. Span(c, pick(m)) + h[bases[c][pick(m)]][m].offset \in Nat
      BY <3>4, <3>5
    <3>7. val(m) \in Entries
      BY <3>3, <3>5, <3>6 DEF Entries
    <3> QED BY <2>2, <3>2, <3>3, <3>7 DEF EntryFrom
  <2> QED BY <2>1, <2>2
<1>6. D \in SUBSET Methods
  BY <1>2, <1>3
<1> HIDE DEF D, val
<1>7. Table(c, h) \in [D -> Entries]
  BY <1>1, <1>5
<1> QED BY <1>1, <1>5, <1>6, <1>7 DEF MethodTables

LEMMA ResolveFixed ==
    ASSUME StructTyped, WellFounded
    PROVE  Resolve \in Tables /\ \A c \in Classes : Resolve[c] = Table(c, Resolve)
<1> DEFINE ResolveStep(h) == [c \in Classes |-> Table(c, h)]
           F == [h \in Tables |-> ResolveStep(h)]
           Sheets(f) == f = [d \in 0 .. N |-> [c \in Classes |->
                              IF d = 0 THEN [m \in {} |-> 0] ELSE Table(c, f[d - 1])]]
           f == CHOOSE u : Sheets(u)
<1>1. /\ NoMethods \in Tables /\ F \in [Tables -> Tables] /\ N \in Nat /\ Declared
      /\ \A h \in Tables : F[h] = ResolveStep(h)
  <2>1. \A h \in Tables : ResolveStep(h) \in Tables
    BY TableEntries DEF Tables
  <2>2. [m \in {} |-> 0] \in MethodTables
    <3>1. [m \in {} |-> 0] \in [{} -> Entries] /\ {} \in SUBSET Methods
      OBVIOUS
    <3> QED BY <3>1 DEF MethodTables
  <2>3. NoMethods \in Tables
    BY <2>2 DEF NoMethods, Tables
  <2> QED BY <2>1, <2>3, NAssumption DEF StructTyped
<1>2. \A h \in Tables : h = [c \in Classes |-> h[c]]
  BY DEF Tables
<1>3. ASSUME NEW h, NEW k, NEW c \in Classes,
             \A i \in DOMAIN bases[c] : h[bases[c][i]] = k[bases[c][i]]
      PROVE  Table(c, h) = Table(c, k)
  <2>1. {DOMAIN h[bases[c][i]] : i \in DOMAIN bases[c]} = {DOMAIN k[bases[c][i]] : i \in DOMAIN bases[c]}
    BY <1>3
  <2>2. \A m : From(c, h, m) = From(c, k, m)
    BY <1>3 DEF From
  <2>3. \A m : LastFrom(c, h, m) = LastFrom(c, k, m)
    BY <2>2 DEF LastFrom
  <2>4. \A m : From(c, h, m) # {} => h[bases[c][LastFrom(c, h, m)]] = k[bases[c][LastFrom(c, k, m)]]
    BY <1>1, <1>3, <2>3, LastBase
  <2> QED BY <2>1, <2>2, <2>3, <2>4 DEF Table
<1> HIDE DEF F
<1>4. OverBases(Tables, F)
  <2>1. ASSUME NEW h \in Tables, NEW k \in Tables, NEW c \in Classes,
               \A i \in DOMAIN bases[c] : h[bases[c][i]] = k[bases[c][i]]
        PROVE  F[h][c] = F[k][c]
    BY <1>1, <1>3, <2>1
  <2> QED BY <1>1, <1>2, <2>1 DEF OverBases
<1>5. PICK g : g = [d \in 0 .. N |-> g[d]] /\ g[0] = NoMethods
               /\ \A d \in 1 .. N : g[d - 1] \in Tables /\ g[d] = F[g[d - 1]]
  <2>1. NoMethods \in Tables /\ F \in [Tables -> Tables]
    BY <1>1
  <2> HIDE DEF ResolveStep, Sheets
  <2> QED BY <2>1, LevelsExist
<1>6. Sheets(g)
  <2>1. ASSUME NEW d \in 0 .. N
        PROVE  g[d] = [c \in Classes |-> IF d = 0 THEN [m \in {} |-> 0] ELSE Table(c, g[d - 1])]
    <3>1. CASE d = 0
      BY <1>5, <3>1 DEF NoMethods
    <3>2. CASE d # 0
      <4>1. d \in 1 .. N
        BY <1>1, <3>2
      <4>2. g[d] = ResolveStep(g[d - 1])
        BY <1>1, <1>5, <4>1
      <4> QED BY <3>2, <4>2
    <3> QED BY <3>1, <3>2
  <2> QED BY <1>5, <2>1
<1>7. Sheets(f) /\ Resolve = f[N]
  BY <1>6 DEF Resolve
<1>8. \A d \in 0 .. N :
         f[d] = [c \in Classes |-> IF d = 0 THEN [m \in {} |-> 0] ELSE Table(c, f[d - 1])]
  <2> HIDE DEF f
  <2> QED BY <1>7
<1> HIDE DEF f, Sheets
<1>9. f[0] = NoMethods
  BY <1>1, <1>8 DEF NoMethods
<1>10. \A d \in 1 .. N : f[d] = ResolveStep(f[d - 1])
  <2> TAKE d \in 1 .. N
  <2>1. d \in 0 .. N /\ d # 0
    BY <1>1
  <2> QED BY <1>8, <2>1
<1> HIDE DEF ResolveStep
<1>11. Levels(Tables, NoMethods, F, f)
  BY <1>1, <1>9, <1>10 DEF Levels
<1>12. f[N] \in Tables /\ F[f[N]] = f[N]
  BY <1>1, <1>4, <1>11, LevelsSettle
<1> QED BY <1>1, <1>7, <1>12 DEF ResolveStep

\* Where the entries of the method tables come from.
LEMMA Resolved ==
    ASSUME StructTyped, WellFounded, NEW c \in Classes, NEW m \in DOMAIN Resolve[c]
    PROVE  EntryFrom(c, Resolve, m, Resolve[c][m]) /\ Resolve[c][m] \in Entries
<1>1. Resolve \in Tables /\ Resolve[c] = Table(c, Resolve)
  BY ResolveFixed
<1>2. EntryFrom(c, Resolve, m, Resolve[c][m]) /\ Resolve[c] \in MethodTables
  BY <1>1, TableEntries
<1>3. PICK S \in SUBSET Methods : Resolve[c] \in [S -> Entries]
  BY <1>2 DEF MethodTables
<1> QED BY <1>2, <1>3

\* Whoever supplies a method, nobody between it and the class declares it.
Nearest(c, m, o) ==
    /\ o \in Derives[c] /\ m \in methods[o]
    /\ OnePath => \A d \in Derives[c] : o \in Derives[d] /\ m \in methods[d] => d = o

LEMMA OwnersAreNearest ==
    ASSUME StructTyped, WellFounded, NEW c \in Classes, NEW m \in DOMAIN Resolve[c]
    PROVE  Nearest(c, m, Resolve[c][m].owner)
<1> DEFINE S == {b \in Classes : \E n \in DOMAIN Resolve[b] : ~Nearest(b, n, Resolve[b][n].owner)}
<1>1. Declared
  BY DEF StructTyped
<1>2. ASSUME NEW b \in S PROVE \E i \in DOMAIN bases[b] : bases[b][i] \in S
  <2>1. b \in Classes
    OBVIOUS
  <2>2. PICK n \in DOMAIN Resolve[b] : ~Nearest(b, n, Resolve[b][n].owner)
    OBVIOUS
  <2> DEFINE o == Resolve[b][n].owner
  <2>3. EntryFrom(b, Resolve, n, Resolve[b][n])
    BY <2>1, <2>2, Resolved
  <2>4. CASE n \in methods[b] /\ Resolve[b][n] = [owner |-> b, offset |-> 0]
    <3>1. o = b /\ n \in methods[b]
      BY <2>4
    <3>2. Nearest(b, n, o)
      <4> HIDE DEF o
      <4> QED BY <1>1, <2>1, <3>1, DerivesOrder DEF Nearest
    <3> QED BY <2>2, <3>2
  <2>5. CASE \E i \in DOMAIN bases[b] :
                n \notin methods[b] /\ n \in DOMAIN Resolve[bases[b][i]]
                /\ o = Resolve[bases[b][i]][n].owner
    <3>1. PICK i \in DOMAIN bases[b] :
                n \notin methods[b] /\ n \in DOMAIN Resolve[bases[b][i]]
                /\ o = Resolve[bases[b][i]][n].owner
      BY <2>5
    <3> DEFINE a == bases[b][i]
    <3> SUFFICES ASSUME a \notin S PROVE FALSE
      OBVIOUS
    <3>2. a \in Classes
      BY <1>1, <2>1, BaseList
    <3>3. Nearest(a, n, o)
      BY <3>1, <3>2
    <3> HIDE DEF o
    <3>4. o \in Derives[b]
      BY <1>1, <2>1, <3>3, DerivesFixed DEF Nearest
    <3>5. ASSUME OnePath, NEW d \in Derives[b], o \in Derives[d], n \in methods[d]
          PROVE  d = o
      <4>1. d # b
        BY <3>1, <3>5
      <4>2. PICK j \in DOMAIN bases[b] : d \in Derives[bases[b][j]]
        BY <1>1, <2>1, <3>5, <4>1, DerivesFixed
      <4>3. bases[b][j] \in Classes
        BY <1>1, <2>1, BaseList
      <4>4. o \in Derives[bases[b][j]]
        BY <1>1, <3>5, <4>2, <4>3, DerivesOrder
      <4>5. i = j
        BY <2>1, <3>3, <3>5, <4>4 DEF OnePath, Nearest
      <4> QED BY <3>3, <3>5, <4>2, <4>5 DEF Nearest
    <3>6. Nearest(b, n, o)
      BY <3>3, <3>4, <3>5 DEF Nearest
    <3> QED BY <2>2, <3>6 DEF o
  <2>6. \/ n \in methods[b] /\ Resolve[b][n] = [owner |-> b, offset |-> 0]
        \/ \E i \in DOMAIN bases[b] :
                n \notin methods[b] /\ n \in DOMAIN Resolve[bases[b][i]]
                /\ o = Resolve[bases[b][i]][n].owner
    <3> HIDE DEF S
    <3>1. CASE n \in methods[b]
      <4>1. Resolve[b][n] = [owner |-> b, offset |-> 0]
        BY <2>3, <3>1 DEF EntryFrom
      <4> QED BY <3>1, <4>1
    <3>2. CASE n \notin methods[b]
      <4>1. PICK i \in DOMAIN bases[b] :
               n \in DOMAIN Resolve[bases[b][i]]
               /\ Resolve[b][n] = [owner |-> Resolve[bases[b][i]][n].owner,
                                  offset |-> Span(b, i) + Resolve[bases[b][i]][n].offset]
        BY <2>3, <3>2 DEF EntryFrom
      <4>2. o = Resolve[bases[b][i]][n].owner
        BY <4>1
      <4> HIDE DEF o
      <4> QED BY <3>2, <4>1, <4>2
    <3> QED BY <3>1, <3>2
  <2> HIDE DEF S, o
  <2> QED BY <2>4, <2>5, <2>6
<1> HIDE DEF S
<1>3. S \subseteq Classes
  BY DEF S
<1>4. S = {}
  BY <1>2, <1>3, Hierarchy
<1> QED BY <1>4 DEF S

-----------------------------------------------------------------------------
\* The method call last generated.
CallIInv ==
    /\ \A c \in DOMAIN structs : structs[c].total % 8 = 0
    /\ phase \in {"class", "fields"} => call = NoCall
    /\ phase = "emit" => class_methods = Resolve /\ Len(structs) = N
    /\ call # NoCall =>
          /\ Len(structs) = N
          /\ call.cls \in Classes /\ call.ptr \in BOOLEAN
          /\ call.method \in DOMAIN Resolve[call.cls]
          /\ call.owner = Resolve[call.cls][call.method].owner
          /\ call.offset = Resolve[call.cls][call.method].offset
          /\ call.bump = Bump(call.cls, call.offset, call.ptr)

LEMMA SameTables ==
    ASSUME UNCHANGED <<program, structs>>
    PROVE  Resolve' = Resolve /\ \A c, n, p : Bump(c, n, p)' = Bump(c, n, p)
<1>1. /\ \A t : Size(t)' = Size(t) /\ Align(t)' = Align(t)
      /\ \A n, t : Start(n, t)' = Start(n, t) /\ End(n, t)' = End(n, t)
  BY DEF Size, Align, ElemSize, Start, End
<1>2. Flat' = Flat
  BY SameProgram
<1>3. \A c : EndOfFields(c)' = EndOfFields(c)
  BY <1>1, <1>2 DEF EndOfFields
<1>4. \A c, i : Span(c, i)' = Span(c, i)
  BY <1>3 DEF Span, program
<1>5. \A c, h, m : From(c, h, m)' = From(c, h, m) /\ LastFrom(c, h, m)' = LastFrom(c, h, m)
                  /\ Overrides(c, m)' = Overrides(c, m)
  BY DEF From, LastFrom, Overrides, program
<1>6. \A c, h : Table(c, h)' = Table(c, h)
  BY <1>4, <1>5 DEF Table, program
<1>7. Resolve' = Resolve
  BY <1>6 DEF Resolve
<1>8. \A c, n, p : Bump(c, n, p)' = Bump(c, n, p)
  BY <1>1 DEF Bump
<1> QED BY <1>7, <1>8

LEMMA CallInit == Init => CallIInv
BY DEF Init, CallIInv

LEMMA CallKept ==
    ASSUME CallIInv, UNCHANGED <<program, structs, class_methods, call>>,
           \/ phase' = phase
           \/ phase' = "rejected"
           \/ phase' \in {"class", "fields"} /\ phase \in {"class", "fields"}
    PROVE  CallIInv'
<1>1. Resolve' = Resolve /\ \A c, n, p : Bump(c, n, p)' = Bump(c, n, p)
  BY SameTables
<1> QED BY <1>1 DEF CallIInv

LEMMA CallFinish == StructIInv /\ CallIInv /\ FinishClass => CallIInv'
<1> SUFFICES ASSUME StructIInv, CallIInv, FinishClass PROVE CallIInv'
  OBVIOUS
<1> DEFINE l == [fields |-> placed, total |-> Total]
<1>1. /\ phase = "fields" /\ phase' = "class" /\ call' = call /\ structs' = Append(structs, l)
      /\ structs \in Seq(Layouts) /\ offset \in Nat
  BY DEF FinishClass, StructIInv, StructTyped
<1>2. l.total % 8 = 0
  <2>1. 8 \in 1 .. 8
    OBVIOUS
  <2>2. Total % 8 = 0
    BY <1>1, <2>1, RoundedUp DEF Total
  <2> QED BY <2>2
<1> HIDE DEF l
<1>3. /\ DOMAIN structs' = 1 .. Len(structs) + 1 /\ DOMAIN structs = 1 .. Len(structs)
      /\ Len(structs) \in Nat /\ \A c \in 1 .. Len(structs) : structs'[c] = structs[c]
      /\ structs'[Len(structs) + 1] = l
  BY <1>1, LenProperties
<1>4. \A c \in DOMAIN structs' : structs'[c].total % 8 = 0
  BY <1>2, <1>3 DEF CallIInv
<1>5. call' = NoCall /\ NoCall' = NoCall
  BY <1>1 DEF CallIInv, NoCall
<1> QED BY <1>1, <1>4, <1>5 DEF CallIInv

LEMMA CallCollect == StructIInv /\ CallIInv /\ CollectMethods => CallIInv'
<1> SUFFICES ASSUME StructIInv, CallIInv, CollectMethods PROVE CallIInv'
  OBVIOUS
<1>1. /\ phase = "class" /\ phase' = "emit" /\ cur > N /\ class_methods' = Resolve
      /\ UNCHANGED <<program, structs, call>>
  BY DEF CollectMethods
<1>2. Len(structs) = N
  BY <1>1, NAssumption, LenProperties DEF StructIInv, StructTyped
<1>3. Resolve' = Resolve
  BY <1>1, SameTables
<1>4. call' = NoCall /\ NoCall' = NoCall
  BY <1>1 DEF CallIInv, NoCall
<1> QED BY <1>1, <1>2, <1>3, <1>4 DEF CallIInv

LEMMA CallMade ==
    ASSUME StructIInv, CallIInv, NEW c \in Classes, NEW m \in Methods, NEW p \in BOOLEAN,
           MethodCall(c, m, p)
    PROVE  CallIInv'
<1> DEFINE e == Resolve[c][m]
<1>1. /\ phase = "emit" /\ phase' = "emit" /\ UNCHANGED <<program, structs, class_methods>>
      /\ class_methods = Resolve /\ Len(structs) = N /\ m \in DOMAIN Resolve[c]
  BY DEF MethodCall, CallIInv
<1>2. call' = [cls |-> c, method |-> m, ptr |-> p, owner |-> e.owner,
               offset |-> e.offset, bump |-> Bump(c, e.offset, p)]
  BY <1>1 DEF MethodCall
<1>3. Resolve' = Resolve /\ \A d, n, q : Bump(d, n, q)' = Bump(d, n, q)
  BY <1>1, SameTables
<1> DEFINE o == e.owner
           n == e.offset
           b == Bump(c, n, p)
<1>4. \A r : r = call' =>
         /\ r.cls = c /\ r.method = m /\ r.ptr = p /\ r.owner = o /\ r.offset = n /\ r.bump = b
  <2> HIDE DEF e, o, n, b
  <2> QED BY <1>2 DEF e, o, n, b
<1> QED BY <1>1, <1>3, <1>4 DEF CallIInv

LEMMA CallStep == StructIInv /\ CallIInv /\ [Step]_<<vars, dataVars>> => CallIInv'
<1> SUFFICES ASSUME StructIInv, CallIInv, [Step]_<<vars, dataVars>> PROVE CallIInv'
  OBVIOUS
<1>1. CASE UNCHANGED <<vars, dataVars>>
  BY <1>1, CallKept DEF vars, program
<1>2. CASE UNCHANGED dataVars /\ \E i \in DOMAIN globals : RejectGlobal(i)
  BY <1>2, CallKept DEF RejectGlobal
<1>3. CASE UNCHANGED vars
  BY <1>3, CallKept DEF vars, program
<1>4. CASE StartClass \/ PlaceField \/ DuplicateField
  BY <1>4, CallKept DEF StartClass, PlaceField, DuplicateField
<1>5. CASE \E c \in Classes, m \in Methods, ptr \in BOOLEAN : MethodCall(c, m, ptr)
  BY <1>5, CallMade
<1> QED
  BY <1>1, <1>2, <1>3, <1>4, <1>5, CallFinish, CallCollect DEF Step, Next, DataNext

LEMMA CallInvariance == DataSpec => [](StructIInv /\ FlatIInv /\ CallIInv)
<1>1. StructIInv /\ CallIInv /\ [Step]_<<vars, dataVars>> => CallIInv'
  BY CallStep
<1> QED BY <1>1, CallInit, FlatInvariance, PTL DEF DataSpec

\* Whichever class supplies an inherited method, no class between it and the
\* receiver's class declares that method again, unless a class is reached
\* through two bases (_collect_class_methods).
THEOREM NearestSupplies == DataSpec => []NearestOwner
<1>1. StructIInv /\ FlatIInv /\ CallIInv => NearestOwner
  <2> SUFFICES ASSUME StructIInv, FlatIInv, CallIInv, call # NoCall
               PROVE  Nearest(call.cls, call.method, call.owner)
    BY DEF NearestOwner, Nearest
  <2>1. /\ StructTyped /\ WellFounded /\ call.cls \in Classes
        /\ call.method \in DOMAIN Resolve[call.cls]
        /\ call.owner = Resolve[call.cls][call.method].owner
    BY DEF StructIInv, FlatIInv, CallIInv
  <2> QED BY <2>1, OwnersAreNearest
<1> QED BY <1>1, CallInvariance, PTL

-----------------------------------------------------------------------------
(***************************************************************************)
(* Receivers.  When every class is laid out and its fields end on a word,  *)
(* the objects of its bases are parts of an object of it.                  *)
(***************************************************************************)
AllLaid ==
    /\ StructTyped /\ WellFounded /\ WholeWords
    /\ \A c \in DOMAIN structs : structs[c].total % 8 = 0
    /\ Len(structs) = N
    /\ \A c \in Classes : Len(Fields(c)) = Len(Flat[c]) /\ Laid(Fields(c), Flat[c])

\* Where a field goes moves with the end of the one before it, by words.
LEMMA StartShifted ==
    ASSUME NEW n \in Nat, NEW s \in Nat, s % 8 = 0, NEW t, Align(t) \in {1, 2, 4, 8}
    PROVE  Start(s + n, t) = s + Start(n, t)
<1> DEFINE a == Align(t)
<1>1. a = 1 \/ a = 2 \/ a = 4 \/ a = 8
  OBVIOUS
<1>2. Start(s + n, t) = RoundUp(s + n, a) /\ Start(n, t) = RoundUp(n, a)
  BY DEF Start
<1> HIDE DEF a
<1>3. RoundUp(s + n, a) = s + RoundUp(n, a)
  BY <1>1 DEF RoundUp
<1> QED BY <1>2, <1>3

LEMMA Alignments ==
    ASSUME structs \in Seq(Layouts), \A c \in DOMAIN structs : structs[c].total % 8 = 0, NEW t \in Types
    PROVE  Align(t) \in {1, 2, 4, 8}
<1> DEFINE e == ElemSize(t)
<1>1. e \in {1, 2, 4, 8} \/ (e \in Nat /\ e % 8 = 0)
  <2>1. t.size \in {1, 2, 4, 8}
    BY DEF Types
  <2>2. \A c \in DOMAIN structs : structs[c].total \in Nat
    <3>1. \A c \in DOMAIN structs : structs[c] \in Layouts
      OBVIOUS
    <3> QED BY <3>1 DEF Layouts
  <2> QED BY <2>1, <2>2 DEF ElemSize
<1>2. Align(t) = IF e = 0 THEN 1 ELSE IF e > 8 THEN 8 ELSE e
  BY DEF Align
<1> HIDE DEF e
<1> QED BY <1>1, <1>2

LEMMA LaidFields ==
    ASSUME AllLaid, NEW c \in Classes
    PROVE  /\ c \in DOMAIN structs /\ Fields(c) \in Seq(PlacedRecs) /\ Flat[c] \in Seq(FieldRecs)
           /\ DOMAIN Fields(c) = 1 .. Len(Fields(c)) /\ Len(Fields(c)) \in Nat
           /\ Len(Fields(c)) = Len(Flat[c]) /\ Laid(Fields(c), Flat[c])
           /\ \A i \in DOMAIN Fields(c) :
                 /\ Fields(c)[i].type \in Types /\ Fields(c)[i].offset \in Nat
                 /\ Align(Fields(c)[i].type) \in {1, 2, 4, 8} /\ Size(Fields(c)[i].type) \in Nat
           /\ \A i \in 0 .. Len(Fields(c)) : EndOf(Fields(c), i) \in Nat
<1>1. structs \in Seq(Layouts) /\ Declared /\ DOMAIN structs = Classes
  BY LenProperties DEF AllLaid, StructTyped, Classes
<1>2. structs[c] \in Layouts
  BY <1>1
<1>3. Fields(c) \in Seq(PlacedRecs) /\ Flat[c] \in Seq(FieldRecs)
  BY <1>1, <1>2, FlatTyped DEF Layouts, Fields
<1>4. DOMAIN Fields(c) = 1 .. Len(Fields(c)) /\ Len(Fields(c)) \in Nat
  BY <1>3, LenProperties
<1>5. ASSUME NEW i \in DOMAIN Fields(c)
      PROVE  /\ Fields(c)[i].type \in Types /\ Fields(c)[i].offset \in Nat
             /\ Align(Fields(c)[i].type) \in {1, 2, 4, 8} /\ Size(Fields(c)[i].type) \in Nat
  <2>1. Fields(c)[i] \in PlacedRecs
    BY <1>3
  <2>2. Fields(c)[i].type \in Types /\ Fields(c)[i].offset \in Nat
    BY <2>1 DEF PlacedRecs
  <2> QED BY <1>1, <2>2, Sizes, Alignments DEF AllLaid
<1>6. ASSUME NEW i \in 0 .. Len(Fields(c)) PROVE EndOf(Fields(c), i) \in Nat
  <2>1. i = 0 \/ i \in DOMAIN Fields(c)
    BY <1>4
  <2> QED BY <1>5, <2>1 DEF EndOf, End
<1> QED BY <1>1, <1>3, <1>4, <1>5, <1>6 DEF AllLaid

LEMMA EndsThere ==
    ASSUME AllLaid, NEW c \in Classes
    PROVE  EndOfFields(c) = EndOf(Fields(c), Len(Fields(c)))
<1> DEFINE fs == Fields(c)
           n == Len(fs)
<1>1. /\ n \in Nat /\ DOMAIN fs = 1 .. n /\ n = Len(Flat[c]) /\ Laid(fs, Flat[c])
  BY LaidFields
<1>2. PICK e : FieldEnds(c, e) /\ EndOfFields(c) = e[n]
  BY <1>1, FieldEndsTo DEF AllLaid
<1> HIDE DEF n, fs
<1> DEFINE Wrong == {i \in Nat : i <= n /\ e[i] # EndOf(fs, i)}
<1>3. Wrong = {}
  <2> SUFFICES ASSUME Wrong # {} PROVE FALSE
    OBVIOUS
  <2>1. PICK k \in Wrong : \A j \in Wrong : ~(j < k)
    BY LeastNat
  <2>2. k # 0
    BY <1>2, <2>1 DEF FieldEnds, EndOf
  <2>3. k \in 1 .. n /\ k - 1 \in Nat /\ k - 1 <= n /\ k - 1 < k
    BY <1>1, <2>1, <2>2
  <2>4. e[k - 1] = EndOf(fs, k - 1)
    BY <2>1, <2>3
  <2>5. e[k] = End(Start(e[k - 1], Flat[c][k].type), Flat[c][k].type)
    BY <1>1, <1>2, <2>3 DEF FieldEnds
  <2>6. fs[k].type = Flat[c][k].type /\ fs[k].offset = Start(EndOf(fs, k - 1), fs[k].type)
    BY <1>1, <2>3 DEF Laid
  <2>7. e[k] = EndOf(fs, k)
    BY <2>2, <2>4, <2>5, <2>6 DEF EndOf
  <2> QED BY <2>1, <2>7
<1>4. e[n] = EndOf(fs, n)
  BY <1>1, <1>3
<1> QED BY <1>2, <1>4 DEF n, fs

\* Fields of class c that are those of class b, from the p-th on, and begin s
\* bytes further on.
Shifted(b, c, p, s) ==
    /\ \A k \in DOMAIN Fields(b) :
          /\ p + k \in DOMAIN Fields(c)
          /\ Fields(c)[p + k].name = Fields(b)[k].name /\ Fields(c)[p + k].type = Fields(b)[k].type
          /\ Fields(c)[p + k].offset = s + Fields(b)[k].offset
    /\ EndOf(Fields(c), p + Len(Fields(b))) = s + EndOf(Fields(b), Len(Fields(b)))

LEMMA ListShifted ==
    ASSUME AllLaid, NEW b \in Classes, NEW c \in Classes, NEW p \in Nat,
           p + Len(Flat[b]) <= Len(Flat[c]), \A k \in 1 .. Len(Flat[b]) : Flat[c][p + k] = Flat[b][k],
           NEW s \in Nat, s % 8 = 0, EndOf(Fields(c), p) = s
    PROVE  Shifted(b, c, p, s)
<1> DEFINE fs == Fields(b)
           gs == Fields(c)
           m == Len(fs)
<1>1. /\ m \in Nat /\ DOMAIN fs = 1 .. m /\ m = Len(Flat[b]) /\ Laid(fs, Flat[b])
      /\ \A i \in DOMAIN fs : fs[i].offset \in Nat /\ Align(fs[i].type) \in {1, 2, 4, 8}
                              /\ Size(fs[i].type) \in Nat
      /\ \A i \in 0 .. m : EndOf(fs, i) \in Nat
  BY LaidFields
<1>2. /\ DOMAIN gs = 1 .. Len(gs) /\ Len(gs) \in Nat /\ Len(gs) = Len(Flat[c]) /\ Laid(gs, Flat[c])
  BY LaidFields
<1>3. p + m <= Len(gs) /\ \A k \in 1 .. m : Flat[c][p + k] = Flat[b][k]
  BY <1>1, <1>2
<1>4. EndOf(gs, p) = s
  OBVIOUS
<1> HIDE DEF fs, gs, m
<1>5. ASSUME NEW k \in 1 .. m
      PROVE  /\ p + k \in DOMAIN gs /\ k \in DOMAIN fs
             /\ gs[p + k].name = fs[k].name /\ gs[p + k].type = fs[k].type
  <2>1. p + k \in DOMAIN gs /\ k \in DOMAIN fs
    BY <1>1, <1>2, <1>3
  <2>2. Flat[c][p + k] = Flat[b][k]
    BY <1>3
  <2>3. fs[k].name = Flat[b][k].name /\ fs[k].type = Flat[b][k].type
    BY <1>1, <2>1 DEF Laid
  <2>4. gs[p + k].name = Flat[c][p + k].name /\ gs[p + k].type = Flat[c][p + k].type
    BY <1>2, <2>1 DEF Laid
  <2> QED BY <2>1, <2>2, <2>3, <2>4
<1>6. ASSUME NEW k \in 1 .. m, EndOf(gs, p + (k - 1)) = s + EndOf(fs, k - 1)
      PROVE  gs[p + k].offset = s + fs[k].offset /\ EndOf(gs, p + k) = s + EndOf(fs, k)
  <2> DEFINE t == fs[k].type
             n == EndOf(fs, k - 1)
  <2>1. n \in Nat /\ Align(t) \in {1, 2, 4, 8} /\ Size(t) \in Nat /\ fs[k].offset \in Nat
        /\ p + k # 0 /\ k # 0 /\ p + k - 1 = p + (k - 1)
    <3>1. k - 1 \in 0 .. m /\ k \in DOMAIN fs /\ p + k # 0 /\ k # 0 /\ p + k - 1 = p + (k - 1)
      BY <1>1
    <3>2. n \in Nat
      BY <1>1, <3>1
    <3>3. Align(t) \in {1, 2, 4, 8} /\ Size(t) \in Nat /\ fs[k].offset \in Nat
      BY <1>1, <3>1
    <3> QED BY <3>1, <3>2, <3>3
  <2>2. fs[k].offset = Start(n, t)
    BY <1>1 DEF Laid
  <2>3. gs[p + k].offset = Start(s + n, t)
    BY <1>2, <1>5, <1>6, <2>1 DEF Laid
  <2> HIDE DEF n, t
  <2>4. Start(s + n, t) = s + Start(n, t)
    <3>1. n \in Nat /\ s \in Nat /\ s % 8 = 0 /\ Align(t) \in {1, 2, 4, 8}
      BY <2>1
    <3>2. \A x \in Nat : \A u : Align(u) \in {1, 2, 4, 8} => Start(s + x, u) = s + Start(x, u)
      BY StartShifted
    <3> QED BY <3>1, <3>2
  <2>5. gs[p + k].offset = s + fs[k].offset
    BY <2>2, <2>3, <2>4
  <2>6. EndOf(gs, p + k) = gs[p + k].offset + Size(t) /\ EndOf(fs, k) = fs[k].offset + Size(t)
    BY <1>5, <2>1 DEF EndOf, End, t
  <2> QED BY <2>1, <2>5, <2>6
<1> DEFINE Wrong == {k \in Nat : k <= m /\ EndOf(gs, p + k) # s + EndOf(fs, k)}
<1>7. Wrong = {}
  <2> SUFFICES ASSUME Wrong # {} PROVE FALSE
    OBVIOUS
  <2>1. PICK k \in Wrong : \A j \in Wrong : ~(j < k)
    BY LeastNat
  <2>2. k # 0
    <3>1. p + 0 = p /\ EndOf(fs, 0) = 0 /\ s + 0 = s
      BY DEF EndOf
    <3> QED BY <1>4, <2>1, <3>1
  <2>3. k \in 1 .. m /\ k - 1 \in Nat /\ k - 1 <= m /\ k - 1 < k
    BY <1>1, <2>1, <2>2
  <2>4. EndOf(gs, p + (k - 1)) = s + EndOf(fs, k - 1)
    BY <2>1, <2>3
  <2> QED BY <1>6, <2>1, <2>3, <2>4
<1>8. \A k \in 1 .. m : gs[p + k].offset = s + fs[k].offset
  <2> TAKE k \in 1 .. m
  <2>1. k - 1 \in Nat /\ k - 1 <= m
    BY <1>1
  <2>2. EndOf(gs, p + (k - 1)) = s + EndOf(fs, k - 1)
    BY <1>7, <2>1
  <2> QED BY <1>6, <2>2
<1>9. EndOf(gs, p + m) = s + EndOf(fs, m)
  <2>1. m \in Nat /\ m <= m
    BY <1>1
  <2> QED BY <1>7, <2>1
<1> HIDE DEF Wrong
<1> QED BY <1>1, <1>5, <1>8, <1>9 DEF Shifted, fs, gs, m

\* The object of the i-th base begins where Span says.
LEMMA BaseShifted ==
    ASSUME AllLaid, NEW c \in Classes, NEW i \in DOMAIN bases[c]
    PROVE  \E p \in Nat : Shifted(bases[c][i], c, p, Span(c, i))
<1> DEFINE n == Len(bases[c])
           ss == [j \in DOMAIN bases[c] |-> Flat[bases[c][j]]]
<1>1. StructTyped /\ WellFounded /\ Declared
  BY DEF AllLaid, StructTyped
<1>2. n \in Nat /\ DOMAIN bases[c] = 1 .. n /\ \A j \in DOMAIN bases[c] : bases[c][j] \in Classes
  BY <1>1, BaseList
<1>3. /\ Flat[c] = FlattenSeq(ss) \o fields[c] /\ fields[c] \in Seq(FieldRecs)
      /\ \A j \in DOMAIN bases[c] : Flat[bases[c][j]] \in Seq(FieldRecs)
  <2>1. Flat \in FlatTables /\ Flat = FlatStep(Flat)
    BY <1>1, FlatFixed
  <2>2. FlatStep(Flat)[c] = FlattenSeq(ss) \o fields[c]
    BY DEF FlatStep
  <2> QED BY <1>1, <1>2, <2>1, <2>2, BaseList DEF FlatTables
<1>4. ss \in Seq(Seq(FieldRecs)) /\ ss # <<>> /\ Len(ss) = n /\ \A j \in 1 .. n : ss[j] = Flat[bases[c][j]]
  BY <1>2, <1>3
<1> HIDE DEF ss, n
<1>5. PICK pos : Positions(ss, pos)
  BY <1>4, FlattenAt
<1>6. ASSUME NEW j \in 1 .. n
      PROVE  /\ pos[j] \in Nat /\ bases[c][j] \in Classes /\ ss[j] = Flat[bases[c][j]]
             /\ pos[j] + Len(Flat[bases[c][j]]) <= Len(Flat[c])
             /\ \A k \in 1 .. Len(Flat[bases[c][j]]) : Flat[c][pos[j] + k] = Flat[bases[c][j]][k]
  <2>1. /\ pos[j] \in Nat /\ pos[j] + Len(ss[j]) <= Len(FlattenSeq(ss))
        /\ \A k \in 1 .. Len(ss[j]) : FlattenSeq(ss)[pos[j] + k] = ss[j][k]
        /\ ss[j] = Flat[bases[c][j]] /\ bases[c][j] \in Classes /\ Len(ss[j]) \in Nat
    BY <1>2, <1>3, <1>4, <1>5, LenProperties DEF Positions
  <2>2. FlattenSeq(ss) \in Seq(FieldRecs)
    BY <1>4, FlattenTyped
  <2>3. Begins(FlattenSeq(ss), Flat[c])
    BY <1>3, <2>2, ConcatBegins
  <2>4. Len(FlattenSeq(ss)) \in Nat /\ Len(Flat[c]) \in Nat
    BY <1>1, <2>2, FlatTyped, LenProperties
  <2>5. \A k \in 1 .. Len(ss[j]) : pos[j] + k \in 1 .. Len(FlattenSeq(ss))
    BY <2>1, <2>4
  <2>6. pos[j] + Len(ss[j]) <= Len(Flat[c])
    BY <2>1, <2>3, <2>4 DEF Begins
  <2>7. \A k \in 1 .. Len(ss[j]) : Flat[c][pos[j] + k] = ss[j][k]
    BY <2>1, <2>3, <2>5 DEF Begins
  <2> QED BY <2>1, <2>6, <2>7
<1> DEFINE Wrong == {j \in Nat : j \in 1 .. n /\ ~(EndOf(Fields(c), pos[j]) = Span(c, j) /\ Span(c, j) % 8 = 0)}
<1>7. ASSUME NEW j \in 1 .. n, EndOf(Fields(c), pos[j]) = Span(c, j), Span(c, j) % 8 = 0
      PROVE  Shifted(bases[c][j], c, pos[j], Span(c, j))
  <2>1. Span(c, j) \in Nat
    BY <1>1, <1>2, Spans
  <2> QED BY <1>6, <1>7, <2>1, ListShifted
<1>8. Wrong = {}
  <2> SUFFICES ASSUME Wrong # {} PROVE FALSE
    OBVIOUS
  <2>1. PICK k \in Wrong : \A j \in Wrong : ~(j < k)
    BY LeastNat
  <2>2. k # 1
    <3>1. bases[c] # <<>>
      BY <1>2
    <3>2. Span(c, 1) = 0 /\ pos[1] = 0 /\ EndOf(Fields(c), 0) = 0
      BY <1>1, <1>5, <3>1, Spans DEF EndOf, Positions
    <3> QED BY <2>1, <3>2
  <2> DEFINE j == k - 1
             b == bases[c][j]
  <2>3. j \in 1 .. n - 1 /\ j \in 1 .. n /\ j < k /\ j + 1 = k /\ k \in 1 .. n
    BY <1>2, <2>1, <2>2
  <2> HIDE DEF j
  <2>4. EndOf(Fields(c), pos[j]) = Span(c, j) /\ Span(c, j) % 8 = 0
    BY <2>1, <2>3
  <2>5. Shifted(b, c, pos[j], Span(c, j))
    BY <1>7, <2>3, <2>4
  <2>6. b \in Classes /\ ss[j] = Flat[b]
    BY <1>6, <2>3
  <2>7. Span(c, k) = Span(c, j) + EndOfFields(b) /\ Span(c, j) \in Nat
    BY <1>1, <1>2, <2>3, Spans
  <2>8. EndOfFields(b) = EndOf(Fields(b), Len(Fields(b))) /\ EndOfFields(b) % 8 = 0
        /\ EndOfFields(b) \in Nat /\ Len(Fields(b)) = Len(Flat[b])
    <3>1. Len(Fields(b)) \in 0 .. Len(Fields(b)) /\ Len(Fields(b)) = Len(Flat[b])
      BY <2>6, LaidFields
    <3> QED BY <2>6, <3>1, EndsThere, LaidFields DEF AllLaid, WholeWords
  <2>9. pos[k] = pos[j] + Len(Fields(b))
    <3>1. pos[j + 1] = pos[j] + Len(ss[j])
      BY <1>4, <1>5, <2>3 DEF Positions
    <3> QED BY <2>3, <2>6, <2>8, <3>1
  <2>10. EndOf(Fields(c), pos[k]) = Span(c, k)
    BY <2>5, <2>7, <2>8, <2>9 DEF Shifted
  <2>11. Span(c, k) % 8 = 0
    <3> DEFINE x == Span(c, j)
               y == EndOfFields(b)
    <3>1. x \in Nat /\ y \in Nat /\ x % 8 = 0 /\ y % 8 = 0 /\ Span(c, k) = x + y
      BY <2>4, <2>7, <2>8
    <3> HIDE DEF x, y
    <3> QED BY <3>1
  <2> QED BY <2>1, <2>10, <2>11
<1>9. i \in 1 .. n /\ i \in Nat
  BY <1>2
<1> QED BY <1>6, <1>7, <1>8, <1>9

\* An object of class o is in one of class c, s bytes from its beginning.
Embeds(o, c, s) ==
    \A i \in DOMAIN Fields(o) : \E j \in DOMAIN Fields(c) :
        /\ Fields(c)[j].name = Fields(o)[i].name /\ Fields(c)[j].type = Fields(o)[i].type
        /\ Fields(c)[j].offset = s + Fields(o)[i].offset

LEMMA OwnersAreParts ==
    ASSUME AllLaid, NEW c \in Classes, NEW m \in DOMAIN Resolve[c]
    PROVE  Embeds(Resolve[c][m].owner, c, Resolve[c][m].offset)
<1> DEFINE S == {b \in Classes : \E n \in DOMAIN Resolve[b] :
                     ~Embeds(Resolve[b][n].owner, b, Resolve[b][n].offset)}
<1>1. StructTyped /\ WellFounded /\ Declared
  BY DEF AllLaid, StructTyped
<1>2. ASSUME NEW b \in S PROVE \E i \in DOMAIN bases[b] : bases[b][i] \in S
  <2>1. b \in Classes
    OBVIOUS
  <2>2. PICK n \in DOMAIN Resolve[b] : ~Embeds(Resolve[b][n].owner, b, Resolve[b][n].offset)
    OBVIOUS
  <2> HIDE DEF S
  <2>3. EntryFrom(b, Resolve, n, Resolve[b][n])
    BY <1>1, <2>1, <2>2, Resolved
  <2>4. ASSUME n \in methods[b] PROVE FALSE
    <3>1. Resolve[b][n] = [owner |-> b, offset |-> 0]
      BY <2>3, <2>4 DEF EntryFrom
    <3>2. Resolve[b][n].owner = b /\ Resolve[b][n].offset = 0
      BY <3>1
    <3>3. \A i \in DOMAIN Fields(b) : 0 + Fields(b)[i].offset = Fields(b)[i].offset
      BY <2>1, LaidFields
    <3>4. Embeds(b, b, 0)
      BY <3>3 DEF Embeds
    <3> QED BY <2>2, <3>2, <3>4
  <2>5. PICK i \in DOMAIN bases[b] :
           n \in DOMAIN Resolve[bases[b][i]]
           /\ Resolve[b][n] = [owner |-> Resolve[bases[b][i]][n].owner,
                              offset |-> Span(b, i) + Resolve[bases[b][i]][n].offset]
    BY <2>3, <2>4 DEF EntryFrom
  <2> DEFINE a == bases[b][i]
             o == Resolve[a][n].owner
             s == Resolve[a][n].offset
  <2> SUFFICES ASSUME a \notin S PROVE FALSE
    OBVIOUS
  <2>6. a \in Classes
    BY <1>1, <2>1, BaseList
  <2>7. Embeds(o, a, s)
    BY <2>5, <2>6 DEF S
  <2>8. Resolve[b][n].owner = o /\ Resolve[b][n].offset = Span(b, i) + s
    BY <2>5
  <2>9. s \in Nat /\ o \in Classes /\ Span(b, i) \in Nat
    <3>1. Resolve[a][n] \in Entries
      BY <1>1, <2>5, <2>6, Resolved
    <3>2. Span(b, i) \in Nat
      BY <1>1, <2>1, Spans
    <3> QED BY <3>1, <3>2 DEF Entries
  <2>10. PICK p \in Nat : Shifted(a, b, p, Span(b, i))
    BY <2>1, BaseShifted
  <2> HIDE DEF a, o, s
  <2>11. ASSUME NEW x \in DOMAIN Fields(o)
         PROVE  \E j \in DOMAIN Fields(b) :
                   /\ Fields(b)[j].name = Fields(o)[x].name /\ Fields(b)[j].type = Fields(o)[x].type
                   /\ Fields(b)[j].offset = (Span(b, i) + s) + Fields(o)[x].offset
    <3>1. PICK k \in DOMAIN Fields(a) :
             /\ Fields(a)[k].name = Fields(o)[x].name /\ Fields(a)[k].type = Fields(o)[x].type
             /\ Fields(a)[k].offset = s + Fields(o)[x].offset
      BY <2>7, <2>11 DEF Embeds
    <3>2. /\ p + k \in DOMAIN Fields(b)
          /\ Fields(b)[p + k].name = Fields(a)[k].name /\ Fields(b)[p + k].type = Fields(a)[k].type
          /\ Fields(b)[p + k].offset = Span(b, i) + Fields(a)[k].offset
      BY <2>10, <3>1 DEF Shifted
    <3>3. Fields(o)[x].offset \in Nat
      BY <2>9, <2>11, LaidFields
    <3>4. Span(b, i) + (s + Fields(o)[x].offset) = (Span(b, i) + s) + Fields(o)[x].offset
      BY <2>9, <3>3
    <3> QED BY <3>1, <3>2, <3>4
  <2>12. Embeds(o, b, Span(b, i) + s)
    BY <2>11 DEF Embeds
  <2> QED BY <2>2, <2>8, <2>12
<1> HIDE DEF S
<1>3. S \subseteq Classes
  BY DEF S
<1>4. WellFounded /\ \A b \in S : \E i \in DOMAIN bases[b] : bases[b][i] \in S
  BY <1>1, <1>2
<1>5. S = {}
  BY <1>3, <1>4, Hierarchy
<1> QED BY <1>5 DEF S

\* The receiver of an inherited method points at an object of the class that
\* declared it, in a program whose fields end on whole words and whose classes
\* are declared in order, if the object is a variable or its offset is 0
\* (gen_method_call).
THEOREM ReceiversFit == DataSpec => []ReceiverInWords
<1>1. StructIInv /\ FlatIInv /\ CallIInv => ReceiverInWords
  <2> SUFFICES ASSUME StructIInv, FlatIInv, CallIInv, call # NoCall, TypesFirst, WholeWords,
                      call.ptr => call.offset = 0
               PROVE  ReceiverFits
    BY DEF ReceiverInWords
  <2>1. /\ structs \in Seq(Layouts) /\ Len(structs) = N /\ call.cls \in Classes
        /\ call.method \in DOMAIN Resolve[call.cls]
        /\ call.owner = Resolve[call.cls][call.method].owner
        /\ call.offset = Resolve[call.cls][call.method].offset
        /\ call.bump = Bump(call.cls, call.offset, call.ptr)
    BY DEF StructIInv, StructTyped, CallIInv
  <2>2. DOMAIN structs = Classes
    BY <2>1, LenProperties DEF Classes
  <2>3. AllLaid
    BY <2>1, <2>2 DEF AllLaid, StructIInv, FlatIInv, CallIInv
  <2>4. Embeds(call.owner, call.cls, call.offset)
    BY <2>1, <2>3, OwnersAreParts
  <2>5. call.bump = call.offset
    <3>1. structs[call.cls] \in Layouts
      BY <2>1, <2>2
    <3>2. structs[call.cls].total \in Nat
      BY <3>1 DEF Layouts
    <3>3. 0 * structs[call.cls].total = 0
      BY <3>2
    <3>4. CASE call.offset = 0
      BY <2>1, <3>3, <3>4 DEF Bump
    <3>5. CASE ~call.ptr
      BY <2>1, <3>5 DEF Bump
    <3> QED BY <3>4, <3>5
  <2> QED BY <2>4, <2>5 DEF ReceiverFits, Embeds
<1> QED BY <1>1, CallInvariance, PTL

-----------------------------------------------------------------------------
(***************************************************************************)
(* Pass 1 and gen_data.  Nothing is assigned or emitted before the classes *)
(* are laid out, and sizes do not change afterwards.                       *)
(***************************************************************************)
SizeOf(i) == Size(globals[i].type)
Taken(i) == IF Aggregate(globals[i].type) THEN SizeOf(i) ELSE 8
Shown == DOMAIN at \ Percpus        \* the globals emitted, and per-CPU ones
Template == DOMAIN at \cap Percpus

DataTyped ==
    /\ globals \in Seq(VarDecls)
    /\ next \in 1 .. Len(globals) + 1
    /\ percpu_offsets \in [{i \in Percpus : i < next} -> Nat] /\ percpu_size \in Nat
    /\ todoData \subseteq DOMAIN globals
    /\ at \in [DOMAIN globals \ todoData -> Nat]
    /\ sections \in [{"data", "bss", "percpu"} -> Nat]
    /\ cursor \in Nat
    /\ phase \in {"class", "fields"} => next = 1
    /\ next <= Len(globals) => todoData = DOMAIN globals

\* Offsets grow in the order of the declarations.
OffsetsChained ==
    \A i \in DOMAIN percpu_offsets :
        /\ percpu_offsets[i] % Align(globals[i].type) = 0
        /\ percpu_offsets[i] + SizeOf(i) <= percpu_size
        /\ \A j \in DOMAIN percpu_offsets :
              i < j => percpu_offsets[i] + SizeOf(i) <= percpu_offsets[j]

\* What is emitted ends inside its section, and where the next one begins.
ShownApart ==
    \A i \in Shown :
        /\ at[i] + Taken(i) <= sections[SectionOf(globals[i])]
        /\ \A j \in Shown :
              i # j /\ SectionOf(globals[i]) = SectionOf(globals[j]) =>
                  at[i] + Taken(i) <= at[j] \/ at[j] + Taken(j) <= at[i]

\* The template is emitted by offset; the cursor is at the end of one of its
\* variables, and where the section ends as long as all of them are words.
OffsetOrder ==
    \A i \in Template, j \in todoData \cap Percpus : percpu_offsets[i] <= percpu_offsets[j]
CursorCovers ==
    /\ cursor <= sections["percpu"]
    /\ \A i \in Template : percpu_offsets[i] + SizeOf(i) <= cursor
CursorReached ==
    cursor = 0 \/ \E i \in Template : cursor = percpu_offsets[i] + SizeOf(i)
CursorTrue ==
    (\A i \in Template : SizeOf(i) % 8 = 0) => sections["percpu"] = cursor
TemplateInPlace ==
    \A i \in Template : WholeWordsBefore(i) /\ SizeOf(i) > 0 => at[i] = percpu_offsets[i]

DataIInv ==
    /\ DataTyped
    /\ OffsetsChained
    /\ OffsetOrder
    /\ IntsOnScalars => /\ ShownApart
                        /\ CursorCovers
                        /\ CursorReached
                        /\ CursorTrue
                        /\ TemplateInPlace

LEMMA DataStart == Init /\ DataInit => DataIInv
<1> SUFFICES ASSUME Init, DataInit PROVE DataIInv
  OBVIOUS
<1>1. globals \in Seq(VarDecls)
  BY GlobalsAssumption DEF DataInit
<1>2. /\ next = 1 /\ todoData = DOMAIN globals /\ percpu_size = 0 /\ cursor = 0
      /\ percpu_offsets = [i \in {} |-> 0] /\ at = [i \in {} |-> 0]
      /\ sections = [s \in {"data", "bss", "percpu"} |-> 0]
      /\ phase = "class" /\ Len(globals) \in Nat
      /\ \A i \in DOMAIN globals : i \in Nat /\ i >= 1
  BY <1>1, LenProperties DEF Init, DataInit
<1>3. {i \in Percpus : i < next} = {} /\ DOMAIN globals \ todoData = {}
  BY <1>2 DEF Percpus
<1>4. DOMAIN at = {} /\ DOMAIN percpu_offsets = {}
  BY <1>2
<1>5. DataTyped
  <2>1. percpu_offsets \in [{i \in Percpus : i < next} -> Nat]
    BY <1>2, <1>3
  <2>2. at \in [DOMAIN globals \ todoData -> Nat]
    BY <1>2, <1>3
  <2>3. sections \in [{"data", "bss", "percpu"} -> Nat]
    BY <1>2
  <2>4. next \in 1 .. Len(globals) + 1
    BY <1>2
  <2> QED BY <1>1, <1>2, <2>1, <2>2, <2>3, <2>4 DEF DataTyped
<1>6. sections["percpu"] = 0 /\ cursor = 0
  BY <1>2
<1>7. Shown = {} /\ Template = {}
  BY <1>4 DEF Shown, Template
<1> QED
  BY <1>4, <1>5, <1>6, <1>7
  DEF DataIInv, OffsetsChained, OffsetOrder, ShownApart, CursorCovers, CursorReached, CursorTrue,
      TemplateInPlace

\* Sizes depend on nothing but the table of classes.
LEMMA SameSizes ==
    ASSUME UNCHANGED structs
    PROVE  \A t : Size(t)' = Size(t) /\ Align(t)' = Align(t)
BY DEF Size, Align, ElemSize

\* Before anything is assigned or emitted, what is said of the variables that
\* are holds whatever the classes are.
LEMMA NothingYet ==
    ASSUME StructIInv, DataIInv, phase \in {"class", "fields"},
           phase' \in {"class", "fields", "emit", "rejected"}, UNCHANGED dataVars
    PROVE  DataIInv'
<1>1. DataTyped /\ next = 1 /\ \A i \in DOMAIN globals : i \in Nat /\ i >= 1
  BY LenProperties DEF DataIInv, DataTyped
<1>2. todoData = DOMAIN globals
  <2>1. CASE 1 <= Len(globals)
    BY <1>1, <2>1 DEF DataTyped
  <2>2. CASE ~(1 <= Len(globals))
    <3>1. Len(globals) = 0 /\ DOMAIN globals = 1 .. 0
      BY <1>1, <2>2, LenProperties DEF DataTyped
    <3> QED BY <1>1, <3>1 DEF DataTyped
  <2> QED BY <2>1, <2>2
<1>3. {i \in Percpus : i < next} = {} /\ DOMAIN globals \ todoData = {}
  BY <1>1, <1>2 DEF Percpus
<1>4. DOMAIN at = {} /\ DOMAIN percpu_offsets = {}
  BY <1>1, <1>3 DEF DataTyped
<1>5. DataTyped'
  BY <1>1 DEF DataTyped, dataVars, Percpus
<1>6. /\ DOMAIN at' = {} /\ DOMAIN percpu_offsets' = {} /\ IntsOnScalars' = IntsOnScalars
      /\ UNCHANGED <<cursor, sections>>
  BY <1>4 DEF dataVars, IntsOnScalars, Aggregate
<1>7. Shown' = {} /\ Template' = {} /\ Template = {}
  BY <1>4, <1>6 DEF Shown, Template
<1> QED
  BY <1>5, <1>6, <1>7
  DEF DataIInv, OffsetsChained, OffsetOrder, ShownApart, CursorCovers, CursorReached, CursorTrue,
      TemplateInPlace

\* Steps that change nothing the invariant speaks of.
LEMMA DataKept ==
    ASSUME DataIInv, UNCHANGED <<structs, dataVars>>,
           phase' \in {"class", "fields"} => phase \in {"class", "fields"}
    PROVE  DataIInv'
<1>1. \A t : Size(t)' = Size(t) /\ Align(t)' = Align(t)
  BY SameSizes
<1>2. UNCHANGED <<globals, next, percpu_offsets, percpu_size, todoData, at, sections, cursor>>
  BY DEF dataVars
<1>3. DataTyped'
  BY <1>2 DEF DataIInv, DataTyped, Percpus
<1>4. OffsetsChained' /\ OffsetOrder'
  BY <1>1, <1>2 DEF DataIInv, OffsetsChained, OffsetOrder, SizeOf, Template, Percpus
<1>5. IntsOnScalars' = IntsOnScalars
  BY <1>2 DEF IntsOnScalars, Aggregate
<1>6. ShownApart => ShownApart'
  BY <1>1, <1>2 DEF ShownApart, Shown, Percpus, Taken, SizeOf, Aggregate, SectionOf
<1>7. CursorCovers /\ CursorReached /\ CursorTrue => (CursorCovers /\ CursorReached /\ CursorTrue)'
  BY <1>1, <1>2 DEF CursorCovers, CursorReached, CursorTrue, Template, Percpus, SizeOf
<1>8. TemplateInPlace => TemplateInPlace'
  BY <1>1, <1>2 DEF TemplateInPlace, Template, Percpus, SizeOf, WholeWordsBefore
<1> QED BY <1>3, <1>4, <1>5, <1>6, <1>7, <1>8 DEF DataIInv

\* Pass 1.
LEMMA GlobalTyped ==
    ASSUME StructIInv, DataTyped, NEW i \in DOMAIN globals
    PROVE  /\ globals[i].type \in Types /\ globals[i].value \in Values /\ i \in Nat
           /\ SizeOf(i) \in Nat /\ Align(globals[i].type) \in 1 .. 8
<1>1. globals[i] \in VarDecls /\ i \in Nat
  <2>1. globals \in Seq(VarDecls)
    BY DEF DataTyped
  <2> QED BY <2>1, LenProperties
<1>2. globals[i].type \in Types /\ globals[i].value \in Values
  BY <1>1 DEF VarDecls
<1>3. structs \in Seq(Layouts)
  BY DEF StructIInv, StructTyped
<1> QED BY <1>1, <1>2, <1>3, Sizes DEF SizeOf

LEMMA PassGlobalStep ==
    ASSUME StructIInv, DataIInv, PassGlobal, UNCHANGED vars
    PROVE  DataIInv'
<1>1. /\ ~globals[next].percpu /\ next' = next + 1 /\ next <= Len(globals) /\ phase = "emit"
      /\ UNCHANGED <<globals, percpu_offsets, percpu_size, todoData, at, sections, cursor>>
      /\ UNCHANGED <<structs, phase>>
  BY DEF PassGlobal, vars
<1>2. DataTyped /\ next \in Nat /\ Len(globals) \in Nat /\ next \in 1 .. Len(globals)
  BY <1>1, LenProperties DEF DataIInv, DataTyped
<1>3. {i \in Percpus : i < next}' = {i \in Percpus : i < next}
  <2>1. Percpus' = Percpus /\ \A i \in Percpus : i # next /\ i \in Nat
    BY <1>1, <1>2, LenProperties DEF Percpus, DataTyped
  <2> QED BY <1>1, <1>2, <2>1
<1>4. DOMAIN at = {} /\ todoData = DOMAIN globals
  BY <1>1, <1>2 DEF DataTyped
<1>5. DataTyped'
  BY <1>1, <1>2, <1>3, <1>4 DEF DataTyped
<1>6. \A t : Size(t)' = Size(t) /\ Align(t)' = Align(t)
  BY <1>1, SameSizes
<1>7. OffsetsChained'
  BY <1>1, <1>6 DEF DataIInv, OffsetsChained, SizeOf
<1>8. Shown' = {} /\ Template' = {} /\ Template = {} /\ IntsOnScalars' = IntsOnScalars
  BY <1>1, <1>4 DEF Shown, Template, IntsOnScalars, Aggregate
<1> QED
  BY <1>1, <1>5, <1>7, <1>8
  DEF DataIInv, OffsetOrder, ShownApart, CursorCovers, CursorReached, CursorTrue, TemplateInPlace

LEMMA AssignOffsetStep ==
    ASSUME StructIInv, DataIInv, AssignOffset, UNCHANGED vars
    PROVE  DataIInv'
<1> DEFINE t == globals[next].type
           o == PercpuOffset(t)
<1>1. /\ globals[next].percpu /\ next' = next + 1 /\ next <= Len(globals) /\ phase = "emit"
      /\ percpu_offsets' = With(percpu_offsets, next, o) /\ percpu_size' = o + Size(t)
      /\ UNCHANGED <<globals, todoData, at, sections, cursor>>
      /\ UNCHANGED <<structs, phase>>
  BY DEF AssignOffset, vars
<1>2. /\ DataTyped /\ next \in Nat /\ Len(globals) \in Nat /\ next \in 1 .. Len(globals)
      /\ percpu_size \in Nat /\ next \in DOMAIN globals /\ structs \in Seq(Layouts)
  BY <1>1, LenProperties DEF DataIInv, DataTyped, StructIInv, StructTyped
<1>3. /\ t \in Types /\ next \in Percpus
  BY <1>1, <1>2, GlobalTyped DEF Percpus
<1>4. /\ Size(t) \in Nat /\ o \in Nat /\ percpu_size <= o /\ o % Align(t) = 0
  <2>1. Size(t) \in Nat /\ Align(t) \in 1 .. 8
    BY <1>2, <1>3, Sizes
  <2> QED BY <1>2, <2>1, RoundedUp DEF PercpuOffset
<1>5. \A u : Size(u)' = Size(u) /\ Align(u)' = Align(u)
  BY <1>1, SameSizes
<1>6. SizeOf(next) = Size(t) /\ \A i \in DOMAIN globals : SizeOf(i)' = SizeOf(i)
  BY <1>1, <1>5 DEF SizeOf
<1> HIDE DEF o
<1>7. /\ DOMAIN percpu_offsets = {i \in Percpus : i < next} /\ next \notin DOMAIN percpu_offsets
      /\ {i \in Percpus : i < next}' = DOMAIN percpu_offsets \cup {next}
      /\ DOMAIN percpu_offsets \subseteq DOMAIN globals
  <2>1. Percpus' = Percpus /\ \A i \in Percpus : i \in Nat /\ i \in DOMAIN globals
    BY <1>1, <1>2, LenProperties DEF Percpus, DataTyped
  <2>2. DOMAIN percpu_offsets = {i \in Percpus : i < next}
    BY <1>2 DEF DataTyped
  <2>3. {i \in Percpus : i < next}' = {i \in Percpus : i < next + 1}
    BY <1>1, <2>1
  <2>4. \A i \in Percpus : (i < next + 1) <=> (i < next \/ i = next)
    BY <1>2, <2>1
  <2>5. {i \in Percpus : i < next + 1} = {i \in Percpus : i < next} \cup {next}
    BY <1>3, <2>4
  <2>6. ~(next < next)
    BY <1>2
  <2> QED BY <2>1, <2>2, <2>3, <2>5, <2>6
<1>8. /\ DOMAIN percpu_offsets' = DOMAIN percpu_offsets \cup {next}
      /\ percpu_offsets'[next] = o
      /\ \A i \in DOMAIN percpu_offsets :
            percpu_offsets'[i] = percpu_offsets[i] /\ percpu_offsets[i] \in Nat /\ i < next
      /\ percpu_offsets' \in [{i \in Percpus : i < next}' -> Nat]
  <2> DEFINE D == DOMAIN percpu_offsets
  <2>1. percpu_offsets \in [D -> Nat] /\ next \notin D /\ \A i \in D : i < next
    BY <1>2, <1>7 DEF DataTyped
  <2> HIDE DEF D
  <2>2. /\ percpu_offsets' \in [D \cup {next} -> Nat]
        /\ percpu_offsets'[next] = o
        /\ \A i \in D : percpu_offsets'[i] = percpu_offsets[i]
    <3>1. percpu_offsets' = With(percpu_offsets, next, o) /\ o \in Nat
      BY <1>1, <1>4
    <3> QED BY <2>1, <3>1 DEF With
  <2> QED BY <1>7, <2>1, <2>2 DEF D
<1>9. DOMAIN at = {} /\ todoData = DOMAIN globals
  BY <1>1, <1>2 DEF DataTyped
<1>10. DataTyped'
  <2>1. percpu_size' \in Nat /\ next' \in 1 .. Len(globals) + 1
    BY <1>1, <1>2, <1>4
  <2> QED BY <1>1, <1>2, <1>8, <1>9, <2>1 DEF DataTyped
<1>11. OffsetsChained'
  <2>1. OffsetsChained
    BY DEF DataIInv
  <2> SUFFICES ASSUME NEW i \in DOMAIN percpu_offsets'
               PROVE  (/\ percpu_offsets[i] % Align(globals[i].type) = 0
                       /\ percpu_offsets[i] + SizeOf(i) <= percpu_size
                       /\ \A j \in DOMAIN percpu_offsets :
                             i < j => percpu_offsets[i] + SizeOf(i) <= percpu_offsets[j])'
    BY DEF OffsetsChained
  <2>4. /\ i \in DOMAIN globals /\ SizeOf(i)' = SizeOf(i)
        /\ Align(globals[i].type)' = Align(globals[i].type)
    BY <1>1, <1>2, <1>5, <1>6, <1>7, <1>8
  <2>2. CASE i = next
    <3>1. \A j \in DOMAIN percpu_offsets' : ~(i < j)
      BY <1>2, <1>8, <2>2
    <3>2. percpu_offsets'[i] % Align(globals[i].type) = 0
      BY <1>4, <1>8, <2>2
    <3> QED BY <1>1, <1>4, <1>6, <1>8, <2>2, <2>4, <3>1, <3>2
  <2>3. CASE i # next
    <3>1. i \in DOMAIN percpu_offsets /\ percpu_offsets'[i] = percpu_offsets[i] /\ i \in DOMAIN globals
      BY <1>7, <1>8, <2>3
    <3>2. SizeOf(i) \in Nat
      BY <1>2, <3>1, GlobalTyped
    <3>3. percpu_offsets[i] + SizeOf(i) <= percpu_size /\ percpu_offsets[i] \in Nat
      BY <1>8, <2>1, <3>1 DEF OffsetsChained
    <3>4. percpu_offsets[i] + SizeOf(i) <= o /\ o <= percpu_size'
      BY <1>1, <1>2, <1>4, <3>2, <3>3
    <3>5. percpu_offsets[i] + SizeOf(i) <= percpu_size'
      BY <1>1, <1>2, <1>4, <3>2, <3>3
    <3>6. ASSUME NEW j \in DOMAIN percpu_offsets', i < j
          PROVE  percpu_offsets'[i] + SizeOf(i) <= percpu_offsets'[j]
      BY <1>8, <2>1, <3>1, <3>4, <3>6 DEF OffsetsChained
    <3>7. percpu_offsets[i] % Align(globals[i].type) = 0
      BY <2>1, <3>1 DEF OffsetsChained
    <3> QED BY <2>4, <3>1, <3>5, <3>6, <3>7
  <2> QED BY <2>2, <2>3
<1>12. Shown' = {} /\ Template' = {} /\ Template = {} /\ IntsOnScalars' = IntsOnScalars
  BY <1>1, <1>9 DEF Shown, Template, IntsOnScalars, Aggregate
<1> QED
  BY <1>1, <1>10, <1>11, <1>12
  DEF DataIInv, OffsetOrder, ShownApart, CursorCovers, CursorReached, CursorTrue, TemplateInPlace

\* The sections.
LEMMA Places ==
    ASSUME NEW g
    PROVE  /\ g.percpu <=> SectionOf(g) = "percpu"
           /\ SectionOf(g) \in {"data", "bss", "percpu"}
BY DEF SectionOf

\* What every emission does.
LEMMA EmitDoes ==
    ASSUME StructIInv, DataIInv, UNCHANGED vars, NEW i, Turn(i),
           NEW place \in Nat, NEW bytes \in Nat, Emit(i, place, bytes), cursor' \in Nat
    PROVE  /\ DataTyped' /\ OffsetsChained' /\ IntsOnScalars' = IntsOnScalars
           /\ i \in DOMAIN globals /\ i \in todoData /\ next > Len(globals)
           /\ i \notin DOMAIN at /\ DOMAIN at' = DOMAIN at \cup {i} /\ at'[i] = place
           /\ \A j \in DOMAIN at : at'[j] = at[j] /\ at[j] \in Nat /\ j \in DOMAIN globals
           /\ sections'[SectionOf(globals[i])] = place + bytes
           /\ \A s \in {"data", "bss", "percpu"} :
                 s # SectionOf(globals[i]) => sections'[s] = sections[s]
           /\ UNCHANGED <<globals, percpu_offsets>> /\ todoData' = todoData \ {i}
           /\ \A t : Size(t)' = Size(t)
<1>1. /\ DataTyped /\ OffsetsChained /\ i \in todoData /\ next > Len(globals) /\ todoData' = todoData \ {i}
      /\ at' = With(at, i, place) /\ UNCHANGED <<globals, next, percpu_offsets, percpu_size>>
      /\ sections' = [sections EXCEPT ![SectionOf(globals[i])] = place + bytes]
      /\ UNCHANGED <<structs, phase>>
  BY DEF DataIInv, Turn, Emit, vars
<1>2. /\ i \in DOMAIN globals /\ at \in [DOMAIN globals \ todoData -> Nat]
      /\ sections \in [{"data", "bss", "percpu"} -> Nat] /\ todoData \subseteq DOMAIN globals
  BY <1>1 DEF DataTyped
<1>3. i \notin DOMAIN at /\ DOMAIN globals \ todoData' = DOMAIN at \cup {i} /\ todoData' \subseteq DOMAIN globals
  BY <1>1, <1>2
<1>4. /\ DOMAIN at' = DOMAIN at \cup {i} /\ at'[i] = place
      /\ \A j \in DOMAIN at : at'[j] = at[j] /\ at[j] \in Nat /\ j \in DOMAIN globals
      /\ at' \in [DOMAIN at \cup {i} -> Nat]
  BY <1>1, <1>2, <1>3 DEF With
<1>5. SectionOf(globals[i]) \in {"data", "bss", "percpu"}
  BY Places
<1>6. /\ sections' \in [{"data", "bss", "percpu"} -> Nat]
      /\ sections'[SectionOf(globals[i])] = place + bytes
      /\ \A s \in {"data", "bss", "percpu"} :
            s # SectionOf(globals[i]) => sections'[s] = sections[s]
  <2>1. place + bytes \in Nat
    OBVIOUS
  <2> QED BY <1>1, <1>2, <1>5, <2>1
<1>7. DataTyped'
  <2>1. /\ next' \in 1 .. Len(globals) + 1 /\ ~(next' <= Len(globals))
        /\ phase' \in {"class", "fields"} => next' = 1
    <3>1. next \in 1 .. Len(globals) + 1 /\ Len(globals) \in Nat
      BY <1>1, LenProperties DEF DataTyped
    <3> QED BY <1>1, <3>1 DEF DataTyped
  <2>2. at' \in [DOMAIN globals' \ todoData' -> Nat]
    BY <1>1, <1>3, <1>4
  <2>3. percpu_offsets' \in [{j \in Percpus : j < next}' -> Nat] /\ percpu_size' \in Nat
    BY <1>1 DEF DataTyped, Percpus
  <2>4. globals' \in Seq(VarDecls)
    BY <1>1 DEF DataTyped
  <2> QED BY <1>1, <1>3, <1>6, <2>1, <2>2, <2>3, <2>4 DEF DataTyped
<1>8. \A t : Size(t)' = Size(t) /\ Align(t)' = Align(t)
  BY <1>1, SameSizes
<1>9. OffsetsChained'
  BY <1>1, <1>8 DEF OffsetsChained, SizeOf
<1>10. IntsOnScalars' = IntsOnScalars
  BY <1>1 DEF IntsOnScalars, Aggregate
<1> QED BY <1>1, <1>2, <1>3, <1>4, <1>6, <1>7, <1>8, <1>9, <1>10

\* A global is emitted behind those of its section.
LEMMA EmitShown ==
    ASSUME StructIInv, DataIInv, UNCHANGED vars, UNCHANGED cursor, NEW i, Turn(i),
           ~globals[i].percpu, NEW place \in Nat, NEW bytes \in Nat, Emit(i, place, bytes),
           End_(i) <= place, IntsOnScalars => Taken(i) <= bytes
    PROVE  DataIInv'
<1>1. DataTyped /\ cursor' \in Nat /\ sections \in [{"data", "bss", "percpu"} -> Nat]
  BY DEF DataIInv, DataTyped
<1>2. /\ DataTyped' /\ OffsetsChained' /\ IntsOnScalars' = IntsOnScalars
      /\ i \in DOMAIN globals /\ i \in todoData
      /\ i \notin DOMAIN at /\ DOMAIN at' = DOMAIN at \cup {i} /\ at'[i] = place
      /\ \A j \in DOMAIN at : at'[j] = at[j] /\ at[j] \in Nat /\ j \in DOMAIN globals
      /\ sections'[SectionOf(globals[i])] = place + bytes
      /\ \A s \in {"data", "bss", "percpu"} :
            s # SectionOf(globals[i]) => sections'[s] = sections[s]
      /\ UNCHANGED <<globals, percpu_offsets>> /\ todoData' = todoData \ {i}
      /\ \A t : Size(t)' = Size(t)
  BY <1>1, EmitDoes
<1>3. /\ \A j : SizeOf(j)' = SizeOf(j) /\ Taken(j)' = Taken(j)
      /\ \A j : SectionOf(globals[j])' = SectionOf(globals[j])
  BY <1>2 DEF SizeOf, Taken, Aggregate, SectionOf
<1>4. /\ i \notin Percpus /\ Percpus' = Percpus /\ Template' = Template
      /\ Shown' = Shown \cup {i} /\ i \notin Shown /\ Shown \subseteq DOMAIN at
  BY <1>2 DEF Percpus, Template, Shown
<1>5. sections'["percpu"] = sections["percpu"]
  <2>1. SectionOf(globals[i]) # "percpu"
    BY Places
  <2> QED BY <1>2, <2>1
<1>6. \A j \in Template : at'[j] = at[j]
  BY <1>2 DEF Template
<1>7. OffsetOrder'
  BY <1>2, <1>4 DEF DataIInv, OffsetOrder
<1>8. CursorCovers /\ CursorReached /\ CursorTrue => (CursorCovers /\ CursorReached /\ CursorTrue)'
  BY <1>2, <1>3, <1>4, <1>5 DEF CursorCovers, CursorReached, CursorTrue
<1>9. TemplateInPlace => TemplateInPlace'
  <2>1. \A j : WholeWordsBefore(j)' = WholeWordsBefore(j)
    BY <1>2, <1>4 DEF WholeWordsBefore
  <2> QED BY <1>2, <1>3, <1>4, <1>6, <2>1 DEF TemplateInPlace
<1>10. ASSUME IntsOnScalars, ShownApart PROVE ShownApart'
  <2>1. \A j \in DOMAIN globals : Taken(j) \in Nat
    BY <1>1, GlobalTyped DEF Taken
  <2>2. ASSUME NEW j \in Shown, SectionOf(globals[j]) = SectionOf(globals[i])
        PROVE  at[j] \in Nat /\ Taken(j) \in Nat /\ at[j] + Taken(j) <= place
    <3>1. at[j] + Taken(j) <= End_(i)
      BY <1>10, <2>2 DEF ShownApart, End_
    <3>2. End_(i) \in Nat
      BY <1>1, Places DEF End_
    <3>3. at[j] \in Nat /\ Taken(j) \in Nat
      BY <1>2, <1>4, <2>1
    <3> QED BY <3>1, <3>2, <3>3
  <2>3. place + Taken(i) <= place + bytes /\ place <= place + bytes
    BY <1>2, <1>10, <2>1
  <2>4. ASSUME NEW j \in Shown
        PROVE  at[j] + Taken(j) <= sections'[SectionOf(globals[j])]
    <3>1. CASE SectionOf(globals[j]) = SectionOf(globals[i])
      BY <1>2, <2>2, <2>3, <3>1
    <3>2. CASE SectionOf(globals[j]) # SectionOf(globals[i])
      <4>1. sections'[SectionOf(globals[j])] = sections[SectionOf(globals[j])]
        BY <1>2, <3>2, Places
      <4> QED BY <1>10, <4>1 DEF ShownApart
    <3> QED BY <3>1, <3>2
  <2>5. ASSUME NEW j \in Shown', NEW k \in Shown', j # k,
               SectionOf(globals[j]) = SectionOf(globals[k])
        PROVE  at'[j] + Taken(j) <= at'[k] \/ at'[k] + Taken(k) <= at'[j]
    <3>1. CASE j = i
      <4>1. k \in Shown
        BY <1>4, <2>5, <3>1
      <4> QED BY <1>2, <1>4, <2>2, <2>5, <3>1, <4>1
    <3>2. CASE k = i
      <4>1. j \in Shown
        BY <1>4, <2>5, <3>2
      <4> QED BY <1>2, <1>4, <2>2, <2>5, <3>2, <4>1
    <3>3. CASE j # i /\ k # i
      <4>1. j \in Shown /\ k \in Shown
        BY <1>4, <3>3
      <4> QED BY <1>2, <1>4, <1>10, <2>5, <4>1 DEF ShownApart
    <3> QED BY <3>1, <3>2, <3>3
  <2>6. ASSUME NEW j \in Shown'
        PROVE  at'[j] + Taken(j) <= sections'[SectionOf(globals[j])]
    <3>1. CASE j = i
      BY <1>2, <2>3, <3>1
    <3>2. CASE j # i
      <4>1. j \in Shown /\ at'[j] = at[j]
        BY <1>2, <1>4, <3>2
      <4> QED BY <2>4, <4>1
    <3> QED BY <3>1, <3>2
  <2> QED BY <1>2, <1>3, <2>5, <2>6 DEF ShownApart
<1> QED BY <1>2, <1>7, <1>8, <1>9, <1>10 DEF DataIInv

LEMMA ShownSteps ==
    ASSUME StructIInv, DataIInv, UNCHANGED vars, NEW i,
           EmitInt(i) \/ EmitName(i) \/ EmitString(i) \/ EmitZero(i)
    PROVE  DataIInv'
<1>1. /\ Turn(i) /\ UNCHANGED cursor /\ DataTyped /\ i \in DOMAIN globals
      /\ sections \in [{"data", "bss", "percpu"} -> Nat]
  BY DEF EmitInt, EmitName, EmitString, EmitZero, Turn, DataIInv, DataTyped
<1>2. /\ End_(i) \in Nat /\ RoundUp(End_(i), 8) \in Nat /\ End_(i) <= RoundUp(End_(i), 8)
  <2>1. End_(i) \in Nat
    BY <1>1, Places DEF End_
  <2>2. 8 \in 1 .. 8
    OBVIOUS
  <2> QED BY <2>1, <2>2, RoundedUp
<1>3. /\ globals[i].type \in Types /\ SizeOf(i) \in Nat
      /\ globals[i].type.count \in Nat
  BY <1>1, GlobalTyped DEF Types
<1>4. ~globals[i].percpu
  <2>1. SectionOf(globals[i]) # "percpu"
    BY DEF EmitInt, EmitName, EmitString, EmitZero
  <2> QED BY <2>1, Places
<1>5. CASE EmitInt(i)
  <2>1. Emit(i, End_(i), 8) /\ globals[i].value.kind = "int"
    BY <1>5 DEF EmitInt
  <2>2. IntsOnScalars => Taken(i) <= 8
    BY <1>1, <2>1 DEF IntsOnScalars, Taken
  <2>3. 8 \in Nat /\ End_(i) <= End_(i)
    BY <1>2
  <2> QED BY <1>1, <1>2, <1>4, <2>1, <2>2, <2>3, EmitShown
<1>6. CASE EmitName(i)
  <2>1. Emit(i, RoundUp(End_(i), 8), 8) /\ ~Aggregate(globals[i].type)
    BY <1>6 DEF EmitName, Pointer
  <2>2. Taken(i) <= 8 /\ 8 \in Nat
    BY <2>1 DEF Taken
  <2> QED BY <1>1, <1>2, <1>4, <2>1, <2>2, EmitShown
<1>7. CASE EmitString(i)
  <2>1. /\ Emit(i, RoundUp(End_(i), 8), globals[i].type.count)
        /\ globals[i].type.count # 1 /\ ElemSize(globals[i].type) = 1
    BY <1>7 DEF EmitString, StringFits
  <2>2. Taken(i) <= globals[i].type.count
    BY <1>3, <2>1 DEF Taken, Aggregate, SizeOf, Size
  <2> QED BY <1>1, <1>2, <1>3, <1>4, <2>1, <2>2, EmitShown
<1>8. CASE EmitZero(i)
  <2> DEFINE z == IF SizeOf(i) < 8 THEN 8 ELSE SizeOf(i)
  <2>1. Emit(i, RoundUp(End_(i), 8), ZeroBytes(globals[i].type)) /\ ZeroBytes(globals[i].type) = RoundUp(z, 8)
    BY <1>8 DEF EmitZero, ZeroBytes, SizeOf
  <2>2. z \in Nat /\ SizeOf(i) <= z /\ 8 <= z /\ 8 \in 1 .. 8
    BY <1>3
  <2> HIDE DEF z
  <2>3. RoundUp(z, 8) \in Nat /\ z <= RoundUp(z, 8)
    BY <2>2, RoundedUp
  <2>4. Taken(i) <= RoundUp(z, 8)
    BY <1>3, <2>2, <2>3 DEF Taken
  <2> QED BY <1>1, <1>2, <1>4, <2>1, <2>3, <2>4, EmitShown
<1> QED BY <1>5, <1>6, <1>7, <1>8

\* Per-CPU variables are emitted by their offsets.
LEMMA EarlierByOffset ==
    ASSUME NEW i, NEW j, globals[i].percpu, globals[j].percpu, i \in Nat, j \in Nat,
           percpu_offsets[i] \in Nat, percpu_offsets[j] \in Nat, Earlier(i, j)
    PROVE  percpu_offsets[i] <= percpu_offsets[j]
<1> DEFINE L(k) == IF globals[k].value.kind = "none" THEN 1 ELSE 0
           r == Rank(i) \o <<i>>
           s == Rank(j) \o <<j>>
<1>1. Rank(i) = <<2, percpu_offsets[i], L(i)>> /\ Rank(j) = <<2, percpu_offsets[j], L(j)>>
  <2>1. SectionOf(globals[i]) = "percpu" /\ SectionOf(globals[j]) = "percpu"
    BY Places
  <2>2. "percpu" # "data" /\ "percpu" # "bss"
    OBVIOUS
  <2> QED BY <2>1, <2>2 DEF Rank
<1>2. L(i) \in Nat /\ L(j) \in Nat
  OBVIOUS
<1> HIDE DEF L
<1>3. r[1] = 2 /\ s[1] = 2 /\ r[2] = percpu_offsets[i] /\ s[2] = percpu_offsets[j]
  BY <1>1, <1>2
<1>4. PICK k \in 1 .. 4 : r[k] < s[k] /\ \A l \in 1 .. k - 1 : r[l] = s[l]
  BY DEF Earlier
<1> HIDE DEF r, s
<1>5. k # 1
  BY <1>3, <1>4
<1>6. CASE k = 2
  BY <1>3, <1>4, <1>6
<1>7. CASE k > 2
  <2>1. 2 \in 1 .. k - 1
    BY <1>4, <1>7
  <2> QED BY <1>3, <1>4, <2>1
<1> QED BY <1>4, <1>5, <1>6, <1>7

LEMMA EmitPercpuStep ==
    ASSUME StructIInv, DataIInv, UNCHANGED vars, NEW i, EmitPercpu(i)
    PROVE  DataIInv'
<1> DEFINE gap == Gap(percpu_offsets[i])
           place == End_(i) + gap
           bytes == TemplateBytes(globals[i])
           want == percpu_offsets[i]
           size == SizeOf(i)
<1>1. /\ Turn(i) /\ globals[i].percpu /\ globals[i].value.kind \in {"none", "int"}
      /\ Emit(i, place, bytes) /\ cursor' = cursor + gap + size
  BY DEF EmitPercpu, SizeOf
<1>2. /\ DataTyped /\ i \in DOMAIN globals /\ sections \in [{"data", "bss", "percpu"} -> Nat]
      /\ cursor \in Nat /\ next > Len(globals) /\ i \in Percpus
      /\ percpu_offsets \in [{j \in Percpus : j < next} -> Nat]
  BY <1>1 DEF DataIInv, DataTyped, Turn, Percpus
<1>3. /\ \A j \in Percpus : j \in Nat /\ j \in DOMAIN globals /\ globals[j].percpu
      /\ DOMAIN percpu_offsets = Percpus /\ \A j \in Percpus : percpu_offsets[j] \in Nat
  <2>1. \A j \in DOMAIN globals : j \in Nat /\ j <= Len(globals)
    BY <1>2, LenProperties DEF DataTyped
  <2>2. next \in Nat /\ Len(globals) \in Nat
    BY <1>2, LenProperties DEF DataTyped
  <2>3. \A j \in Percpus : j \in Nat /\ j < next /\ j \in DOMAIN globals /\ globals[j].percpu
    BY <1>2, <2>1, <2>2 DEF Percpus
  <2> QED BY <1>2, <2>3
<1>4. /\ globals[i].type \in Types /\ size \in Nat /\ want \in Nat /\ gap \in Nat
      /\ gap = (IF want > cursor THEN want - cursor ELSE 0)
  <2>1. want \in Nat /\ cursor \in Nat
    BY <1>2, <1>3
  <2>2. gap = (IF want > cursor THEN want - cursor ELSE 0)
    BY DEF Gap
  <2>3. gap \in Nat
    BY <2>1, <2>2
  <2>4. globals[i].type \in Types /\ size \in Nat
    BY <1>2, GlobalTyped
  <2> QED BY <2>1, <2>2, <2>3, <2>4
<1>5. End_(i) = sections["percpu"] /\ sections["percpu"] \in Nat /\ place \in Nat
      /\ SectionOf(globals[i]) = "percpu"
  <2>1. SectionOf(globals[i]) = "percpu"
    BY <1>1, Places
  <2>2. End_(i) = sections["percpu"] /\ sections["percpu"] \in Nat
    BY <1>2, <2>1 DEF End_
  <2>3. place \in Nat
    BY <1>4, <2>2
  <2> QED BY <2>1, <2>2, <2>3
<1>6. /\ bytes \in Nat
      /\ IntsOnScalars => size <= bytes /\ (size % 8 = 0 => bytes = size)
  <2>1. CASE globals[i].value.kind = "int"
    <3>1. bytes = 8
      BY <2>1 DEF TemplateBytes
    <3>2. ASSUME IntsOnScalars PROVE size \in {1, 2, 4, 8}
      <4>1. ~Aggregate(globals[i].type)
        BY <1>2, <2>1, <3>2 DEF IntsOnScalars
      <4>2. globals[i].type.count = 1 /\ globals[i].type.cls = 0 /\ globals[i].type.size \in {1, 2, 4, 8}
        BY <1>4, <4>1 DEF Aggregate, Types
      <4> QED BY <4>2 DEF SizeOf, Size, ElemSize
    <3>3. IntsOnScalars => size <= 8 /\ (size % 8 = 0 => 8 = size)
      BY <3>2
    <3> QED BY <3>1, <3>3
  <2>2. CASE globals[i].value.kind # "int"
    <3>1. bytes = RoundUp(size, 8)
      BY <2>2 DEF TemplateBytes, SizeOf
    <3>2. 8 \in 1 .. 8
      OBVIOUS
    <3>3. RoundUp(size, 8) \in Nat /\ size <= RoundUp(size, 8)
      BY <1>4, <3>2, RoundedUp
    <3>4. size % 8 = 0 => RoundUp(size, 8) = size
      BY <1>4 DEF RoundUp
    <3> QED BY <3>1, <3>3, <3>4
  <2> QED BY <2>1, <2>2
<1> HIDE DEF gap, bytes, size, want, place
<1>7. cursor' \in Nat
  BY <1>1, <1>2, <1>4
<1>8. /\ DataTyped' /\ OffsetsChained' /\ IntsOnScalars' = IntsOnScalars
      /\ i \in todoData
      /\ i \notin DOMAIN at /\ DOMAIN at' = DOMAIN at \cup {i} /\ at'[i] = place
      /\ \A j \in DOMAIN at : at'[j] = at[j]
      /\ sections'["percpu"] = place + bytes
      /\ \A s \in {"data", "bss", "percpu"} : s # "percpu" => sections'[s] = sections[s]
      /\ UNCHANGED <<globals, percpu_offsets>> /\ todoData' = todoData \ {i}
      /\ \A t : Size(t)' = Size(t)
  BY <1>1, <1>5, <1>6, <1>7, EmitDoes
<1>9. /\ \A j : SizeOf(j)' = SizeOf(j) /\ Taken(j)' = Taken(j)
      /\ \A j : SectionOf(globals[j])' = SectionOf(globals[j])
      /\ \A j : WholeWordsBefore(j)' = WholeWordsBefore(j)
  BY <1>8 DEF SizeOf, Taken, Aggregate, SectionOf, WholeWordsBefore, Percpus
<1>10. /\ Percpus' = Percpus /\ Shown' = Shown /\ Template' = Template \cup {i}
       /\ i \notin Template /\ Template \subseteq Percpus
       /\ \A j \in Shown : at'[j] = at[j] /\ ~globals[j].percpu
       /\ \A j \in Template : at'[j] = at[j]
  <2>1. Percpus' = Percpus
    BY <1>8 DEF Percpus
  <2>2. \A j \in DOMAIN at : j \in DOMAIN globals
    BY <1>2 DEF DataTyped
  <2> QED BY <1>2, <1>8, <2>1, <2>2 DEF Shown, Template, Percpus
<1>11. OffsetOrder'
  <2>1. ASSUME NEW j \in todoData', j \in Percpus PROVE want <= percpu_offsets[j]
    <3>1. j \in todoData \ {i}
      BY <1>8
    <3>2. Earlier(i, j)
      BY <1>1, <3>1 DEF Turn
    <3> QED BY <1>1, <1>2, <1>3, <2>1, <3>2, EarlierByOffset DEF want
  <2>2. \A j \in Template, k \in todoData' \cap Percpus : percpu_offsets[j] <= percpu_offsets[k]
    BY <1>8 DEF DataIInv, OffsetOrder
  <2> QED BY <1>8, <1>10, <2>1, <2>2 DEF OffsetOrder, want
<1>12. IntsOnScalars /\ ShownApart => ShownApart'
  <2>1. \A j \in Shown : sections'[SectionOf(globals[j])] = sections[SectionOf(globals[j])]
    <3> TAKE j \in Shown
    <3>1. SectionOf(globals[j]) # "percpu" /\ SectionOf(globals[j]) \in {"data", "bss", "percpu"}
      BY <1>10, Places
    <3> QED BY <1>8, <3>1
  <2> QED BY <1>8, <1>9, <1>10, <2>1 DEF ShownApart
<1>13. \A j \in Template : percpu_offsets[j] \in Nat /\ SizeOf(j) \in Nat /\ percpu_offsets[j] <= want
  <2>1. \A j \in Percpus : SizeOf(j) \in Nat
    BY <1>2, <1>3, GlobalTyped
  <2>2. \A j \in Template : percpu_offsets[j] <= want
    BY <1>2, <1>8 DEF DataIInv, OffsetOrder, want
  <2> QED BY <1>3, <1>10, <2>1, <2>2
\* A variable of the template is either declared before i and ends before it,
\* or behind it, and i takes no bytes.
<1>14. ASSUME NEW j \in Template
       PROVE  percpu_offsets[j] + SizeOf(j) <= want \/ size = 0
  <2>1. OffsetsChained /\ j \in Percpus /\ j # i
    BY <1>10 DEF DataIInv
  <2>2. CASE j < i
    BY <1>2, <1>3, <2>1, <2>2 DEF OffsetsChained, want
  <2>3. CASE i < j
    <3>1. want + size <= percpu_offsets[j] /\ percpu_offsets[j] <= want /\ percpu_offsets[j] \in Nat
      BY <1>2, <1>3, <1>13, <2>1, <2>3 DEF OffsetsChained, want, size
    <3> QED BY <1>4, <3>1
  <2> QED BY <1>2, <1>3, <2>1, <2>2, <2>3
<1>15. ASSUME IntsOnScalars, CursorCovers PROVE CursorCovers'
  <2>1. cursor <= sections["percpu"] /\ \A j \in Template : percpu_offsets[j] + SizeOf(j) <= cursor
    BY <1>15 DEF CursorCovers
  <2>2. cursor' <= sections'["percpu"]
    BY <1>1, <1>2, <1>4, <1>5, <1>6, <1>8, <1>15, <2>1 DEF place
  <2>3. want + size <= cursor' /\ cursor <= cursor'
    BY <1>1, <1>2, <1>4
  <2>4. \A j \in Template : percpu_offsets[j] + SizeOf(j) <= cursor'
    BY <1>2, <1>7, <1>13, <2>1, <2>3
  <2> QED BY <1>8, <1>9, <1>10, <2>2, <2>3, <2>4 DEF CursorCovers, want, size
<1>16. ASSUME CursorReached PROVE CursorReached'
  <2>1. CASE want >= cursor
    <3>1. cursor' = want + size
      BY <1>1, <1>2, <1>4, <2>1
    <3> QED BY <1>8, <1>9, <1>10, <3>1 DEF CursorReached, want, size
  <2>2. CASE ~(want >= cursor)
    <3>1. cursor # 0
      BY <1>2, <1>4, <2>2
    <3>2. PICK j \in Template : cursor = percpu_offsets[j] + SizeOf(j)
      BY <1>16, <3>1 DEF CursorReached
    <3>3. size = 0
      BY <1>2, <1>4, <1>14, <2>2, <3>2
    <3>4. cursor' = cursor
      BY <1>1, <1>2, <1>4, <2>2, <3>3
    <3> QED BY <1>8, <1>9, <1>10, <3>2, <3>4 DEF CursorReached
  <2> QED BY <2>1, <2>2
<1>17. ASSUME IntsOnScalars, CursorTrue PROVE CursorTrue'
  <2> SUFFICES ASSUME (\A j \in Template : SizeOf(j) % 8 = 0)' PROVE sections'["percpu"] = cursor'
    BY DEF CursorTrue
  <2>1. size % 8 = 0 /\ \A j \in Template : SizeOf(j) % 8 = 0
    BY <1>9, <1>10 DEF size
  <2>2. sections["percpu"] = cursor
    BY <1>17, <2>1 DEF CursorTrue
  <2>3. bytes = size
    BY <1>6, <1>17, <2>1
  <2> QED BY <1>1, <1>2, <1>4, <1>5, <1>8, <2>2, <2>3 DEF place
<1>18. ASSUME IntsOnScalars, CursorReached, CursorTrue, TemplateInPlace PROVE TemplateInPlace'
  <2>1. ASSUME WholeWordsBefore(i), size > 0 PROVE place = want
    <3>1. \A j \in Template : percpu_offsets[j] + SizeOf(j) <= want
      BY <1>4, <1>14, <2>1
    <3>2. ASSUME NEW j \in Template PROVE SizeOf(j) % 8 = 0
      <4>1. percpu_offsets[j] + SizeOf(j) <= want /\ SizeOf(j) \in Nat /\ percpu_offsets[j] \in Nat
        BY <1>13, <3>1
      <4>2. CASE percpu_offsets[j] < want
        BY <1>10, <2>1, <4>2 DEF WholeWordsBefore, SizeOf, want
      <4>3. CASE ~(percpu_offsets[j] < want)
        <5>1. SizeOf(j) = 0
          BY <1>4, <4>1, <4>3
        <5> QED BY <5>1
      <4> QED BY <4>2, <4>3
    <3>3. sections["percpu"] = cursor
      BY <1>18, <3>2 DEF CursorTrue
    <3>4. cursor <= want
      <4>1. CASE cursor = 0
        BY <1>4, <4>1
      <4>2. CASE cursor # 0
        <5>1. PICK j \in Template : cursor = percpu_offsets[j] + SizeOf(j)
          BY <1>18, <4>2 DEF CursorReached
        <5> QED BY <3>1, <5>1
      <4> QED BY <4>1, <4>2
    <3> QED BY <1>2, <1>4, <1>5, <3>3, <3>4 DEF place
  <2>2. \A j \in Template : WholeWordsBefore(j) /\ SizeOf(j) > 0 => at'[j] = percpu_offsets[j]
    BY <1>10, <1>18 DEF TemplateInPlace
  <2> QED BY <1>8, <1>9, <1>10, <2>1, <2>2 DEF TemplateInPlace, want, size
<1> QED BY <1>8, <1>11, <1>12, <1>15, <1>16, <1>17, <1>18 DEF DataIInv

LEMMA DataStep == StructIInv /\ DataIInv /\ [Step]_<<vars, dataVars>> => DataIInv'
<1> SUFFICES ASSUME StructIInv, DataIInv, [Step]_<<vars, dataVars>> PROVE DataIInv'
  OBVIOUS
<1>1. CASE UNCHANGED <<vars, dataVars>>
  BY <1>1, DataKept DEF vars
<1>2. CASE Next /\ UNCHANGED dataVars
  <2>1. CASE StartClass \/ PlaceField \/ DuplicateField \/ FinishClass \/ CollectMethods
    <3>1. phase \in {"class", "fields"} /\ phase' \in {"class", "fields", "emit", "rejected"}
      BY <2>1 DEF StartClass, PlaceField, DuplicateField, FinishClass, CollectMethods
    <3> QED BY <1>2, <3>1, NothingYet
  <2>2. CASE \E c \in Classes, m \in Methods, ptr \in BOOLEAN : MethodCall(c, m, ptr)
    BY <1>2, <2>2, DataKept DEF MethodCall
  <2> QED BY <1>2, <2>1, <2>2 DEF Next
<1>3. CASE UNCHANGED dataVars /\ \E i \in DOMAIN globals : RejectGlobal(i)
  BY <1>3, DataKept DEF RejectGlobal
<1>4. CASE UNCHANGED vars /\ (PassGlobal \/ AssignOffset)
  BY <1>4, PassGlobalStep, AssignOffsetStep
<1>5. CASE /\ UNCHANGED vars
           /\ \E i \in DOMAIN globals :
                 EmitInt(i) \/ EmitName(i) \/ EmitString(i) \/ EmitZero(i) \/ EmitPercpu(i)
  BY <1>5, ShownSteps, EmitPercpuStep
<1> QED BY <1>1, <1>2, <1>3, <1>4, <1>5 DEF Step, DataNext

LEMMA DataInvariance == DataSpec => [](StructIInv /\ DataIInv)
<1>1. Init /\ DataInit => StructIInv /\ DataIInv
  BY StructInit, DataStart
<1>2. StructIInv /\ DataIInv /\ [Step]_<<vars, dataVars>> => (StructIInv /\ DataIInv)'
  BY StructStep, DataStep
<1> QED BY <1>1, <1>2, PTL DEF DataSpec

\* No access to a global reaches another one or the end of its section, for
\* any globals whose integers initialise scalars (gen_data).
THEOREM GlobalsNeverOverlap == DataSpec => []GlobalsApart
<1>1. StructIInv /\ DataIInv => GlobalsApart
  <2> SUFFICES ASSUME StructIInv, DataIInv, Emitted, IntsOnScalars, NEW i \in DOMAIN globals \ Percpus
               PROVE  /\ Accessed(i) \subseteq 0 .. sections[SectionOf(globals[i])] - 1
                      /\ \A j \in DOMAIN globals \ (Percpus \cup {i}) :
                            SectionOf(globals[i]) = SectionOf(globals[j]) => Accessed(i) \cap Accessed(j) = {}
    BY DEF GlobalsApart
  <2>1. /\ DataTyped /\ ShownApart /\ at \in [DOMAIN globals -> Nat]
        /\ Shown = DOMAIN globals \ Percpus
        /\ sections \in [{"data", "bss", "percpu"} -> Nat]
    BY DEF DataIInv, DataTyped, Emitted, Shown
  <2>2. \A j \in DOMAIN globals : Taken(j) \in Nat /\ at[j] \in Nat /\ Accessed(j) = at[j] .. at[j] + Taken(j) - 1
    <3> TAKE j \in DOMAIN globals
    <3>1. Taken(j) \in Nat
      BY <2>1, GlobalTyped DEF Taken
    <3>2. Accessed(j) = at[j] .. at[j] + Taken(j) - 1
      BY DEF Accessed, Taken, SizeOf
    <3> QED BY <2>1, <3>1, <3>2
  <2>3. sections[SectionOf(globals[i])] \in Nat /\ at[i] + Taken(i) <= sections[SectionOf(globals[i])]
    BY <2>1, Places DEF ShownApart
  <2>4. Accessed(i) \subseteq 0 .. sections[SectionOf(globals[i])] - 1
    BY <2>2, <2>3
  <2>5. ASSUME NEW j \in DOMAIN globals \ (Percpus \cup {i}),
               SectionOf(globals[i]) = SectionOf(globals[j])
        PROVE  Accessed(i) \cap Accessed(j) = {}
    <3>1. at[i] + Taken(i) <= at[j] \/ at[j] + Taken(j) <= at[i]
      BY <2>1, <2>5 DEF ShownApart
    <3> QED BY <2>2, <3>1
  <2> QED BY <2>4, <2>5
<1> QED BY <1>1, DataInvariance, PTL

\* The per-CPU variables are apart, aligned and inside the template, for any
\* per-CPU variables whose integers initialise scalars (gen_program, gen_data).
THEOREM PercpuCovered == DataSpec => []PercpuAreaCovers
<1>1. StructIInv /\ DataIInv => PercpuAreaCovers
  <2> SUFFICES ASSUME StructIInv, DataIInv, Emitted, IntsOnScalars, NEW i \in Percpus
               PROVE  /\ percpu_offsets[i] % Align(globals[i].type) = 0
                      /\ InArea(i) \subseteq 0 .. sections["percpu"] - 1
                      /\ \A j \in Percpus \ {i} : InArea(i) \cap InArea(j) = {}
    BY DEF PercpuAreaCovers
  <2>1. /\ DataTyped /\ OffsetsChained /\ CursorCovers /\ DOMAIN at = DOMAIN globals
        /\ sections["percpu"] \in Nat /\ cursor \in Nat
        /\ percpu_offsets \in [{j \in Percpus : j < next} -> Nat]
    BY DEF DataIInv, DataTyped, Emitted
  <2>2. \A j \in Percpus : j \in Nat /\ j \in DOMAIN globals /\ j < next
    <3>1. Len(globals) \in Nat /\ next \in Nat /\ next > Len(globals) /\ DOMAIN globals = 1 .. Len(globals)
      BY <2>1, LenProperties DEF DataTyped, Emitted
    <3> QED BY <3>1 DEF Percpus
  <2>3. DOMAIN percpu_offsets = Percpus /\ Template = Percpus
    BY <2>1, <2>2 DEF Template
  <2>4. \A j \in Percpus : percpu_offsets[j] \in Nat /\ SizeOf(j) \in Nat
                           /\ InArea(j) = percpu_offsets[j] .. percpu_offsets[j] + SizeOf(j) - 1
    <3> TAKE j \in Percpus
    <3>1. SizeOf(j) \in Nat
      BY <2>1, <2>2, GlobalTyped
    <3>2. InArea(j) = percpu_offsets[j] .. percpu_offsets[j] + SizeOf(j) - 1
      BY DEF InArea, SizeOf
    <3> QED BY <2>1, <2>3, <3>1, <3>2
  <2>5. percpu_offsets[i] % Align(globals[i].type) = 0
    BY <2>1, <2>3 DEF OffsetsChained
  <2>6. InArea(i) \subseteq 0 .. sections["percpu"] - 1
    <3>1. percpu_offsets[i] + SizeOf(i) <= cursor /\ cursor <= sections["percpu"]
      BY <2>1, <2>3 DEF CursorCovers
    <3>2. percpu_offsets[i] \in Nat /\ SizeOf(i) \in Nat
          /\ InArea(i) = percpu_offsets[i] .. percpu_offsets[i] + SizeOf(i) - 1
      BY <2>4
    <3> QED BY <2>1, <3>1, <3>2
  <2>7. ASSUME NEW j \in Percpus \ {i} PROVE InArea(i) \cap InArea(j) = {}
    <3>1. i < j \/ j < i
      BY <2>2
    <3>2. \/ percpu_offsets[i] + SizeOf(i) <= percpu_offsets[j]
          \/ percpu_offsets[j] + SizeOf(j) <= percpu_offsets[i]
      BY <2>1, <2>3, <3>1 DEF OffsetsChained
    <3> QED BY <2>4, <3>2
  <2> QED BY <2>5, <2>6, <2>7
<1> QED BY <1>1, DataInvariance, PTL

\* The template of a per-CPU variable is at the offset its code uses as long
\* as every variable before it takes whole words (gen_data).
THEOREM TemplatesInPlace == DataSpec => []TemplateAtOffset
<1>1. StructIInv /\ DataIInv => TemplateAtOffset
  <2> SUFFICES ASSUME StructIInv, DataIInv, Emitted, IntsOnScalars, NEW i \in Percpus,
                      WholeWordsBefore(i), InArea(i) # {}
               PROVE  at[i] = percpu_offsets[i]
    BY DEF TemplateAtOffset
  <2>1. /\ DataTyped /\ TemplateInPlace /\ DOMAIN at = DOMAIN globals
        /\ percpu_offsets \in [{j \in Percpus : j < next} -> Nat]
    BY DEF DataIInv, DataTyped, Emitted
  <2>2. i \in Nat /\ i \in DOMAIN globals /\ i < next
    <3>1. Len(globals) \in Nat /\ next \in Nat /\ next > Len(globals) /\ DOMAIN globals = 1 .. Len(globals)
      BY <2>1, LenProperties DEF DataTyped, Emitted
    <3> QED BY <3>1 DEF Percpus
  <2>3. percpu_offsets[i] \in Nat /\ SizeOf(i) \in Nat
    BY <2>1, <2>2, GlobalTyped
  <2>4. SizeOf(i) > 0
    <3>1. InArea(i) = percpu_offsets[i] .. percpu_offsets[i] + SizeOf(i) - 1
      BY DEF InArea, SizeOf
    <3> QED BY <2>3, <3>1
  <2> QED BY <2>1, <2>2, <2>4 DEF TemplateInPlace, Template
<1> QED BY <1>1, DataInvariance, PTL
===============================================================================
