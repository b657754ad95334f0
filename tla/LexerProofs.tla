------------------------------ MODULE LexerProofs ------------------------------
(***************************************************************************)
(* Theorems about Lexer, for every vocabulary and text, of any length,     *)
(* scanned to the end or refused.                                          *)
(*                                                                         *)
(* EverythingRead holds at the end only because at every turn each         *)
(* character before pos is in a token or was passed over for a reason      *)
(* (InPlace).  BracketsHide compares tokens that are far apart with a      *)
(* counter that has forgotten how it got there: Balanced says what it is   *)
(* worth, the most by which brackets opened exceed those closed since any  *)
(* place in the tokens, and Flat that this was 0 at each layout token.     *)
(* NumbersDocumented needs to know how a word was classified when it was   *)
(* read (Classified), and that the classifier's scans accept just the      *)
(* forms of LANGUAGE.md (NumberIsForm).                                    *)
(* Every action is the same to them: it adds tokens to the end and moves   *)
(* pos (Turn), which is shown once for each kind of turn.                  *)
(*                                                                         *)
(* BlocksFollowIndents compares the stack with a definition that has none. *)
(* What the stack is worth changes on the way: within a line it is the     *)
(* blocks of the last line that began (Steady), but once a line is known   *)
(* to count, and its INDENT or DEDENTs are out, it is the blocks of a line *)
(* that has no token yet (Coming).  LayoutInv says which of them holds     *)
(* where, and that every line that has begun is in its blocks (Accounted). *)
(***************************************************************************)
EXTENDS Lexer, Recursion, FiniteSetTheorems, SequenceTheorems

Kinds == LayoutKinds \cup {"IDENT", "NUMBER", "OP", "OPEN", "CLOSE", "CHAR_LIT",
                           "STRING", "FSTRING", "EOF"}
Pieces == [kind : Kinds, from : Nat, to : Nat]

TypeOK == /\ src \in Seq(Chars)
          /\ pos \in Nat \ {0}
          /\ paren_depth \in Nat
          /\ indent_stack \in Seq(Nat) /\ indent_stack # <<>> /\ indent_stack[1] = 0
          /\ tokens \in Seq(Pieces)

-----------------------------------------------------------------------------
\* The characters the scanner tells apart are different.
LEMMA Distinct ==
    /\ End # "\n" /\ End # "\\" /\ End \notin Quotes /\ End \notin Blank
    /\ \A c \in Quotes : c # End /\ c # "\n" /\ c # "\\"
BY Zenon DEF End, Quotes, Blank, Space

(***************************************************************************)
(* How far a scan along the text goes.                                     *)
(***************************************************************************)
LEMMA Text ==
    ASSUME TypeOK
    PROVE  /\ Len(src) \in Nat
           /\ DOMAIN src = 1 .. Len(src)
           /\ \A p \in Int : Char(p) # End => p \in 1 .. Len(src) /\ Char(p) = src[p]
           /\ \A p \in Int : p > Len(src) => Char(p) = End
<1>1. src \in Seq(Chars)
  BY DEF TypeOK
<1>2. Len(src) \in Nat /\ DOMAIN src = 1 .. Len(src)
  BY <1>1
<1> QED BY <1>2 DEF Char

LEMMA AfterEnds ==
    ASSUME TypeOK, NEW S, End \notin S, NEW p \in Nat \ {0}, p <= Len(src) + 1
    PROVE  /\ After(p, S) \in p .. Len(src) + 1
           /\ Char(After(p, S)) \notin S
           /\ \A r \in p .. After(p, S) - 1 : Char(r) \in S
<1> DEFINE n == Len(src) + 1
           Ends == {q \in Nat : q \in p .. n /\ Char(q) \notin S}
<1>1. n \in Nat /\ p \in Nat /\ p <= n /\ Char(n) \notin S
  BY Text
<1> HIDE DEF n
<1>2. n \in Ends
  BY <1>1
<1>3. PICK q \in Ends : \A r \in Ends : ~(r < q)
  BY <1>2, LeastNat
<1>4. q \in Nat /\ q \in p .. n /\ Char(q) \notin S
  BY <1>3
<1>5. ASSUME NEW r \in p .. q - 1
      PROVE  Char(r) \in S
  <2>0. r \in Int /\ p <= r /\ r <= q - 1
    BY <1>1, <1>4
  <2>1. r \in Nat /\ r \in p .. n /\ r < q
    BY <1>1, <1>4, <2>0
  <2> QED BY <1>3, <2>1
<1>6. After(p, S) = CHOOSE q2 \in p .. n : Char(q2) \notin S /\ \A r \in p .. q2 - 1 : Char(r) \in S
  BY DEF After, n
<1> HIDE DEF Ends
<1>7. /\ After(p, S) \in p .. n
      /\ Char(After(p, S)) \notin S
      /\ \A r \in p .. After(p, S) - 1 : Char(r) \in S
  BY <1>4, <1>5, <1>6
<1> QED BY <1>7 DEF n

LEMMA MinIsIn ==
    ASSUME NEW S, S \subseteq Nat, S # {}
    PROVE  Min(S) \in S /\ \A y \in S : Min(S) <= y
<1>1. PICK x \in S : \A y \in S : ~(y < x)
  BY LeastNat
<1>2. \A y \in S : x <= y
  BY <1>1
<1> QED BY <1>1, <1>2 DEF Min

LEMMA MaxIsMost ==
    ASSUME NEW n \in Nat, NEW S, S \subseteq 1 .. n, S # {}
    PROVE  Max(S) \in S /\ \A x \in S : x <= Max(S)
<1> DEFINE R == {k \in Nat : n - k \in S}
<1>1. PICK y \in S : TRUE
  OBVIOUS
<1>2. n - y \in R
  <2>1. y \in 1 .. n
    BY <1>1
  <2>2. n - y \in Nat /\ n - (n - y) = y
    BY <2>1
  <2> QED BY <1>1, <2>2
<1>3. PICK k \in R : \A j \in R : ~(j < k)
  BY <1>2, LeastNat
<1>4. k \in Nat /\ n - k \in S
  BY <1>3
<1>5. ASSUME NEW x \in S
      PROVE  n - k >= x
  <2>1. x \in 1 .. n
    OBVIOUS
  <2>2. n - x \in Nat /\ n - (n - x) = x
    BY <2>1
  <2>3. ~(n - x < k)
    BY <1>3, <2>2
  <2> QED BY <1>4, <2>1, <2>3
<1>6. Max(S) \in S /\ \A x \in S : Max(S) >= x
  BY <1>4, <1>5 DEF Max
<1>7. \A x \in S : x \in Int
  OBVIOUS
<1> QED BY <1>6, <1>7

-----------------------------------------------------------------------------
(***************************************************************************)
(* Where the tokens end.  What reads a text gives 0, or a place after the  *)
(* quote it opens with.                                                    *)
(***************************************************************************)
\* close is right from q on (CloseOf).
Closes(close, p, hex, m) ==
    \A q \in m .. Len(src) + 4 : close[q] =
            CASE Char(q) \in {End, "\n"} -> 0
              [] Char(q) = src[p] -> q
              [] Char(q) = "\\" /\ Char(q + 1) = "x" /\ hex ->
                    IF HexPair(Char(q + 2), Char(q + 3)) THEN close[q + 4] ELSE 0
              [] Char(q) = "\\" /\ ~(Char(q + 1) = "x" /\ hex) -> close[q + 2]
              [] OTHER -> close[q + 1]

LEMMA CloseIsDefined ==
    ASSUME TypeOK, NEW p \in Nat, p <= Len(src), src[p] \in Quotes, NEW hex \in BOOLEAN
    PROVE  \E close : /\ close = [q \in p + 1 .. Len(src) + 4 |-> close[q]]
                      /\ Closes(close, p, hex, p + 1)
<1> DEFINE n == Len(src)
           Solved(m) == \E close : /\ close = [q \in p + 1 .. n + 4 |-> close[q]]
                                   /\ Closes(close, p, hex, m)
           Unsolved == {k \in Nat : k <= n - p /\ ~ Solved(n + 1 - k)}
<1>0. src[p] # End /\ src[p] # "\n" /\ src[p] # "\\" /\ End # "\\" /\ End # "\n"
  BY Distinct
<1>1. n \in Nat /\ p \in Nat /\ p <= n
  BY Text
<1> HIDE DEF n
<1>2. Solved(n + 1)
  <2> DEFINE close == [q \in p + 1 .. n + 4 |-> 0]
  <2>1. ASSUME NEW q \in n + 1 .. n + 4
        PROVE  close[q] = 0 /\ Char(q) = End
    <3>1. q \in Int /\ q > n
      BY <1>1
    <3> QED BY <3>1, Text DEF n
  <2>2. Closes(close, p, hex, n + 1)
    BY <1>0, <2>1 DEF Closes, n
  <2> QED BY <2>2
<1>3. Unsolved = {}
  <2> SUFFICES ASSUME Unsolved # {} PROVE FALSE
    OBVIOUS
  <2>1. PICK k \in Unsolved : \A j \in Unsolved : ~(j < k)
    BY LeastNat
  <2>2. k \in Nat /\ k <= n - p /\ ~ Solved(n + 1 - k)
    BY <2>1
  <2>3. k # 0
    <3>1. n + 1 - 0 = n + 1
      BY <1>1
    <3> QED BY <1>2, <2>2, <3>1
  <2> DEFINE m == n + 1 - k
  <2>4. k - 1 \in Nat /\ k - 1 <= n - p /\ k - 1 < k /\ n + 1 - (k - 1) = m + 1 /\ m \in p + 1 .. n
    <3>1. k \in Nat /\ k # 0 /\ k <= n - p
      BY <2>2, <2>3
    <3>2. n \in Nat /\ p \in Nat
      BY <1>1
    <3> QED BY <3>1, <3>2
  <2>5. Solved(m + 1)
    BY <2>1, <2>4
  <2> HIDE DEF m
  <2>6. PICK f : Closes(f, p, hex, m + 1)
    BY <2>5
  <2> HIDE DEF Unsolved, Solved
  <2> DEFINE v == CASE Char(m) \in {End, "\n"} -> 0
                    [] Char(m) = src[p] -> m
                    [] Char(m) = "\\" /\ Char(m + 1) = "x" /\ hex ->
                          IF HexPair(Char(m + 2), Char(m + 3)) THEN f[m + 4] ELSE 0
                    [] Char(m) = "\\" /\ ~(Char(m + 1) = "x" /\ hex) -> f[m + 2]
                    [] OTHER -> f[m + 1]
             g == [q \in p + 1 .. n + 4 |-> IF q = m THEN v ELSE f[q]]
  <2> HIDE DEF v
  <2>7. g[m] = v
    BY <1>1, <2>4
  <2>8. \A q \in m + 1 .. n + 4 : g[q] = f[q]
    BY <1>1, <2>4
  <2>9. g = [q \in p + 1 .. n + 4 |-> g[q]]
    OBVIOUS
  <2> HIDE DEF g, v
  <2>10. g[m + 1] = f[m + 1] /\ g[m + 2] = f[m + 2] /\ g[m + 4] = f[m + 4]
    <3>1. m + 1 \in m + 1 .. n + 4 /\ m + 2 \in m + 1 .. n + 4 /\ m + 4 \in m + 1 .. n + 4
      BY <1>1, <2>4
    <3> QED BY <2>8, <3>1
  <2>11. ASSUME NEW q \in m + 1 .. n
         PROVE  g[q + 1] = f[q + 1] /\ g[q + 2] = f[q + 2] /\ g[q + 4] = f[q + 4]
    <3>1. q + 1 \in m + 1 .. n + 4 /\ q + 2 \in m + 1 .. n + 4 /\ q + 4 \in m + 1 .. n + 4
      BY <1>1, <2>4
    <3> QED BY <2>8, <3>1
  <2>12. v = CASE Char(m) \in {End, "\n"} -> 0
               [] Char(m) = src[p] -> m
               [] Char(m) = "\\" /\ Char(m + 1) = "x" /\ hex ->
                     IF HexPair(Char(m + 2), Char(m + 3)) THEN g[m + 4] ELSE 0
               [] Char(m) = "\\" /\ ~(Char(m + 1) = "x" /\ hex) -> g[m + 2]
               [] OTHER -> g[m + 1]
    BY <2>10 DEF v
  <2>13. ASSUME NEW q \in m .. n + 4
         PROVE  g[q] =
            CASE Char(q) \in {End, "\n"} -> 0
              [] Char(q) = src[p] -> q
              [] Char(q) = "\\" /\ Char(q + 1) = "x" /\ hex ->
                    IF HexPair(Char(q + 2), Char(q + 3)) THEN g[q + 4] ELSE 0
              [] Char(q) = "\\" /\ ~(Char(q + 1) = "x" /\ hex) -> g[q + 2]
              [] OTHER -> g[q + 1]
    <3>1. CASE q = m
      BY <2>7, <2>12, <3>1 DEF v
    <3>2. CASE q \in m + 1 .. n
      <4>1. q \in m + 1 .. n + 4
        BY <1>1, <2>4, <3>2
      <4>2. f[q] = CASE Char(q) \in {End, "\n"} -> 0
              [] Char(q) = src[p] -> q
              [] Char(q) = "\\" /\ Char(q + 1) = "x" /\ hex ->
                    IF HexPair(Char(q + 2), Char(q + 3)) THEN f[q + 4] ELSE 0
              [] Char(q) = "\\" /\ ~(Char(q + 1) = "x" /\ hex) -> f[q + 2]
              [] OTHER -> f[q + 1]
        BY <2>6, <4>1 DEF Closes, n
      <4> QED BY <2>8, <2>11, <3>2, <4>1, <4>2
    <3>3. CASE q \in n + 1 .. n + 4
      <4>1. Char(q) = End
        <5>1. q \in Int /\ q > n
          BY <1>1, <3>3
        <5> QED BY <5>1, Text DEF n
      <4>2. q \in m + 1 .. n + 4
        BY <1>1, <2>4, <3>3
      <4>3. f[q] = 0
        BY <1>0, <2>6, <4>1, <4>2 DEF Closes, n
      <4> QED BY <1>0, <2>8, <4>1, <4>2, <4>3
    <3>4. q = m \/ q \in m + 1 .. n \/ q \in n + 1 .. n + 4
      BY <1>1, <2>4
    <3> QED BY <3>1, <3>2, <3>3, <3>4
  <2>14. Closes(g, p, hex, m)
    BY <2>13 DEF Closes, n
  <2> QED BY <2>2, <2>9, <2>14 DEF m, Solved
<1>4. n - p \in Nat /\ n - p <= n - p /\ n + 1 - (n - p) = p + 1
  BY <1>1
<1> HIDE DEF Solved
<1>5. Solved(p + 1)
  BY <1>3, <1>4
<1> QED BY <1>5 DEF Solved, n

\* A text that opens at p ends after p, within the source.
LEMMA CloseIsLater ==
    ASSUME TypeOK, NEW p \in Nat, p <= Len(src), src[p] \in Quotes, NEW hex \in BOOLEAN,
           CloseOf(p, hex) # 0
    PROVE  CloseOf(p, hex) \in p + 1 .. Len(src)
<1> DEFINE n == Len(src)
           Solution(f) == f = [q \in p + 1 .. n + 4 |->
            CASE Char(q) \in {End, "\n"} -> 0
              [] Char(q) = src[p] -> q
              [] Char(q) = "\\" /\ Char(q + 1) = "x" /\ hex ->
                    IF HexPair(Char(q + 2), Char(q + 3)) THEN f[q + 4] ELSE 0
              [] Char(q) = "\\" /\ ~(Char(q + 1) = "x" /\ hex) -> f[q + 2]
              [] OTHER -> f[q + 1]]
           close == CHOOSE f : Solution(f)
<1>0. src[p] # End /\ src[p] # "\n" /\ src[p] # "\\" /\ End # "\\" /\ End # "\n"
  BY Distinct
<1>1. n \in Nat /\ p \in Nat /\ p <= n
  BY Text
<1>2. CloseOf(p, hex) = close[p + 1]
  BY DEF CloseOf
<1>3. \E f : Solution(f)
  <2>1. PICK f : f = [q \in p + 1 .. n + 4 |-> f[q]] /\ Closes(f, p, hex, p + 1)
    BY CloseIsDefined
  <2>2. Solution(f)
    BY <2>1 DEF Closes
  <2> QED BY <2>2
<1> HIDE DEF close
<1>4. Solution(close)
  BY <1>3 DEF close
<1>5. Closes(close, p, hex, p + 1)
  BY <1>4 DEF Closes
<1> DEFINE Wrong == {k \in Nat : k <= n - p + 3 /\ close[n + 4 - k] # 0
                                 /\ close[n + 4 - k] \notin p + 1 .. n}
<1>6. Wrong = {}
  <2> SUFFICES ASSUME Wrong # {} PROVE FALSE
    OBVIOUS
  <2>1. PICK k \in Wrong : \A j \in Wrong : ~(j < k)
    BY LeastNat
  <2> DEFINE q == n + 4 - k
  <2>2. k \in Nat /\ k <= n - p + 3 /\ close[q] # 0 /\ close[q] \notin p + 1 .. n
    BY <2>1
  <2>3. q \in p + 1 .. n + 4
    BY <1>1, <2>2
  <2>4. ASSUME NEW r \in q + 1 .. n + 4
        PROVE  close[r] = 0 \/ close[r] \in p + 1 .. n
    <3>1. n + 4 - r \in Nat /\ n + 4 - r <= n - p + 3 /\ n + 4 - r < k /\ n + 4 - (n + 4 - r) = r
      BY <1>1, <2>2, <2>3
    <3> QED BY <2>1, <3>1
  <2> HIDE DEF q, n
  <2>5. close[q] =
            CASE Char(q) \in {End, "\n"} -> 0
              [] Char(q) = src[p] -> q
              [] Char(q) = "\\" /\ Char(q + 1) = "x" /\ hex ->
                    IF HexPair(Char(q + 2), Char(q + 3)) THEN close[q + 4] ELSE 0
              [] Char(q) = "\\" /\ ~(Char(q + 1) = "x" /\ hex) -> close[q + 2]
              [] OTHER -> close[q + 1]
    BY <1>5, <2>3 DEF Closes, n
  <2>6. Char(q) # End
    <3> SUFFICES ASSUME Char(q) = End PROVE FALSE
      OBVIOUS
    <3>1. Char(q) \in {End, "\n"}
      OBVIOUS
    <3>2. close[q] = 0
      BY <1>0, <2>5, <3>1
    <3> QED BY <2>2, <3>2
  <2>7. q \in p + 1 .. n
    <3>1. q \in Int /\ p + 1 <= q
      BY <1>1, <2>3
    <3>2. q \in 1 .. n
      BY <2>6, <3>1, Text DEF n
    <3> QED BY <1>1, <3>1, <3>2
  <2>8. q + 1 \in q + 1 .. n + 4 /\ q + 2 \in q + 1 .. n + 4 /\ q + 4 \in q + 1 .. n + 4
    BY <1>1, <2>7
  <2> QED BY <1>0, <2>2, <2>4, <2>5, <2>6, <2>7, <2>8
<1>7. n - p + 3 \in Nat /\ n - p + 3 <= n - p + 3 /\ n + 4 - (n - p + 3) = p + 1
  BY <1>1
<1> HIDE DEF n
<1>8. close[p + 1] = 0 \/ close[p + 1] \in p + 1 .. n
  BY <1>6, <1>7
<1> QED BY <1>2, <1>8 DEF n
LEMMA EndIsNoChar == End \notin Chars /\ End \notin Alnum
BY VocabularyAssumption, Zenon DEF End, Chars, Alnum, Digits, HexLetters, Quotes, Blank, Space

LEMMA TripleIsLater ==
    ASSUME TypeOK, NEW p \in Nat, TripleOf(p) # 0
    PROVE  TripleOf(p) \in p + 1 .. Len(src)
<1> DEFINE ends == {q \in p + 3 .. Len(src) - 2 : Three(q, src[p])}
<1>1. Len(src) \in Nat
  BY Text
<1>2. TripleOf(p) = IF ends = {} THEN 0 ELSE Min(ends) + 2
  BY DEF TripleOf
<1>3. ends \subseteq Nat /\ ends \subseteq p + 3 .. Len(src) - 2
  BY <1>1
<1> HIDE DEF ends
<1>4. Min(ends) \in ends
  BY <1>2, <1>3, MinIsIn
<1>5. Min(ends) \in p + 3 .. Len(src) - 2
  BY <1>3, <1>4
<1>6. TripleOf(p) = Min(ends) + 2
  BY <1>2, <1>4
<1> QED BY <1>1, <1>5, <1>6

LEMMA StringIsLater ==
    ASSUME TypeOK, NEW p \in Nat \ {0}, Char(p) \in Quotes \cup {End}, StringEnd(p) # 0
    PROVE  StringEnd(p) \in p + 1 .. Len(src)
<1>1. StringEnd(p) = TripleOf(p) \/ (Char(p) # End /\ StringEnd(p) = CloseOf(p, TRUE))
  BY DEF StringEnd
<1>2. CASE StringEnd(p) = TripleOf(p)
  BY <1>2, TripleIsLater
<1>3. CASE Char(p) # End /\ StringEnd(p) = CloseOf(p, TRUE)
  <2>1. p \in Nat /\ p <= Len(src) /\ src[p] \in Quotes
    BY <1>3, Text
  <2> QED BY <1>3, <2>1, CloseIsLater
<1> QED BY <1>1, <1>2, <1>3

LEMMA FStringIsLater ==
    ASSUME TypeOK, NEW p \in Nat \ {0}, Char(p) \in Quotes \cup {End}, FStringEnd(p) # 0
    PROVE  FStringEnd(p) \in p + 1 .. Len(src)
<1>1. Char(p) # End /\ FStringEnd(p) = CloseOf(p, FALSE)
  BY DEF FStringEnd
<1>2. p \in Nat /\ p <= Len(src) /\ src[p] \in Quotes
  BY <1>1, Text
<1> QED BY <1>1, <1>2, CloseIsLater

\* A word that begins with a digit is read at least that far.
LEMMA DigitTokenIsLater ==
    ASSUME TypeOK, NEW p \in Nat \ {0}, p <= Len(src), src[p] \in Digits
    PROVE  DigitTokenEnd(p) \in p .. Len(src)
<1> DEFINE w1 == After(p, Alnum)
           w2 == IF Fraction(p, w1) THEN After(w1 + 1, Alnum) ELSE w1
           w3 == IF Exponent(w2) THEN After(w2 + 1, Alnum) ELSE w2
           n == Len(src) + 1
<1>1. n \in Nat /\ p < n /\ \A q \in Int : q > 0 /\ Char(q) # End => q < n
  BY Text
<1>2. /\ \A q \in Nat \ {0} : q <= n => After(q, Alnum) \in q .. n
      /\ Char(After(p, Alnum)) \notin Alnum
  BY AfterEnds, EndIsNoChar
<1>3. Char(p) \in Alnum
  <2>1. p \in DOMAIN src
    BY Text
  <2> QED BY <2>1 DEF Alnum, Char
<1>4. \A q : Fraction(p, q) => Char(q) # End
  <2>1. End # "."
    BY Zenon DEF End
  <2> QED BY <2>1 DEF Fraction
<1>5. \A q : Exponent(q) => Char(q) # End
  <2>1. End \notin {"+", "-"}
    BY Zenon DEF End
  <2> QED BY <2>1 DEF Exponent
<1>6. DigitTokenEnd(p) = w3 - 1
  BY DEF DigitTokenEnd
<1> HIDE DEF n
<1>7. w1 \in p + 1 .. n
  BY <1>1, <1>2, <1>3
<1> HIDE DEF w1
<1>8. w2 \in p + 1 .. n
  <2>1. CASE Fraction(p, w1)
    <3>1. w1 + 1 \in Nat \ {0} /\ w1 + 1 <= n
      BY <1>1, <1>4, <1>7, <2>1
    <3> QED BY <1>1, <1>2, <1>7, <2>1, <3>1
  <2> QED BY <1>7, <2>1
<1> HIDE DEF w2
<1>9. w3 \in p + 1 .. n
  <2>1. CASE Exponent(w2)
    <3>1. w2 + 1 \in Nat \ {0} /\ w2 + 1 <= n
      BY <1>1, <1>5, <1>8, <2>1
    <3> QED BY <1>1, <1>2, <1>8, <2>1, <3>1
  <2> QED BY <1>8, <2>1
<1> HIDE DEF w3
<1>10. p \in Nat /\ n \in Nat /\ w3 \in Nat /\ w3 >= p + 1 /\ w3 <= n
  BY <1>1, <1>9
<1>11. w3 - 1 \in p .. n - 1
  BY <1>10
<1>12. n - 1 = Len(src)
  BY Text DEF n
<1> QED BY <1>6, <1>11, <1>12

LEMMA LongestMatches ==
    ASSUME TypeOK, Matching # {}
    PROVE  /\ Longest \in Matching
           /\ Len(Longest) \in 1 .. 3
           /\ \A op \in Matching : DOMAIN op = 1 .. Len(op)
<1>1. \A op \in Operators : Len(op) \in 1 .. 3 /\ DOMAIN op = 1 .. Len(op)
  <2> SUFFICES ASSUME NEW op \in Operators
               PROVE  Len(op) \in 1 .. 3 /\ DOMAIN op = 1 .. Len(op)
    OBVIOUS
  <2>1. \/ \E c : op = <<c>>
        \/ \E c, d : op = <<c, d>>
        \/ \E c, d, e : op = <<c, d, e>>
    BY DEF Operators
  <2>2. ASSUME NEW c, op = <<c>> PROVE Len(op) = 1 /\ DOMAIN op = 1 .. Len(op)
    BY <2>2
  <2>3. ASSUME NEW c, NEW d, op = <<c, d>> PROVE Len(op) = 2 /\ DOMAIN op = 1 .. Len(op)
    BY <2>3
  <2>4. ASSUME NEW c, NEW d, NEW e, op = <<c, d, e>>
        PROVE  Len(op) = 3 /\ DOMAIN op = 1 .. Len(op)
    BY <2>4
  <2>5. Len(op) \in {1, 2, 3} /\ DOMAIN op = 1 .. Len(op)
    BY <2>1, <2>2, <2>3, <2>4, Zenon
  <2> QED BY <2>5
<1>2. Matching \subseteq Operators
  BY DEF Matching
<1>3. \E op \in Matching : \A o \in Matching : Len(o) <= Len(op)
  <2> DEFINE Lens == {Len(op) : op \in Matching}
  <2>1. Lens \subseteq 1 .. 3 /\ Lens # {}
    BY <1>1, <1>2
  <2> HIDE DEF Lens
  <2>2. Max(Lens) \in Lens /\ \A x \in Lens : x <= Max(Lens)
    BY <2>1, MaxIsMost
  <2> QED BY <2>2 DEF Lens
<1>4. Longest \in Matching
  BY <1>3 DEF Longest
<1> QED BY <1>1, <1>2, <1>4
-----------------------------------------------------------------------------
(***************************************************************************)
(* One turn of the loop: what it passes and what tokens it adds.           *)
(***************************************************************************)
Passed(p) == \/ src[p] \in Blank \cup {"\n", "\r", "\\"}
             \/ InComment(p)
             \/ p > 2 /\ SubSeq(src, p - 2, p) = <<"*", "*", "=">>
Held(ts, p) == \E i \in DOMAIN ts : p \in ts[i].from .. ts[i].to

\* The new tokens are made of the characters from pos to before q, in their
\* order; those that are not in one are passed over.
Scanned(s, q) == /\ s \in Seq(Pieces) /\ q \in Nat /\ pos <= q
                 /\ \A i \in DOMAIN s : pos <= s[i].from /\ s[i].to < q
                 /\ \A i \in 2 .. Len(s) : s[i - 1].to < s[i].from
                 /\ \A p \in pos .. q - 1 : Held(s, p) \/ Passed(p)

\* Layout counts outside of brackets and at the end; brackets are counted.
Layout(s) == \A i \in DOMAIN s :
                s[i].kind \in LayoutKinds => paren_depth = 0 \/ s[i].from > Len(src)
Brackets == {"OPEN", "CLOSE"}
Counted(s) ==
    \/ paren_depth' = paren_depth /\ \A i \in DOMAIN s : s[i].kind \notin Brackets
    \/ \E t \in Pieces : /\ s = <<t>>
                         /\ \/ t.kind = "OPEN" /\ paren_depth' = paren_depth + 1
                            \/ t.kind = "CLOSE" /\ paren_depth' = Below

\* A word is a part of the text, and one with a digit in front is a number if
\* _try_classify_number says so.
Words == {"IDENT", "NUMBER"}
Told(t) == t.kind \in Words =>
              /\ t.from \in DOMAIN src /\ t.to \in t.from .. Len(src)
              /\ src[t.from] \in Digits => (t.kind = "NUMBER" <=> IsNumber(Word(t)))

Turn(s) == /\ Scanned(s, pos') /\ Layout(s) /\ Counted(s)
           /\ \A i \in DOMAIN s : Told(s[i])
           /\ tokens' = tokens \o s
           /\ src' = src
           /\ indent_stack' \in Seq(Nat) /\ indent_stack' # <<>> /\ indent_stack'[1] = 0

LEMMA SeqAssociative ==
    \A a, b, c \in Seq(Pieces) : (a \o b) \o c = a \o (b \o c)
BY ONLY ConcatAssociative

LEMMA NoToken ==
    ASSUME TypeOK, UNCHANGED <<src, paren_depth, indent_stack, tokens>>,
           pos' \in Nat, pos <= pos', \A p \in pos .. pos' - 1 : Passed(p)
    PROVE  \E s : Turn(s)
<1>1. <<>> \in Seq(Pieces) /\ DOMAIN <<>> = {} /\ Len(<<>>) = 0
  OBVIOUS
<1>2. tokens' = tokens \o <<>>
  BY DEF TypeOK
<1>3. Scanned(<<>>, pos')
  <2>1. 2 .. Len(<<>>) = {}
    BY <1>1
  <2> QED BY <1>1, <2>1 DEF Scanned
<1>4. Layout(<<>>) /\ Counted(<<>>)
  BY <1>1 DEF Layout, Counted
<1>5. Turn(<<>>)
  BY <1>2, <1>3, <1>4 DEF Turn, TypeOK
<1> QED BY <1>5

LEMMA OneToken ==
    ASSUME TypeOK, UNCHANGED <<src, indent_stack>>,
           NEW t \in Pieces, tokens' = Append(tokens, t), Counted(<<t>>), Told(t),
           t.kind \in LayoutKinds => paren_depth = 0,
           pos <= t.from, t.to < pos', pos' \in Nat, pos <= pos',
           \A p \in pos .. pos' - 1 : p \in t.from .. t.to \/ Passed(p)
    PROVE  \E s : Turn(s)
<1>1. <<t>> \in Seq(Pieces) /\ DOMAIN <<t>> = {1} /\ Len(<<t>>) = 1 /\ <<t>>[1] = t
  OBVIOUS
<1>2. tokens' = tokens \o <<t>>
  <2>1. tokens \in Seq(Pieces) /\ tokens' = Append(tokens, t)
    BY DEF TypeOK
  <2>2. \A u \in Seq(Pieces) : Append(u, t) = u \o <<t>>
    BY ONLY t \in Pieces
  <2> QED BY <2>1, <2>2, Zenon
<1>3. pos \in Nat /\ t.to \in Nat
  BY DEF TypeOK, Pieces
<1>4. ASSUME NEW p \in pos .. pos' - 1
      PROVE  Held(<<t>>, p) \/ Passed(p)
  <2>1. p \in t.from .. t.to \/ Passed(p)
    BY <1>4
  <2>2. 1 \in DOMAIN <<t>> /\ <<t>>[1] = t
    BY <1>1
  <2> HIDE DEF Passed
  <2> QED BY <2>1, <2>2 DEF Held
<1>5. Scanned(<<t>>, pos')
  <2>1. \A i \in 2 .. Len(<<t>>) : FALSE
    BY <1>1
  <2>2. \A i \in DOMAIN <<t>> : i = 1
    BY <1>1
  <2>3. \A i \in DOMAIN <<t>> : pos <= <<t>>[i].from /\ <<t>>[i].to < pos'
    BY <1>1, <2>2
  <2> QED BY <1>1, <1>4, <2>1, <2>3 DEF Scanned
<1>6. Layout(<<t>>)
  BY <1>1 DEF Layout
<1>7. \A i \in DOMAIN <<t>> : Told(<<t>>[i])
  BY <1>1
<1>8. Turn(<<t>>)
  BY <1>2, <1>5, <1>6, <1>7 DEF Turn, TypeOK
<1> QED BY <1>8

LEMMA BlankPasses ==
    ASSUME TypeOK, NEW r \in Int, Char(r) \in Blank \cup {"\n", "\r", "\\"}
    PROVE  Passed(r)
<1>1. End \notin Blank \cup {"\n", "\r", "\\"}
  BY Zenon DEF End, Blank, Space
<1>2. Char(r) = src[r]
  BY <1>1, Text
<1> QED BY <1>2 DEF Passed

LEMMA Indentation ==
    ASSUME TypeOK, pos <= Len(src)
    PROVE  /\ Indent \in Nat /\ Body \in Nat /\ pos <= Body
           /\ \A r \in pos .. Body - 1 : Passed(r)
<1> DEFINE a == After(pos, {Space})
           b == After(a, {"\t"})
           n == Len(src) + 1
<1>1. n \in Nat /\ pos \in Nat \ {0} /\ pos <= n
  BY Text DEF TypeOK
<1>2. End \notin {Space} /\ End \notin {"\t"} /\ Space \in Blank /\ "\t" \in Blank
  BY Zenon DEF End, Space, Blank
<1>3. a \in pos .. n /\ \A r \in pos .. a - 1 : Char(r) \in {Space}
  BY <1>1, <1>2, AfterEnds
<1>4. a \in Nat \ {0} /\ a <= n
  BY <1>1, <1>3
<1>5. b \in a .. n /\ \A r \in a .. b - 1 : Char(r) \in {"\t"}
  BY <1>2, <1>4, AfterEnds
<1> HIDE DEF n
<1>6. Spaces = a - pos /\ pos + Spaces = a
  BY <1>1, <1>4 DEF Spaces
<1>7. Tabs = b - a /\ Body = b
  BY <1>1, <1>4, <1>5, <1>6 DEF Tabs, Body
<1> HIDE DEF a, b
<1>8. Spaces \in Nat /\ Tabs \in Nat
  BY <1>1, <1>3, <1>4, <1>5, <1>6, <1>7
<1>9. Indent \in Nat
  BY <1>8 DEF Indent
<1>10. Body \in Nat /\ pos <= Body
  BY <1>1, <1>3, <1>4, <1>5, <1>7
<1>11. ASSUME NEW r \in pos .. Body - 1
       PROVE  Passed(r)
  <2>1. r \in Int /\ (r \in pos .. a - 1 \/ r \in a .. b - 1)
    BY <1>1, <1>4, <1>5, <1>7
  <2>2. Char(r) \in Blank
    BY <1>2, <1>3, <1>5, <2>1
  <2> QED BY <2>1, <2>2, BlankPasses
<1> QED BY <1>9, <1>10, <1>11

\* The stack after a line indented by m.
LEMMA KeptFits ==
    ASSUME TypeOK, NEW m \in Nat
    PROVE  /\ Kept(m) \in Seq(Nat) /\ Kept(m) # <<>> /\ Kept(m)[1] = 0
           /\ Len(indent_stack) - Len(Kept(m)) \in Nat
<1> DEFINE st == indent_stack
           S == {i \in DOMAIN st : st[i] <= m}
           e == Max(S)
<1>1. st \in Seq(Nat) /\ st # <<>> /\ st[1] = 0
  BY DEF TypeOK
<1> HIDE DEF st
<1>2. Len(st) \in Nat /\ Len(st) >= 1 /\ DOMAIN st = 1 .. Len(st) /\ \A i \in DOMAIN st : st[i] \in Nat
  BY <1>1
<1>3. 1 \in S
  BY <1>1, <1>2
<1>4. S \subseteq 1 .. Len(st)
  BY <1>2
<1>5. e \in 1 .. Len(st)
  BY <1>2, <1>3, <1>4, MaxIsMost
<1>6. Kept(m) = SubSeq(st, 1, e)
  BY DEF Kept, st
<1> HIDE DEF e
<1>7. \A i \in 1 .. e : st[i] \in Nat
  BY <1>2, <1>5
<1>8. /\ SubSeq(st, 1, e) \in Seq(Nat)
      /\ Len(SubSeq(st, 1, e)) = e
      /\ SubSeq(st, 1, e)[1] = st[1]
  BY <1>1, <1>2, <1>5, <1>7, SubSeqProperties
<1>9. Kept(m) # <<>>
  BY <1>5, <1>6, <1>8, EmptySeq
<1> QED BY <1>1, <1>2, <1>5, <1>6, <1>8, <1>9 DEF st

LEMMA DedentRun ==
    ASSUME NEW n \in Nat, NEW at \in Nat \ {0}
    PROVE  /\ Dedents(n, at) \in Seq(Pieces) /\ DOMAIN Dedents(n, at) = 1 .. n
           /\ \A i \in 1 .. n : Dedents(n, at)[i] = [kind |-> "DEDENT", from |-> at, to |-> at - 1]
<1>1. [kind |-> "DEDENT", from |-> at, to |-> at - 1] \in Pieces
  BY DEF Pieces, Kinds, LayoutKinds
<1>2. Dedents(n, at) = [i \in 1 .. n |-> [kind |-> "DEDENT", from |-> at, to |-> at - 1]]
  BY DEF Dedents, Mark, Token
<1> QED BY <1>1, <1>2

LEMMA MarksOnly ==
    ASSUME TypeOK, UNCHANGED <<src, paren_depth>>,
           NEW s \in Seq(Pieces), tokens' = tokens \o s, pos' \in Nat, pos <= pos',
           \A i \in DOMAIN s : s[i].from = pos' /\ s[i].to = pos' - 1 /\ s[i].kind \notin Brackets \cup Words,
           Layout(s),
           \A p \in pos .. pos' - 1 : Passed(p),
           indent_stack' \in Seq(Nat) /\ indent_stack' # <<>> /\ indent_stack'[1] = 0
    PROVE  \E ts : Turn(ts)
<1>0. \A x \in Nat : x - 1 < x
  BY ONLY TRUE
<1>1. DOMAIN s = 1 .. Len(s) /\ Len(s) \in Nat /\ pos \in Nat
  BY DEF TypeOK
<1>2. \A i \in 2 .. Len(s) : i \in DOMAIN s /\ i - 1 \in DOMAIN s
  BY <1>1
<1>3. \A i \in 2 .. Len(s) : s[i - 1].to < s[i].from
  <2> SUFFICES ASSUME NEW i \in 2 .. Len(s)
               PROVE  s[i - 1].to < s[i].from
    OBVIOUS
  <2>1. s[i - 1].to = pos' - 1 /\ s[i].from = pos'
    BY <1>2
  <2>2. pos' - 1 < pos'
    BY <1>0
  <2> QED BY <2>1, <2>2, Zenon
<1>4. Scanned(s, pos')
  <2>1. \A i \in DOMAIN s : pos <= s[i].from /\ s[i].to < pos'
    OBVIOUS
  <2> QED BY <1>1, <1>3, <2>1 DEF Scanned
<1>5. Counted(s)
  BY DEF Counted
<1>6. \A i \in DOMAIN s : Told(s[i])
  BY DEF Told
<1>7. Turn(s)
  BY <1>4, <1>5, <1>6 DEF Turn
<1> QED BY <1>7

TokenKinds == Kinds \ (LayoutKinds \cup Brackets)

LEMMA EmitTurn ==
    ASSUME TypeOK, NEW k \in TokenKinds, NEW to \in Nat, pos <= to,
           Emit(Token(k, pos, to), to + 1), Told(Token(k, pos, to))
    PROVE  \E s : Turn(s)
<1> DEFINE t == Token(k, pos, to)
<1>1. k \in Kinds /\ k \notin LayoutKinds /\ k \notin Brackets
  BY DEF TokenKinds
<1>2. t \in Pieces /\ t.from = pos /\ t.to = to /\ t.kind = k
  BY <1>1 DEF Token, Pieces, TypeOK
<1> HIDE DEF t
<1>3. /\ UNCHANGED <<src, indent_stack, paren_depth>>
      /\ tokens' = Append(tokens, t) /\ pos' = to + 1
  BY DEF Emit, t
<1>4. Counted(<<t>>)
  <2>1. \A i \in DOMAIN <<t>> : <<t>>[i] = t
    OBVIOUS
  <2> QED BY <1>1, <1>2, <1>3, <2>1 DEF Counted
<1>5. pos \in Nat
  BY DEF TypeOK
<1>6. pos' \in Nat /\ pos <= pos' /\ t.to < pos' /\ pos <= t.from
  BY <1>2, <1>3, <1>5
<1>7. \A p \in pos .. pos' - 1 : p \in t.from .. t.to \/ Passed(p)
  BY <1>2, <1>3, <1>5
<1>8. t.kind \notin LayoutKinds
  BY <1>1, <1>2
<1>9. UNCHANGED <<src, indent_stack>>
  BY <1>3
<1>10. Told(t)
  BY DEF t
<1> QED BY <1>2, <1>3, <1>4, <1>6, <1>7, <1>8, <1>9, <1>10, OneToken

LEMMA StopTurn ==
    ASSUME TypeOK, NEW why, Stop(why)
    PROVE  \E s : Turn(s)
<1>1. /\ UNCHANGED <<src, paren_depth, indent_stack, tokens>>
      /\ pos' = pos /\ pos \in Nat
  BY DEF Stop, TypeOK
<1>2. pos' \in Nat /\ pos <= pos' /\ \A p \in pos .. pos' - 1 : Passed(p)
  BY <1>1
<1> QED BY <1>1, <1>2, NoToken

LEMMA EmitTextTurn ==
    ASSUME TypeOK, NEW k \in TokenKinds \ Words, NEW to, to # 0 => to \in Nat /\ pos <= to,
           EmitText(k, pos, to)
    PROVE  \E s : Turn(s)
<1>1. CASE to = 0
  BY <1>1, StopTurn DEF EmitText
<1>2. CASE to # 0
  <2>1. Told(Token(k, pos, to))
    BY DEF Told, Token
  <2>2. Emit(Token(k, pos, to), to + 1) /\ k \in TokenKinds
    BY <1>2 DEF EmitText
  <2> QED BY <1>2, <2>1, <2>2, EmitTurn
<1> QED BY <1>1, <1>2

LEMMA SkipTurn ==
    ASSUME TypeOK, NEW q \in Nat, pos <= q, Skip(q), \A p \in pos .. q - 1 : Passed(p)
    PROVE  \E s : Turn(s)
<1>1. /\ UNCHANGED <<src, paren_depth, indent_stack, tokens>>
      /\ pos' = q
  BY DEF Skip
<1>2. pos' \in Nat /\ pos <= pos' /\ \A p \in pos .. pos' - 1 : Passed(p)
  BY <1>1
<1> QED BY <1>1, <1>2, NoToken

-----------------------------------------------------------------------------
LEMMA LineTurns ==
    ASSUME TypeOK, InBrackets \/ BlankLine \/ Deeper \/ Shallower \/ Finish
    PROVE  \E s : Turn(s)
<1>1. pos \in Nat /\ pos \in Nat \ {0} /\ Len(src) \in Nat /\ indent_stack \in Seq(Nat)
      /\ tokens \in Seq(Pieces)
  BY Text DEF TypeOK
<1>2. CASE InBrackets
  <2>1. /\ UNCHANGED <<src, paren_depth, indent_stack, tokens>>
        /\ pos' = pos
    BY <1>2 DEF InBrackets
  <2>2. pos' \in Nat /\ pos <= pos' /\ \A p \in pos .. pos' - 1 : Passed(p)
    BY <1>1, <2>1
  <2> QED BY <2>1, <2>2, NoToken
<1>3. CASE BlankLine
  <2>1. /\ UNCHANGED <<src, paren_depth, indent_stack, tokens>>
        /\ pos' = Body /\ pos <= Len(src)
    BY <1>3 DEF BlankLine, AtIndent, Scanning
  <2>2. pos' \in Nat /\ pos <= pos' /\ \A p \in pos .. pos' - 1 : Passed(p)
    BY <1>1, <2>1, Indentation
  <2> QED BY <2>1, <2>2, NoToken
<1>4. CASE Deeper
  <2>1. /\ UNCHANGED <<src, paren_depth>> /\ paren_depth = 0
        /\ pos' = Body /\ pos <= Len(src)
    BY <1>4 DEF Deeper, CodeLine, AtIndent, Scanning
  <2>2. pos' \in Nat /\ pos <= pos' /\ (\A p \in pos .. pos' - 1 : Passed(p)) /\ Indent \in Nat
        /\ pos' \in Nat \ {0}
    BY <1>1, <2>1, Indentation
  <2>3. CASE Indent = Last(indent_stack)
    <3>1. UNCHANGED <<src, paren_depth, indent_stack, tokens>>
      BY <1>4, <2>1, <2>3 DEF Deeper
    <3> QED BY <2>2, <3>1, NoToken
  <2>4. CASE Indent # Last(indent_stack)
    <3> DEFINE t == Mark("INDENT", Body)
               s == <<t>>
    <3>1. indent_stack' = Append(indent_stack, Indent) /\ tokens' = Append(tokens, t)
      BY <1>4, <2>4 DEF Deeper
    <3>2. t \in Pieces /\ t.from = pos' /\ t.to = pos' - 1 /\ t.kind = "INDENT"
      BY <2>1, <2>2 DEF Mark, Token, Pieces, Kinds, LayoutKinds
    <3> HIDE DEF t
    <3>3. s \in Seq(Pieces) /\ (\A i \in DOMAIN s : s[i] = t) /\ tokens' = tokens \o s
      BY <1>1, <3>1, <3>2
    <3> HIDE DEF s
    <3>4. \A i \in DOMAIN s : s[i].from = pos' /\ s[i].to = pos' - 1 /\ s[i].kind \notin Brackets \cup Words
      BY <3>2, <3>3 DEF Brackets, Words
    <3>5. Layout(s)
      BY <2>1 DEF Layout
    <3>6. indent_stack' \in Seq(Nat) /\ indent_stack' # <<>> /\ indent_stack'[1] = 0
      <4>1. indent_stack # <<>> /\ indent_stack[1] = 0
        BY DEF TypeOK
      <4> QED BY <1>1, <2>2, <3>1, <4>1
    <3> QED BY <2>1, <2>2, <3>3, <3>4, <3>5, <3>6, MarksOnly
  <2> QED BY <2>3, <2>4
<1>5. CASE Shallower
  <2>1. /\ UNCHANGED <<src, paren_depth>> /\ paren_depth = 0
        /\ pos' = Body /\ pos <= Len(src)
    BY <1>5 DEF Shallower, CodeLine, AtIndent, Scanning
  <2>2. pos' \in Nat /\ pos <= pos' /\ (\A p \in pos .. pos' - 1 : Passed(p)) /\ Indent \in Nat
        /\ pos' \in Nat \ {0}
    BY <1>1, <2>1, Indentation
  <2>3. indent_stack' = Kept(Indent)
    BY <1>5 DEF Shallower
  <2>4. /\ indent_stack' \in Seq(Nat) /\ indent_stack' # <<>> /\ indent_stack'[1] = 0
        /\ Len(indent_stack) - Len(indent_stack') \in Nat
    BY <2>2, <2>3, KeptFits
  <2> DEFINE n == Len(indent_stack) - Len(indent_stack')
             s == Dedents(n, Body)
  <2>5. tokens' = tokens \o s
    BY <1>5 DEF Shallower
  <2> HIDE DEF n
  <2>6. n \in Nat
    BY <2>4 DEF n
  <2>7. /\ s \in Seq(Pieces) /\ DOMAIN s = 1 .. n
        /\ \A i \in 1 .. n : s[i] = [kind |-> "DEDENT", from |-> Body, to |-> Body - 1]
    BY <2>1, <2>2, <2>6, DedentRun
  <2> HIDE DEF s
  <2>8. \A i \in DOMAIN s : s[i].from = pos' /\ s[i].to = pos' - 1 /\ s[i].kind \notin Brackets \cup Words
    BY <2>1, <2>7 DEF Brackets, Words
  <2>9. Layout(s)
    BY <2>1 DEF Layout
  <2> QED BY <2>1, <2>2, <2>4, <2>5, <2>7, <2>8, <2>9, MarksOnly
<1>6. CASE Finish
  <2>1. /\ UNCHANGED <<src, paren_depth>> /\ pos' = pos /\ pos > Len(src)
        /\ indent_stack' = <<0>>
    BY <1>6 DEF Finish
  <2>2. pos' \in Nat /\ pos <= pos' /\ \A p \in pos .. pos' - 1 : Passed(p)
    BY <1>1, <2>1
  <2> DEFINE n == Len(indent_stack) - 1
             d == Dedents(n, pos)
             e == <<Mark("EOF", pos)>>
             s == d \o e
  <2>3. tokens' = (tokens \o d) \o e
    BY <1>6 DEF Finish
  <2> HIDE DEF n
  <2>4. n \in Nat
    <3>1. indent_stack # <<>>
      BY DEF TypeOK
    <3> QED BY <1>1, <3>1, EmptySeq DEF n
  <2>5. /\ d \in Seq(Pieces) /\ DOMAIN d = 1 .. n
        /\ \A i \in 1 .. n : d[i] = [kind |-> "DEDENT", from |-> pos, to |-> pos - 1]
    BY <1>1, <2>4, DedentRun
  <2>6. Mark("EOF", pos) \in Pieces /\ Mark("EOF", pos) = [kind |-> "EOF", from |-> pos, to |-> pos - 1]
    BY <1>1 DEF Mark, Token, Pieces, Kinds
  <2>7. e \in Seq(Pieces) /\ \A i \in 1 .. Len(e) : e[i] = [kind |-> "EOF", from |-> pos, to |-> pos - 1]
    BY <2>6
  <2> HIDE DEF d, e
  <2>8. tokens' = tokens \o s
    <3>1. tokens \in Seq(Pieces) /\ d \in Seq(Pieces) /\ e \in Seq(Pieces)
      BY <1>1, <2>5, <2>7
    <3>2. (tokens \o d) \o e = tokens \o (d \o e)
      BY <3>1, SeqAssociative, Zenon
    <3> QED BY <2>3, <3>2, Zenon
  <2>9. s \in Seq(Pieces) /\ Len(s) = Len(d) + Len(e)
        /\ \A i \in 1 .. Len(d) + Len(e) : s[i] = IF i <= Len(d) THEN d[i] ELSE e[i - Len(d)]
    BY <2>5, <2>7, ConcatProperties
  <2> HIDE DEF s
  <2>10. Len(d) \in Nat /\ Len(e) \in Nat /\ DOMAIN s = 1 .. Len(d) + Len(e) /\ DOMAIN d = 1 .. Len(d)
    BY <2>5, <2>7, <2>9
  <2>11. ASSUME NEW i \in DOMAIN s
         PROVE  s[i].from = pos' /\ s[i].to = pos' - 1 /\ s[i].kind \notin Brackets \cup Words
    <3>1. CASE i <= Len(d)
      <4>0. i \in 1 .. Len(d) + Len(e) /\ i \in 1 .. Len(d)
        BY <2>10, <3>1
      <4>1. i \in 1 .. n /\ s[i] = d[i]
        BY <2>5, <2>9, <2>10, <3>1, <4>0
      <4>2. s[i] = [kind |-> "DEDENT", from |-> pos, to |-> pos - 1]
        BY <2>5, <4>1
      <4> QED BY <2>1, <4>2 DEF Brackets, Words
    <3>2. CASE ~(i <= Len(d))
      <4>1. i - Len(d) \in 1 .. Len(e) /\ s[i] = e[i - Len(d)]
        BY <2>9, <2>10, <3>2
      <4>2. s[i] = [kind |-> "EOF", from |-> pos, to |-> pos - 1]
        BY <2>7, <4>1
      <4> QED BY <2>1, <4>2 DEF Brackets, Words
    <3> QED BY <3>1, <3>2
  <2>12. Layout(s)
    BY <1>1, <2>1, <2>11 DEF Layout
  <2>13. indent_stack' \in Seq(Nat) /\ indent_stack' # <<>> /\ indent_stack'[1] = 0
    BY <2>1
  <2> QED BY <2>1, <2>2, <2>8, <2>9, <2>11, <2>12, <2>13, MarksOnly
<1> QED BY <1>2, <1>3, <1>4, <1>5, <1>6
LEMMA BlankTurns ==
    ASSUME TypeOK, SkipBlanks \/ Spin \/ Comment \/ Newline \/ Continuation
    PROVE  \E s : Turn(s)
<1>1. pos \in Nat /\ pos \in Nat \ {0} /\ Len(src) \in Nat
  BY Text DEF TypeOK
<1>2. pos <= Len(src)
  BY DEF SkipBlanks, Spin, Comment, Newline, Continuation, Next1, Scanning
<1>3. pos <= Len(src) + 1 /\ pos \in DOMAIN src /\ Char(pos) = src[pos]
  BY <1>1, <1>2, Text DEF Char
<1>4. CASE SkipBlanks
  <2> DEFINE q == After(pos, Blank)
  <2>1. q \in pos .. Len(src) + 1 /\ \A r \in pos .. q - 1 : Char(r) \in Blank
    BY <1>1, <1>3, AfterEnds, Distinct
  <2>2. Skip(q)
    BY <1>4 DEF SkipBlanks
  <2> HIDE DEF q
  <2>3. q \in Nat /\ pos <= q
    BY <1>1, <2>1
  <2>4. \A r \in pos .. q - 1 : Passed(r)
    BY <1>1, <2>1, <2>3, BlankPasses
  <2> QED BY <2>2, <2>3, <2>4, SkipTurn
<1>5. CASE Spin
  BY <1>5, StopTurn DEF Spin
<1>6. CASE Comment
  <2> DEFINE q == After(pos, Chars \ {"\n"})
  <2>1. q \in pos .. Len(src) + 1 /\ \A r \in pos .. q - 1 : Char(r) \in Chars \ {"\n"}
    BY <1>1, <1>3, AfterEnds, EndIsNoChar
  <2>2. Skip(q)
    BY <1>6 DEF Comment, CommentEnd
  <2>3. src[pos] = "#"
    BY <1>6 DEF Comment, Next1
  <2> HIDE DEF q
  <2>4. q \in Nat /\ pos <= q
    BY <1>1, <2>1
  <2>5. \A r \in pos .. q - 1 : src[r] # "\n"
    BY <1>1, <2>1, <2>4, EndIsNoChar, Text
  <2>6. ASSUME NEW p \in pos .. q - 1
        PROVE  Passed(p)
    <3>1. pos \in 1 .. p /\ pos .. p \subseteq pos .. q - 1
      BY <1>1, <2>4
    <3>2. InComment(p)
      BY <2>3, <2>5, <3>1 DEF InComment
    <3> QED BY <3>2 DEF Passed
  <2> QED BY <2>2, <2>4, <2>6, SkipTurn
<1>7. CASE Newline
  <2> DEFINE t == Token("NEWLINE", pos, LineBreak)
  <2>1. /\ UNCHANGED <<src, indent_stack, paren_depth>> /\ pos' = LineBreak + 1
        /\ tokens' = IF paren_depth = 0 THEN Append(tokens, t) ELSE tokens
        /\ src[pos] \in {"\n", "\r"}
    BY <1>7 DEF Newline, NewlineCounts, Next1
  <2>2. LineBreak = pos \/ (LineBreak = pos + 1 /\ Char(pos + 1) = "\n")
    BY DEF LineBreak
  <2>3. LineBreak \in Nat /\ pos' \in Nat /\ pos <= pos' /\ LineBreak < pos'
    BY <1>1, <2>1, <2>2
  <2>4. ASSUME NEW p \in pos .. pos' - 1
        PROVE  Passed(p)
    <3>1. p \in Int /\ (p = pos \/ (p = pos + 1 /\ Char(p) = "\n"))
      BY <1>1, <2>1, <2>2
    <3>2. Char(p) \in {"\n", "\r"}
      BY <1>3, <2>1, <3>1
    <3> QED BY <3>1, <3>2, BlankPasses
  <2>5. CASE paren_depth # 0
    <3>1. UNCHANGED <<src, paren_depth, indent_stack, tokens>>
      BY <2>1, <2>5
    <3> QED BY <2>3, <2>4, <3>1, NoToken
  <2>6. CASE paren_depth = 0
    <3>1. t \in Pieces /\ t.from = pos /\ t.to = LineBreak /\ t.kind = "NEWLINE"
      BY <1>1, <2>3 DEF Token, Pieces, Kinds, LayoutKinds
    <3>2. tokens' = Append(tokens, t)
      BY <2>1, <2>6
    <3> HIDE DEF t
    <3>3. Counted(<<t>>)
      <4>1. \A i \in DOMAIN <<t>> : <<t>>[i] = t
        OBVIOUS
      <4> QED BY <2>1, <3>1, <4>1 DEF Counted, Brackets
    <3>4. pos <= t.from /\ t.to < pos' /\ UNCHANGED <<src, indent_stack>>
      BY <1>1, <2>1, <2>3, <3>1
    <3>5. Told(t)
      BY <3>1 DEF Told, Words
    <3> QED BY <2>3, <2>4, <2>6, <3>1, <3>2, <3>3, <3>4, <3>5, OneToken
  <2> QED BY <2>5, <2>6
<1>8. CASE Continuation
  <2> DEFINE q == AfterBackslash
  <2>1. Skip(q) /\ src[pos] = "\\"
    BY <1>8 DEF Continuation, Next1
  <2>2. q = pos + 1 \/ (q = pos + 2 /\ Char(pos + 1) = "\n")
    BY DEF AfterBackslash
  <2> HIDE DEF q
  <2>3. q \in Nat /\ pos <= q
    BY <1>1, <2>2
  <2>4. ASSUME NEW p \in pos .. q - 1
        PROVE  Passed(p)
    <3>1. p \in Int /\ (p = pos \/ (p = pos + 1 /\ Char(p) = "\n"))
      BY <1>1, <2>2
    <3>2. Char(p) \in {"\n", "\\"}
      BY <1>3, <2>1, <3>1
    <3> QED BY <3>1, <3>2, BlankPasses
  <2> QED BY <2>1, <2>3, <2>4, SkipTurn
<1> QED BY <1>4, <1>5, <1>6, <1>7, <1>8

LEMMA WordTurns ==
    ASSUME TypeOK, CharLiteral \/ String \/ FString \/ RawOrBytes \/ DigitToken \/ Identifier
    PROVE  \E s : Turn(s)
<1>1. pos \in Nat /\ pos \in Nat \ {0} /\ Len(src) \in Nat
  BY Text DEF TypeOK
<1>2. pos <= Len(src)
  BY DEF CharLiteral, String, FString, RawOrBytes, DigitToken, Identifier, Prefixed,
         Next1, Scanning
<1>3. pos <= Len(src) + 1 /\ pos \in DOMAIN src /\ Char(pos) = src[pos] /\ pos + 1 \in Nat \ {0}
  BY <1>1, <1>2, Text DEF Char
<1>4. /\ \A k \in {"CHAR_LIT", "STRING", "FSTRING"} : k \in TokenKinds \ Words
      /\ \A k \in {"NUMBER", "IDENT"} : k \in TokenKinds
  BY DEF TokenKinds, Kinds, LayoutKinds, Brackets, Words
<1>5. CASE CharLiteral
  <2>1. \E to \in {0, pos + 2, pos + 3} : EmitText("CHAR_LIT", pos, to)
    BY <1>5 DEF CharLiteral
  <2>2. PICK to \in {0, pos + 2, pos + 3} : EmitText("CHAR_LIT", pos, to)
    BY <2>1
  <2>3. to # 0 => to \in Nat /\ pos <= to
    BY <1>1
  <2> QED BY <1>4, <2>2, <2>3, EmitTextTurn
<1>6. CASE String
  <2>1. EmitText("STRING", pos, StringEnd(pos)) /\ Char(pos) \in Quotes \cup {End}
    BY <1>3, <1>6 DEF String, Next1
  <2>2. StringEnd(pos) # 0 => StringEnd(pos) \in pos + 1 .. Len(src)
    BY <1>1, <2>1, StringIsLater
  <2>3. StringEnd(pos) # 0 => StringEnd(pos) \in Nat /\ pos <= StringEnd(pos)
    BY <1>1, <2>2
  <2> QED BY <1>4, <2>1, <2>3, EmitTextTurn
<1>7. CASE FString
  <2>1. EmitText("FSTRING", pos, FStringEnd(pos + 1)) /\ Char(pos + 1) \in Quotes \cup {End}
    BY <1>7 DEF FString, Prefixed
  <2>2. FStringEnd(pos + 1) # 0 => FStringEnd(pos + 1) \in pos + 1 + 1 .. Len(src)
    BY <1>3, <2>1, FStringIsLater
  <2>3. FStringEnd(pos + 1) # 0 => FStringEnd(pos + 1) \in Nat /\ pos <= FStringEnd(pos + 1)
    BY <1>1, <2>2
  <2> QED BY <1>4, <2>1, <2>3, EmitTextTurn
<1>8. CASE RawOrBytes
  <2>1. EmitText("STRING", pos, StringEnd(pos + 1)) /\ Char(pos + 1) \in Quotes \cup {End}
    BY <1>8 DEF RawOrBytes, Prefixed
  <2>2. StringEnd(pos + 1) # 0 => StringEnd(pos + 1) \in pos + 1 + 1 .. Len(src)
    BY <1>3, <2>1, StringIsLater
  <2>3. StringEnd(pos + 1) # 0 => StringEnd(pos + 1) \in Nat /\ pos <= StringEnd(pos + 1)
    BY <1>1, <2>2
  <2> QED BY <1>4, <2>1, <2>3, EmitTextTurn
<1>9. CASE DigitToken
  <2> DEFINE to == DigitTokenEnd(pos)
             k == IF IsNumber(SubSeq(src, pos, to)) THEN "NUMBER" ELSE "IDENT"
  <2>1. Emit(Token(k, pos, to), to + 1) /\ src[pos] \in Digits
    BY <1>9 DEF DigitToken, Next1
  <2>2. k \in TokenKinds
    BY <1>4
  <2>3. to \in pos .. Len(src)
    BY <1>1, <1>2, <2>1, DigitTokenIsLater
  <2>4. k = "NUMBER" <=> IsNumber(SubSeq(src, pos, to))
    OBVIOUS
  <2> HIDE DEF k, to
  <2>5. to \in Nat /\ pos <= to
    BY <1>1, <2>3
  <2>6. Told(Token(k, pos, to))
    BY <1>3, <2>3, <2>4 DEF Told, Token, Word
  <2> QED BY <2>1, <2>2, <2>5, <2>6, EmitTurn
<1>10. CASE Identifier
  <2> DEFINE q == After(pos, Alnum)
             to == q - 1
  <2>1. Emit(Token("IDENT", pos, to), q) /\ src[pos] \in Alnum /\ src[pos] \notin Digits
    BY <1>10 DEF Identifier, Next1
  <2>2. q \in pos .. Len(src) + 1 /\ Char(q) \notin Alnum
    BY <1>1, <1>3, AfterEnds, EndIsNoChar
  <2> HIDE DEF q
  <2>3. q # pos
    BY <1>3, <2>1, <2>2
  <2>4. to \in Nat /\ pos <= to /\ to + 1 = q
    BY <1>1, <2>2, <2>3
  <2>5. Emit(Token("IDENT", pos, to), to + 1)
    BY <2>1, <2>4
  <2>6. to \in pos .. Len(src)
    BY <1>1, <2>2, <2>4
  <2> HIDE DEF to
  <2>7. Told(Token("IDENT", pos, to))
    BY <1>3, <2>1, <2>6 DEF Told, Token
  <2> QED BY <1>4, <2>4, <2>5, <2>7, EmitTurn
<1> QED BY <1>5, <1>6, <1>7, <1>8, <1>9, <1>10

LEMMA SymbolTurns ==
    ASSUME TypeOK, Operator \/ OpenBracket \/ CloseBracket \/ Unexpected
    PROVE  \E s : Turn(s)
<1>1. pos \in Nat /\ pos \in Nat \ {0} /\ Len(src) \in Nat
  BY Text DEF TypeOK
<1>2. pos <= Len(src)
  BY DEF Operator, OpenBracket, CloseBracket, Unexpected, Next1, Scanning
<1>3. CASE Operator
  <2> DEFINE op == Longest
             to == pos + (IF op = <<"*", "*", "=">> THEN 1 ELSE Len(op) - 1)
             t == Token("OP", pos, to)
  <2>1. Emit(t, pos + Len(op)) /\ Matching # {}
    BY <1>3 DEF Operator
  <2>2. op \in Matching /\ Len(op) \in 1 .. 3 /\ DOMAIN op = 1 .. Len(op)
    BY <2>1, LongestMatches
  <2> HIDE DEF op
  <2>3. UNCHANGED <<src, indent_stack, paren_depth>> /\ pos' = pos + Len(op)
        /\ tokens' = Append(tokens, t)
    BY <2>1 DEF Emit
  <2>4. to \in Nat /\ pos <= to /\ to < pos' /\ pos' \in Nat /\ pos <= pos'
    <3>1. op = <<"*", "*", "=">> => Len(op) = 3
      OBVIOUS
    <3>2. Len(op) \in Nat /\ Len(op) >= 1 /\ pos' \in Nat /\ pos <= pos'
      BY <1>1, <2>2, <2>3
    <3>3. CASE op = <<"*", "*", "=">>
      <4>1. to = pos + 1 /\ pos' = pos + 3
        BY <2>3, <3>1, <3>3
      <4> QED BY <1>1, <4>1
    <3>4. CASE op # <<"*", "*", "=">>
      <4>1. to = pos + (Len(op) - 1) /\ pos' = pos + Len(op)
        BY <2>3, <3>4
      <4> HIDE DEF to
      <4> QED BY <1>1, <3>2, <4>1
    <3> QED BY <3>3, <3>4
  <2>5. op = <<"*", "*", "=">> \/ to = pos' - 1
    BY <1>1, <2>2, <2>3
  <2>6. op = <<"*", "*", "=">> => to = pos + 1 /\ pos' = pos + 3
    BY <2>3
  <2> HIDE DEF to
  <2>7. t \in Pieces /\ t.from = pos /\ t.to = to /\ t.kind = "OP"
    BY <1>1, <2>4 DEF Token, Pieces, Kinds
  <2> HIDE DEF t
  <2>8. ASSUME NEW p \in pos .. pos' - 1
        PROVE  p \in t.from .. t.to \/ Passed(p)
    <3>1. CASE to = pos' - 1
      BY <2>7, <3>1
    <3>2. CASE op = <<"*", "*", "=">> /\ p > to
      <4>1. p = pos + 2 /\ p > 2 /\ p - 2 = pos /\ p - 1 = pos + 1
        BY <1>1, <2>6, <3>2
      <4>2. Char(pos) = "*" /\ Char(pos + 1) = "*" /\ Char(pos + 2) = "="
        <5>1. \A i \in DOMAIN op : Char(pos + i - 1) = op[i]
          BY <2>2 DEF Matching
        <5>2. Char(pos + 1 - 1) = "*" /\ Char(pos + 2 - 1) = "*" /\ Char(pos + 3 - 1) = "="
          BY <3>2, <5>1
        <5>3. pos + 1 - 1 = pos /\ pos + 2 - 1 = pos + 1 /\ pos + 3 - 1 = pos + 2
          BY <1>1
        <5> QED BY <5>2, <5>3
      <4>3. End # "*" /\ End # "="
        BY Zenon DEF End
      <4>4. src[pos] = "*" /\ src[pos + 1] = "*" /\ src[pos + 2] = "="
        BY <1>1, <4>2, <4>3, Text
      <4>5. SubSeq(src, pos, pos + 2) = <<"*", "*", "=">>
        <5>1. \A i \in pos .. pos + 2 : src[i] \in {"*", "="}
          BY <1>1, <4>4
        <5>2. /\ Len(SubSeq(src, pos, pos + 2)) = IF pos <= pos + 2 THEN pos + 2 - pos + 1 ELSE 0
              /\ SubSeq(src, pos, pos + 2) \in Seq({"*", "="})
              /\ \A i \in 1 .. pos + 2 - pos + 1 : SubSeq(src, pos, pos + 2)[i] = src[pos + i - 1]
          BY <1>1, <5>1, SubSeqProperties
        <5>3. /\ pos <= pos + 2 /\ pos + 2 - pos + 1 = 3 /\ pos + 1 - 1 = pos
              /\ pos + 2 - 1 = pos + 1 /\ pos + 3 - 1 = pos + 2
          BY <1>1
        <5> DEFINE w == SubSeq(src, pos, pos + 2)
        <5>4. w \in Seq({"*", "="}) /\ Len(w) = 3 /\ w[1] = "*" /\ w[2] = "*" /\ w[3] = "="
          BY <4>4, <5>2, <5>3
        <5> HIDE DEF w
        <5>5. w = <<"*", "*", "=">>
          BY <5>4
        <5> QED BY <5>5 DEF w
      <4> QED BY <4>1, <4>5 DEF Passed
    <3>3. CASE ~(p > to)
      BY <1>1, <2>4, <2>7, <3>3
    <3> QED BY <2>5, <3>1, <3>2, <3>3
  <2>9. Counted(<<t>>)
    <3>1. \A i \in DOMAIN <<t>> : <<t>>[i] = t
      OBVIOUS
    <3> QED BY <2>3, <2>7, <3>1 DEF Counted, Brackets
  <2>10. pos <= t.from /\ t.to < pos' /\ t.kind \notin LayoutKinds
         /\ UNCHANGED <<src, indent_stack>>
    BY <1>1, <2>3, <2>4, <2>7 DEF LayoutKinds
  <2>11. Told(t)
    BY <2>7 DEF Told, Words
  <2> QED BY <2>3, <2>4, <2>7, <2>8, <2>9, <2>10, <2>11, OneToken
<1>4. CASE OpenBracket \/ CloseBracket
  <2>1. PICK k \in {"OPEN", "CLOSE"} :
          /\ UNCHANGED <<src, indent_stack>> /\ pos' = pos + 1
          /\ tokens' = Append(tokens, Token(k, pos, pos))
          /\ k = "OPEN" => paren_depth' = paren_depth + 1
          /\ k = "CLOSE" => paren_depth' = Below
    BY <1>4 DEF OpenBracket, CloseBracket
  <2> DEFINE t == Token(k, pos, pos)
  <2>2. t \in Pieces /\ t.from = pos /\ t.to = pos /\ t.kind = k
    BY <1>1 DEF Token, Pieces, Kinds
  <2>3. tokens' = Append(tokens, t)
    BY <2>1
  <2> HIDE DEF t
  <2>4. Counted(<<t>>)
    BY <2>1, <2>2 DEF Counted
  <2>5. pos' \in Nat /\ pos <= pos' /\ pos <= t.from /\ t.to < pos'
        /\ \A p \in pos .. pos' - 1 : p \in t.from .. t.to
    BY <1>1, <2>1, <2>2
  <2>6. t.kind \notin LayoutKinds
    BY <2>2 DEF LayoutKinds
  <2>7. Told(t)
    BY <2>2 DEF Told, Words
  <2> QED BY <2>1, <2>2, <2>3, <2>4, <2>5, <2>6, <2>7, OneToken
<1>5. CASE Unexpected
  BY <1>5, StopTurn DEF Unexpected
<1> QED BY <1>3, <1>4, <1>5

LEMMA EveryTurn ==
    ASSUME TypeOK, Next
    PROVE  \E s : Turn(s)
BY LineTurns, BlankTurns, WordTurns, SymbolTurns DEF Next
-----------------------------------------------------------------------------
(***************************************************************************)
(* The tokens keep to their places.                                        *)
(***************************************************************************)
InPlace == /\ \A i \in DOMAIN tokens : tokens[i].to < pos
           /\ \A i \in 2 .. Len(tokens) : tokens[i - 1].to < tokens[i].from
           /\ \A p \in 1 .. pos - 1 : Held(tokens, p) \/ Passed(p)

LEMMA TypeInit == Init => TypeOK /\ InPlace
<1> SUFFICES ASSUME Init PROVE TypeOK /\ InPlace
  OBVIOUS
<1>1. /\ src \in Seq(Chars) /\ pos = 1 /\ indent_stack = <<0>> /\ paren_depth = 0
      /\ tokens = <<>>
  BY SourcesAssumption DEF Init, InitScan
<1>2. TypeOK
  BY <1>1 DEF TypeOK
<1>3. InPlace
  BY <1>1 DEF InPlace
<1> QED BY <1>2, <1>3

\* A turn adds tokens behind those there are.
LEMMA Grown ==
    ASSUME TypeOK, NEW s, Turn(s)
    PROVE  /\ s \in Seq(Pieces) /\ Len(tokens) \in Nat /\ Len(s) \in Nat
           /\ DOMAIN tokens = 1 .. Len(tokens) /\ DOMAIN s = 1 .. Len(s)
           /\ tokens' \in Seq(Pieces) /\ Len(tokens') = Len(tokens) + Len(s)
           /\ DOMAIN tokens' = 1 .. Len(tokens) + Len(s)
           /\ \A i \in 1 .. Len(tokens) : tokens'[i] = tokens[i]
           /\ \A i \in Len(tokens) + 1 .. Len(tokens) + Len(s) :
                 /\ i - Len(tokens) \in 1 .. Len(s)
                 /\ tokens'[i] = s[i - Len(tokens)]
<1>1. tokens \in Seq(Pieces) /\ s \in Seq(Pieces) /\ tokens' = tokens \o s
  BY DEF TypeOK, Turn, Scanned
<1>2. Len(tokens) \in Nat /\ Len(s) \in Nat /\ DOMAIN tokens = 1 .. Len(tokens) /\ DOMAIN s = 1 .. Len(s)
  BY <1>1
<1>3. /\ tokens' \in Seq(Pieces) /\ Len(tokens') = Len(tokens) + Len(s)
      /\ \A i \in 1 .. Len(tokens) + Len(s) :
            tokens'[i] = IF i <= Len(tokens) THEN tokens[i] ELSE s[i - Len(tokens)]
  BY <1>1, ConcatProperties
<1>4. DOMAIN tokens' = 1 .. Len(tokens) + Len(s)
  BY <1>3
<1> DEFINE n == Len(tokens)
           m == Len(s)
<1>5. n \in Nat /\ m \in Nat
  BY <1>2
<1>6. \A i \in 1 .. n + m : tokens'[i] = IF i <= n THEN tokens[i] ELSE s[i - n]
  BY <1>3
<1> HIDE DEF n, m
<1>7. \A i \in 1 .. n : tokens'[i] = tokens[i]
  BY <1>5, <1>6
<1>8. \A i \in n + 1 .. n + m : i - n \in 1 .. m /\ tokens'[i] = s[i - n]
  BY <1>5, <1>6
<1> QED BY <1>1, <1>2, <1>3, <1>4, <1>7, <1>8 DEF n, m

LEMMA TypeStep ==
    ASSUME TypeOK, NEW s, Turn(s)
    PROVE  TypeOK'
<1>1. paren_depth' \in Nat
  BY DEF Turn, Counted, TypeOK, Below
<1>2. pos' \in Nat \ {0}
  <2>1. pos \in Nat \ {0} /\ pos' \in Nat /\ pos <= pos'
    BY DEF Turn, Scanned, TypeOK
  <2> QED BY <2>1
<1>3. tokens' \in Seq(Pieces)
  BY Grown
<1>4. /\ src' \in Seq(Chars)
      /\ indent_stack' \in Seq(Nat) /\ indent_stack' # <<>> /\ indent_stack'[1] = 0
  BY DEF Turn, TypeOK
<1> QED BY <1>1, <1>2, <1>3, <1>4 DEF TypeOK

LEMMA PlaceStep ==
    ASSUME TypeOK, InPlace, NEW s, Turn(s)
    PROVE  InPlace'
<1> DEFINE n == Len(tokens)
           m == Len(s)
<1>1. /\ n \in Nat /\ m \in Nat /\ DOMAIN tokens = 1 .. n /\ DOMAIN s = 1 .. m
      /\ DOMAIN tokens' = 1 .. n + m /\ Len(tokens') = n + m
      /\ \A i \in 1 .. n : tokens'[i] = tokens[i]
      /\ \A i \in n + 1 .. n + m : i - n \in 1 .. m /\ tokens'[i] = s[i - n]
  BY Grown
<1>2. /\ pos' \in Nat /\ pos <= pos' /\ pos \in Nat
      /\ \A i \in DOMAIN s : pos <= s[i].from /\ s[i].to < pos'
      /\ \A i \in 2 .. m : s[i - 1].to < s[i].from
      /\ \A p \in pos .. pos' - 1 : Held(s, p) \/ Passed(p)
      /\ src' = src
  BY DEF Turn, Scanned, TypeOK
<1>3. /\ \A i \in DOMAIN tokens : tokens[i].to < pos
      /\ \A i \in 2 .. n : tokens[i - 1].to < tokens[i].from
      /\ \A p \in 1 .. pos - 1 : Held(tokens, p) \/ Passed(p)
  BY DEF InPlace
<1>4. /\ \A i \in 1 .. n : tokens[i].to \in Nat /\ tokens[i].from \in Nat
      /\ \A i \in 1 .. m : s[i].to \in Nat /\ s[i].from \in Nat
  <2>1. (\A i \in 1 .. n : tokens[i] \in Pieces) /\ \A i \in 1 .. m : s[i] \in Pieces
    BY <1>1, Grown DEF TypeOK
  <2> QED BY <2>1 DEF Pieces
<1> HIDE DEF n, m
<1>5. ASSUME NEW i \in 1 .. n + m
      PROVE  tokens'[i].to < pos'
  <2>1. CASE i \in 1 .. n
    <3>1. tokens'[i].to = tokens[i].to /\ tokens[i].to < pos /\ tokens[i].to \in Nat
      BY <1>1, <1>3, <1>4, <2>1
    <3> QED BY <1>2, <3>1
  <2>2. CASE i \in n + 1 .. n + m
    <3>1. i - n \in DOMAIN s /\ tokens'[i] = s[i - n]
      BY <1>1, <2>2
    <3> QED BY <1>2, <3>1
  <2>3. i \in 1 .. n \/ i \in n + 1 .. n + m
    BY <1>1
  <2> QED BY <2>1, <2>2, <2>3
<1>6. ASSUME NEW i \in 2 .. n + m
      PROVE  tokens'[i - 1].to < tokens'[i].from
  <2>1. CASE i <= n
    <3>1. i \in 2 .. n /\ i \in 1 .. n /\ i - 1 \in 1 .. n
      BY <1>1, <2>1
    <3> QED BY <1>1, <1>3, <3>1
  <2>2. CASE i = n + 1
    <3>1. i - 1 \in 1 .. n /\ i \in n + 1 .. n + m
      BY <1>1, <2>2
    <3>2. tokens'[i - 1] = tokens[i - 1] /\ tokens[i - 1].to < pos /\ tokens[i - 1].to \in Nat
      BY <1>1, <1>3, <1>4, <3>1
    <3>3. tokens'[i] = s[i - n] /\ pos <= s[i - n].from /\ s[i - n].from \in Nat
      BY <1>1, <1>2, <1>4, <3>1
    <3>4. \A x, y, z \in Nat : x < y /\ y <= z => x < z
      BY ONLY TRUE
    <3> QED BY <1>2, <3>2, <3>3, <3>4
  <2>3. CASE i > n + 1
    <3>1. i \in n + 1 .. n + m /\ i - 1 \in n + 1 .. n + m /\ i - n \in 2 .. m /\ i - 1 - n = i - n - 1
      BY <1>1, <2>3
    <3>2. tokens'[i] = s[i - n] /\ tokens'[i - 1] = s[i - n - 1]
      BY <1>1, <3>1
    <3> QED BY <1>2, <3>1, <3>2
  <2> QED BY <1>1, <2>1, <2>2, <2>3
<1>7. ASSUME NEW p \in 1 .. pos' - 1
      PROVE  Held(tokens', p) \/ Passed(p)
  <2>1. CASE p \in 1 .. pos - 1 /\ Held(tokens, p)
    <3>1. PICK i \in 1 .. n : p \in tokens[i].from .. tokens[i].to
      BY <1>1, <2>1 DEF Held
    <3>2. i \in DOMAIN tokens' /\ tokens'[i] = tokens[i]
      BY <1>1
    <3> QED BY <3>1, <3>2 DEF Held
  <2>2. CASE p \in pos .. pos' - 1 /\ Held(s, p)
    <3>1. PICK k \in 1 .. m : p \in s[k].from .. s[k].to
      BY <1>1, <2>2 DEF Held
    <3>2. n + k \in n + 1 .. n + m /\ n + k - n = k /\ n + k \in 1 .. n + m
      BY <1>1
    <3>3. tokens'[n + k] = s[k]
      BY <1>1, <3>2
    <3> QED BY <1>1, <3>1, <3>2, <3>3 DEF Held
  <2>3. p \in 1 .. pos - 1 \/ p \in pos .. pos' - 1
    <3>1. \A a, b \in Nat : \A x \in 1 .. b - 1 : x \in 1 .. a - 1 \/ x \in a .. b - 1
      BY ONLY TRUE
    <3> QED BY <1>2, <3>1, Zenon
  <2>4. \/ p \in 1 .. pos - 1 /\ Held(tokens, p)
        \/ p \in pos .. pos' - 1 /\ Held(s, p)
        \/ Passed(p)
    BY <1>2, <1>3, <2>3, Zenon
  <2> QED BY <2>1, <2>2, <2>4, Zenon
<1>8. \A p : Passed(p)' <=> Passed(p)
  BY <1>2 DEF Passed, InComment
<1>9. \A p : Held(tokens', p) <=> Held(tokens, p)'
  BY DEF Held
<1> QED BY <1>1, <1>5, <1>6, <1>7, <1>8, <1>9 DEF InPlace
-----------------------------------------------------------------------------
(***************************************************************************)
(* paren_depth says how deep in brackets the next token is.                *)
(***************************************************************************)
Of(ts, kind, j, i) == {k \in j .. i - 1 : ts[k].kind = kind}
Rise(ts, j, i) == Cardinality(Of(ts, "OPEN", j, i)) - Cardinality(Of(ts, "CLOSE", j, i))

\* The depth is the rise since the place from which it is greatest.
Balanced == /\ \A j \in 1 .. Len(tokens) + 1 : Rise(tokens, j, Len(tokens) + 1) <= paren_depth
            /\ \E j \in 1 .. Len(tokens) + 1 : Rise(tokens, j, Len(tokens) + 1) = paren_depth
Flat == \A i \in DOMAIN tokens :
           tokens[i].kind \in LayoutKinds /\ tokens[i].from <= Len(src) =>
              \A j \in 1 .. i : Rise(tokens, j, i) <= 0

LEMMA OfFinite ==
    ASSUME NEW ts, NEW kind, NEW j \in Int, NEW i \in Int
    PROVE  IsFiniteSet(Of(ts, kind, j, i)) /\ Cardinality(Of(ts, kind, j, i)) \in Nat
<1>1. IsFiniteSet(j .. i - 1)
  BY FS_Interval
<1>2. Of(ts, kind, j, i) \in SUBSET (j .. i - 1)
  BY DEF Of
<1>3. IsFiniteSet(Of(ts, kind, j, i))
  BY <1>1, <1>2, FS_Subset
<1> QED BY <1>3, FS_CardinalityType

LEMMA RiseType ==
    ASSUME NEW ts, NEW j \in Int, NEW i \in Int
    PROVE  Rise(ts, j, i) \in Int
BY OfFinite DEF Rise

Plain(ts, j, i) == \A k \in j .. i - 1 : ts[k].kind \notin Brackets

LEMMA RiseNone ==
    ASSUME NEW ts, NEW j, NEW i, Plain(ts, j, i)
    PROVE  Rise(ts, j, i) = 0
<1>1. Of(ts, "OPEN", j, i) = {} /\ Of(ts, "CLOSE", j, i) = {}
  BY DEF Of, Brackets, Plain
<1>2. Cardinality({}) = 0
  BY FS_EmptySet
<1> QED BY <1>1, <1>2 DEF Rise

\* From j on the first list is the second up to i, then it has no bracket.
Follows(us, ts, j, i, h) == /\ j \in Int /\ i \in Int /\ h \in Int /\ i <= h
                            /\ \A k \in j .. i - 1 : us[k] = ts[k]
                            /\ \A k \in i .. h - 1 : k >= j => us[k].kind \notin Brackets

LEMMA RiseSame ==
    ASSUME NEW ts, NEW us, NEW j, NEW i, NEW h, Follows(us, ts, j, i, h)
    PROVE  Rise(us, j, h) = Rise(ts, j, i)
<1>0. /\ j \in Int /\ i \in Int /\ h \in Int /\ i <= h
      /\ \A k \in j .. i - 1 : us[k] = ts[k]
      /\ \A k \in i .. h - 1 : k >= j => us[k].kind \notin Brackets
  BY DEF Follows
<1>1. ASSUME NEW kind \in Brackets
      PROVE  Of(us, kind, j, h) = Of(ts, kind, j, i)
  <2>1. ASSUME NEW k \in Of(us, kind, j, h)
        PROVE  k \in Of(ts, kind, j, i)
    <3>1. k \in j .. h - 1 /\ us[k].kind = kind
      BY DEF Of
    <3>2. ~(k \in i .. h - 1)
      BY <1>0, <3>1
    <3>3. k \in j .. i - 1
      BY <1>0, <3>1, <3>2
    <3> QED BY <1>0, <3>1, <3>3 DEF Of
  <2>2. ASSUME NEW k \in Of(ts, kind, j, i)
        PROVE  k \in Of(us, kind, j, h)
    <3>1. k \in j .. i - 1 /\ ts[k].kind = kind
      BY DEF Of
    <3>2. k \in j .. h - 1 /\ us[k].kind = kind
      BY <1>0, <3>1
    <3> QED BY <3>2 DEF Of
  <2> QED BY <2>1, <2>2
<1>2. "OPEN" \in Brackets /\ "CLOSE" \in Brackets
  BY DEF Brackets
<1> QED BY <1>1, <1>2 DEF Rise

LEMMA RiseNext ==
    ASSUME NEW ts, NEW j \in Int, NEW i \in Int, j <= i
    PROVE  /\ ts[i].kind = "OPEN" => Rise(ts, j, i + 1) = Rise(ts, j, i) + 1
           /\ ts[i].kind = "CLOSE" => Rise(ts, j, i + 1) = Rise(ts, j, i) - 1
<1>1. i \notin j .. i - 1 /\ j .. i + 1 - 1 = (j .. i - 1) \cup {i}
  OBVIOUS
<1>2. \A kind : /\ ts[i].kind = kind => Of(ts, kind, j, i + 1) = Of(ts, kind, j, i) \cup {i}
                /\ ts[i].kind # kind => Of(ts, kind, j, i + 1) = Of(ts, kind, j, i)
                /\ i \notin Of(ts, kind, j, i)
  BY <1>1 DEF Of
<1>3. \A kind : /\ IsFiniteSet(Of(ts, kind, j, i)) /\ Cardinality(Of(ts, kind, j, i)) \in Nat
                /\ Cardinality(Of(ts, kind, j, i) \cup {i}) = Cardinality(Of(ts, kind, j, i)) + 1
  BY <1>2, OfFinite, FS_AddElement
<1>4. CASE ts[i].kind = "OPEN"
  <2>1. Of(ts, "OPEN", j, i + 1) = Of(ts, "OPEN", j, i) \cup {i}
        /\ Of(ts, "CLOSE", j, i + 1) = Of(ts, "CLOSE", j, i)
    BY <1>2, <1>4
  <2> QED BY <1>3, <1>4, <2>1 DEF Rise
<1>5. CASE ts[i].kind = "CLOSE"
  <2>1. Of(ts, "CLOSE", j, i + 1) = Of(ts, "CLOSE", j, i) \cup {i}
        /\ Of(ts, "OPEN", j, i + 1) = Of(ts, "OPEN", j, i)
    BY <1>2, <1>5
  <2> QED BY <1>3, <1>5, <2>1 DEF Rise
<1> QED BY <1>4, <1>5
LEMMA BalanceStep ==
    ASSUME TypeOK, Balanced, NEW s, Turn(s)
    PROVE  Balanced'
<1> DEFINE n == Len(tokens)
           m == Len(s)
           d == paren_depth
           ts == tokens
           us == tokens'
<1>1. /\ n \in Nat /\ m \in Nat /\ DOMAIN s = 1 .. m /\ Len(us) = n + m
      /\ \A i \in 1 .. n : us[i] = ts[i]
      /\ \A i \in n + 1 .. n + m : i - n \in 1 .. m /\ us[i] = s[i - n]
  BY Grown
<1>2. /\ d \in Nat
      /\ \A j \in 1 .. n + 1 : Rise(ts, j, n + 1) <= d
      /\ \E j \in 1 .. n + 1 : Rise(ts, j, n + 1) = d
  BY DEF Balanced, TypeOK
<1>3. \/ d' = d /\ \A i \in DOMAIN s : s[i].kind \notin Brackets
      \/ \E t \in Pieces : /\ s = <<t>>
                           /\ \/ t.kind = "OPEN" /\ d' = d + 1
                              \/ t.kind = "CLOSE" /\ d' = Below
  BY DEF Turn, Counted
<1>4. \A j \in 1 .. n + 1 : j \in Int /\ Rise(ts, j, n + 1) \in Int
  <2>1. n + 1 \in Int
    BY <1>1
  <2>2. \A j \in 1 .. n + 1 : j \in Int
    BY <1>1
  <2> HIDE DEF ts, n
  <2> QED BY <2>1, <2>2, RiseType
<1> SUFFICES /\ \A j \in 1 .. n + m + 1 : Rise(us, j, n + m + 1) <= d'
             /\ \E j \in 1 .. n + m + 1 : Rise(us, j, n + m + 1) = d'
  BY <1>1 DEF Balanced, Rise, Of
<1>5. Below = IF d > 0 THEN d - 1 ELSE 0
  BY DEF Below
<1> HIDE DEF n, m, d, ts, us
<1>6. CASE d' = d /\ \A i \in DOMAIN s : s[i].kind \notin Brackets
  <2>1. ASSUME NEW k \in n + 1 .. n + m + 1 - 1
        PROVE  us[k].kind \notin Brackets
    <3>1. k \in n + 1 .. n + m
      BY <1>1
    <3> QED BY <1>1, <1>6, <3>1
  <2>2. ASSUME NEW j \in 1 .. n + 1
        PROVE  Rise(us, j, n + m + 1) = Rise(ts, j, n + 1)
    <3>1. j \in Int /\ n + 1 \in Int /\ n + m + 1 \in Int /\ n + 1 <= n + m + 1
      BY <1>1
    <3>2. \A k \in j .. n + 1 - 1 : us[k] = ts[k]
      BY <1>1
    <3>3. \A k \in n + 1 .. n + m + 1 - 1 : k >= j => us[k].kind \notin Brackets
      BY <2>1
    <3>4. Follows(us, ts, j, n + 1, n + m + 1)
      BY <1>1, <3>1, <3>2, <3>3 DEF Follows
    <3> QED BY <3>4, RiseSame
  <2>3. ASSUME NEW j \in n + 2 .. n + m + 1
        PROVE  Rise(us, j, n + m + 1) = 0
    <3>1. j \in Int /\ n + m + 1 \in Int /\ \A k \in j .. n + m + 1 - 1 : k \in n + 1 .. n + m + 1 - 1
      BY <1>1
    <3>2. Plain(us, j, n + m + 1)
      BY <1>1, <2>1, <3>1 DEF Plain
    <3> QED BY <3>2, RiseNone
  <2>4. \A j \in 1 .. n + m + 1 : j \in 1 .. n + 1 \/ j \in n + 2 .. n + m + 1
    BY <1>1
  <2>5. \A j \in 1 .. n + 1 : j \in 1 .. n + m + 1
    BY <1>1
  <2>6. 0 <= d'
    BY <1>2, <1>6
  <2>7. \A j \in 1 .. n + m + 1 : Rise(us, j, n + m + 1) <= d'
    BY <1>2, <1>6, <2>2, <2>3, <2>4, <2>6
  <2>8. \E j \in 1 .. n + m + 1 : Rise(us, j, n + m + 1) = d'
    BY <1>2, <1>6, <2>2, <2>5
  <2> QED BY <2>7, <2>8
<1>7. ASSUME NEW t \in Pieces, s = <<t>>,
             \/ t.kind = "OPEN" /\ d' = d + 1
             \/ t.kind = "CLOSE" /\ d' = Below
      PROVE  /\ \A j \in 1 .. n + m + 1 : Rise(us, j, n + m + 1) <= d'
             /\ \E j \in 1 .. n + m + 1 : Rise(us, j, n + m + 1) = d'
  <2>1. m = 1 /\ us[n + 1] = t /\ n + m + 1 = n + 1 + 1
    <3>1. m = 1 /\ s[1] = t
      BY <1>7 DEF m
    <3>2. n + 1 \in n + 1 .. n + m /\ n + 1 - n = 1 /\ n + m + 1 = n + 1 + 1
      BY <1>1, <3>1
    <3> QED BY <1>1, <3>1, <3>2
  <2>2. ASSUME NEW j \in 1 .. n + 1
        PROVE  /\ Rise(us, j, n + 1) = Rise(ts, j, n + 1)
               /\ us[n + 1].kind = "OPEN" => Rise(us, j, n + 1 + 1) = Rise(us, j, n + 1) + 1
               /\ us[n + 1].kind = "CLOSE" => Rise(us, j, n + 1 + 1) = Rise(us, j, n + 1) - 1
    <3>1. j \in Int /\ n + 1 \in Int /\ n + 1 <= n + 1 /\ j <= n + 1
      BY <1>1
    <3>2. (\A k \in j .. n + 1 - 1 : us[k] = ts[k]) /\ n + 1 .. n + 1 - 1 = {}
      BY <1>1
    <3>3. Follows(us, ts, j, n + 1, n + 1)
      BY <1>1, <3>1, <3>2 DEF Follows
    <3>4. Rise(us, j, n + 1) = Rise(ts, j, n + 1)
      BY <3>3, RiseSame
    <3> QED BY <3>1, <3>4, RiseNext
  <2>3. Rise(us, n + 2, n + 1 + 1) = 0
    <3>1. n + 2 \in Int /\ n + 1 + 1 \in Int /\ n + 2 .. n + 1 + 1 - 1 = {}
      BY <1>1
    <3>2. Plain(us, n + 2, n + 1 + 1)
      BY <1>1, <3>1 DEF Plain
    <3> QED BY <3>2, RiseNone
  <2>4. \A j \in 1 .. n + m + 1 : j \in 1 .. n + 1 \/ j = n + 2
    BY <1>1, <2>1
  <2>5. n + 2 \in 1 .. n + m + 1 /\ \A j \in 1 .. n + 1 : j \in 1 .. n + m + 1
    BY <1>1, <2>1
  <2>6. CASE t.kind = "OPEN" /\ d' = d + 1
    <3>1. \A j \in 1 .. n + 1 : Rise(us, j, n + m + 1) = Rise(ts, j, n + 1) + 1
      BY <2>1, <2>2, <2>6
    <3>2. Rise(us, n + 2, n + m + 1) = 0 /\ 0 <= d'
      BY <1>2, <2>1, <2>3, <2>6
    <3>3. \A x \in Int : x <= d => x + 1 <= d'
      BY <1>2, <2>6
    <3>4. \A j \in 1 .. n + m + 1 : Rise(us, j, n + m + 1) <= d'
      BY <1>2, <1>4, <2>4, <3>1, <3>2, <3>3
    <3>5. \E j \in 1 .. n + m + 1 : Rise(us, j, n + m + 1) = d'
      BY <1>2, <2>5, <2>6, <3>1
    <3> QED BY <3>4, <3>5
  <2>7. CASE t.kind = "CLOSE" /\ d' = Below
    <3>1. \A j \in 1 .. n + 1 : Rise(us, j, n + m + 1) = Rise(ts, j, n + 1) - 1
      BY <2>1, <2>2, <2>7
    <3>2. Rise(us, n + 2, n + m + 1) = 0 /\ 0 <= d'
      BY <1>2, <1>5, <2>1, <2>3, <2>7
    <3>3. \A x \in Int : x <= d => x - 1 <= d'
      BY <1>2, <1>5, <2>7
    <3>4. \A j \in 1 .. n + m + 1 : Rise(us, j, n + m + 1) <= d'
      BY <1>2, <1>4, <2>4, <3>1, <3>2, <3>3
    <3>5. CASE d = 0
      BY <1>5, <2>5, <2>7, <3>2, <3>4, <3>5
    <3>6. CASE d # 0
      <4>1. d' = d - 1
        BY <1>2, <1>5, <2>7, <3>6
      <4>2. \E j \in 1 .. n + m + 1 : Rise(us, j, n + m + 1) = d'
        BY <1>2, <2>5, <3>1, <4>1
      <4> QED BY <3>4, <4>2
    <3> QED BY <3>5, <3>6
  <2> QED BY <1>7, <2>6, <2>7
<1> QED BY <1>3, <1>6, <1>7

LEMMA FlatStep ==
    ASSUME TypeOK, Balanced, Flat, NEW s, Turn(s)
    PROVE  Flat'
<1> DEFINE n == Len(tokens)
           m == Len(s)
           ts == tokens
           us == tokens'
<1>1. /\ n \in Nat /\ m \in Nat /\ DOMAIN s = 1 .. m /\ DOMAIN ts = 1 .. n
      /\ DOMAIN us = 1 .. n + m
      /\ \A i \in 1 .. n : us[i] = ts[i]
      /\ \A i \in n + 1 .. n + m : i - n \in 1 .. m /\ us[i] = s[i - n]
  BY Grown
<1>2. \A j \in 1 .. n + 1 : Rise(ts, j, n + 1) <= paren_depth
  BY DEF Balanced
<1>3. Layout(s) /\ src' = src
  BY DEF Turn
<1>4. \A i \in 1 .. n : us[i].kind \in LayoutKinds /\ us[i].from <= Len(src) =>
                           \A j \in 1 .. i : Rise(ts, j, i) <= 0
  BY <1>1 DEF Flat
<1>5. \/ \A i \in DOMAIN s : s[i].kind \notin Brackets
      \/ \A i \in DOMAIN s : s[i].kind \in Brackets
  BY DEF Turn, Counted, Brackets
<1>6. \A b \in Brackets : b \notin LayoutKinds
  BY DEF Brackets, LayoutKinds
<1> SUFFICES ASSUME NEW i \in 1 .. n + m, us[i].kind \in LayoutKinds, us[i].from <= Len(src),
                    NEW j \in 1 .. i
             PROVE  Rise(us, j, i) <= 0
  BY <1>1, <1>3 DEF Flat, Rise, Of
<1>7. Len(src) \in Nat /\ paren_depth \in Nat
  BY Text DEF TypeOK
<1> HIDE DEF n, m, ts, us
<1>8. i \in Int /\ j \in Int /\ i >= 1 /\ j >= 1 /\ j <= i
  BY <1>1
<1>9. CASE i <= n
  <2>1. i \in 1 .. n
    BY <1>8, <1>9
  <2>2. \A k \in j .. i - 1 : us[k] = ts[k]
    BY <1>1, <1>8, <1>9
  <2>3. i <= i /\ i .. i - 1 = {}
    BY <1>8
  <2>4. Follows(us, ts, j, i, i)
    BY <1>8, <2>2, <2>3 DEF Follows
  <2>5. Rise(us, j, i) = Rise(ts, j, i)
    BY <2>4, RiseSame
  <2> QED BY <1>4, <2>1, <2>5
<1>10. CASE i > n
  <2>1. i \in n + 1 .. n + m
    BY <1>1, <1>8, <1>10
  <2>2. i - n \in DOMAIN s /\ us[i] = s[i - n]
    BY <1>1, <2>1
  <2>3. paren_depth = 0 /\ s[i - n].from \in Nat
    <3>1. s[i - n] \in Pieces
      BY <2>2, Grown
    <3>2. s[i - n].from \in Nat
      BY <3>1 DEF Pieces
    <3> QED BY <1>3, <1>7, <2>2, <3>2 DEF Layout
  <2>4. \A k \in DOMAIN s : s[k].kind \notin Brackets
    BY <1>5, <1>6, <2>2
  <2>5. ASSUME NEW k \in n + 1 .. i - 1
        PROVE  us[k].kind \notin Brackets
    <3>1. k \in n + 1 .. n + m
      BY <1>1, <2>1
    <3> QED BY <1>1, <2>4, <3>1
  <2>6. CASE j <= n + 1
    <3>1. \A k \in j .. n + 1 - 1 : us[k] = ts[k]
      BY <1>1, <1>8
    <3>2. n + 1 \in Int /\ n + 1 <= i /\ j \in 1 .. n + 1
      BY <1>1, <1>8, <1>10, <2>6
    <3>3. \A k \in n + 1 .. i - 1 : k >= j => us[k].kind \notin Brackets
      BY <2>5
    <3>4. Follows(us, ts, j, n + 1, i)
      BY <1>1, <1>8, <3>1, <3>2, <3>3 DEF Follows
    <3>5. Rise(us, j, i) = Rise(ts, j, n + 1)
      BY <3>4, RiseSame
    <3> QED BY <1>2, <2>3, <3>2, <3>5
  <2>7. CASE j > n + 1
    <3>1. \A k \in j .. i - 1 : k \in n + 1 .. i - 1
      BY <1>1, <1>8, <2>7
    <3>2. Plain(us, j, i)
      BY <1>8, <2>5, <3>1 DEF Plain
    <3>3. Rise(us, j, i) = 0
      BY <3>2, RiseNone
    <3> QED BY <3>3
  <2> QED BY <1>1, <1>8, <2>6, <2>7
<1> QED BY <1>1, <1>8, <1>9, <1>10
-----------------------------------------------------------------------------
(***************************************************************************)
(* The words are classified.                                               *)
(***************************************************************************)
Classified == \A i \in DOMAIN tokens : Told(tokens[i])

LEMMA WordStep ==
    ASSUME TypeOK, Classified, NEW s, Turn(s)
    PROVE  Classified'
<1>1. (\A i \in DOMAIN s : Told(s[i])) /\ src' = src
  BY DEF Turn
<1>2. ASSUME NEW i \in DOMAIN tokens'
      PROVE  Told(tokens'[i])
  <2>1. \/ i \in DOMAIN tokens /\ tokens'[i] = tokens[i]
        \/ i - Len(tokens) \in DOMAIN s /\ tokens'[i] = s[i - Len(tokens)]
    BY Grown
  <2> QED BY <1>1, <2>1 DEF Classified
<1>3. \A t : Told(t)' <=> Told(t)
  BY <1>1 DEF Told, Word
<1> QED BY <1>2, <1>3 DEF Classified
-----------------------------------------------------------------------------
LexerIInv == TypeOK /\ InPlace /\ Balanced /\ Flat /\ Classified

LEMMA LexerInit == Init => LexerIInv
<1> SUFFICES ASSUME Init PROVE LexerIInv
  OBVIOUS
<1>1. TypeOK /\ InPlace
  BY TypeInit
<1>2. tokens = <<>> /\ paren_depth = 0 /\ Len(tokens) = 0 /\ DOMAIN tokens = {}
  BY DEF Init, InitScan
<1>3. Rise(tokens, 1, 1) = 0
  <2>1. Plain(tokens, 1, 1)
    BY DEF Plain
  <2> QED BY <2>1, RiseNone
<1>4. Balanced
  BY <1>2, <1>3 DEF Balanced
<1>5. Flat /\ Classified
  BY <1>2 DEF Flat, Classified
<1> QED BY <1>1, <1>4, <1>5 DEF LexerIInv

LEMMA LexerStep == LexerIInv /\ [Next]_vars => LexerIInv'
<1> SUFFICES ASSUME LexerIInv, [Next]_vars PROVE LexerIInv'
  OBVIOUS
<1>1. TypeOK /\ InPlace /\ Balanced /\ Flat /\ Classified
  BY DEF LexerIInv
<1>2. CASE Next
  <2>1. PICK s : Turn(s)
    BY <1>1, <1>2, EveryTurn
  <2>2. TypeOK' /\ InPlace' /\ Balanced' /\ Flat' /\ Classified'
    BY <1>1, <2>1, TypeStep, PlaceStep, BalanceStep, FlatStep, WordStep
  <2> QED BY <2>2 DEF LexerIInv
<1>3. CASE UNCHANGED vars
  <2>1. TypeOK'
    BY <1>1, <1>3 DEF TypeOK, vars
  <2>2. InPlace'
    BY <1>1, <1>3 DEF InPlace, Held, Passed, InComment, vars
  <2>3. Balanced'
    BY <1>1, <1>3 DEF Balanced, Rise, Of, vars
  <2>4. Flat'
    BY <1>1, <1>3 DEF Flat, vars
  <2>5. Classified'
    BY <1>1, <1>3 DEF Classified, Told, Word, vars
  <2> QED BY <2>1, <2>2, <2>3, <2>4, <2>5 DEF LexerIInv
<1> QED BY <1>2, <1>3

\* At every turn of tokenize's loop the tokens are in place and paren_depth is
\* what the brackets among them make it.
THEOREM LexerInvariant == Spec => []LexerIInv
BY LexerInit, LexerStep, PTL DEF Spec

\* While a bracket is open no NEWLINE, INDENT or DEDENT is made: paren_depth
\* always is the greatest number of brackets opened and not closed since any
\* place in the tokens, so a closing bracket too many is forgotten.
THEOREM BracketsHide == Spec => []BracketsHideLines
<1>1. LexerIInv => BracketsHideLines
  <2> SUFFICES ASSUME LexerIInv, NEW i \in DOMAIN tokens,
                      tokens[i].kind \in LayoutKinds, tokens[i].from <= Len(src)
               PROVE  Level(i) = 0
    BY DEF BracketsHideLines
  <2>1. i \in Nat /\ i >= 1 /\ i \in 1 .. i
    BY DEF LexerIInv, TypeOK
  <2>2. \A j \in 1 .. i : Rise(tokens, j, i) <= 0
    BY DEF LexerIInv, Flat
  <2>3. Rise(tokens, i, i) = 0
    <3>1. Plain(tokens, i, i)
      BY <2>1 DEF Plain
    <3> QED BY <3>1, RiseNone
  <2> DEFINE S == {Rise(tokens, j, i) : j \in 1 .. i}
  <2>4. Level(i) = Max(S)
    BY DEF Level, Rise, Of
  <2>5. 0 \in S /\ \A x \in S : x \in Int /\ 0 >= x
    BY <2>1, <2>2, <2>3, RiseType
  <2> HIDE DEF S
  <2>6. \A x \in S : (\A y \in S : x >= y) => x = 0
    BY <2>5
  <2> QED BY <2>4, <2>5, <2>6 DEF Max
<1> QED BY <1>1, LexerInvariant, PTL

\* No character of the program is lost: the tokens come in the order of their
\* characters and do not share one, and what lies between them are blanks, line
\* breaks, comments, backslashes and the last character of `**=`.
THEOREM EverythingRead == Spec => []NothingSwallowed
<1>1. LexerIInv => NothingSwallowed
  <2> SUFFICES ASSUME LexerIInv PROVE NothingSwallowed
    OBVIOUS
  <2> DEFINE covered == UNION {tokens[i].from .. tokens[i].to : i \in DOMAIN tokens}
  <2>1. \A p \in 1 .. pos - 1 : Held(tokens, p) \/ Passed(p)
    BY DEF LexerIInv, InPlace
  <2>2. \A p : Held(tokens, p) => p \in covered
    BY DEF Held
  <2>3. \A i \in 2 .. Len(tokens) : tokens[i - 1].to < tokens[i].from
    BY DEF LexerIInv, InPlace
  <2> HIDE DEF covered
  <2>4. \A p \in 1 .. pos - 1 :
              \/ p \in covered
              \/ src[p] \in Blank \cup {"\n", "\r", "\\"}
              \/ InComment(p)
              \/ p > 2 /\ SubSeq(src, p - 2, p) = <<"*", "*", "=">>
    BY <2>1, <2>2 DEF Passed
  <2> QED BY <2>3, <2>4 DEF NothingSwallowed, covered
<1> QED BY <1>1, LexerInvariant, PTL

-----------------------------------------------------------------------------
(***************************************************************************)
(* What _try_classify_number takes for a number is what LANGUAGE.md does.  *)
(***************************************************************************)
\* Before m every character is in S, and m is not or is past the end.
StopsAt(w, i, S, m) == /\ m \in i .. Len(w) + 1
                       /\ \A k \in i .. m - 1 : w[k] \in S
                       /\ m <= Len(w) => w[m] \notin S

\* The scan along a word stops at the first character that is not in S.
LEMMA AfterInStops ==
    ASSUME NEW w \in Seq(Chars), NEW S, NEW i \in 1 .. Len(w) + 1
    PROVE  StopsAt(w, i, S, AfterIn(w, i, S))
<1> DEFINE n == Len(w)
           Stops == {j \in i .. n + 1 : j > n \/ w[j] \notin S}
           a == Min(Stops)
<1>1. n \in Nat /\ i \in Nat /\ i <= n + 1
  BY SMT
<1> HIDE DEF n
<1>2. Stops \subseteq Nat /\ n + 1 \in Stops
  BY <1>1
<1>3. a \in Stops /\ \A y \in Stops : a <= y
  <2> HIDE DEF Stops
  <2> QED BY <1>2, MinIsIn
<1>4. a = AfterIn(w, i, S)
  BY DEF AfterIn, n
<1> HIDE DEF a
<1>5. a \in i .. n + 1 /\ (a <= n => w[a] \notin S) /\ a \in Int
  BY <1>1, <1>3
<1>6. ASSUME NEW k \in i .. a - 1
      PROVE  w[k] \in S
  <2>1. k \in i .. n + 1 /\ ~(k > n) /\ ~(a <= k)
    BY <1>1, <1>5
  <2>2. k \notin Stops
    <3> HIDE DEF Stops
    <3> QED BY <1>3, <2>1
  <2> QED BY <2>1, <2>2
<1> QED BY <1>4, <1>5, <1>6 DEF StopsAt, n

LEMMA AfterInIs ==
    ASSUME NEW w \in Seq(Chars), NEW S, NEW i \in 1 .. Len(w) + 1, NEW m,
           StopsAt(w, i, S, m)
    PROVE  AfterIn(w, i, S) = m
<1> DEFINE n == Len(w)
           a == AfterIn(w, i, S)
<1>1. n \in Nat /\ i \in Int /\ m \in Int /\ i <= m /\ m <= n + 1
  BY DEF StopsAt
<1>0. (\A k \in i .. m - 1 : w[k] \in S) /\ (m <= n => w[m] \notin S)
  BY DEF StopsAt
<1>2. /\ a \in i .. n + 1
      /\ \A k \in i .. a - 1 : w[k] \in S
      /\ a <= n => w[a] \notin S
  BY AfterInStops DEF StopsAt
<1> HIDE DEF n, a
<1>3. a \in Int /\ i <= a /\ a <= n + 1
  BY <1>1, <1>2
<1>4. ASSUME a < m PROVE FALSE
  <2>1. a \in i .. m - 1 /\ a <= n
    BY <1>1, <1>3, <1>4
  <2> QED BY <1>0, <1>2, <2>1
<1>5. ASSUME m < a PROVE FALSE
  <2>1. m \in i .. a - 1 /\ m <= n
    BY <1>1, <1>3, <1>5
  <2> QED BY <1>0, <1>2, <2>1
<1>6. a = m
  <2>1. a < m \/ m < a \/ a = m
    BY <1>1, <1>3
  <2> QED BY <1>4, <1>5, <2>1
<1> QED BY <1>6 DEF a

\* What may follow the digits: nothing, or an exponent.
Sign(w, j) == j < Len(w) /\ w[j + 1] \in {"+", "-"}
ExponentFrom(w, j) == IF Sign(w, j) THEN j + 1 ELSE j
Rest(w, j) ==
    LET k == ExponentFrom(w, j)
        n == IF j <= Len(w) /\ w[j] = "e" THEN AfterIn(w, k + 1, DigitRun) ELSE j
    IN  /\ j <= Len(w) /\ w[j] = "e" => HasDigit(w, k + 1, n - 1)
        /\ n = Len(w) + 1

LEMMA NotDigits ==
    /\ Digits \subseteq DigitRun
    /\ \A c \in {"e", ".", "x", "o", "b", "+", "-"} : c \notin DigitRun
    /\ DigitRun \ {"8"} = {"0", "1", "_"}
BY DEF DigitRun, Digits

LEMMA RestForm ==
    ASSUME NEW w \in Seq(Chars), NEW j \in 1 .. Len(w) + 1
    PROVE  Rest(w, j) <=> j = Len(w) + 1 \/ ExponentAt(w, j)
<1> DEFINE n == Len(w)
           k == ExponentFrom(w, j)
           a == AfterIn(w, k + 1, DigitRun)
<1>1. n \in Nat /\ j \in Nat /\ 1 <= j /\ j <= n + 1
  BY SMT
<1>2. CASE ~(j <= n /\ w[j] = "e")
  <2>1. Rest(w, j) <=> j = n + 1
    BY <1>2 DEF Rest
  <2>2. ~ExponentAt(w, j)
    <3> HIDE DEF n
    <3>1. j < n => j <= n
      BY <1>1
    <3> QED BY <1>2, <3>1 DEF ExponentAt, n
  <2> QED BY <2>1, <2>2
<1>3. CASE j <= n /\ w[j] = "e"
  <2>1. Rest(w, j) <=> HasDigit(w, k + 1, a - 1) /\ a = n + 1
    BY <1>3 DEF Rest
  <2>2. k \in Nat /\ (k = j \/ (k = j + 1 /\ j < n))
    <3>1. CASE Sign(w, j)
      <4>1. k = j + 1 /\ j < n
        BY <3>1 DEF ExponentFrom, Sign
      <4> QED BY <1>1, <4>1
    <3>2. CASE ~Sign(w, j)
      <4>1. k = j
        BY <3>2 DEF ExponentFrom
      <4> QED BY <1>1, <4>1
    <3> QED BY <3>1, <3>2
  <2>3. (k = j + 1 <=> Sign(w, j)) /\ (k = j <=> ~Sign(w, j))
    <3>1. j + 1 # j
      BY <1>1
    <3> QED BY <3>1 DEF ExponentFrom
  <2> HIDE DEF k, n
  <2>4. k + 1 \in 1 .. n + 1
    BY <1>1, <1>3, <2>2
  <2>5. ASSUME Run(w, k + 1, n)
        PROVE  Rest(w, j)
    <3> DEFINE m == n + 1
    <3>1. m \in k + 1 .. m /\ m - 1 = n /\ ~(m <= n)
      BY <1>1, <2>4
    <3>4. k + 1 \in 1 .. m
      BY <2>4
    <3>2. (\A i \in k + 1 .. m - 1 : w[i] \in DigitRun) /\ HasDigit(w, k + 1, m - 1)
      BY <2>5, <3>1 DEF Run
    <3>3. StopsAt(w, k + 1, DigitRun, m)
      BY <3>1, <3>2 DEF StopsAt, n
    <3>5. a = m
      BY <3>3, <3>4, AfterInIs DEF n
    <3> QED BY <2>1, <3>2, <3>5
  <2>6. ASSUME Rest(w, j)
        PROVE  Run(w, k + 1, n)
    <3>1. a = n + 1 /\ HasDigit(w, k + 1, a - 1) /\ a - 1 = n
      BY <1>1, <2>1, <2>6
    <3>2. \A i \in k + 1 .. a - 1 : w[i] \in DigitRun
      BY <2>4, AfterInStops DEF StopsAt, n
    <3> QED BY <3>1, <3>2 DEF Run
  <2>7. Run(w, k + 1, n) => j < n
    <3> SUFFICES ASSUME Run(w, k + 1, n) PROVE j < n
      OBVIOUS
    <3>1. PICK i \in k + 1 .. n : w[i] \in Digits
      BY DEF Run, HasDigit
    <3> QED BY <1>1, <2>2, <3>1
  <2>8. CASE Sign(w, j)
    <3>1. k + 1 = j + 2 /\ w[j + 1] \in {"+", "-"} /\ j < n
      BY <1>1, <2>3, <2>8 DEF Sign, n
    <3>2. ~Run(w, j + 1, n)
      <4>1. j + 1 \in j + 1 .. n
        BY <1>1, <3>1
      <4> QED BY <3>1, <4>1, NotDigits DEF Run
    <3>3. ExponentAt(w, j) <=> Run(w, k + 1, n)
      BY <1>3, <3>1, <3>2 DEF ExponentAt, n
    <3> QED BY <1>1, <1>3, <2>5, <2>6, <3>3 DEF n
  <2>9. CASE ~Sign(w, j)
    <3>1. k + 1 = j + 1
      BY <2>3, <2>9
    <3>2. ExponentAt(w, j) <=> j < n /\ Run(w, k + 1, n)
      BY <1>3, <2>9, <3>1 DEF ExponentAt, Sign, n
    <3> QED BY <1>1, <1>3, <2>5, <2>6, <2>7, <3>2 DEF n
  <2> QED BY <2>8, <2>9
<1> QED BY <1>2, <1>3

\* The dot, if one follows the first run of digits, begins a fraction.
DotAt(w, i) == i <= Len(w) /\ w[i] = "."
WholeEnd(w) == AfterIn(w, 1, DigitRun)
FractionEnd(w) == IF DotAt(w, WholeEnd(w)) THEN AfterIn(w, WholeEnd(w) + 1, DigitRun)
                  ELSE WholeEnd(w)

LEMMA DecimalIs ==
    ASSUME NEW w
    PROVE  IsDecimal(w) <=>
              /\ DotAt(w, WholeEnd(w)) => HasDigit(w, WholeEnd(w) + 1, FractionEnd(w) - 1)
              /\ Rest(w, FractionEnd(w))
<1> DEFINE i == WholeEnd(w)
           j == FractionEnd(w)
           k == ExponentFrom(w, j)
           n == IF j <= Len(w) /\ w[j] = "e" THEN AfterIn(w, k + 1, DigitRun) ELSE j
<1>1. /\ i = AfterIn(w, 1, DigitRun)
      /\ j = IF i <= Len(w) /\ w[i] = "." THEN AfterIn(w, i + 1, DigitRun) ELSE i
      /\ k = IF j < Len(w) /\ w[j + 1] \in {"+", "-"} THEN j + 1 ELSE j
  BY DEF WholeEnd, FractionEnd, DotAt, ExponentFrom, Sign
<1>2. n = IF j <= Len(w) /\ w[j] = "e" THEN AfterIn(w, k + 1, DigitRun) ELSE j
  OBVIOUS
<1>3. /\ DotAt(w, i) <=> i <= Len(w) /\ w[i] = "."
      /\ Rest(w, j) <=> /\ j <= Len(w) /\ w[j] = "e" => HasDigit(w, k + 1, n - 1)
                        /\ n = Len(w) + 1
  BY DEF DotAt, Rest
<1> HIDE DEF i, j, k, n
<1>4. IsDecimal(w) <=>
         /\ i <= Len(w) /\ w[i] = "." => HasDigit(w, i + 1, j - 1)
         /\ j <= Len(w) /\ w[j] = "e" => HasDigit(w, k + 1, n - 1)
         /\ n = Len(w) + 1
  <2> DEFINE J(a) == IF a <= Len(w) /\ w[a] = "." THEN AfterIn(w, a + 1, DigitRun) ELSE a
             K(b) == IF b < Len(w) /\ w[b + 1] \in {"+", "-"} THEN b + 1 ELSE b
             E(b, c) == IF b <= Len(w) /\ w[b] = "e" THEN AfterIn(w, c + 1, DigitRun) ELSE b
             All(a, b, c, d) ==
                 /\ a <= Len(w) /\ w[a] = "." => HasDigit(w, a + 1, b - 1)
                 /\ b <= Len(w) /\ w[b] = "e" => HasDigit(w, c + 1, d - 1)
                 /\ d = Len(w) + 1
  <2>1. IsDecimal(w) <=>
           \E a \in {AfterIn(w, 1, DigitRun)} : \E b \in {J(a)} : \E c \in {K(b)} :
               \E d \in {E(b, c)} : All(a, b, c, d)
    BY DEF IsDecimal
  <2>2. i = AfterIn(w, 1, DigitRun) /\ j = J(i) /\ k = K(j) /\ n = E(j, k)
    BY <1>1, <1>2
  <2> HIDE DEF J, K, E
  <2>3. IsDecimal(w) <=> All(i, j, k, n)
    BY <2>1, <2>2, Zenon
  <2> QED BY <2>3
<1> QED BY <1>3, <1>4 DEF i, j

\* A number that is not in another base, as in LANGUAGE.md.
DecimalForm(w) ==
    \/ Run(w, 1, Len(w))
    \/ \E j \in 2 .. Len(w) : Run(w, 1, j - 1) /\ ExponentAt(w, j)
    \/ \E d \in 2 .. Len(w) - 1 :
          /\ w[d] = "." /\ Run(w, 1, d - 1)
          /\ \/ Run(w, d + 1, Len(w))
             \/ \E j \in d + 2 .. Len(w) : Run(w, d + 1, j - 1) /\ ExponentAt(w, j)

LEMMA DecimalIsForm ==
    ASSUME NEW w \in Seq(Chars), w # <<>>, w[1] \in Digits, IsDecimal(w)
    PROVE  DecimalForm(w)
<1> DEFINE n == Len(w)
           i == WholeEnd(w)
           j == FractionEnd(w)
<1>1. n \in Nat /\ 1 \in 1 .. n + 1 /\ n >= 1
  BY EmptySeq
<1>2. StopsAt(w, 1, DigitRun, i)
  BY <1>1, AfterInStops DEF WholeEnd
<1>3. /\ DotAt(w, i) => HasDigit(w, i + 1, j - 1)
      /\ Rest(w, j)
  BY DecimalIs
<1>4. j = IF DotAt(w, i) THEN AfterIn(w, i + 1, DigitRun) ELSE i
  BY DEF FractionEnd
<1> HIDE DEF i, j
<1>5. i \in Int /\ 1 <= i /\ i <= n + 1 /\ i # 1
  <2>1. i \in 1 .. n + 1 /\ (i <= n => w[i] \notin DigitRun)
    BY <1>2 DEF StopsAt
  <2>2. w[1] \in DigitRun
    BY NotDigits
  <2> QED BY <1>1, <2>1, <2>2
<1>6. Run(w, 1, i - 1)
  <2>1. \A k \in 1 .. i - 1 : w[k] \in DigitRun
    BY <1>2 DEF StopsAt
  <2>2. 1 \in 1 .. i - 1
    BY <1>5
  <2> QED BY <2>1, <2>2 DEF Run, HasDigit
<1> HIDE DEF n
<1>7. CASE ~DotAt(w, i)
  <2>1. j = i /\ i \in 1 .. n + 1
    BY <1>1, <1>4, <1>5, <1>7
  <2>2. i = n + 1 \/ ExponentAt(w, i)
    BY <1>3, <2>1, RestForm DEF n
  <2>3. CASE i = n + 1
    <3>1. i - 1 = n
      BY <1>1, <2>3
    <3> QED BY <1>6, <3>1 DEF DecimalForm, n
  <2>4. CASE ExponentAt(w, i)
    <3>1. i < n
      BY <2>4 DEF ExponentAt, n
    <3>2. i \in 2 .. n
      BY <1>1, <1>5, <3>1
    <3> QED BY <1>6, <2>4, <3>2 DEF DecimalForm, n
  <2> QED BY <2>2, <2>3, <2>4
<1>8. CASE DotAt(w, i)
  <2>1. i <= n /\ w[i] = "." /\ j = AfterIn(w, i + 1, DigitRun) /\ HasDigit(w, i + 1, j - 1)
    BY <1>3, <1>4, <1>8 DEF DotAt, n
  <2>2. i + 1 \in 1 .. n + 1
    BY <1>1, <1>5, <2>1
  <2>3. StopsAt(w, i + 1, DigitRun, j)
    BY <2>1, <2>2, AfterInStops DEF n
  <2>4. j \in i + 1 .. n + 1 /\ Run(w, i + 1, j - 1)
    BY <2>1, <2>3 DEF StopsAt, Run, n
  <2>5. PICK k \in i + 1 .. j - 1 : w[k] \in Digits
    BY <2>1 DEF HasDigit
  <2>6. i \in 2 .. n - 1 /\ j \in i + 2 .. n + 1 /\ j \in 1 .. n + 1
    BY <1>1, <1>5, <2>4, <2>5
  <2>7. j = n + 1 \/ ExponentAt(w, j)
    BY <1>3, <2>6, RestForm DEF n
  <2>8. Run(w, i + 1, n) \/ \E m \in i + 2 .. n : Run(w, i + 1, m - 1) /\ ExponentAt(w, m)
    <3>1. CASE j = n + 1
      <4>1. j - 1 = n
        BY <1>1, <3>1
      <4> QED BY <2>4, <4>1
    <3>2. CASE ExponentAt(w, j)
      <4>1. j < n
        BY <3>2 DEF ExponentAt, n
      <4>2. j \in i + 2 .. n
        BY <1>1, <2>6, <4>1
      <4> QED BY <2>4, <3>2, <4>2
    <3> QED BY <2>7, <3>1, <3>2
  <2> QED BY <1>6, <2>1, <2>6, <2>8 DEF DecimalForm, n
<1> QED BY <1>7, <1>8

LEMMA RunStops ==
    ASSUME NEW w \in Seq(Chars), NEW i \in 1 .. Len(w), NEW m \in i .. Len(w) + 1,
           Run(w, i, m - 1), m <= Len(w) => w[m] \in {"e", "."}
    PROVE  AfterIn(w, i, DigitRun) = m
<1>1. i \in 1 .. Len(w) + 1
  OBVIOUS
<1>2. StopsAt(w, i, DigitRun, m)
  BY NotDigits DEF StopsAt, Run
<1> QED BY <1>1, <1>2, AfterInIs

LEMMA FormIsDecimal ==
    ASSUME NEW w \in Seq(Chars), w # <<>>, DecimalForm(w)
    PROVE  IsDecimal(w)
<1> DEFINE n == Len(w)
           i == WholeEnd(w)
           j == FractionEnd(w)
<1>1. n \in Nat /\ 1 \in 1 .. n /\ n >= 1
  BY EmptySeq
<1>2. i = AfterIn(w, 1, DigitRun) /\ j = IF DotAt(w, i) THEN AfterIn(w, i + 1, DigitRun) ELSE i
  BY DEF WholeEnd, FractionEnd
<1>3. SUFFICES /\ DotAt(w, i) => HasDigit(w, i + 1, j - 1)
               /\ Rest(w, j)
  BY DecimalIs
<1> HIDE DEF n, i, j
<1>4. ASSUME NEW m \in 1 .. n, ExponentAt(w, m)
      PROVE  w[m] = "e" /\ Rest(w, m)
  <2>1. m \in 1 .. n + 1
    BY <1>1
  <2> QED BY <1>4, <2>1, RestForm DEF ExponentAt, n
<1>5. Rest(w, n + 1)
  <2>1. n + 1 \in 1 .. n + 1
    BY <1>1
  <2> QED BY <2>1, RestForm DEF n
<1>6. CASE Run(w, 1, n)
  <2>1. n + 1 - 1 = n /\ n + 1 \in 1 .. n + 1 /\ ~(n + 1 <= n)
    BY <1>1
  <2>2. i = n + 1
    BY <1>1, <1>2, <1>6, <2>1, RunStops DEF n
  <2>3. ~DotAt(w, i)
    BY <2>1, <2>2 DEF DotAt, n
  <2> QED BY <1>2, <1>5, <2>2, <2>3
<1>7. ASSUME NEW m \in 2 .. n, Run(w, 1, m - 1), ExponentAt(w, m)
      PROVE  ~DotAt(w, i) /\ Rest(w, j)
  <2>1. m \in 1 .. n + 1 /\ m \in 1 .. n
    BY <1>1
  <2>2. w[m] = "e" /\ Rest(w, m)
    BY <1>4, <1>7, <2>1
  <2>3. i = m
    BY <1>1, <1>2, <1>7, <2>1, <2>2, RunStops DEF n
  <2>4. ~DotAt(w, i)
    BY <2>2, <2>3 DEF DotAt
  <2> QED BY <1>2, <2>2, <2>3, <2>4
<1>8. ASSUME NEW d \in 2 .. n - 1, w[d] = ".", Run(w, 1, d - 1),
             \/ Run(w, d + 1, n)
             \/ \E m \in d + 2 .. n : Run(w, d + 1, m - 1) /\ ExponentAt(w, m)
      PROVE  HasDigit(w, i + 1, j - 1) /\ Rest(w, j)
  <2>1. d \in 1 .. n + 1 /\ d <= n /\ d + 1 \in 1 .. n
    BY <1>1
  <2>2. i = d
    BY <1>1, <1>2, <1>8, <2>1, RunStops DEF n
  <2>3. j = AfterIn(w, d + 1, DigitRun)
    BY <1>2, <1>8, <2>1, <2>2 DEF DotAt, n
  <2>4. PICK m \in d + 1 .. n + 1 : Run(w, d + 1, m - 1) /\ Rest(w, m) /\ (m <= n => w[m] = "e")
    <3>1. CASE Run(w, d + 1, n)
      <4>1. n + 1 \in d + 1 .. n + 1
        BY <1>1, <2>1
      <4>2. PICK m \in d + 1 .. n + 1 : m = n + 1
        BY <4>1
      <4>3. \A x \in Nat : \A y : y = x + 1 => y - 1 = x /\ ~(y <= x)
        BY ONLY TRUE
      <4>4. m - 1 = n /\ ~(m <= n)
        BY <1>1, <4>2, <4>3, Zenon
      <4> QED BY <1>5, <3>1, <4>2, <4>4
    <3>2. ASSUME NEW m \in d + 2 .. n, Run(w, d + 1, m - 1), ExponentAt(w, m)
          PROVE  m \in d + 1 .. n + 1 /\ w[m] = "e" /\ Rest(w, m)
      <4>1. m \in d + 1 .. n + 1 /\ m \in 1 .. n
        BY <1>1, <2>1
      <4> QED BY <1>4, <3>2, <4>1
    <3> QED BY <1>8, <3>1, <3>2
  <2>5. j = m
    BY <2>1, <2>3, <2>4, RunStops DEF n
  <2> QED BY <2>2, <2>4, <2>5 DEF Run
<1> QED BY <1>6, <1>7, <1>8 DEF DecimalForm, n

BaseForm(w) ==
    \E b \in {<<"x", DigitRun \cup HexLetters>>, <<"b", {"0", "1", "_"}>>,
              <<"o", {"0", "1", "_"}>>} :
       InBase(w, b[1], b[2]) /\ \E k \in 3 .. Len(w) : w[k] # "_"

LEMMA NumberIsForm ==
    ASSUME NEW w \in Seq(Chars), w # <<>>, w[1] \in Digits
    PROVE  IsNumber(w) <=> NumberForm(w)
<1> DEFINE based == Len(w) >= 3 /\ w[1] = "0" /\ w[2] \in {"x", "b", "o"}
<1>1. NumberForm(w) <=> BaseForm(w) \/ DecimalForm(w)
  BY DEF NumberForm, BaseForm, DecimalForm
<1>2. BaseForm(w) <=> /\ \/ InBase(w, "x", DigitRun \cup HexLetters)
                         \/ InBase(w, "b", {"0", "1", "_"})
                         \/ InBase(w, "o", DigitRun \ {"8"})
                      /\ \E k \in 3 .. Len(w) : w[k] # "_"
  <2> DEFINE x == <<"x", DigitRun \cup HexLetters>>
             b == <<"b", {"0", "1", "_"}>>
             o == <<"o", {"0", "1", "_"}>>
  <2>1. /\ x[1] = "x" /\ x[2] = DigitRun \cup HexLetters
        /\ b[1] = "b" /\ b[2] = {"0", "1", "_"}
        /\ o[1] = "o" /\ o[2] = DigitRun \ {"8"}
    BY NotDigits
  <2>2. BaseForm(w) <=> \E f \in {x, b, o} :
                           InBase(w, f[1], f[2]) /\ \E k \in 3 .. Len(w) : w[k] # "_"
    BY DEF BaseForm
  <2> HIDE DEF x, b, o
  <2> QED BY <2>1, <2>2
<1>3. IsNumber(w) <=> IF based THEN BaseForm(w) ELSE IsDecimal(w)
  BY <1>2 DEF IsNumber
<1>4. BaseForm(w) => based
  BY <1>2 DEF InBase
<1>5. ASSUME based
      PROVE  ~DecimalForm(w)
  <2>0. w[2] \in {"x", "b", "o"} /\ Len(w) \in Nat /\ Len(w) >= 3
    BY <1>5
  <2>1. Len(w) \in Nat /\ Len(w) >= 3 /\ w[2] \notin DigitRun /\ w[2] # "." /\ w[2] # "e"
    BY <2>0, NotDigits, Zenon
  <2>2. \A i, j \in Int : Run(w, i, j) => ~(2 \in i .. j)
    BY <2>1 DEF Run
  <2> HIDE DEF based
  <2>3. ~Run(w, 1, Len(w))
    <3>1. 2 \in 1 .. Len(w)
      BY <2>1
    <3> QED BY <2>1, <2>2, <3>1
  <2>4. ASSUME NEW j \in 2 .. Len(w), Run(w, 1, j - 1), w[j] \in {"e", "."}
        PROVE  FALSE
    <3>1. j \in Int /\ j # 2 /\ j - 1 \in Int /\ 2 \in 1 .. j - 1
      BY <2>1, <2>4
    <3> QED BY <2>2, <2>4, <3>1
  <2>5. \A d \in 2 .. Len(w) - 1 : d \in 2 .. Len(w)
    BY <2>1
  <2> QED BY <2>3, <2>4, <2>5 DEF DecimalForm, ExponentAt
<1> QED BY <1>1, <1>3, <1>4, <1>5, DecimalIsForm, FormIsDecimal

\* A word that begins with a digit is made a NUMBER exactly if it has one of
\* the forms LANGUAGE.md lists, wherever it stands and whatever its length.
THEOREM NumbersDocumented == Spec => []NumbersAsDocumented
<1>1. LexerIInv => NumbersAsDocumented
  <2> SUFFICES ASSUME LexerIInv, NEW i \in DOMAIN tokens,
                      tokens[i].kind \in Words, src[tokens[i].from] \in Digits
               PROVE  tokens[i].kind = "NUMBER" <=> NumberForm(Word(tokens[i]))
    BY DEF NumbersAsDocumented, Words
  <2> DEFINE from == tokens[i].from
             to == tokens[i].to
             w == Word(tokens[i])
  <2>1. /\ from \in DOMAIN src /\ to \in from .. Len(src)
        /\ tokens[i].kind = "NUMBER" <=> IsNumber(w)
    BY DEF LexerIInv, Classified, Told
  <2>2. src \in Seq(Chars)
    BY DEF LexerIInv, TypeOK
  <2>3. w = SubSeq(src, from, to)
    BY DEF Word
  <2> HIDE DEF from, to, w
  <2>4. from \in 1 .. Len(src) + 1 /\ to \in from - 1 .. Len(src) /\ from <= to
    BY <2>1, <2>2
  <2>5. w \in Seq(Chars) /\ Len(w) = to - from + 1 /\ w[1] = src[from]
    <3>1. \A k \in from .. to : src[k] \in Chars
      BY <2>2, <2>4
    <3>2. from \in Int /\ to \in Int /\ 1 \in 1 .. to - from + 1 /\ from + 1 - 1 = from
      BY <2>4
    <3> QED BY <2>3, <2>4, <3>1, <3>2, SubSeqProperties
  <2>6. w # <<>>
    <3>1. to - from + 1 # 0
      BY <2>4
    <3> QED BY <2>5, <3>1, EmptySeq
  <2> QED BY <2>1, <2>5, <2>6, NumberIsForm DEF from, w
<1> QED BY <1>1, LexerInvariant, PTL

-----------------------------------------------------------------------------
(***************************************************************************)
(* The lines of a list of tokens, told from the tokens alone.  wd says how *)
(* wide the line is that begins at a place of the text.                    *)
(***************************************************************************)
\* The j-th token is the last before place i that is no INDENT or DEDENT.
IsPrior(ts, i, j) ==
    /\ j \in 0 .. i - 1
    /\ j > 0 => ts[j].kind \notin BlockMarks
    /\ \A k \in j + 1 .. i - 1 : ts[k].kind \in BlockMarks
Prior(ts, i) == CHOOSE j \in 0 .. i - 1 :
                   /\ j > 0 => ts[j].kind \notin BlockMarks
                   /\ \A k \in j + 1 .. i - 1 : ts[k].kind \in BlockMarks

\* The tokens that begin a line; the end of the text is a line of width 0.
Leads(ts, i) == /\ ts[i].kind \notin LayoutKinds
                /\ Prior(ts, i) = 0 \/ ts[Prior(ts, i)].kind = "NEWLINE"
Heads(ts) == {i \in 1 .. Len(ts) : Leads(ts, i) \/ ts[i].kind = "EOF"}
LineBegin(ts, m) == IF m = 0 THEN 1 ELSE ts[m].to + 1
WidthOf(ts, wd, i) == IF ts[i].kind = "EOF" THEN 0 ELSE wd[LineBegin(ts, Prior(ts, i))]
Widths(ts, wd) == [i \in Heads(ts) |-> WidthOf(ts, wd, i)]

Among(ts, kind, i) == {j \in 1 .. i : ts[j].kind = kind}
Count(ts, kind, i) == Cardinality(Among(ts, kind, i))
BlocksAt(ts, i) == Count(ts, "INDENT", i) - Count(ts, "DEDENT", i)

LEMMA PriorIs ==
    ASSUME NEW ts, NEW i \in Nat, NEW j, IsPrior(ts, i, j)
    PROVE  Prior(ts, i) = j
<1>1. j \in 0 .. i - 1
  BY DEF IsPrior
<1>2. ASSUME NEW h \in 0 .. i - 1, IsPrior(ts, i, h) PROVE h = j
  <2>1. ~(j < h)
    <3> SUFFICES ASSUME j < h PROVE FALSE
      OBVIOUS
    <3>1. h \in j + 1 .. i - 1 /\ h > 0
      BY <1>1
    <3> QED BY <1>2, <3>1 DEF IsPrior
  <2>2. ~(h < j)
    <3> SUFFICES ASSUME h < j PROVE FALSE
      OBVIOUS
    <3>1. j \in h + 1 .. i - 1 /\ j > 0
      BY <1>1
    <3> QED BY <1>2, <3>1 DEF IsPrior
  <2> QED BY <1>1, <2>1, <2>2
<1>3. Prior(ts, i) = CHOOSE h \in 0 .. i - 1 : IsPrior(ts, i, h)
  BY DEF Prior, IsPrior
<1> QED BY <1>1, <1>2, <1>3

LEMMA HasPrior ==
    ASSUME NEW ts, NEW i \in Nat \ {0}
    PROVE  IsPrior(ts, i, Prior(ts, i))
<1> DEFINE S == {j \in 1 .. i - 1 : ts[j].kind \notin BlockMarks}
<1>1. CASE S = {}
  <2>1. IsPrior(ts, i, 0)
    BY <1>1 DEF IsPrior
  <2> QED BY <2>1, PriorIs
<1>2. CASE S # {}
  <2> DEFINE m == Max(S)
  <2>1. i - 1 \in Nat /\ S \subseteq 1 .. i - 1
    OBVIOUS
  <2>2. m \in S /\ \A x \in S : x <= m
    BY <1>2, <2>1, MaxIsMost
  <2> HIDE DEF m
  <2>3. m \in 1 .. i - 1 /\ ts[m].kind \notin BlockMarks
    BY <2>2
  <2>4. ASSUME NEW k \in m + 1 .. i - 1 PROVE ts[k].kind \in BlockMarks
    <3>1. k \in 1 .. i - 1 /\ ~(k <= m)
      BY <2>3
    <3> QED BY <2>2, <3>1
  <2>5. IsPrior(ts, i, m)
    BY <2>3, <2>4 DEF IsPrior
  <2> QED BY <2>5, PriorIs
<1> QED BY <1>1, <1>2

LEMMA SamePrior ==
    ASSUME NEW ts, NEW us, NEW i \in Nat \ {0}, \A k \in 1 .. i - 1 : us[k] = ts[k]
    PROVE  Prior(us, i) = Prior(ts, i)
<1> DEFINE m == Prior(ts, i)
<1>1. IsPrior(ts, i, m)
  BY HasPrior
<1> HIDE DEF m
<1>2. /\ m \in 0 .. i - 1
      /\ m > 0 => m \in 1 .. i - 1
      /\ \A k \in m + 1 .. i - 1 : k \in 1 .. i - 1
  BY <1>1 DEF IsPrior
<1>3. IsPrior(us, i, m)
  BY <1>1, <1>2 DEF IsPrior
<1> QED BY <1>3, PriorIs DEF m

\* us begins with ts.
Longer(us, ts) == /\ us \in Seq(Pieces) /\ ts \in Seq(Pieces) /\ Len(ts) <= Len(us)
                  /\ \A i \in 1 .. Len(ts) : us[i] = ts[i]

LEMMA HeadsKept ==
    ASSUME NEW us, NEW ts, Longer(us, ts), NEW wd
    PROVE  /\ \A i \in 1 .. Len(ts) : /\ i \in Heads(us) <=> i \in Heads(ts)
                                      /\ WidthOf(us, wd, i) = WidthOf(ts, wd, i)
           /\ Heads(ts) \subseteq Heads(us) /\ Heads(ts) \subseteq 1 .. Len(ts)
           /\ \A i \in Heads(us) : i \in Nat /\ (i <= Len(ts) => i \in Heads(ts))
<1>1. Len(ts) \in Nat /\ Len(us) \in Nat /\ Len(ts) <= Len(us)
  BY DEF Longer
<1>2. ASSUME NEW i \in 1 .. Len(ts)
      PROVE  /\ i \in Heads(us) <=> i \in Heads(ts)
             /\ WidthOf(us, wd, i) = WidthOf(ts, wd, i)
  <2> DEFINE m == Prior(ts, i)
  <2>1. i \in Nat \ {0} /\ i \in 1 .. Len(us) /\ us[i] = ts[i]
        /\ \A k \in 1 .. i - 1 : us[k] = ts[k]
    BY <1>1 DEF Longer
  <2>2. Prior(us, i) = m
    BY <2>1, SamePrior
  <2>3. IsPrior(ts, i, m)
    BY <2>1, HasPrior
  <2> HIDE DEF m
  <2>4. m = 0 \/ us[m] = ts[m]
    BY <2>1, <2>3 DEF IsPrior
  <2> QED BY <2>1, <2>2, <2>4 DEF Heads, Leads, WidthOf, LineBegin, m
<1>3. Heads(ts) \subseteq 1 .. Len(ts)
  BY DEF Heads
<1>4. \A i \in Heads(us) : i \in 1 .. Len(us)
  BY DEF Heads
<1> QED BY <1>1, <1>2, <1>3, <1>4

LEMMA AmongFinite ==
    ASSUME NEW ts, NEW kind, NEW i \in Int
    PROVE  IsFiniteSet(Among(ts, kind, i)) /\ Count(ts, kind, i) \in Nat
<1>1. IsFiniteSet(1 .. i)
  BY FS_Interval
<1>2. Among(ts, kind, i) \subseteq 1 .. i
  BY DEF Among
<1>3. IsFiniteSet(Among(ts, kind, i))
  BY <1>1, <1>2, FS_Subset
<1> QED BY <1>3, FS_CardinalityType DEF Count

LEMMA CountKept ==
    ASSUME NEW us, NEW ts, Longer(us, ts), NEW i \in 0 .. Len(ts)
    PROVE  /\ \A kind : Count(us, kind, i) = Count(ts, kind, i)
           /\ BlocksAt(us, i) = BlocksAt(ts, i)
<1>1. ASSUME NEW kind PROVE Count(us, kind, i) = Count(ts, kind, i)
  <2>1. \A j \in 1 .. i : us[j] = ts[j]
    BY DEF Longer
  <2>2. Among(us, kind, i) = Among(ts, kind, i)
    BY <2>1 DEF Among
  <2> QED BY <2>2 DEF Count
<1> QED BY <1>1 DEF BlocksAt

LEMMA CountNext ==
    ASSUME NEW ts, NEW kind, NEW i \in Nat
    PROVE  /\ Count(ts, kind, i) \in Nat /\ Count(ts, kind, 0) = 0
           /\ Count(ts, kind, i + 1) =
                 Count(ts, kind, i) + (IF ts[i + 1].kind = kind THEN 1 ELSE 0)
<1>1. IsFiniteSet(Among(ts, kind, i)) /\ Count(ts, kind, i) \in Nat
  BY AmongFinite
<1>2. Count(ts, kind, 0) = 0
  <2>1. Among(ts, kind, 0) = {}
    BY DEF Among
  <2> QED BY <2>1, FS_EmptySet DEF Count
<1>3. CASE ts[i + 1].kind = kind
  <2>1. Among(ts, kind, i + 1) = Among(ts, kind, i) \cup {i + 1} /\ i + 1 \notin Among(ts, kind, i)
    <3>1. \A j : j \in 1 .. i + 1 <=> j \in 1 .. i \/ j = i + 1
      OBVIOUS
    <3>2. i + 1 \notin 1 .. i
      OBVIOUS
    <3> QED BY <1>3, <3>1, <3>2 DEF Among
  <2>2. Cardinality(Among(ts, kind, i) \cup {i + 1}) = Cardinality(Among(ts, kind, i)) + 1
    BY <1>1, <2>1, FS_AddElement
  <2> QED BY <1>1, <1>2, <1>3, <2>1, <2>2 DEF Count
<1>4. CASE ts[i + 1].kind # kind
  <2>1. Among(ts, kind, i + 1) = Among(ts, kind, i)
    <3>1. \A j : j \in 1 .. i + 1 <=> j \in 1 .. i \/ j = i + 1
      OBVIOUS
    <3> QED BY <1>4, <3>1 DEF Among
  <2>2. Count(ts, kind, i + 1) = Count(ts, kind, i)
    BY <2>1 DEF Count
  <2> QED BY <1>1, <1>2, <1>4, <2>2
<1> QED BY <1>3, <1>4

-----------------------------------------------------------------------------
(***************************************************************************)
(* The blocks that are open: what a line more does to them, and to the     *)
(* stack.                                                                  *)
(***************************************************************************)
LEMMA OpenMember ==
    ASSUME NEW w, NEW i, NEW x
    PROVE  x \in OpenAt(w, i) <=>
              \/ x = 0
              \/ \E j \in DOMAIN w : /\ j <= i /\ x = w[j]
                                     /\ \A k \in DOMAIN w : j <= k /\ k <= i => w[k] >= w[j]
BY DEF OpenAt

\* The same lines up to i as up to h.
SameLines(w, i, v, h) ==
    /\ DOMAIN w \subseteq Nat /\ DOMAIN v \subseteq Nat
    /\ \A j : (j \in DOMAIN v /\ j <= h) <=> (j \in DOMAIN w /\ j <= i)
    /\ \A j \in DOMAIN w : j <= i => v[j] = w[j]

LEMMA OpenSame ==
    ASSUME NEW w, NEW v, NEW i \in Nat, NEW h \in Nat, SameLines(w, i, v, h)
    PROVE  OpenAt(v, h) = OpenAt(w, i)
<1>1. ASSUME NEW x \in OpenAt(v, h) PROVE x \in OpenAt(w, i)
  <2>1. CASE x = 0
    BY <2>1, OpenMember
  <2>2. CASE x # 0
    <3>1. PICK j \in DOMAIN v : /\ j <= h /\ x = v[j]
                                /\ \A k \in DOMAIN v : j <= k /\ k <= h => v[k] >= v[j]
      BY <2>2, OpenMember
    <3>2. j \in DOMAIN w /\ j <= i /\ x = w[j]
      BY <3>1 DEF SameLines
    <3>3. ASSUME NEW k \in DOMAIN w, j <= k, k <= i PROVE w[k] >= w[j]
      <4>1. k \in DOMAIN v /\ k <= h /\ v[k] = w[k] /\ v[j] = w[j]
        BY <3>2, <3>3 DEF SameLines
      <4> QED BY <3>1, <3>3, <4>1
    <3> QED BY <3>2, <3>3, OpenMember
  <2> QED BY <2>1, <2>2
<1>2. ASSUME NEW x \in OpenAt(w, i) PROVE x \in OpenAt(v, h)
  <2>1. CASE x = 0
    BY <2>1, OpenMember
  <2>2. CASE x # 0
    <3>1. PICK j \in DOMAIN w : /\ j <= i /\ x = w[j]
                                /\ \A k \in DOMAIN w : j <= k /\ k <= i => w[k] >= w[j]
      BY <2>2, OpenMember
    <3>2. j \in DOMAIN v /\ j <= h /\ x = v[j]
      BY <3>1 DEF SameLines
    <3>3. ASSUME NEW k \in DOMAIN v, j <= k, k <= h PROVE v[k] >= v[j]
      <4>1. k \in DOMAIN w /\ k <= i /\ v[k] = w[k] /\ v[j] = w[j]
        BY <3>1, <3>3 DEF SameLines
      <4> QED BY <3>1, <3>3, <4>1
    <3> QED BY <3>2, <3>3, OpenMember
  <2> QED BY <2>1, <2>2
<1> QED BY <1>1, <1>2

\* One line more, of width m.
OneMore(w, n, v, i) ==
    /\ DOMAIN w \subseteq Nat /\ DOMAIN v \subseteq Nat /\ n < i /\ i \in DOMAIN v
    /\ \A j : (j \in DOMAIN v /\ j <= i) <=> (j \in DOMAIN w /\ j <= n) \/ j = i
    /\ \A j \in DOMAIN w : j <= n => v[j] = w[j]
    /\ \A j \in DOMAIN v : v[j] \in Nat
Shallow(S, m) == {x \in S : x <= m} \cup {m}

LEMMA OpenNext ==
    ASSUME NEW w, NEW v, NEW n \in Nat, NEW i \in Nat, OneMore(w, n, v, i)
    PROVE  OpenAt(v, i) = Shallow(OpenAt(w, n), v[i])
<1>0. v[i] \in Nat /\ i \in DOMAIN v
  BY DEF OneMore
<1>1. ASSUME NEW x \in OpenAt(v, i) PROVE x \in Shallow(OpenAt(w, n), v[i])
  <2>1. CASE x = 0
    <3>1. x \in OpenAt(w, n) /\ x <= v[i]
      BY <1>0, <2>1, OpenMember
    <3> QED BY <3>1 DEF Shallow
  <2>2. CASE x # 0
    <3>1. PICK j \in DOMAIN v : /\ j <= i /\ x = v[j]
                                /\ \A k \in DOMAIN v : j <= k /\ k <= i => v[k] >= v[j]
      BY <2>2, OpenMember
    <3>2. CASE j = i
      BY <3>1, <3>2 DEF Shallow
    <3>3. CASE j # i
      <4>1. j \in DOMAIN w /\ j <= n /\ x = w[j] /\ i \in Nat /\ j \in Nat
        BY <3>1, <3>3 DEF OneMore
      <4>2. v[i] >= v[j]
        BY <1>0, <3>1, <4>1
      <4>3. v[j] \in Nat
        BY DEF OneMore
      <4>4. ASSUME NEW k \in DOMAIN w, j <= k, k <= n PROVE w[k] >= w[j]
        <5>1. k \in DOMAIN v /\ k <= i /\ v[k] = w[k] /\ v[j] = w[j]
          BY <4>1, <4>4 DEF OneMore
        <5> QED BY <3>1, <4>4, <5>1
      <4>5. x \in OpenAt(w, n)
        BY <4>1, <4>4, OpenMember
      <4>6. x <= v[i]
        BY <1>0, <3>1, <4>2, <4>3
      <4> QED BY <4>5, <4>6 DEF Shallow
    <3> QED BY <3>2, <3>3
  <2> QED BY <2>1, <2>2
<1>2. v[i] \in OpenAt(v, i)
  <2>1. ASSUME NEW k \in DOMAIN v, i <= k, k <= i PROVE v[k] >= v[i]
    <3>1. k = i
      BY <2>1 DEF OneMore
    <3> QED BY <1>0, <3>1
  <2>2. i <= i
    OBVIOUS
  <2> QED BY <1>0, <2>1, <2>2, OpenMember
<1>3. ASSUME NEW x \in OpenAt(w, n), x <= v[i] PROVE x \in OpenAt(v, i)
  <2>1. CASE x = 0
    BY <2>1, OpenMember
  <2>2. CASE x # 0
    <3>1. PICK j \in DOMAIN w : /\ j <= n /\ x = w[j]
                                /\ \A k \in DOMAIN w : j <= k /\ k <= n => w[k] >= w[j]
      BY <2>2, OpenMember
    <3>2. j \in DOMAIN v /\ j <= i /\ x = v[j]
      BY <3>1 DEF OneMore
    <3>3. ASSUME NEW k \in DOMAIN v, j <= k, k <= i PROVE v[k] >= v[j]
      <4>1. CASE k = i
        BY <1>0, <1>3, <3>2, <4>1 DEF OneMore
      <4>2. CASE k # i
        <5>1. k \in DOMAIN w /\ k <= n /\ v[k] = w[k] /\ v[j] = w[j]
          BY <3>1, <3>3, <4>2 DEF OneMore
        <5> QED BY <3>1, <3>3, <5>1
      <4> QED BY <4>1, <4>2
    <3> QED BY <3>2, <3>3, OpenMember
  <2> QED BY <2>1, <2>2
<1> QED BY <1>1, <1>2, <1>3 DEF Shallow

-----------------------------------------------------------------------------
\* The widths on the stack rise from 0.
Rising(st) == /\ st \in Seq(Nat) /\ st # <<>> /\ st[1] = 0
              /\ \A i, j \in DOMAIN st : i < j => st[i] < st[j]

LEMMA RisingShape ==
    ASSUME NEW st, Rising(st)
    PROVE  /\ Len(st) \in Nat \ {0} /\ DOMAIN st = 1 .. Len(st)
           /\ \A i \in 1 .. Len(st) : st[i] \in Nat
           /\ Last(st) = st[Len(st)] /\ Last(st) \in Nat /\ Last(st) \in Range(st)
           /\ Cardinality(Range(st)) = Len(st)
           /\ \A x \in Range(st) : x \in Nat /\ x <= Last(st)
<1> DEFINE n == Len(st)
<1>1. n \in Nat \ {0} /\ DOMAIN st = 1 .. n /\ \A i \in 1 .. n : st[i] \in Nat
  BY EmptySeq DEF Rising
<1>2. Last(st) = st[n] /\ n \in 1 .. n
  BY <1>1 DEF Last
<1>3. Last(st) \in Range(st) /\ Last(st) \in Nat
  BY <1>1, <1>2 DEF Range
<1> HIDE DEF n
<1>4. ASSUME NEW x \in Range(st) PROVE x \in Nat /\ x <= Last(st)
  <2>1. PICK i \in 1 .. n : x = st[i]
    BY <1>1 DEF Range
  <2>2. CASE i = n
    BY <1>1, <1>2, <2>1, <2>2
  <2>3. CASE i # n
    <3>0. i < n
      BY <1>1, <2>3
    <3>1. i < n /\ st[i] \in Nat /\ st[n] \in Nat
      BY <1>1, <1>2, <3>0
    <3>2. st[i] < st[n]
      BY <1>1, <1>2, <3>1 DEF Rising
    <3> QED BY <1>2, <2>1, <3>1, <3>2
  <2> QED BY <2>2, <2>3
<1>5. Cardinality(Range(st)) = n
  <2>1. st \in [1 .. n -> Range(st)]
    <3>1. st = [i \in 1 .. n |-> st[i]]
      BY <1>1 DEF Rising
    <3>2. \A i \in 1 .. n : st[i] \in Range(st)
      BY <1>1 DEF Range
    <3> QED BY <3>1, <3>2
  <2>2. \A i, j \in 1 .. n : st[i] = st[j] => i = j
    <3> SUFFICES ASSUME NEW i \in 1 .. n, NEW j \in 1 .. n, st[i] = st[j] PROVE i = j
      OBVIOUS
    <3>1. ~(i < j) /\ ~(j < i)
      <4>1. st[i] \in Nat /\ st[j] \in Nat
        BY <1>1
      <4> QED BY <1>1, <4>1 DEF Rising
    <3> QED BY <3>1
  <2>3. \A x \in Range(st) : \E i \in 1 .. n : st[i] = x
    BY <1>1 DEF Range
  <2>4. st \in Bijection(1 .. n, Range(st))
    BY <2>1, <2>2, <2>3 DEF Bijection, Injection, Surjection, IsInjective
  <2>5. ExistsBijection(1 .. n, Range(st))
    BY <2>4 DEF ExistsBijection
  <2>6. 1 \in Int /\ n \in Int /\ ~(1 > n)
    BY <1>1
  <2>7. IsFiniteSet(1 .. n) /\ Cardinality(1 .. n) = n
    BY <2>6, FS_Interval
  <2> QED BY <2>5, <2>7, FS_Bijection
<1> QED BY <1>1, <1>2, <1>3, <1>4, <1>5 DEF n

LEMMA RisingAppend ==
    ASSUME NEW st, Rising(st), NEW m \in Nat, m > Last(st)
    PROVE  /\ Rising(Append(st, m)) /\ Len(Append(st, m)) = Len(st) + 1
           /\ Last(Append(st, m)) = m /\ Range(Append(st, m)) = Range(st) \cup {m}
<1> DEFINE n == Len(st)
           u == Append(st, m)
<1>1. /\ n \in Nat \ {0} /\ DOMAIN st = 1 .. n /\ \A i \in 1 .. n : st[i] \in Nat
      /\ st \in Seq(Nat)
      /\ \A x \in Range(st) : x \in Nat /\ x <= Last(st)
      /\ Last(st) \in Nat
  BY RisingShape DEF Rising
<1>2. /\ u \in Seq(Nat) /\ u # <<>> /\ Len(u) = n + 1
      /\ \A i \in 1 .. n : u[i] = st[i]
      /\ u[n + 1] = m
  BY <1>1, AppendProperties
<1>3. DOMAIN u = 1 .. n + 1
  BY <1>2
<1> HIDE DEF u, n
<1>4. \A i \in 1 .. n : st[i] < m /\ st[i] \in Range(st)
  <2> TAKE i \in 1 .. n
  <2>1. st[i] \in Range(st)
    BY <1>1 DEF Range
  <2> QED BY <1>1, <2>1
<1>5. \A i, j \in DOMAIN u : i < j => u[i] < u[j]
  <2> SUFFICES ASSUME NEW i \in DOMAIN u, NEW j \in DOMAIN u, i < j PROVE u[i] < u[j]
    OBVIOUS
  <2>1. i \in 1 .. n /\ (j \in 1 .. n \/ j = n + 1)
    BY <1>1, <1>3
  <2>2. CASE j \in 1 .. n
    BY <1>1, <1>2, <2>1, <2>2 DEF Rising
  <2>3. CASE j = n + 1
    BY <1>2, <1>4, <2>1, <2>3
  <2> QED BY <2>1, <2>2, <2>3
<1>6. u[1] = 0
  <2>1. 1 \in 1 .. n
    BY <1>1
  <2> QED BY <1>2, <2>1 DEF Rising
<1>7. Rising(u)
  BY <1>2, <1>5, <1>6 DEF Rising
<1>8. Range(u) = Range(st) \cup {m}
  <2>1. \A i : i \in 1 .. n + 1 <=> i \in 1 .. n \/ i = n + 1
    BY <1>1
  <2> QED BY <1>1, <1>2, <1>3, <2>1 DEF Range
<1>9. Last(u) = m
  BY <1>2 DEF Last
<1> QED BY <1>2, <1>7, <1>8, <1>9 DEF u, n

\* What is kept of the stack after a line indented by m.
LEMMA KeptRising ==
    ASSUME Rising(indent_stack), NEW m \in Nat
    PROVE  /\ Rising(Kept(m)) /\ Len(Kept(m)) <= Len(indent_stack)
           /\ Range(Kept(m)) = {x \in Range(indent_stack) : x <= m}
           /\ MatchesOpen(m) <=> m \in Range(indent_stack)
<1> DEFINE st == indent_stack
           n == Len(st)
           S == {i \in DOMAIN st : st[i] <= m}
           e == Max(S)
           u == Kept(m)
<1>1. /\ n \in Nat \ {0} /\ DOMAIN st = 1 .. n /\ \A i \in 1 .. n : st[i] \in Nat
      /\ st \in Seq(Nat) /\ st[1] = 0
      /\ \A i, j \in 1 .. n : i < j => st[i] < st[j]
  BY RisingShape DEF Rising
<1>2. u = SubSeq(st, 1, e)
  BY DEF Kept
<1> HIDE DEF n, st, u
<1>3. e \in S /\ \A x \in S : x <= e
  <2>1. 1 \in S /\ S \subseteq 1 .. n
    BY <1>1
  <2>2. n \in Nat
    BY <1>1
  <2> QED BY <2>1, <2>2, MaxIsMost
<1>4. e \in 1 .. n /\ st[e] <= m /\ \A i \in 1 .. n : st[i] <= m => i <= e
  BY <1>1, <1>3
<1> HIDE DEF e
<1>5. /\ u \in Seq(Nat) /\ Len(u) = e
      /\ \A i \in 1 .. e : u[i] = st[i]
  <2>1. \A i \in 1 .. e : st[i] \in Nat
    BY <1>1, <1>4
  <2>2. 1 \in Int /\ e \in Int /\ 1 <= e /\ e - 1 + 1 = e /\ \A i \in 1 .. e : 1 + i - 1 = i
    BY <1>4
  <2>3. /\ SubSeq(st, 1, e) \in Seq(Nat)
        /\ Len(SubSeq(st, 1, e)) = IF 1 <= e THEN e - 1 + 1 ELSE 0
        /\ \A i \in 1 .. e - 1 + 1 : SubSeq(st, 1, e)[i] = st[1 + i - 1]
    BY <2>1, <2>2, SubSeqProperties
  <2> QED BY <1>2, <2>2, <2>3
<1>6. DOMAIN u = 1 .. e /\ \A i \in 1 .. e : i \in 1 .. n
  BY <1>1, <1>4, <1>5
<1>7. Rising(u)
  <2>1. \A i, j \in 1 .. e : i < j => u[i] < u[j]
    BY <1>1, <1>5, <1>6
  <2>2. 1 \in 1 .. e
    BY <1>4
  <2>3. u[1] = 0 /\ u # <<>>
    <3>1. Len(u) # 0
      BY <1>4, <1>5
    <3> QED BY <1>1, <1>5, <2>2, <3>1, EmptySeq
  <2> QED BY <1>5, <1>6, <2>1, <2>3 DEF Rising
<1>8. Range(u) = {x \in Range(st) : x <= m}
  <2>1. ASSUME NEW i \in 1 .. e PROVE u[i] \in Range(st) /\ u[i] <= m
    <3>1. u[i] = st[i] /\ i \in 1 .. n
      BY <1>5, <1>6
    <3>2. st[i] <= st[e]
      <4>1. i = e \/ i < e
        BY <1>4
      <4>2. st[i] \in Nat /\ st[e] \in Nat
        BY <1>1, <1>4, <3>1
      <4> QED BY <1>1, <1>4, <3>1, <4>1, <4>2
    <3>3. st[i] \in Nat /\ st[e] \in Nat
      BY <1>1, <1>4, <3>1
    <3> QED BY <1>1, <1>4, <3>1, <3>2, <3>3 DEF Range
  <2>2. ASSUME NEW x \in Range(st), x <= m PROVE x \in Range(u)
    <3>1. PICK i \in 1 .. n : x = st[i]
      BY <1>1 DEF Range
    <3>2. i \in 1 .. e
      BY <1>4, <2>2, <3>1
    <3> QED BY <1>5, <1>6, <3>1, <3>2 DEF Range
  <2> QED BY <1>6, <2>1, <2>2 DEF Range
<1>9. Last(u) = m <=> m \in Range(st)
  <2>1. Last(u) = u[e]
    BY <1>5 DEF Last
  <2>2. /\ Last(u) \in Range(u)
        /\ \A x \in Range(u) : x \in Nat /\ x <= Last(u)
    BY <1>7, RisingShape
  <2>3. ASSUME m \in Range(st) PROVE Last(u) = m
    <3>1. m \in Range(u)
      BY <1>8, <2>3
    <3>2. m <= Last(u) /\ Last(u) <= m /\ Last(u) \in Nat
      BY <1>8, <2>2, <3>1
    <3> QED BY <3>2
  <2> QED BY <1>8, <2>2, <2>3
<1>10. Len(u) <= n
  BY <1>4, <1>5
<1> QED BY <1>7, <1>8, <1>9, <1>10 DEF u, st, n, MatchesOpen

-----------------------------------------------------------------------------
(***************************************************************************)
(* Tokens are added to the end; the lines there were stay as they are.     *)
(***************************************************************************)
\* j is the last line begun before place i, or 0.
LastHead(ts, j, i) == /\ j \in Heads(ts) \cup {0} /\ j < i
                      /\ \A k \in Heads(ts) : k < i => k <= j

\* From j to i one block is opened if that is deeper, none if it is not.
OneBlock(ts, depth, i, j) ==
    Count(ts, "INDENT", i) - Count(ts, "INDENT", j) = (IF depth > BlocksAt(ts, j) THEN 1 ELSE 0)

\* Line i is in the blocks it should be in.
Placed(ts, wd, i) ==
    /\ WidthOf(ts, wd, i) \in Nat
    /\ BlocksAt(ts, i) = Cardinality(OpenAt(Widths(ts, wd), i)) - 1
    /\ \A j : LastHead(ts, j, i) => OneBlock(ts, BlocksAt(ts, i), i, j)
Accounted(ts, wd) == \A i \in Heads(ts) : Placed(ts, wd, i)

LEMMA WidthsKept ==
    ASSUME NEW us, NEW ts, Longer(us, ts), NEW wd, NEW i \in 0 .. Len(ts)
    PROVE  SameLines(Widths(ts, wd), i, Widths(us, wd), i)
<1>1. /\ \A j \in 1 .. Len(ts) : /\ j \in Heads(us) <=> j \in Heads(ts)
                                 /\ WidthOf(us, wd, j) = WidthOf(ts, wd, j)
      /\ Heads(ts) \subseteq Heads(us) /\ Heads(ts) \subseteq 1 .. Len(ts)
      /\ \A j \in Heads(us) : j \in Nat /\ (j <= Len(ts) => j \in Heads(ts))
  BY HeadsKept
<1>2. /\ DOMAIN Widths(ts, wd) = Heads(ts) /\ DOMAIN Widths(us, wd) = Heads(us)
      /\ \A j \in Heads(ts) : Widths(ts, wd)[j] = WidthOf(ts, wd, j)
      /\ \A j \in Heads(us) : Widths(us, wd)[j] = WidthOf(us, wd, j)
  BY DEF Widths
<1>3. \A j \in Heads(us) : j <= i => j \in Heads(ts)
  <2> TAKE j \in Heads(us)
  <2>1. Len(ts) \in Nat
    BY DEF Longer
  <2>2. j \in Nat
    BY <1>1
  <2>3. j <= i => j <= Len(ts)
    BY <2>1, <2>2
  <2> QED BY <1>1, <2>3
<1>4. \A j \in Heads(ts) : j \in Nat
  BY <1>1
<1> QED BY <1>1, <1>2, <1>3, <1>4 DEF SameLines

LEMMA LastHeadKept ==
    ASSUME NEW us, NEW ts, Longer(us, ts), NEW i \in 1 .. Len(ts) + 1, NEW j
    PROVE  LastHead(us, j, i) => LastHead(ts, j, i) /\ j \in 0 .. Len(ts) /\ j < i
<1> SUFFICES ASSUME LastHead(us, j, i) PROVE LastHead(ts, j, i) /\ j \in 0 .. Len(ts) /\ j < i
  OBVIOUS
<1>1. /\ Heads(ts) \subseteq Heads(us) /\ Heads(ts) \subseteq 1 .. Len(ts)
      /\ \A k \in Heads(us) : k \in Nat /\ (k <= Len(ts) => k \in Heads(ts))
  BY HeadsKept
<1>2. /\ j \in Heads(us) \cup {0} /\ j < i
      /\ \A k \in Heads(us) : k < i => k <= j
  BY DEF LastHead
<1>3. Len(ts) \in Nat
  BY DEF Longer
<1>4. j \in Heads(ts) \cup {0}
  <2>1. CASE j = 0
    BY <2>1
  <2>2. CASE j \in Heads(us)
    <3>1. j \in Nat /\ i \in Nat
      BY <1>1, <2>2
    <3>2. j <= Len(ts)
      BY <1>2, <1>3, <3>1
    <3> QED BY <1>1, <2>2, <3>2
  <2> QED BY <1>2, <2>1, <2>2
<1>5. j \in 0 .. Len(ts)
  BY <1>1, <1>3, <1>4
<1>6. \A k \in Heads(ts) : k < i => k <= j
  BY <1>1, <1>2
<1> QED BY <1>2, <1>4, <1>5, <1>6 DEF LastHead

LEMMA PlacedKept ==
    ASSUME NEW us, NEW ts, Longer(us, ts), NEW wd, NEW i \in Heads(ts), Placed(ts, wd, i)
    PROVE  Placed(us, wd, i)
<1>0. Len(ts) \in Nat
  BY DEF Longer
<1>1. i \in 1 .. Len(ts)
  BY DEF Heads
<1>2. i \in Nat /\ i \in 0 .. Len(ts) /\ i \in 1 .. Len(ts) + 1
  BY <1>0, <1>1
<1>3. WidthOf(us, wd, i) = WidthOf(ts, wd, i)
  BY <1>1, HeadsKept
<1>4. SameLines(Widths(ts, wd), i, Widths(us, wd), i)
  BY <1>2, WidthsKept
<1>5. OpenAt(Widths(us, wd), i) = OpenAt(Widths(ts, wd), i)
  BY <1>2, <1>4, OpenSame
<1>6. \A h \in 0 .. Len(ts) : /\ \A kind : Count(us, kind, h) = Count(ts, kind, h)
                              /\ BlocksAt(us, h) = BlocksAt(ts, h)
  BY CountKept
<1>7. ASSUME NEW j, LastHead(us, j, i) PROVE OneBlock(us, BlocksAt(us, i), i, j)
  <2>1. LastHead(ts, j, i) /\ j \in 0 .. Len(ts)
    BY <1>2, <1>7, LastHeadKept
  <2>2. OneBlock(ts, BlocksAt(ts, i), i, j)
    BY <2>1 DEF Placed
  <2> QED BY <1>2, <1>6, <2>1, <2>2 DEF OneBlock
<1> QED BY <1>2, <1>3, <1>5, <1>6, <1>7 DEF Placed

\* Tokens are added, and none of them begins a line.
LEMMA NoNewHead ==
    ASSUME NEW us, NEW ts, Longer(us, ts), NEW wd,
           \A i \in Heads(us) : i <= Len(ts)
    PROVE  /\ OpenAt(Widths(us, wd), Len(us)) = OpenAt(Widths(ts, wd), Len(ts))
           /\ Accounted(ts, wd) => Accounted(us, wd)
           /\ \A j : LastHead(us, j, Len(us) + 1) => LastHead(ts, j, Len(ts) + 1) /\ j \in 0 .. Len(ts)
<1>0. Len(ts) \in Nat /\ Len(us) \in Nat /\ Len(ts) <= Len(us)
  BY DEF Longer
<1>1. Heads(us) = Heads(ts) /\ Heads(ts) \subseteq 1 .. Len(ts)
  <2>1. /\ Heads(ts) \subseteq Heads(us) /\ Heads(ts) \subseteq 1 .. Len(ts)
        /\ \A i \in Heads(us) : i <= Len(ts) => i \in Heads(ts)
    BY HeadsKept
  <2> QED BY <2>1, Zenon
<1>2. OpenAt(Widths(us, wd), Len(us)) = OpenAt(Widths(ts, wd), Len(ts))
  <2>1. Len(ts) \in 0 .. Len(ts)
    BY <1>0
  <2>2. SameLines(Widths(ts, wd), Len(ts), Widths(us, wd), Len(ts))
    BY <2>1, WidthsKept
  <2>3. DOMAIN Widths(us, wd) = Heads(us) /\ DOMAIN Widths(ts, wd) = Heads(ts)
    BY DEF Widths
  <2>4. \A j \in Heads(ts) : j <= Len(ts) /\ j <= Len(us)
    BY <1>0, <1>1
  <2>5. SameLines(Widths(ts, wd), Len(ts), Widths(us, wd), Len(us))
    BY <1>1, <2>2, <2>3, <2>4 DEF SameLines
  <2> QED BY <1>0, <2>5, OpenSame
<1>3. ASSUME Accounted(ts, wd) PROVE Accounted(us, wd)
  BY <1>1, <1>3, PlacedKept DEF Accounted
<1>4. ASSUME NEW j, LastHead(us, j, Len(us) + 1)
      PROVE  LastHead(ts, j, Len(ts) + 1) /\ j \in 0 .. Len(ts)
  <2>1. /\ j \in Heads(ts) \cup {0}
        /\ \A k \in Heads(ts) : k < Len(us) + 1 => k <= j
    BY <1>1, <1>4 DEF LastHead
  <2>2. \A k \in Heads(ts) : k \in Nat /\ k < Len(us) + 1 /\ k <= Len(ts)
    BY <1>0, <1>1
  <2>3. j \in 0 .. Len(ts) /\ j < Len(ts) + 1
    BY <1>0, <1>1, <2>1
  <2> QED BY <2>1, <2>2, <2>3 DEF LastHead
<1> QED BY <1>2, <1>3, <1>4

\* Tokens are added, and the last of them begins a line.
LEMMA NewHead ==
    ASSUME NEW us, NEW ts, Longer(us, ts), Len(ts) < Len(us), NEW wd,
           Len(us) \in Heads(us), \A i \in Heads(us) : i <= Len(ts) \/ i = Len(us),
           WidthOf(us, wd, Len(us)) \in Nat,
           Accounted(ts, wd)
    PROVE  /\ OpenAt(Widths(us, wd), Len(us)) =
                 Shallow(OpenAt(Widths(ts, wd), Len(ts)), WidthOf(us, wd, Len(us)))
           /\ \A j : LastHead(us, j, Len(us)) => LastHead(ts, j, Len(ts) + 1) /\ j \in 0 .. Len(ts)
           /\ \A j : LastHead(us, j, Len(us) + 1) => j = Len(us)
           /\ Placed(us, wd, Len(us)) => Accounted(us, wd)
<1> DEFINE n == Len(us)
<1>0. Len(ts) \in Nat /\ n \in Nat /\ Len(ts) < n
  BY DEF Longer
<1>1. /\ \A j \in 1 .. Len(ts) : /\ j \in Heads(us) <=> j \in Heads(ts)
                                 /\ WidthOf(us, wd, j) = WidthOf(ts, wd, j)
      /\ Heads(ts) \subseteq Heads(us) /\ Heads(ts) \subseteq 1 .. Len(ts)
      /\ \A j \in Heads(us) : j \in Nat /\ (j <= Len(ts) => j \in Heads(ts))
  BY HeadsKept
<1>2. n \in Heads(us) /\ Heads(us) = Heads(ts) \cup {n}
  BY <1>1
<1>3. \A j \in Heads(ts) : j \in Nat /\ j <= Len(ts) /\ j < n /\ j # n
  BY <1>0, <1>1
<1> HIDE DEF n
<1>4. OpenAt(Widths(us, wd), n) = Shallow(OpenAt(Widths(ts, wd), Len(ts)), WidthOf(us, wd, n))
  <2> DEFINE w == Widths(ts, wd)
             v == Widths(us, wd)
  <2>1. /\ DOMAIN w = Heads(ts) /\ DOMAIN v = Heads(us)
        /\ \A j \in Heads(ts) : w[j] = WidthOf(ts, wd, j)
        /\ \A j \in Heads(us) : v[j] = WidthOf(us, wd, j)
    BY DEF Widths
  <2> HIDE DEF w, v
  <2>2. \A j \in Heads(ts) : v[j] = w[j] /\ v[j] \in Nat
    <3> TAKE j \in Heads(ts)
    <3>1. j \in 1 .. Len(ts) /\ j \in Heads(us)
      BY <1>1
    <3>2. v[j] = w[j]
      BY <1>1, <2>1, <3>1
    <3>3. w[j] \in Nat
      BY <2>1 DEF Accounted, Placed
    <3> QED BY <3>2, <3>3
  <2>3. v[n] = WidthOf(us, wd, n) /\ v[n] \in Nat
    BY <1>2, <2>1 DEF n
  <2>4. \A j : (j \in DOMAIN v /\ j <= n) <=> (j \in DOMAIN w /\ j <= Len(ts)) \/ j = n
    <3>1. n <= n
      BY <1>0
    <3>2. \A j \in Heads(ts) : j <= n
      BY <1>0, <1>3
    <3>3. \A j : (j \in Heads(us) /\ j <= n) <=> (j \in Heads(ts) /\ j <= Len(ts)) \/ j = n
      BY <1>2, <1>3, <3>1, <3>2, Zenon
    <3> QED BY <2>1, <3>3
  <2>5. DOMAIN w \subseteq Nat /\ DOMAIN v \subseteq Nat /\ n \in DOMAIN v
    BY <1>0, <1>2, <1>3, <2>1
  <2>6. \A j \in DOMAIN v : v[j] \in Nat
    BY <1>2, <2>1, <2>2, <2>3
  <2>7. \A j \in DOMAIN w : j <= Len(ts) => v[j] = w[j]
    BY <2>1, <2>2
  <2>8. OneMore(w, Len(ts), v, n)
    BY <1>0, <2>4, <2>5, <2>6, <2>7 DEF OneMore
  <2>9. OpenAt(v, n) = Shallow(OpenAt(w, Len(ts)), v[n])
    BY <1>0, <2>8, OpenNext
  <2> QED BY <2>3, <2>9 DEF w, v
<1>5. ASSUME NEW j, LastHead(us, j, n) PROVE LastHead(ts, j, Len(ts) + 1) /\ j \in 0 .. Len(ts)
  <2>1. /\ j \in Heads(us) \cup {0} /\ j < n
        /\ \A k \in Heads(us) : k < n => k <= j
    BY <1>5 DEF LastHead
  <2>2. j # n
    BY <1>0, <2>1
  <2>3. j \in Heads(ts) \cup {0}
    BY <1>2, <2>1, <2>2
  <2>4. j \in 0 .. Len(ts) /\ j < Len(ts) + 1
    BY <1>0, <1>1, <2>3
  <2>5. \A k \in Heads(ts) : k <= j
    BY <1>2, <1>3, <2>1
  <2> QED BY <2>3, <2>4, <2>5 DEF LastHead
<1>6. ASSUME NEW j, LastHead(us, j, n + 1) PROVE j = n
  <2>1. j \in Heads(us) \cup {0} /\ n <= j
    <3>1. n < n + 1
      BY <1>0
    <3> QED BY <1>2, <1>6, <3>1 DEF LastHead
  <2>2. j \in Heads(ts) => j < n
    BY <1>3
  <2>3. j \in Heads(ts) => j \in Nat
    BY <1>3
  <2>4. j \notin Heads(ts)
    BY <1>0, <2>1, <2>2, <2>3
  <2>5. j # 0
    BY <1>0, <2>1
  <2> QED BY <1>2, <2>1, <2>4, <2>5
<1>7. ASSUME Placed(us, wd, n) PROVE Accounted(us, wd)
  BY <1>2, <1>7, PlacedKept DEF Accounted
<1> QED BY <1>4, <1>5, <1>6, <1>7 DEF n

-----------------------------------------------------------------------------
(***************************************************************************)
(* The tokens and the stack after every kind of token.                     *)
(***************************************************************************)
Steady(ts, wd, st) ==
    /\ Range(st) = OpenAt(Widths(ts, wd), Len(ts))
    /\ \A j : LastHead(ts, j, Len(ts) + 1) =>
          \A kind \in BlockMarks : Count(ts, kind, Len(ts)) = Count(ts, kind, j)

\* The stack is already that of the line about to begin.
Coming(ts, wd, st) ==
    /\ Prior(ts, Len(ts) + 1) > 0 => ts[Prior(ts, Len(ts) + 1)].kind = "NEWLINE"
    /\ Last(st) = wd[LineBegin(ts, Prior(ts, Len(ts) + 1))]
    /\ Range(st) = Shallow(OpenAt(Widths(ts, wd), Len(ts)), Last(st))
    /\ \A j : LastHead(ts, j, Len(ts) + 1) => OneBlock(ts, Len(st) - 1, Len(ts), j)

Fresh(ts) == ts # <<>> => ts[Len(ts)].kind = "NEWLINE"
Busy(ts) == ts # <<>> /\ ts[Len(ts)].kind \notin LayoutKinds

\* Every line so far is in its blocks, and the stack has one entry for each that is open.
Lined(ts, wd, st) == /\ ts \in Seq(Pieces) /\ Accounted(ts, wd) /\ Rising(st)
                     /\ BlocksAt(ts, Len(ts)) = Len(st) - 1

LEMMA Extended ==
    ASSUME NEW ts \in Seq(Pieces), NEW s \in Seq(Pieces)
    PROVE  /\ Longer(ts \o s, ts) /\ Len(ts) \in Nat /\ Len(s) \in Nat
           /\ Len(ts \o s) = Len(ts) + Len(s)
           /\ \A i \in 1 .. Len(s) : (ts \o s)[Len(ts) + i] = s[i]
           /\ \A i \in Len(ts) + 1 .. Len(ts) + Len(s) : i - Len(ts) \in 1 .. Len(s) /\ (ts \o s)[i] = s[i - Len(ts)]
<1>1. Len(ts) \in Nat /\ Len(s) \in Nat
  OBVIOUS
<1>2. /\ ts \o s \in Seq(Pieces) /\ Len(ts \o s) = Len(ts) + Len(s)
      /\ \A i \in 1 .. Len(ts) + Len(s) :
            (ts \o s)[i] = IF i <= Len(ts) THEN ts[i] ELSE s[i - Len(ts)]
  BY ConcatProperties
<1>3. \A i \in 1 .. Len(ts) : i \in 1 .. Len(ts) + Len(s) /\ i <= Len(ts)
  BY <1>1
<1>4. \A i \in Len(ts) + 1 .. Len(ts) + Len(s) :
        i \in 1 .. Len(ts) + Len(s) /\ ~(i <= Len(ts)) /\ i - Len(ts) \in 1 .. Len(s)
  BY <1>1
<1>5. \A i \in 1 .. Len(s) :
        Len(ts) + i \in Len(ts) + 1 .. Len(ts) + Len(s) /\ (Len(ts) + i) - Len(ts) = i
  BY <1>1
<1>6. Longer(ts \o s, ts)
  <2>1. Len(ts) <= Len(ts) + Len(s)
    BY <1>1
  <2> QED BY <1>2, <1>3, <2>1 DEF Longer
<1>7. \A i \in Len(ts) + 1 .. Len(ts) + Len(s) : (ts \o s)[i] = s[i - Len(ts)]
  BY <1>2, <1>4
<1> QED BY <1>1, <1>2, <1>4, <1>5, <1>6, <1>7

\* One token is added.
Another(us, ts, t) == /\ us \in Seq(Pieces) /\ ts \in Seq(Pieces) /\ us = Append(ts, t)
                      /\ Len(us) = Len(ts) + 1 /\ us[Len(us)] = t /\ us # <<>>
                      /\ Len(ts) \in Nat /\ Longer(us, ts)

LEMMA AnotherToken ==
    ASSUME NEW ts \in Seq(Pieces), NEW t \in Pieces
    PROVE  Another(Append(ts, t), ts, t)
<1>1. /\ Append(ts, t) \in Seq(Pieces) /\ Append(ts, t) # <<>>
      /\ Len(Append(ts, t)) = Len(ts) + 1
      /\ \A i \in 1 .. Len(ts) : Append(ts, t)[i] = ts[i]
      /\ Append(ts, t)[Len(ts) + 1] = t
  BY AppendProperties
<1>2. Len(ts) \in Nat /\ Len(ts) <= Len(ts) + 1
  OBVIOUS
<1> QED BY <1>1, <1>2 DEF Another, Longer

LEMMA AnotherHead ==
    ASSUME NEW us, NEW ts, NEW t, Another(us, ts, t)
    PROVE  /\ \A i \in Heads(us) : i <= Len(ts) \/ i = Len(us)
           /\ Prior(us, Len(us)) = Prior(ts, Len(us))
           /\ Len(us) \in Heads(us) <=> Leads(us, Len(us)) \/ t.kind = "EOF"
<1>1. Len(us) \in 1 .. Len(us) /\ Len(us) \in Nat \ {0} /\ Len(us) - 1 = Len(ts)
  BY DEF Another
<1>2. \A i \in Heads(us) : i <= Len(ts) \/ i = Len(us)
  <2>1. \A i \in 1 .. Len(us) : i <= Len(ts) \/ i = Len(us)
    BY DEF Another
  <2> QED BY <2>1 DEF Heads
<1>3. \A k \in 1 .. Len(us) - 1 : us[k] = ts[k]
  BY <1>1 DEF Another, Longer
<1>4. Prior(us, Len(us)) = Prior(ts, Len(us))
  BY <1>1, <1>3, SamePrior
<1>5. Len(us) \in Heads(us) <=> Leads(us, Len(us)) \/ us[Len(us)].kind = "EOF"
  BY <1>1 DEF Heads
<1> QED BY <1>2, <1>4, <1>5 DEF Another

LEMMA AnotherCount ==
    ASSUME NEW us, NEW ts, NEW t, Another(us, ts, t)
    PROVE  /\ \A kind : Count(us, kind, Len(us)) =
                           Count(ts, kind, Len(ts)) + (IF t.kind = kind THEN 1 ELSE 0)
           /\ \A kind : Count(ts, kind, Len(ts)) \in Nat
           /\ t.kind \notin BlockMarks => BlocksAt(us, Len(us)) = BlocksAt(ts, Len(ts))
<1>1. Len(ts) \in Nat /\ Len(us) = Len(ts) + 1 /\ us[Len(ts) + 1] = t
      /\ Len(ts) \in 0 .. Len(ts)
  BY DEF Another
<1>2. ASSUME NEW kind
      PROVE  /\ Count(us, kind, Len(us)) = Count(ts, kind, Len(ts)) + (IF t.kind = kind THEN 1 ELSE 0)
             /\ Count(ts, kind, Len(ts)) \in Nat
  <2>1. Count(us, kind, Len(ts)) = Count(ts, kind, Len(ts))
    BY <1>1, CountKept DEF Another
  <2>2. /\ Count(us, kind, Len(ts) + 1) = Count(us, kind, Len(ts)) + (IF t.kind = kind THEN 1 ELSE 0)
        /\ Count(us, kind, Len(ts)) \in Nat
    <3>1. \A i \in Nat : /\ Count(us, kind, i) \in Nat
                         /\ Count(us, kind, i + 1) =
                               Count(us, kind, i) + (IF us[i + 1].kind = kind THEN 1 ELSE 0)
      BY CountNext
    <3> QED BY <1>1, <3>1
  <2> QED BY <1>1, <2>1, <2>2
<1>3. ASSUME t.kind \notin BlockMarks PROVE BlocksAt(us, Len(us)) = BlocksAt(ts, Len(ts))
  <2>1. Count(us, "INDENT", Len(us)) = Count(ts, "INDENT", Len(ts)) + 0
        /\ Count(us, "DEDENT", Len(us)) = Count(ts, "DEDENT", Len(ts)) + 0
    BY <1>2, <1>3 DEF BlockMarks
  <2>2. Count(us, "INDENT", Len(us)) = Count(ts, "INDENT", Len(ts))
        /\ Count(us, "DEDENT", Len(us)) = Count(ts, "DEDENT", Len(ts))
    BY <1>2, <2>1
  <2> QED BY <2>2 DEF BlocksAt
<1> QED BY <1>2, <1>3

\* A token that begins no line and is no mark of a block.
LEMMA QuietToken ==
    ASSUME NEW us, NEW ts, NEW t, Another(us, ts, t), NEW wd, NEW st,
           Lined(ts, wd, st), Steady(ts, wd, st),
           t.kind \notin BlockMarks, Len(us) \notin Heads(us)
    PROVE  Lined(us, wd, st) /\ Steady(us, wd, st)
<1>1. us \in Seq(Pieces) /\ Longer(us, ts) /\ Len(ts) \in Nat
  BY DEF Another
<1>2. \A i \in Heads(us) : i <= Len(ts)
  BY AnotherHead
<1>3. /\ OpenAt(Widths(us, wd), Len(us)) = OpenAt(Widths(ts, wd), Len(ts))
      /\ Accounted(ts, wd) => Accounted(us, wd)
      /\ \A j : LastHead(us, j, Len(us) + 1) => LastHead(ts, j, Len(ts) + 1) /\ j \in 0 .. Len(ts)
  BY <1>1, <1>2, NoNewHead
<1>4. /\ \A kind \in BlockMarks : Count(us, kind, Len(us)) = Count(ts, kind, Len(ts))
      /\ BlocksAt(us, Len(us)) = BlocksAt(ts, Len(ts))
  <2>1. \A kind : Count(us, kind, Len(us)) = Count(ts, kind, Len(ts)) + (IF t.kind = kind THEN 1 ELSE 0)
        /\ Count(ts, kind, Len(ts)) \in Nat
    BY AnotherCount
  <2>2. \A kind \in BlockMarks : t.kind # kind
    OBVIOUS
  <2>3. \A kind \in BlockMarks : Count(us, kind, Len(us)) = Count(ts, kind, Len(ts))
    BY <2>1, <2>2
  <2> QED BY <2>3, AnotherCount
<1>5. Lined(us, wd, st)
  BY <1>1, <1>3, <1>4 DEF Lined
<1>6. ASSUME NEW j, LastHead(us, j, Len(us) + 1), NEW kind \in BlockMarks
      PROVE  Count(us, kind, Len(us)) = Count(us, kind, j)
  <2>1. LastHead(ts, j, Len(ts) + 1) /\ j \in 0 .. Len(ts)
    BY <1>3, <1>6
  <2>2. Count(ts, kind, Len(ts)) = Count(ts, kind, j)
    BY <2>1 DEF Steady
  <2>3. Count(us, kind, j) = Count(ts, kind, j)
    BY <1>1, <2>1, CountKept
  <2> QED BY <1>4, <2>2, <2>3
<1> QED BY <1>3, <1>5, <1>6 DEF Steady

LEMMA NewlineToken ==
    ASSUME NEW us, NEW ts, NEW t, Another(us, ts, t), NEW wd, NEW st,
           Lined(ts, wd, st), Steady(ts, wd, st), t.kind = "NEWLINE"
    PROVE  Lined(us, wd, st) /\ Steady(us, wd, st) /\ Fresh(us)
<1>1. t.kind \notin BlockMarks /\ t.kind \in LayoutKinds /\ t.kind # "EOF"
  BY DEF BlockMarks, LayoutKinds
<1>2. us[Len(us)].kind = t.kind
  BY DEF Another
<1>3. Len(us) \notin Heads(us)
  BY <1>1, <1>2, AnotherHead DEF Leads
<1> QED BY <1>1, <1>2, <1>3, QuietToken DEF Fresh

LEMMA InnerToken ==
    ASSUME NEW us, NEW ts, NEW t, Another(us, ts, t), NEW wd, NEW st,
           Lined(ts, wd, st), Steady(ts, wd, st), Busy(ts), t.kind \notin LayoutKinds \cup {"EOF"}
    PROVE  Lined(us, wd, st) /\ Steady(us, wd, st) /\ Busy(us)
<1>0. "NEWLINE" \in LayoutKinds /\ BlockMarks \subseteq LayoutKinds
  BY DEF LayoutKinds, BlockMarks
<1>1. t.kind \notin BlockMarks /\ t.kind \notin LayoutKinds /\ t.kind # "EOF"
  BY <1>0
<1>2. us[Len(us)].kind = t.kind /\ us # <<>> /\ Len(us) = Len(ts) + 1 /\ ts \in Seq(Pieces)
  BY DEF Another
<1>3. Len(ts) \in Nat /\ Len(ts) > 0 /\ ts[Len(ts)].kind \notin LayoutKinds
  BY <1>2, EmptySeq DEF Busy
<1>4. IsPrior(ts, Len(us), Len(ts))
  BY <1>0, <1>2, <1>3 DEF IsPrior
<1>5. Prior(us, Len(us)) = Len(ts)
  BY <1>2, <1>3, <1>4, PriorIs, AnotherHead
<1>6. us[Len(ts)] = ts[Len(ts)]
  <2>1. Len(ts) \in 1 .. Len(ts)
    BY <1>3
  <2> QED BY <2>1 DEF Another, Longer
<1>7. Len(us) \notin Heads(us)
  <2>1. ~ Leads(us, Len(us))
    BY <1>0, <1>3, <1>5, <1>6 DEF Leads
  <2> QED BY <1>1, <2>1, AnotherHead
<1> QED BY <1>1, <1>2, <1>7, QuietToken DEF Busy

\* The first token of a line.
LEMMA FirstToken ==
    ASSUME NEW us, NEW ts, NEW t, Another(us, ts, t), NEW wd, NEW st,
           Lined(ts, wd, st), Coming(ts, wd, st), t.kind \notin LayoutKinds \cup {"EOF"}
    PROVE  Lined(us, wd, st) /\ Steady(us, wd, st) /\ Busy(us)
<1> DEFINE n == Len(us)
           m == Prior(ts, n)
<1>0. BlockMarks \subseteq LayoutKinds
  BY DEF LayoutKinds, BlockMarks
<1>1. t.kind \notin BlockMarks /\ t.kind \notin LayoutKinds /\ t.kind # "EOF"
  BY <1>0
<1>2. /\ us[n].kind = t.kind /\ us # <<>> /\ n = Len(ts) + 1 /\ ts \in Seq(Pieces)
      /\ us \in Seq(Pieces) /\ Len(ts) \in Nat /\ Longer(us, ts)
  BY DEF Another
<1>3. Prior(us, n) = m
  BY AnotherHead
<1>4. IsPrior(ts, n, m)
  BY <1>2, HasPrior
<1>5. /\ m > 0 => ts[m].kind = "NEWLINE"
      /\ Last(st) = wd[LineBegin(ts, m)]
      /\ Range(st) = Shallow(OpenAt(Widths(ts, wd), Len(ts)), Last(st))
      /\ \A j : LastHead(ts, j, n) => OneBlock(ts, Len(st) - 1, Len(ts), j)
  BY <1>2 DEF Coming
<1> HIDE DEF m, n
<1>6. m \in 0 .. Len(ts) /\ (m > 0 => us[m] = ts[m])
  <2>1. m \in 0 .. n - 1
    BY <1>4 DEF IsPrior
  <2>2. m \in 0 .. Len(ts)
    BY <1>2, <2>1
  <2>3. m > 0 => m \in 1 .. Len(ts)
    BY <2>2
  <2> QED BY <1>2, <2>2, <2>3 DEF Longer
<1>7. m = 0 \/ m > 0
  BY <1>6
<1>8. Leads(us, n)
  BY <1>1, <1>2, <1>3, <1>5, <1>6, <1>7 DEF Leads
<1>9. WidthOf(us, wd, n) = Last(st)
  <2>1. LineBegin(us, m) = LineBegin(ts, m)
    BY <1>6, <1>7 DEF LineBegin
  <2> QED BY <1>1, <1>2, <1>3, <1>5, <2>1 DEF WidthOf
<1>10. Rising(st) /\ Accounted(ts, wd) /\ BlocksAt(ts, Len(ts)) = Len(st) - 1
  BY DEF Lined
<1>11. Last(st) \in Nat /\ Cardinality(Range(st)) = Len(st)
  BY <1>10, RisingShape
<1>12. /\ OpenAt(Widths(us, wd), n) = Shallow(OpenAt(Widths(ts, wd), Len(ts)), Last(st))
       /\ \A j : LastHead(us, j, n) => LastHead(ts, j, Len(ts) + 1) /\ j \in 0 .. Len(ts)
       /\ \A j : LastHead(us, j, n + 1) => j = n
       /\ Placed(us, wd, n) => Accounted(us, wd)
  <2>1. Len(ts) < Len(us)
    BY <1>2 DEF n
  <2>2. Len(us) \in Heads(us)
    BY <1>8, AnotherHead DEF n
  <2>3. \A i \in Heads(us) : i <= Len(ts) \/ i = Len(us)
    BY AnotherHead
  <2>4. WidthOf(us, wd, Len(us)) \in Nat
    BY <1>9, <1>11 DEF n
  <2>5. /\ OpenAt(Widths(us, wd), Len(us)) =
              Shallow(OpenAt(Widths(ts, wd), Len(ts)), WidthOf(us, wd, Len(us)))
        /\ \A j : LastHead(us, j, Len(us)) => LastHead(ts, j, Len(ts) + 1) /\ j \in 0 .. Len(ts)
        /\ \A j : LastHead(us, j, Len(us) + 1) => j = Len(us)
        /\ Placed(us, wd, Len(us)) => Accounted(us, wd)
    BY <1>2, <1>10, <2>1, <2>2, <2>3, <2>4, NewHead
  <2> QED BY <1>9, <2>5 DEF n
<1>13. Range(st) = OpenAt(Widths(us, wd), n)
  BY <1>5, <1>12
<1>14. /\ \A kind \in BlockMarks : Count(us, kind, n) = Count(ts, kind, Len(ts))
       /\ BlocksAt(us, n) = Len(st) - 1
  <2>1. \A kind : Count(us, kind, n) = Count(ts, kind, Len(ts)) + (IF t.kind = kind THEN 1 ELSE 0)
        /\ Count(ts, kind, Len(ts)) \in Nat
    BY AnotherCount DEF n
  <2>2. \A kind \in BlockMarks : t.kind # kind
    BY <1>1
  <2>3. \A kind \in BlockMarks : Count(us, kind, n) = Count(ts, kind, Len(ts))
    BY <2>1, <2>2
  <2> QED BY <1>1, <1>10, <2>3, AnotherCount DEF n
<1>15. ASSUME NEW j, LastHead(us, j, n) PROVE OneBlock(us, BlocksAt(us, n), n, j)
  <2>1. LastHead(ts, j, n) /\ j \in 0 .. Len(ts)
    BY <1>2, <1>12, <1>15
  <2>2. OneBlock(ts, Len(st) - 1, Len(ts), j)
    BY <1>5, <2>1
  <2>3. Count(us, "INDENT", j) = Count(ts, "INDENT", j) /\ BlocksAt(us, j) = BlocksAt(ts, j)
    BY <1>2, <2>1, CountKept
  <2>4. Count(us, "INDENT", n) = Count(ts, "INDENT", Len(ts))
    BY <1>14 DEF BlockMarks
  <2> QED BY <1>14, <2>2, <2>3, <2>4 DEF OneBlock
<1>16. Placed(us, wd, n)
  BY <1>9, <1>11, <1>13, <1>14, <1>15 DEF Placed
<1>17. Lined(us, wd, st)
  BY <1>2, <1>10, <1>12, <1>14, <1>16 DEF Lined, n
<1>18. \A j : LastHead(us, j, n + 1) => \A kind \in BlockMarks : Count(us, kind, n) = Count(us, kind, j)
  BY <1>12
<1>19. Steady(us, wd, st)
  BY <1>13, <1>18 DEF Steady, n
<1> QED BY <1>1, <1>2, <1>17, <1>19 DEF Busy, n

LEMMA CountEach ==
    ASSUME NEW us, NEW kind
    PROVE  \A i \in Nat : /\ Count(us, kind, i) \in Nat
                          /\ Count(us, kind, i + 1) =
                                Count(us, kind, i) + (IF us[i + 1].kind = kind THEN 1 ELSE 0)
BY CountNext

\* After ts come tokens of one kind.
AllAdded(us, ts, k) == Longer(us, ts) /\ \A i \in Len(ts) + 1 .. Len(us) : us[i].kind = k

LEMMA RunCount ==
    ASSUME NEW us, NEW ts, NEW k, AllAdded(us, ts, k), NEW kind,
           NEW n \in Nat, Len(ts) + n <= Len(us)
    PROVE  Count(us, kind, Len(ts) + n) = Count(ts, kind, Len(ts)) + (IF k = kind THEN n ELSE 0)
<1> DEFINE h == Len(ts)
           c == Count(ts, kind, h)
           Right(m) == Count(us, kind, h + m) = c + (IF k = kind THEN m ELSE 0)
           Wrong == {m \in Nat : m <= n /\ ~ Right(m)}
<1>0. Longer(us, ts) /\ \A i \in h + 1 .. Len(us) : us[i].kind = k
  BY DEF AllAdded
<1>1. h \in Nat /\ Len(us) \in Nat /\ h \in 0 .. h
  BY <1>0 DEF Longer
<1>2. \A i \in Nat : /\ Count(us, kind, i) \in Nat
                     /\ Count(us, kind, i + 1) =
                           Count(us, kind, i) + (IF us[i + 1].kind = kind THEN 1 ELSE 0)
  BY CountEach
<1>3. c = Count(us, kind, h)
  BY <1>0, <1>1, CountKept
<1>4. c \in Nat
  BY <1>1, <1>2, <1>3
<1> HIDE DEF h, c
<1>5. Right(0)
  <2>1. h + 0 = h /\ c + 0 = c
    BY <1>1, <1>4
  <2> QED BY <1>3, <2>1
<1>6. ASSUME NEW m \in Nat, m < n, Right(m) PROVE Right(m + 1)
  <2>1. h + m \in Nat /\ h + (m + 1) = (h + m) + 1 /\ h + m + 1 \in h + 1 .. Len(us)
    BY <1>1, <1>6 DEF h
  <2>2. us[h + m + 1].kind = k
    BY <1>0, <2>1
  <2>3. Count(us, kind, h + (m + 1)) = Count(us, kind, h + m) + (IF k = kind THEN 1 ELSE 0)
    BY <1>2, <2>1, <2>2
  <2>4. Count(us, kind, h + m) = c + (IF k = kind THEN m ELSE 0)
    BY <1>6
  <2> HIDE DEF Right
  <2>5. Count(us, kind, h + (m + 1)) = c + (IF k = kind THEN m + 1 ELSE 0)
    BY <1>4, <2>3, <2>4
  <2> QED BY <2>5 DEF Right
<1> HIDE DEF Right
<1>7. Wrong = {}
  <2> SUFFICES ASSUME Wrong # {} PROVE FALSE
    OBVIOUS
  <2>1. PICK m \in Wrong : \A i \in Wrong : ~(i < m)
    BY LeastNat
  <2>2. m \in Nat /\ m <= n /\ ~ Right(m) /\ m # 0
    BY <1>5, <2>1
  <2>3. m - 1 \in Nat /\ m - 1 < n /\ m - 1 < m /\ m - 1 <= n /\ (m - 1) + 1 = m
    BY <2>2
  <2>4. Right(m - 1)
    BY <2>1, <2>3
  <2> QED BY <1>6, <2>2, <2>3, <2>4
<1>8. Right(n)
  <2>1. n <= n
    OBVIOUS
  <2> QED BY <1>7, <2>1
<1> QED BY <1>8 DEF Right, h, c

\* The tokens added are all marks of blocks.
Marked(us, ts) == /\ Longer(us, ts)
                  /\ \A i \in Len(ts) + 1 .. Len(us) : us[i].kind \in BlockMarks

LEMMA MarksBeginNoLine ==
    ASSUME NEW us, NEW ts, Marked(us, ts)
    PROVE  /\ \A i \in Heads(us) : i <= Len(ts)
           /\ Prior(us, Len(us) + 1) = Prior(ts, Len(ts) + 1)
           /\ Prior(ts, Len(ts) + 1) \in 0 .. Len(ts)
<1>0. Len(ts) \in Nat /\ Len(us) \in Nat /\ Len(ts) <= Len(us)
      /\ \A i \in 1 .. Len(ts) : us[i] = ts[i]
  BY DEF Marked, Longer
<1>1. ASSUME NEW i \in Heads(us) PROVE i <= Len(ts)
  <2>1. i \in 1 .. Len(us) /\ (us[i].kind \notin LayoutKinds \/ us[i].kind = "EOF")
    BY DEF Heads, Leads
  <2>2. us[i].kind \notin BlockMarks
    BY <2>1 DEF BlockMarks, LayoutKinds
  <2>3. i \notin Len(ts) + 1 .. Len(us)
    BY <2>2 DEF Marked
  <2> QED BY <1>0, <2>1, <2>3
<1> DEFINE m == Prior(ts, Len(ts) + 1)
<1>2. IsPrior(ts, Len(ts) + 1, m)
  BY <1>0, HasPrior
<1> HIDE DEF m
<1>3. m \in 0 .. Len(ts) /\ (m > 0 => ts[m].kind \notin BlockMarks)
      /\ \A k \in m + 1 .. Len(ts) : ts[k].kind \in BlockMarks
  <2>1. (Len(ts) + 1) - 1 = Len(ts)
    BY <1>0
  <2> QED BY <1>2, <2>1 DEF IsPrior
<1>4. m > 0 => us[m].kind \notin BlockMarks
  <2>1. m > 0 => m \in 1 .. Len(ts)
    BY <1>3
  <2> QED BY <1>0, <1>3, <2>1
<1>5. ASSUME NEW k \in m + 1 .. Len(us) PROVE us[k].kind \in BlockMarks
  <2>1. \/ k \in m + 1 .. Len(ts) /\ k \in 1 .. Len(ts)
        \/ k \in Len(ts) + 1 .. Len(us)
    BY <1>0, <1>3
  <2> QED BY <1>0, <1>3, <2>1 DEF Marked
<1>6. IsPrior(us, Len(us) + 1, m)
  <2>1. (Len(us) + 1) - 1 = Len(us) /\ m \in 0 .. Len(us)
    BY <1>0, <1>3
  <2> QED BY <1>4, <1>5, <2>1 DEF IsPrior
<1>7. Prior(us, Len(us) + 1) = m
  BY <1>0, <1>6, PriorIs
<1> QED BY <1>1, <1>3, <1>7 DEF m

LEMMA MarksKeep ==
    ASSUME NEW us, NEW ts, Marked(us, ts), NEW wd, NEW st, Lined(ts, wd, st), Steady(ts, wd, st)
    PROVE  /\ Accounted(us, wd) /\ us \in Seq(Pieces)
           /\ OpenAt(Widths(us, wd), Len(us)) = Range(st)
           /\ \A j : LastHead(us, j, Len(us) + 1) =>
                 /\ LastHead(ts, j, Len(ts) + 1) /\ j \in 0 .. Len(ts)
                 /\ Count(us, "INDENT", j) = Count(ts, "INDENT", Len(ts))
                 /\ BlocksAt(us, j) = Len(st) - 1
<1>1. Longer(us, ts) /\ us \in Seq(Pieces)
  BY DEF Marked, Longer
<1>2. \A i \in Heads(us) : i <= Len(ts)
  BY MarksBeginNoLine
<1>3. /\ OpenAt(Widths(us, wd), Len(us)) = OpenAt(Widths(ts, wd), Len(ts))
      /\ Accounted(ts, wd) => Accounted(us, wd)
      /\ \A j : LastHead(us, j, Len(us) + 1) => LastHead(ts, j, Len(ts) + 1) /\ j \in 0 .. Len(ts)
  BY <1>1, <1>2, NoNewHead
<1>4. ASSUME NEW j, LastHead(us, j, Len(us) + 1)
      PROVE  /\ LastHead(ts, j, Len(ts) + 1) /\ j \in 0 .. Len(ts)
             /\ Count(us, "INDENT", j) = Count(ts, "INDENT", Len(ts))
             /\ BlocksAt(us, j) = Len(st) - 1
  <2>1. LastHead(ts, j, Len(ts) + 1) /\ j \in 0 .. Len(ts)
    BY <1>3, <1>4
  <2>2. /\ Count(ts, "INDENT", j) = Count(ts, "INDENT", Len(ts))
        /\ Count(ts, "DEDENT", j) = Count(ts, "DEDENT", Len(ts))
    BY <2>1 DEF Steady, BlockMarks
  <2>3. /\ \A kind : Count(us, kind, j) = Count(ts, kind, j)
        /\ BlocksAt(us, j) = BlocksAt(ts, j)
    BY <1>1, <2>1, CountKept
  <2>4. BlocksAt(ts, j) = BlocksAt(ts, Len(ts))
    BY <2>2 DEF BlocksAt
  <2>5. BlocksAt(ts, Len(ts)) = Len(st) - 1
    BY DEF Lined
  <2> QED BY <2>1, <2>2, <2>3, <2>4, <2>5
<1>5. Accounted(us, wd) /\ OpenAt(Widths(us, wd), Len(us)) = Range(st)
  BY <1>3 DEF Lined, Steady
<1> QED BY <1>1, <1>4, <1>5

LEMMA FreshPrior ==
    ASSUME NEW ts \in Seq(Pieces), Fresh(ts)
    PROVE  /\ Prior(ts, Len(ts) + 1) = Len(ts) /\ Len(ts) \in Nat
           /\ Len(ts) > 0 => ts[Len(ts)].kind = "NEWLINE"
<1>1. Len(ts) \in Nat
  OBVIOUS
<1>2. Len(ts) > 0 => ts[Len(ts)].kind = "NEWLINE"
  BY EmptySeq DEF Fresh
<1>3. "NEWLINE" \notin BlockMarks
  BY DEF BlockMarks
<1>4. \A k \in Len(ts) + 1 .. (Len(ts) + 1) - 1 : FALSE
  BY <1>1
<1>5. Len(ts) \in 0 .. (Len(ts) + 1) - 1
  BY <1>1
<1>6. IsPrior(ts, Len(ts) + 1, Len(ts))
  BY <1>2, <1>3, <1>4, <1>5 DEF IsPrior
<1>7. Prior(ts, Len(ts) + 1) = Len(ts)
  BY <1>1, <1>6, PriorIs
<1> QED BY <1>1, <1>2, <1>7

\* A line is about to begin: the stack becomes su.
LEMMA LineComes ==
    ASSUME NEW us, NEW ts, Marked(us, ts), NEW wd, NEW st, Lined(ts, wd, st), Steady(ts, wd, st),
           Fresh(ts), NEW su, Rising(su), Last(su) = wd[LineBegin(ts, Len(ts))],
           Range(su) = Shallow(Range(st), Last(su)),
           BlocksAt(us, Len(us)) = Len(su) - 1,
           Count(us, "INDENT", Len(us)) - Count(ts, "INDENT", Len(ts)) =
              (IF Len(su) > Len(st) THEN 1 ELSE 0)
    PROVE  Lined(us, wd, su) /\ Coming(us, wd, su)
<1>1. /\ Accounted(us, wd) /\ us \in Seq(Pieces)
      /\ OpenAt(Widths(us, wd), Len(us)) = Range(st)
      /\ \A j : LastHead(us, j, Len(us) + 1) =>
            /\ LastHead(ts, j, Len(ts) + 1) /\ j \in 0 .. Len(ts)
            /\ Count(us, "INDENT", j) = Count(ts, "INDENT", Len(ts))
            /\ BlocksAt(us, j) = Len(st) - 1
  BY MarksKeep
<1>2. Lined(us, wd, su)
  BY <1>1 DEF Lined
<1>3. Len(st) \in Nat /\ Len(su) \in Nat
  BY RisingShape DEF Lined
<1>4. ASSUME NEW j, LastHead(us, j, Len(us) + 1) PROVE OneBlock(us, Len(su) - 1, Len(us), j)
  <2>1. /\ Count(us, "INDENT", j) = Count(ts, "INDENT", Len(ts))
        /\ BlocksAt(us, j) = Len(st) - 1
    BY <1>1, <1>4
  <2>2. Len(su) - 1 > Len(st) - 1 <=> Len(su) > Len(st)
    BY <1>3
  <2> QED BY <2>1, <2>2 DEF OneBlock
<1>5. /\ Prior(ts, Len(ts) + 1) = Len(ts) /\ Len(ts) \in Nat
      /\ Len(ts) > 0 => ts[Len(ts)].kind = "NEWLINE"
  BY FreshPrior DEF Lined
<1>6. Prior(us, Len(us) + 1) = Len(ts)
  BY <1>5, MarksBeginNoLine
<1>7. Len(ts) > 0 => us[Len(ts)] = ts[Len(ts)]
  <2>1. Len(ts) > 0 => Len(ts) \in 1 .. Len(ts)
    BY <1>5
  <2> QED BY <2>1 DEF Marked, Longer
<1>8. LineBegin(us, Len(ts)) = LineBegin(ts, Len(ts))
  <2>1. Len(ts) = 0 \/ Len(ts) > 0
    BY <1>5
  <2> QED BY <1>7, <2>1 DEF LineBegin
<1>9. Range(su) = Shallow(OpenAt(Widths(us, wd), Len(us)), Last(su))
  BY <1>1
<1>10. Last(su) = wd[LineBegin(us, Len(ts))]
  BY <1>8
<1>11. Len(ts) > 0 => us[Len(ts)].kind = "NEWLINE"
  BY <1>5, <1>7
<1>12. Coming(us, wd, su)
  BY <1>4, <1>6, <1>9, <1>10, <1>11 DEF Coming
<1> QED BY <1>2, <1>12

LEMMA DedentsAdded ==
    ASSUME NEW ts \in Seq(Pieces), NEW n \in Nat, NEW at \in Nat \ {0}
    PROVE  LET us == ts \o Dedents(n, at)
           IN  /\ Marked(us, ts)
               /\ BlocksAt(us, Len(us)) = BlocksAt(ts, Len(ts)) - n
               /\ Count(us, "INDENT", Len(us)) = Count(ts, "INDENT", Len(ts))
<1> DEFINE s == Dedents(n, at)
           us == ts \o s
<1>1. /\ s \in Seq(Pieces) /\ DOMAIN s = 1 .. n
      /\ \A i \in 1 .. n : s[i].kind = "DEDENT"
  <2>1. /\ s \in Seq(Pieces) /\ DOMAIN s = 1 .. n
        /\ \A i \in 1 .. n : s[i] = [kind |-> "DEDENT", from |-> at, to |-> at - 1]
    BY DedentRun
  <2> QED BY <2>1
<1> HIDE DEF s
<1>2. Len(s) = n
  BY <1>1
<1>3. /\ Longer(us, ts) /\ Len(ts) \in Nat
      /\ Len(us) = Len(ts) + n
      /\ \A i \in Len(ts) + 1 .. Len(ts) + n : i - Len(ts) \in 1 .. n /\ us[i] = s[i - Len(ts)]
  BY <1>1, <1>2, Extended
<1> HIDE DEF us
<1>4. \A i \in Len(ts) + 1 .. Len(us) : us[i].kind = "DEDENT"
  BY <1>1, <1>3
<1>5. Marked(us, ts)
  BY <1>3, <1>4 DEF Marked, BlockMarks
<1>6. Len(ts) + n <= Len(us)
  BY <1>3
<1>7. AllAdded(us, ts, "DEDENT")
  BY <1>3, <1>4, Zenon DEF AllAdded
<1>8. /\ Count(us, "INDENT", Len(us)) = Count(ts, "INDENT", Len(ts)) + 0
      /\ Count(us, "DEDENT", Len(us)) = Count(ts, "DEDENT", Len(ts)) + n
  <2>1. \A kind : Count(us, kind, Len(ts) + n) =
                     Count(ts, kind, Len(ts)) + (IF "DEDENT" = kind THEN n ELSE 0)
    BY <1>6, <1>7, RunCount
  <2> QED BY <1>3, <2>1
<1>9. Count(ts, "INDENT", Len(ts)) \in Nat /\ Count(ts, "DEDENT", Len(ts)) \in Nat
  BY <1>3, CountEach
<1>10. Count(us, "INDENT", Len(us)) = Count(ts, "INDENT", Len(ts))
  BY <1>8, <1>9
<1>11. BlocksAt(us, Len(us)) = BlocksAt(ts, Len(ts)) - n
  BY <1>8, <1>9, <1>10 DEF BlocksAt
<1> QED BY <1>5, <1>10, <1>11 DEF us, s

LEMMA IndentAdded ==
    ASSUME NEW ts \in Seq(Pieces), NEW t \in Pieces, t.kind = "INDENT"
    PROVE  LET us == Append(ts, t)
           IN  /\ Marked(us, ts)
               /\ BlocksAt(us, Len(us)) = BlocksAt(ts, Len(ts)) + 1
               /\ Count(us, "INDENT", Len(us)) - Count(ts, "INDENT", Len(ts)) = 1
<1> DEFINE us == Append(ts, t)
<1>1. Another(us, ts, t)
  BY AnotherToken
<1> HIDE DEF us
<1>2. Longer(us, ts) /\ Len(us) = Len(ts) + 1 /\ us[Len(us)] = t /\ Len(ts) \in Nat
  BY <1>1 DEF Another
<1>3. Marked(us, ts)
  <2>1. \A i \in Len(ts) + 1 .. Len(us) : i = Len(us)
    BY <1>2
  <2> QED BY <1>2, <2>1 DEF Marked, BlockMarks
<1>4. /\ Count(us, "INDENT", Len(us)) = Count(ts, "INDENT", Len(ts)) + 1
      /\ Count(us, "DEDENT", Len(us)) = Count(ts, "DEDENT", Len(ts)) + 0
      /\ Count(ts, "INDENT", Len(ts)) \in Nat /\ Count(ts, "DEDENT", Len(ts)) \in Nat
  <2>1. /\ \A kind : Count(us, kind, Len(us)) =
                        Count(ts, kind, Len(ts)) + (IF t.kind = kind THEN 1 ELSE 0)
        /\ \A kind : Count(ts, kind, Len(ts)) \in Nat
    BY <1>1, AnotherCount
  <2> QED BY <2>1
<1>5. BlocksAt(us, Len(us)) = BlocksAt(ts, Len(ts)) + 1
  BY <1>4 DEF BlocksAt
<1>6. Count(us, "INDENT", Len(us)) - Count(ts, "INDENT", Len(ts)) = 1
  BY <1>4
<1> QED BY <1>3, <1>5, <1>6 DEF us

\* The end closes every block.
LEMMA EndComes ==
    ASSUME NEW ts, NEW wd, NEW st, Lined(ts, wd, st), Steady(ts, wd, st),
           NEW at \in Nat \ {0}, NEW t \in Pieces, t.kind = "EOF"
    PROVE  Accounted(Append(ts \o Dedents(Len(st) - 1, at), t), wd)
<1> DEFINE ms == ts \o Dedents(Len(st) - 1, at)
           us == Append(ms, t)
           n == Len(us)
<1>1. Rising(st) /\ ts \in Seq(Pieces) /\ BlocksAt(ts, Len(ts)) = Len(st) - 1
  BY DEF Lined
<1>2. Len(st) \in Nat \ {0} /\ \A x \in Range(st) : x \in Nat
  BY <1>1, RisingShape
<1>3. Len(st) - 1 \in Nat
  BY <1>2
<1>4. /\ Marked(ms, ts)
      /\ BlocksAt(ms, Len(ms)) = BlocksAt(ts, Len(ts)) - (Len(st) - 1)
      /\ Count(ms, "INDENT", Len(ms)) = Count(ts, "INDENT", Len(ts))
  BY <1>1, <1>3, DedentsAdded
<1> HIDE DEF ms
<1>5. /\ Accounted(ms, wd) /\ ms \in Seq(Pieces)
      /\ OpenAt(Widths(ms, wd), Len(ms)) = Range(st)
      /\ \A j : LastHead(ms, j, Len(ms) + 1) =>
            /\ Count(ms, "INDENT", j) = Count(ts, "INDENT", Len(ts))
            /\ BlocksAt(ms, j) = Len(st) - 1
  BY <1>4, MarksKeep
<1>6. Another(us, ms, t)
  BY <1>5, AnotherToken
<1> HIDE DEF us
<1>7. /\ us[n] = t /\ n = Len(ms) + 1 /\ Longer(us, ms) /\ Len(ms) \in Nat
  BY <1>6 DEF Another
<1>8. WidthOf(us, wd, Len(us)) = 0
  BY <1>7 DEF WidthOf
<1>9. /\ OpenAt(Widths(us, wd), Len(us)) = Shallow(OpenAt(Widths(ms, wd), Len(ms)), 0)
      /\ \A j : LastHead(us, j, Len(us)) => LastHead(ms, j, Len(ms) + 1) /\ j \in 0 .. Len(ms)
      /\ Placed(us, wd, Len(us)) => Accounted(us, wd)
  <2>1. Len(ms) < Len(us)
    BY <1>7
  <2>2. Len(us) \in Heads(us)
    BY <1>6, AnotherHead
  <2>3. \A i \in Heads(us) : i <= Len(ms) \/ i = Len(us)
    BY <1>6, AnotherHead
  <2>4. WidthOf(us, wd, Len(us)) \in Nat
    BY <1>8
  <2>5. /\ OpenAt(Widths(us, wd), Len(us)) =
              Shallow(OpenAt(Widths(ms, wd), Len(ms)), WidthOf(us, wd, Len(us)))
        /\ \A j : LastHead(us, j, Len(us)) => LastHead(ms, j, Len(ms) + 1) /\ j \in 0 .. Len(ms)
        /\ Placed(us, wd, Len(us)) => Accounted(us, wd)
    BY <1>5, <1>7, <2>1, <2>2, <2>3, <2>4, NewHead
  <2> QED BY <1>8, <2>5
<1>10. OpenAt(Widths(us, wd), Len(us)) = {0}
  <2>1. \A x \in Nat : x <= 0 => x = 0
    OBVIOUS
  <2>2. Shallow(Range(st), 0) = {0}
    BY <1>2, <2>1 DEF Shallow
  <2> QED BY <1>5, <1>9, <2>2
<1>11. Cardinality({0}) = 1
  BY FS_Singleton
<1>12. BlocksAt(us, Len(us)) = 0
  <2>1. t.kind \notin BlockMarks
    BY DEF BlockMarks
  <2>2. BlocksAt(us, Len(us)) = BlocksAt(ms, Len(ms))
    BY <1>6, <2>1, AnotherCount
  <2> QED BY <1>1, <1>3, <1>4, <2>2
<1>13. Count(us, "INDENT", Len(us)) = Count(ts, "INDENT", Len(ts))
       /\ Count(ts, "INDENT", Len(ts)) \in Nat
  <2>1. /\ \A kind : Count(us, kind, Len(us)) =
                        Count(ms, kind, Len(ms)) + (IF t.kind = kind THEN 1 ELSE 0)
        /\ \A kind : Count(ms, kind, Len(ms)) \in Nat
    BY <1>6, AnotherCount
  <2> QED BY <1>4, <2>1
<1>14. ASSUME NEW j, LastHead(us, j, Len(us)) PROVE OneBlock(us, BlocksAt(us, Len(us)), Len(us), j)
  <2>1. LastHead(ms, j, Len(ms) + 1) /\ j \in 0 .. Len(ms)
    BY <1>9, <1>14
  <2>2. Count(us, "INDENT", j) = Count(ms, "INDENT", j) /\ BlocksAt(us, j) = BlocksAt(ms, j)
    BY <1>7, <2>1, CountKept
  <2>3. Count(us, "INDENT", j) = Count(us, "INDENT", Len(us)) /\ BlocksAt(us, j) = Len(st) - 1
    BY <1>5, <1>13, <2>1, <2>2
  <2>4. Count(us, "INDENT", Len(us)) - Count(us, "INDENT", j) = 0
    BY <1>13, <2>3
  <2>5. ~ (0 > BlocksAt(us, j))
    BY <1>3, <2>3
  <2> QED BY <1>12, <2>4, <2>5 DEF OneBlock
<1>15. Placed(us, wd, Len(us))
  BY <1>8, <1>10, <1>11, <1>12, <1>14 DEF Placed
<1> QED BY <1>9, <1>15 DEF us, ms

-----------------------------------------------------------------------------
\* handle_indentation measures a plain indent as Width does.
LEMMA IndentIsWidth ==
    ASSUME TypeOK, PlainIndents, pos \in LineStarts
    PROVE  /\ Indent = Width(pos) /\ Indent \in Nat
           /\ Body \in pos .. Len(src) + 1
           /\ \A r \in pos .. Body - 1 : Char(r) \in Blank
           /\ Char(Body) \notin Blank /\ Char(Body) # "\\"
           /\ Body > pos => Char(Body) \notin {"\r", End}
<1> DEFINE a == After(pos, {Space})
           b == After(a, {"\t"})
           e == After(pos, Blank)
           n == Len(src) + 1
<1>1. n \in Nat /\ pos \in Nat \ {0} /\ pos <= n
  BY Text DEF TypeOK, LineStarts
<1>2. /\ End \notin {Space} /\ End \notin {"\t"} /\ End \notin Blank /\ Space # "\t"
      /\ Blank = {Space, "\t"}
  BY Zenon DEF End, Space, Blank
<1>3. /\ a \in pos .. n /\ Char(a) # Space
      /\ \A r \in pos .. a - 1 : Char(r) = Space
  <2>1. /\ a \in pos .. n /\ Char(a) \notin {Space}
        /\ \A r \in pos .. a - 1 : Char(r) \in {Space}
    BY <1>1, <1>2, AfterEnds
  <2> QED BY <2>1
<1>4. a \in Nat \ {0} /\ a <= n
  BY <1>1, <1>3
<1>5. /\ b \in a .. n /\ Char(b) # "\t"
      /\ \A r \in a .. b - 1 : Char(r) = "\t"
  <2>1. /\ b \in a .. n /\ Char(b) \notin {"\t"}
        /\ \A r \in a .. b - 1 : Char(r) \in {"\t"}
    BY <1>2, <1>4, AfterEnds
  <2> QED BY <2>1
<1>6. /\ e \in pos .. n /\ Char(e) \notin Blank
      /\ \A r \in pos .. e - 1 : Char(r) \in Blank
  BY <1>1, <1>2, AfterEnds
<1>7. /\ \A q \in pos .. e - 2 : ~ (src[q] = "\t" /\ src[q + 1] = Space)
      /\ e > pos => Char(e) \notin {"\r", End}
      /\ Char(e) # "\\"
  BY DEF PlainIndents
<1>8. \A p \in pos .. e - 1 : Char(p) = src[p]
  <2>1. \A p \in pos .. e - 1 : p \in Int /\ Char(p) # End
    <3>1. \A p \in pos .. e - 1 : p \in Int
      BY <1>1
    <3>2. \A p \in pos .. e - 1 : Char(p) # End
      BY <1>2, <1>6
    <3> QED BY <3>1, <3>2
  <2> QED BY <2>1, Text
<1>9. Spaces = a - pos /\ pos + Spaces = a
  BY <1>1, <1>4 DEF Spaces
<1>10. Tabs = b - a /\ Body = b
  BY <1>1, <1>4, <1>5, <1>9 DEF Tabs, Body
<1> HIDE DEF n, a, b, e
<1>11. \A r \in pos .. b - 1 : (r \in pos .. a - 1 \/ r \in a .. b - 1) /\ r \in Int
  BY <1>1, <1>3, <1>4, <1>5
<1>12. \A r \in pos .. b - 1 : Char(r) \in Blank
  BY <1>2, <1>3, <1>5, <1>11
<1>13. pos \in Nat /\ a \in Nat /\ b \in Nat /\ e \in Nat /\ pos <= a /\ a <= b /\ pos <= e
  BY <1>1, <1>3, <1>4, <1>5, <1>6
<1>14. e \notin pos .. b - 1
  BY <1>6, <1>12
<1>15. e >= b
  BY <1>13, <1>14
<1>16. e = b
  <2> SUFFICES ASSUME e # b PROVE FALSE
    OBVIOUS
  <2>1. b < e /\ b \in pos .. e - 1
    BY <1>13, <1>15
  <2>2. Char(b) = Space /\ src[b] = Space
    <3>1. Char(b) \in Blank /\ Char(b) = src[b]
      BY <1>6, <1>8, <2>1
    <3> QED BY <1>2, <1>5, <3>1
  <2>3. a # b
    BY <1>3, <2>2
  <2>4. b - 1 \in a .. b - 1 /\ b - 1 \in pos .. e - 2 /\ b - 1 \in pos .. e - 1 /\ (b - 1) + 1 = b
    BY <1>13, <2>1, <2>3
  <2>5. src[b - 1] = "\t"
    BY <1>5, <1>8, <2>4
  <2> QED BY <1>7, <2>2, <2>4, <2>5
<1>17. Width(pos) = Cardinality({q \in pos .. b - 1 : src[q] = Space})
                    + 8 * Cardinality({q \in pos .. b - 1 : src[q] = "\t"})
  BY <1>16 DEF Width, e
<1>18. {q \in pos .. b - 1 : src[q] = Space} = pos .. a - 1
  <2>1. \A q \in pos .. a - 1 : q \in pos .. b - 1
    BY <1>13
  <2>2. \A q \in pos .. a - 1 : src[q] = Space
    BY <1>3, <1>8, <1>16, <2>1
  <2>3. \A q \in a .. b - 1 : q \in pos .. b - 1
    BY <1>13
  <2>4. \A q \in a .. b - 1 : src[q] = "\t"
    BY <1>5, <1>8, <1>16, <2>3
  <2> QED BY <1>2, <1>11, <2>1, <2>2, <2>4
<1>19. {q \in pos .. b - 1 : src[q] = "\t"} = a .. b - 1
  <2>1. \A q \in pos .. a - 1 : q \in pos .. b - 1
    BY <1>13
  <2>2. \A q \in pos .. a - 1 : src[q] = Space
    BY <1>3, <1>8, <1>16, <2>1
  <2>3. \A q \in a .. b - 1 : q \in pos .. b - 1
    BY <1>13
  <2>4. \A q \in a .. b - 1 : src[q] = "\t"
    BY <1>5, <1>8, <1>16, <2>3
  <2> QED BY <1>2, <1>11, <2>2, <2>3, <2>4
<1>20. Cardinality(pos .. a - 1) = a - pos /\ Cardinality(a .. b - 1) = b - a
  <2>1. /\ Cardinality(pos .. a - 1) = IF pos > a - 1 THEN 0 ELSE (a - 1) - pos + 1
        /\ Cardinality(a .. b - 1) = IF a > b - 1 THEN 0 ELSE (b - 1) - a + 1
    <3>1. pos \in Int /\ a - 1 \in Int /\ a \in Int /\ b - 1 \in Int
      BY <1>1, <1>13
    <3> QED BY <3>1, FS_Interval
  <2> QED BY <1>1, <1>13, <2>1
<1>21. Indent = Width(pos)
  BY <1>9, <1>10, <1>17, <1>18, <1>19, <1>20 DEF Indent
<1>22. Indent \in Nat
  BY <1>1, <1>9, <1>10, <1>13 DEF Indent
<1>23. Body = e
  BY <1>10, <1>16
<1>24. \A r \in pos .. Body - 1 : Char(r) \in Blank
  BY <1>6, <1>23
<1> QED BY <1>6, <1>7, <1>21, <1>22, <1>23, <1>24 DEF n

-----------------------------------------------------------------------------
(***************************************************************************)
(* The scan.  Every turn keeps LayoutInv.                                  *)
(***************************************************************************)
WidthTable == [p \in Nat |-> Width(p)]
Blocks == Lined(tokens, WidthTable, indent_stack)
AsBefore == Steady(tokens, WidthTable, indent_stack)

\* Where the scan may be: at the start of a line, on a line that does not
\* count, within one that does, or before its first token.
AtStart == /\ at_line_start /\ AsBefore
           /\ pos = 1 \/ src[pos - 1] \in {"\n", "\r"}
           /\ paren_depth > 0 => Busy(tokens)
           /\ paren_depth = 0 => Fresh(tokens) /\ pos = LineBegin(tokens, Len(tokens))
OnBlank == /\ ~at_line_start /\ AsBefore /\ paren_depth = 0 /\ Fresh(tokens)
           /\ Char(pos) \in {"\n", "#", End}
Within == ~at_line_start /\ AsBefore /\ Busy(tokens)
Due == /\ ~at_line_start /\ Coming(tokens, WidthTable, indent_stack)
       /\ Char(pos) \notin Blank \cup {"\n", "\r", "#", "\\", End}
Somewhere == AtStart \/ OnBlank \/ Within \/ Due

LineStart == Max({p \in LineStarts : p <= pos})
LayoutInv ==
    PlainIndents =>
        /\ Accounted(tokens, WidthTable)
        /\ outcome = "scanning" => Blocks /\ Somewhere
        /\ outcome = "bad indent" =>
              Width(LineStart) \notin OpenAt(Widths(tokens, WidthTable), Len(tokens))

\* A turn of the loop begins.
Ready == /\ TypeOK /\ PlainIndents /\ Blocks /\ Somewhere
         /\ outcome = "scanning" /\ src' = src /\ TypeOK'

LEMMA SameText ==
    ASSUME src' = src
    PROVE  /\ PlainIndents' <=> PlainIndents
           /\ WidthTable' = WidthTable /\ LineStarts' = LineStarts
           /\ \A p : Width(p)' = Width(p)
<1>1. \A p : Width(p)' = Width(p)
  BY DEF Width, After, Char
<1>2. WidthTable' = WidthTable
  BY <1>1 DEF WidthTable
<1>3. LineStarts' = LineStarts
  BY DEF LineStarts
<1>4. PlainIndents' <=> PlainIndents
  BY <1>3 DEF PlainIndents, After, Char
<1> QED BY <1>1, <1>2, <1>3, <1>4

LEMMA CharStays ==
    ASSUME src' = src, NEW p
    PROVE  Char(p)' = Char(p)
BY DEF Char

\* The turn has gone well.
LEMMA GoesOn ==
    ASSUME src' = src, outcome' = "scanning",
           Lined(tokens', WidthTable, indent_stack'), Somewhere'
    PROVE  LayoutInv'
<1>1. WidthTable' = WidthTable
  BY SameText
<1>2. Blocks'
  BY <1>1 DEF Blocks
<1>3. Accounted(tokens', WidthTable')
  BY <1>1 DEF Lined
<1> QED BY <1>2, <1>3 DEF LayoutInv

\* No token is made, and the scan is over.
LEMMA Stops ==
    ASSUME Ready, tokens' = tokens, outcome' \notin {"scanning", "bad indent"}
    PROVE  LayoutInv'
<1>1. src' = src
  BY DEF Ready
<1>2. WidthTable' = WidthTable
  BY <1>1, SameText
<1>3. Accounted(tokens', WidthTable')
  BY <1>2 DEF Ready, Blocks, Lined
<1> QED BY <1>3 DEF LayoutInv

\* No token is made, and the scan goes on somewhere.
LEMMA Moves ==
    ASSUME Ready, UNCHANGED <<tokens, indent_stack, outcome>>, Somewhere'
    PROVE  LayoutInv'
BY GoesOn DEF Ready, Blocks

LEMMA SteadyStays ==
    ASSUME Ready, UNCHANGED <<tokens, indent_stack>>
    PROVE  /\ AsBefore => AsBefore'
           /\ Busy(tokens) => Busy(tokens')
           /\ Fresh(tokens) => Fresh(tokens')
<1>1. src' = src
  BY DEF Ready
<1>2. WidthTable' = WidthTable
  BY <1>1, SameText
<1> QED BY <1>2 DEF AsBefore

LEMMA AtLineStart ==
    ASSUME Ready, AtIndent
    PROVE  /\ AtStart /\ pos \in LineStarts
           /\ pos \in Nat /\ Char(pos) = src[pos] /\ Char(pos) \notin {"\n", "\r", End}
<1>1. AtStart
  BY DEF Ready, Somewhere, OnBlank, Within, Due, AtIndent
<1>2. pos \in Nat \ {0} /\ pos <= Len(src) /\ pos \in DOMAIN src
  BY Text DEF Ready, TypeOK, AtIndent, Scanning
<1>3. pos \in LineStarts
  BY <1>1, <1>2 DEF AtStart, LineStarts
<1>4. Char(pos) = src[pos] /\ src[pos] \in Chars
  BY <1>2 DEF Char, Ready, TypeOK
<1>5. Char(pos) # End
  BY <1>4, EndIsNoChar
<1> QED BY <1>1, <1>2, <1>3, <1>4, <1>5 DEF AtIndent

LEMMA BracketLineTurn ==
    ASSUME Ready, InBrackets
    PROVE  LayoutInv'
<1>1. UNCHANGED <<tokens, indent_stack, outcome>> /\ ~at_line_start' /\ paren_depth > 0 /\ AtIndent
  BY DEF InBrackets
<1>2. AsBefore /\ Busy(tokens)
  BY <1>1, AtLineStart DEF AtStart
<1>3. Within'
  BY <1>1, <1>2, SteadyStays DEF Within
<1> QED BY <1>1, <1>3, Moves DEF Somewhere

LEMMA BlankLineTurn ==
    ASSUME Ready, BlankLine
    PROVE  LayoutInv'
<1>1. /\ UNCHANGED <<tokens, indent_stack, outcome, paren_depth>> /\ ~at_line_start'
      /\ paren_depth = 0 /\ AtIndent /\ pos' = Body /\ EndsLine(Body)
  BY DEF BlankLine
<1>2. AsBefore /\ Fresh(tokens)
  BY <1>1, AtLineStart DEF AtStart
<1>3. Char(pos)' = Char(pos')
  BY DEF Char, Ready
<1>4. Char(pos)' \in {"\n", "#"}
  <2>1. Char(pos') \in {"\n", "#"}
    BY <1>1 DEF EndsLine
  <2> QED BY <1>3, <2>1
<1>5. OnBlank'
  BY <1>1, <1>2, <1>4, SteadyStays DEF OnBlank
<1> QED BY <1>1, <1>5, Moves DEF Somewhere

LEMMA CodeLineHere ==
    ASSUME Ready, CodeLine
    PROVE  /\ AsBefore /\ Fresh(tokens) /\ pos = LineBegin(tokens, Len(tokens))
           /\ pos \in LineStarts /\ pos \in Nat
           /\ Indent \in Nat /\ Indent = Width(pos)
           /\ Indent = WidthTable[LineBegin(tokens, Len(tokens))]
           /\ Body \in pos .. Len(src) + 1 /\ Len(src) \in Nat
           /\ \A r \in pos .. Body - 1 : Char(r) \in Blank
           /\ Char(Body) \notin Blank \cup {"\n", "\r", "#", "\\", End}
<1>1. AtIndent /\ paren_depth = 0 /\ ~EndsLine(Body)
  BY DEF CodeLine
<1>2. /\ AtStart /\ pos \in LineStarts
      /\ pos \in Nat /\ Char(pos) = src[pos] /\ Char(pos) \notin {"\n", "\r", End}
  BY <1>1, AtLineStart
<1>3. AsBefore /\ Fresh(tokens) /\ pos = LineBegin(tokens, Len(tokens))
  BY <1>1, <1>2 DEF AtStart
<1>4. /\ Indent = Width(pos) /\ Indent \in Nat
      /\ Body \in pos .. Len(src) + 1
      /\ \A r \in pos .. Body - 1 : Char(r) \in Blank
      /\ Char(Body) \notin Blank /\ Char(Body) # "\\"
      /\ Body > pos => Char(Body) \notin {"\r", End}
  BY <1>2, IndentIsWidth DEF Ready
<1>5. Indent = WidthTable[LineBegin(tokens, Len(tokens))]
  BY <1>2, <1>3, <1>4 DEF WidthTable
<1>6. Len(src) \in Nat
  BY Text DEF Ready
<1>7. Body > pos \/ Body = pos
  BY <1>2, <1>4, <1>6
<1>8. Char(Body) \notin {"\r", End}
  BY <1>2, <1>4, <1>7
<1>9. Char(Body) \notin {"\n", "#"}
  BY <1>1 DEF EndsLine
<1> QED BY <1>2, <1>3, <1>4, <1>5, <1>6, <1>8, <1>9

\* The line's first token is next.
LEMMA BecomesDue ==
    ASSUME Ready, CodeLine, pos' = Body, ~at_line_start', outcome' = "scanning",
           Lined(tokens', WidthTable, indent_stack'), Coming(tokens', WidthTable, indent_stack')
    PROVE  LayoutInv'
<1>1. src' = src
  BY DEF Ready
<1>2. WidthTable' = WidthTable
  BY <1>1, SameText
<1>3. Char(pos)' = Char(Body)
  BY <1>1 DEF Char
<1>4. Char(Body) \notin Blank \cup {"\n", "\r", "#", "\\", End}
  BY CodeLineHere
<1>5. Char(pos)' \notin Blank \cup {"\n", "\r", "#", "\\", End}
  BY <1>3, <1>4
<1>6. Due'
  BY <1>2, <1>5 DEF Due
<1> QED BY <1>1, <1>6, GoesOn DEF Somewhere

LEMMA DeeperTurn ==
    ASSUME Ready, Deeper
    PROVE  LayoutInv'
<1> DEFINE st == indent_stack
           ts == tokens
<1>1. /\ CodeLine /\ Indent >= Last(st) /\ pos' = Body /\ ~at_line_start' /\ outcome' = "scanning"
      /\ Indent = Last(st) => indent_stack' = st /\ tokens' = ts
      /\ Indent # Last(st) => /\ indent_stack' = Append(st, Indent)
                              /\ tokens' = Append(ts, Mark("INDENT", Body))
  BY DEF Deeper, Ready
<1>2. /\ Steady(ts, WidthTable, st) /\ Fresh(ts)
      /\ Indent \in Nat /\ Indent = WidthTable[LineBegin(ts, Len(ts))]
      /\ Body \in pos .. Len(src) + 1 /\ Len(src) \in Nat /\ pos \in Nat
  BY <1>1, CodeLineHere DEF AsBefore
<1>3. Lined(ts, WidthTable, st)
  BY DEF Ready, Blocks
<1>4. /\ ts \in Seq(Pieces) /\ Rising(st) /\ BlocksAt(ts, Len(ts)) = Len(st) - 1
  BY <1>3 DEF Lined
<1>5. /\ Len(st) \in Nat \ {0} /\ Last(st) \in Nat /\ Last(st) \in Range(st)
      /\ \A x \in Range(st) : x \in Nat /\ x <= Last(st)
  BY <1>4, RisingShape
<1>6. Len(ts) \in Nat
  BY <1>4
<1> HIDE DEF st, ts
<1>7. CASE Indent = Last(st)
  <2>1. Marked(ts, ts)
    <3>1. \A i \in Len(ts) + 1 .. Len(ts) : FALSE
      BY <1>6
    <3>2. Len(ts) <= Len(ts)
      BY <1>6
    <3> QED BY <1>4, <3>1, <3>2 DEF Marked, Longer
  <2>2. Range(st) = Shallow(Range(st), Last(st))
    BY <1>5 DEF Shallow
  <2>3. Count(ts, "INDENT", Len(ts)) - Count(ts, "INDENT", Len(ts)) =
           (IF Len(st) > Len(st) THEN 1 ELSE 0)
    <3>1. Count(ts, "INDENT", Len(ts)) \in Nat
      BY <1>6, CountEach
    <3> QED BY <1>5, <3>1
  <2>4. Last(st) = WidthTable[LineBegin(ts, Len(ts))]
    BY <1>2, <1>7
  <2>5. Lined(ts, WidthTable, st) /\ Coming(ts, WidthTable, st)
    BY <1>2, <1>3, <1>4, <2>1, <2>2, <2>3, <2>4, LineComes
  <2>6. tokens' = ts /\ indent_stack' = st
    BY <1>1, <1>7
  <2> QED BY <1>1, <2>5, <2>6, BecomesDue
<1>8. CASE Indent # Last(st)
  <2> DEFINE su == Append(st, Indent)
             t == Mark("INDENT", Body)
             us == Append(ts, t)
  <2>1. t \in Pieces /\ t.kind = "INDENT"
    <3>1. Body \in Nat /\ Body - 1 \in Nat
      <4>1. pos \in Nat \ {0}
        BY DEF Ready, TypeOK
      <4> QED BY <1>2, <4>1
    <3>2. "INDENT" \in Kinds
      BY DEF Kinds, LayoutKinds
    <3> QED BY <3>1, <3>2 DEF Mark, Token, Pieces
  <2> HIDE DEF t
  <2>2. /\ Marked(us, ts)
        /\ BlocksAt(us, Len(us)) = BlocksAt(ts, Len(ts)) + 1
        /\ Count(us, "INDENT", Len(us)) - Count(ts, "INDENT", Len(ts)) = 1
    BY <1>4, <2>1, IndentAdded
  <2>3. Indent > Last(st)
    BY <1>1, <1>2, <1>5, <1>8
  <2>4. /\ Rising(su) /\ Len(su) = Len(st) + 1
        /\ Last(su) = Indent /\ Range(su) = Range(st) \cup {Indent}
    BY <1>2, <1>4, <2>3, RisingAppend
  <2> HIDE DEF su, us
  <2>5. Range(su) = Shallow(Range(st), Last(su))
    <3>1. \A x \in Range(st) : x <= Indent
      BY <1>2, <1>5, <2>3
    <3> QED BY <2>4, <3>1 DEF Shallow
  <2>6. BlocksAt(us, Len(us)) = Len(su) - 1
    BY <1>4, <1>5, <2>2, <2>4
  <2>7. Len(su) > Len(st)
    BY <1>5, <2>4
  <2>8. Last(su) = WidthTable[LineBegin(ts, Len(ts))]
    BY <1>2, <2>4
  <2>9. Count(us, "INDENT", Len(us)) - Count(ts, "INDENT", Len(ts)) =
           (IF Len(su) > Len(st) THEN 1 ELSE 0)
    BY <2>2, <2>7
  <2>10. Lined(us, WidthTable, su) /\ Coming(us, WidthTable, su)
    BY <1>2, <1>3, <2>2, <2>4, <2>5, <2>6, <2>8, <2>9, LineComes
  <2>11. tokens' = us /\ indent_stack' = su
    BY <1>1, <1>8 DEF us, su, t, st, ts
  <2> QED BY <1>1, <2>10, <2>11, BecomesDue
<1> QED BY <1>7, <1>8

\* The line begins where its indentation does.
LEMMA LineStartIs ==
    ASSUME Ready, CodeLine, src' = src, pos' = Body
    PROVE  LineStart' = pos
<1>1. /\ pos \in LineStarts /\ pos \in Nat /\ Len(src) \in Nat
      /\ Body \in pos .. Len(src) + 1
      /\ \A r \in pos .. Body - 1 : Char(r) \in Blank
  BY CodeLineHere
<1> DEFINE S == {p \in LineStarts : p <= Body}
<1>2. pos <= Body /\ Body \in Nat
  BY <1>1
<1>3. S \subseteq 1 .. Len(src) /\ pos \in S
  <2>1. LineStarts \subseteq 1 .. Len(src)
    BY Text DEF Ready, LineStarts
  <2> QED BY <1>1, <1>2, <2>1
<1>4. ASSUME NEW p \in S PROVE p <= pos
  <2> SUFFICES ASSUME p > pos PROVE FALSE
    BY <1>1, <1>3
  <2>1. p \in 1 .. Len(src) /\ p <= Body /\ (p = 1 \/ src[p - 1] \in {"\n", "\r"})
    BY <1>3 DEF LineStarts
  <2>2. pos \in Nat \ {0}
    BY DEF Ready, TypeOK
  <2>3. p # 1 /\ p - 1 \in pos .. Body - 1 /\ p - 1 \in 1 .. Len(src)
    BY <1>1, <1>2, <2>1, <2>2
  <2>4. Char(p - 1) = src[p - 1]
    BY <2>3, Text DEF Char, Ready
  <2>5. Char(p - 1) \in Blank
    BY <1>1, <2>3
  <2>6. "\n" \notin Blank /\ "\r" \notin Blank
    BY Zenon DEF Blank, Space
  <2> QED BY <2>1, <2>3, <2>4, <2>5, <2>6
<1>5. Max(S) \in S /\ \A x \in S : x <= Max(S)
  BY <1>1, <1>3, MaxIsMost
<1>6. Max(S) = pos
  <2>1. Max(S) \in 1 .. Len(src) /\ Max(S) <= pos /\ pos <= Max(S)
    BY <1>3, <1>4, <1>5
  <2> HIDE DEF S
  <2> QED BY <1>1, <2>1
<1>7. LineStarts' = LineStarts
  BY SameText
<1> QED BY <1>6, <1>7 DEF LineStart

LEMMA ShallowerTurn ==
    ASSUME Ready, Shallower
    PROVE  LayoutInv'
<1> DEFINE st == indent_stack
           ts == tokens
           su == Kept(Indent)
           n == Len(st) - Len(su)
           us == ts \o Dedents(n, Body)
<1>0. src' = src
  BY DEF Ready
<1>1. /\ CodeLine /\ Indent < Last(st) /\ pos' = Body /\ ~at_line_start'
      /\ outcome' = IF MatchesOpen(Indent) THEN "scanning" ELSE "bad indent"
      /\ indent_stack' = su /\ tokens' = us
  BY DEF Shallower, Ready
<1>2. /\ Steady(ts, WidthTable, st) /\ Fresh(ts)
      /\ Indent \in Nat /\ Indent = WidthTable[LineBegin(ts, Len(ts))]
      /\ Indent = Width(pos)
      /\ Body \in pos .. Len(src) + 1 /\ Len(src) \in Nat
  BY <1>1, CodeLineHere DEF AsBefore
<1>3. Lined(ts, WidthTable, st)
  BY DEF Ready, Blocks
<1>4. /\ ts \in Seq(Pieces) /\ Rising(st) /\ BlocksAt(ts, Len(ts)) = Len(st) - 1
  BY <1>3 DEF Lined
<1>5. Len(st) \in Nat \ {0}
  BY <1>4, RisingShape
<1>6. /\ Rising(su) /\ Len(su) <= Len(st)
      /\ Range(su) = {x \in Range(st) : x <= Indent}
      /\ MatchesOpen(Indent) <=> Indent \in Range(st)
  BY <1>2, <1>4, KeptRising
<1> HIDE DEF su
<1>7. Len(su) \in Nat \ {0} /\ Last(su) \in Range(su) /\ \A x \in Range(su) : x \in Nat /\ x <= Last(su)
  BY <1>6, RisingShape
<1>8. n \in Nat
  BY <1>5, <1>6, <1>7
<1>9. Body \in Nat \ {0}
  <2>1. pos \in Nat \ {0}
    BY DEF Ready, TypeOK
  <2> QED BY <1>2, <2>1
<1> HIDE DEF n
<1>10. /\ Marked(us, ts)
       /\ BlocksAt(us, Len(us)) = BlocksAt(ts, Len(ts)) - n
       /\ Count(us, "INDENT", Len(us)) = Count(ts, "INDENT", Len(ts))
  BY <1>4, <1>8, <1>9, DedentsAdded
<1> HIDE DEF us, st, ts
<1>11. CASE MatchesOpen(Indent)
  <2>1. Indent \in Range(su)
    <3>1. Indent <= Indent
      BY <1>2
    <3> QED BY <1>6, <1>11, <3>1
  <2>2. Last(su) = Indent
    <3>1. Indent <= Last(su) /\ Last(su) <= Indent /\ Last(su) \in Nat
      BY <1>6, <1>7, <2>1
    <3> QED BY <1>2, <3>1
  <2>3. Range(su) = Shallow(Range(st), Last(su))
    BY <1>6, <2>1, <2>2 DEF Shallow
  <2>4. BlocksAt(us, Len(us)) = Len(su) - 1
    BY <1>4, <1>5, <1>7, <1>10 DEF n
  <2>5. Count(us, "INDENT", Len(us)) - Count(ts, "INDENT", Len(ts)) =
           (IF Len(su) > Len(st) THEN 1 ELSE 0)
    <3>1. Len(ts) \in Nat
      BY <1>4
    <3>2. Count(ts, "INDENT", Len(ts)) \in Nat
      BY <3>1, CountEach
    <3>3. ~ (Len(su) > Len(st))
      BY <1>5, <1>6, <1>7
    <3> QED BY <1>10, <3>2, <3>3
  <2>6. Last(su) = WidthTable[LineBegin(ts, Len(ts))]
    BY <1>2, <2>2
  <2>7. Lined(us, WidthTable, su) /\ Coming(us, WidthTable, su)
    BY <1>2, <1>3, <1>6, <1>10, <2>3, <2>4, <2>5, <2>6, LineComes
  <2>8. outcome' = "scanning" /\ tokens' = us /\ indent_stack' = su
    BY <1>1, <1>11
  <2> QED BY <1>1, <2>7, <2>8, BecomesDue
<1>12. CASE ~ MatchesOpen(Indent)
  <2>1. outcome' = "bad indent" /\ tokens' = us
    BY <1>1, <1>12
  <2>2. Accounted(us, WidthTable) /\ OpenAt(Widths(us, WidthTable), Len(us)) = Range(st)
    BY <1>2, <1>3, <1>10, MarksKeep
  <2>3. Indent \notin Range(st)
    BY <1>6, <1>12
  <2>4. LineStart' = pos
    BY <1>0, <1>1, LineStartIs
  <2>5. WidthTable' = WidthTable /\ \A p : Width(p)' = Width(p)
    BY <1>0, SameText
  <2>6. Width(LineStart)' = Indent
    <3>1. Width(LineStart)' = Width(pos)
      BY <1>0, <2>4 DEF Width, After, Char
    <3> QED BY <1>2, <3>1
  <2>7. Width(LineStart)' \notin OpenAt(Widths(tokens', WidthTable'), Len(tokens'))
    BY <2>1, <2>2, <2>3, <2>5, <2>6
  <2>8. Accounted(tokens', WidthTable')
    BY <2>1, <2>2, <2>5
  <2> QED BY <2>1, <2>7, <2>8 DEF LayoutInv
<1> QED BY <1>11, <1>12

\* What a branch that takes a character within a line finds.
LEMMA InLine ==
    ASSUME Ready, NEW S, Next1(S), S \cap {"\n", "\r"} = {}
    PROVE  /\ ~at_line_start /\ (OnBlank \/ Within \/ Due)
           /\ pos \in Nat \ {0} /\ pos <= Len(src) /\ Len(src) \in Nat
           /\ Char(pos) = src[pos] /\ Char(pos) \in S /\ Char(pos) # End
<1>1. Scanning /\ ~AtIndent /\ src[pos] \in S
  BY DEF Next1
<1>2. ~at_line_start
  BY <1>1 DEF AtIndent
<1>3. pos \in Nat \ {0} /\ pos <= Len(src) /\ Len(src) \in Nat /\ pos \in DOMAIN src
  BY <1>1, Text DEF Scanning, Ready, TypeOK
<1>4. Char(pos) = src[pos] /\ src[pos] \in Chars
  BY <1>3 DEF Char, Ready, TypeOK
<1>5. Char(pos) # End
  BY <1>4, EndIsNoChar
<1>6. OnBlank \/ Within \/ Due
  BY <1>2 DEF Ready, Somewhere, AtStart
<1> QED BY <1>1, <1>2, <1>3, <1>4, <1>5, <1>6

LEMMA WithinStays ==
    ASSUME Ready, Within, UNCHANGED <<tokens, indent_stack, outcome, at_line_start>>
    PROVE  LayoutInv'
<1>1. Within'
  BY SteadyStays DEF Within
<1> QED BY <1>1, Moves DEF Somewhere

LEMMA SkipLayout ==
    ASSUME Ready, SkipBlanks \/ Spin \/ Continuation
    PROVE  LayoutInv'
<1>1. CASE Spin
  <2>1. tokens' = tokens /\ outcome' = "spinning"
    BY <1>1 DEF Spin, Stop
  <2> QED BY <2>1, Stops
<1>2. CASE SkipBlanks \/ Continuation
  <2> DEFINE S == Blank \cup {"\\"}
  <2>1. Next1(S)
    BY <1>2 DEF SkipBlanks, Continuation, Next1
  <2>2. S \cap {"\n", "\r"} = {} /\ S \cap {"\n", "#", End} = {}
    BY Zenon DEF Blank, Space, End
  <2> HIDE DEF S
  <2>3. ~at_line_start /\ (OnBlank \/ Within \/ Due) /\ Char(pos) \in S
    BY <2>1, <2>2, InLine
  <2>4. Within
    BY <2>2, <2>3 DEF OnBlank, Due, S
  <2>5. UNCHANGED <<tokens, indent_stack, outcome, at_line_start>>
    BY <1>2 DEF SkipBlanks, Continuation, Skip
  <2> QED BY <2>4, <2>5, WithinStays
<1> QED BY <1>1, <1>2

LEMMA CommentLayout ==
    ASSUME Ready, Comment
    PROVE  LayoutInv'
<1>1. Next1({"#"}) /\ Skip(CommentEnd)
  BY DEF Comment
<1>2. UNCHANGED <<tokens, indent_stack, outcome, at_line_start, paren_depth, src>> /\ pos' = CommentEnd
  BY <1>1 DEF Skip
<1>3. {"#"} \cap {"\n", "\r"} = {}
  OBVIOUS
<1>4. /\ ~at_line_start /\ (OnBlank \/ Within \/ Due)
      /\ pos \in Nat \ {0} /\ pos <= Len(src) /\ Len(src) \in Nat /\ Char(pos) = "#"
  BY <1>1, <1>3, InLine
<1>5. CASE Within
  BY <1>2, <1>5, WithinStays
<1>6. CASE OnBlank
  <2>1. Char(CommentEnd) \notin Chars \ {"\n"}
    <3>1. End \notin Chars \ {"\n"}
      BY EndIsNoChar
    <3>2. pos <= Len(src) + 1
      BY <1>4
    <3> QED BY <1>4, <3>1, <3>2, AfterEnds DEF CommentEnd, Ready
  <2>2. Char(CommentEnd) \in Chars \cup {End}
    BY DEF Char, Ready, TypeOK
  <2>3. Char(CommentEnd) \in {"\n", "#", End}
    BY <2>1, <2>2
  <2>4. Char(pos)' \in {"\n", "#", End}
    <3>1. Char(pos)' = Char(CommentEnd)
      BY <1>2 DEF Char
    <3> QED BY <2>3, <3>1
  <2>5. AsBefore' /\ Fresh(tokens')
    BY <1>2, <1>6, SteadyStays DEF OnBlank
  <2>6. OnBlank'
    BY <1>2, <1>6, <2>4, <2>5 DEF OnBlank
  <2> QED BY <1>2, <2>6, Moves DEF Somewhere
<1>7. CASE Due
  BY <1>4, <1>7 DEF Due
<1> QED BY <1>4, <1>5, <1>6, <1>7

LEMMA NewlineLayout ==
    ASSUME Ready, Newline
    PROVE  LayoutInv'
<1>1. /\ Next1({"\n", "\r"}) /\ at_line_start' = TRUE /\ pos' = LineBreak + 1
      /\ UNCHANGED <<src, indent_stack, paren_depth, outcome>>
      /\ tokens' = IF paren_depth = 0 THEN Append(tokens, Token("NEWLINE", pos, LineBreak)) ELSE tokens
  BY DEF Newline, NewlineCounts
<1>2. /\ pos \in Nat \ {0} /\ Len(src) \in Nat /\ Char(pos) = src[pos] /\ src[pos] \in {"\n", "\r"}
  BY <1>1, Text DEF Next1, Scanning, Ready, TypeOK, Char
<1>3. paren_depth \in Nat
  BY DEF Ready, TypeOK
<1>4. WidthTable' = WidthTable
  BY <1>1, SameText
<1>5. LineBreak \in Nat \ {0} /\ src[LineBreak] \in {"\n", "\r"}
  <2>1. CASE LineBreak = pos
    BY <1>2, <2>1
  <2>2. CASE LineBreak = pos + 1 /\ Char(pos + 1) = "\n"
    <3>1. "\n" # End
      BY Distinct
    <3>2. pos + 1 \in Int
      BY <1>2
    <3>3. Char(pos + 1) = src[pos + 1]
      BY <2>2, <3>1, <3>2, Text DEF Ready
    <3> QED BY <1>2, <2>2, <3>3
  <2> QED BY <2>1, <2>2 DEF LineBreak
<1>6. pos' - 1 = LineBreak /\ pos' = LineBreak + 1
  BY <1>1, <1>5
<1>7. src'[pos' - 1] \in {"\n", "\r"}
  BY <1>1, <1>5, <1>6
<1>8. AsBefore /\ (OnBlank \/ Within \/ AtStart)
  BY <1>2 DEF Ready, Somewhere, AtStart, OnBlank, Within, Due
<1>9. CASE paren_depth > 0
  <2>1. tokens' = tokens
    BY <1>1, <1>3, <1>9
  <2>2. Busy(tokens)
    BY <1>3, <1>8, <1>9 DEF OnBlank, Within, AtStart
  <2>3. AsBefore' /\ Busy(tokens')
    BY <1>1, <1>8, <2>1, <2>2, SteadyStays
  <2>4. paren_depth' # 0
    BY <1>1, <1>3, <1>9
  <2>5. AtStart'
    BY <1>1, <1>7, <2>3, <2>4 DEF AtStart
  <2> QED BY <1>1, <2>1, <2>5, Moves DEF Somewhere
<1>10. CASE paren_depth = 0
  <2> DEFINE t == Token("NEWLINE", pos, LineBreak)
             us == Append(tokens, t)
  <2>1. t \in Pieces /\ t.kind = "NEWLINE" /\ t.to = LineBreak
    <3>1. "NEWLINE" \in Kinds
      BY DEF Kinds, LayoutKinds
    <3> QED BY <1>2, <1>5, <3>1 DEF Token, Pieces
  <2> HIDE DEF t
  <2>2. Another(us, tokens, t)
    BY <2>1, AnotherToken DEF Ready, TypeOK
  <2> HIDE DEF us
  <2>3. Lined(tokens, WidthTable, indent_stack) /\ Steady(tokens, WidthTable, indent_stack)
    BY <1>8 DEF Ready, Blocks, AsBefore
  <2>4. Lined(us, WidthTable, indent_stack) /\ Steady(us, WidthTable, indent_stack) /\ Fresh(us)
    BY <2>1, <2>2, <2>3, NewlineToken
  <2>5. tokens' = us
    BY <1>1, <1>10 DEF us, t
  <2>6. LineBegin(us, Len(us)) = LineBreak + 1
    <3>1. us[Len(us)] = t /\ Len(us) # 0
      BY <2>2 DEF Another
    <3> QED BY <2>1, <3>1 DEF LineBegin
  <2>7. AsBefore' /\ Fresh(tokens') /\ pos' = LineBegin(tokens', Len(tokens'))
    BY <1>1, <1>4, <1>6, <2>4, <2>5, <2>6 DEF AsBefore
  <2>8. ~ (paren_depth' > 0)
    BY <1>1, <1>10
  <2>9. AtStart'
    BY <1>1, <1>7, <2>7, <2>8 DEF AtStart
  <2>10. outcome' = "scanning"
    BY <1>1 DEF Ready
  <2> QED BY <1>1, <2>4, <2>5, <2>9, <2>10, GoesOn DEF Somewhere
<1> QED BY <1>3, <1>9, <1>10

-----------------------------------------------------------------------------
\* A word or a symbol is read, or refused.
Reads == \/ UNCHANGED tokens /\ outcome' \notin {"scanning", "bad indent"}
         \/ /\ UNCHANGED <<src, at_line_start, indent_stack, outcome>>
            /\ \E t : tokens' = Append(tokens, t) /\ t.kind \notin LayoutKinds \cup {"EOF"}

LEMMA EmitReads ==
    ASSUME NEW k, k \notin LayoutKinds \cup {"EOF"}, NEW to, NEW next, Emit(Token(k, pos, to), next)
    PROVE  Reads
<1>1. Token(k, pos, to).kind = k
  BY DEF Token
<1> QED BY <1>1 DEF Emit, Reads

LEMMA TextReads ==
    ASSUME NEW k, k \notin LayoutKinds \cup {"EOF"}, NEW to, EmitText(k, pos, to)
    PROVE  Reads
<1>1. CASE to = 0
  BY <1>1 DEF EmitText, Stop, Reads
<1>2. CASE to # 0
  BY <1>2, EmitReads DEF EmitText
<1> QED BY <1>1, <1>2

\* The characters a word or a symbol begins with.
Firsts == Alnum \cup Quotes \cup OperatorChars \cup OpenBrackets \cup CloseBrackets \cup {"$", "!"}

LEMMA TokenReads ==
    ASSUME CharLiteral \/ String \/ FString \/ RawOrBytes \/ DigitToken \/ Identifier
           \/ Operator \/ OpenBracket \/ CloseBracket \/ Unexpected
    PROVE  Reads /\ Next1(Firsts)
<1>0. /\ \A k \in {"CHAR_LIT", "STRING", "FSTRING", "NUMBER", "IDENT", "OP", "OPEN", "CLOSE"} :
            k \notin LayoutKinds \cup {"EOF"}
      /\ {"f"} \subseteq Alnum /\ {"r", "b"} \subseteq Alnum /\ Digits \subseteq Alnum
      /\ {"'"} \subseteq Quotes
  BY DEF LayoutKinds, Alnum, HexLetters, Quotes
<1>00. \A S : S \subseteq Firsts /\ Next1(S) => Next1(Firsts)
  BY DEF Next1
<1>1. CASE CharLiteral
  <2>1. Next1({"'"}) /\ {"'"} \subseteq Firsts
    BY <1>0, <1>1 DEF CharLiteral, Firsts
  <2>2. \E to : EmitText("CHAR_LIT", pos, to)
    BY <1>1 DEF CharLiteral
  <2> QED BY <1>0, <1>00, <2>1, <2>2, TextReads
<1>2. CASE String
  <2>1. Next1(Quotes) /\ Quotes \subseteq Firsts /\ EmitText("STRING", pos, StringEnd(pos))
    BY <1>2 DEF String, Firsts
  <2> QED BY <1>0, <1>00, <2>1, TextReads
<1>3. CASE FString
  <2>1. Next1({"f"}) /\ {"f"} \subseteq Firsts /\ EmitText("FSTRING", pos, FStringEnd(pos + 1))
    BY <1>0, <1>3 DEF FString, Prefixed, Firsts
  <2> QED BY <1>0, <1>00, <2>1, TextReads
<1>4. CASE RawOrBytes
  <2>1. Next1({"r", "b"}) /\ {"r", "b"} \subseteq Firsts /\ EmitText("STRING", pos, StringEnd(pos + 1))
    BY <1>0, <1>4 DEF RawOrBytes, Prefixed, Firsts
  <2> QED BY <1>0, <1>00, <2>1, TextReads
<1>5. CASE DigitToken
  <2>1. Next1(Digits) /\ Digits \subseteq Firsts
    BY <1>0, <1>5 DEF DigitToken, Firsts
  <2>2. \E k \in {"NUMBER", "IDENT"} : \E to : Emit(Token(k, pos, to), to + 1)
    BY <1>5 DEF DigitToken
  <2> QED BY <1>0, <1>00, <2>1, <2>2, EmitReads
<1>6. CASE Identifier
  <2>1. Next1(Alnum \ Digits) /\ Alnum \ Digits \subseteq Firsts
        /\ Emit(Token("IDENT", pos, After(pos, Alnum) - 1), After(pos, Alnum))
    BY <1>6 DEF Identifier, Firsts
  <2> QED BY <1>0, <1>00, <2>1, EmitReads
<1>7. CASE Operator
  <2>1. Next1(OperatorChars) /\ OperatorChars \subseteq Firsts
    BY <1>7 DEF Operator, Firsts
  <2>2. \E to, next : Emit(Token("OP", pos, to), next)
    BY <1>7 DEF Operator
  <2> QED BY <1>0, <1>00, <2>1, <2>2, EmitReads
<1>8. CASE OpenBracket
  <2>1. Next1(OpenBrackets) /\ OpenBrackets \subseteq Firsts
    BY <1>8 DEF OpenBracket, Firsts
  <2>2. /\ UNCHANGED <<src, at_line_start, indent_stack, outcome>>
        /\ tokens' = Append(tokens, Token("OPEN", pos, pos))
    BY <1>8 DEF OpenBracket
  <2>3. Token("OPEN", pos, pos).kind = "OPEN"
    BY DEF Token
  <2> QED BY <1>0, <1>00, <2>1, <2>2, <2>3 DEF Reads
<1>9. CASE CloseBracket
  <2>1. Next1(CloseBrackets) /\ CloseBrackets \subseteq Firsts
    BY <1>9 DEF CloseBracket, Firsts
  <2>2. /\ UNCHANGED <<src, at_line_start, indent_stack, outcome>>
        /\ tokens' = Append(tokens, Token("CLOSE", pos, pos))
    BY <1>9 DEF CloseBracket
  <2>3. Token("CLOSE", pos, pos).kind = "CLOSE"
    BY DEF Token
  <2> QED BY <1>0, <1>00, <2>1, <2>2, <2>3 DEF Reads
<1>10. CASE Unexpected
  <2>1. Next1({"$", "!"}) /\ {"$", "!"} \subseteq Firsts
    BY <1>10 DEF Unexpected, Firsts
  <2>2. Reads
    BY <1>10 DEF Unexpected, Stop, Reads
  <2> QED BY <1>00, <2>1, <2>2
<1> QED BY <1>1, <1>2, <1>3, <1>4, <1>5, <1>6, <1>7, <1>8, <1>9, <1>10

LEMMA FirstsLayNothing == Firsts \cap (Blank \cup {End, "\n", "\r", "#", "\\"}) = {}
<1> DEFINE L == Blank \cup {End, "\n", "\r", "#", "\\"}
<1>1. Vocabulary \cap L = {}
  BY VocabularyAssumption
<1>2. L = {Space, "\t", End, "\n", "\r", "#", "\\"}
  BY DEF Blank
<1> HIDE DEF L
<1>3. /\ Digits \cap L = {} /\ HexLetters \cap L = {} /\ {"o", "r", "x", "z", "_"} \cap L = {}
      /\ Quotes \cap L = {} /\ OpenBrackets \cap L = {} /\ CloseBrackets \cap L = {}
      /\ {"$", "!"} \cap L = {}
  BY <1>2, Zenon DEF Digits, HexLetters, Quotes, OpenBrackets, CloseBrackets, Space, End
<1>4. Alnum \cap L = {}
  BY <1>1, <1>3 DEF Alnum
<1>5. OperatorChars \cap L = {}
  <2> DEFINE C == {"+", "-", "*", "/", "%", "=", "<", ">", "&", "|", "^", "~",
                   ",", ":", ";", ".", "@", "!"}
  <2>1. ASSUME NEW op \in Operators PROVE op[1] \in C
    <3>1. \/ op \in {<<c>> : c \in C \ {"!"}}
          \/ op \in {<<c, "=">> : c \in {"+", "-", "*", "/", "%", "=", "!", "<", ">", "&", "|", "^", ":"}}
          \/ op \in {<<c, c>> : c \in {"*", "/", "<", ">", "."}}
          \/ op \in {<<"-", ">">>, <<"<", "<", "=">>, <<">", ">", "=">>, <<".", ".", ".">>,
                     <<"*", "*", "=">>}
      BY DEF Operators
    <3>2. ASSUME NEW c \in C, op = <<c>> \/ op = <<c, "=">> \/ op = <<c, c>>
          PROVE  op[1] \in C
      <4>1. op[1] = c
        <5>1. <<c>>[1] = c /\ <<c, "=">>[1] = c /\ <<c, c>>[1] = c
          OBVIOUS
        <5> QED BY <3>2, <5>1, Zenon
      <4> QED BY <3>2, <4>1, Zenon
    <3>3. ASSUME op \in {<<"-", ">">>, <<"<", "<", "=">>, <<">", ">", "=">>, <<".", ".", ".">>,
                         <<"*", "*", "=">>}
          PROVE  op[1] \in C
      <4>1. /\ <<"-", ">">>[1] = "-" /\ <<"<", "<", "=">>[1] = "<" /\ <<">", ">", "=">>[1] = ">"
            /\ <<".", ".", ".">>[1] = "." /\ <<"*", "*", "=">>[1] = "*"
        OBVIOUS
      <4>2. op[1] \in {"-", "<", ">", ".", "*"}
        BY <3>3, <4>1, Zenon
      <4> QED BY <4>2, Zenon
    <3> QED BY <3>1, <3>2, <3>3
  <2>2. C \cap L = {}
    BY <1>2, Zenon DEF Space, End
  <2> QED BY <2>1, <2>2 DEF OperatorChars
<1>6. Firsts \cap L = {}
  BY <1>3, <1>4, <1>5 DEF Firsts
<1> QED BY <1>6 DEF L

LEMMA TokenLayout ==
    ASSUME Ready, Reads, Next1(Firsts)
    PROVE  LayoutInv'
<1>0. Firsts \cap (Blank \cup {End, "\n", "\r", "#", "\\"}) = {}
  BY FirstsLayNothing
<1>1. Firsts \cap {"\n", "\r"} = {} /\ Firsts \cap {"\n", "#", End} = {}
  BY <1>0
<1>2. ~at_line_start /\ (OnBlank \/ Within \/ Due) /\ Char(pos) \in Firsts
  BY <1>1, InLine
<1>3. Within \/ Due
  BY <1>1, <1>2 DEF OnBlank
<1>4. CASE UNCHANGED tokens /\ outcome' \notin {"scanning", "bad indent"}
  BY <1>4, Stops
<1>5. CASE /\ UNCHANGED <<src, at_line_start, indent_stack, outcome>>
           /\ \E t : tokens' = Append(tokens, t) /\ t.kind \notin LayoutKinds \cup {"EOF"}
  <2>1. PICK t : tokens' = Append(tokens, t) /\ t.kind \notin LayoutKinds \cup {"EOF"}
    BY <1>5
  <2>2. tokens \in Seq(Pieces) /\ Append(tokens, t) \in Seq(Pieces)
    BY <2>1 DEF Ready, TypeOK
  <2>3. t \in Pieces
    <3>1. tokens \in Seq(Pieces \cup {t}) /\ t \in Pieces \cup {t}
      BY <2>2
    <3>2. /\ Len(Append(tokens, t)) = Len(tokens) + 1
          /\ Append(tokens, t)[Len(tokens) + 1] = t
      BY <3>1, AppendProperties
    <3>3. Len(tokens) + 1 \in 1 .. Len(tokens) + 1
      BY <2>2
    <3>4. Append(tokens, t)[Len(tokens) + 1] \in Pieces
      BY <2>2, <3>2, <3>3
    <3> QED BY <3>2, <3>4
  <2> DEFINE us == Append(tokens, t)
  <2>4. Another(us, tokens, t)
    BY <2>2, <2>3, AnotherToken
  <2> HIDE DEF us
  <2>5. Lined(tokens, WidthTable, indent_stack)
    BY DEF Ready, Blocks
  <2>6. Lined(us, WidthTable, indent_stack) /\ Steady(us, WidthTable, indent_stack) /\ Busy(us)
    <3>1. CASE Within
      BY <2>1, <2>4, <2>5, <3>1, InnerToken DEF Within, AsBefore
    <3>2. CASE Due
      BY <2>1, <2>4, <2>5, <3>2, FirstToken DEF Due
    <3> QED BY <1>3, <3>1, <3>2
  <2>7. tokens' = us /\ WidthTable' = WidthTable /\ src' = src
    BY <1>5, <2>1, SameText DEF us
  <2>8. ~at_line_start' /\ indent_stack' = indent_stack /\ outcome' = "scanning"
    BY <1>2, <1>5 DEF Ready
  <2>9. AsBefore'
    BY <2>6, <2>7, <2>8 DEF AsBefore
  <2>10. Within'
    BY <2>6, <2>7, <2>8, <2>9 DEF Within
  <2> QED BY <2>6, <2>7, <2>8, <2>10, GoesOn DEF Somewhere
<1> QED BY <1>4, <1>5 DEF Reads

LEMMA FinishLayout ==
    ASSUME Ready, Finish
    PROVE  LayoutInv'
<1> DEFINE t == Mark("EOF", pos)
<1>1. /\ pos > Len(src) /\ outcome' = "done"
      /\ tokens' = (tokens \o Dedents(Len(indent_stack) - 1, pos)) \o <<t>>
  BY DEF Finish
<1>2. pos \in Nat \ {0} /\ Len(indent_stack) - 1 \in Nat /\ tokens \in Seq(Pieces)
  <2>1. Rising(indent_stack)
    BY DEF Ready, Blocks, Lined
  <2>2. Len(indent_stack) \in Nat \ {0}
    BY <2>1, RisingShape
  <2> QED BY <2>2 DEF Ready, TypeOK
<1>3. t \in Pieces /\ t.kind = "EOF"
  <2>1. "EOF" \in Kinds /\ pos - 1 \in Nat /\ pos \in Nat
    BY <1>2 DEF Kinds
  <2> QED BY <2>1 DEF Mark, Token, Pieces
<1>4. Char(pos) = End
  BY <1>1, <1>2, Text DEF Ready
<1>5. AsBefore
  BY <1>4 DEF Ready, Somewhere, AtStart, OnBlank, Within, Due
<1>6. Steady(tokens, WidthTable, indent_stack) /\ Lined(tokens, WidthTable, indent_stack)
  BY <1>5 DEF AsBefore, Ready, Blocks
<1> HIDE DEF t
<1> DEFINE ms == tokens \o Dedents(Len(indent_stack) - 1, pos)
<1>7. Accounted(Append(ms, t), WidthTable)
  BY <1>2, <1>3, <1>6, EndComes
<1>8. ms \in Seq(Pieces)
  <2>1. Dedents(Len(indent_stack) - 1, pos) \in Seq(Pieces)
    BY <1>2, DedentRun
  <2> QED BY <1>2, <2>1, ConcatProperties
<1> HIDE DEF ms
<1>9. ms \o <<t>> = Append(ms, t)
  BY <1>3, <1>8
<1>10. WidthTable' = WidthTable
  BY SameText DEF Ready
<1>11. tokens' = Append(ms, t)
  BY <1>1, <1>9 DEF ms
<1>12. Accounted(tokens', WidthTable')
  BY <1>7, <1>10, <1>11
<1> QED BY <1>1, <1>12 DEF LayoutInv

LEMMA LayoutTurn ==
    ASSUME Ready, Next
    PROVE  LayoutInv'
<1>1. CASE InBrackets \/ BlankLine \/ Deeper \/ Shallower
  BY <1>1, BracketLineTurn, BlankLineTurn, DeeperTurn, ShallowerTurn
<1>2. CASE SkipBlanks \/ Spin \/ Comment \/ Newline \/ Continuation
  BY <1>2, SkipLayout, CommentLayout, NewlineLayout
<1>3. CASE CharLiteral \/ String \/ FString \/ RawOrBytes \/ DigitToken \/ Identifier
           \/ Operator \/ OpenBracket \/ CloseBracket \/ Unexpected
  BY <1>3, TokenReads, TokenLayout
<1>4. CASE Finish
  BY <1>4, FinishLayout
<1> QED BY <1>1, <1>2, <1>3, <1>4 DEF Next

LEMMA LayoutInit == Init => LayoutInv
<1> SUFFICES ASSUME Init PROVE LayoutInv
  OBVIOUS
<1>1. /\ pos = 1 /\ at_line_start = TRUE /\ indent_stack = <<0>> /\ paren_depth = 0
      /\ tokens = <<>> /\ outcome = "scanning" /\ Len(tokens) = 0
  BY DEF Init, InitScan
<1>2. Heads(tokens) = {}
  <2>1. 1 .. Len(tokens) = {}
    BY <1>1
  <2> QED BY <2>1 DEF Heads
<1>3. \A wd : Accounted(tokens, wd)
  BY <1>2 DEF Accounted
<1>4. Rising(indent_stack) /\ Len(indent_stack) = 1 /\ Range(indent_stack) = {0}
  <2>1. indent_stack \in Seq(Nat) /\ DOMAIN indent_stack = {1} /\ indent_stack[1] = 0
        /\ Len(indent_stack) = 1 /\ indent_stack # <<>>
    BY <1>1
  <2>2. \A i, j \in DOMAIN indent_stack : ~ (i < j)
    BY <2>1
  <2> QED BY <2>1, <2>2 DEF Rising, Range
<1>5. Count(tokens, "INDENT", 0) = 0 /\ Count(tokens, "DEDENT", 0) = 0
  <2>1. \A kind : Count(tokens, kind, 0) = 0
    BY CountNext
  <2> QED BY <2>1
<1>6. Blocks
  <2>1. BlocksAt(tokens, Len(tokens)) = Len(indent_stack) - 1
    BY <1>1, <1>4, <1>5 DEF BlocksAt
  <2>2. tokens \in Seq(Pieces)
    BY <1>1
  <2> QED BY <1>3, <1>4, <2>1, <2>2 DEF Blocks, Lined
<1>7. AsBefore
  <2>1. DOMAIN Widths(tokens, WidthTable) = {}
    BY <1>2 DEF Widths
  <2>2. OpenAt(Widths(tokens, WidthTable), Len(tokens)) = {0}
    BY <2>1, OpenMember
  <2>3. ASSUME NEW j, LastHead(tokens, j, Len(tokens) + 1) PROVE j = Len(tokens)
    BY <1>1, <1>2, <2>3 DEF LastHead
  <2>4. \A j : LastHead(tokens, j, Len(tokens) + 1) =>
           \A kind \in BlockMarks : Count(tokens, kind, Len(tokens)) = Count(tokens, kind, j)
    BY <2>3
  <2> QED BY <1>4, <2>2, <2>4 DEF AsBefore, Steady
<1>8. AtStart
  BY <1>1, <1>7 DEF AtStart, Fresh, LineBegin
<1> QED BY <1>1, <1>3, <1>6, <1>8 DEF LayoutInv, Somewhere

LEMMA LayoutStep == TypeOK /\ LayoutInv /\ [Next]_vars => LayoutInv'
<1> SUFFICES ASSUME TypeOK, LayoutInv, [Next]_vars PROVE LayoutInv'
  OBVIOUS
<1>1. CASE Next
  <2>1. PICK s : Turn(s)
    BY <1>1, EveryTurn
  <2>2. TypeOK' /\ src' = src
    BY <2>1, TypeStep DEF Turn
  <2>3. outcome = "scanning"
    BY <1>1 DEF Next, InBrackets, BlankLine, Deeper, Shallower, CodeLine, AtIndent, SkipBlanks, Spin,
                Comment, Newline, Continuation, CharLiteral, String, FString, RawOrBytes,
                Prefixed, DigitToken, Identifier, Operator, OpenBracket, CloseBracket,
                Unexpected, Finish, Next1, Scanning
  <2>4. CASE PlainIndents
    <3>1. Ready
      BY <2>2, <2>3, <2>4 DEF LayoutInv, Ready
    <3> QED BY <1>1, <3>1, LayoutTurn
  <2>5. CASE ~ PlainIndents
    BY <2>2, <2>5, SameText DEF LayoutInv
  <2> QED BY <2>4, <2>5
<1>2. CASE UNCHANGED vars
  <2>1. /\ UNCHANGED <<src, pos, at_line_start, indent_stack, paren_depth, tokens, outcome>>
    BY <1>2 DEF vars
  <2>2. /\ PlainIndents' <=> PlainIndents
        /\ WidthTable' = WidthTable /\ LineStarts' = LineStarts
        /\ \A p : Width(p)' = Width(p)
    BY <2>1, SameText
  <2>3. Blocks' <=> Blocks
    BY <2>1, <2>2 DEF Blocks
  <2>4. AsBefore' <=> AsBefore
    BY <2>1, <2>2 DEF AsBefore
  <2>5. Char(pos)' = Char(pos)
    BY <2>1 DEF Char
  <2>6. AtStart' <=> AtStart
    BY <2>1, <2>4 DEF AtStart
  <2>7. (OnBlank' <=> OnBlank) /\ (Within' <=> Within)
    BY <2>1, <2>4, <2>5 DEF OnBlank, Within
  <2>8. Due' <=> Due
    BY <2>1, <2>2, <2>5 DEF Due
  <2>9. Somewhere' <=> Somewhere
    BY <2>6, <2>7, <2>8 DEF Somewhere
  <2>10. Width(LineStart)' = Width(LineStart)
    BY <2>1, <2>2 DEF LineStart, Width, After, Char
  <2> QED BY <2>1, <2>2, <2>3, <2>9, <2>10 DEF LayoutInv
<1> QED BY <1>1, <1>2

-----------------------------------------------------------------------------
LEMMA SameLineWidths ==
    ASSUME TypeOK
    PROVE  /\ LineWidths = Widths(tokens, WidthTable)
           /\ DOMAIN LineWidths = Heads(tokens)
           /\ \A i : Depth(i) = BlocksAt(tokens, i)
           /\ \A kind, i : Marks(kind, i) = Count(tokens, kind, i)
<1>1. /\ tokens \in Seq(Pieces) /\ DOMAIN tokens = 1 .. Len(tokens)
      /\ \A i \in 1 .. Len(tokens) : tokens[i].to \in Nat
  <2>1. tokens \in Seq(Pieces)
    BY DEF TypeOK
  <2>2. DOMAIN tokens = 1 .. Len(tokens) /\ \A i \in 1 .. Len(tokens) : tokens[i] \in Pieces
    BY <2>1
  <2>3. \A t \in Pieces : t.to \in Nat
    BY DEF Pieces
  <2> QED BY <2>1, <2>2, <2>3
<1>2. \A i : Before(i) = Prior(tokens, i)
  BY DEF Before, Prior
<1>3. \A i : BeginsLine(i) <=> Leads(tokens, i)
  BY <1>2 DEF BeginsLine, Leads
<1>4. {j \in DOMAIN tokens : BeginsLine(j) \/ tokens[j].kind = "EOF"} = Heads(tokens)
  BY <1>1, <1>3 DEF Heads
<1>5. ASSUME NEW i \in Heads(tokens) PROVE LineWidth(i) = WidthOf(tokens, WidthTable, i)
  <2> DEFINE m == Prior(tokens, i)
  <2>1. i \in 1 .. Len(tokens) /\ Len(tokens) \in Nat
    BY <1>1 DEF Heads
  <2>2. IsPrior(tokens, i, m)
    BY <2>1, HasPrior
  <2> HIDE DEF m
  <2>3. m = 0 \/ m \in 1 .. Len(tokens)
    BY <2>1, <2>2 DEF IsPrior
  <2>4. LineBegin(tokens, m) \in Nat
    BY <1>1, <2>3 DEF LineBegin
  <2>5. WidthTable[LineBegin(tokens, m)] = Width(LineBegin(tokens, m))
    BY <2>4 DEF WidthTable
  <2>6. LineBegin(tokens, m) = IF Before(i) = 0 THEN 1 ELSE tokens[Before(i)].to + 1
    BY <1>2 DEF LineBegin, m
  <2> QED BY <2>5, <2>6 DEF LineWidth, WidthOf, m
<1>6. LineWidths = Widths(tokens, WidthTable)
  BY <1>4, <1>5 DEF LineWidths, Widths
<1>7. DOMAIN LineWidths = Heads(tokens)
  BY <1>6 DEF Widths
<1>8. \A kind, i : Marks(kind, i) = Count(tokens, kind, i)
  BY DEF Marks, Count, Among
<1>9. \A i : Depth(i) = BlocksAt(tokens, i)
  BY <1>8 DEF Depth, BlocksAt
<1> QED BY <1>6, <1>7, <1>8, <1>9

\* Blocks follow the indentation of the lines: each line is in the blocks its
\* width puts it in, between two lines one block is opened at most, blank and
\* comment lines and lines within brackets open and close none, the end closes
\* all, and a line is refused only if no open block is as wide
\* (handle_indentation, indent_stack).
THEOREM BlocksFollowIndents == Spec => []LayoutFollowsIndents
<1>1. TypeOK /\ LayoutInv => LayoutFollowsIndents
  <2> SUFFICES ASSUME TypeOK, LayoutInv, Final, PlainIndents
               PROVE  LayoutFollowsIndents
    BY DEF LayoutFollowsIndents
  <2> DEFINE w == LineWidths
             n == Len(tokens)
  <2>1. /\ w = Widths(tokens, WidthTable) /\ DOMAIN w = Heads(tokens)
        /\ \A i : Depth(i) = BlocksAt(tokens, i)
        /\ \A kind, i : Marks(kind, i) = Count(tokens, kind, i)
    BY SameLineWidths
  <2>2. n \in Nat /\ Heads(tokens) \subseteq 1 .. n
    BY DEF TypeOK, Heads
  <2>3. /\ Accounted(tokens, WidthTable)
        /\ outcome = "bad indent" =>
              Width(LineStart) \notin OpenAt(Widths(tokens, WidthTable), n)
    BY DEF LayoutInv
  <2> HIDE DEF w, n
  <2>4. ASSUME NEW i \in DOMAIN w,
               NEW j, j = IF {h \in DOMAIN w : h < i} = {} THEN 0 ELSE Max({h \in DOMAIN w : h < i})
        PROVE  /\ Depth(i) = Cardinality(OpenAt(w, i)) - 1
               /\ Marks("INDENT", i) - Marks("INDENT", j) = (IF Depth(i) > Depth(j) THEN 1 ELSE 0)
    <3> DEFINE before == {h \in DOMAIN w : h < i}
    <3>1. Placed(tokens, WidthTable, i)
      BY <2>1, <2>3 DEF Accounted
    <3>2. i \in 1 .. n /\ before \subseteq 1 .. n
      BY <2>1, <2>2
    <3>3. LastHead(tokens, j, i)
      <4>1. CASE before = {}
        <5>1. j = 0 /\ 0 < i
          BY <2>4, <3>2, <4>1
        <5>2. \A k \in DOMAIN w : ~ (k < i)
          BY <4>1
        <5> QED BY <2>1, <5>1, <5>2 DEF LastHead
      <4>2. CASE before # {}
        <5>1. Max(before) \in before /\ \A h \in before : h <= Max(before)
          BY <2>2, <3>2, <4>2, MaxIsMost
        <5>2. j = Max(before)
          BY <2>4, <4>2
        <5>3. j \in DOMAIN w /\ j < i /\ \A k \in DOMAIN w : k < i => k <= j
          BY <5>1, <5>2
        <5> QED BY <2>1, <5>3 DEF LastHead
      <4> QED BY <4>1, <4>2
    <3> QED BY <2>1, <3>1, <3>3 DEF Placed, OneBlock
  <2>5. OpenAt(w, Max(DOMAIN w)) = OpenAt(w, n)
    <3>1. CASE DOMAIN w = {}
      <4>1. \A h, x : x \in OpenAt(w, h) <=> x = 0
        BY <3>1, OpenMember
      <4>2. \A h : OpenAt(w, h) = {0}
        BY <4>1
      <4> QED BY <4>2
    <3>2. CASE DOMAIN w # {}
      <4>1. Max(DOMAIN w) \in DOMAIN w /\ \A h \in DOMAIN w : h <= Max(DOMAIN w)
        BY <2>1, <2>2, <3>2, MaxIsMost
      <4>2. Max(DOMAIN w) \in Nat /\ DOMAIN w \subseteq Nat /\ \A h \in DOMAIN w : h <= n
        BY <2>1, <2>2, <4>1
      <4>3. SameLines(w, n, w, Max(DOMAIN w))
        BY <4>1, <4>2 DEF SameLines
      <4> QED BY <2>2, <4>2, <4>3, OpenSame
    <3> QED BY <3>1, <3>2
  <2>6. outcome = "bad indent" =>
           Width(Max({p \in LineStarts : p <= pos})) \notin OpenAt(w, Max(DOMAIN w))
    BY <2>1, <2>3, <2>5 DEF LineStart
  <2> QED BY <2>4, <2>6 DEF LayoutFollowsIndents, w
<1>2. LexerIInv => TypeOK
  BY DEF LexerIInv
<1>3. Spec => []TypeOK
  BY <1>2, LexerInvariant, PTL
<1>4. Spec => []LayoutInv
  BY <1>3, LayoutInit, LayoutStep, PTL DEF Spec
<1> QED BY <1>1, <1>3, <1>4, PTL
==============================================================================
