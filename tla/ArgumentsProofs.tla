--------------------------- MODULE ArgumentsProofs ---------------------------
(***************************************************************************)
(* Theorems about the texts of the command line: which command a line is,  *)
(* which numbers are read from its arguments, and that numbers are read as *)
(* they were printed, for every line, time, date and number.               *)
(***************************************************************************)
EXTENDS Arguments, SequenceTheorems, WellFoundedInduction, TLAPS

----------------------------------------------------------------------------
\* The order of the natural numbers, as the set of its pairs.
Below == {pair \in Nat \X Nat : pair[1] < pair[2]}

\* A set of naturals that is not empty has a least member.
LEMMA LeastExists ==
  ASSUME NEW S \in SUBSET Nat, S # {}
  PROVE  \E n \in S : \A i \in S : n <= i
<1>1. IsWellFoundedOn(Below, Nat)
  BY NatLessThanWellFounded, Zenon DEF IsWellFoundedOn, OpToRel, Below
<1>2. PICK n \in S : \A i \in S : <<i, n>> \notin Below
  BY <1>1, WFMin
<1>3. ASSUME NEW i \in S PROVE n <= i
  <2>1. n \in Nat /\ i \in Nat /\ <<i, n>> \notin Below
    BY <1>2
  <2> QED BY <2>1 DEF Below
<1> QED BY <1>3

(***************************************************************************)
(* Recursion over numbers: the value at n is the base, or for n in C a     *)
(* step from the value at a lower number.                                  *)
(***************************************************************************)
Rule(f, n, C, base, step, back) ==
  f[n] = IF n \in C THEN step[n][f[back[n]]] ELSE base

\* f obeys the rule up to m.
Solves(f, D, V, m, C, base, step, back) ==
  f \in [D -> V] /\ \A n \in D : n < m => Rule(f, n, C, base, step, back)

\* What the recursion is made of.
Recursive(D, V, C, base, step, back) ==
  /\ D \subseteq Nat /\ C \subseteq D /\ base \in V
  /\ \A n \in C : /\ step[n] \in [V -> V]
                  /\ back[n] \in D /\ back[n] < n

\* Two solutions agree as far as both go.
LEMMA SolutionsAgree ==
  ASSUME NEW D, NEW V, NEW C, NEW base, NEW step, NEW back,
         Recursive(D, V, C, base, step, back),
         NEW f, NEW g, NEW k \in Nat, NEW m \in Nat,
         Solves(f, D, V, k, C, base, step, back),
         Solves(g, D, V, m, C, base, step, back)
  PROVE  \A n \in D : n < k /\ n < m => f[n] = g[n]
<1> DEFINE Bad == {n \in D : n < k /\ n < m /\ f[n] # g[n]}
<1>1. SUFFICES ASSUME Bad # {} PROVE FALSE
  OBVIOUS
<1>2. PICK n \in Bad : \A i \in Bad : n <= i
  <2>1. Bad \in SUBSET Nat
    BY DEF Recursive
  <2> HIDE DEF Bad
  <2> QED BY <1>1, <2>1, LeastExists
<1>3. /\ n \in D /\ n \in Nat
      /\ Rule(f, n, C, base, step, back) /\ Rule(g, n, C, base, step, back)
  BY <1>2 DEF Solves, Recursive
<1>4. n \in C
  BY <1>2, <1>3 DEF Rule
<1>5. back[n] \in D /\ back[n] \in Nat /\ back[n] < n
  BY <1>4 DEF Recursive
<1>6. back[n] \notin Bad
  <2>1. ~(n <= back[n])
    BY <1>3, <1>5
  <2> QED BY <1>2, <2>1
<1>7. f[back[n]] = g[back[n]]
  BY <1>2, <1>3, <1>5, <1>6
<1> QED BY <1>2, <1>3, <1>4, <1>7 DEF Rule

\* A solution for the numbers below m.
LEMMA SolutionBelow ==
  ASSUME NEW D, NEW V, NEW C, NEW base, NEW step, NEW back,
         Recursive(D, V, C, base, step, back), NEW m \in Nat
  PROVE  \E f : Solves(f, D, V, m, C, base, step, back)
<1> DEFINE Sol(f, k) == Solves(f, D, V, k, C, base, step, back)
           Bad == {k \in Nat : ~ \E f : Sol(f, k)}
<1>1. SUFFICES ASSUME Bad # {} PROVE FALSE
  OBVIOUS
<1>2. PICK k \in Bad : \A i \in Bad : k <= i
  <2>1. Bad \in SUBSET Nat
    OBVIOUS
  <2> HIDE DEF Bad
  <2> QED BY <1>1, <2>1, LeastExists
<1>3. k # 0
  <2>1. [n \in D |-> base] \in [D -> V] /\ \A n \in D : ~(n < 0)
    BY DEF Recursive
  <2>2. Sol([n \in D |-> base], 0)
    BY <2>1 DEF Solves
  <2> HIDE DEF Sol
  <2> QED BY <1>2, <2>2
<1>4. k - 1 \in Nat /\ k - 1 \notin Bad
  <2>1. k \in Nat
    OBVIOUS
  <2>2. k - 1 \in Nat /\ ~(k <= k - 1)
    BY <1>3, <2>1
  <2> HIDE DEF Bad
  <2> QED BY <1>2, <2>2
<1>5. PICK f : Sol(f, k - 1)
  <2> HIDE DEF Sol
  <2> QED BY <1>4
<1> DEFINE new == IF k - 1 \in C THEN step[k - 1][f[back[k - 1]]] ELSE base
           g == [n \in D |-> IF n = k - 1 THEN new ELSE f[n]]
<1>6. new \in V
  BY <1>5 DEF Solves, Recursive
<1>7. g \in [D -> V]
  BY <1>5, <1>6 DEF Solves
<1>8. ASSUME NEW n \in D, n < k PROVE Rule(g, n, C, base, step, back)
  <2>1. n \in Nat /\ k \in Nat /\ (n = k - 1 \/ n < k - 1)
    BY <1>8 DEF Recursive
  <2>2. n \in C => back[n] \in D /\ back[n] # k - 1
    BY <1>8, <2>1 DEF Recursive
  <2>3. CASE n = k - 1
    BY <2>2, <2>3 DEF Rule
  <2>4. CASE n # k - 1
    <3>1. Rule(f, n, C, base, step, back)
      BY <1>5, <2>1, <2>4 DEF Solves
    <3>2. g[n] = f[n] /\ (n \in C => g[back[n]] = f[back[n]])
      BY <2>2, <2>4
    <3> HIDE DEF g
    <3> QED BY <3>1, <3>2 DEF Rule
  <2> QED BY <2>3, <2>4
<1>9. Sol(g, k)
  BY <1>7, <1>8 DEF Solves
<1> HIDE DEF Sol, g
<1> QED BY <1>2, <1>9

\* The solution.
LEMMA RecursionExists ==
  ASSUME NEW D, NEW V, NEW C, NEW base, NEW step, NEW back,
         Recursive(D, V, C, base, step, back)
  PROVE  \E f \in [D -> V] : \A n \in D : Rule(f, n, C, base, step, back)
<1> DEFINE Sol(f, m) == Solves(f, D, V, m, C, base, step, back)
           s == [m \in Nat |-> CHOOSE f : Sol(f, m)]
           f == [n \in D |-> s[n + 1][n]]
<1>1. \A m \in Nat : Sol(s[m], m)
  <2> SUFFICES ASSUME NEW m \in Nat PROVE Sol(s[m], m)
    OBVIOUS
  <2>1. \E h : Sol(h, m)
    BY SolutionBelow
  <2> HIDE DEF Sol
  <2> QED BY <2>1
<1> HIDE DEF s
<1>2. D \subseteq Nat
  BY DEF Recursive
<1>3. f \in [D -> V]
  <2> SUFFICES ASSUME NEW n \in D PROVE s[n + 1][n] \in V
    OBVIOUS
  <2>1. Sol(s[n + 1], n + 1)
    BY <1>1, <1>2
  <2> QED BY <2>1 DEF Solves
<1>4. ASSUME NEW n \in D PROVE Rule(f, n, C, base, step, back)
  <2>1. n \in Nat /\ n + 1 \in Nat /\ n < n + 1
    BY <1>2
  <2>2. Sol(s[n + 1], n + 1)
    BY <1>1, <2>1
  <2>3. Rule(s[n + 1], n, C, base, step, back)
    BY <2>1, <2>2 DEF Solves
  <2>4. ASSUME n \in C PROVE f[back[n]] = s[n + 1][back[n]]
    <3> DEFINE b == back[n]
    <3>a. b \in D /\ b < n
      BY <2>4 DEF Recursive
    <3>b. b \in Nat
      BY <1>2, <3>a
    <3> HIDE DEF b
    <3>c. b + 1 \in Nat /\ b < n + 1 /\ b < b + 1
      BY <2>1, <3>a, <3>b
    <3>1. back[n] \in D /\ back[n] \in Nat /\ back[n] + 1 \in Nat
          /\ back[n] < n + 1 /\ back[n] < back[n] + 1
      BY <3>a, <3>b, <3>c DEF b
    <3>2. Sol(s[back[n] + 1], back[n] + 1)
      BY <1>1, <3>1
    <3>3. s[back[n] + 1][back[n]] = s[n + 1][back[n]]
      BY <2>1, <2>2, <3>1, <3>2, SolutionsAgree
    <3> QED BY <3>1, <3>3
  <2>5. f[n] = s[n + 1][n]
    OBVIOUS
  <2> HIDE DEF f, Sol
  <2> QED BY <2>3, <2>4, <2>5 DEF Rule
<1> QED BY <1>3, <1>4

----------------------------------------------------------------------------
\* The digits, each with what it stands for.
Figures == <<"0", "1", "2", "3", "4", "5", "6", "7", "8", "9">>

\* A character is found in the alphabet at its code.
LEMMA Codes ==
  /\ DOMAIN Alphabet = 1 .. 46
  /\ \A c \in Char : CodeOf[c] \in 1 .. 46 /\ Alphabet[CodeOf[c]] = c
<1>1. DOMAIN Alphabet = 1 .. 46
  BY DEF Alphabet
<1>2. ASSUME NEW c \in Char PROVE CodeOf[c] \in DOMAIN Alphabet /\ Alphabet[CodeOf[c]] = c
  <2>1. \E k \in DOMAIN Alphabet : Alphabet[k] = c
    BY DEF Char, Range
  <2> QED BY <2>1 DEF CodeOf
<1> QED BY <1>1, <1>2

\* So no two characters have one code.
LEMMA CodesDiffer ==
  \A c, d \in Char : CodeOf[c] = CodeOf[d] => c = d
BY Codes

\* The places of the signs that the texts of the clock are made of.
LEMMA SignsAt ==
  Alphabet[5] = " " /\ Alphabet[9] = "/" /\ Alphabet[20] = ":" /\ Alphabet[44] = "x"
BY DEF Alphabet

\* The digits, place by place.
LEMMA FiguresAt ==
  /\ Figures[1] = "0" /\ Figures[2] = "1" /\ Figures[3] = "2" /\ Figures[4] = "3"
  /\ Figures[5] = "4" /\ Figures[6] = "5" /\ Figures[7] = "6" /\ Figures[8] = "7"
  /\ Figures[9] = "8" /\ Figures[10] = "9"
BY DEF Figures

\* The digits are distinct.
LEMMA FiguresDiffer ==
  ASSUME NEW i \in 1 .. 10, NEW j \in 1 .. 10, Figures[i] = Figures[j]
  PROVE  i = j
BY DEF Figures

\* No other character of the alphabet is a digit.
LEMMA FiguresPlaces ==
  ASSUME NEW k \in 1 .. 46, NEW d \in 0 .. 9, Alphabet[k] = Figures[d + 1]
  PROVE  k \in 10 .. 19
<1> DEFINE F == {"0", "1", "2", "3", "4", "5", "6", "7", "8", "9"}
<1>1. /\ Alphabet[1] \notin F /\ Alphabet[2] \notin F /\ Alphabet[3] \notin F
     /\ Alphabet[4] \notin F /\ Alphabet[5] \notin F /\ Alphabet[6] \notin F
     /\ Alphabet[7] \notin F /\ Alphabet[8] \notin F /\ Alphabet[9] \notin F
     /\ Alphabet[20] \notin F /\ Alphabet[21] \notin F /\ Alphabet[22] \notin F
     /\ Alphabet[23] \notin F /\ Alphabet[24] \notin F /\ Alphabet[25] \notin F
     /\ Alphabet[26] \notin F /\ Alphabet[27] \notin F /\ Alphabet[28] \notin F
     /\ Alphabet[29] \notin F /\ Alphabet[30] \notin F /\ Alphabet[31] \notin F
     /\ Alphabet[32] \notin F /\ Alphabet[33] \notin F /\ Alphabet[34] \notin F
     /\ Alphabet[35] \notin F /\ Alphabet[36] \notin F /\ Alphabet[37] \notin F
     /\ Alphabet[38] \notin F /\ Alphabet[39] \notin F /\ Alphabet[40] \notin F
     /\ Alphabet[41] \notin F /\ Alphabet[42] \notin F /\ Alphabet[43] \notin F
     /\ Alphabet[44] \notin F /\ Alphabet[45] \notin F /\ Alphabet[46] \notin F
  BY DEF Alphabet
<1>2. Figures[d + 1] \in F
  BY FiguresAt
<1> HIDE DEF F
<1>3. Alphabet[k] \in F
  BY <1>2, Zenon
<1> QED BY <1>1, <1>3

\* The digits stand in the alphabet from its tenth place on.
LEMMA TenthPlace ==
  ASSUME NEW d \in 0 .. 9
  PROVE  Alphabet[10 + d] = Figures[d + 1]
<1>1. /\ Alphabet[10] = Figures[1] /\ Alphabet[11] = Figures[2]
      /\ Alphabet[12] = Figures[3] /\ Alphabet[13] = Figures[4]
      /\ Alphabet[14] = Figures[5] /\ Alphabet[15] = Figures[6]
      /\ Alphabet[16] = Figures[7] /\ Alphabet[17] = Figures[8]
      /\ Alphabet[18] = Figures[9] /\ Alphabet[19] = Figures[10]
  BY DEF Alphabet, Figures
<1> QED BY <1>1

\* The codes of the digits follow each other, from that of "0".
LEMMA FigureCodes ==
  ASSUME NEW d \in 0 .. 9
  PROVE  /\ Figures[d + 1] \in Char /\ CodeOf[Figures[d + 1]] = 10 + d
         /\ Alphabet[10 + d] = Figures[d + 1]
<1>1. Alphabet[10 + d] = Figures[d + 1]
  BY TenthPlace
<1>2. Figures[d + 1] \in Char
  BY <1>1, Codes DEF Char, Range
<1>3. ASSUME NEW k \in 1 .. 46, Alphabet[k] = Figures[d + 1]
      PROVE  k = 10 + d
  <2>1. k \in 10 .. 19
    BY <1>3, FiguresPlaces
  <2>2. d + 1 \in 1 .. 10 /\ k - 9 \in 1 .. 10 /\ 10 + (k - 10) = k /\ (k - 10) + 1 = k - 9
        /\ k - 10 \in 0 .. 9
    BY <2>1
  <2>3. Figures[k - 9] = Figures[d + 1]
    BY <1>3, <2>2, TenthPlace, Zenon
  <2>4. k - 9 = d + 1
    BY <2>2, <2>3, FiguresDiffer
  <2> QED BY <2>1, <2>4
<1> QED BY <1>2, <1>3, <1>1, Codes

\* The digits are those of Figures; no space or sign is one.
LEMMA DigitsAreFigures ==
  /\ \A c \in Digits : /\ c \in Char /\ CodeOf[c] - CodeOf["0"] \in 0 .. 9
                       /\ c = Figures[CodeOf[c] - CodeOf["0"] + 1]
                       /\ c \notin {" ", "\t", "\n", "\f", "\r", "+", "-", "/", ":"}
  /\ \A d \in 0 .. 9 : /\ ToChar(d) \in Digits
                       /\ CodeOf[ToChar(d)] - CodeOf["0"] = d
<1>1. "0" = Figures[0 + 1] /\ "9" = Figures[9 + 1]
  BY DEF Figures
<1>2. CodeOf["0"] = 10 /\ CodeOf["9"] = 19
  BY <1>1, FigureCodes
<1>3. Digits = {c \in Char : 10 <= CodeOf[c] /\ CodeOf[c] <= 19}
  BY <1>2 DEF Digits
<1>4. ASSUME NEW c \in Digits
      PROVE  /\ c \in Char /\ CodeOf[c] - 10 \in 0 .. 9
             /\ c = Figures[CodeOf[c] - 10 + 1]
  <2>1. c \in Char /\ CodeOf[c] - 10 \in 0 .. 9
    BY <1>3, Codes
  <2>2. CodeOf[Figures[CodeOf[c] - 10 + 1]] = CodeOf[c] /\ Figures[CodeOf[c] - 10 + 1] \in Char
    BY <2>1, FigureCodes, Codes
  <2> QED BY <2>1, <2>2, CodesDiffer
<1>5. \A d \in 0 .. 9 :
        Figures[d + 1] \notin {" ", "\t", "\n", "\f", "\r", "+", "-", "/", ":"}
  <2>1. ASSUME NEW k \in 1 .. 10
        PROVE  Figures[k] \notin {" ", "\t", "\n", "\f", "\r", "+", "-", "/", ":"}
    <3>1. k = 1 \/ k = 2 \/ k = 3 \/ k = 4 \/ k = 5 \/ k = 6 \/ k = 7 \/ k = 8
          \/ k = 9 \/ k = 10
      OBVIOUS
    <3> QED BY <3>1, FiguresAt
  <2>2. \A d \in 0 .. 9 : d + 1 \in 1 .. 10
    OBVIOUS
  <2> QED BY <2>1, <2>2
<1>6. \A c \in Digits : c \notin {" ", "\t", "\n", "\f", "\r", "+", "-", "/", ":"}
  BY <1>4, <1>5
<1>7. ASSUME NEW d \in 0 .. 9
      PROVE  ToChar(d) \in Digits /\ CodeOf[ToChar(d)] - 10 = d
  <2>1. ToChar(d) = Figures[d + 1]
    BY <1>2, FigureCodes DEF ToChar
  <2> QED BY <1>3, <2>1, FigureCodes
<1> QED BY <1>2, <1>4, <1>6, <1>7

----------------------------------------------------------------------------
\* The first place outside C, and how to know it.
LEMMA FirstOutsideIs ==
  ASSUME NEW s \in Seq(Char), NEW C
  PROVE  /\ FirstOutside(s, C) \in 1 .. (Len(s) + 1)
         /\ FirstOutside(s, C) <= Len(s) => s[FirstOutside(s, C)] \notin C
         /\ \A j \in 1 .. (FirstOutside(s, C) - 1) : s[j] \in C
<1> DEFINE Outside == {k \in 1 .. (Len(s) + 1) : k <= Len(s) => s[k] \notin C}
<1>1. Len(s) \in Nat
  OBVIOUS
<1>2. PICK k \in Outside : \A i \in Outside : k <= i
  <2>1. Outside \in SUBSET Nat
    BY <1>1
  <2>2. Len(s) + 1 \in Outside
    BY <1>1
  <2> HIDE DEF Outside
  <2> QED BY <2>1, <2>2, LeastExists
<1>3. k \in 1 .. (Len(s) + 1) /\ (k <= Len(s) => s[k] \notin C)
  OBVIOUS
<1>4. \A j \in 1 .. (k - 1) : s[j] \in C
  <2> SUFFICES ASSUME NEW j \in 1 .. (k - 1), s[j] \notin C PROVE FALSE
    OBVIOUS
  <2>1. j \in 1 .. (Len(s) + 1) /\ ~(k <= j)
    BY <1>1, <1>3
  <2> QED BY <1>2, <2>1
<1> HIDE DEF Outside
<1>5. \E n \in 1 .. (Len(s) + 1) :
        (n <= Len(s) => s[n] \notin C) /\ \A j \in 1 .. (n - 1) : s[j] \in C
  BY <1>3, <1>4
<1> QED BY <1>5 DEF FirstOutside

\* There is one such place only.
LEMMA FirstOutsideAt ==
  ASSUME NEW s \in Seq(Char), NEW C, NEW k \in 1 .. (Len(s) + 1),
         k <= Len(s) => s[k] \notin C,
         \A j \in 1 .. (k - 1) : s[j] \in C
  PROVE  FirstOutside(s, C) = k
<1> DEFINE f == FirstOutside(s, C)
<1>1. /\ f \in 1 .. (Len(s) + 1) /\ Len(s) \in Nat
      /\ f <= Len(s) => s[f] \notin C
      /\ \A j \in 1 .. (f - 1) : s[j] \in C
  BY FirstOutsideIs
<1> HIDE DEF f
<1>2. ~(f < k)
  BY <1>1
<1>3. ~(k < f)
  BY <1>1
<1> QED BY <1>1, <1>2, <1>3 DEF f

----------------------------------------------------------------------------
\* Where two texts differ.
LEMMA DifferIs ==
  ASSUME NEW s \in Seq(Char), NEW t
  PROVE  /\ Differ(s, t) \in 1 .. (Len(s) + 1)
         /\ Differ(s, t) > Len(s) \/ CodeAt(s, Differ(s, t)) # CodeAt(t, Differ(s, t))
         /\ \A j \in 1 .. (Differ(s, t) - 1) : CodeAt(s, j) = CodeAt(t, j)
<1> DEFINE D == {k \in 1 .. (Len(s) + 1) : k > Len(s) \/ CodeAt(s, k) # CodeAt(t, k)}
<1>1. Len(s) \in Nat
  OBVIOUS
<1>2. PICK k \in D : \A i \in D : k <= i
  <2>1. D \in SUBSET Nat
    BY <1>1
  <2>2. Len(s) + 1 \in D
    BY <1>1
  <2> HIDE DEF D
  <2> QED BY <2>1, <2>2, LeastExists
<1>3. k \in 1 .. (Len(s) + 1) /\ (k > Len(s) \/ CodeAt(s, k) # CodeAt(t, k))
  OBVIOUS
<1>4. \A j \in 1 .. (k - 1) : CodeAt(s, j) = CodeAt(t, j)
  <2> SUFFICES ASSUME NEW j \in 1 .. (k - 1), CodeAt(s, j) # CodeAt(t, j) PROVE FALSE
    OBVIOUS
  <2>1. j \in 1 .. (Len(s) + 1) /\ ~(k <= j)
    BY <1>1, <1>3
  <2> QED BY <1>2, <2>1
<1> HIDE DEF D
<1>5. \E n \in 1 .. (Len(s) + 1) :
        /\ n > Len(s) \/ CodeAt(s, n) # CodeAt(t, n)
        /\ \A j \in 1 .. (n - 1) : CodeAt(s, j) = CodeAt(t, j)
  BY <1>3, <1>4
<1> QED BY <1>5 DEF Differ

\* The code at a place: 0 behind the end only.
LEMMA CodeAtPlace ==
  ASSUME NEW s \in Seq(Char), NEW k \in Nat
  PROVE  /\ k \in 1 .. Len(s) => CodeAt(s, k) = CodeOf[s[k]] /\ CodeAt(s, k) \in 1 .. 46
         /\ k \notin 1 .. Len(s) => CodeAt(s, k) = 0
<1>1. DOMAIN s = 1 .. Len(s) /\ \A j \in 1 .. Len(s) : s[j] \in Char
  OBVIOUS
<1> QED BY <1>1, Codes DEF CodeAt

\* A text begins with another when it has its characters.
LEMMA PrefixIs ==
  ASSUME NEW s \in Seq(Char), NEW t \in Seq(Char)
  PROVE  IsPrefix(t, s) <=> Len(t) <= Len(s) /\ \A j \in 1 .. Len(t) : t[j] = s[j]
<1>1. Len(s) \in Nat /\ Len(t) \in Nat /\ SubSeq(t, 1, Len(t)) = t
  OBVIOUS
<1>2. ASSUME Len(t) <= Len(s)
      PROVE  SubSeq(s, 1, Len(t)) = t <=> \A j \in 1 .. Len(t) : t[j] = s[j]
  <2>1. /\ SubSeq(s, 1, Len(t)) \in Seq(Char)
        /\ Len(SubSeq(s, 1, Len(t))) = Len(t)
        /\ \A j \in 1 .. Len(t) : SubSeq(s, 1, Len(t))[j] = s[j]
    BY <1>1, <1>2
  <2> QED BY <2>1, SeqEqual
<1> QED BY <1>1, <1>2 DEF IsPrefix

(***************************************************************************)
(* strncmp over the length of a text tells whether the other begins with   *)
(* it; also when the other is the shorter one.                             *)
(***************************************************************************)
LEMMA StrncmpIsPrefix ==
  ASSUME NEW s \in Seq(Char), NEW t \in Seq(Char)
  PROVE  strncmp(s, t, Len(t)) = 0 <=> IsPrefix(t, s)
<1> DEFINE k == Differ(s, t)
<1>1. /\ Len(s) \in Nat /\ Len(t) \in Nat /\ k \in 1 .. (Len(s) + 1)
      /\ k > Len(s) \/ CodeAt(s, k) # CodeAt(t, k)
      /\ \A j \in 1 .. (k - 1) : CodeAt(s, j) = CodeAt(t, j)
  BY DifferIs
<1>2. strncmp(s, t, Len(t)) = IF k > Len(t) THEN 0 ELSE CodeAt(s, k) - CodeAt(t, k)
  BY DEF strncmp, strcmp
<1> HIDE DEF k
<1>a. /\ \A x, y \in 0 .. 46 : x # y => x - y # 0
      /\ 0 \in 0 .. 46 /\ \A x \in 1 .. 46 : x \in 0 .. 46 /\ x # 0
  OBVIOUS
<1>3. \A j \in 1 .. Len(s) : s[j] \in Char
  OBVIOUS
<1>4. \A j \in 1 .. Len(t) : t[j] \in Char
  OBVIOUS
<1>5. CASE k > Len(t)
  <2>1. Len(t) <= Len(s)
    BY <1>1, <1>5
  <2>2. ASSUME NEW j \in 1 .. Len(t) PROVE t[j] = s[j]
    <3>1. j \in 1 .. (k - 1) /\ j \in Nat /\ j \in 1 .. Len(s)
      BY <1>1, <1>5, <2>1
    <3>2. CodeOf[s[j]] = CodeOf[t[j]]
      BY <1>1, <3>1, CodeAtPlace
    <3> QED BY <1>3, <1>4, <3>1, <3>2, CodesDiffer
  <2> QED BY <1>2, <1>5, <2>1, <2>2, PrefixIs
<1>6. CASE k <= Len(t)
  <2>0. k \in Nat /\ k \in 1 .. Len(t)
    BY <1>1, <1>6
  <2>1. k \in Nat /\ k \in 1 .. Len(t) /\ CodeAt(t, k) \in 1 .. 46
    BY <2>0, CodeAtPlace
  <2>2. CASE k \in 1 .. Len(s)
    <3>1. CodeAt(s, k) # CodeAt(t, k) /\ CodeAt(s, k) \in 1 .. 46
      BY <1>1, <2>2, CodeAtPlace
    <3>2. s[k] # t[k]
      BY <2>1, <2>2, <3>1, CodeAtPlace
    <3>3. strncmp(s, t, Len(t)) = CodeAt(s, k) - CodeAt(t, k)
      BY <1>1, <1>2, <1>6
    <3>4. strncmp(s, t, Len(t)) # 0
      <4>1. CodeAt(s, k) \in 0 .. 46 /\ CodeAt(t, k) \in 0 .. 46
        BY <1>a, <2>1, <3>1, Zenon
      <4> QED BY <1>a, <3>1, <3>3, <4>1, Zenon
    <3> QED BY <2>1, <3>2, <3>4, PrefixIs
  <2>3. CASE k \notin 1 .. Len(s)
    <3>1. CodeAt(s, k) = 0 /\ ~(Len(t) <= Len(s))
      BY <1>1, <2>1, <2>3, CodeAtPlace
    <3>2. strncmp(s, t, Len(t)) = CodeAt(s, k) - CodeAt(t, k)
      BY <1>1, <1>2, <1>6
    <3>3. strncmp(s, t, Len(t)) # 0
      <4>1. CodeAt(s, k) \in 0 .. 46 /\ CodeAt(t, k) \in 0 .. 46 /\ CodeAt(t, k) # 0
        BY <1>a, <2>1, <3>1, Zenon
      <4> QED BY <1>a, <3>1, <3>2, <4>1, Zenon
    <3> QED BY <3>1, <3>3, PrefixIs
  <2> QED BY <2>2, <2>3
<1> QED BY <1>1, <1>5, <1>6

----------------------------------------------------------------------------
\* What a digit stands for.
Value(c) == CodeOf[c] - CodeOf["0"]

\* No digit stands for more than nine.
LEMMA ValueIs ==
  \A c \in Digits : Value(c) \in 0 .. 9
BY DigitsAreFigures, Zenon DEF Value

\* The half of the integers that is not negative is left as it is, and so are
\* the small ones below it.
LEMMA WrapIs ==
  /\ IntSize \div 2 \in Nat /\ IntSize \div 2 > 999 /\ IntSize = 2 * (IntSize \div 2)
  /\ \A n \in Int : Wrap(n) \in Int
  /\ \A n \in Int : -999 <= n /\ n < IntSize \div 2 => Wrap(n) = n
<1> DEFINE H == IntSize \div 2
<1>1. H \in Nat /\ H > 999 /\ IntSize = 2 * H /\ IntSize > 0
  BY IntAssumption
<1>2. \A n : Wrap(n) = ((n + H) % IntSize) - H
  BY DEF Wrap
<1> HIDE DEF H
<1>3. ASSUME NEW n \in Int PROVE Wrap(n) \in Int
  <2>1. (n + H) % IntSize \in Int
    BY <1>1
  <2> QED BY <1>1, <1>2, <2>1
<1>4. ASSUME NEW n \in Int, -999 <= n, n < H PROVE Wrap(n) = n
  <2>1. n + H \in 0 .. (IntSize - 1)
    BY <1>1, <1>4
  <2>2. (n + H) % IntSize = n + H
    BY <1>1, <2>1
  <2> QED BY <1>1, <1>2, <2>2
<1> QED BY <1>1, <1>3, <1>4 DEF H

\* Numbers of up to three digits.
LEMMA WrapSmall ==
  ASSUME NEW n \in Int, -999 <= n, n <= 999
  PROVE  Wrap(n) = n
<1>1. n \in Int /\ -999 <= n /\ n < IntSize \div 2
  BY WrapIs
<1> QED BY <1>1, WrapIs

\* The numbers that the digits read so far make.
Reading(res, d) ==
  /\ res \in [0 .. Len(d) -> Int]
  /\ res[0] = 0
  /\ \A n \in 1 .. Len(d) : res[n] = Wrap(res[n - 1] * 10 + Value(d[n]))
  /\ NumberOf(d) = res[Len(d)]

\* NumberOf goes from digit to digit.
LEMMA ReadingExists ==
  ASSUME NEW d \in Seq(Digits)
  PROVE  \E res : Reading(res, d)
<1> DEFINE D == 0 .. Len(d)
           step == [n \in 1 .. Len(d) |-> [v \in Int |-> AppendDigit(v, d[n])]]
           back == [n \in 1 .. Len(d) |-> n - 1]
           Fits(res) == res = [n \in 0 .. Len(d) |->
                                 IF n = 0 THEN 0 ELSE AppendDigit(res[n - 1], d[n])]
           c == CHOOSE res : Fits(res)
<1>1. Len(d) \in Nat /\ \A n \in 1 .. Len(d) : d[n] \in Digits /\ Value(d[n]) \in 0 .. 9
  <2>1. Len(d) \in Nat /\ \A n \in 1 .. Len(d) : d[n] \in Digits
    OBVIOUS
  <2> QED BY <2>1, ValueIs, Zenon
<1>2. \A n \in 1 .. Len(d), v \in Int :
        AppendDigit(v, d[n]) = Wrap(v * 10 + Value(d[n])) /\ AppendDigit(v, d[n]) \in Int
  <2> SUFFICES ASSUME NEW n \in 1 .. Len(d), NEW v \in Int
               PROVE  /\ AppendDigit(v, d[n]) = Wrap(v * 10 + Value(d[n]))
                      /\ AppendDigit(v, d[n]) \in Int
    OBVIOUS
  <2>1. v * 10 + Value(d[n]) \in Int
    BY <1>1
  <2>2. AppendDigit(v, d[n]) = Wrap(v * 10 + Value(d[n]))
    BY DEF AppendDigit, Value
  <2> QED BY <2>1, <2>2, WrapIs
<1>3. Recursive(D, Int, 1 .. Len(d), 0, step, back)
  <2>1. D \subseteq Nat /\ 1 .. Len(d) \subseteq D /\ 0 \in Int
    BY <1>1
  <2>2. ASSUME NEW n \in 1 .. Len(d)
        PROVE  step[n] \in [Int -> Int] /\ back[n] \in D /\ back[n] < n
    <3>1. step[n] = [v \in Int |-> AppendDigit(v, d[n])] /\ back[n] = n - 1
      OBVIOUS
    <3>2. n - 1 \in D /\ n - 1 < n
      BY <1>1
    <3> QED BY <1>2, <3>1, <3>2
  <2> QED BY <2>1, <2>2 DEF Recursive
<1>4. PICK f \in [D -> Int] : \A n \in D : Rule(f, n, 1 .. Len(d), 0, step, back)
  <2> HIDE DEF D, step, back
  <2> QED BY <1>3, RecursionExists
<1>5. ASSUME NEW n \in 0 .. Len(d)
      PROVE  f[n] = IF n = 0 THEN 0 ELSE AppendDigit(f[n - 1], d[n])
  <2>1. CASE n = 0
    <3>1. 0 \in D /\ 0 \notin 1 .. Len(d)
      BY <1>1
    <3> HIDE DEF D, step, back
    <3>2. f[0] = 0
      BY <1>4, <3>1 DEF Rule
    <3> QED BY <2>1, <3>2, Zenon
  <2>2. CASE n # 0
    <3>1. n \in 1 .. Len(d) /\ n - 1 \in D
      BY <1>1, <2>2
    <3>2. step[n] = [v \in Int |-> AppendDigit(v, d[n])] /\ back[n] = n - 1
      BY <3>1
    <3>3. f[n] = step[n][f[back[n]]] /\ f[n - 1] \in Int
      BY <1>4, <3>1 DEF Rule
    <3> HIDE DEF step, back
    <3>4. step[n][f[n - 1]] = AppendDigit(f[n - 1], d[n])
      BY <3>2, <3>3
    <3>5. f[n] = AppendDigit(f[n - 1], d[n])
      BY <3>2, <3>3, <3>4, Zenon
    <3> QED BY <2>2, <3>5, Zenon
  <2> QED BY <2>1, <2>2
<1>6. Fits(f)
  BY <1>4, <1>5
<1>7. Fits(c)
  <2> HIDE DEF Fits
  <2> QED BY <1>6
<1>8. NumberOf(d) = c[Len(d)]
  BY DEF NumberOf
<1> HIDE DEF c
<1>9. \A n \in 0 .. Len(d) : c[n] = IF n = 0 THEN 0 ELSE AppendDigit(c[n - 1], d[n])
  <2> DEFINE g == [n \in 0 .. Len(d) |-> IF n = 0 THEN 0 ELSE AppendDigit(c[n - 1], d[n])]
  <2>1. c = g
    BY <1>7
  <2>2. \A n \in 0 .. Len(d) : g[n] = IF n = 0 THEN 0 ELSE AppendDigit(c[n - 1], d[n])
    OBVIOUS
  <2> HIDE DEF g, Fits
  <2> QED BY <2>1, <2>2
<1>10. \A n \in 0 .. Len(d) : c[n] = f[n]
  <2> DEFINE Bad == {n \in 0 .. Len(d) : c[n] # f[n]}
  <2>1. SUFFICES ASSUME Bad # {} PROVE FALSE
    OBVIOUS
  <2>2. PICK n \in Bad : \A i \in Bad : n <= i
    <3>1. Bad \in SUBSET Nat
      BY <1>1
    <3> HIDE DEF Bad
    <3> QED BY <2>1, <3>1, LeastExists
  <2>3. n # 0
    BY <1>5, <1>9, <2>2
  <2>4. n - 1 \in 0 .. Len(d) /\ ~(n <= n - 1)
    BY <1>1, <2>2, <2>3
  <2>5. c[n - 1] = f[n - 1]
    BY <2>2, <2>4
  <2>6. c[n] = f[n]
    BY <1>5, <1>9, <2>3, <2>5
  <2> QED BY <2>2, <2>6
<1>11. c \in [0 .. Len(d) -> Int]
  <2>1. \A n \in 0 .. Len(d) : c[n] \in Int
    BY <1>4, <1>10
  <2>2. c = [n \in 0 .. Len(d) |-> IF n = 0 THEN 0 ELSE AppendDigit(c[n - 1], d[n])]
    BY <1>7
  <2> QED BY <1>9, <2>1, <2>2
<1>12. c[0] = 0
  BY <1>1, <1>9
<1>13. ASSUME NEW n \in 1 .. Len(d) PROVE c[n] = Wrap(c[n - 1] * 10 + Value(d[n]))
  <2>1. n \in 0 .. Len(d) /\ n # 0 /\ n - 1 \in 0 .. Len(d)
    BY <1>1
  <2>2. c[n - 1] \in Int /\ c[n] = AppendDigit(c[n - 1], d[n])
    BY <1>9, <1>11, <2>1
  <2> QED BY <1>2, <2>2
<1> QED BY <1>8, <1>11, <1>12, <1>13 DEF Reading

\* One and two digits, spelled out.
LEMMA NumberFew ==
  ASSUME NEW d \in Seq(Digits)
  PROVE  /\ Len(d) = 0 => NumberOf(d) \in 0 .. 9
         /\ Len(d) = 1 => NumberOf(d) = Value(d[1]) /\ NumberOf(d) \in 0 .. 9
         /\ Len(d) = 2 => NumberOf(d) = 10 * Value(d[1]) + Value(d[2])
                          /\ NumberOf(d) \in 0 .. 99
<1>1. PICK res : Reading(res, d)
  BY ReadingExists
<1>2. \A n \in 1 .. Len(d) : Value(d[n]) \in 0 .. 9
  <2>1. \A n \in 1 .. Len(d) : d[n] \in Digits
    OBVIOUS
  <2> QED BY <2>1, ValueIs, Zenon
<1>3. ASSUME NEW n \in 0 .. 99 PROVE Wrap(n) = n
  <2>1. n \in Int /\ -999 <= n /\ n <= 999
    OBVIOUS
  <2> QED BY ONLY <2>1, WrapSmall
<1>4. CASE Len(d) = 0
  BY <1>1, <1>4 DEF Reading
<1>5. CASE Len(d) = 1
  <2> DEFINE a == Value(d[1])
  <2>1. a \in 0 .. 9
    BY <1>2, <1>5
  <2>2. res[0] = 0 /\ res[1] = Wrap(res[0] * 10 + a) /\ NumberOf(d) = res[1]
    BY <1>1, <1>5 DEF Reading
  <2> HIDE DEF a
  <2>3. a \in 0 .. 99 /\ 0 * 10 + a = a
    BY <2>1
  <2>4. NumberOf(d) = a
    BY <1>3, <2>2, <2>3
  <2> QED BY <1>5, <2>1, <2>4 DEF a
<1>6. CASE Len(d) = 2
  <2> DEFINE a == Value(d[1])
             b == Value(d[2])
  <2>1. a \in 0 .. 9 /\ b \in 0 .. 9
    BY <1>2, <1>6
  <2>2. res[0] = 0 /\ res[1] = Wrap(res[0] * 10 + a)
        /\ res[2] = Wrap(res[1] * 10 + b) /\ NumberOf(d) = res[2]
    BY <1>1, <1>6 DEF Reading
  <2> HIDE DEF a, b
  <2>3. /\ a \in 0 .. 99 /\ 0 * 10 + a = a
        /\ a * 10 + b \in 0 .. 99 /\ a * 10 + b = 10 * a + b
    BY <2>1
  <2>4. res[1] = a
    BY <1>3, <2>2, <2>3
  <2>5. NumberOf(d) = a * 10 + b
    BY <1>3, <2>2, <2>3, <2>4
  <2>6. NumberOf(d) = 10 * a + b /\ NumberOf(d) \in 0 .. 99
    BY <2>3, <2>5
  <2> QED BY <1>6, <2>6 DEF a, b
<1> QED BY <1>4, <1>5, <1>6

----------------------------------------------------------------------------
\* What isspace is true of.
Spaces == {c \in Char : isspace(c)}

\* No digit is a space.
LEMMA DigitNoSpace ==
  \A c \in Digits : c \in Char /\ c \notin Spaces /\ c \notin {"-", "+"}
BY DigitsAreFigures DEF Spaces, isspace

\* Behind leading space, digits to the end are the number that atoi reads.
LEMMA AtoiReads ==
  ASSUME NEW s \in Seq(Char), NEW u \in Seq(Digits), u # <<>>,
         From(s, FirstOutside(s, Spaces)) = u
  PROVE  atoi(s) = NumberOf(u)
<1>1. /\ Len(u) \in Nat \ {0} /\ \A j \in 1 .. Len(u) : u[j] \in Digits
      /\ Head(u) = u[1] /\ u \in Seq(Char)
  <2>1. Digits \subseteq Char
    BY DEF Digits
  <2> QED BY <2>1, SeqMonotonic, EmptySeq
<1>2. Head(u) \notin {"-", "+"}
  BY <1>1, DigitNoSpace
<1>3. FirstOutside(u, Digits) = Len(u) + 1
  <2>1. Len(u) + 1 \in 1 .. (Len(u) + 1) /\ ~(Len(u) + 1 <= Len(u))
        /\ (Len(u) + 1) - 1 = Len(u)
    BY <1>1
  <2> QED BY <1>1, <2>1, FirstOutsideAt
<1>4. Take(u, FirstOutside(u, Digits) - 1) = u
  <2>1. (Len(u) + 1) - 1 = Len(u) /\ ~(Len(u) < Len(u))
    BY <1>1
  <2>2. SubSeq(u, 1, Len(u)) = u
    BY <1>1
  <2> QED BY <1>3, <2>1, <2>2 DEF Take
<1> QED BY <1>2, <1>4 DEF atoi, Spaces

\* Digits alone.
LEMMA AtoiDigits ==
  ASSUME NEW d \in Seq(Digits), d # <<>>
  PROVE  atoi(d) = NumberOf(d)
<1>1. /\ Len(d) \in Nat \ {0} /\ d[1] \in Digits /\ d \in Seq(Char)
  <2>1. Digits \subseteq Char
    BY DEF Digits
  <2> QED BY <2>1, SeqMonotonic, EmptySeq
<1>2. FirstOutside(d, Spaces) = 1
  BY <1>1, FirstOutsideAt, DigitNoSpace
<1>3. From(d, 1) = d
  BY <1>1 DEF From
<1> QED BY <1>1, <1>2, <1>3, AtoiReads

\* A space and a digit.
LEMMA AtoiSpaceDigit ==
  ASSUME NEW s \in Seq(Char), Len(s) = 2, s[1] \in Spaces, s[2] \in Digits
  PROVE  atoi(s) = Value(s[2])
<1>1. s[2] \notin Spaces
  BY DigitNoSpace
<1>2. FirstOutside(s, Spaces) = 2
  <2>1. \A j \in 1 .. (2 - 1) : j = 1
    OBVIOUS
  <2>2. \A j \in 1 .. (2 - 1) : s[j] \in Spaces
    BY <1>1, <2>1
  <2>3. 2 \in 1 .. (Len(s) + 1)
    OBVIOUS
  <2> QED BY <1>1, <2>2, <2>3, FirstOutsideAt
<1> DEFINE u == From(s, 2)
<1>3. u \in Seq(Digits) /\ Len(u) = 1 /\ u[1] = s[2]
  <2>1. \A j \in 2 .. 2 : s[j] \in Digits
    OBVIOUS
  <2>2. /\ SubSeq(s, 2, 2) \in Seq(Digits)
        /\ Len(SubSeq(s, 2, 2)) = 1
        /\ SubSeq(s, 2, 2)[1] = s[2]
    BY <2>1, SubSeqProperties
  <2> QED BY <2>2 DEF From
<1> HIDE DEF u
<1>4. u # <<>>
  <2>1. Len(<<>>) = 0 /\ 0 # 1
    OBVIOUS
  <2> QED BY <1>3, <2>1, Zenon
<1>5. atoi(s) = NumberOf(u)
  BY <1>2, <1>3, <1>4, AtoiReads DEF u
<1> QED BY <1>3, <1>5, NumberFew

\* Two characters, whichever they are, read as at most two digits or as a
\* sign and one digit.
LEMMA AtoiTwo ==
  ASSUME NEW s \in Seq(Char), Len(s) = 2
  PROVE  atoi(s) \in -9 .. 99
<1> DEFINE k == FirstOutside(s, Spaces)
           u == From(s, k)
           signed == u # <<>> /\ Head(u) \in {"-", "+"}
           v == IF signed THEN Tail(u) ELSE u
           e == FirstOutside(v, Digits)
           d == Take(v, e - 1)
<1>1. k \in 1 .. 3
  BY FirstOutsideIs
<1>2. u \in Seq(Char) /\ Len(u) \in 0 .. 2
  <2>1. \A i \in k .. Len(s) : s[i] \in Char
    BY <1>1
  <2> HIDE DEF k
  <2>2. SubSeq(s, k, Len(s)) \in Seq(Char)
        /\ Len(SubSeq(s, k, Len(s))) = IF k <= Len(s) THEN Len(s) - k + 1 ELSE 0
    BY <1>1, <2>1, SubSeqProperties
  <2> QED BY <1>1, <2>2 DEF From
<1> HIDE DEF k, u
<1>3. v \in Seq(Char) /\ Len(v) \in 0 .. 2 /\ (signed => Len(v) \in 0 .. 1)
  <2>1. CASE signed
    <3>1. Tail(u) \in Seq(Char) /\ Len(Tail(u)) = Len(u) - 1 /\ Len(u) \in 1 .. 2
      BY <1>2, <2>1, EmptySeq
    <3> QED BY <2>1, <3>1
  <2>2. CASE ~signed
    BY <1>2, <2>2
  <2> QED BY <2>1, <2>2
<1> HIDE DEF v
<1>4. e \in 1 .. (Len(v) + 1) /\ \A j \in 1 .. (e - 1) : v[j] \in Digits
  BY <1>3, FirstOutsideIs
<1> HIDE DEF e
<1>5. d \in Seq(Digits) /\ Len(d) = e - 1
  <2> DEFINE n == e - 1
  <2>1. n \in Nat /\ n <= Len(v) /\ Len(v) \in Nat
    BY <1>3, <1>4
  <2>2. \A j \in 1 .. n : v[j] \in Digits
    BY <1>4
  <2> HIDE DEF n
  <2>3. d = SubSeq(v, 1, n)
    BY <2>1 DEF Take, n
  <2>4. SubSeq(v, 1, n) \in Seq(Digits)
        /\ Len(SubSeq(v, 1, n)) = IF 1 <= n THEN n - 1 + 1 ELSE 0
    BY <2>1, <2>2, SubSeqProperties
  <2>5. Len(SubSeq(v, 1, n)) = n
    BY <2>1, <2>4
  <2> QED BY <2>3, <2>4, <2>5 DEF n
<1> HIDE DEF d
<1>6. atoi(s) = IF signed /\ Head(u) = "-" THEN Wrap(-NumberOf(d)) ELSE NumberOf(d)
  BY DEF atoi, k, u, v, e, d, Spaces
<1> DEFINE n == NumberOf(d)
<1>7. CASE signed
  <2>1. Len(d) = 0 \/ Len(d) = 1
    BY <1>3, <1>4, <1>5, <1>7
  <2>2. n \in 0 .. 9
    BY <1>5, <2>1, NumberFew, Zenon
  <2> HIDE DEF n, signed
  <2>3. -n \in Int /\ -999 <= -n /\ -n <= 999
    BY <2>2
  <2>4. Wrap(-n) = -n
    BY <2>3, WrapSmall
  <2>5. atoi(s) = n \/ atoi(s) = -n
    BY <1>6, <2>4 DEF n
  <2>6. n \in -9 .. 99 /\ -n \in -9 .. 99
    BY <2>2
  <2> QED BY <2>5, <2>6, Zenon
<1>8. CASE ~signed
  <2>1. Len(d) = 0 \/ Len(d) = 1 \/ Len(d) = 2
    BY <1>3, <1>4, <1>5
  <2>2. n \in 0 .. 9 \/ n \in 0 .. 99
    BY <1>5, <2>1, NumberFew, Zenon
  <2>3. atoi(s) = n
    BY <1>6, <1>8
  <2> HIDE DEF n
  <2> QED BY <2>2, <2>3
<1> QED BY <1>7, <1>8

----------------------------------------------------------------------------
\* Division by ten.
LEMMA DivTen ==
  ASSUME NEW n \in Nat
  PROVE  /\ n \div 10 \in Nat /\ n % 10 \in 0 .. 9 /\ n = 10 * (n \div 10) + (n % 10)
         /\ n > 0 => n \div 10 < n
         /\ n \div 10 >= 1 <=> n >= 10
OBVIOUS

\* The powers of ten.
LEMMA Tens ==
  /\ TenToThe \in [Nat -> Nat \ {0}] /\ TenToThe[0] = 1
  /\ \A k \in Nat : TenToThe[k + 1] = 10 * TenToThe[k]
<1> DEFINE step == [n \in Nat \ {0} |-> [v \in Nat |-> 10 * v]]
           back == [n \in Nat \ {0} |-> n - 1]
           Fits(f) == f = [k \in Nat |-> IF k = 0 THEN 1 ELSE 10 * f[k - 1]]
           c == CHOOSE f : Fits(f)
<1>1. Recursive(Nat, Nat, Nat \ {0}, 1, step, back)
  BY DEF Recursive
<1>2. PICK f \in [Nat -> Nat] : \A n \in Nat : Rule(f, n, Nat \ {0}, 1, step, back)
  <2> HIDE DEF step, back
  <2> QED BY <1>1, RecursionExists
<1>3. ASSUME NEW n \in Nat PROVE f[n] = IF n = 0 THEN 1 ELSE 10 * f[n - 1]
  <2>1. CASE n = 0
    <3> HIDE DEF step, back
    <3> QED BY <1>2, <2>1 DEF Rule
  <2>2. CASE n # 0
    <3>1. n - 1 \in Nat /\ n \in Nat \ {0}
      BY <2>2
    <3>2. step[n] = [v \in Nat |-> 10 * v] /\ back[n] = n - 1
      BY <3>1
    <3> HIDE DEF step, back
    <3>3. f[n] = step[n][f[n - 1]] /\ f[n - 1] \in Nat
      BY <1>2, <3>1, <3>2 DEF Rule
    <3> QED BY <2>2, <3>2, <3>3
  <2> QED BY <2>1, <2>2
<1>4. Fits(f)
  BY <1>2, <1>3
<1>5. Fits(c)
  <2> HIDE DEF Fits
  <2> QED BY <1>4
<1>6. TenToThe = c
  BY DEF TenToThe
<1> HIDE DEF c
<1>7. \A n \in Nat : c[n] = IF n = 0 THEN 1 ELSE 10 * c[n - 1]
  <2> DEFINE g == [k \in Nat |-> IF k = 0 THEN 1 ELSE 10 * c[k - 1]]
  <2>1. c = g
    BY <1>5
  <2>2. \A n \in Nat : g[n] = IF n = 0 THEN 1 ELSE 10 * c[n - 1]
    OBVIOUS
  <2> HIDE DEF g, Fits
  <2> QED BY <2>1, <2>2
<1>8. \A n \in Nat : c[n] \in Nat \ {0}
  <2> DEFINE Bad == {n \in Nat : c[n] \notin Nat \ {0}}
  <2>1. SUFFICES ASSUME Bad # {} PROVE FALSE
    OBVIOUS
  <2>2. PICK n \in Bad : \A i \in Bad : n <= i
    <3>1. Bad \in SUBSET Nat
      OBVIOUS
    <3> HIDE DEF Bad
    <3> QED BY <2>1, <3>1, LeastExists
  <2>3. n # 0
    BY <1>7, <2>2
  <2>4. n - 1 \in Nat /\ ~(n <= n - 1)
    BY <2>3
  <2>5. c[n - 1] \in Nat \ {0}
    BY <2>2, <2>4
  <2>6. c[n] = 10 * c[n - 1]
    BY <1>7, <2>3
  <2>7. c[n] \in Nat \ {0}
    BY <2>5, <2>6
  <2> QED BY <2>2, <2>7
<1>9. c \in [Nat -> Nat \ {0}]
  <2>1. c = [k \in Nat |-> IF k = 0 THEN 1 ELSE 10 * c[k - 1]]
    BY <1>5
  <2> HIDE DEF Fits
  <2> QED BY <1>7, <1>8, <2>1
<1>10. ASSUME NEW k \in Nat PROVE c[k + 1] = 10 * c[k]
  <2>1. k + 1 \in Nat /\ k + 1 # 0 /\ (k + 1) - 1 = k
    OBVIOUS
  <2> QED BY <1>7, <2>1
<1>11. c[0] = 1
  BY <1>7
<1> QED BY <1>6, <1>9, <1>10, <1>11

\* The highest power of ten in a number.
LEMMA MaxPowerIs ==
  /\ \A n \in Nat : MaxPowerOf[n] \in Nat
  /\ \A n \in Nat : MaxPowerOf[n] = IF n >= 10 THEN 1 + MaxPowerOf[n \div 10] ELSE 0
<1> DEFINE C == {n \in Nat : n >= 10}
           step == [n \in C |-> [v \in Nat |-> 1 + v]]
           back == [n \in C |-> n \div 10]
           Fits(f) == f = [n \in Nat |-> IF n > 1 /\ n \div 10 >= 1
                                         THEN 1 + f[n \div 10] ELSE 0]
           c == CHOOSE f : Fits(f)
<1>1. Recursive(Nat, Nat, C, 0, step, back)
  <2>1. ASSUME NEW n \in C
        PROVE  step[n] \in [Nat -> Nat] /\ back[n] \in Nat /\ back[n] < n
    <3>1. n \div 10 \in Nat /\ n \div 10 < n
      BY DivTen
    <3> QED BY <3>1
  <2>2. Nat \subseteq Nat /\ C \subseteq Nat /\ 0 \in Nat
    OBVIOUS
  <2> QED BY <2>1, <2>2 DEF Recursive
<1>2. PICK f \in [Nat -> Nat] : \A n \in Nat : Rule(f, n, C, 0, step, back)
  <2> HIDE DEF C, step, back
  <2> QED BY <1>1, RecursionExists
<1>3. ASSUME NEW n \in Nat
      PROVE  f[n] = IF n > 1 /\ n \div 10 >= 1 THEN 1 + f[n \div 10] ELSE 0
  <2>1. n > 1 /\ n \div 10 >= 1 <=> n \in C
    BY DivTen
  <2>2. CASE n \notin C
    <3> HIDE DEF C, step, back
    <3> QED BY <1>2, <2>1, <2>2 DEF Rule
  <2>3. CASE n \in C
    <3>1. step[n] = [v \in Nat |-> 1 + v] /\ back[n] = n \div 10
      BY <2>3
    <3>2. n \div 10 \in Nat
      BY DivTen
    <3> HIDE DEF C, step, back
    <3>3. f[n] = step[n][f[n \div 10]] /\ f[n \div 10] \in Nat
      BY <1>2, <2>3, <3>1, <3>2 DEF Rule
    <3>4. f[n] = 1 + f[n \div 10]
      BY <3>1, <3>3
    <3> QED BY <2>1, <2>3, <3>4, Zenon
  <2> QED BY <2>2, <2>3
<1>4. Fits(f)
  BY <1>2, <1>3
<1>5. Fits(c)
  <2> HIDE DEF Fits
  <2> QED BY <1>4
<1>6. MaxPowerOf = c
  BY DEF MaxPowerOf
<1> HIDE DEF c
<1>7. ASSUME NEW n \in Nat PROVE c[n] = IF n >= 10 THEN 1 + c[n \div 10] ELSE 0
  <2> DEFINE g == [m \in Nat |-> IF m > 1 /\ m \div 10 >= 1 THEN 1 + c[m \div 10] ELSE 0]
  <2>1. c = g
    BY <1>5
  <2>2. g[n] = IF n > 1 /\ n \div 10 >= 1 THEN 1 + c[n \div 10] ELSE 0
    OBVIOUS
  <2>3. n > 1 /\ n \div 10 >= 1 <=> n >= 10
    BY DivTen
  <2> HIDE DEF g, Fits
  <2> QED BY <2>1, <2>2, <2>3, Zenon
<1>8. \A n \in Nat : c[n] \in Nat
  <2> DEFINE Bad == {n \in Nat : c[n] \notin Nat}
  <2>1. SUFFICES ASSUME Bad # {} PROVE FALSE
    OBVIOUS
  <2>2. PICK n \in Bad : \A i \in Bad : n <= i
    <3>1. Bad \in SUBSET Nat
      OBVIOUS
    <3> HIDE DEF Bad
    <3> QED BY <2>1, <3>1, LeastExists
  <2>3. n >= 10
    BY <1>7, <2>2
  <2>4. n \div 10 \in Nat /\ ~(n <= n \div 10)
    BY <2>3, DivTen
  <2>5. c[n \div 10] \in Nat
    BY <2>2, <2>4
  <2>6. c[n] = 1 + c[n \div 10]
    BY <1>7, <2>3
  <2>7. c[n] \in Nat
    BY <2>5, <2>6
  <2> QED BY <2>2, <2>7
<1> QED BY <1>6, <1>7, <1>8

\* The number of digits, as itoBCD counts them: none for zero.
LEMMA PowerIs ==
  /\ PowerOf[0] = 0
  /\ \A n \in 1 .. 9 : PowerOf[n] = 1
  /\ \A n \in 10 .. 99 : PowerOf[n] = 2
<1> DEFINE step == [n \in Nat \ {0} |-> [v \in Nat |-> 1 + v]]
           back == [n \in Nat \ {0} |-> n \div 10]
           Fits(f) == f = [n \in Nat |-> IF n > 0 THEN 1 + f[n \div 10] ELSE 0]
           c == CHOOSE f : Fits(f)
<1>1. Recursive(Nat, Nat, Nat \ {0}, 0, step, back)
  <2>1. ASSUME NEW n \in Nat \ {0}
        PROVE  step[n] \in [Nat -> Nat] /\ back[n] \in Nat /\ back[n] < n
    <3>1. n \div 10 \in Nat /\ n \div 10 < n
      BY DivTen
    <3> QED BY <3>1
  <2> QED BY <2>1 DEF Recursive
<1>2. PICK f \in [Nat -> Nat] : \A n \in Nat : Rule(f, n, Nat \ {0}, 0, step, back)
  <2> HIDE DEF step, back
  <2> QED BY <1>1, RecursionExists
<1>3. ASSUME NEW n \in Nat PROVE f[n] = IF n > 0 THEN 1 + f[n \div 10] ELSE 0
  <2>1. CASE n = 0
    <3> HIDE DEF step, back
    <3> QED BY <1>2, <2>1 DEF Rule
  <2>2. CASE n # 0
    <3>1. n \in Nat \ {0} /\ n > 0
      BY <2>2
    <3>2. step[n] = [v \in Nat |-> 1 + v] /\ back[n] = n \div 10
      BY <3>1
    <3>3. n \div 10 \in Nat
      BY DivTen
    <3> HIDE DEF step, back
    <3>4. f[n] = step[n][f[n \div 10]] /\ f[n \div 10] \in Nat
      BY <1>2, <3>1, <3>2, <3>3 DEF Rule
    <3>5. f[n] = 1 + f[n \div 10]
      BY <3>2, <3>4
    <3> QED BY <3>1, <3>5, Zenon
  <2> QED BY <2>1, <2>2
<1>4. Fits(f)
  BY <1>2, <1>3
<1>5. Fits(c)
  <2> HIDE DEF Fits
  <2> QED BY <1>4
<1>6. PowerOf = c
  BY DEF PowerOf
<1> HIDE DEF c
<1>7. \A n \in Nat : c[n] = IF n > 0 THEN 1 + c[n \div 10] ELSE 0
  <2> DEFINE g == [n \in Nat |-> IF n > 0 THEN 1 + c[n \div 10] ELSE 0]
  <2>1. c = g
    BY <1>5
  <2>2. \A n \in Nat : g[n] = IF n > 0 THEN 1 + c[n \div 10] ELSE 0
    OBVIOUS
  <2> HIDE DEF g, Fits
  <2> QED BY <2>1, <2>2
<1>8. c[0] = 0
  BY <1>7
<1>9. ASSUME NEW n \in 1 .. 9 PROVE c[n] = 1
  <2>1. n \in Nat /\ n > 0 /\ n \div 10 = 0
    OBVIOUS
  <2> QED BY <1>7, <1>8, <2>1
<1>10. ASSUME NEW n \in 10 .. 99 PROVE c[n] = 2
  <2>1. n \in Nat /\ n > 0 /\ n \div 10 \in 1 .. 9
    OBVIOUS
  <2> QED BY <1>7, <1>9, <2>1
<1> QED BY <1>6, <1>8, <1>9, <1>10

\* A number has no digit above its highest power of ten.
LEMMA PowerAboveNumber ==
  \A n \in Nat : n < TenToThe[MaxPowerOf[n] + 1]
<1> DEFINE Bad == {n \in Nat : ~(n < TenToThe[MaxPowerOf[n] + 1])}
<1>1. SUFFICES ASSUME Bad # {} PROVE FALSE
  OBVIOUS
<1>2. PICK n \in Bad : \A i \in Bad : n <= i
  <2>1. Bad \in SUBSET Nat
    OBVIOUS
  <2> HIDE DEF Bad
  <2> QED BY <1>1, <2>1, LeastExists
<1> DEFINE p == MaxPowerOf[n]
           q == MaxPowerOf[n \div 10]
<1>3. n >= 10
  <2>1. SUFFICES ASSUME n < 10 PROVE FALSE
    OBVIOUS
  <2>2. p = 0
    BY <2>1, MaxPowerIs
  <2>3. TenToThe[0 + 1] = 10
    BY Tens
  <2> QED BY <1>2, <2>1, <2>2, <2>3
<1>4. n \div 10 \in Nat /\ ~(n <= n \div 10) /\ n < 10 * (n \div 10) + 10
  BY <1>3, DivTen
<1>5. n \div 10 < TenToThe[q + 1]
  BY <1>2, <1>4
<1>6. q \in Nat /\ p = 1 + q
  BY <1>3, <1>4, MaxPowerIs
<1>7. TenToThe[q + 1] \in Nat /\ TenToThe[(q + 1) + 1] = 10 * TenToThe[q + 1]
  <2>1. q + 1 \in Nat
    BY <1>6
  <2> HIDE DEF q
  <2> QED BY <2>1, Tens
<1>8. p + 1 = (q + 1) + 1
  BY <1>6
<1> HIDE DEF p, q
<1>9. n < TenToThe[p + 1]
  BY <1>4, <1>5, <1>7, <1>8
<1> QED BY <1>2, <1>9 DEF p

\* Dividing by ten times a number is dividing by it and then by ten.
LEMMA DivDiv ==
  ASSUME NEW n \in Nat, NEW m \in Nat \ {0}
  PROVE  n \div (10 * m) = (n \div m) \div 10
<1> DEFINE q == n \div m
           r == n % m
           a == q \div 10
           b == q % 10
           x == n \div (10 * m)
           y == n % (10 * m)
<1>0. ASSUME NEW d \in Nat \ {0}
      PROVE  n \div d \in Nat /\ n % d \in Nat /\ n % d < d /\ n = d * (n \div d) + (n % d)
  OBVIOUS
<1>1. q \in Nat /\ r \in Nat /\ r < m /\ n = m * q + r
  BY <1>0
<1>2. x \in Nat /\ y \in Nat /\ y < 10 * m /\ n = (10 * m) * x + y
  <2> DEFINE d == 10 * m
  <2>1. d \in Nat \ {0}
    OBVIOUS
  <2> HIDE DEF d
  <2>2. n \div d \in Nat /\ n % d \in Nat /\ n % d < d /\ n = d * (n \div d) + (n % d)
    BY <1>0, <2>1
  <2> QED BY <2>2 DEF d
<1>3. a \in Nat /\ b \in 0 .. 9 /\ q = 10 * a + b
  BY <1>1, DivTen
<1> HIDE DEF q, r, a, b, x, y
<1>4. m * q = 10 * (m * a) + m * b
  BY <1>3
<1>5. (10 * m) * x = 10 * (m * x)
  BY <1>2
<1>6. m * b >= 0 /\ m * b <= 9 * m
  BY <1>3
<1>7. ~(x > a)
  <2> SUFFICES ASSUME x > a PROVE FALSE
    OBVIOUS
  <2>1. m * x >= m * a + m
    BY <1>2, <1>3
  <2> QED BY <1>1, <1>2, <1>3, <1>4, <1>5, <1>6, <2>1
<1>8. ~(x < a)
  <2> SUFFICES ASSUME x < a PROVE FALSE
    OBVIOUS
  <2>1. m * a >= m * x + m
    BY <1>2, <1>3
  <2> QED BY <1>1, <1>2, <1>3, <1>4, <1>5, <1>6, <2>1
<1>9. x = a
  BY <1>2, <1>3, <1>7, <1>8
<1> QED BY <1>9 DEF x, a, q

----------------------------------------------------------------------------
(***************************************************************************)
(* itoa writes digits only, one for each power of ten up to the highest in *)
(* the number, and atoi reads from them the number that was printed.       *)
(***************************************************************************)
LEMMA Printed ==
  ASSUME NEW n \in Nat, n < IntSize \div 2
  PROVE  /\ itoa(n) \in Seq(Digits) /\ Len(itoa(n)) = MaxPowerOf[n] + 1
         /\ atoi(itoa(n)) = n /\ NumberOf(itoa(n)) = n
<1> DEFINE p == MaxPowerOf[n]
           high(k) == n \div TenToThe[p + 1 - k]
           d == [k \in 1 .. (p + 1) |-> ToChar(high(k) % 10)]
<1>1. p \in Nat
  BY MaxPowerIs
<1>2. itoa(n) = d
  <2>1. ~(n < 0)
    OBVIOUS
  <2> QED BY <2>1 DEF itoa, MaxPower
<1> HIDE DEF p
<1>3. ASSUME NEW k \in 0 .. (p + 1)
      PROVE  high(k) \in Nat /\ high(k) <= n
  <2>1. p + 1 - k \in Nat
    BY <1>1
  <2>2. TenToThe[p + 1 - k] \in Nat \ {0}
    BY <2>1, Tens
  <2> DEFINE m == TenToThe[p + 1 - k]
  <2> HIDE DEF m
  <2>3. n \div m \in Nat /\ n \div m <= n
    BY <2>2 DEF m
  <2> QED BY <2>3 DEF m
<1>4. ASSUME NEW k \in 1 .. (p + 1)
      PROVE  high(k - 1) = high(k) \div 10
  <2> DEFINE j == p + 1 - k
  <2>1. j \in Nat /\ p + 1 - (k - 1) = j + 1
    BY <1>1
  <2>2. TenToThe[j] \in Nat \ {0} /\ TenToThe[j + 1] = 10 * TenToThe[j]
    BY <2>1, Tens
  <2>3. n \div (10 * TenToThe[j]) = (n \div TenToThe[j]) \div 10
    BY <2>2, DivDiv
  <2> HIDE DEF j
  <2> QED BY <2>1, <2>2, <2>3 DEF j
<1>5. high(0) = 0
  <2>1. p + 1 - 0 = p + 1 /\ p + 1 \in Nat
    BY <1>1
  <2>2. n < TenToThe[p + 1] /\ TenToThe[p + 1] \in Nat \ {0}
    BY <2>1, PowerAboveNumber, Tens DEF p
  <2> DEFINE m == TenToThe[p + 1]
  <2> HIDE DEF m
  <2>3. n \div m = 0
    BY <2>2 DEF m
  <2> QED BY <2>1, <2>3 DEF m
<1>6. high(p + 1) = n
  <2>1. p + 1 - (p + 1) = 0
    BY <1>1
  <2>2. n \div 1 = n
    OBVIOUS
  <2> QED BY <2>1, <2>2, Tens
<1> HIDE DEF high
<1>7. ASSUME NEW k \in 1 .. (p + 1)
      PROVE  /\ high(k) \in Nat /\ high(k) % 10 \in 0 .. 9
             /\ high(k - 1) * 10 + (high(k) % 10) = high(k)
  <2>1. k \in 0 .. (p + 1)
    BY <1>1
  <2>2. high(k) \in Nat
    BY <1>3, <2>1
  <2> QED BY <1>4, <2>2, DivTen
<1>8. \A k \in 1 .. (p + 1) : ToChar(high(k) % 10) \in Digits
  BY <1>7, DigitsAreFigures
<1>9. d \in Seq(Digits) /\ Len(d) = p + 1
      /\ \A k \in 1 .. (p + 1) : d[k] = ToChar(high(k) % 10)
  BY <1>1, <1>8
<1> HIDE DEF d
<1>10. \A k \in 1 .. (p + 1) : Value(d[k]) = high(k) % 10
  BY <1>7, <1>9, DigitsAreFigures DEF Value
<1>11. PICK res : Reading(res, d)
  BY <1>9, ReadingExists
<1>12. \A k \in 0 .. (p + 1) : res[k] = high(k)
  <2> DEFINE Bad == {k \in 0 .. (p + 1) : res[k] # high(k)}
  <2>1. SUFFICES ASSUME Bad # {} PROVE FALSE
    OBVIOUS
  <2>2. PICK k \in Bad : \A i \in Bad : k <= i
    <3>1. Bad \in SUBSET Nat
      BY <1>1
    <3> HIDE DEF Bad
    <3> QED BY <2>1, <3>1, LeastExists
  <2>3. k # 0
    BY <1>5, <1>11, <2>2 DEF Reading
  <2>4. k \in 1 .. (p + 1) /\ k - 1 \in 0 .. (p + 1) /\ ~(k <= k - 1)
    BY <1>1, <2>2, <2>3
  <2>5. res[k - 1] = high(k - 1)
    BY <2>2, <2>4
  <2>6. res[k] = Wrap(res[k - 1] * 10 + Value(d[k]))
    BY <1>9, <1>11, <2>4 DEF Reading
  <2>7. res[k] = Wrap(high(k))
    BY <1>7, <1>10, <2>4, <2>5, <2>6
  <2>8. high(k) \in Int /\ -999 <= high(k) /\ high(k) < IntSize \div 2
    <3>1. high(k) \in Nat /\ high(k) <= n
      BY <1>3, <2>2
    <3> QED BY <3>1, WrapIs
  <2>9. Wrap(high(k)) = high(k)
    BY ONLY <2>8, WrapIs
  <2> QED BY <2>2, <2>7, <2>9
<1>13. NumberOf(d) = n
  <2>1. p + 1 \in 0 .. (p + 1)
    BY <1>1
  <2> QED BY <1>6, <1>9, <1>11, <1>12, <2>1 DEF Reading
<1>14. d # <<>>
  <2>1. Len(d) # 0 /\ Len(<<>>) = 0
    BY <1>1, <1>9
  <2> QED BY <2>1, Zenon
<1>15. atoi(d) = n
  BY <1>9, <1>13, <1>14, AtoiDigits
<1> QED BY <1>2, <1>9, <1>13, <1>15 DEF p

\* How many digits a small number has.
LEMMA PrintedLength ==
  /\ \A n \in 0 .. 9 : MaxPowerOf[n] = 0
  /\ \A n \in 10 .. 99 : MaxPowerOf[n] = 1
  /\ \A n \in 0 .. 999 : MaxPowerOf[n] <= 2
<1>1. ASSUME NEW n \in 0 .. 9 PROVE MaxPowerOf[n] = 0
  <2>1. n \in Nat /\ ~(n >= 10)
    OBVIOUS
  <2> QED BY <2>1, MaxPowerIs
<1>2. ASSUME NEW n \in 10 .. 99 PROVE MaxPowerOf[n] = 1
  <2>1. n \in Nat /\ n >= 10 /\ n \div 10 \in 0 .. 9
    OBVIOUS
  <2>2. MaxPowerOf[n \div 10] = 0
    BY <1>1, <2>1
  <2> QED BY <2>1, <2>2, MaxPowerIs
<1>3. ASSUME NEW n \in 0 .. 999 PROVE MaxPowerOf[n] <= 2
  <2>1. CASE n \in 0 .. 99
    <3>1. n \in 0 .. 9 \/ n \in 10 .. 99
      BY <2>1
    <3>2. MaxPowerOf[n] = 0 \/ MaxPowerOf[n] = 1
      BY <1>1, <1>2, <3>1
    <3> QED BY <3>2
  <2>2. CASE n \notin 0 .. 99
    <3>1. n \in Nat /\ n >= 10 /\ n \div 10 \in 10 .. 99
      BY <2>2
    <3>2. MaxPowerOf[n \div 10] = 1
      BY <1>2, <3>1
    <3> QED BY <3>1, <3>2, MaxPowerIs
  <2> QED BY <2>1, <2>2
<1> QED BY <1>1, <1>2, <1>3

\* The places of two texts in a row.
LEMMA ConcatAt ==
  ASSUME NEW S, NEW s \in Seq(S), NEW t \in Seq(S)
  PROVE  /\ s \o t \in Seq(S) /\ Len(s \o t) = Len(s) + Len(t)
         /\ \A i \in 1 .. Len(s) : (s \o t)[i] = s[i]
         /\ \A j \in 1 .. Len(t) : (s \o t)[Len(s) + j] = t[j]
<1>1. /\ s \o t \in Seq(S) /\ Len(s \o t) = Len(s) + Len(t)
      /\ \A i \in 1 .. Len(s) + Len(t) :
           (s \o t)[i] = IF i <= Len(s) THEN s[i] ELSE t[i - Len(s)]
  BY ConcatProperties
<1>2. Len(s) \in Nat /\ Len(t) \in Nat
  OBVIOUS
<1>3. ASSUME NEW i \in 1 .. Len(s) PROVE (s \o t)[i] = s[i]
  BY <1>1, <1>2
<1>4. ASSUME NEW j \in 1 .. Len(t) PROVE (s \o t)[Len(s) + j] = t[j]
  <2>1. /\ Len(s) + j \in 1 .. Len(s) + Len(t) /\ ~(Len(s) + j <= Len(s))
        /\ Len(s) + j - Len(s) = j
    BY <1>2
  <2> QED BY <1>1, <2>1
<1> QED BY <1>1, <1>3, <1>4

(***************************************************************************)
(* Pad makes two digits of every number below a hundred.                   *)
(***************************************************************************)
LEMMA Padded ==
  ASSUME NEW n \in 0 .. 99
  PROVE  Pad(n) \in Seq(Digits) /\ Len(Pad(n)) = 2 /\ atoi(Pad(n)) = n
<1>0. n \in Nat /\ n < IntSize \div 2
  BY WrapIs
<1> DEFINE t == itoa(n)
<1>1. t \in Seq(Digits) /\ Len(t) = MaxPowerOf[n] + 1 /\ atoi(t) = n /\ NumberOf(t) = n
  BY <1>0, Printed
<1>2. CASE n \in 10 .. 99
  <2>1. MaxPowerOf[n] = 1
    BY <1>2, PrintedLength
  <2>2. Pad(n) = t
    <3>1. ~(n < 10)
      BY <1>2
    <3>2. <<>> \o t = t
      BY <1>1, ConcatEmptySeq
    <3> QED BY <3>1, <3>2 DEF Pad
  <2> QED BY <1>1, <2>1, <2>2
<1>3. CASE n \in 0 .. 9
  <2>1. Len(t) = 1
    <3>1. MaxPowerOf[n] = 0
      BY <1>3, PrintedLength
    <3> HIDE DEF t
    <3> QED BY <1>1, <3>1
  <2> DEFINE zero == ToChar(0)
             w == <<zero>> \o t
  <2>2. ToChar(0) = "0"
    BY FigureCodes, FiguresAt DEF ToChar
  <2>3. zero \in Digits /\ Value(zero) = 0
    <3>1. 0 \in 0 .. 9
      OBVIOUS
    <3> QED BY <3>1, DigitsAreFigures, Zenon DEF Value
  <2>4. Pad(n) = w
    <3>1. n < 10
      BY <1>3
    <3> QED BY <2>2, <3>1 DEF Pad
  <2> HIDE DEF zero, t
  <2>5. <<zero>> \in Seq(Digits) /\ Len(<<zero>>) = 1 /\ <<zero>>[1] = zero
    BY <2>3
  <2>6. w \in Seq(Digits) /\ Len(w) = 2 /\ w[1] = zero /\ w[2] = t[1]
    <3>1. /\ w \in Seq(Digits) /\ Len(w) = Len(<<zero>>) + Len(t)
          /\ \A i \in 1 .. Len(<<zero>>) : w[i] = <<zero>>[i]
          /\ \A j \in 1 .. Len(t) : w[Len(<<zero>>) + j] = t[j]
      BY <1>1, <2>5, ConcatAt
    <3> HIDE DEF w
    <3>2. w[1] = zero /\ w[1 + 1] = t[1]
      BY <2>1, <2>5, <3>1
    <3> QED BY <2>1, <2>5, <3>1, <3>2
  <2>7. NumberOf(w) = 10 * Value(zero) + Value(t[1])
    BY <2>6, NumberFew
  <2>8. NumberOf(t) = Value(t[1])
    BY <1>1, <2>1, NumberFew
  <2>9. NumberOf(w) = n
    <3>1. 10 * 0 + n = n
      OBVIOUS
    <3> QED BY <1>1, <2>3, <2>7, <2>8, <3>1, Zenon
  <2>10. w # <<>>
    <3>1. Len(<<>>) = 0 /\ 0 # 2
      OBVIOUS
    <3> QED BY <2>6, <3>1, Zenon
  <2> HIDE DEF w
  <2> QED BY <2>4, <2>6, <2>9, <2>10, AtoiDigits
<1>4. n \in 10 .. 99 \/ n \in 0 .. 9
  OBVIOUS
<1> QED BY <1>2, <1>3, <1>4

\* Two characters of a text.
LEMMA PairOf ==
  ASSUME NEW S, NEW w, w \in Seq(S) /\ Len(w) = 8,
         NEW k \in 1 .. 7, NEW m, NEW a, a \in Seq(S) /\ Len(a) = 2,
         w[k] = a[1] /\ w[k + 1] = a[2] /\ m = k + 1
  PROVE  SubSeq(w, k, m) = a
<1> DEFINE u == SubSeq(w, k, k + 1)
<1>1. \A i \in k .. (k + 1) : w[i] \in S
  <2>1. w \in Seq(S)
    OBVIOUS
  <2>2. \A i \in 1 .. Len(w) : w[i] \in S
    BY ONLY <2>1
  <2>3. \A i \in k .. (k + 1) : i \in 1 .. 8
    OBVIOUS
  <2> QED BY <2>2, <2>3, Zenon
<1>2. /\ u \in Seq(S) /\ Len(u) = IF k <= k + 1 THEN (k + 1) - k + 1 ELSE 0
      /\ \A i \in 1 .. ((k + 1) - k + 1) : u[i] = w[k + i - 1]
  <2> DEFINE n == k + 1
  <2>1. k \in Int /\ n \in Int
    OBVIOUS
  <2>2. \A i \in k .. n : w[i] \in S
    BY <1>1
  <2> HIDE DEF n
  <2>3. /\ SubSeq(w, k, n) \in Seq(S)
        /\ Len(SubSeq(w, k, n)) = IF k <= n THEN n - k + 1 ELSE 0
        /\ \A i \in 1 .. (n - k + 1) : SubSeq(w, k, n)[i] = w[k + i - 1]
    BY ONLY <2>1, <2>2, SubSeqProperties
  <2> QED BY <2>3, Zenon DEF n
<1> HIDE DEF u
<1>3. (k + 1) - k + 1 = 2 /\ k <= k + 1 /\ k + 1 - 1 = k /\ k + 2 - 1 = k + 1
      /\ 1 \in 1 .. 2 /\ 2 \in 1 .. 2
  OBVIOUS
<1>4. Len(u) = 2 /\ u[1] = w[k] /\ u[2] = w[k + 1]
  BY <1>2, <1>3, Zenon
<1>5. \A i \in 1 .. 2 : i = 1 \/ i = 2
  OBVIOUS
<1>6. Len(u) = Len(a) /\ \A i \in 1 .. Len(u) : u[i] = a[i]
  BY <1>4, <1>5, Zenon
<1>7. u \in Seq(S)
  BY <1>2
<1>8. a \in Seq(S)
  OBVIOUS
<1>9. u = a
  BY ONLY <1>6, <1>7, <1>8, SeqEqual
<1> QED BY <1>9, Zenon DEF u

\* Three texts with a sign between them.
Joined(w, a, b, c, x) == w = a \o <<x>> \o b \o <<x>> \o c

----------------------------------------------------------------------------
(***************************************************************************)
(* Three fields of two characters and the signs between them.              *)
(***************************************************************************)
LEMMA FieldsOf ==
  ASSUME NEW S, NEW a \in Seq(S), NEW b \in Seq(S), NEW c \in Seq(S), NEW x \in S,
         Len(a) = 2, Len(b) = 2, Len(c) = 2,
         NEW w, Joined(w, a, b, c, x)
  PROVE  /\ w \in Seq(S) /\ Len(w) = 8 /\ w[3] = x /\ w[6] = x
         /\ SubSeq(w, 1, 2) = a /\ SubSeq(w, 4, 5) = b /\ SubSeq(w, 7, 8) = c
<1> DEFINE u == <<x>>
           w1 == a \o u
           w2 == w1 \o b
           w3 == w2 \o u
<1>1. u \in Seq(S) /\ Len(u) = 1 /\ u[1] = x
  OBVIOUS
<1>2. w1 = a \o u /\ w2 = w1 \o b /\ w3 = w2 \o u /\ w = w3 \o c
  BY Zenon DEF Joined
<1>3. a \in Seq(S) /\ c \in Seq(S) /\ Len(c) = 2
  OBVIOUS
<1> HIDE DEF u, w1, w2, w3
<1>4. /\ w1 \in Seq(S) /\ Len(w1) = 3
      /\ w1[1] = a[1] /\ w1[2] = a[2] /\ w1[3] = x
  <2>1. /\ w1 \in Seq(S) /\ Len(w1) = Len(a) + Len(u)
        /\ \A i \in 1 .. Len(a) : w1[i] = a[i]
        /\ \A j \in 1 .. Len(u) : w1[Len(a) + j] = u[j]
    <3>1. /\ a \o u \in Seq(S) /\ Len(a \o u) = Len(a) + Len(u)
          /\ \A i \in 1 .. Len(a) : (a \o u)[i] = a[i]
          /\ \A j \in 1 .. Len(u) : (a \o u)[Len(a) + j] = u[j]
      <4>1. u \in Seq(S)
        BY <1>1
      <4> QED BY ONLY <1>3, <4>1, ConcatAt
    <3> QED BY ONLY <1>2, <3>1, Zenon
  <2>2. w1[1] = a[1] /\ w1[2] = a[2]
    BY <2>1
  <2>3. w1[2 + 1] = u[1]
    BY <1>1, <2>1
  <2> QED BY <1>1, <2>1, <2>2, <2>3
<1>5. /\ w2 \in Seq(S) /\ Len(w2) = 5
      /\ w2[1] = a[1] /\ w2[2] = a[2] /\ w2[3] = x /\ w2[4] = b[1] /\ w2[5] = b[2]
  <2>1. /\ w2 \in Seq(S) /\ Len(w2) = Len(w1) + Len(b)
        /\ \A i \in 1 .. Len(w1) : w2[i] = w1[i]
        /\ \A j \in 1 .. Len(b) : w2[Len(w1) + j] = b[j]
    <3>1. w1 \in Seq(S)
      BY <1>4
    <3>2. b \in Seq(S)
      OBVIOUS
    <3>3. /\ w1 \o b \in Seq(S) /\ Len(w1 \o b) = Len(w1) + Len(b)
          /\ \A i \in 1 .. Len(w1) : (w1 \o b)[i] = w1[i]
          /\ \A j \in 1 .. Len(b) : (w1 \o b)[Len(w1) + j] = b[j]
      BY ONLY <3>1, <3>2, ConcatAt
    <3> QED BY <1>2, <3>3, Zenon
  <2>2. w2[1] = a[1] /\ w2[2] = a[2] /\ w2[3] = x
    BY <1>4, <2>1
  <2>3. w2[3 + 1] = b[1] /\ w2[3 + 2] = b[2]
    BY <1>4, <2>1
  <2> QED BY <1>4, <2>1, <2>2, <2>3
<1>6. /\ w3 \in Seq(S) /\ Len(w3) = 6
      /\ w3[1] = a[1] /\ w3[2] = a[2] /\ w3[3] = x /\ w3[4] = b[1] /\ w3[5] = b[2]
      /\ w3[6] = x
  <2>1. /\ w3 \in Seq(S) /\ Len(w3) = Len(w2) + Len(u)
        /\ \A i \in 1 .. Len(w2) : w3[i] = w2[i]
        /\ \A j \in 1 .. Len(u) : w3[Len(w2) + j] = u[j]
    <3>1. w2 \in Seq(S)
      BY <1>5
    <3>2. u \in Seq(S)
      BY <1>1
    <3>3. /\ w2 \o u \in Seq(S) /\ Len(w2 \o u) = Len(w2) + Len(u)
          /\ \A i \in 1 .. Len(w2) : (w2 \o u)[i] = w2[i]
          /\ \A j \in 1 .. Len(u) : (w2 \o u)[Len(w2) + j] = u[j]
      BY ONLY <3>1, <3>2, ConcatAt
    <3> QED BY <1>2, <3>3, Zenon
  <2>2. w3[1] = a[1] /\ w3[2] = a[2] /\ w3[3] = x /\ w3[4] = b[1] /\ w3[5] = b[2]
    BY <1>5, <2>1
  <2>3. w3[5 + 1] = u[1]
    BY <1>1, <1>5, <2>1
  <2> QED BY <1>1, <1>5, <2>1, <2>2, <2>3
<1>7. /\ w \in Seq(S) /\ Len(w) = 8
      /\ w[1] = a[1] /\ w[2] = a[2] /\ w[3] = x /\ w[4] = b[1] /\ w[5] = b[2]
      /\ w[6] = x /\ w[7] = c[1] /\ w[8] = c[2]
  <2>1. /\ w \in Seq(S) /\ Len(w) = Len(w3) + Len(c)
        /\ \A i \in 1 .. Len(w3) : w[i] = w3[i]
        /\ \A j \in 1 .. Len(c) : w[Len(w3) + j] = c[j]
    <3>1. w3 \in Seq(S)
      BY <1>6
    <3>2. /\ w3 \o c \in Seq(S) /\ Len(w3 \o c) = Len(w3) + Len(c)
          /\ \A i \in 1 .. Len(w3) : (w3 \o c)[i] = w3[i]
          /\ \A j \in 1 .. Len(c) : (w3 \o c)[Len(w3) + j] = c[j]
      <4>1. c \in Seq(S)
        OBVIOUS
      <4> QED BY ONLY <3>1, <4>1, ConcatAt
    <3> QED BY <1>2, <3>2, Zenon
  <2>2. w[1] = a[1] /\ w[2] = a[2] /\ w[3] = x /\ w[4] = b[1] /\ w[5] = b[2]
        /\ w[6] = x
    BY <1>6, <2>1
  <2>3. w[6 + 1] = c[1] /\ w[6 + 2] = c[2]
    BY <1>6, <2>1
  <2> QED BY <1>6, <2>1, <2>2, <2>3
<1>8. SubSeq(w, 1, 2) = a
  <2>1. w[1] = a[1] /\ w[1 + 1] = a[2] /\ 2 = 1 + 1
    BY <1>7
  <2>2. w \in Seq(S) /\ Len(w) = 8
    BY <1>7
  <2>3. a \in Seq(S) /\ Len(a) = 2
    OBVIOUS
  <2> QED BY ONLY <2>1, <2>2, <2>3, PairOf
<1>9. SubSeq(w, 4, 5) = b
  <2>1. w[4] = b[1] /\ w[4 + 1] = b[2] /\ 5 = 4 + 1
    BY <1>7
  <2>2. w \in Seq(S) /\ Len(w) = 8
    BY <1>7
  <2>3. b \in Seq(S) /\ Len(b) = 2
    OBVIOUS
  <2> QED BY ONLY <2>1, <2>2, <2>3, PairOf
<1>10. SubSeq(w, 7, 8) = c
  <2>1. w[7] = c[1] /\ w[7 + 1] = c[2] /\ 8 = 7 + 1
    BY <1>7
  <2>2. w \in Seq(S) /\ Len(w) = 8
    BY <1>7
  <2>3. c \in Seq(S) /\ Len(c) = 2
    OBVIOUS
  <2> QED BY ONLY <2>1, <2>2, <2>3, PairOf
<1> QED BY <1>7, <1>8, <1>9, <1>10

----------------------------------------------------------------------------
\* The numbers that the bits read so far make.
Doubling(v, bits) ==
  /\ v[0] = 0
  /\ \A n \in 1 .. Len(bits) : v[n] = 2 * v[n - 1] + Value(bits[n])
  /\ BinaryOf(bits) = v[Len(bits)]

\* BinaryOf goes from bit to bit.
LEMMA DoublingExists ==
  ASSUME NEW bits \in Seq(Digits)
  PROVE  \E v : Doubling(v, bits)
<1> DEFINE D == 0 .. Len(bits)
           step == [n \in 1 .. Len(bits) |-> [x \in Int |-> 2 * x + Value(bits[n])]]
           back == [n \in 1 .. Len(bits) |-> n - 1]
           Fits(v) == v = [n \in 0 .. Len(bits) |->
                             IF n = 0 THEN 0
                             ELSE 2 * v[n - 1] + (CodeOf[bits[n]] - CodeOf["0"])]
           c == CHOOSE v : Fits(v)
<1>1. Len(bits) \in Nat /\ \A n \in 1 .. Len(bits) : Value(bits[n]) \in 0 .. 9
  <2>1. Len(bits) \in Nat /\ \A n \in 1 .. Len(bits) : bits[n] \in Digits
    OBVIOUS
  <2> QED BY <2>1, ValueIs, Zenon
<1>2. Recursive(D, Int, 1 .. Len(bits), 0, step, back)
  <2>1. D \subseteq Nat /\ 1 .. Len(bits) \subseteq D /\ 0 \in Int
    BY <1>1
  <2>2. ASSUME NEW n \in 1 .. Len(bits)
        PROVE  step[n] \in [Int -> Int] /\ back[n] \in D /\ back[n] < n
    <3> DEFINE a == Value(bits[n])
    <3>1. step[n] = [x \in Int |-> 2 * x + a] /\ back[n] = n - 1
      OBVIOUS
    <3>2. n - 1 \in D /\ n - 1 < n
      BY <1>1
    <3>3. a \in Int
      BY <1>1
    <3> HIDE DEF a, step, back
    <3> QED BY <3>1, <3>2, <3>3
  <2> QED BY <2>1, <2>2 DEF Recursive
<1>3. PICK f \in [D -> Int] : \A n \in D : Rule(f, n, 1 .. Len(bits), 0, step, back)
  <2> HIDE DEF D, step, back
  <2> QED BY <1>2, RecursionExists
<1>4. ASSUME NEW n \in 0 .. Len(bits)
      PROVE  f[n] = IF n = 0 THEN 0 ELSE 2 * f[n - 1] + (CodeOf[bits[n]] - CodeOf["0"])
  <2>1. CASE n = 0
    <3>1. 0 \in D /\ 0 \notin 1 .. Len(bits)
      BY <1>1
    <3> HIDE DEF D, step, back
    <3>2. f[0] = 0
      BY <1>3, <3>1 DEF Rule
    <3> QED BY <2>1, <3>2, Zenon
  <2>2. CASE n # 0
    <3>1. n \in 1 .. Len(bits) /\ n - 1 \in D
      BY <1>1, <2>2
    <3>2. step[n] = [x \in Int |-> 2 * x + Value(bits[n])] /\ back[n] = n - 1
      BY <3>1
    <3>3. f[n] = step[n][f[back[n]]] /\ f[n - 1] \in Int
      BY <1>3, <3>1 DEF Rule
    <3> HIDE DEF step, back
    <3>4. step[n][f[n - 1]] = 2 * f[n - 1] + Value(bits[n])
      BY <3>2, <3>3
    <3>5. f[n] = 2 * f[n - 1] + Value(bits[n])
      BY <3>2, <3>3, <3>4, Zenon
    <3> QED BY <2>2, <3>5, Zenon DEF Value
  <2> QED BY <2>1, <2>2
<1>5. Fits(f)
  BY <1>3, <1>4
<1>6. Fits(c)
  <2> HIDE DEF Fits
  <2> QED BY <1>5
<1>7. BinaryOf(bits) = c[Len(bits)]
  BY DEF BinaryOf
<1> HIDE DEF c
<1>8. \A n \in 0 .. Len(bits) :
        c[n] = IF n = 0 THEN 0 ELSE 2 * c[n - 1] + Value(bits[n])
  <2> DEFINE g == [n \in 0 .. Len(bits) |->
                     IF n = 0 THEN 0 ELSE 2 * c[n - 1] + Value(bits[n])]
  <2>1. c = g
    BY <1>6 DEF Value
  <2>2. \A n \in 0 .. Len(bits) :
          g[n] = IF n = 0 THEN 0 ELSE 2 * c[n - 1] + Value(bits[n])
    OBVIOUS
  <2> HIDE DEF g, Fits
  <2> QED BY <2>1, <2>2
<1>9. c[0] = 0
  BY <1>1, <1>8
<1>10. ASSUME NEW n \in 1 .. Len(bits) PROVE c[n] = 2 * c[n - 1] + Value(bits[n])
  <2>1. n \in 0 .. Len(bits) /\ n # 0
    BY <1>1
  <2> QED BY <1>8, <2>1
<1> QED BY <1>7, <1>9, <1>10 DEF Doubling

\* Doubling four times, with a bit added each time.
LEMMA FourDoubled ==
  ASSUME NEW p \in Int, NEW a \in Int, NEW b \in Int, NEW c \in Int, NEW d \in Int
  PROVE  2 * (2 * (2 * (2 * p + a) + b) + c) + d = 16 * p + 8 * a + 4 * b + 2 * c + d
OBVIOUS

\* Four and eight bits, spelled out.
LEMMA BinaryFew ==
  ASSUME NEW bits \in Seq(Digits)
  PROVE  /\ Len(bits) = 0 => BinaryOf(bits) = 0
         /\ Len(bits) = 4 =>
              BinaryOf(bits) = 8 * Value(bits[1]) + 4 * Value(bits[2])
                               + 2 * Value(bits[3]) + Value(bits[4])
         /\ Len(bits) = 8 =>
              BinaryOf(bits) = 16 * (8 * Value(bits[1]) + 4 * Value(bits[2])
                                     + 2 * Value(bits[3]) + Value(bits[4]))
                               + 8 * Value(bits[5]) + 4 * Value(bits[6])
                               + 2 * Value(bits[7]) + Value(bits[8])
<1>1. PICK v : Doubling(v, bits)
  BY DoublingExists
<1> DEFINE b(n) == Value(bits[n])
<1>2. \A n \in 1 .. Len(bits) : b(n) \in 0 .. 9
  <2>1. \A n \in 1 .. Len(bits) : bits[n] \in Digits
    OBVIOUS
  <2> QED BY <2>1, ValueIs, Zenon
<1>3. v[0] = 0 /\ BinaryOf(bits) = v[Len(bits)]
      /\ \A n \in 1 .. Len(bits) : v[n] = 2 * v[n - 1] + b(n)
  BY <1>1 DEF Doubling
<1> HIDE DEF b
<1>4. ASSUME Len(bits) >= 4
      PROVE  v[4] = 8 * b(1) + 4 * b(2) + 2 * b(3) + b(4) /\ v[4] \in Int
  <2>1. b(1) \in Int /\ b(2) \in Int /\ b(3) \in Int /\ b(4) \in Int
    BY <1>2, <1>4
  <2>2. /\ v[1] = 2 * v[0] + b(1) /\ v[2] = 2 * v[1] + b(2)
        /\ v[3] = 2 * v[2] + b(3) /\ v[4] = 2 * v[3] + b(4)
    BY <1>3, <1>4
  <2>3. v[4] = 2 * (2 * (2 * (2 * v[0] + b(1)) + b(2)) + b(3)) + b(4)
    BY <2>2, Zenon
  <2> DEFINE p == v[0]
             a == b(1)
             c == b(2)
             d == b(3)
             e == b(4)
  <2>4. p \in Int /\ a \in Int /\ c \in Int /\ d \in Int /\ e \in Int
    BY <2>1, <1>3
  <2>5. v[4] = 2 * (2 * (2 * (2 * p + a) + c) + d) + e
    BY <2>3
  <2> HIDE DEF p, a, c, d, e
  <2>6. 2 * (2 * (2 * (2 * p + a) + c) + d) + e = 16 * p + 8 * a + 4 * c + 2 * d + e
    BY ONLY <2>4, FourDoubled
  <2>7. p = 0
    BY <1>3 DEF p
  <2>8. 16 * p + 8 * a + 4 * c + 2 * d + e = 8 * a + 4 * c + 2 * d + e
        /\ 8 * a + 4 * c + 2 * d + e \in Int
    BY ONLY <2>4, <2>7
  <2> QED BY <2>5, <2>6, <2>8, Zenon DEF a, c, d, e
<1>5. ASSUME Len(bits) = 8
      PROVE  v[8] = 16 * v[4] + 8 * b(5) + 4 * b(6) + 2 * b(7) + b(8)
  <2>1. b(5) \in Int /\ b(6) \in Int /\ b(7) \in Int /\ b(8) \in Int
    BY <1>2, <1>5
  <2>2. /\ v[5] = 2 * v[4] + b(5) /\ v[6] = 2 * v[5] + b(6)
        /\ v[7] = 2 * v[6] + b(7) /\ v[8] = 2 * v[7] + b(8)
    BY <1>3, <1>5
  <2>3. v[8] = 2 * (2 * (2 * (2 * v[4] + b(5)) + b(6)) + b(7)) + b(8)
    BY <2>2, Zenon
  <2> DEFINE p == v[4]
             a == b(5)
             c == b(6)
             d == b(7)
             e == b(8)
  <2>4. p \in Int /\ a \in Int /\ c \in Int /\ d \in Int /\ e \in Int
    BY <2>1, <1>4, <1>5
  <2>5. v[8] = 2 * (2 * (2 * (2 * p + a) + c) + d) + e
    BY <2>3
  <2> HIDE DEF p, a, c, d, e
  <2>6. 2 * (2 * (2 * (2 * p + a) + c) + d) + e = 16 * p + 8 * a + 4 * c + 2 * d + e
    BY ONLY <2>4, FourDoubled
  <2> QED BY <2>5, <2>6, Zenon DEF p, a, c, d, e
<1>6. Len(bits) = 0 => BinaryOf(bits) = 0
  BY <1>3
<1>7. Len(bits) = 4 => BinaryOf(bits) = 8 * b(1) + 4 * b(2) + 2 * b(3) + b(4)
  BY <1>3, <1>4
<1>8. Len(bits) = 8 =>
        BinaryOf(bits) = 16 * (8 * b(1) + 4 * b(2) + 2 * b(3) + b(4))
                         + 8 * b(5) + 4 * b(6) + 2 * b(7) + b(8)
  BY <1>3, <1>4, <1>5
<1> QED BY <1>6, <1>7, <1>8 DEF b

\* The four bits of a digit.
LEMMA BitsOfDigit ==
  ASSUME NEW d \in 0 .. 9
  PROVE  /\ BCDval(d) \in Seq(Digits) /\ Len(BCDval(d)) = 4
         /\ 8 * Value(BCDval(d)[1]) + 4 * Value(BCDval(d)[2])
            + 2 * Value(BCDval(d)[3]) + Value(BCDval(d)[4]) = d
<1> DEFINE w == <<8, 4, 2, 1>>
           bit(k) == (d \div w[k]) % 2
           t == [k \in 1 .. 4 |-> ToChar(bit(k))]
<1>1. w[1] = 8 /\ w[2] = 4 /\ w[3] = 2 /\ w[4] = 1
  OBVIOUS
<1>2. /\ bit(1) = (d \div 8) % 2 /\ bit(2) = (d \div 4) % 2
      /\ bit(3) = (d \div 2) % 2 /\ bit(4) = d % 2
  <2>1. d \div 1 = d
    OBVIOUS
  <2> HIDE DEF w
  <2> QED BY <1>1, <2>1
<1> HIDE DEF bit
<1>3. /\ bit(1) \in 0 .. 1 /\ bit(2) \in 0 .. 1 /\ bit(3) \in 0 .. 1 /\ bit(4) \in 0 .. 1
      /\ 8 * bit(1) + 4 * bit(2) + 2 * bit(3) + bit(4) = d
  BY <1>2
<1>4. \A k \in 1 .. 4 : bit(k) \in 0 .. 9
  <2>1. \A k \in 1 .. 4 : k = 1 \/ k = 2 \/ k = 3 \/ k = 4
    OBVIOUS
  <2> QED BY <1>3, <2>1
<1>5. \A k \in 1 .. 4 : ToChar(bit(k)) \in Digits /\ Value(ToChar(bit(k))) = bit(k)
  BY <1>4, DigitsAreFigures DEF Value
<1>6. BCDval(d) = t
  BY DEF BCDval, bit
<1>7. t \in Seq(Digits) /\ Len(t) = 4 /\ \A k \in 1 .. 4 : t[k] = ToChar(bit(k))
  BY <1>5
<1> HIDE DEF t
<1>8. /\ Value(t[1]) = bit(1) /\ Value(t[2]) = bit(2)
      /\ Value(t[3]) = bit(3) /\ Value(t[4]) = bit(4)
  <2>1. 1 \in 1 .. 4 /\ 2 \in 1 .. 4 /\ 3 \in 1 .. 4 /\ 4 \in 1 .. 4
    OBVIOUS
  <2> QED BY <1>5, <1>7, <2>1, Zenon
<1> QED BY <1>3, <1>6, <1>7, <1>8

\* One and two groups in a row.
LEMMA FlattenFew ==
  ASSUME NEW g
  PROVE  /\ Len(g) = 1 => FlattenSeq(g) = g[1]
         /\ Len(g) = 2 => FlattenSeq(g) = g[1] \o g[2]
<1> DEFINE m == Len(g)
           Fits(f) == f = [i \in 1 .. m |-> IF i = 1 THEN g[i] ELSE f[i - 1] \o g[i]]
           c == CHOOSE f : Fits(f)
<1>1. ASSUME m = 1 \/ m = 2
      PROVE  /\ FlattenSeq(g) = c[m]
             /\ c[1] = g[1] /\ (m = 2 => c[2] = c[1] \o g[2])
  <2> DEFINE f == [i \in 1 .. m |-> IF i = 1 THEN g[1] ELSE g[1] \o g[2]]
  <2>1. \A i \in 1 .. m : i = 1 \/ (i = 2 /\ m = 2)
    <3> HIDE DEF m
    <3>1. CASE m = 1
      BY <3>1
    <3>2. CASE m = 2
      BY <3>2
    <3> QED BY <1>1, <3>1, <3>2
  <2>2. ASSUME NEW i \in 1 .. m
        PROVE  f[i] = IF i = 1 THEN g[i] ELSE f[i - 1] \o g[i]
    <3>1. CASE i = 1
      BY <3>1
    <3>2. CASE i = 2 /\ m = 2
      <4>1. i - 1 = 1 /\ 1 \in 1 .. m /\ i # 1
        BY <3>2
      <4>2. f[i - 1] = g[1]
        BY <4>1
      <4> QED BY <3>2, <4>1, <4>2
    <3> QED BY <2>1, <3>1, <3>2
  <2>3. Fits(f)
    BY <2>2
  <2>4. Fits(c)
    <3> HIDE DEF Fits
    <3> QED BY <2>3
  <2>5. FlattenSeq(g) = c[m]
    <3>1. m # 0
      BY <1>1
    <3> QED BY <3>1 DEF FlattenSeq
  <2> HIDE DEF c
  <2>6. \A i \in 1 .. m : c[i] = IF i = 1 THEN g[i] ELSE c[i - 1] \o g[i]
    <3> DEFINE h == [i \in 1 .. m |-> IF i = 1 THEN g[i] ELSE c[i - 1] \o g[i]]
    <3>1. c = h
      BY <2>4
    <3>2. \A i \in 1 .. m : h[i] = IF i = 1 THEN g[i] ELSE c[i - 1] \o g[i]
      OBVIOUS
    <3> HIDE DEF h, Fits
    <3> QED BY <3>1, <3>2
  <2>7. 1 \in 1 .. m /\ (m = 2 => 2 \in 1 .. m /\ 2 # 1 /\ 2 - 1 = 1)
    BY <1>1
  <2> HIDE DEF m
  <2>8. c[1] = g[1]
    BY <2>6, <2>7
  <2>9. m = 2 => c[2] = c[1] \o g[2]
    BY <2>6, <2>7
  <2> QED BY <2>5, <2>8, <2>9
<1> HIDE DEF c
<1> QED BY <1>1

(***************************************************************************)
(* itoBCD writes the two groups of four bits that bin_to_bcd makes a byte. *)
(***************************************************************************)
LEMMA GroupsRead ==
  ASSUME NEW n \in 0 .. 99
  PROVE  BinaryOf(itoBCD(n)) = (n \div 10) * 16 + (n % 10)
<1> DEFINE g == [k \in 1 .. PowerOf[n] |-> BCDval(DigitAt(n, k))]
<1>0. itoBCD(n) = FlattenSeq(g)
  BY DEF itoBCD
<1>1. CASE n = 0
  <2>1. g = <<>> /\ Len(g) = 0
    BY <1>1, PowerIs
  <2> HIDE DEF g
  <2>2. itoBCD(n) = <<>>
    BY <1>0, <2>1 DEF FlattenSeq
  <2>3. <<>> \in Seq(Digits) /\ Len(<<>>) = 0
    OBVIOUS
  <2>4. BinaryOf(<<>>) = 0
    BY <2>3, BinaryFew
  <2> QED BY <1>1, <2>2, <2>4
<1>2. CASE n \in 1 .. 9
  <2>1. PowerOf[n] = 1
    BY <1>2, PowerIs
  <2>2. DigitAt(n, 1) = n
    <3>1. PowerOf[n] - 1 = 0
      BY <2>1
    <3>2. DigitAt(n, 1) = (n \div 1) % 10
      BY <3>1, Tens DEF DigitAt
    <3> QED BY <1>2, <3>2
  <2>3. Len(g) = 1 /\ g[1] = BCDval(n)
    BY <2>1, <2>2
  <2> HIDE DEF g
  <2>4. itoBCD(n) = BCDval(n)
    BY <1>0, <2>3, FlattenFew
  <2> DEFINE t == BCDval(n)
  <2>5. /\ t \in Seq(Digits) /\ Len(t) = 4
        /\ 8 * Value(t[1]) + 4 * Value(t[2]) + 2 * Value(t[3]) + Value(t[4]) = n
    <3>1. n \in 0 .. 9
      BY <1>2
    <3> QED BY <3>1, BitsOfDigit, Zenon
  <2> HIDE DEF t
  <2>6. BinaryOf(t) = n
    BY <2>5, BinaryFew
  <2>7. (n \div 10) * 16 + (n % 10) = n
    BY <1>2
  <2> QED BY <2>4, <2>6, <2>7 DEF t
<1>3. CASE n \in 10 .. 99
  <2>1. PowerOf[n] = 2
    BY <1>3, PowerIs
  <2> DEFINE high == n \div 10
             low == n % 10
             s == BCDval(high)
             t == BCDval(low)
             w == s \o t
  <2>2. high \in 0 .. 9 /\ low \in 0 .. 9
    BY <1>3
  <2>3. DigitAt(n, 1) = high /\ DigitAt(n, 2) = low
    <3>1. PowerOf[n] - 1 = 0 + 1 /\ PowerOf[n] - 2 = 0
      BY <2>1
    <3>2. TenToThe[0 + 1] = 10 /\ TenToThe[0] = 1
      BY Tens
    <3>3. DigitAt(n, 1) = (n \div 10) % 10 /\ DigitAt(n, 2) = (n \div 1) % 10
      BY <3>1, <3>2 DEF DigitAt
    <3> QED BY <1>3, <3>3
  <2> HIDE DEF high, low
  <2>4. Len(g) = 2 /\ g[1] = s /\ g[2] = t
    BY <2>1, <2>3
  <2>5. /\ s \in Seq(Digits) /\ Len(s) = 4
        /\ 8 * Value(s[1]) + 4 * Value(s[2]) + 2 * Value(s[3]) + Value(s[4]) = high
    BY <2>2, BitsOfDigit
  <2>6. /\ t \in Seq(Digits) /\ Len(t) = 4
        /\ 8 * Value(t[1]) + 4 * Value(t[2]) + 2 * Value(t[3]) + Value(t[4]) = low
    BY <2>2, BitsOfDigit
  <2> HIDE DEF g, s, t
  <2>7. itoBCD(n) = w
    BY <1>0, <2>4, FlattenFew
  <2>8. /\ w \in Seq(Digits) /\ Len(w) = Len(s) + Len(t)
        /\ \A i \in 1 .. Len(s) : w[i] = s[i]
        /\ \A j \in 1 .. Len(t) : w[Len(s) + j] = t[j]
    <3>1. s \in Seq(Digits)
      BY <2>5
    <3>2. t \in Seq(Digits)
      BY <2>6
    <3> QED BY ONLY <3>1, <3>2, ConcatAt
  <2> HIDE DEF w
  <2>9. w[1] = s[1] /\ w[2] = s[2] /\ w[3] = s[3] /\ w[4] = s[4] /\ Len(w) = 8
    BY <2>5, <2>6, <2>8
  <2>10. w[4 + 1] = t[1] /\ w[4 + 2] = t[2] /\ w[4 + 3] = t[3] /\ w[4 + 4] = t[4]
    BY <2>5, <2>6, <2>8
  <2>11. \A i \in 1 .. 4 : Value(s[i]) \in 0 .. 9 /\ Value(t[i]) \in 0 .. 9
    <3>1. \A i \in 1 .. 4 : s[i] \in Digits /\ t[i] \in Digits
      <4>1. s \in Seq(Digits) /\ Len(s) = 4
        BY <2>5
      <4>2. t \in Seq(Digits) /\ Len(t) = 4
        BY <2>6
      <4>3. \A i \in 1 .. Len(s) : s[i] \in Digits
        <5>1. s \in Seq(Digits)
          BY <4>1
        <5> QED BY ONLY <5>1
      <4>4. \A i \in 1 .. Len(t) : t[i] \in Digits
        <5>1. t \in Seq(Digits)
          BY <4>2
        <5> QED BY ONLY <5>1
      <4> QED BY ONLY <4>1, <4>2, <4>3, <4>4, Zenon
    <3> QED BY <3>1, ValueIs, Zenon
  <2>12. BinaryOf(w) = 16 * high + low
    <3>1. w[5] = t[1] /\ w[6] = t[2] /\ w[7] = t[3] /\ w[8] = t[4]
      BY <2>10
    <3>2. BinaryOf(w) = 16 * (8 * Value(s[1]) + 4 * Value(s[2])
                              + 2 * Value(s[3]) + Value(s[4]))
                        + 8 * Value(t[1]) + 4 * Value(t[2])
                        + 2 * Value(t[3]) + Value(t[4])
      BY <2>8, <2>9, <3>1, BinaryFew
    <3> DEFINE a == 8 * Value(s[1]) + 4 * Value(s[2]) + 2 * Value(s[3]) + Value(s[4])
               p == 8 * Value(t[1])
               q == 4 * Value(t[2])
               r == 2 * Value(t[3])
               z == Value(t[4])
    <3>3. BinaryOf(w) = 16 * a + p + q + r + z
      BY <3>2
    <3>4. a = high /\ p + q + r + z = low
      BY <2>5, <2>6
    <3>5. p \in Int /\ q \in Int /\ r \in Int /\ z \in Int
      <4>1. 1 \in 1 .. 4 /\ 2 \in 1 .. 4 /\ 3 \in 1 .. 4 /\ 4 \in 1 .. 4
        OBVIOUS
      <4> QED BY <2>11, <4>1
    <3> HIDE DEF a, p, q, r, z
    <3> QED BY <2>2, <3>3, <3>4, <3>5
  <2>13. high * 16 = 16 * high
    BY <2>2
  <2> QED BY <2>7, <2>12, <2>13 DEF high, low
<1>4. n = 0 \/ n \in 1 .. 9 \/ n \in 10 .. 99
  OBVIOUS
<1> QED BY <1>1, <1>2, <1>3, <1>4

----------------------------------------------------------------------------
(***************************************************************************)
(* Part 7.  The rest of a text, and the words that strtok returns.         *)
(***************************************************************************)

\* What is behind a place.
LEMMA FromIs ==
  ASSUME NEW S, NEW s \in Seq(S), NEW k \in 1 .. (Len(s) + 1)
  PROVE  /\ From(s, k) \in Seq(S) /\ Len(From(s, k)) = Len(s) + 1 - k
         /\ \A j \in 1 .. (Len(s) + 1 - k) : From(s, k)[j] = s[k + j - 1]
         /\ k = Len(s) + 1 => From(s, k) = <<>>
<1>1. Len(s) \in Nat /\ \A i \in 1 .. Len(s) : s[i] \in S
  OBVIOUS
<1>2. \A i \in k .. Len(s) : s[i] \in S
  BY <1>1
<1>3. /\ From(s, k) \in Seq(S)
      /\ Len(From(s, k)) = IF k <= Len(s) THEN Len(s) - k + 1 ELSE 0
      /\ \A i \in 1 .. (Len(s) - k + 1) : From(s, k)[i] = s[k + i - 1]
  <2>1. k \in Int /\ Len(s) \in Int
    BY <1>1
  <2> QED BY <1>2, <2>1, SubSeqProperties DEF From
<1> DEFINE u == From(s, k)
<1> HIDE DEF u
<1>4. Len(u) = Len(s) + 1 - k
  BY <1>1, <1>3 DEF u
<1>5. k = Len(s) + 1 => u = <<>>
  <2>1. u \in Seq(S)
    BY <1>3 DEF u
  <2>2. k = Len(s) + 1 => Len(u) = 0
    BY <1>1, <1>4
  <2> QED BY <2>1, <2>2
<1>6. \A j \in 1 .. (Len(s) + 1 - k) : From(s, k)[j] = s[k + j - 1]
  <2>1. Len(s) + 1 - k = Len(s) - k + 1
    BY <1>1
  <2> QED BY <1>3, <2>1
<1> QED BY <1>3, <1>4, <1>5, <1>6 DEF u

\* What is behind a place of the rest.
LEMMA FromFrom ==
  ASSUME NEW S, NEW s \in Seq(S), NEW k \in 1 .. (Len(s) + 1),
         NEW j \in 1 .. (Len(From(s, k)) + 1)
  PROVE  k + j - 1 \in 1 .. (Len(s) + 1) /\ From(From(s, k), j) = From(s, k + j - 1)
<1> DEFINE u == From(s, k)
           m == k + j - 1
           v == From(u, j)
           w == From(s, m)
<1>1. Len(s) \in Nat
  OBVIOUS
<1>2. /\ u \in Seq(S) /\ Len(u) = Len(s) + 1 - k
      /\ \A i \in 1 .. (Len(s) + 1 - k) : u[i] = s[k + i - 1]
  BY FromIs
<1> HIDE DEF u
<1>3. j \in 1 .. (Len(u) + 1)
  BY DEF u
<1>4. m \in 1 .. (Len(s) + 1) /\ m \in Int
  BY <1>1, <1>2, <1>3
<1>5. /\ v \in Seq(S) /\ Len(v) = Len(u) + 1 - j
      /\ \A i \in 1 .. (Len(u) + 1 - j) : v[i] = u[j + i - 1]
  <2>1. u \in Seq(S)
    BY <1>2
  <2> QED BY <1>3, <2>1, FromIs
<1>6. /\ w \in Seq(S) /\ Len(w) = Len(s) + 1 - m
      /\ \A i \in 1 .. (Len(s) + 1 - m) : w[i] = s[m + i - 1]
  BY <1>4, FromIs
<1> HIDE DEF v, w
<1>7. Len(v) = Len(w)
  <2>1. Len(u) + 1 - j = Len(s) + 1 - m
    BY <1>1, <1>2, <1>3
  <2> QED BY ONLY <1>5, <1>6, <2>1
<1>8. ASSUME NEW i \in 1 .. Len(v) PROVE v[i] = w[i]
  <2>1. i \in 1 .. (Len(u) + 1 - j) /\ i \in 1 .. (Len(s) + 1 - m)
    BY <1>1, <1>5, <1>6, <1>7
  <2>2. j + i - 1 \in 1 .. (Len(s) + 1 - k) /\ k + (j + i - 1) - 1 = m + i - 1
    BY <1>1, <1>2, <1>3, <2>1
  <2>3. v[i] = u[j + i - 1] /\ u[j + i - 1] = s[k + (j + i - 1) - 1]
    BY <1>2, <1>5, <2>1, <2>2
  <2>4. w[i] = s[m + i - 1]
    BY <1>6, <2>1
  <2> QED BY <2>2, <2>3, <2>4
<1>9. v = w
  <2>1. v \in Seq(S)
    BY <1>5
  <2>2. w \in Seq(S)
    BY <1>6
  <2> QED BY ONLY <1>7, <1>8, <2>1, <2>2, SeqEqual
<1> QED BY <1>4, <1>9 DEF u, v, w

\* A word may end at place n.
EndsWord(s, n) == \E r \in Runs(s) : r[2] = n
\* Where it begins.
WordBegins(s, n) == (CHOOSE r \in Runs(s) : r[2] = n)[1]

\* WordsTo goes from place to place.
LEMMA WordsToIs ==
  ASSUME NEW s \in Seq(Char)
  PROVE  /\ WordsTo(s)[0] = <<>>
         /\ \A n \in 1 .. Len(s) :
              WordsTo(s)[n] = IF EndsWord(s, n)
                              THEN Append(WordsTo(s)[n - 1],
                                          SubSeq(s, WordBegins(s, n), n))
                              ELSE WordsTo(s)[n - 1]
<1> DEFINE D == 0 .. Len(s)
           V == Seq(Seq(Char))
           word(n) == SubSeq(s, WordBegins(s, n), n)
           step == [n \in 1 .. Len(s) |->
                      [x \in V |-> IF EndsWord(s, n) THEN Append(x, word(n)) ELSE x]]
           back == [n \in 1 .. Len(s) |-> n - 1]
           Fits(w) == w = [n \in 0 .. Len(s) |->
                             IF n = 0 THEN <<>>
                             ELSE IF \E r \in Runs(s) : r[2] = n
                                  THEN Append(w[n - 1],
                                         SubSeq(s, (CHOOSE r \in Runs(s) : r[2] = n)[1], n))
                                  ELSE w[n - 1]]
           c == CHOOSE w : Fits(w)
<1>1. Len(s) \in Nat /\ DOMAIN s = 1 .. Len(s) /\ \A n \in 1 .. Len(s) : s[n] \in Char
  OBVIOUS
<1>2. ASSUME NEW n \in 1 .. Len(s), EndsWord(s, n)
      PROVE  word(n) \in Seq(Char)
  <2> DEFINE r == CHOOSE r \in Runs(s) : r[2] = n
  <2>1. r \in Runs(s) /\ r[2] = n
    BY <1>2 DEF EndsWord
  <2>2. r[1] \in 1 .. Len(s)
    <3> HIDE DEF r
    <3> QED BY <1>1, <2>1 DEF Runs
  <2>3. WordBegins(s, n) \in 1 .. Len(s)
    BY <2>2 DEF WordBegins
  <2> DEFINE a == WordBegins(s, n)
  <2> HIDE DEF a
  <2>4. a \in Int /\ n \in Int /\ \A i \in a .. n : s[i] \in Char
    BY <1>1, <2>3 DEF a
  <2>5. SubSeq(s, a, n) \in Seq(Char)
    BY <2>4, SubSeqProperties
  <2> QED BY <2>5 DEF a
<1>3. Recursive(D, V, 1 .. Len(s), <<>>, step, back)
  <2>1. D \subseteq Nat /\ 1 .. Len(s) \subseteq D
    BY <1>1
  <2>2. <<>> \in V
    OBVIOUS
  <2>3. ASSUME NEW n \in 1 .. Len(s)
        PROVE  step[n] \in [V -> V] /\ back[n] \in D /\ back[n] < n
    <3>1. n - 1 \in D /\ n - 1 < n
      BY <1>1
    <3>2. back[n] = n - 1
      OBVIOUS
    <3>3. ASSUME NEW x \in V
          PROVE  (IF EndsWord(s, n) THEN Append(x, word(n)) ELSE x) \in V
      <4> DEFINE y == word(n)
      <4>1. EndsWord(s, n) => y \in Seq(Char)
        BY <1>2
      <4> HIDE DEF y
      <4>2. ASSUME y \in Seq(Char) PROVE Append(x, y) \in V
        BY <4>2, AppendProperties
      <4> QED BY <4>1, <4>2 DEF y
    <3>4. step[n] = [x \in V |-> IF EndsWord(s, n) THEN Append(x, word(n)) ELSE x]
      OBVIOUS
    <3> HIDE DEF V, D, word, step, back
    <3> QED BY <3>1, <3>2, <3>3, <3>4
  <2> HIDE DEF V, D, step, back
  <2> QED BY <2>1, <2>2, <2>3 DEF Recursive
<1>4. PICK f \in [D -> V] : \A n \in D : Rule(f, n, 1 .. Len(s), <<>>, step, back)
  <2> HIDE DEF D, V, step, back
  <2> QED BY <1>3, RecursionExists
<1>5. ASSUME NEW n \in 0 .. Len(s)
      PROVE  f[n] = IF n = 0 THEN <<>>
                    ELSE IF EndsWord(s, n) THEN Append(f[n - 1], word(n)) ELSE f[n - 1]
  <2>1. CASE n = 0
    <3>1. 0 \in D /\ 0 \notin 1 .. Len(s)
      BY <1>1
    <3> HIDE DEF D, V, step, back
    <3>2. f[0] = <<>>
      BY <1>4, <3>1 DEF Rule
    <3> QED BY <2>1, <3>2, Zenon
  <2>2. CASE n # 0
    <3>1. n \in 1 .. Len(s) /\ n - 1 \in D /\ n \in D
      BY <1>1, <2>2
    <3>2. step[n] = [x \in V |-> IF EndsWord(s, n) THEN Append(x, word(n)) ELSE x]
          /\ back[n] = n - 1
      BY <3>1, Zenon
    <3> HIDE DEF D, V, step, back, word
    <3>3. f[n] = step[n][f[back[n]]] /\ f[n - 1] \in V
      BY <1>4, <3>1 DEF Rule
    <3>4. step[n][f[n - 1]] = IF EndsWord(s, n) THEN Append(f[n - 1], word(n)) ELSE f[n - 1]
      BY <3>2, <3>3
    <3>5. f[n] = step[n][f[n - 1]]
      BY <3>2, <3>3, Zenon
    <3> QED BY <2>2, <3>4, <3>5, Zenon
  <2> QED BY <2>1, <2>2
<1>6. Fits(f)
  <2> DEFINE h == [n \in 0 .. Len(s) |->
                     IF n = 0 THEN <<>>
                     ELSE IF EndsWord(s, n) THEN Append(f[n - 1], word(n)) ELSE f[n - 1]]
  <2>1. f = h
    <3> HIDE DEF V, word
    <3> QED BY <1>4, <1>5
  <2> QED BY <2>1, Zenon DEF EndsWord, WordBegins
<1>7. Fits(c)
  <2> HIDE DEF Fits
  <2> QED BY <1>6
<1>8. WordsTo(s) = c
  BY DEF WordsTo
<1> HIDE DEF c
<1>9. \A n \in 0 .. Len(s) :
        c[n] = IF n = 0 THEN <<>>
               ELSE IF EndsWord(s, n) THEN Append(c[n - 1], word(n)) ELSE c[n - 1]
  <2> DEFINE h == [n \in 0 .. Len(s) |->
                     IF n = 0 THEN <<>>
                     ELSE IF EndsWord(s, n) THEN Append(c[n - 1], word(n)) ELSE c[n - 1]]
  <2>1. c = h
    BY <1>7, Zenon DEF EndsWord, WordBegins
  <2>2. \A n \in 0 .. Len(s) :
          h[n] = IF n = 0 THEN <<>>
                 ELSE IF EndsWord(s, n) THEN Append(c[n - 1], word(n)) ELSE c[n - 1]
    BY Zenon
  <2> HIDE DEF h, Fits, word
  <2> QED BY <2>1, <2>2, Zenon
<1> HIDE DEF word
<1>10. 0 \in 0 .. Len(s) /\ \A n \in 1 .. Len(s) : n \in 0 .. Len(s) /\ n # 0
  BY <1>1
<1>11. c[0] = <<>>
  BY <1>9, <1>10, Zenon
<1>12. ASSUME NEW n \in 1 .. Len(s)
       PROVE  c[n] = IF EndsWord(s, n) THEN Append(c[n - 1], word(n)) ELSE c[n - 1]
  BY <1>9, <1>10, Zenon
<1> QED BY <1>8, <1>11, <1>12, Zenon DEF word


\* A run of characters that are no delimiters, from the first to the last.
IsRun(s, a, b) ==
  /\ a \in 1 .. Len(s) /\ b \in a .. Len(s)
  /\ \A k \in a .. b : s[k] \notin Delimiters
  /\ a = 1 \/ s[a - 1] \in Delimiters
  /\ b = Len(s) \/ s[b + 1] \in Delimiters

\* It is the only one that ends at its end, and so what WordsTo adds there.
LEMMA RunIsWord ==
  ASSUME NEW s \in Seq(Char), NEW a, NEW b, IsRun(s, a, b)
  PROVE  EndsWord(s, b) /\ WordBegins(s, b) = a
<1>1. Len(s) \in Nat /\ DOMAIN s = 1 .. Len(s)
  OBVIOUS
<1>2. a \in 1 .. Len(s) /\ b \in 1 .. Len(s) /\ a <= b
  <2>1. a \in 1 .. Len(s) /\ b \in a .. Len(s)
    BY DEF IsRun
  <2> QED BY <1>1, <2>1
<1> DEFINE q == <<a, b>>
<1>3. q \in (DOMAIN s) \X (DOMAIN s) /\ q[1] = a /\ q[2] = b
  BY <1>1, <1>2
<1>4. q \in Runs(s)
  <2> HIDE DEF q
  <2> QED BY <1>2, <1>3 DEF Runs, IsRun
<1>5. EndsWord(s, b)
  BY <1>3, <1>4, Zenon DEF EndsWord
<1> DEFINE r == CHOOSE r \in Runs(s) : r[2] = b
<1>6. r \in Runs(s) /\ r[2] = b
  BY <1>5 DEF EndsWord
<1> HIDE DEF r
<1>7. /\ r[1] \in 1 .. Len(s) /\ r[1] <= b
      /\ \A k \in r[1] .. b : s[k] \notin Delimiters
      /\ r[1] = 1 \/ s[r[1] - 1] \in Delimiters
  BY <1>1, <1>6 DEF Runs
<1>8. ~ (r[1] < a)
  <2>1. SUFFICES ASSUME r[1] < a PROVE FALSE
    OBVIOUS
  <2>2. a # 1 /\ a - 1 \in r[1] .. b
    BY <1>2, <1>7, <2>1
  <2> QED BY <1>7, <2>2 DEF IsRun
<1>9. ~ (a < r[1])
  <2>1. SUFFICES ASSUME a < r[1] PROVE FALSE
    OBVIOUS
  <2>2. r[1] # 1 /\ r[1] - 1 \in a .. b
    BY <1>2, <1>7, <2>1
  <2> QED BY <1>7, <2>2 DEF IsRun
<1>10. r[1] = a
  BY <1>2, <1>7, <1>8, <1>9
<1> QED BY <1>5, <1>10 DEF r, WordBegins

\* No word ends at a delimiter, nor before a character that is none.
LEMMA NoWordEnds ==
  ASSUME NEW s \in Seq(Char), NEW n \in 1 .. Len(s),
         s[n] \in Delimiters \/ (n < Len(s) /\ s[n + 1] \notin Delimiters)
  PROVE  ~ EndsWord(s, n)
<1>1. SUFFICES ASSUME EndsWord(s, n) PROVE FALSE
  OBVIOUS
<1>2. PICK r \in Runs(s) : r[2] = n
  BY <1>1 DEF EndsWord
<1>3. Len(s) \in Nat /\ DOMAIN s = 1 .. Len(s)
  OBVIOUS
<1>4. /\ r[1] \in 1 .. Len(s) /\ r[1] <= n
      /\ \A k \in r[1] .. n : s[k] \notin Delimiters
      /\ n = Len(s) \/ s[n + 1] \in Delimiters
  BY <1>2, <1>3 DEF Runs
<1>5. n \in r[1] .. n /\ (n < Len(s) => n # Len(s))
  <2> DEFINE a == r[1]
  <2>1. a \in 1 .. Len(s) /\ a <= n
    BY <1>4
  <2> HIDE DEF a
  <2>2. Len(s) \in Nat /\ n \in 1 .. Len(s)
    BY <1>3
  <2>3. n \in a .. n /\ (n < Len(s) => n # Len(s))
    BY ONLY <2>1, <2>2
  <2> QED BY <2>3 DEF a
<1> QED BY <1>4, <1>5

\* Where no word ends, none is added.
LEMMA NoWordAdded ==
  ASSUME NEW s \in Seq(Char), NEW n \in 0 .. Len(s), NEW m \in n .. Len(s),
         \A i \in (n + 1) .. m : ~ EndsWord(s, i)
  PROVE  WordsTo(s)[m] = WordsTo(s)[n]
<1> DEFINE w == WordsTo(s)
           Bad == {i \in n .. m : w[i] # w[n]}
<1>1. Len(s) \in Nat
  OBVIOUS
<1>2. SUFFICES ASSUME Bad # {} PROVE FALSE
  <2>1. m \in n .. m
    BY <1>1
  <2> QED BY <1>2, <2>1
<1>3. PICK i \in Bad : \A j \in Bad : i <= j
  <2>1. Bad \in SUBSET Nat
    BY <1>1
  <2> HIDE DEF Bad
  <2> QED BY <1>2, <2>1, LeastExists
<1>4. i \in n .. m /\ w[i] # w[n]
  BY <1>3
<1>5. i # n
  BY <1>4
<1>6. i \in (n + 1) .. m /\ i \in 1 .. Len(s) /\ i - 1 \in n .. m
  BY <1>1, <1>4, <1>5
<1>7. w[i] = w[i - 1]
  BY <1>6, WordsToIs, Zenon
<1>8. i - 1 \in Bad
  <2> HIDE DEF w
  <2> QED BY <1>4, <1>6, <1>7
<1>9. ~ (i <= i - 1)
  BY <1>6
<1> QED BY <1>3, <1>8, <1>9

\* The pointer of strtok: the words up to n are found, n is the last place, or
\* what is behind it is still to be looked at and n is no place of a word.
Behind(s, n, rest) ==
  \/ n = Len(s) /\ rest = NoText
  \/ rest = From(s, n + 1) /\ (n = 0 \/ s[n] \in Delimiters)

\* NULL is no text.
LEMMA NoTextIs == NoText \notin Seq(Char)
<1>1. SUFFICES ASSUME NoText \in Seq(Char) PROVE FALSE
  OBVIOUS
<1>2. NoText[1] = "NULL" /\ 1 \in 1 .. Len(NoText)
  BY DEF NoText
<1>3. "NULL" \in Char
  <2> DEFINE u == NoText
  <2>1. u \in Seq(Char) /\ 1 \in 1 .. Len(u)
    BY <1>1, <1>2
  <2> HIDE DEF u
  <2>2. u[1] \in Char
    BY <2>1
  <2> QED BY <1>2, <2>2, Zenon DEF u
<1>4. PICK k \in 1 .. 46 : Alphabet[k] = "NULL"
  <2> DEFINE k == CodeOf["NULL"]
  <2>1. k \in 1 .. 46 /\ Alphabet[k] = "NULL"
    BY <1>3, Codes, Zenon
  <2> QED BY <2>1, Zenon
<1>5. /\ Alphabet[1] # "NULL" /\ Alphabet[2] # "NULL" /\ Alphabet[3] # "NULL"
      /\ Alphabet[4] # "NULL" /\ Alphabet[5] # "NULL" /\ Alphabet[6] # "NULL"
      /\ Alphabet[7] # "NULL" /\ Alphabet[8] # "NULL" /\ Alphabet[9] # "NULL"
      /\ Alphabet[10] # "NULL" /\ Alphabet[11] # "NULL" /\ Alphabet[12] # "NULL"
      /\ Alphabet[13] # "NULL" /\ Alphabet[14] # "NULL" /\ Alphabet[15] # "NULL"
      /\ Alphabet[16] # "NULL" /\ Alphabet[17] # "NULL" /\ Alphabet[18] # "NULL"
      /\ Alphabet[19] # "NULL" /\ Alphabet[20] # "NULL" /\ Alphabet[21] # "NULL"
      /\ Alphabet[22] # "NULL" /\ Alphabet[23] # "NULL" /\ Alphabet[24] # "NULL"
      /\ Alphabet[25] # "NULL" /\ Alphabet[26] # "NULL" /\ Alphabet[27] # "NULL"
      /\ Alphabet[28] # "NULL" /\ Alphabet[29] # "NULL" /\ Alphabet[30] # "NULL"
      /\ Alphabet[31] # "NULL" /\ Alphabet[32] # "NULL" /\ Alphabet[33] # "NULL"
      /\ Alphabet[34] # "NULL" /\ Alphabet[35] # "NULL" /\ Alphabet[36] # "NULL"
      /\ Alphabet[37] # "NULL" /\ Alphabet[38] # "NULL" /\ Alphabet[39] # "NULL"
      /\ Alphabet[40] # "NULL" /\ Alphabet[41] # "NULL" /\ Alphabet[42] # "NULL"
      /\ Alphabet[43] # "NULL" /\ Alphabet[44] # "NULL" /\ Alphabet[45] # "NULL"
      /\ Alphabet[46] # "NULL"
  BY DEF Alphabet
<1> QED BY <1>4, <1>5

(***************************************************************************)
(* A call of strtok: NULL when no word is left, else the next word; and    *)
(* the pointer is again behind a place up to which the words are found.    *)
(***************************************************************************)
LEMMA StrtokNext ==
  ASSUME NEW s \in Seq(Char), NEW n \in 0 .. Len(s), NEW rest, Behind(s, n, rest),
         NEW r, r = strtok(rest, Delimiters)
  PROVE  \/ r.word = NoText /\ WordsTo(s)[Len(s)] = WordsTo(s)[n]
         \/ /\ r.word # NoText
            /\ \E m \in 0 .. Len(s) :
                 /\ WordsTo(s)[m] = Append(WordsTo(s)[n], r.word)
                 /\ Behind(s, m, r.rest)
<1> DEFINE D == Delimiters
           k == FirstOutside(rest, D)
           u == From(rest, k)
           e == FirstOutside(u, Char \ D)
<1>1. Len(s) \in Nat /\ \A i \in 1 .. Len(s) : s[i] \in Char
  OBVIOUS
<1>2. NoText \notin Seq(Char)
  BY NoTextIs
<1>3. CASE rest = NoText /\ n = Len(s)
  <2> DEFINE a == <<>>
  <2>1. strtok(rest, D) = [word |-> NoText, rest |-> NoText]
    BY <1>3, Zenon DEF strtok
  <2>2. r.word = NoText
    BY <2>1
  <2> QED BY <1>3, <2>2
<1>4. CASE rest = From(s, n + 1) /\ (n = 0 \/ s[n] \in D)
  <2>1. n + 1 \in 1 .. (Len(s) + 1) /\ Len(s) + 1 - (n + 1) = Len(s) - n
    BY <1>1
  <2>2. /\ rest \in Seq(Char) /\ Len(rest) = Len(s) - n
        /\ \A j \in 1 .. (Len(s) - n) : rest[j] = s[n + j]
    <3>1. /\ rest \in Seq(Char) /\ Len(rest) = Len(s) + 1 - (n + 1)
          /\ \A j \in 1 .. (Len(s) + 1 - (n + 1)) : rest[j] = s[(n + 1) + j - 1]
      BY <1>4, <2>1, FromIs, Zenon
    <3>2. \A j \in 1 .. (Len(s) - n) : (n + 1) + j - 1 = n + j
      BY <1>1
    <3> QED BY <2>1, <3>1, <3>2
  <2>3. /\ k \in 1 .. (Len(rest) + 1) /\ (k <= Len(rest) => rest[k] \notin D)
        /\ \A j \in 1 .. (k - 1) : rest[j] \in D
    <3>1. rest \in Seq(Char)
      BY <2>2
    <3> QED BY <3>1, FirstOutsideIs, Zenon
  <2>4. u = From(s, n + k) /\ n + k \in 1 .. (Len(s) + 1)
    <3>1. k \in 1 .. (Len(From(s, n + 1)) + 1)
      BY <1>4, <2>3
    <3>2. /\ (n + 1) + k - 1 \in 1 .. (Len(s) + 1)
          /\ From(From(s, n + 1), k) = From(s, (n + 1) + k - 1)
      <4>1. s \in Seq(Char)
        OBVIOUS
      <4> HIDE DEF k
      <4> QED BY ONLY <2>1, <3>1, <4>1, FromFrom
    <3>3. (n + 1) + k - 1 = n + k
      BY <2>3
    <3> QED BY <1>4, <3>2, <3>3, Zenon
  <2> DEFINE a == n + k
  <2>5. Skip(rest, D) = u
    BY DEF Skip
  <2>6. rest # NoText
    BY <1>2, <2>2, Zenon
  <2>7. strtok(rest, D) = IF u = <<>> THEN [word |-> NoText, rest |-> NoText]
                          ELSE [word |-> Take(u, e - 1),
                                rest |-> IF e > Len(u) THEN NoText ELSE From(u, e + 1)]
    BY <2>5, <2>6, Zenon DEF strtok
  <2> HIDE DEF u, e, k
  <2>8. \A i \in (n + 1) .. (a - 1) : s[i] \in D /\ ~ EndsWord(s, i)
    <3>1. SUFFICES ASSUME NEW i \in (n + 1) .. (a - 1)
                   PROVE  s[i] \in D /\ i \in 1 .. Len(s)
      BY NoWordEnds
    <3>2. i - n \in 1 .. (k - 1) /\ i - n \in 1 .. (Len(s) - n) /\ n + (i - n) = i
          /\ i \in 1 .. Len(s)
      BY <1>1, <2>2, <2>3
    <3>3. rest[i - n] \in D /\ rest[i - n] = s[n + (i - n)]
      BY <2>2, <2>3, <3>2
    <3> QED BY <3>2, <3>3
  <2>9. WordsTo(s)[a - 1] = WordsTo(s)[n]
    <3>1. a - 1 \in n .. Len(s) /\ n + 1 \in Nat
      BY <1>1, <2>2, <2>3
    <3>2. \A i \in (n + 1) .. (a - 1) : ~ EndsWord(s, i)
      BY <2>8
    <3> DEFINE z == a - 1
    <3>3. z \in n .. Len(s) /\ \A i \in (n + 1) .. z : ~ EndsWord(s, i)
      BY <3>1, <3>2
    <3> HIDE DEF z, a
    <3>4. WordsTo(s)[z] = WordsTo(s)[n]
      BY <3>3, NoWordAdded
    <3> QED BY <3>4 DEF z
  <2>10. CASE a = Len(s) + 1
    <3>1. u = <<>>
      <4>1. From(s, a) = <<>>
        BY <2>4, <2>10, FromIs
      <4> QED BY <2>4, <4>1
    <3>2. r.word = NoText
      BY <2>7, <3>1
    <3>3. a - 1 = Len(s)
      BY <1>1, <2>10
    <3> QED BY <2>9, <3>2, <3>3
  <2>11. CASE a # Len(s) + 1
    <3>1. a \in 1 .. Len(s) /\ k <= Len(rest) /\ k \in 1 .. (Len(s) - n)
      BY <1>1, <2>2, <2>3, <2>4, <2>11
    <3>2. s[a] \notin D
      BY <2>2, <2>3, <3>1
    <3>3. a = 1 \/ s[a - 1] \in D
      <4>1. CASE k = 1
        <5>1. a - 1 = n /\ (n = 0 => a = 1)
          BY <4>1
        <5> QED BY <1>4, <5>1
      <4>2. CASE k # 1
        <5>1. a - 1 \in (n + 1) .. (a - 1)
          BY <2>3, <4>2
        <5> QED BY <2>8, <5>1
      <4> QED BY <4>1, <4>2
    <3> HIDE DEF a
    <3>4. /\ u = From(s, a) /\ u \in Seq(Char) /\ Len(u) = Len(s) + 1 - a
          /\ \A j \in 1 .. (Len(s) + 1 - a) : u[j] = s[a + j - 1]
      <4>1. u = From(s, a) /\ a \in 1 .. (Len(s) + 1)
        BY <2>4 DEF a
      <4> QED BY <4>1, FromIs, Zenon
    <3>5. /\ e \in 1 .. (Len(u) + 1) /\ (e <= Len(u) => u[e] \notin Char \ D)
          /\ \A j \in 1 .. (e - 1) : u[j] \in Char \ D
      <4>1. u \in Seq(Char)
        BY <3>4
      <4> QED BY <4>1, FirstOutsideIs, Zenon DEF e
    <3>6. u[1] = s[a] /\ Len(u) >= 1 /\ u # <<>>
      <4>1. 1 \in 1 .. (Len(s) + 1 - a) /\ a + 1 - 1 = a
        BY <1>1, <3>1
      <4>2. Len(u) >= 1 /\ Len(<<>>) = 0
        BY <1>1, <3>1, <3>4
      <4>3. u # <<>>
        BY <4>2
      <4> QED BY <3>4, <4>1, <4>2, <4>3
    <3>7. e # 1
      BY <1>1, <3>1, <3>2, <3>5, <3>6
    <3> DEFINE b == a + e - 2
               word == Take(u, e - 1)
    <3>8. b \in a .. Len(s) /\ b \in 1 .. Len(s)
      BY <1>1, <3>1, <3>4, <3>5, <3>7
    <3>9. \A i \in a .. b : s[i] \notin D
      <4>1. SUFFICES ASSUME NEW i \in a .. b PROVE s[i] \notin D
        OBVIOUS
      <4>2. i - a + 1 \in 1 .. (e - 1) /\ i - a + 1 \in 1 .. (Len(s) + 1 - a)
            /\ a + (i - a + 1) - 1 = i
        BY <3>1, <3>8, <3>5
      <4>3. u[i - a + 1] \in Char \ D /\ u[i - a + 1] = s[a + (i - a + 1) - 1]
        BY <3>4, <3>5, <4>2
      <4> QED BY <4>2, <4>3
    <3>10. b = Len(s) \/ s[b + 1] \in D
      <4>1. CASE e = Len(u) + 1
        BY <1>1, <3>1, <3>4, <4>1
      <4>2. CASE e <= Len(u)
        <5>1. e \in 1 .. (Len(s) + 1 - a) /\ a + e - 1 = b + 1 /\ b + 1 \in 1 .. Len(s)
          BY <1>1, <3>1, <3>4, <3>5, <4>2
        <5>2. u[e] = s[b + 1]
          BY <3>4, <5>1
        <5> QED BY <1>1, <3>5, <4>2, <5>1, <5>2
      <4> QED BY <3>4, <3>5, <4>1, <4>2
    <3>11. IsRun(s, a, b)
      BY <3>1, <3>3, <3>8, <3>9, <3>10 DEF IsRun
    <3>12. word = SubSeq(s, a, b) /\ word \in Seq(Char)
      <4> DEFINE v == SubSeq(u, 1, e - 1)
                 w == SubSeq(s, a, b)
      <4>1. word = v
        <5>1. (IF e - 1 < Len(u) THEN e - 1 ELSE Len(u)) = e - 1
          BY <3>4, <3>5, <1>1, <3>1
        <5> QED BY <5>1 DEF Take
      <4>2. \A i \in 1 .. (e - 1) : u[i] \in Char
        BY <3>5
      <4>3. 1 \in Int /\ e - 1 \in Int /\ 1 <= e - 1 /\ (e - 1) - 1 + 1 = e - 1
        BY <3>4, <3>5, <3>7, <1>1, <3>1
      <4>4. v \in Seq(Char) /\ Len(v) = e - 1 /\ \A i \in 1 .. (e - 1) : v[i] = u[i]
        <5> DEFINE f == e - 1
        <5>1. 1 \in Int /\ f \in Int /\ 1 <= f /\ f - 1 + 1 = f
              /\ \A i \in 1 .. f : u[i] \in Char /\ 1 + i - 1 = i
          BY <4>2, <4>3
        <5> HIDE DEF f
        <5>2. /\ SubSeq(u, 1, f) \in Seq(Char)
              /\ Len(SubSeq(u, 1, f)) = IF 1 <= f THEN f - 1 + 1 ELSE 0
              /\ \A i \in 1 .. (f - 1 + 1) : SubSeq(u, 1, f)[i] = u[1 + i - 1]
          BY <5>1, SubSeqProperties
        <5>3. /\ SubSeq(u, 1, f) \in Seq(Char) /\ Len(SubSeq(u, 1, f)) = f
              /\ \A i \in 1 .. f : SubSeq(u, 1, f)[i] = u[i]
          BY <5>1, <5>2
        <5> QED BY <5>3 DEF f
      <4>5. \A i \in a .. b : s[i] \in Char
        BY <1>1, <3>1, <3>8
      <4>6. w \in Seq(Char) /\ Len(w) = e - 1 /\ \A i \in 1 .. (e - 1) : w[i] = s[a + i - 1]
        <5>1. a \in Int /\ b \in Int /\ a <= b /\ b - a + 1 = e - 1
          BY <3>1, <3>4, <3>5, <3>8
        <5> HIDE DEF b
        <5>2. /\ w \in Seq(Char) /\ Len(w) = IF a <= b THEN b - a + 1 ELSE 0
              /\ \A i \in 1 .. (b - a + 1) : w[i] = s[a + i - 1]
          BY <4>5, <5>1, SubSeqProperties
        <5> QED BY <5>1, <5>2
      <4> HIDE DEF v, w
      <4>7. \A i \in 1 .. (e - 1) : v[i] = w[i]
        <5>1. ASSUME NEW i \in 1 .. (e - 1) PROVE u[i] = s[a + i - 1]
          <6>1. i \in 1 .. (Len(s) + 1 - a)
            BY <1>1, <3>1, <3>4, <3>5
          <6> QED BY <3>4, <6>1
        <5> QED BY <4>4, <4>6, <5>1
      <4>8. v = w
        <5>1. v \in Seq(Char)
          BY <4>4
        <5>2. w \in Seq(Char)
          BY <4>6
        <5>3. Len(v) = Len(w) /\ \A i \in 1 .. Len(v) : v[i] = w[i]
          BY <4>4, <4>6, <4>7
        <5> QED BY ONLY <5>1, <5>2, <5>3, SeqEqual
      <4> QED BY <4>1, <4>4, <4>8 DEF w
    <3> HIDE DEF word
    <3>13. WordsTo(s)[b] = Append(WordsTo(s)[n], word)
      <4>1. EndsWord(s, b) /\ WordBegins(s, b) = a
        <5> HIDE DEF b
        <5> QED BY <3>11, RunIsWord
      <4>2. WordsTo(s)[b] = Append(WordsTo(s)[b - 1], SubSeq(s, a, b))
        <5> HIDE DEF b
        <5> QED BY <3>8, <4>1, WordsToIs, Zenon
      <4>3. WordsTo(s)[b - 1] = WordsTo(s)[a - 1]
        <5> DEFINE y == a - 1
                   z == b - 1
        <5>1. y \in 0 .. Len(s) /\ z \in y .. Len(s)
          BY <1>1, <3>1, <3>8
        <5>2. \A i \in (y + 1) .. z : ~ EndsWord(s, i)
          <6>1. SUFFICES ASSUME NEW i \in (y + 1) .. z PROVE ~ EndsWord(s, i)
            OBVIOUS
          <6>2. i \in 1 .. Len(s) /\ i < Len(s) /\ i + 1 \in a .. b
            BY <1>1, <3>1, <3>8
          <6>3. s[i + 1] \notin Delimiters
            BY <3>9, <6>2
          <6> QED BY <6>2, <6>3, NoWordEnds
        <5> HIDE DEF y, z, b
        <5>3. WordsTo(s)[z] = WordsTo(s)[y]
          BY <5>1, <5>2, NoWordAdded
        <5> QED BY <5>3 DEF y, z
      <4>4. WordsTo(s)[a - 1] = WordsTo(s)[n]
        BY <2>9 DEF a
      <4> QED BY <3>12, <4>2, <4>3, <4>4
    <3>14. r.word = word /\ r.rest = IF e > Len(u) THEN NoText ELSE From(u, e + 1)
      <4>1. r = [word |-> word, rest |-> IF e > Len(u) THEN NoText ELSE From(u, e + 1)]
        BY <2>7, <3>6, Zenon DEF word
      <4> QED BY <4>1
    <3>15. r.word # NoText
      BY <1>2, <3>12, <3>14
    <3>16. CASE e > Len(u)
      <4>1. b = Len(s) /\ b \in 0 .. Len(s)
        <5>1. e \in 1 .. (Len(u) + 1) /\ Len(u) = Len(s) + 1 - a
          BY <3>4, <3>5
        <5>2. e = Len(s) + 2 - a
          BY <1>1, <3>1, <3>16, <5>1
        <5> QED BY <1>1, <3>1, <5>2
      <4>2. r.rest = NoText
        BY <3>14, <3>16
      <4>3. Behind(s, b, r.rest)
        BY <4>1, <4>2 DEF Behind
      <4> HIDE DEF b
      <4> QED BY <3>13, <3>14, <3>15, <4>1, <4>3
    <3>17. CASE ~ (e > Len(u))
      <4> DEFINE m == b + 1
      <4>1. m \in 1 .. Len(s) /\ m # 0 /\ b # Len(s) /\ m \in 0 .. Len(s)
        BY <1>1, <3>1, <3>4, <3>5, <3>17
      <4>2. s[m] \in D
        BY <3>10, <4>1
      <4>3. WordsTo(s)[m] = WordsTo(s)[b]
        <5>1. ~ EndsWord(s, m)
          <6> HIDE DEF m
          <6> QED BY <4>1, <4>2, NoWordEnds
        <5>2. WordsTo(s)[m] = WordsTo(s)[m - 1]
          <6> HIDE DEF m
          <6> QED BY <4>1, <5>1, WordsToIs, Zenon
        <5>3. m - 1 = b
          BY <3>8
        <5> QED BY <5>2, <5>3
      <4>4. r.rest = From(s, m + 1)
        <5>1. e + 1 \in 1 .. (Len(u) + 1) /\ a + (e + 1) - 1 = m + 1
              /\ a \in 1 .. (Len(s) + 1)
          BY <1>1, <3>1, <3>4, <3>5, <3>17
        <5>2. From(From(s, a), e + 1) = From(s, a + (e + 1) - 1)
          <6>1. s \in Seq(Char) /\ u = From(s, a)
            BY <3>4
          <6> DEFINE f == e + 1
          <6>2. a \in 1 .. (Len(s) + 1) /\ f \in 1 .. (Len(From(s, a)) + 1)
            BY <5>1, <6>1
          <6> HIDE DEF f
          <6>3. From(From(s, a), f) = From(s, a + f - 1)
            BY ONLY <6>1, <6>2, FromFrom
          <6> QED BY <6>3 DEF f
        <5>3. r.rest = From(u, e + 1)
          BY <3>14, <3>17
        <5> QED BY <3>4, <5>1, <5>2, <5>3
      <4>5. Behind(s, m, r.rest)
        BY <4>2, <4>4 DEF Behind
      <4> HIDE DEF m, b
      <4> QED BY <3>13, <3>14, <3>15, <4>1, <4>3, <4>5
    <3> QED BY <3>16, <3>17
  <2> QED BY <2>10, <2>11
<1> QED BY <1>3, <1>4 DEF Behind

----------------------------------------------------------------------------
(***************************************************************************)
(* Part 8.  The commands by their names, and the texts of times and dates. *)
(***************************************************************************)

\* The signs that the texts of the clock are made of.
LEMMA SignsAreChars == " " \in Char /\ ":" \in Char /\ "/" \in Char
<1>1. 5 \in DOMAIN Alphabet /\ 20 \in DOMAIN Alphabet /\ 9 \in DOMAIN Alphabet
  BY Codes
<1>2. Alphabet[5] \in Char /\ Alphabet[20] \in Char /\ Alphabet[9] \in Char
  BY <1>1, Zenon DEF Char, Range
<1> QED BY <1>2, SignsAt, Zenon

\* The names, one by one.
LEMMA KeywordAt ==
  /\ DOMAIN Keyword = 1 .. 17
  /\ Keyword[1] = "exit" /\ Keyword[2] = "shutdown" /\ Keyword[3] = "version"
  /\ Keyword[4] = "help" /\ Keyword[5] = "clock" /\ Keyword[6] = "show"
  /\ Keyword[7] = "priority set" /\ Keyword[8] = "suspend" /\ Keyword[9] = "resume"
  /\ Keyword[10] = "create" /\ Keyword[11] = "delete" /\ Keyword[12] = "block"
  /\ Keyword[13] = "unblock" /\ Keyword[14] = "clear" /\ Keyword[15] = "yield"
  /\ Keyword[16] = "load" /\ Keyword[17] = "alarm"
BY DEF Keyword

\* Seventeen places.
LEMMA Seventeen ==
  \A k \in 1 .. 17 :
    k = 1 \/ k = 2 \/ k = 3 \/ k = 4 \/ k = 5 \/ k = 6 \/ k = 7 \/ k = 8 \/ k = 9
    \/ k = 10 \/ k = 11 \/ k = 12 \/ k = 13 \/ k = 14 \/ k = 15 \/ k = 16 \/ k = 17
OBVIOUS

\* No command is called what the handlers call, nor "none".
LEMMA KeywordsAreNot ==
  \A name \in Range(Keyword) :
    name \notin {"none", "set_time", "set_date", "alarm_create", "setPriority"}
<1>1. SUFFICES ASSUME NEW k \in 1 .. 17
               PROVE  Keyword[k] \notin {"none", "set_time", "set_date",
                                         "alarm_create", "setPriority"}
  BY KeywordAt, Zenon DEF Range
<1> QED BY KeywordAt, Seventeen, Zenon

\* The spelling of the names: texts, none empty, none the beginning of another.
LEMMA KeywordsAre ==
  /\ DOMAIN Keywords = 1 .. 17
  /\ \A k \in 1 .. 17 : Keywords[k] \in Seq(Char) /\ Keywords[k] # <<>>
  /\ \A j, k \in 1 .. 17 : IsPrefix(Keywords[j], Keywords[k]) => j = k
  /\ \A j, k \in 1 .. 17 : Keyword[j] = Keyword[k] => j = k
<1>1. DOMAIN Keywords = 1 .. 17
  BY KeywordAt DEF Keywords
<1>2. /\ \A k \in 1 .. 17 : Keywords[k] \in Seq(Char) /\ Keywords[k] # <<>>
      /\ \A j, k \in 1 .. 17 : IsPrefix(Keywords[j], Keywords[k]) => j = k
  BY KeywordAt, SpellingAssumption, Zenon
<1>3. ASSUME NEW j \in 1 .. 17, NEW k \in 1 .. 17, Keyword[j] = Keyword[k] PROVE j = k
  <2>1. Keywords[j] = Chars(Keyword[j]) /\ Keywords[k] = Chars(Keyword[k])
    BY KeywordAt, Zenon DEF Keywords
  <2>2. Keywords[j] = Keywords[k]
    BY <1>3, <2>1, Zenon
  <2> DEFINE s == Keywords[k]
  <2>3. s \in Seq(Char)
    BY <1>2
  <2> HIDE DEF s
  <2>4. IsPrefix(s, s)
    <3>1. Len(s) \in Nat
      BY <2>3
    <3>2. Len(s) <= Len(s) /\ \A i \in 1 .. Len(s) : s[i] = s[i]
      BY ONLY <3>1
    <3> QED BY <2>3, <3>2, PrefixIs, Zenon
  <2> QED BY <1>2, <2>2, <2>4, Zenon DEF s
<1> QED BY <1>1, <1>2, <1>3

\* Two beginnings of one text, one is the beginning of the other.
LEMMA PrefixesAgree ==
  ASSUME NEW s \in Seq(Char), NEW t \in Seq(Char), NEW u \in Seq(Char),
         IsPrefix(t, s), IsPrefix(u, s), Len(t) <= Len(u)
  PROVE  IsPrefix(t, u)
<1>1. Len(t) \in Nat /\ Len(u) \in Nat
  OBVIOUS
<1>2. \A j \in 1 .. Len(t) : t[j] = s[j]
  BY PrefixIs, Zenon
<1>3. \A j \in 1 .. Len(u) : u[j] = s[j]
  BY PrefixIs, Zenon
<1>4. \A j \in 1 .. Len(t) : j \in 1 .. Len(u)
  BY ONLY <1>1, Len(t) <= Len(u)
<1>5. \A j \in 1 .. Len(t) : t[j] = u[j]
  BY <1>2, <1>3, <1>4, Zenon
<1> QED BY <1>5, PrefixIs, Zenon

\* The names that a line is compared with.
Tried(t) == {k \in DOMAIN Keywords : strncmp(t, Keywords[k], Len(Keywords[k])) = 0}

\* The order of the comparisons is of no account: at most one is a success.
LEMMA OneName ==
  ASSUME NEW t \in Seq(Char)
  PROVE  /\ \A k \in 1 .. 17 : k \in Tried(t) <=> IsPrefix(Keywords[k], t)
         /\ \A j, k \in Tried(t) : j = k
         /\ Tried(t) # {} => Min(Tried(t)) \in Tried(t)
         /\ Tried(t) \subseteq 1 .. 17
<1>1. ASSUME NEW k \in 1 .. 17 PROVE k \in Tried(t) <=> IsPrefix(Keywords[k], t)
  <2>1. Keywords[k] \in Seq(Char)
    BY KeywordsAre, Zenon
  <2>2. strncmp(t, Keywords[k], Len(Keywords[k])) = 0 <=> IsPrefix(Keywords[k], t)
    BY <2>1, StrncmpIsPrefix, Zenon
  <2> QED BY <2>2, KeywordsAre, Zenon DEF Tried
<1>2. Tried(t) \subseteq 1 .. 17
  BY KeywordsAre, Zenon DEF Tried
<1>3. ASSUME NEW j \in Tried(t), NEW k \in Tried(t) PROVE j = k
  <2>1. j \in 1 .. 17 /\ k \in 1 .. 17
    BY <1>2
  <2>2. IsPrefix(Keywords[j], t) /\ IsPrefix(Keywords[k], t)
        /\ Keywords[j] \in Seq(Char) /\ Keywords[k] \in Seq(Char)
    BY <1>1, <2>1, KeywordsAre, Zenon
  <2> DEFINE u == Keywords[j]
             v == Keywords[k]
  <2>3. u \in Seq(Char) /\ v \in Seq(Char)
    BY <2>2
  <2> HIDE DEF u, v
  <2>4. Len(u) <= Len(v) \/ Len(v) <= Len(u)
    <3>1. Len(u) \in Nat /\ Len(v) \in Nat
      BY <2>3
    <3> QED BY ONLY <3>1
  <2>5. IsPrefix(u, v) \/ IsPrefix(v, u)
    BY <2>2, <2>3, <2>4, PrefixesAgree, Zenon DEF u, v
  <2> QED BY <2>1, <2>5, KeywordsAre, Zenon DEF u, v
<1>4. ASSUME Tried(t) # {} PROVE Min(Tried(t)) \in Tried(t)
  <2>1. PICK k : k \in Tried(t)
    BY <1>4
  <2>2. k \in Nat
    BY <1>2, <2>1
  <2>3. \A y \in Tried(t) : k <= y
    <3>1. \A y \in Tried(t) : y = k
      BY <1>3, <2>1
    <3>2. k <= k
      BY <2>2
    <3> QED BY <3>1, <3>2, Zenon
  <2>4. \E x \in Tried(t) : \A y \in Tried(t) : x <= y
    BY <2>1, <2>3, Zenon
  <2> QED BY <2>4, Zenon DEF Min
<1> QED BY <1>1, <1>2, <1>3, <1>4

\* A part behind another is what is behind it.
LEMMA FromConcat ==
  ASSUME NEW S, NEW s \in Seq(S), NEW t \in Seq(S)
  PROVE  From(s \o t, Len(s) + 1) = t
<1> DEFINE w == s \o t
           k == Len(s) + 1
           u == From(w, k)
<1>1. Len(s) \in Nat /\ Len(t) \in Nat
  OBVIOUS
<1>2. /\ w \in Seq(S) /\ Len(w) = Len(s) + Len(t)
      /\ \A j \in 1 .. Len(t) : w[Len(s) + j] = t[j]
  BY ConcatAt
<1> HIDE DEF w
<1>3. k \in 1 .. (Len(w) + 1)
  BY <1>1, <1>2
<1>4. /\ u \in Seq(S) /\ Len(u) = Len(w) + 1 - k
      /\ \A j \in 1 .. (Len(w) + 1 - k) : u[j] = w[k + j - 1]
  <2>1. w \in Seq(S)
    BY <1>2
  <2> HIDE DEF k
  <2> QED BY <1>3, <2>1, FromIs, Zenon DEF u
<1> HIDE DEF u
<1>5. Len(u) = Len(t) /\ Len(w) + 1 - k = Len(t)
  BY <1>1, <1>2, <1>4
<1>6. \A j \in 1 .. Len(t) : k + j - 1 = Len(s) + j
  BY <1>1
<1>7. \A j \in 1 .. Len(u) : u[j] = t[j]
  BY <1>2, <1>4, <1>5, <1>6, Zenon
<1>8. u \in Seq(S)
  BY <1>4
<1> QED BY <1>5, <1>7, <1>8, SeqEqual DEF u, w

\* A text of one character.
LEMMA Single ==
  ASSUME NEW S, NEW x \in S
  PROVE  <<x>> \in Seq(S) /\ Len(<<x>>) = 1 /\ <<x>>[1] = x
OBVIOUS

\* Arguments: a text that does not begin with a blank.
Given(t) == t \in Seq(Char) /\ Len(t) > 0 /\ t[1] # " "

\* The blank between the name and the arguments goes.
LEMMA SkipBlank ==
  ASSUME NEW t, Given(t)
  PROVE  Skip(<<" ">> \o t, {" "}) = t
<1> DEFINE b == <<" ">>
           w == b \o t
<1>1. b \in Seq(Char) /\ Len(b) = 1 /\ b[1] = " "
  BY SignsAreChars, Single, Zenon
<1>2. b \in Seq(Char)
  BY <1>1, Zenon
<1>3. Len(b) = 1
  BY <1>1, Zenon
<1>4. t \in Seq(Char)
  BY Zenon DEF Given
<1>5. Len(t) > 0
  BY Zenon DEF Given
<1> HIDE DEF b
<1>6. /\ w \in Seq(Char) /\ Len(w) = Len(b) + Len(t)
      /\ \A i \in 1 .. Len(b) : w[i] = b[i]
      /\ \A j \in 1 .. Len(t) : w[Len(b) + j] = t[j]
  BY <1>2, <1>4, ConcatAt
<1>7. From(w, Len(b) + 1) = t
  BY <1>2, <1>4, FromConcat
<1> HIDE DEF w
<1>8. Len(t) \in Nat
  BY <1>4
<1>9. 1 \in 1 .. Len(t) /\ 1 \in 1 .. Len(b) /\ Len(b) + 1 = 2
  BY <1>3, <1>5, <1>8
<1>10. w[1] = " " /\ w[2] = t[1]
  BY <1>1, <1>6, <1>9, Zenon
<1>11. FirstOutside(w, {" "}) = 2
  <2>1. 2 \in 1 .. (Len(w) + 1)
    BY <1>3, <1>5, <1>6, <1>8
  <2>2. w[2] \notin {" "}
    BY <1>10, Zenon DEF Given
  <2>3. \A j \in 1 .. (2 - 1) : w[j] \in {" "}
    <3>1. \A j \in 1 .. (2 - 1) : j = 1
      OBVIOUS
    <3> QED BY <1>10, <3>1, Zenon
  <2>4. w \in Seq(Char)
    BY <1>6
  <2> QED BY <2>1, <2>2, <2>3, <2>4, FirstOutsideAt, Zenon
<1> QED BY <1>7, <1>9, <1>11, Zenon DEF Skip, w, b

\* A name, a blank and the arguments: the command has that name, and those.
LEMMA CommandTyped ==
  ASSUME NEW k \in 1 .. 17, NEW t, Given(t),
         NEW line, line = (Keywords[k] \o <<" ">>) \o t
  PROVE  /\ line \in Seq(Char) /\ k \in Tried(line)
         /\ Skip(From(line, Len(Keywords[k]) + 1), {" "}) = t
<1> DEFINE s == Keywords[k]
           b == <<" ">>
           w == b \o t
<1>1. s \in Seq(Char)
  BY KeywordsAre, Zenon
<1>2. b \in Seq(Char)
  BY SignsAreChars, Single, Zenon
<1>3. t \in Seq(Char)
  BY Zenon DEF Given
<1>4. Skip(w, {" "}) = t
  BY SkipBlank, Zenon
<1> HIDE DEF s, b
<1>5. w \in Seq(Char)
  BY ONLY <1>2, <1>3, ConcatAt
<1>6. line = s \o w
  <2>1. (s \o b) \o t = s \o w
    BY ONLY <1>1, <1>2, <1>3, ConcatAssociative
  <2>2. line = (s \o b) \o t
    BY Zenon DEF s, b
  <2> QED BY <2>1, <2>2, Zenon
<1> HIDE DEF w
<1>7. /\ line \in Seq(Char) /\ Len(line) = Len(s) + Len(w)
      /\ \A i \in 1 .. Len(s) : line[i] = s[i]
  <2>1. /\ s \o w \in Seq(Char) /\ Len(s \o w) = Len(s) + Len(w)
        /\ \A i \in 1 .. Len(s) : (s \o w)[i] = s[i]
    BY ONLY <1>1, <1>5, ConcatAt
  <2> QED BY <1>6, <2>1, Zenon
<1>8. IsPrefix(s, line)
  <2>1. Len(s) \in Nat /\ Len(w) \in Nat
    BY ONLY <1>1, <1>5
  <2>2. Len(line) = Len(s) + Len(w)
    BY <1>7, Zenon
  <2>3. Len(s) <= Len(line)
    BY ONLY <2>1, <2>2
  <2> QED BY <1>1, <1>7, <2>3, PrefixIs, Zenon
<1>9. k \in Tried(line)
  BY <1>7, <1>8, OneName, Zenon DEF s
<1>10. From(line, Len(s) + 1) = w
  <2>1. From(s \o w, Len(s) + 1) = w
    BY ONLY <1>1, <1>5, FromConcat
  <2> QED BY <1>6, <2>1, Zenon
<1> QED BY <1>4, <1>7, <1>9, <1>10, Zenon DEF s


\* What print_time and print_date write: eight characters of the right form,
\* whose fields are the three numbers.
LEMMA ShowsIs ==
  ASSUME NEW v \in (0 .. 99) \X (0 .. 99) \X (0 .. 99), NEW sign \in Char
  PROVE  /\ Given(Shows(v, sign)) /\ Len(Shows(v, sign)) = 8
         /\ HasForm(Shows(v, sign), sign)
         /\ Field(Shows(v, sign), 1) = v[1] /\ Field(Shows(v, sign), 4) = v[2]
         /\ Field(Shows(v, sign), 7) = v[3]
<1> DEFINE a == Pad(v[1])
           b == Pad(v[2])
           c == Pad(v[3])
           w == Shows(v, sign)
<1>1. v[1] \in 0 .. 99 /\ v[2] \in 0 .. 99 /\ v[3] \in 0 .. 99
  OBVIOUS
<1>2. /\ a \in Seq(Digits) /\ Len(a) = 2 /\ atoi(a) = v[1]
      /\ b \in Seq(Digits) /\ Len(b) = 2 /\ atoi(b) = v[2]
      /\ c \in Seq(Digits) /\ Len(c) = 2 /\ atoi(c) = v[3]
  BY <1>1, Padded, Zenon
<1>3. w = a \o <<sign>> \o b \o <<sign>> \o c
  BY Zenon DEF Shows
<1> HIDE DEF a, b, c, w
<1>4. a \in Seq(Char) /\ b \in Seq(Char) /\ c \in Seq(Char)
  <2>1. Digits \subseteq Char
    BY DEF Digits
  <2>2. \A s \in Seq(Digits) : s \in Seq(Char)
    BY <2>1
  <2> QED BY <1>2, <2>2, Zenon
<1>5. /\ w \in Seq(Char) /\ Len(w) = 8 /\ w[3] = sign /\ w[6] = sign
      /\ SubSeq(w, 1, 2) = a /\ SubSeq(w, 4, 5) = b /\ SubSeq(w, 7, 8) = c
  <2>1. a \in Seq(Char) /\ b \in Seq(Char) /\ c \in Seq(Char) /\ sign \in Char
    BY <1>4, Zenon
  <2>2. Len(a) = 2 /\ Len(b) = 2 /\ Len(c) = 2
    BY <1>2, Zenon
  <2>3. Joined(w, a, b, c, sign)
    BY <1>3, Zenon DEF Joined
  <2> QED BY ONLY <2>1, <2>2, <2>3, FieldsOf
<1>6. HasForm(w, sign)
  BY <1>5, Zenon DEF HasForm
<1>7. Field(w, 1) = v[1] /\ Field(w, 4) = v[2] /\ Field(w, 7) = v[3]
  <2>1. 1 + 1 = 2 /\ 4 + 1 = 5 /\ 7 + 1 = 8
    OBVIOUS
  <2> QED BY <1>2, <1>5, <2>1, Zenon DEF Field
<1>8. Given(w)
  <2>1. a[1] \in Digits
    <3>1. a \in Seq(Digits)
      BY <1>2
    <3>2. 1 \in 1 .. Len(a)
      BY <1>2
    <3> QED BY ONLY <3>1, <3>2
  <2>2. w[1] = a[1]
    <3>1. w \in Seq(Char)
      BY <1>5, Zenon
    <3>2. \A i \in 1 .. 8 : w[i] \in Char
      <4>1. \A i \in 1 .. Len(w) : w[i] \in Char
        BY ONLY <3>1
      <4> QED BY <1>5, <4>1, Zenon
    <3>3. \A i \in 1 .. 2 : w[i] \in Char
      BY ONLY <3>2
    <3>4. SubSeq(w, 1, 2)[1] = w[1]
      BY ONLY <3>3, SubSeqProperties
    <3> QED BY <1>5, <3>4, Zenon
  <2>3. a[1] # " "
    BY <2>1, DigitsAreFigures, Zenon
  <2>4. Len(w) > 0
    BY <1>5
  <2> QED BY <1>5, <2>2, <2>3, <2>4, Zenon DEF Given
<1> QED BY <1>5, <1>6, <1>7, <1>8, Zenon DEF w

\* So a time that is shown is read as that time,
LEMMA ShownTimeRead ==
  ASSUME NEW t \in Times
  PROVE  /\ TimeIn(Shows(t, ":")) = {t}
         /\ Given(Shows(t, ":")) /\ Len(Shows(t, ":")) = 8
<1> DEFINE w == Shows(t, ":")
<1>1. t \in (0 .. 23) \X (0 .. 59) \X (0 .. 59)
  BY ShownAssumption
<1>2. t \in (0 .. 99) \X (0 .. 99) \X (0 .. 99) /\ t = <<t[1], t[2], t[3]>>
  BY <1>1
<1>3. /\ Given(w) /\ Len(w) = 8 /\ HasForm(w, ":")
      /\ Field(w, 1) = t[1] /\ Field(w, 4) = t[2] /\ Field(w, 7) = t[3]
  BY <1>2, SignsAreChars, ShowsIs, Zenon
<1> HIDE DEF w
<1>4. TimeIn(w) = {<<Field(w, 1), Field(w, 4), Field(w, 7)>>}
                    \cap ((0 .. 23) \X (0 .. 59) \X (0 .. 59))
  BY <1>3, Zenon DEF TimeIn
<1>5. TimeIn(w) = {t} \cap ((0 .. 23) \X (0 .. 59) \X (0 .. 59))
  BY <1>2, <1>3, <1>4, Zenon
<1>6. TimeIn(w) = {t}
  BY <1>1, <1>5, Zenon
<1> QED BY <1>3, <1>6, Zenon DEF w

\* and a date as that date.
LEMMA ShownDateRead ==
  ASSUME NEW d \in Dates
  PROVE  /\ DateIn(Shows(d, "/")) = {d}
         /\ Given(Shows(d, "/")) /\ Len(Shows(d, "/")) = 8
<1> DEFINE w == Shows(d, "/")
<1>1. d \in (1 .. 12) \X (1 .. 31) \X (0 .. 99)
  BY ShownAssumption
<1>2. d \in (0 .. 99) \X (0 .. 99) \X (0 .. 99) /\ d = <<d[1], d[2], d[3]>>
      /\ d[3] % 256 = d[3] /\ d \in (1 .. 12) \X (1 .. 31) \X (0 .. 255)
  BY <1>1
<1>3. /\ Given(w) /\ Len(w) = 8 /\ HasForm(w, "/")
      /\ Field(w, 1) = d[1] /\ Field(w, 4) = d[2] /\ Field(w, 7) = d[3]
  BY <1>2, SignsAreChars, ShowsIs, Zenon
<1> HIDE DEF w
<1>4. DateIn(w) = {<<Field(w, 1), Field(w, 4), Field(w, 7) % 256>>}
                    \cap ((1 .. 12) \X (1 .. 31) \X (0 .. 255))
  BY <1>3, Zenon DEF DateIn, DateWithin
<1>5. <<Field(w, 1), Field(w, 4), Field(w, 7) % 256>> = d
  BY <1>2, <1>3, Zenon
<1>6. DateIn(w) = {d}
  <2> DEFINE E == (1 .. 12) \X (1 .. 31) \X (0 .. 255)
  <2>1. d \in E
    BY <1>2
  <2>2. DateIn(w) = {d} \cap E
    BY <1>4, <1>5, Zenon
  <2> HIDE DEF E
  <2> QED BY ONLY <2>1, <2>2
<1> QED BY <1>3, <1>6, Zenon DEF w

\* Whatever is read as a time or a date is one; the year may be a negative
\* number of one digit, as a byte.
LEMMA ReadIsSetting ==
  ASSUME NEW s \in Seq(Char)
  PROVE  /\ TimeIn(s) \subseteq (0 .. 23) \X (0 .. 59) \X (0 .. 59)
         /\ DateIn(s) \subseteq (1 .. 12) \X (1 .. 31) \X (0 .. 99 \cup 247 .. 255)
<1>1. TimeIn(s) \subseteq (0 .. 23) \X (0 .. 59) \X (0 .. 59)
  BY Zenon DEF TimeIn
<1>2. ASSUME NEW d \in DateIn(s)
      PROVE  d \in (1 .. 12) \X (1 .. 31) \X (0 .. 99 \cup 247 .. 255)
  <2> DEFINE y == Field(s, 7)
  <2>1. /\ HasForm(s, "/") /\ d = <<Field(s, 1), Field(s, 4), y % 256>>
        /\ d \in (1 .. 12) \X (1 .. 31) \X (0 .. 255)
    BY <1>2, Zenon DEF DateIn, DateWithin
  <2>2. y \in -9 .. 99
    <3> DEFINE u == SubSeq(s, 7, 8)
    <3>1. Len(s) = 8
      BY <2>1, Zenon DEF HasForm
    <3>2. \A i \in 1 .. 8 : s[i] \in Char
      <4>1. s \in Seq(Char)
        OBVIOUS
      <4>2. \A i \in 1 .. Len(s) : s[i] \in Char
        BY ONLY <4>1
      <4> QED BY <3>1, <4>2, Zenon
    <3>3. \A i \in 7 .. 8 : s[i] \in Char
      BY ONLY <3>2
    <3>4. u \in Seq(Char) /\ Len(u) = 2
      BY ONLY <3>3, SubSeqProperties
    <3>5. atoi(u) \in -9 .. 99
      BY <3>4, AtoiTwo, Zenon
    <3>6. 7 + 1 = 8
      OBVIOUS
    <3> QED BY <3>5, <3>6, Zenon DEF Field
  <2> HIDE DEF y
  <2>3. y % 256 \in 0 .. 99 \cup 247 .. 255
    BY ONLY <2>2
  <2>4. d[1] \in 1 .. 12 /\ d[2] \in 1 .. 31 /\ d = <<d[1], d[2], d[3]>>
    BY <2>1
  <2>5. d[3] = y % 256
    BY <2>1
  <2> QED BY <2>3, <2>4, <2>5
<1> QED BY <1>1, <1>2, Zenon

\* A text that begins with one of the two names of clock set, and what follows.
LEMMA NameFollowed ==
  ASSUME NEW name \in {SetTime, SetDate}, NEW t \in Seq(Char),
         NEW s, s = name \o t
  PROVE  /\ Given(s) /\ From(s, 10) = t
         /\ strncmp(s, name, 9) = 0
         /\ \A other \in {SetTime, SetDate} : strncmp(s, other, 9) = 0 => other = name
<1>1. \A other \in {SetTime, SetDate} :
        other \in Seq(Char) /\ Len(other) = 9 /\ other[1] # " "
  BY SpellingAssumption, Zenon
<1>2. name \in Seq(Char)
  BY <1>1, Zenon
<1>3. t \in Seq(Char)
  OBVIOUS
<1>4. Len(name) = 9
  BY <1>1, Zenon
<1>5. /\ s \in Seq(Char) /\ Len(s) = Len(name) + Len(t)
      /\ \A i \in 1 .. Len(name) : s[i] = name[i]
  <2>1. /\ name \o t \in Seq(Char) /\ Len(name \o t) = Len(name) + Len(t)
        /\ \A i \in 1 .. Len(name) : (name \o t)[i] = name[i]
    BY ONLY <1>2, <1>3, ConcatAt
  <2> QED BY <2>1, Zenon
<1>6. Len(t) \in Nat
  BY ONLY <1>3
<1>7. Len(s) = 9 + Len(t)
  BY <1>4, <1>5, Zenon
<1>8. Len(s) > 0 /\ Len(name) <= Len(s) /\ 1 \in 1 .. Len(name) /\ Len(name) + 1 = 10
  BY ONLY <1>4, <1>6, <1>7
<1>9. Given(s)
  <2>1. s[1] = name[1] /\ name[1] # " "
    BY <1>1, <1>5, <1>8, Zenon
  <2> QED BY <1>5, <1>8, <2>1, Zenon DEF Given
<1>10. From(s, 10) = t
  <2>1. From(name \o t, Len(name) + 1) = t
    BY ONLY <1>2, <1>3, FromConcat
  <2> QED BY <1>8, <2>1, Zenon
<1>11. IsPrefix(name, s)
  BY <1>2, <1>5, <1>8, PrefixIs, Zenon
<1>12. strncmp(s, name, 9) = 0
  BY <1>2, <1>4, <1>5, <1>11, StrncmpIsPrefix, Zenon
<1>13. ASSUME NEW other \in {SetTime, SetDate}, strncmp(s, other, 9) = 0
       PROVE  other = name
  <2>1. other \in Seq(Char)
    BY <1>1, Zenon
  <2>2. Len(other) = 9
    BY <1>1, Zenon
  <2>3. IsPrefix(other, s)
    BY <1>5, <1>13, <2>1, <2>2, StrncmpIsPrefix, Zenon
  <2>4. \A i \in 1 .. 9 : other[i] = s[i] /\ name[i] = s[i]
    <3>1. \A i \in 1 .. Len(other) : other[i] = s[i]
      BY <1>5, <2>1, <2>3, PrefixIs, Zenon
    <3>2. \A i \in 1 .. 9 : other[i] = s[i]
      BY <2>2, <3>1, Zenon
    <3>3. \A i \in 1 .. 9 : s[i] = name[i]
      BY <1>4, <1>5, Zenon
    <3> QED BY <3>2, <3>3, Zenon
  <2>5. Len(other) = Len(name) /\ \A i \in 1 .. Len(other) : other[i] = name[i]
    BY <1>4, <2>2, <2>4, Zenon
  <2> QED BY ONLY <1>2, <2>1, <2>5, SeqEqual
<1> QED BY <1>9, <1>10, <1>12, <1>13

\* The two names as texts, with what is typed before them.
LEMMA NamesAre ==
  /\ SetTime \in Seq(Char) /\ SetDate \in Seq(Char)
  /\ Chars("clock ") \in Seq(Char) /\ Chars("alarm ") \in Seq(Char)
  /\ Chars(" x") \in Seq(Char)
<1>1. SetTime \in Seq(Char) /\ SetDate \in Seq(Char)
  BY SpellingAssumption, Zenon
<1>2. <<" ">> \in Seq(Char)
  BY SignsAreChars, Single, Zenon
<1>3. \A s, t \in Seq(Char) : s \o t \in Seq(Char)
  BY ConcatAt
<1>4. Keywords[5] \in Seq(Char) /\ Keywords[17] \in Seq(Char)
  <2>1. 5 \in 1 .. 17 /\ 17 \in 1 .. 17
    OBVIOUS
  <2> QED BY <2>1, KeywordsAre, Zenon
<1>5. Chars("clock ") \in Seq(Char) /\ Chars("alarm ") \in Seq(Char)
  BY <1>2, <1>3, <1>4, SpellingAssumption, Zenon
<1>6. Chars(" x") \in Seq(Char)
  <2>1. "x" \in Char
    <3>1. 44 \in DOMAIN Alphabet
      BY Codes
    <3>2. Alphabet[44] \in Char
      BY <3>1, Zenon DEF Char, Range
    <3> QED BY <3>2, SignsAt, Zenon
  <2>2. \A p, q \in Char : <<p, q>> \in Seq(Char)
    OBVIOUS
  <2> QED BY <2>1, <2>2, SignsAreChars, SpellingAssumption, Zenon
<1> QED BY <1>1, <1>5, <1>6

\* The line of an alarm: the time is its first eight characters.
LEMMA AlarmFollowed ==
  ASSUME NEW w \in Seq(Char), Len(w) = 8, Given(w)
  PROVE  Given(w \o Chars(" x")) /\ Take(w \o Chars(" x"), 8) = w
<1> DEFINE x == Chars(" x")
           s == w \o x
<1>1. x \in Seq(Char)
  BY NamesAre, Zenon
<1> HIDE DEF x
<1>2. w \in Seq(Char)
  OBVIOUS
<1>3. /\ s \in Seq(Char) /\ Len(s) = Len(w) + Len(x)
      /\ \A i \in 1 .. Len(w) : s[i] = w[i]
  BY ONLY <1>1, <1>2, ConcatAt
<1> HIDE DEF s
<1>4. Len(x) \in Nat /\ Len(w) = 8
  BY <1>1
<1>5. Len(s) = 8 + Len(x)
  BY <1>3, <1>4, Zenon
<1>6. Len(s) > 0 /\ (IF 8 < Len(s) THEN 8 ELSE Len(s)) = 8
      /\ 1 \in 1 .. Len(w) /\ Len(s) >= 8
  BY ONLY <1>4, <1>5
<1>7. Take(s, 8) = w
  <2> DEFINE u == SubSeq(s, 1, 8)
  <2>1. \A i \in 1 .. Len(s) : s[i] \in Char
    <3>1. s \in Seq(Char)
      BY <1>3
    <3> QED BY ONLY <3>1
  <2>2. \A i \in 1 .. 8 : s[i] \in Char
    BY <1>4, <1>5, <2>1
  <2>3. u \in Seq(Char) /\ Len(u) = 8 /\ \A i \in 1 .. 8 : u[i] = s[i]
    BY ONLY <2>2, SubSeqProperties
  <2> HIDE DEF u
  <2>4. Len(u) = Len(w) /\ \A i \in 1 .. Len(u) : u[i] = w[i]
    BY <1>3, <1>4, <2>3, Zenon
  <2>5. u \in Seq(Char)
    BY <2>3
  <2>6. u = w
    BY ONLY <1>2, <2>4, <2>5, SeqEqual
  <2> QED BY <1>6, <2>6, Zenon DEF Take, u
<1>8. Given(s)
  <2>1. s[1] = w[1]
    BY <1>3, <1>6, Zenon
  <2> QED BY <1>3, <1>6, <2>1, Zenon DEF Given
<1> QED BY <1>7, <1>8, Zenon DEF s, x

----------------------------------------------------------------------------
(***************************************************************************)
(* Part 9.  The invariant.                                                 *)
(***************************************************************************)

\* What the user types who types what the clock has shown.
ClockTime(t) == SetTime \o Shows(t, ":")
\* Likewise, a date,
ClockDate(d) == SetDate \o Shows(d, "/")
\* and the time of an alarm, with a message behind it.
AlarmAt(t) == Shows(t, ":") \o Chars(" x")

\* The line is a text; when it is typed after the clock, it says so.
LineInv ==
  stage = "line" =>
    /\ text \in Seq(Char)
    /\ \/ shown = Nothing
       \/ shown \in Times /\ text = Chars("clock ") \o ClockTime(shown)
       \/ shown \in Times /\ text = Chars("alarm ") \o AlarmAt(shown)
       \/ shown \in Dates /\ text = Chars("clock ") \o ClockDate(shown)

\* And so its command is clock or alarm, and these are the arguments.
CommandInv ==
  stage = "command" =>
    /\ text \in Seq(Char)
    /\ \/ shown = Nothing
       \/ shown \in Times /\ command = "clock" /\ text = ClockTime(shown)
       \/ shown \in Times /\ command = "alarm" /\ text = AlarmAt(shown)
       \/ shown \in Dates /\ command = "clock" /\ text = ClockDate(shown)

\* A number that was printed is the one that was to be.
PrintedInv ==
  /\ stage = "number" => \E n \in Numbers : shown = <<n>> /\ text = itoa(n)
  /\ stage = "groups" => \E n \in Numbers : shown = <<n>> /\ text = itoBCD(n)

\* The words so far are those up to a place that the pointer is behind.
WordsInv ==
  /\ stage = "prompt" => words = <<>>
  /\ stage = "words" =>
       /\ shown \in Seq(Char)
       /\ \E n \in 0 .. Len(shown) : words = WordsTo(shown)[n] /\ Behind(shown, n, text)
  /\ stage = "words end" => words = WordsTo(shown)[Len(shown)]

\* The inductive invariant.  What is said of a call is needed of the step that
\* makes it, and kept by those that follow.
ArgumentsInv == /\ TypeOK /\ LineInv /\ CommandInv /\ PrintedInv /\ WordsInv
                /\ ShownSetsItself /\ DigitSetsPriority

\* The lines with a time,
LEMMA TimeTyped ==
  ASSUME NEW t \in Times
  PROVE  /\ Given(ClockTime(t)) /\ Given(AlarmAt(t))
         /\ Chars("clock ") \o SetTime \o Shows(t, ":") = Chars("clock ") \o ClockTime(t)
         /\ Chars("alarm ") \o Shows(t, ":") \o Chars(" x") = Chars("alarm ") \o AlarmAt(t)
<1> DEFINE w == Shows(t, ":")
           a == Chars("clock ")
           b == Chars("alarm ")
           x == Chars(" x")
<1>1. Given(w) /\ Len(w) = 8
  BY ShownTimeRead, Zenon
<1>2. w \in Seq(Char)
  BY <1>1, Zenon DEF Given
<1>3. Given(ClockTime(t))
  BY <1>2, NameFollowed, Zenon DEF ClockTime
<1>4. Given(AlarmAt(t))
  BY <1>1, <1>2, AlarmFollowed, Zenon DEF AlarmAt
<1>5. a \in Seq(Char) /\ b \in Seq(Char) /\ x \in Seq(Char) /\ SetTime \in Seq(Char)
  BY NamesAre, Zenon
<1> HIDE DEF w, a, b, x
<1>6. (a \o SetTime) \o w = a \o (SetTime \o w)
  <2> DEFINE c == SetTime
  <2>1. a \in Seq(Char) /\ c \in Seq(Char) /\ w \in Seq(Char)
    BY <1>2, <1>5, Zenon
  <2> HIDE DEF c
  <2>2. (a \o c) \o w = a \o (c \o w)
    BY ONLY <2>1, ConcatAssociative
  <2> QED BY ONLY <2>2, Zenon DEF c
<1>7. (b \o w) \o x = b \o (w \o x)
  BY ONLY <1>2, <1>5, ConcatAssociative
<1> QED BY <1>3, <1>4, <1>6, <1>7, Zenon DEF ClockTime, AlarmAt, w, a, b, x

\* and with a date.
LEMMA DateTyped ==
  ASSUME NEW d \in Dates
  PROVE  /\ Given(ClockDate(d))
         /\ Chars("clock ") \o SetDate \o Shows(d, "/") = Chars("clock ") \o ClockDate(d)
<1> DEFINE w == Shows(d, "/")
           a == Chars("clock ")
<1>1. Given(w) /\ Len(w) = 8
  BY ShownDateRead, Zenon
<1>2. w \in Seq(Char)
  BY <1>1, Zenon DEF Given
<1>3. Given(ClockDate(d))
  BY <1>2, NameFollowed, Zenon DEF ClockDate
<1>4. a \in Seq(Char) /\ SetDate \in Seq(Char)
  BY NamesAre, Zenon
<1> HIDE DEF w, a
<1>5. (a \o SetDate) \o w = a \o (SetDate \o w)
  BY ONLY <1>2, <1>4, ConcatAssociative
<1> QED BY <1>3, <1>5, Zenon DEF ClockDate, w, a

\* A line for the clock is a text and found to be one; and so for alarm.
LEMMA LineTyped ==
  ASSUME NEW t, Given(t)
  PROVE  /\ Chars("clock ") \o t \in Seq(Char) /\ 5 \in Tried(Chars("clock ") \o t)
         /\ Skip(From(Chars("clock ") \o t, Len(Keywords[5]) + 1), {" "}) = t
         /\ Chars("alarm ") \o t \in Seq(Char) /\ 17 \in Tried(Chars("alarm ") \o t)
         /\ Skip(From(Chars("alarm ") \o t, Len(Keywords[17]) + 1), {" "}) = t
<1>1. 5 \in 1 .. 17 /\ 17 \in 1 .. 17
  OBVIOUS
<1>2. /\ (Keywords[5] \o <<" ">>) \o t \in Seq(Char)
      /\ 5 \in Tried((Keywords[5] \o <<" ">>) \o t)
      /\ Skip(From((Keywords[5] \o <<" ">>) \o t, Len(Keywords[5]) + 1), {" "}) = t
  BY <1>1, CommandTyped, Zenon
<1>3. /\ (Keywords[17] \o <<" ">>) \o t \in Seq(Char)
      /\ 17 \in Tried((Keywords[17] \o <<" ">>) \o t)
      /\ Skip(From((Keywords[17] \o <<" ">>) \o t, Len(Keywords[17]) + 1), {" "}) = t
  BY <1>1, CommandTyped, Zenon
<1> QED BY <1>2, <1>3, SpellingAssumption, Zenon

\* The rest of a text behind a beginning of it is a text.
LEMMA RestIsText ==
  ASSUME NEW s \in Seq(Char), NEW t \in Seq(Char), IsPrefix(t, s)
  PROVE  /\ From(s, Len(t) + 1) \in Seq(Char)
         /\ Skip(From(s, Len(t) + 1), {" "}) \in Seq(Char)
<1> DEFINE k == Len(t) + 1
           u == From(s, k)
           j == FirstOutside(u, {" "})
<1>1. s \in Seq(Char) /\ Len(t) <= Len(s)
  BY PrefixIs, Zenon
<1>2. Len(t) \in Nat /\ Len(s) \in Nat
  OBVIOUS
<1>3. k \in 1 .. (Len(s) + 1)
  BY ONLY <1>1, <1>2
<1> HIDE DEF k
<1>4. u \in Seq(Char)
  BY <1>1, <1>3, FromIs, Zenon
<1> HIDE DEF u
<1>5. j \in 1 .. (Len(u) + 1)
  BY <1>4, FirstOutsideIs, Zenon
<1> HIDE DEF j
<1>6. From(u, j) \in Seq(Char)
  BY <1>4, <1>5, FromIs, Zenon
<1> QED BY <1>4, <1>6, Zenon DEF Skip, j, u, k

\* comhand finds at most one command, and takes its arguments.
LEMMA ComhandIs ==
  ASSUME comhand
  PROVE  /\ stage = "line" /\ stage' = "command" /\ shown' = shown
         /\ done' = done /\ words' = words
         /\ \/ Tried(text) = {} /\ command' = "none" /\ text' = text
            \/ /\ Tried(text) # {} /\ command' = Keyword[Min(Tried(text))]
               /\ text' = Skip(From(text, Len(Keywords[Min(Tried(text))]) + 1), {" "})
BY Zenon DEF comhand, Tried

\* From the line to the command.
LEMMA ComhandStep ==
  ASSUME TypeOK, LineInv, comhand
  PROVE  /\ command' \in Range(Keyword) \cup {"none"}
         /\ CommandInv'
<1>1. /\ stage = "line" /\ stage' = "command" /\ shown' = shown
      /\ \/ Tried(text) = {} /\ command' = "none" /\ text' = text
         \/ /\ Tried(text) # {} /\ command' = Keyword[Min(Tried(text))]
            /\ text' = Skip(From(text, Len(Keywords[Min(Tried(text))]) + 1), {" "})
  BY ComhandIs, Zenon
<1>2. /\ text \in Seq(Char)
      /\ \/ shown = Nothing
         \/ shown \in Times /\ text = Chars("clock ") \o ClockTime(shown)
         \/ shown \in Times /\ text = Chars("alarm ") \o AlarmAt(shown)
         \/ shown \in Dates /\ text = Chars("clock ") \o ClockDate(shown)
  BY <1>1, Zenon DEF LineInv
<1> DEFINE k == Min(Tried(text))
<1>3. /\ \A i \in 1 .. 17 : i \in Tried(text) => IsPrefix(Keywords[i], text)
      /\ \A i, j \in Tried(text) : i = j
      /\ Tried(text) # {} => k \in Tried(text) /\ k \in 1 .. 17
  BY <1>2, OneName, Zenon
<1> HIDE DEF k
<1>4. command' \in Range(Keyword) \cup {"none"}
  <2>1. \A i \in 1 .. 17 : Keyword[i] \in Range(Keyword)
    BY KeywordAt, Zenon DEF Range
  <2> QED BY <1>1, <1>3, <2>1, Zenon DEF k
<1>5. text' \in Seq(Char)
  <2>1. ASSUME Tried(text) # {}
        PROVE  Skip(From(text, Len(Keywords[k]) + 1), {" "}) \in Seq(Char)
    <3>1. IsPrefix(Keywords[k], text) /\ Keywords[k] \in Seq(Char)
      BY <1>3, <2>1, KeywordsAre, Zenon
    <3> QED BY <1>2, <3>1, RestIsText, Zenon
  <2> QED BY <1>1, <1>2, <2>1, Zenon DEF k
<1>6. ASSUME NEW i \in 1 .. 17, i \in Tried(text)
      PROVE  command' = Keyword[i]
             /\ text' = Skip(From(text, Len(Keywords[i]) + 1), {" "})
  <2>1. k = i /\ Tried(text) # {}
    BY <1>3, <1>6, Zenon
  <2> QED BY <1>1, <2>1, Zenon DEF k
<1>7. 5 \in 1 .. 17 /\ 17 \in 1 .. 17
  OBVIOUS
<1>8. CASE shown = Nothing
  BY <1>1, <1>4, <1>5, <1>8, Zenon DEF CommandInv
<1>9. CASE shown \in Times /\ text = Chars("clock ") \o ClockTime(shown)
  <2>1. command' = "clock" /\ text' = ClockTime(shown)
    BY <1>6, <1>7, <1>9, TimeTyped, LineTyped, KeywordAt, Zenon
  <2> QED BY <1>1, <1>4, <1>5, <1>9, <2>1, Zenon DEF CommandInv
<1>10. CASE shown \in Times /\ text = Chars("alarm ") \o AlarmAt(shown)
  <2>1. command' = "alarm" /\ text' = AlarmAt(shown)
    BY <1>6, <1>7, <1>10, TimeTyped, LineTyped, KeywordAt, Zenon
  <2> QED BY <1>1, <1>4, <1>5, <1>10, <2>1, Zenon DEF CommandInv
<1>11. CASE shown \in Dates /\ text = Chars("clock ") \o ClockDate(shown)
  <2>1. command' = "clock" /\ text' = ClockDate(shown)
    BY <1>6, <1>7, <1>11, DateTyped, LineTyped, KeywordAt, Zenon
  <2> QED BY <1>1, <1>4, <1>5, <1>11, <2>1, Zenon DEF CommandInv
<1> QED BY <1>2, <1>4, <1>8, <1>9, <1>10, <1>11, Zenon


\* What a handler does when it is done.
LEMMA CallsIs ==
  ASSUME NEW call, Calls(call)
  PROVE  /\ done' = call /\ stage' = "done" /\ text' = text /\ command' = command
         /\ shown' = shown /\ words' = words
BY Zenon DEF Calls

\* A call is told from another by its name.
LEMMA CallIs ==
  \A to, value : Call(to, value).to = to /\ Call(to, value).value = value
BY DEF Call

\* A line that is refused gets the help of its command.
LEMMA RefusedIs == Refused.to = "help"
BY CallIs, Zenon DEF Refused

(***************************************************************************)
(* What the types and the two properties say of a call.                    *)
(***************************************************************************)
CallTyped ==
  /\ done.to \in {"set_time", "alarm_create"} =>
       done.value \in (0 .. 23) \X (0 .. 59) \X (0 .. 59)
  /\ done.to = "set_date" =>
       done.value \in (1 .. 12) \X (1 .. 31) \X (0 .. 99 \cup 247 .. 255)

\* A call of the command keeps the invariant, if it is well typed and keeps the
\* two properties that are about calls.
LEMMA CallsKeep ==
  ASSUME ArgumentsInv, stage = "command", NEW call, Calls(call), CallTyped',
         ShownSetsItself', DigitSetsPriority'
  PROVE  ArgumentsInv'
<1>1. stage' = "done" /\ command' = command
  BY CallsIs, Zenon
<1>2. TypeOK'
  BY <1>1, Zenon DEF ArgumentsInv, TypeOK, CallTyped
<1>3. LineInv' /\ CommandInv' /\ PrintedInv' /\ WordsInv'
  BY <1>1, Zenon DEF LineInv, CommandInv, PrintedInv, WordsInv
<1> QED BY <1>2, <1>3, Zenon DEF ArgumentsInv

\* clock set time.
LEMMA ClockSetTimeStep ==
  ASSUME ArgumentsInv, ClockSetTime
  PROVE  ArgumentsInv'
<1> DEFINE values == TimeIn(From(text, 10))
<1>1. /\ stage = "command" /\ command = "clock" /\ strncmp(text, SetTime, 9) = 0
      /\ \/ \E v \in values : Calls(Call("set_time", v))
         \/ values = {} /\ Calls(Refused)
  BY Zenon DEF ClockSetTime, ClockSet, Handles, Begins
<1>2. values \subseteq (0 .. 23) \X (0 .. 59) \X (0 .. 59)
  BY Zenon DEF TimeIn
<1>3. /\ \/ shown = Nothing
         \/ shown \in Times /\ command = "clock" /\ text = ClockTime(shown)
         \/ shown \in Times /\ command = "alarm" /\ text = AlarmAt(shown)
         \/ shown \in Dates /\ command = "clock" /\ text = ClockDate(shown)
  BY <1>1, Zenon DEF ArgumentsInv, CommandInv
<1>4. shown = Nothing \/ values = {shown}
  <2>1. CASE shown \in Times /\ text = ClockTime(shown)
    <3>1. Shows(shown, ":") \in Seq(Char) /\ TimeIn(Shows(shown, ":")) = {shown}
      BY <2>1, ShownTimeRead, Zenon DEF Given
    <3>2. From(text, 10) = Shows(shown, ":")
      BY <2>1, <3>1, NameFollowed, Zenon DEF ClockTime
    <3> QED BY <3>1, <3>2, Zenon
  <2>2. ~ (shown \in Dates /\ text = ClockDate(shown))
    <3>1. SUFFICES ASSUME shown \in Dates, text = ClockDate(shown) PROVE FALSE
      BY Zenon
    <3>2. Shows(shown, "/") \in Seq(Char)
      BY <3>1, ShownDateRead, Zenon DEF Given
    <3>3. SetTime = SetDate
      BY <1>1, <3>1, <3>2, NameFollowed, Zenon DEF ClockDate
    <3> QED BY <3>3, SpellingAssumption, Zenon
  <2> QED BY <1>1, <1>3, <2>1, <2>2, Zenon
<1> HIDE DEF values
<1>5. ASSUME NEW v \in values, Calls(Call("set_time", v)) PROVE ArgumentsInv'
  <2>1. done' = Call("set_time", v) /\ command' = command /\ shown' = shown
    BY <1>5, CallsIs, Zenon
  <2>2. done'.to = "set_time" /\ done'.value = v
    BY <2>1, CallIs, Zenon
  <2>3. CallTyped'
    BY <1>2, <2>2, Zenon DEF CallTyped
  <2>4. ShownSetsItself'
    <3>1. shown # Nothing => v = shown
      BY <1>4, Zenon
    <3>2. done' # Refused
      BY <2>2, RefusedIs, Zenon
    <3> QED BY <2>1, <2>2, <3>1, <3>2, Zenon DEF ShownSetsItself, Nothing, Refused, Call
  <2>5. DigitSetsPriority'
    BY <1>1, <2>1, Zenon DEF DigitSetsPriority
  <2> QED BY <1>1, <1>5, <2>3, <2>4, <2>5, CallsKeep, Zenon
<1>6. ASSUME values = {}, Calls(Refused) PROVE ArgumentsInv'
  <2>1. done' = Refused /\ command' = command /\ shown' = shown
    BY <1>6, CallsIs, Zenon
  <2>2. done'.to = "help"
    BY <2>1, RefusedIs, Zenon
  <2>3. CallTyped'
    BY <2>2, Zenon DEF CallTyped
  <2>4. ShownSetsItself'
    <3>1. shown = Nothing
      BY <1>4, <1>6, Zenon
    <3> QED BY <2>1, <3>1, Zenon DEF ShownSetsItself, Nothing
  <2>5. DigitSetsPriority'
    BY <1>1, <2>1, Zenon DEF DigitSetsPriority
  <2> QED BY <1>1, <1>6, <2>3, <2>4, <2>5, CallsKeep, Zenon
<1> QED BY <1>1, <1>5, <1>6, Zenon

\* clock set date.
LEMMA ClockSetDateStep ==
  ASSUME ArgumentsInv, ClockSetDate
  PROVE  ArgumentsInv'
<1> DEFINE values == DateIn(From(text, 10))
<1>1. /\ stage = "command" /\ command = "clock" /\ strncmp(text, SetDate, 9) = 0
      /\ \/ \E v \in values : Calls(Call("set_date", v))
         \/ values = {} /\ Calls(Refused)
  BY Zenon DEF ClockSetDate, ClockSet, Handles, Begins
<1>2. text \in Seq(Char)
  BY <1>1, Zenon DEF ArgumentsInv, CommandInv
<1>3. values \subseteq (1 .. 12) \X (1 .. 31) \X (0 .. 99 \cup 247 .. 255)
  <2>1. SetDate \in Seq(Char) /\ Len(SetDate) = 9
    BY SpellingAssumption, Zenon
  <2>2. IsPrefix(SetDate, text)
    BY <1>1, <1>2, <2>1, StrncmpIsPrefix, Zenon
  <2>3. From(text, Len(SetDate) + 1) \in Seq(Char)
    BY <1>2, <2>1, <2>2, RestIsText, Zenon
  <2>4. 9 + 1 = 10
    OBVIOUS
  <2>5. From(text, 10) \in Seq(Char)
    BY <2>1, <2>3, <2>4, Zenon
  <2> QED BY <2>5, ReadIsSetting, Zenon
<1>4. /\ \/ shown = Nothing
         \/ shown \in Times /\ command = "clock" /\ text = ClockTime(shown)
         \/ shown \in Times /\ command = "alarm" /\ text = AlarmAt(shown)
         \/ shown \in Dates /\ command = "clock" /\ text = ClockDate(shown)
  BY <1>1, Zenon DEF ArgumentsInv, CommandInv
<1>5. shown = Nothing \/ values = {shown}
  <2>1. CASE shown \in Dates /\ text = ClockDate(shown)
    <3>1. Shows(shown, "/") \in Seq(Char) /\ DateIn(Shows(shown, "/")) = {shown}
      BY <2>1, ShownDateRead, Zenon DEF Given
    <3>2. From(text, 10) = Shows(shown, "/")
      BY <2>1, <3>1, NameFollowed, Zenon DEF ClockDate
    <3> QED BY <3>1, <3>2, Zenon
  <2>2. ~ (shown \in Times /\ text = ClockTime(shown))
    <3>1. SUFFICES ASSUME shown \in Times, text = ClockTime(shown) PROVE FALSE
      BY Zenon
    <3>2. Shows(shown, ":") \in Seq(Char)
      BY <3>1, ShownTimeRead, Zenon DEF Given
    <3>3. SetDate = SetTime
      BY <1>1, <3>1, <3>2, NameFollowed, Zenon DEF ClockTime
    <3> QED BY <3>3, SpellingAssumption, Zenon
  <2> QED BY <1>1, <1>4, <2>1, <2>2, Zenon
<1> HIDE DEF values
<1>6. ASSUME NEW v \in values, Calls(Call("set_date", v)) PROVE ArgumentsInv'
  <2>1. done' = Call("set_date", v) /\ command' = command /\ shown' = shown
    BY <1>6, CallsIs, Zenon
  <2>2. done'.to = "set_date" /\ done'.value = v
    BY <2>1, CallIs, Zenon
  <2>3. CallTyped'
    <3>1. done'.value \in (1 .. 12) \X (1 .. 31) \X (0 .. 99 \cup 247 .. 255)
      <4> DEFINE T == (1 .. 12) \X (1 .. 31) \X (0 .. 99 \cup 247 .. 255)
      <4>1. values \subseteq T
        BY <1>3
      <4> HIDE DEF T
      <4>2. done'.value \in T
        BY <2>2, <4>1, Zenon
      <4> QED BY <4>2 DEF T
    <3>2. done'.to \notin {"set_time", "alarm_create"}
      BY ONLY <2>2, Zenon
    <3> QED BY ONLY <3>1, <3>2, Zenon DEF CallTyped
  <2>4. ShownSetsItself'
    <3>1. shown # Nothing => v = shown
      BY <1>5, Zenon
    <3>2. done' # Refused
      BY <2>2, RefusedIs, Zenon
    <3> QED BY <2>1, <2>2, <3>1, <3>2, Zenon DEF ShownSetsItself, Nothing, Refused, Call
  <2>5. DigitSetsPriority'
    BY <1>1, <2>1, Zenon DEF DigitSetsPriority
  <2> QED BY <1>1, <1>6, <2>3, <2>4, <2>5, CallsKeep, Zenon
<1>7. ASSUME values = {}, Calls(Refused) PROVE ArgumentsInv'
  <2>1. done' = Refused /\ command' = command /\ shown' = shown
    BY <1>7, CallsIs, Zenon
  <2>2. done'.to = "help"
    BY <2>1, RefusedIs, Zenon
  <2>3. CallTyped'
    BY <2>2, Zenon DEF CallTyped
  <2>4. ShownSetsItself'
    <3>1. shown = Nothing
      BY <1>5, <1>7, Zenon
    <3> QED BY <2>1, <3>1, Zenon DEF ShownSetsItself, Nothing
  <2>5. DigitSetsPriority'
    BY <1>1, <2>1, Zenon DEF DigitSetsPriority
  <2> QED BY <1>1, <1>7, <2>3, <2>4, <2>5, CallsKeep, Zenon
<1> QED BY <1>1, <1>6, <1>7, Zenon

\* alarm.
LEMMA AlarmCommandStep ==
  ASSUME ArgumentsInv, AlarmCommand
  PROVE  ArgumentsInv'
<1>1. /\ stage = "command" /\ command = "alarm"
      /\ \/ Calls(Refused)
         \/ \E t \in TimeIn(Take(text, 8)) : Calls(Call("alarm_create", t))
  BY Zenon DEF AlarmCommand, Handles
<1>2. /\ \/ shown = Nothing
         \/ shown \in Times /\ command = "clock" /\ text = ClockTime(shown)
         \/ shown \in Times /\ command = "alarm" /\ text = AlarmAt(shown)
         \/ shown \in Dates /\ command = "clock" /\ text = ClockDate(shown)
  BY <1>1, Zenon DEF ArgumentsInv, CommandInv
<1>3. shown = Nothing \/ TimeIn(Take(text, 8)) = {shown}
  <2>1. CASE shown \in Times /\ text = AlarmAt(shown)
    <3>1. /\ Shows(shown, ":") \in Seq(Char) /\ TimeIn(Shows(shown, ":")) = {shown}
          /\ Given(Shows(shown, ":")) /\ Len(Shows(shown, ":")) = 8
      BY <2>1, ShownTimeRead, Zenon DEF Given
    <3>2. Take(text, 8) = Shows(shown, ":")
      BY <2>1, <3>1, AlarmFollowed, Zenon DEF AlarmAt
    <3> QED BY <3>1, <3>2, Zenon
  <2> QED BY <1>1, <1>2, <2>1, Zenon
<1>4. ASSUME Calls(Refused) PROVE ArgumentsInv'
  <2>1. done' = Refused /\ command' = command /\ shown' = shown
    BY <1>4, CallsIs, Zenon
  <2>2. done'.to = "help"
    BY <2>1, RefusedIs, Zenon
  <2>3. CallTyped'
    BY <2>2, Zenon DEF CallTyped
  <2>4. ShownSetsItself'
    BY <1>1, <2>1, Zenon DEF ShownSetsItself, Refused, Call
  <2>5. DigitSetsPriority'
    BY <1>1, <2>1, Zenon DEF DigitSetsPriority
  <2> QED BY <1>1, <1>4, <2>3, <2>4, <2>5, CallsKeep, Zenon
<1>5. ASSUME NEW t \in TimeIn(Take(text, 8)), Calls(Call("alarm_create", t))
      PROVE  ArgumentsInv'
  <2>1. done' = Call("alarm_create", t) /\ command' = command /\ shown' = shown
    BY <1>5, CallsIs, Zenon
  <2>2. done'.to = "alarm_create" /\ done'.value = t
    BY <2>1, CallIs, Zenon
  <2>3. CallTyped'
    <3>1. t \in (0 .. 23) \X (0 .. 59) \X (0 .. 59)
      BY <1>5, Zenon DEF TimeIn
    <3> QED BY <2>2, <3>1, Zenon DEF CallTyped
  <2>4. ShownSetsItself'
    <3>1. shown # Nothing => t = shown
      BY <1>3, Zenon
    <3> QED BY <1>1, <2>1, <2>2, <3>1, Zenon DEF ShownSetsItself, Nothing
  <2>5. DigitSetsPriority'
    BY <1>1, <2>1, Zenon DEF DigitSetsPriority
  <2> QED BY <1>1, <1>5, <2>3, <2>4, <2>5, CallsKeep, Zenon
<1> QED BY <1>1, <1>4, <1>5, Zenon

\* A place that is not among the first n is behind them.
LEMMA NotBefore ==
  \A L \in Nat : \A n \in 1 .. L : \A y \in 2 .. L : y \notin 1 .. n => n + 1 <= y
OBVIOUS

\* The places of a text of two characters.
LEMMA OneTwo == 1 \in 1 .. 2 /\ 2 \in 1 .. 2 /\ \A k \in 1 .. (2 - 1) : k = 1
OBVIOUS

\* Of a name without blanks, a blank and a digit, the digit is read.
LEMMA DigitRead ==
  ASSUME NEW s \in Seq(Char), NEW n \in 1 .. (Len(s) - 2), Len(s) = n + 2,
         " " \notin Range(Take(s, n)), s[n + 1] = " ", s[n + 2] \in Digits
  PROVE  LET spaces == {k \in 2 .. Len(s) : s[k] = " "}
             numArg == From(s, Min(spaces))
         IN  /\ spaces # {} /\ Min(spaces) - 1 = n
             /\ IsNumber(numArg) /\ atoi(numArg) = CodeOf[s[n + 2]] - CodeOf["0"]
<1> DEFINE spaces == {k \in 2 .. Len(s) : s[k] = " "}
           m == n + 1
           u == From(s, m)
<1>1. /\ Len(s) \in Nat /\ n \in 1 .. Len(s) /\ m \in 2 .. Len(s) /\ m \in 1 .. (Len(s) + 1)
      /\ Len(s) + 1 - m = 2 /\ m \in Nat /\ m - 1 = n /\ m + 1 - 1 = n + 1
      /\ m + 2 - 1 = n + 2
  <2>1. s \in Seq(Char)
    OBVIOUS
  <2>2. Len(s) \in Nat
    BY ONLY <2>1
  <2>3. n \in 1 .. (Len(s) - 2)
    OBVIOUS
  <2>4. Len(s) = n + 2
    OBVIOUS
  <2> QED BY ONLY <2>2, <2>3, <2>4
<1>2. ASSUME NEW k \in 1 .. n PROVE s[k] # " "
  <2> DEFINE v == Take(s, n)
  <2>1. v = SubSeq(s, 1, n)
    <3>1. (IF n < Len(s) THEN n ELSE Len(s)) = n
      BY ONLY <1>1
    <3> QED BY <3>1, Zenon DEF Take
  <2>2. \A i \in 1 .. n : s[i] \in Char
    <3>1. s \in Seq(Char)
      OBVIOUS
    <3>2. \A i \in 1 .. Len(s) : s[i] \in Char
      BY ONLY <3>1
    <3>3. \A i \in 1 .. n : i \in 1 .. Len(s)
      BY ONLY <1>1
    <3> QED BY <3>2, <3>3, Zenon
  <2>3. /\ v \in Seq(Char) /\ Len(v) = n /\ \A i \in 1 .. n : v[i] = s[i]
    <3>1. 1 \in Int /\ n \in Int /\ 1 <= n /\ n - 1 + 1 = n
          /\ \A i \in 1 .. n : 1 + i - 1 = i
      BY ONLY <1>1
    <3>2. /\ SubSeq(s, 1, n) \in Seq(Char)
          /\ Len(SubSeq(s, 1, n)) = IF 1 <= n THEN n - 1 + 1 ELSE 0
          /\ \A i \in 1 .. (n - 1 + 1) : SubSeq(s, 1, n)[i] = s[1 + i - 1]
      BY ONLY <2>2, <3>1, SubSeqProperties
    <3> QED BY <2>1, <3>1, <3>2, Zenon
  <2> HIDE DEF v
  <2>4. DOMAIN v = 1 .. n
    <3>1. v \in Seq(Char)
      BY <2>3, Zenon
    <3>2. DOMAIN v = 1 .. Len(v)
      BY ONLY <3>1
    <3> QED BY <2>3, <3>2, Zenon
  <2>5. " " \notin Range(v)
    BY Zenon DEF v
  <2> QED BY <1>2, <2>3, <2>4, <2>5, Zenon DEF Range
<1>3. m \in spaces
  BY <1>1, Zenon
<1>4. \A y \in spaces : m <= y
  <2>1. SUFFICES ASSUME NEW y \in spaces PROVE m <= y
    BY Zenon
  <2>2. y \in 2 .. Len(s) /\ s[y] = " "
    BY <2>1, Zenon
  <2>3. y \notin 1 .. n
    BY <1>2, <2>2, Zenon
  <2>4. y \in 2 .. Len(s)
    BY <2>2, Zenon
  <2>5. Len(s) \in Nat /\ n \in 1 .. Len(s)
    BY <1>1, Zenon
  <2> QED BY <2>3, <2>4, <2>5, NotBefore, Zenon
<1> HIDE DEF spaces
<1>5. Min(spaces) = m
  <2> DEFINE x == Min(spaces)
  <2>1. x \in spaces /\ \A y \in spaces : x <= y
    BY <1>3, <1>4, Zenon DEF Min
  <2>2. x \in Nat
    <3>1. x \in 2 .. Len(s)
      BY <2>1, Zenon DEF spaces
    <3> QED BY ONLY <3>1
  <2>3. x <= m /\ m <= x
    BY <1>3, <1>4, <2>1, Zenon
  <2> HIDE DEF x
  <2>4. x = m
    BY ONLY <1>1, <2>2, <2>3
  <2> QED BY <2>4, Zenon DEF x
<1>6. /\ u \in Seq(Char) /\ Len(u) = 2 /\ u[1] = s[n + 1] /\ u[2] = s[n + 2]
  <2>1. s \in Seq(Char)
    OBVIOUS
  <2>2. m \in 1 .. (Len(s) + 1)
    BY <1>1, Zenon
  <2> HIDE DEF m
  <2>3. /\ u \in Seq(Char) /\ Len(u) = Len(s) + 1 - m
        /\ \A j \in 1 .. (Len(s) + 1 - m) : u[j] = s[m + j - 1]
    BY ONLY <2>1, <2>2, FromIs DEF u
  <2> QED BY <1>1, <2>3, OneTwo, Zenon
<1> HIDE DEF u
<1>7. atoi(u) = CodeOf[s[n + 2]] - CodeOf["0"]
  <2>1. u[1] \in Spaces
    <3>1. u[1] = " "
      BY <1>6, Zenon
    <3> QED BY <3>1, SignsAreChars, Zenon DEF Spaces, isspace
  <2>2. u[2] \in Digits
    BY <1>6, Zenon
  <2> QED BY <1>6, <2>1, <2>2, AtoiSpaceDigit, Zenon DEF Value
<1>8. IsNumber(u)
  <2>1. u[1] = " "
    BY <1>6, Zenon
  <2>2. \A k \in 1 .. (Len(u) - 1) : u[k] = " "
    BY <1>6, <2>1, OneTwo, Zenon
  <2> QED BY <2>2, Zenon DEF IsNumber, IsDigitOrSpace
<1> QED BY <1>1, <1>3, <1>5, <1>7, <1>8, Zenon DEF spaces, u

\* priority set.
LEMMA SetPriorityCommandStep ==
  ASSUME ArgumentsInv, SetPriorityCommand
  PROVE  ArgumentsInv'
<1> DEFINE spaces == {k \in 2 .. Len(text) : text[k] = " "}
           numArg == From(text, Min(spaces))
           call == Call("setPriority", <<Take(text, Min(spaces) - 1), atoi(numArg)>>)
<1>1. /\ stage = "command" /\ command = "priority set"
      /\ \/ spaces # {} /\ IsNumber(numArg) /\ Calls(call)
         \/ ~ (spaces # {} /\ IsNumber(numArg)) /\ Calls(Refused)
  BY Zenon DEF SetPriorityCommand, Handles
<1>2. text \in Seq(Char) /\ shown = Nothing
  BY <1>1, Zenon DEF ArgumentsInv, CommandInv
<1>3. ASSUME NEW n \in 1 .. (Len(text) - 2), Len(text) = n + 2,
             " " \notin Range(Take(text, n)), text[n + 1] = " ", text[n + 2] \in Digits
      PROVE  /\ spaces # {} /\ IsNumber(numArg)
             /\ call = Call("setPriority",
                            <<Take(text, n), CodeOf[text[n + 2]] - CodeOf["0"]>>)
  <2>1. /\ spaces # {} /\ Min(spaces) - 1 = n
        /\ IsNumber(numArg) /\ atoi(numArg) = CodeOf[text[n + 2]] - CodeOf["0"]
    BY <1>2, <1>3, DigitRead, Zenon
  <2> QED BY <2>1, Zenon
<1>4. call.to = "setPriority"
  BY CallIs, Zenon
<1> HIDE DEF spaces, numArg, call
<1>5. ASSUME NEW c, c = call \/ c = Refused, Calls(c) PROVE CallTyped' /\ ShownSetsItself'
  <2>1. done' = c /\ shown' = shown
    BY <1>5, CallsIs, Zenon
  <2>2. done'.to \in {"setPriority", "help"}
    BY <1>4, <1>5, <2>1, RefusedIs, Zenon
  <2> QED BY <1>2, <2>1, <2>2, Zenon DEF CallTyped, ShownSetsItself, Nothing
<1>6. ASSUME spaces # {}, IsNumber(numArg), Calls(call) PROVE ArgumentsInv'
  <2>1. done' = call /\ text' = text
    BY <1>6, CallsIs, Zenon
  <2>2. DigitSetsPriority'
    BY <1>3, <2>1, Zenon DEF DigitSetsPriority, Call
  <2> QED BY <1>1, <1>5, <1>6, <2>2, CallsKeep, Zenon
<1>7. ASSUME ~ (spaces # {} /\ IsNumber(numArg)), Calls(Refused) PROVE ArgumentsInv'
  <2>1. done' = Refused /\ text' = text
    BY <1>7, CallsIs, Zenon
  <2>2. DigitSetsPriority'
    BY <1>3, <1>7, <2>1, Zenon DEF DigitSetsPriority
  <2> QED BY <1>1, <1>5, <1>7, <2>2, CallsKeep, Zenon
<1> QED BY <1>1, <1>6, <1>7, Zenon

\* The commands with no number in their arguments; a line typed after the clock
\* has none of them.
LEMMA OtherCommandStep ==
  ASSUME ArgumentsInv, OtherCommand
  PROVE  ArgumentsInv'
<1>1. /\ stage = "command" /\ Calls(Call(command, <<>>))
      /\ \/ command \notin {"clock", "alarm", "priority set"}
         \/ /\ command = "clock"
            /\ strncmp(text, SetTime, 9) # 0 /\ strncmp(text, SetDate, 9) # 0
  BY Zenon DEF OtherCommand, Begins
<1>2. /\ \/ shown = Nothing
         \/ shown \in Times /\ command = "clock" /\ text = ClockTime(shown)
         \/ shown \in Times /\ command = "alarm" /\ text = AlarmAt(shown)
         \/ shown \in Dates /\ command = "clock" /\ text = ClockDate(shown)
  BY <1>1, Zenon DEF ArgumentsInv, CommandInv
<1>3. shown = Nothing
  <2>1. ASSUME shown \in Times, text = ClockTime(shown) PROVE strncmp(text, SetTime, 9) = 0
    BY <2>1, ShownTimeRead, NameFollowed, Zenon DEF ClockTime, Given
  <2>2. ASSUME shown \in Dates, text = ClockDate(shown) PROVE strncmp(text, SetDate, 9) = 0
    BY <2>2, ShownDateRead, NameFollowed, Zenon DEF ClockDate, Given
  <2> QED BY <1>1, <1>2, <2>1, <2>2, Zenon
<1>4. done' = Call(command, <<>>) /\ shown' = shown /\ command' = command
  BY <1>1, CallsIs, Zenon
<1>5. done'.to = command
  BY <1>4, CallIs, Zenon
<1>6. CallTyped'
  <2>1. command \in Range(Keyword) \cup {"none"}
    BY Zenon DEF ArgumentsInv, TypeOK
  <2>2. command \notin {"set_time", "alarm_create", "set_date"}
    BY <2>1, KeywordsAreNot, Zenon
  <2> QED BY <1>5, <2>2, Zenon DEF CallTyped
<1>7. ShownSetsItself'
  BY <1>3, <1>4, Zenon DEF ShownSetsItself, Nothing
<1>8. DigitSetsPriority'
  BY <1>1, <1>4, Zenon DEF DigitSetsPriority
<1> QED BY <1>1, <1>6, <1>7, <1>8, CallsKeep, Zenon


\* The line as it is typed.
LEMMA TypesStep ==
  ASSUME ArgumentsInv, Prompt, NEW line, NEW what, Types(line, what),
         line \in Seq(Char),
         \/ what = Nothing
         \/ what \in Times /\ line = Chars("clock ") \o ClockTime(what)
         \/ what \in Times /\ line = Chars("alarm ") \o AlarmAt(what)
         \/ what \in Dates /\ line = Chars("clock ") \o ClockDate(what)
  PROVE  ArgumentsInv'
<1>1. /\ stage = "prompt" /\ command' = command /\ done' = done /\ words' = words
      /\ stage' = "line" /\ text' = line /\ shown' = what
  BY Zenon DEF Prompt, Types
<1>2. TypeOK'
  BY <1>1, Zenon DEF ArgumentsInv, TypeOK
<1>3. LineInv'
  BY <1>1, Zenon DEF LineInv
<1>4. CommandInv' /\ PrintedInv' /\ WordsInv' /\ ShownSetsItself' /\ DigitSetsPriority'
  BY <1>1, Zenon DEF CommandInv, PrintedInv, WordsInv, ShownSetsItself, DigitSetsPriority
<1> QED BY <1>2, <1>3, <1>4, Zenon DEF ArgumentsInv

\* A text from its first place on is the text.
LEMMA FromFirst ==
  ASSUME NEW s \in Seq(Char)
  PROVE  From(s, 1) = s
<1> DEFINE u == From(s, 1)
<1>1. s \in Seq(Char)
  OBVIOUS
<1>2. Len(s) \in Nat
  BY ONLY <1>1
<1>3. 1 \in 1 .. (Len(s) + 1) /\ Len(s) + 1 - 1 = Len(s)
      /\ \A j \in 1 .. Len(s) : 1 + j - 1 = j
  BY ONLY <1>2
<1>4. /\ u \in Seq(Char) /\ Len(u) = Len(s) + 1 - 1
      /\ \A j \in 1 .. (Len(s) + 1 - 1) : u[j] = s[1 + j - 1]
  BY <1>1, <1>3, FromIs, Zenon
<1> HIDE DEF u
<1>5. u \in Seq(Char)
  BY <1>4, Zenon
<1>6. Len(u) = Len(s)
  BY <1>3, <1>4, Zenon
<1>7. ASSUME NEW j \in 1 .. Len(u) PROVE u[j] = s[j]
  <2>1. j \in 1 .. Len(s) /\ j \in 1 .. (Len(s) + 1 - 1)
    BY <1>3, <1>6, Zenon
  <2>2. u[j] = s[1 + j - 1] /\ 1 + j - 1 = j
    BY <1>3, <1>4, <2>1, Zenon
  <2> QED BY <2>2, Zenon
<1>8. u = s
  BY ONLY <1>1, <1>5, <1>6, <1>7, SeqEqual
<1> QED BY <1>8, Zenon DEF u

\* A call of strtok.
LEMMA StrtokStep ==
  ASSUME ArgumentsInv, NEW s \in Seq(Char), NEW n \in 0 .. Len(s), NEW rest,
         Behind(s, n, rest), words = WordsTo(s)[n], Strtok(rest), shown' = s,
         command' = command, done' = done
  PROVE  ArgumentsInv'
<1> DEFINE r == strtok(rest, Delimiters)
<1>1. /\ text' = r.rest
      /\ \/ r.word = NoText /\ stage' = "words end" /\ words' = words
         \/ r.word # NoText /\ stage' = "words" /\ words' = Append(words, r.word)
  BY Zenon DEF Strtok
<1>2. \/ r.word = NoText /\ WordsTo(s)[Len(s)] = WordsTo(s)[n]
      \/ /\ r.word # NoText
         /\ \E m \in 0 .. Len(s) :
              /\ WordsTo(s)[m] = Append(WordsTo(s)[n], r.word)
              /\ Behind(s, m, r.rest)
  BY StrtokNext, Zenon
<1> HIDE DEF r
<1>3. stage' \in {"words", "words end"}
  BY <1>1, Zenon
<1>4. TypeOK'
  BY <1>3, Zenon DEF ArgumentsInv, TypeOK
<1>5. LineInv' /\ CommandInv' /\ PrintedInv' /\ ShownSetsItself' /\ DigitSetsPriority'
  BY <1>3, Zenon DEF LineInv, CommandInv, PrintedInv, ShownSetsItself, DigitSetsPriority
<1>6. WordsInv'
  <2>1. CASE stage' = "words end"
    <3>1. r.word = NoText /\ words' = words
      BY <1>1, <2>1, Zenon
    <3>2. words' = WordsTo(s)[Len(s)]
      BY <1>2, <3>1, Zenon
    <3>3. stage' # "prompt" /\ stage' # "words"
      BY <2>1, Zenon
    <3>4. WordsTo(shown)' = WordsTo(s)
      OBVIOUS
    <3> QED BY <3>2, <3>3, <3>4, Zenon DEF WordsInv
  <2>2. CASE stage' = "words"
    <3>1. r.word # NoText /\ words' = Append(words, r.word) /\ text' = r.rest
      BY <1>1, <2>2, Zenon
    <3>2. PICK m \in 0 .. Len(s) :
                 /\ WordsTo(s)[m] = Append(WordsTo(s)[n], r.word)
                 /\ Behind(s, m, r.rest)
      BY <1>2, <3>1, Zenon
    <3>3. words' = WordsTo(s)[m] /\ Behind(s, m, text')
      BY <3>1, <3>2, Zenon
    <3>4. stage' # "prompt" /\ stage' # "words end"
      BY <2>2, Zenon
    <3>5. WordsTo(shown)' = WordsTo(s) /\ Behind(shown, m, text)' = Behind(s, m, text')
      OBVIOUS
    <3>6. /\ shown' \in Seq(Char)
          /\ \E k \in 0 .. Len(shown') :
               words' = WordsTo(shown)'[k] /\ Behind(shown, k, text)'
      BY <3>2, <3>3, <3>5, Zenon
    <3> QED BY <3>4, <3>6, Zenon DEF WordsInv
  <2> QED BY <1>3, <2>1, <2>2, Zenon
<1> QED BY <1>4, <1>5, <1>6, Zenon DEF ArgumentsInv

(***************************************************************************)
(* The invariant is inductive.                                             *)
(***************************************************************************)
LEMMA InitHolds == Init => ArgumentsInv
<1>1. SUFFICES ASSUME Init PROVE ArgumentsInv
  OBVIOUS
<1>2. /\ stage = "prompt" /\ command = "none" /\ done = Call("none", <<>>)
      /\ words = <<>>
  BY <1>1, Zenon DEF Init
<1>3. done.to = "none"
  BY <1>2, CallIs, Zenon
<1>4. TypeOK
  BY <1>2, <1>3, Zenon DEF TypeOK
<1>5. LineInv /\ CommandInv /\ PrintedInv /\ WordsInv /\ ShownSetsItself
      /\ DigitSetsPriority
  BY <1>2, Zenon DEF LineInv, CommandInv, PrintedInv, WordsInv, ShownSetsItself,
                     DigitSetsPriority
<1> QED BY <1>4, <1>5, Zenon DEF ArgumentsInv

\* Every step keeps the inductive invariant.
LEMMA NextKeeps == ArgumentsInv /\ [Next]_vars => ArgumentsInv'
<1>1. SUFFICES ASSUME ArgumentsInv, [Next]_vars PROVE ArgumentsInv'
  OBVIOUS
<1>2. CASE TypeLine
  <2>1. PICK line \in Lines : Prompt /\ Types(line, Nothing)
    BY <1>2, Zenon DEF TypeLine
  <2>2. line \in Seq(Char)
    BY TextsAssumption
  <2> QED BY <1>1, <2>1, <2>2, TypesStep, Zenon
<1>3. CASE TypeTime
  <2>1. PICK t \in Times :
          /\ Prompt
          /\ \/ Types(Chars("clock ") \o SetTime \o Shows(t, ":"), t)
             \/ Types(Chars("alarm ") \o Shows(t, ":") \o Chars(" x"), t)
    BY <1>3, Zenon DEF TypeTime
  <2>2. \/ Types(Chars("clock ") \o ClockTime(t), t)
        \/ Types(Chars("alarm ") \o AlarmAt(t), t)
    BY <2>1, TimeTyped, Zenon
  <2>3. /\ Chars("clock ") \o ClockTime(t) \in Seq(Char)
        /\ Chars("alarm ") \o AlarmAt(t) \in Seq(Char)
    BY TimeTyped, LineTyped, Zenon
  <2> QED BY <1>1, <2>1, <2>2, <2>3, TypesStep, Zenon
<1>4. CASE TypeDate
  <2>1. PICK d \in Dates :
          Prompt /\ Types(Chars("clock ") \o SetDate \o Shows(d, "/"), d)
    BY <1>4, Zenon DEF TypeDate
  <2>2. Types(Chars("clock ") \o ClockDate(d), d)
    BY <2>1, DateTyped, Zenon
  <2>3. Chars("clock ") \o ClockDate(d) \in Seq(Char)
    BY DateTyped, LineTyped, Zenon
  <2> QED BY <1>1, <2>1, <2>2, <2>3, TypesStep, Zenon
<1>5. CASE PrintNumber
  <2>1. PICK n \in Numbers :
          /\ shown' = <<n>> /\ command' = command /\ done' = done
          /\ \/ text' = itoa(n) /\ stage' = "number"
             \/ text' = itoBCD(n) /\ stage' = "groups"
    BY <1>5, Zenon DEF PrintNumber, Prompt
  <2>2. stage' \in {"number", "groups"}
    BY <2>1, Zenon
  <2>3. TypeOK'
    BY <1>1, <2>1, <2>2, Zenon DEF ArgumentsInv, TypeOK
  <2>4. PrintedInv'
    BY <2>1, Zenon DEF PrintedInv
  <2>5. LineInv' /\ CommandInv' /\ WordsInv' /\ ShownSetsItself' /\ DigitSetsPriority'
    BY <2>2, Zenon DEF LineInv, CommandInv, WordsInv, ShownSetsItself, DigitSetsPriority
  <2> QED BY <2>3, <2>4, <2>5, Zenon DEF ArgumentsInv
<1>6. CASE FirstWord
  <2>1. PICK s \in Phrases : /\ stage = "prompt" /\ Strtok(s) /\ shown' = s
                             /\ command' = command /\ done' = done
    BY <1>6, Zenon DEF FirstWord
  <2>2. s \in Seq(Char)
    BY TextsAssumption
  <2>3. words = WordsTo(s)[0]
    BY <1>1, <2>1, <2>2, WordsToIs, Zenon DEF ArgumentsInv, WordsInv
  <2>4. 0 \in 0 .. Len(s) /\ 0 + 1 = 1
    <3>1. Len(s) \in Nat
      BY ONLY <2>2
    <3> QED BY ONLY <3>1
  <2>5. Behind(s, 0, s)
    BY <2>2, <2>4, FromFirst, Zenon DEF Behind
  <2> QED BY <1>1, <2>1, <2>2, <2>3, <2>4, <2>5, StrtokStep, Zenon
<1>7. CASE NextWord
  <2>1. /\ stage = "words" /\ Strtok(text)
        /\ command' = command /\ shown' = shown /\ done' = done
    BY <1>7, Zenon DEF NextWord
  <2>2. shown \in Seq(Char)
    BY <1>1, <2>1, Zenon DEF ArgumentsInv, WordsInv
  <2>3. PICK n \in 0 .. Len(shown) : words = WordsTo(shown)[n] /\ Behind(shown, n, text)
    BY <1>1, <2>1, Zenon DEF ArgumentsInv, WordsInv
  <2> QED BY <1>1, <2>1, <2>2, <2>3, StrtokStep, Zenon
<1>8. CASE comhand
  <2>1. TypeOK /\ LineInv
    BY <1>1, Zenon DEF ArgumentsInv
  <2>2. stage' = "command" /\ done' = done
    BY <1>8, ComhandIs, Zenon
  <2>3. command' \in Range(Keyword) \cup {"none"} /\ CommandInv'
    BY <1>8, <2>1, ComhandStep, Zenon
  <2>4. TypeOK'
    BY <2>1, <2>2, <2>3, Zenon DEF TypeOK
  <2>5. LineInv' /\ PrintedInv' /\ WordsInv' /\ ShownSetsItself' /\ DigitSetsPriority'
    BY <2>2, Zenon DEF LineInv, PrintedInv, WordsInv, ShownSetsItself, DigitSetsPriority
  <2> QED BY <2>3, <2>4, <2>5, Zenon DEF ArgumentsInv
<1>9. CASE ClockSetTime
  BY <1>1, <1>9, ClockSetTimeStep, Zenon
<1>10. CASE ClockSetDate
  BY <1>1, <1>10, ClockSetDateStep, Zenon
<1>11. CASE AlarmCommand
  BY <1>1, <1>11, AlarmCommandStep, Zenon
<1>12. CASE SetPriorityCommand
  BY <1>1, <1>12, SetPriorityCommandStep, Zenon
<1>13. CASE OtherCommand
  BY <1>1, <1>13, OtherCommandStep, Zenon
<1>14. CASE Return
  <2>1. /\ stage' = "prompt" /\ command' = "none" /\ done' = Call("none", <<>>)
        /\ words' = <<>>
    BY <1>14, Zenon DEF Return
  <2>2. done'.to = "none"
    BY <2>1, CallIs, Zenon
  <2>3. TypeOK'
    BY <2>1, <2>2, Zenon DEF TypeOK
  <2>4. LineInv' /\ CommandInv' /\ PrintedInv' /\ WordsInv' /\ ShownSetsItself'
        /\ DigitSetsPriority'
    BY <2>1, Zenon DEF LineInv, CommandInv, PrintedInv, WordsInv, ShownSetsItself,
                       DigitSetsPriority
  <2> QED BY <2>3, <2>4, Zenon DEF ArgumentsInv
<1>15. CASE UNCHANGED vars
  <2>1. /\ stage' = stage /\ text' = text /\ command' = command /\ shown' = shown
        /\ done' = done /\ words' = words
    BY <1>15, Zenon DEF vars
  <2>2. WordsTo(shown)' = WordsTo(shown)
        /\ \A n : Behind(shown, n, text)' = Behind(shown, n, text)
    BY <2>1
  <2>3. TypeOK'
    <3>1. TypeOK
      BY <1>1, Zenon DEF ArgumentsInv
    <3>2. stage' \in {"prompt", "line", "command", "done", "number", "groups",
                     "words", "words end"}
      BY <2>1, <3>1, Zenon DEF TypeOK
    <3>3. command' \in Range(Keyword) \cup {"none"}
      BY <2>1, <3>1, Zenon DEF TypeOK
    <3>4. CallTyped'
      BY <2>1, <3>1, Zenon DEF TypeOK, CallTyped
    <3> QED BY <3>2, <3>3, <3>4, Zenon DEF TypeOK, CallTyped
  <2>4. LineInv'
    BY <1>1, <2>1, Zenon DEF ArgumentsInv, LineInv
  <2>5. CommandInv'
    BY <1>1, <2>1, Zenon DEF ArgumentsInv, CommandInv
  <2>6. PrintedInv' /\ ShownSetsItself' /\ DigitSetsPriority'
    BY <1>1, <2>1, Zenon DEF ArgumentsInv, PrintedInv, ShownSetsItself, DigitSetsPriority
  <2>7. WordsInv'
    BY <1>1, <2>1, <2>2, Zenon DEF ArgumentsInv, WordsInv
  <2> QED BY <2>3, <2>4, <2>5, <2>6, <2>7, Zenon DEF ArgumentsInv
<1> QED BY <1>1, <1>2, <1>3, <1>4, <1>5, <1>6, <1>7, <1>8, <1>9, <1>10, <1>11, <1>12,
           <1>13, <1>14, <1>15, Zenon DEF Next

(***************************************************************************)
(* So it holds in every state: the lines, what is printed, the words, and  *)
(* the three properties it contains.                                       *)
(***************************************************************************)
THEOREM ArgumentsInvariance == Spec => []ArgumentsInv
BY InitHolds, NextKeeps, PTL DEF Spec

(***************************************************************************)
(* The types (TypeOK): whatever the user types, what clock set and alarm   *)
(* pass on is a time or a date.                                            *)
(***************************************************************************)
THEOREM ArgumentsTypes == Spec => []TypeOK
<1>1. ArgumentsInv => TypeOK
  BY Zenon DEF ArgumentsInv
<1> QED BY <1>1, ArgumentsInvariance, PTL

(***************************************************************************)
(* A time or date that print_time or print_date shows, typed again after   *)
(* clock set or alarm, is the one that is set: for every time of the day   *)
(* and every date of a century.                                            *)
(***************************************************************************)
THEOREM ShownIsSet == Spec => []ShownSetsItself
<1>1. ArgumentsInv => ShownSetsItself
  BY Zenon DEF ArgumentsInv
<1> QED BY <1>1, ArgumentsInvariance, PTL

(***************************************************************************)
(* The two mistakes in the test of set_priority_command's number hide each *)
(* other: every digit sets its priority, behind any name without blanks.   *)
(***************************************************************************)
THEOREM EveryDigitSets == Spec => []DigitSetsPriority
<1>1. ArgumentsInv => DigitSetsPriority
  BY Zenon DEF ArgumentsInv
<1> QED BY <1>1, ArgumentsInvariance, PTL

(***************************************************************************)
(* strtok returns the words of the text, one call after the other, for     *)
(* every text and every set of delimiters.                                 *)
(***************************************************************************)
THEOREM WordsAreReturned == Spec => []TokensAreWords
<1>1. ArgumentsInv => TokensAreWords
  BY Zenon DEF ArgumentsInv, WordsInv, TokensAreWords
<1> QED BY <1>1, ArgumentsInvariance, PTL

(***************************************************************************)
(* What itoa prints atoi reads back, for every int that is not negative,   *)
(* whatever the (even) number of ints; what itoBCD prints of a number of   *)
(* two digits is its byte in BCD.                                          *)
(***************************************************************************)
THEOREM PrintedIsRead == Spec => []PrintedReadsBack
<1>1. ArgumentsInv => PrintedReadsBack
  <2>1. SUFFICES ASSUME ArgumentsInv PROVE PrintedReadsBack
    OBVIOUS
  <2>2. ASSUME stage = "number"
        PROVE  atoi(text) = shown[1] /\ (shown[1] <= 255 => Len(text) + 1 <= 4)
    <3>1. PICK n \in Numbers : shown = <<n>> /\ text = itoa(n)
      BY <2>1, <2>2, Zenon DEF ArgumentsInv, PrintedInv
    <3>2. n \in Nat /\ n < IntSize \div 2
      BY NumbersAssumption, WrapIs
    <3>3. /\ itoa(n) \in Seq(Digits) /\ Len(itoa(n)) = MaxPowerOf[n] + 1
          /\ atoi(itoa(n)) = n
      BY <3>2, Printed
    <3>4. <<n>>[1] = n
      OBVIOUS
    <3>5. shown[1] = n
      BY <3>1, <3>4, Zenon
    <3>6. n <= 255 => Len(itoa(n)) + 1 <= 4
      <4>1. n <= 255 => n \in 0 .. 999
        BY ONLY <3>2
      <4>2. n <= 255 => MaxPowerOf[n] <= 2
        BY ONLY <4>1, PrintedLength, Zenon
      <4>3. MaxPowerOf[n] \in Nat
        BY <3>2, MaxPowerIs, Zenon
      <4>4. Len(itoa(n)) = MaxPowerOf[n] + 1
        BY <3>3, Zenon
      <4> QED BY ONLY <4>2, <4>3, <4>4
    <3> QED BY <3>1, <3>3, <3>5, <3>6, Zenon
  <2>3. ASSUME stage = "groups", shown[1] < 100
        PROVE  BinaryOf(text) = (shown[1] \div 10) * 16 + (shown[1] % 10)
    <3>1. PICK n \in Numbers : shown = <<n>> /\ text = itoBCD(n)
      BY <2>1, <2>3, Zenon DEF ArgumentsInv, PrintedInv
    <3>2. n \in Nat
      BY NumbersAssumption
    <3>3. <<n>>[1] = n
      OBVIOUS
    <3>4. shown[1] = n /\ n < 100
      BY <2>3, <3>1, <3>3, Zenon
    <3>5. n < 100
      BY <3>4, Zenon
    <3>6. n \in 0 .. 99
      BY ONLY <3>2, <3>5
    <3> QED BY <3>1, <3>4, <3>6, GroupsRead, Zenon
  <2> QED BY <2>2, <2>3, Zenon DEF PrintedReadsBack
<1> QED BY <1>1, ArgumentsInvariance, PTL

(***************************************************************************)
(* comhand runs a command exactly when the line begins with its name, for  *)
(* every line.                                                             *)
(***************************************************************************)
THEOREM CommandIsNamed == Spec => CommandByName
<1> DEFINE ByName ==
      stage = "line" =>
        \A k \in DOMAIN Keyword : (command' = Keyword[k]) = IsPrefix(Keywords[k], text)
<1>1. ArgumentsInv /\ [Next]_vars => [ByName]_vars
  <2>1. SUFFICES ASSUME ArgumentsInv, Next, stage = "line", NEW k \in DOMAIN Keyword
                 PROVE  (command' = Keyword[k]) = IsPrefix(Keywords[k], text)
    BY Zenon
  <2>2. comhand
    BY <2>1, Zenon DEF Next, TypeLine, TypeTime, TypeDate, PrintNumber, Prompt, FirstWord,
         NextWord, ClockSetTime, ClockSetDate, ClockSet, AlarmCommand,
         SetPriorityCommand, Handles, OtherCommand, Return
  <2>3. text \in Seq(Char)
    BY <2>1, Zenon DEF ArgumentsInv, LineInv
  <2>4. k \in 1 .. 17
    BY KeywordAt, Zenon
  <2> DEFINE m == Min(Tried(text))
  <2>5. /\ k \in Tried(text) <=> IsPrefix(Keywords[k], text)
        /\ \A i, j \in Tried(text) : i = j
        /\ Tried(text) # {} => m \in Tried(text) /\ m \in 1 .. 17
    BY <2>3, <2>4, OneName, Zenon
  <2>6. \/ Tried(text) = {} /\ command' = "none"
        \/ Tried(text) # {} /\ command' = Keyword[m]
    BY <2>2, ComhandIs, Zenon
  <2> HIDE DEF m
  <2>7. command' = Keyword[k] <=> k \in Tried(text)
    <3>1. CASE Tried(text) = {}
      <4>1. Keyword[k] # "none"
        <5>1. Keyword[k] \in Range(Keyword)
          BY Zenon DEF Range
        <5> QED BY <5>1, KeywordsAreNot, Zenon
      <4> QED BY <2>6, <3>1, <4>1, Zenon
    <3>2. CASE Tried(text) # {}
      <4>1. Keyword[m] = Keyword[k] <=> m = k
        BY <2>4, <2>5, <3>2, KeywordsAre, Zenon
      <4>2. m = k <=> k \in Tried(text)
        BY <2>5, <3>2, Zenon
      <4> QED BY <2>6, <3>2, <4>1, <4>2, Zenon
    <3> QED BY <3>1, <3>2, Zenon
  <2>8. command' = Keyword[k] <=> IsPrefix(Keywords[k], text)
    BY <2>5, <2>7, Zenon
  <2> QED BY <2>8, Zenon DEF IsPrefix
<1>2. Spec => [][ByName]_vars
  BY <1>1, ArgumentsInvariance, PTL DEF Spec
<1> QED BY <1>2, Zenon DEF CommandByName

=============================================================================
