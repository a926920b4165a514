-------------------------- MODULE LineEditorProofs --------------------------
(***************************************************************************)
(* The line editor keeps its three copies of the line - the buffer, its    *)
(* length and the screen - in step, for buffers of every size and every    *)
(* set of keys.                                                            *)
(***************************************************************************)
EXTENDS LineEditor, SequenceTheorems, WellFoundedInduction, TLAPS

----------------------------------------------------------------------------
(***************************************************************************)
(* The inductive invariant.  A key of several bytes is read with room left *)
(* in the buffer.  As long as the line has been edited at its end only:    *)
(* the line is in the buffer, has no zero in it, is what the screen shows, *)
(* and the two cursors agree; a line that is returned ends with a zero.    *)
(* What endOfLine is after other editing, TypeOK bounds and no more.       *)
(***************************************************************************)
InStep ==
  /\ endOfLine \in InBuffer
  /\ \A i \in 0 .. endOfLine - 1 : buffer[i] # Nul
  /\ \A i \in 0 .. Size : term.cells[i] = IF i < endOfLine THEN buffer[i] ELSE Blank
  /\ term.at = index

Ended ==
  mode = "returned" =>
    /\ result \in {-1, endOfLine}
    /\ result >= 0 \/ index = endOfLine => buffer[endOfLine] = Nul

RoomForKey == mode \in {"after escape", "special", "tilde"} => index < Size - 1

EditorInv == /\ TypeOK
             /\ RoomForKey
             /\ ~inside => InStep /\ Ended

----------------------------------------------------------------------------
\* The order of the natural numbers, as the set of its pairs.
Below == {pair \in Nat \X Nat : pair[1] < pair[2]}

\* A set of naturals that is not empty has a least member.
LEMMA LeastExists ==
  ASSUME NEW S \in SUBSET Nat, S # {}
  PROVE  \E n \in S : \A i \in S : n <= i
<1>1. IsWellFoundedOn(Below, Nat)
  BY NatLessThanWellFounded, Zenon DEF IsWellFoundedOn, OpToRel, Below
<1>2. PICK n \in S : \A i \in S : <<i, n>> \notin Below
  BY <1>1, WFMin
<1>3. ASSUME NEW i \in S PROVE n <= i
  <2>1. n \in Nat /\ i \in Nat /\ <<i, n>> \notin Below
    BY <1>2
  <2> QED BY <2>1 DEF Below
<1> QED BY <1>3

\* The screens as After defines them, and as the proofs below read them.
Recursion(f, t, bytes, m) ==
  f = [n \in 0 .. m |-> IF n = 0 THEN t ELSE Put(f[n - 1], bytes[n])]

Screening(f, t, bytes) ==
  /\ f[0] = t
  /\ \A n \in 1 .. Len(bytes) : f[n] = Put(f[n - 1], bytes[n])
  /\ After(t, bytes) = f[Len(bytes)]

(***************************************************************************)
(* The recursive definition of After has a solution: no length of an       *)
(* initial piece of the bytes can be the least without one.                *)
(***************************************************************************)
LEMMA ScreensExist ==
  ASSUME NEW t, NEW bytes, NEW m \in Nat
  PROVE  \E f : Recursion(f, t, bytes, m)
<1> USE DEF Recursion
<1> DEFINE Good(f, k) == Recursion(f, t, bytes, k)
           D == {k \in Nat : ~ \E f : Good(f, k)}
<1>1. SUFFICES ASSUME D # {} PROVE FALSE
  OBVIOUS
<1>2. PICK k \in D : \A i \in D : k <= i
  <2>1. D \in SUBSET Nat
    OBVIOUS
  <2> HIDE DEF D
  <2> QED BY <1>1, <2>1, LeastExists
<1>3. k # 0
  <2>1. Good([n \in 0 .. 0 |-> t], 0)
    OBVIOUS
  <2> QED BY <1>2, <2>1
<1>4. k - 1 \in Nat /\ k - 1 \notin D
  <2>1. k \in Nat
    OBVIOUS
  <2>2. k - 1 \in Nat /\ ~(k <= k - 1)
    BY <1>3, <2>1
  <2> HIDE DEF D
  <2> QED BY <1>2, <2>2
<1>5. PICK f : Good(f, k - 1)
  BY <1>4
<1> DEFINE g == [n \in 0 .. k |-> IF n = k THEN Put(f[k - 1], bytes[k]) ELSE f[n]]
<1>6. \A n \in 0 .. k - 1 : f[n] = IF n = 0 THEN t ELSE Put(f[n - 1], bytes[n])
  <2> DEFINE h == [n \in 0 .. k - 1 |-> IF n = 0 THEN t ELSE Put(f[n - 1], bytes[n])]
  <2>1. f = h
    BY <1>5
  <2>2. \A n \in 0 .. k - 1 : h[n] = IF n = 0 THEN t ELSE Put(f[n - 1], bytes[n])
    OBVIOUS
  <2> HIDE DEF h, Good
  <2> QED BY <2>1, <2>2
<1> HIDE DEF Good
<1>7. \A n \in 0 .. k : g[n] = IF n = 0 THEN t ELSE Put(g[n - 1], bytes[n])
  <2> SUFFICES ASSUME NEW n \in 0 .. k
               PROVE  g[n] = IF n = 0 THEN t ELSE Put(g[n - 1], bytes[n])
    OBVIOUS
  <2>1. CASE n = k
    <3>1. k - 1 \in 0 .. k /\ k - 1 # k
      BY <1>4
    <3> QED BY <1>3, <2>1, <3>1
  <2>2. CASE n # k
    <3>1. n \in 0 .. k - 1 /\ (n # 0 => n - 1 \in 0 .. k /\ n - 1 # k)
      BY <1>4, <2>2
    <3> QED BY <1>6, <2>2, <3>1
  <2> QED BY <2>1, <2>2
<1>8. Good(g, k)
  BY <1>7 DEF Good
<1> QED BY <1>2, <1>8

(***************************************************************************)
(* What a terminal has received it has received byte by byte: it goes      *)
(* through screens of which each is the one before with one byte more.     *)
(***************************************************************************)
LEMMA Screens ==
  ASSUME NEW t, NEW bytes, Len(bytes) \in Nat
  PROVE  \E f : Screening(f, t, bytes)
<1> DEFINE m == Len(bytes)
           Fits(f) == f = [n \in 0 .. m |-> IF n = 0 THEN t ELSE Put(f[n - 1], bytes[n])]
           c == CHOOSE f : Fits(f)
<1>1. Fits(c)
  <2>1. \E f : Recursion(f, t, bytes, m)
    BY ScreensExist
  <2>2. \E f : Fits(f)
    BY <2>1 DEF Recursion
  <2> HIDE DEF Fits
  <2> QED BY <2>2
<1>2. After(t, bytes) = c[m]
  BY DEF After
<1> HIDE DEF c
<1>3. \A n \in 0 .. m : c[n] = IF n = 0 THEN t ELSE Put(c[n - 1], bytes[n])
  <2> DEFINE h == [n \in 0 .. m |-> IF n = 0 THEN t ELSE Put(c[n - 1], bytes[n])]
  <2>1. c = h
    BY <1>1
  <2>2. \A n \in 0 .. m : h[n] = IF n = 0 THEN t ELSE Put(c[n - 1], bytes[n])
    OBVIOUS
  <2> HIDE DEF h, Fits
  <2> QED BY <2>1, <2>2
<1>4. c[0] = t
  BY <1>3
<1>5. \A n \in 1 .. m : c[n] = Put(c[n - 1], bytes[n])
  BY <1>3
<1> QED BY <1>2, <1>4, <1>5 DEF Screening

----------------------------------------------------------------------------
\* What each byte does to a terminal.
LEMMA PutEach ==
  ASSUME NEW t \in Terminal
  PROVE  /\ \A c \in Printable \cup {Blank} :
              Put(t, c) = [cells |-> [x \in Columns |-> IF x = t.at THEN c ELSE t.cells[x]],
                           at |-> IF t.at < Width THEN t.at + 1 ELSE t.at]
         /\ Put(t, Nul) = t
         /\ \A c \in {Backspace, CursorLeft} :
              Put(t, c) = [cells |-> t.cells, at |-> IF t.at > -6 THEN t.at - 1 ELSE t.at]
         /\ Put(t, CursorRight) = [cells |-> t.cells,
                                   at |-> IF t.at < Width THEN t.at + 1 ELSE t.at]
<1>1. /\ t = [cells |-> t.cells, at |-> t.at]
      /\ t.cells = [x \in Columns |-> t.cells[x]]
      /\ t.at \in Columns
  BY DEF Terminal
<1>2. \A c \in Printable \cup {Blank} : c \notin {Backspace, CursorLeft, CursorRight, Nul}
  BY EditorAssumption DEF Backspace, CursorLeft, CursorRight, Nul, Blank
<1>3. Nul \notin {Backspace, CursorLeft, CursorRight}
      /\ CursorRight \notin {Backspace, CursorLeft}
  BY DEF Backspace, CursorLeft, CursorRight, Nul
<1>4. ASSUME NEW c \in Printable \cup {Blank}
      PROVE  Put(t, c) = [cells |-> [x \in Columns |-> IF x = t.at THEN c ELSE t.cells[x]],
                          at |-> IF t.at < Width THEN t.at + 1 ELSE t.at]
  BY <1>1, <1>2 DEF Put
<1>5. Put(t, Nul) = t
  BY <1>3 DEF Put
<1>6. ASSUME NEW c \in {Backspace, CursorLeft}
      PROVE  Put(t, c) = [cells |-> t.cells, at |-> IF t.at > -6 THEN t.at - 1 ELSE t.at]
  BY <1>1, <1>3 DEF Put
<1>7. Put(t, CursorRight) = [cells |-> t.cells,
                             at |-> IF t.at < Width THEN t.at + 1 ELSE t.at]
  BY <1>1, <1>3 DEF Put
<1> QED BY <1>4, <1>5, <1>6, <1>7

\* The bytes the editor sends.
Sent == Printable \cup {Nul, Blank, Backspace, CursorLeft, CursorRight}

\* A terminal stays a terminal, whatever it receives.
LEMMA PutKeepsTerminal ==
  ASSUME NEW t \in Terminal, NEW c \in Sent
  PROVE  Put(t, c) \in Terminal
<1>1. /\ t.cells \in [Columns -> Printable \cup {Blank}] /\ t.at \in Columns
      /\ Width \in Nat /\ Columns = -6 .. Width
  BY EditorAssumption DEF Terminal, Columns, Width
<1>2. /\ (t.at < Width => t.at + 1 \in Columns)
      /\ (t.at > -6 => t.at - 1 \in Columns)
  BY <1>1
<1>3. CASE c \in Printable \cup {Blank}
  <2>1. [x \in Columns |-> IF x = t.at THEN c ELSE t.cells[x]]
          \in [Columns -> Printable \cup {Blank}]
    BY <1>1, <1>3
  <2> QED BY <1>1, <1>2, <1>3, <2>1, PutEach DEF Terminal
<1>4. CASE c = Nul
  BY <1>4, PutEach
<1>5. CASE c \in {Backspace, CursorLeft}
  BY <1>1, <1>2, <1>5, PutEach DEF Terminal
<1>6. CASE c = CursorRight
  BY <1>1, <1>2, <1>6, PutEach DEF Terminal
<1> QED BY <1>3, <1>4, <1>5, <1>6 DEF Sent

\* So it does when it has received any number of bytes.
LEMMA AfterKeepsTerminal ==
  ASSUME NEW t \in Terminal, NEW bytes, Len(bytes) \in Nat,
         \A n \in 1 .. Len(bytes) : bytes[n] \in Sent
  PROVE  After(t, bytes) \in Terminal
<1>1. PICK f : Screening(f, t, bytes)
  BY Screens
<1> USE DEF Screening
<1> DEFINE D == {n \in 0 .. Len(bytes) : f[n] \notin Terminal}
<1>2. SUFFICES ASSUME D # {} PROVE FALSE
  BY <1>1
<1>3. PICK n \in D : \A i \in D : n <= i
  <2>1. D \in SUBSET Nat
    OBVIOUS
  <2> HIDE DEF D
  <2> QED BY <1>2, <2>1, LeastExists
<1>4. n # 0
  BY <1>1, <1>3
<1>5. n \in 1 .. Len(bytes) /\ f[n - 1] \in Terminal
  BY <1>3, <1>4
<1>6. f[n] \in Terminal
  BY <1>1, <1>5, PutKeepsTerminal
<1> QED BY <1>3, <1>6

\* Few bytes, spelled out.
LEMMA AfterFew ==
  ASSUME NEW t, NEW bytes, Len(bytes) \in Nat
  PROVE  /\ Len(bytes) = 0 => After(t, bytes) = t
         /\ Len(bytes) = 1 => After(t, bytes) = Put(t, bytes[1])
         /\ Len(bytes) = 3 =>
              After(t, bytes) = Put(Put(Put(t, bytes[1]), bytes[2]), bytes[3])
<1>1. PICK f : Screening(f, t, bytes)
  BY Screens
<1> QED BY <1>1 DEF Screening

----------------------------------------------------------------------------
(***************************************************************************)
(* The bytes that close the gap at place i of a line of length e: the      *)
(* characters behind it, a blank, and the cursor back to i.                *)
(***************************************************************************)
Closing(b, i, e) ==
  [k \in 1 .. e - 1 - i |-> b[i + k]] \o <<Blank>> \o [k \in 1 .. e - i |-> CursorLeft]

\* The bytes one by one.
LEMMA ClosingBytes ==
  ASSUME NEW b \in [Near -> Printable \cup {Nul}],
         NEW i \in Nat, NEW e \in Near, i < e
  PROVE  /\ Len(Closing(b, i, e)) = 2 * (e - i)
         /\ \A n \in 1 .. 2 * (e - i) :
              Closing(b, i, e)[n] = IF n < e - i THEN b[i + n]
                                    ELSE IF n = e - i THEN Blank ELSE CursorLeft
<1> DEFINE A == [k \in 1 .. e - 1 - i |-> b[i + k]]
           B == <<Blank>>
           C == [k \in 1 .. e - i |-> CursorLeft]
           S == Printable \cup {Nul, Blank, CursorLeft}
<1>1. e \in Nat /\ e - 1 - i \in Nat /\ e - i \in Nat /\ 2 * (e - i) \in Nat
  BY EditorAssumption DEF Near
<1>2. A \in Seq(S) /\ Len(A) = e - 1 - i
  <2>1. \A k \in 1 .. e - 1 - i : i + k \in Near
    BY EditorAssumption DEF Near
  <2>2. A \in [1 .. e - 1 - i -> S]
    BY <2>1
  <2> QED BY <1>1, <2>2
<1>3. B \in Seq(S) /\ Len(B) = 1 /\ B[1] = Blank
  OBVIOUS
<1>4. C \in Seq(S) /\ Len(C) = e - i
  <2>1. C \in [1 .. e - i -> S]
    OBVIOUS
  <2> QED BY <1>1, <2>1
<1>5. /\ \A n \in 1 .. e - 1 - i : A[n] = b[i + n]
      /\ \A n \in 1 .. e - i : C[n] = CursorLeft
  OBVIOUS
<1> HIDE DEF A, B, C, S
<1>6. /\ A \o B \in Seq(S) /\ Len(A \o B) = e - i
      /\ \A n \in 1 .. e - i : (A \o B)[n] = IF n < e - i THEN b[i + n] ELSE Blank
  <2>1. A \o B \in Seq(S) /\ Len(A \o B) = e - i
    BY <1>1, <1>2, <1>3, ConcatProperties
  <2>2. \A n \in 1 .. e - i : (A \o B)[n] = IF n <= Len(A) THEN A[n] ELSE B[n - Len(A)]
    <3>1. \A n \in 1 .. Len(A) + Len(B) :
            (A \o B)[n] = IF n <= Len(A) THEN A[n] ELSE B[n - Len(A)]
      BY <1>2, <1>3, ConcatProperties
    <3>2. Len(A) + Len(B) = e - i
      BY <1>1, <1>2, <1>3
    <3> QED BY <3>1, <3>2
  <2> QED BY <1>1, <1>2, <1>3, <1>5, <2>1, <2>2
<1>7. /\ Len((A \o B) \o C) = 2 * (e - i)
      /\ \A n \in 1 .. 2 * (e - i) :
           ((A \o B) \o C)[n] = IF n <= e - i THEN (A \o B)[n] ELSE C[n - (e - i)]
  <2> DEFINE AB == A \o B
  <2>1. AB \in Seq(S) /\ Len(AB) = e - i
    BY <1>6
  <2> HIDE DEF AB
  <2>2. /\ Len(AB \o C) = 2 * (e - i)
        /\ \A n \in 1 .. 2 * (e - i) :
             (AB \o C)[n] = IF n <= e - i THEN AB[n] ELSE C[n - (e - i)]
    <3>1. /\ Len(AB \o C) = (e - i) + (e - i)
          /\ \A n \in 1 .. (e - i) + (e - i) :
               (AB \o C)[n] = IF n <= e - i THEN AB[n] ELSE C[n - (e - i)]
      <4>1. /\ Len(AB \o C) = Len(AB) + Len(C)
            /\ \A n \in 1 .. Len(AB) + Len(C) :
                 (AB \o C)[n] = IF n <= Len(AB) THEN AB[n] ELSE C[n - Len(AB)]
        BY <1>4, <2>1, ConcatProperties
      <4> QED BY <1>4, <2>1, <4>1
    <3>2. (e - i) + (e - i) = 2 * (e - i)
      BY <1>1
    <3> QED BY <3>1, <3>2
  <2> QED BY <2>2 DEF AB
<1>8. Closing(b, i, e) = (A \o B) \o C
  BY DEF Closing, A, B, C
<1>9. ASSUME NEW n \in 1 .. 2 * (e - i)
      PROVE  ((A \o B) \o C)[n] = IF n < e - i THEN b[i + n]
                                  ELSE IF n = e - i THEN Blank ELSE CursorLeft
  <2>1. CASE n <= e - i
    <3>1. n \in 1 .. e - i /\ (~(n < e - i) => n = e - i)
      BY <1>1, <2>1
    <3> QED BY <1>6, <1>7, <2>1, <3>1
  <2>2. CASE ~(n <= e - i)
    <3>1. n - (e - i) \in 1 .. e - i /\ ~(n < e - i) /\ n # e - i
      BY <1>1, <2>2
    <3> QED BY <1>5, <1>7, <2>2, <3>1
  <2> QED BY <2>1, <2>2
<1> QED BY <1>7, <1>8, <1>9

(***************************************************************************)
(* Closing a gap moves what is behind it on the screen one place up, and   *)
(* leaves the cursor where it was.                                         *)
(***************************************************************************)
LEMMA ClosingShows ==
  ASSUME NEW b \in [Near -> Printable \cup {Nul}],
         NEW i \in Nat, NEW e \in InBuffer, i < e,
         \A x \in i .. e - 1 : b[x] # Nul,
         NEW t \in Terminal, t.at = i
  PROVE  After(t, Closing(b, i, e)) =
           [cells |-> [x \in Columns |-> IF x \in i .. e - 2 THEN b[x + 1]
                                         ELSE IF x = e - 1 THEN Blank ELSE t.cells[x]],
            at |-> i]
<1> DEFINE bytes == Closing(b, i, e)
           m == 2 * (e - i)
           moved(n) == [x \in Columns |->
                          IF x \in i .. e - 2 /\ x < i + n THEN b[x + 1]
                          ELSE IF x = e - 1 /\ x < i + n THEN Blank ELSE t.cells[x]]
           cursor(n) == IF n <= e - i THEN i + n ELSE e - (n - (e - i))
           g(n) == [cells |-> moved(n), at |-> cursor(n)]
<1>1. /\ Width \in Nat /\ e \in Nat /\ e < Width /\ Columns = -6 .. Width
      /\ e - i \in Nat /\ m \in Nat
  BY EditorAssumption DEF Columns, Width, InBuffer
<1>13. e \in Near
  BY EditorAssumption DEF InBuffer, Near
<1>2. /\ Len(bytes) = m
      /\ \A n \in 1 .. m : bytes[n] = IF n < e - i THEN b[i + n]
                                      ELSE IF n = e - i THEN Blank ELSE CursorLeft
  BY <1>13, ClosingBytes
<1>3. /\ t = [cells |-> t.cells, at |-> i]
      /\ t.cells \in [Columns -> Printable \cup {Blank}]
  BY DEF Terminal
<1>4. \A n \in i .. e - 1 : b[n] \in Printable
  <2>1. \A n \in i .. e - 1 : n \in Near
    BY EditorAssumption DEF InBuffer, Near
  <2> QED BY <2>1
<1> HIDE DEF bytes
<1>5. PICK f : Screening(f, t, bytes)
  BY <1>1, <1>2, Screens
<1>6. g(0) = t
  <2>1. moved(0) = t.cells
    BY <1>1, <1>3
  <2> QED BY <1>1, <1>3, <2>1
<1>7. \A n \in 0 .. m : g(n) \in Terminal
  <2> SUFFICES ASSUME NEW n \in 0 .. m PROVE g(n) \in Terminal
    OBVIOUS
  <2>1. ASSUME NEW x \in Columns PROVE moved(n)[x] \in Printable \cup {Blank}
    <3>1. x \in i .. e - 2 => x + 1 \in i .. e - 1
      BY <1>1
    <3>2. t.cells[x] \in Printable \cup {Blank}
      BY <1>3
    <3> QED BY <1>4, <3>1, <3>2
  <2>2. moved(n) \in [Columns -> Printable \cup {Blank}]
    BY <2>1
  <2>3. cursor(n) \in Columns
    BY <1>1
  <2> HIDE DEF moved, cursor
  <2> QED BY <2>2, <2>3 DEF Terminal
<1>8. ASSUME NEW n \in 1 .. m PROVE g(n) = Put(g(n - 1), bytes[n])
  <2>1. n - 1 \in 0 .. m /\ n \in Int
    BY <1>1
  <2> DEFINE before == g(n - 1)
  <2>4. /\ before \in Terminal
        /\ before.cells = moved(n - 1) /\ before.at = cursor(n - 1)
    <3> HIDE DEF moved, cursor, m
    <3>1. before \in Terminal
      BY <1>7, <2>1
    <3> QED BY <3>1
  <2>2. CASE n <= e - i
    <3> DEFINE c == bytes[n]
    <3>1. c = IF n < e - i THEN b[i + n] ELSE Blank
      BY <1>1, <1>2, <2>2
    <3>2. c \in Printable \cup {Blank}
      BY <1>1, <1>4, <2>2, <3>1
    <3>3. cursor(n - 1) = i + n - 1 /\ cursor(n) = i + n /\ i + n - 1 < Width
      BY <1>1, <2>1, <2>2
    <3>4. moved(n) = [x \in Columns |-> IF x = i + n - 1 THEN c ELSE moved(n - 1)[x]]
      <4> SUFFICES ASSUME NEW x \in Columns
                   PROVE  moved(n)[x] = IF x = i + n - 1 THEN c ELSE moved(n - 1)[x]
        BY DEF moved
      <4>1. x \in Int
        BY <1>1
      <4>2. CASE x = i + n - 1
        <5>1. (x \in i .. e - 2) = (n < e - i) /\ x + 1 = i + n /\ x < i + n
              /\ (x = e - 1) = (n = e - i)
          BY <1>1, <2>1, <2>2, <4>1, <4>2
        <5>2. moved(n)[x] = IF x \in i .. e - 2 /\ x < i + n THEN b[x + 1]
                            ELSE IF x = e - 1 /\ x < i + n THEN Blank ELSE t.cells[x]
          OBVIOUS
        <5>3. n < e - i \/ n = e - i
          BY <1>1, <2>1, <2>2
        <5> HIDE DEF moved, c
        <5> QED BY <3>1, <4>2, <5>1, <5>2, <5>3
      <4>3. CASE x # i + n - 1
        <5>1. (x < i + n) = (x < i + (n - 1))
          BY <1>1, <2>1, <4>1, <4>3
        <5> QED BY <4>3, <5>1
      <4> QED BY <4>2, <4>3
    <3> HIDE DEF moved, cursor, c
    <3>5. g(n) = [cells |-> [x \in Columns |-> IF x = i + n - 1 THEN c ELSE moved(n - 1)[x]],
                  at |-> i + n]
      BY <3>3, <3>4
    <3> HIDE DEF before, g
    <3>6. Put(before, c) =
            [cells |-> [x \in Columns |-> IF x = before.at THEN c ELSE before.cells[x]],
             at |-> IF before.at < Width THEN before.at + 1 ELSE before.at]
      BY <2>4, <3>2, PutEach
    <3>7. before.at + 1 = i + n /\ before.at < Width
      BY <1>1, <2>1, <2>4, <3>3
    <3>8. Put(before, c) = g(n)
      BY <2>4, <3>3, <3>5, <3>6, <3>7
    <3> QED BY <3>8 DEF c, before
  <2>3. CASE ~(n <= e - i)
    <3>1. bytes[n] = CursorLeft
      BY <1>1, <1>2, <2>1, <2>3
    <3>2. cursor(n) = cursor(n - 1) - 1 /\ cursor(n - 1) > -6
      BY <1>1, <2>1, <2>3
    <3>3. moved(n) = moved(n - 1)
      <4> SUFFICES ASSUME NEW x \in Columns PROVE moved(n)[x] = moved(n - 1)[x]
        BY DEF moved
      <4>1. x \in Int
        BY <1>1
      <4> QED BY <1>1, <2>1, <2>3, <4>1
    <3> HIDE DEF moved, cursor
    <3>4. Put(g(n - 1), CursorLeft) =
            [cells |-> moved(n - 1), at |-> cursor(n - 1) - 1]
      BY <2>4, <3>2, PutEach
    <3> QED BY <3>1, <3>2, <3>3, <3>4
  <2> QED BY <2>2, <2>3
<1>9. f[m] = g(m)
  <2> HIDE DEF g, m
  <2> DEFINE D == {n \in 0 .. m : f[n] # g(n)}
  <2>1. SUFFICES ASSUME D # {} PROVE FALSE
    BY <1>1
  <2>2. PICK n \in D : \A k \in D : n <= k
    <3>1. D \in SUBSET Nat
      BY <1>1
    <3> HIDE DEF D
    <3> QED BY <2>1, <3>1, LeastExists
  <2>3. n # 0
    BY <1>5, <1>6, <2>2 DEF Screening
  <2>4. n \in 1 .. m /\ f[n - 1] = g(n - 1)
    BY <1>1, <2>2, <2>3
  <2>5. f[n] = Put(f[n - 1], bytes[n])
    BY <1>2, <1>5, <2>4 DEF Screening
  <2>6. g(n) = Put(g(n - 1), bytes[n])
    BY <1>8, <2>4
  <2> QED BY <2>2, <2>4, <2>5, <2>6
<1>10. After(t, bytes) = g(m)
  BY <1>2, <1>5, <1>9 DEF Screening
<1>11. cursor(m) = i
  BY <1>1
<1>12. moved(m) = [x \in Columns |-> IF x \in i .. e - 2 THEN b[x + 1]
                                     ELSE IF x = e - 1 THEN Blank ELSE t.cells[x]]
  BY <1>1
<1> QED BY <1>10, <1>11, <1>12 DEF bytes

----------------------------------------------------------------------------
(***************************************************************************)
(* What every step on a line may use.                                      *)
(***************************************************************************)
LEMMA Places ==
  /\ Size \in Nat \ {0} /\ Around \in Nat \ {0}
  /\ Width \in Nat /\ Width = Size + Around /\ Columns = -6 .. Width
  /\ \A i \in Int : i \in Near <=> -Around <= i /\ i <= Size - 1 + Around
  /\ \A i \in InBuffer : i \in Near /\ i \in 0 .. Size - 1
  BY EditorAssumption DEF Width, Columns, Near, InBuffer

LEMMA Reading ==
  ASSUME EditorInv, NEW where, Reads(where)
  PROVE  /\ index \in 0 .. Size - 1 /\ index \in Near
         /\ endOfLine \in Int /\ endOfLine \in Near
         /\ endOfLine + 1 \in -Around - 1 .. Size + Around
         /\ endOfLine - 1 \in -Around - 1 .. Size + Around
         /\ buffer \in [Near -> Printable \cup {Nul}]
         /\ term \in Terminal /\ mode = where
         /\ term = [cells |-> term.cells, at |-> term.at]
         /\ term.cells \in [Columns -> Printable \cup {Blank}]
<1>1. index \in InBuffer /\ endOfLine \in -Around - 1 .. Size + Around /\ endOfLine \in Near
  BY DEF EditorInv, TypeOK, Reads
<1>2. /\ endOfLine \in Int /\ index \in 0 .. Size - 1 /\ index \in Near
      /\ endOfLine + 1 \in -Around - 1 .. Size + Around
      /\ endOfLine - 1 \in -Around - 1 .. Size + Around
  BY <1>1, Places
<1> QED BY <1>1, <1>2 DEF EditorInv, TypeOK, Reads, Terminal

\* A character is typed.
LEMMA TypeCharKeeps ==
  ASSUME EditorInv, NEW c, TypeChar(c)
  PROVE  EditorInv'
<1>1. Reads("line") /\ index < Size - 1 /\ c \in Printable
  BY DEF TypeChar
<1>2. /\ Size \in Nat \ {0} /\ index \in 0 .. Size - 1 /\ index \in Near
      /\ endOfLine \in Int /\ endOfLine + 1 \in -Around - 1 .. Size + Around
      /\ buffer \in [Near -> Printable \cup {Nul}]
      /\ term \in Terminal /\ mode = "line"
      /\ term.cells \in [Columns -> Printable \cup {Blank}]
  BY <1>1, Reading, Places
<1>3. /\ buffer' = [buffer EXCEPT ![index] = c]
      /\ index' = index + 1 /\ endOfLine' = endOfLine + 1
      /\ inside' = (inside \/ index # endOfLine)
      /\ UNCHANGED <<mode, tilde, result>>
  BY DEF TypeChar, EditsInside
<1>4. term' = Put(term, c)
  BY AfterFew DEF TypeChar, Send
<1>5. TypeOK'
  <2>1. buffer' \in [Near -> Printable \cup {Nul}]
    BY <1>1, <1>2, <1>3
  <2>2. index' \in InBuffer /\ endOfLine' \in -Around - 1 .. Size + Around
    BY <1>1, <1>2, <1>3 DEF InBuffer
  <2>3. term' \in Terminal
    BY <1>1, <1>2, <1>4, PutKeepsTerminal DEF Sent
  <2>4. inside' \in BOOLEAN
    BY <1>3 DEF EditorInv, TypeOK
  <2> QED BY <1>2, <1>3, <2>1, <2>2, <2>3, <2>4 DEF EditorInv, TypeOK
<1>6. RoomForKey'
  BY <1>2, <1>3 DEF RoomForKey
<1>7. ASSUME ~inside' PROVE InStep' /\ Ended'
  <2>1. ~inside /\ index = endOfLine
    BY <1>3, <1>7
  <2>2. InStep
    BY <2>1 DEF EditorInv
  <2>3. c # Nul
    BY <1>1, EditorAssumption
  <2>4. \A i \in 0 .. endOfLine : buffer'[i] = IF i = endOfLine THEN c ELSE buffer[i]
    <3>1. \A i \in 0 .. endOfLine : i \in Near
      BY <1>2, <2>1, Places
    <3> QED BY <1>2, <1>3, <2>1, <3>1
  <2>5. /\ endOfLine' \in InBuffer
        /\ \A i \in 0 .. endOfLine' - 1 : buffer'[i] # Nul
    BY <1>1, <1>2, <1>3, <2>1, <2>2, <2>3, <2>4 DEF InStep, InBuffer
  <2>6. term' = [cells |-> [x \in Columns |-> IF x = index THEN c ELSE term.cells[x]],
                 at |-> index + 1]
    <3>1. term.at = index /\ term.at < Width
      BY <1>2, <2>2, Places DEF InStep
    <3> QED BY <1>1, <1>2, <1>4, <3>1, PutEach
  <2>7. ASSUME NEW i \in 0 .. Size
        PROVE  term'.cells[i] = IF i < endOfLine' THEN buffer'[i] ELSE Blank
    <3>1. i \in Columns
      BY <1>2, Places
    <3>2. term'.cells[i] = IF i = index THEN c ELSE term.cells[i]
      BY <2>6, <3>1
    <3>3. term.cells[i] = IF i < endOfLine THEN buffer[i] ELSE Blank
      BY <2>2 DEF InStep
    <3> QED BY <1>2, <1>3, <2>1, <2>4, <3>2, <3>3
  <2>8. term'.at = index'
    BY <1>3, <2>6
  <2> QED BY <1>2, <1>3, <2>5, <2>7, <2>8 DEF InStep, Ended
<1> QED BY <1>5, <1>6, <1>7 DEF EditorInv

(***************************************************************************)
(* Back, blank, back: the cell before the cursor is cleared.               *)
(***************************************************************************)
LEMMA ErasingShows ==
  ASSUME NEW t \in Terminal, NEW bytes, bytes = <<Backspace, Blank, Backspace>>
  PROVE  /\ After(t, bytes) \in Terminal
         /\ t.at > 0 =>
              After(t, bytes) =
                [cells |-> [x \in Columns |-> IF x = t.at - 1 THEN Blank ELSE t.cells[x]],
                 at |-> t.at - 1]
<1>1. /\ Len(bytes) \in Nat /\ Len(bytes) = 3
      /\ bytes[1] = Backspace /\ bytes[2] = Blank /\ bytes[3] = Backspace
  OBVIOUS
<1> DEFINE back == Put(t, Backspace)
           blank == Put(back, Blank)
           end == Put(blank, Backspace)
<1>2. After(t, bytes) = end
  <2>1. After(t, bytes) = Put(Put(Put(t, bytes[1]), bytes[2]), bytes[3])
    BY <1>1, AfterFew
  <2> QED BY <1>1, <2>1
<1>3. back \in Terminal /\ blank \in Terminal /\ end \in Terminal
  BY PutKeepsTerminal DEF Sent
<1>4. ASSUME t.at > 0
      PROVE  end = [cells |-> [x \in Columns |-> IF x = t.at - 1 THEN Blank ELSE t.cells[x]],
                    at |-> t.at - 1]
  <2>1. /\ t.at \in Int /\ t.at - 1 < Width /\ t.at > -6 /\ t.at - 1 + 1 = t.at
        /\ t.cells = [x \in Columns |-> t.cells[x]]
    BY <1>4, Places DEF Terminal
  <2>2. back = [cells |-> t.cells, at |-> t.at - 1]
    BY <2>1, PutEach
  <2>3. back.cells = t.cells /\ back.at = t.at - 1
    BY <2>2
  <2> HIDE DEF back
  <2>4. blank = [cells |-> [x \in Columns |-> IF x = t.at - 1 THEN Blank ELSE t.cells[x]],
                 at |-> t.at]
    <3>1. blank = [cells |-> [x \in Columns |-> IF x = back.at THEN Blank ELSE back.cells[x]],
                   at |-> IF back.at < Width THEN back.at + 1 ELSE back.at]
      BY <1>3, PutEach
    <3> QED BY <2>1, <2>3, <3>1
  <2>5. /\ blank.cells = [x \in Columns |-> IF x = t.at - 1 THEN Blank ELSE t.cells[x]]
        /\ blank.at = t.at
    BY <2>4
  <2> HIDE DEF blank
  <2>6. end = [cells |-> blank.cells, at |-> IF blank.at > -6 THEN blank.at - 1 ELSE blank.at]
    BY <1>3, PutEach
  <2> QED BY <2>1, <2>5, <2>6
<1> QED BY <1>2, <1>3, <1>4

\* The character before the cursor is erased.
LEMMA EraseKeeps ==
  ASSUME EditorInv, NEW c, Erase(c)
  PROVE  EditorInv'
<1>1. Reads("line") /\ index < Size - 1 /\ index > 0
  BY DEF Erase
<1>2. /\ Size \in Nat \ {0} /\ index \in 0 .. Size - 1 /\ index - 1 \in Near
      /\ endOfLine \in Int /\ endOfLine - 1 \in -Around - 1 .. Size + Around
      /\ buffer \in [Near -> Printable \cup {Nul}]
      /\ term \in Terminal /\ mode = "line"
      /\ term.cells \in [Columns -> Printable \cup {Blank}]
  <2>1. /\ index \in 0 .. Size - 1 /\ endOfLine \in Int
        /\ endOfLine - 1 \in -Around - 1 .. Size + Around
        /\ buffer \in [Near -> Printable \cup {Nul}]
        /\ term \in Terminal /\ mode = "line"
        /\ term.cells \in [Columns -> Printable \cup {Blank}]
    BY <1>1, Reading
  <2>2. Size \in Nat \ {0} /\ index - 1 \in Near
    BY <1>1, <2>1, Places
  <2> QED BY <2>1, <2>2
<1>3. /\ buffer' = [buffer EXCEPT ![index - 1] = Nul]
      /\ index' = index - 1 /\ endOfLine' = endOfLine - 1
      /\ inside' = (inside \/ index # endOfLine)
      /\ UNCHANGED <<mode, tilde, result>>
  BY DEF Erase, EditsInside
<1>4. PICK bytes : bytes = <<Backspace, Blank, Backspace>> /\ term' = After(term, bytes)
  BY DEF Erase, Send
<1>5. TypeOK'
  <2>1. buffer' \in [Near -> Printable \cup {Nul}]
    BY <1>1, <1>2, <1>3
  <2>2. index' \in InBuffer /\ endOfLine' \in -Around - 1 .. Size + Around
    BY <1>1, <1>2, <1>3 DEF InBuffer
  <2>3. inside' \in BOOLEAN
    BY <1>3 DEF EditorInv, TypeOK
  <2>4. term' \in Terminal
    BY <1>2, <1>4, ErasingShows
  <2> QED BY <1>2, <1>3, <2>1, <2>2, <2>3, <2>4 DEF EditorInv, TypeOK
<1>6. RoomForKey'
  BY <1>2, <1>3 DEF RoomForKey
<1>7. ASSUME ~inside' PROVE InStep' /\ Ended'
  <2>1. ~inside /\ index = endOfLine
    BY <1>3, <1>7
  <2>2. InStep
    BY <2>1 DEF EditorInv
  <2>3. \A i \in 0 .. endOfLine - 2 : buffer'[i] = buffer[i]
    <3>1. \A i \in 0 .. endOfLine - 2 : i \in Near /\ i # index - 1
      BY <1>2, <2>1, Places
    <3> QED BY <1>2, <1>3, <3>1
  <2>4. /\ endOfLine' \in InBuffer
        /\ \A i \in 0 .. endOfLine' - 1 : buffer'[i] # Nul
    BY <1>1, <1>2, <1>3, <2>1, <2>2, <2>3 DEF InStep, InBuffer
  <2>5. term' = [cells |-> [x \in Columns |-> IF x = index - 1 THEN Blank ELSE term.cells[x]],
                 at |-> index - 1]
    <3>1. term.at = index
      BY <2>2 DEF InStep
    <3> QED BY <1>1, <1>2, <1>4, <3>1, ErasingShows
  <2>6. ASSUME NEW i \in 0 .. Size
        PROVE  term'.cells[i] = IF i < endOfLine' THEN buffer'[i] ELSE Blank
    <3>1. i \in Columns
      BY <1>2, Places
    <3>2. term'.cells[i] = IF i = index - 1 THEN Blank ELSE term.cells[i]
      BY <2>5, <3>1
    <3>3. term.cells[i] = IF i < endOfLine THEN buffer[i] ELSE Blank
      BY <2>2 DEF InStep
    <3> QED BY <1>2, <1>3, <2>1, <2>3, <3>2, <3>3
  <2>7. term'.at = index'
    BY <1>3, <2>5
  <2> QED BY <1>2, <1>3, <2>4, <2>6, <2>7 DEF InStep, Ended
<1> QED BY <1>5, <1>6, <1>7 DEF EditorInv

\* The line is ended, by the user or because the buffer is full.
LEMMA ReturnKeeps ==
  ASSUME EditorInv, Overflow \/ \E c \in Byte : Enter(c)
  PROVE  EditorInv'
<1>1. Reads("line")
  BY DEF Overflow, Enter
<1>2. /\ Size \in Nat \ {0} /\ index \in 0 .. Size - 1 /\ index \in Near
      /\ endOfLine \in Near /\ endOfLine \in Int
      /\ buffer \in [Near -> Printable \cup {Nul}]
  BY <1>1, Reading, Places
<1>3. PICK n \in {index, endOfLine} :
        /\ buffer' = [buffer EXCEPT ![n] = Nul]
        /\ \/ result' = endOfLine /\ n = endOfLine
           \/ result' = -1 /\ n = index /\ index >= Size - 1
  BY DEF Overflow, Enter, EndAt
<1>4. mode' = "returned" /\ UNCHANGED <<index, endOfLine, tilde, term, inside>>
  BY DEF Overflow, Enter
<1>5. TypeOK'
  <2>1. buffer' \in [Near -> Printable \cup {Nul}]
    BY <1>2, <1>3
  <2>2. -1 \in Near
    BY Places
  <2>3. result' \in Near
    BY <1>2, <1>3, <2>2
  <2> QED BY <1>4, <2>1, <2>3 DEF EditorInv, TypeOK
<1>6. RoomForKey'
  BY <1>4 DEF RoomForKey
<1>7. ASSUME ~inside' PROVE InStep' /\ Ended'
  <2>1. InStep
    BY <1>4, <1>7 DEF EditorInv
  <2>2. n \in Near /\ n >= endOfLine /\ endOfLine \in 0 .. Size - 1
    BY <1>2, <1>3, <2>1 DEF InStep, InBuffer
  <2>3. \A i \in 0 .. endOfLine - 1 : buffer'[i] = buffer[i]
    <3>1. \A i \in 0 .. endOfLine - 1 : i \in Near /\ i # n
      BY <1>2, <1>3, <2>2, Places
    <3> QED BY <1>2, <1>3, <3>1
  <2>4. InStep'
    <3>1. \A i \in 0 .. Size : i < endOfLine => i \in 0 .. endOfLine - 1
      BY <1>2
    <3> QED BY <1>4, <2>1, <2>3, <3>1 DEF InStep
  <2>5. result' \in {-1, endOfLine} /\ (result' >= 0 \/ index = endOfLine => n = endOfLine)
    BY <1>2, <1>3
  <2>6. buffer'[n] = Nul
    BY <1>2, <1>3, <2>2
  <2> QED BY <1>4, <2>4, <2>5, <2>6 DEF Ended
<1> QED BY <1>5, <1>6, <1>7 DEF EditorInv

\* The caller ends the line where the result says.
LEMMA TakeKeeps ==
  ASSUME EditorInv, TakeLine
  PROVE  EditorInv'
<1>1. /\ mode = "returned" /\ mode' = "taken"
      /\ buffer' = [buffer EXCEPT ![result] = Nul]
      /\ UNCHANGED <<index, endOfLine, tilde, result, term, inside>>
  BY DEF TakeLine, EndAt
<1>2. result \in Near /\ buffer \in [Near -> Printable \cup {Nul}]
  BY DEF EditorInv, TypeOK
<1>3. TypeOK'
  <2>1. buffer' \in [Near -> Printable \cup {Nul}]
    BY <1>1, <1>2
  <2> QED BY <1>1, <2>1 DEF EditorInv, TypeOK
<1>4. RoomForKey' /\ Ended'
  BY <1>1 DEF RoomForKey, Ended
<1>5. ASSUME ~inside' PROVE InStep'
  <2>1. InStep /\ result \in {-1, endOfLine}
    BY <1>1, <1>5 DEF EditorInv, Ended
  <2>2. \A i \in 0 .. endOfLine - 1 : i \in Near /\ i # result
    BY <2>1, Places DEF InStep, InBuffer
  <2>3. \A i \in 0 .. endOfLine - 1 : buffer'[i] = buffer[i]
    BY <1>1, <1>2, <2>2
  <2>4. \A i \in 0 .. Size : i < endOfLine => i \in 0 .. endOfLine - 1
    BY <2>1, Places DEF InStep
  <2> QED BY <1>1, <2>1, <2>3, <2>4 DEF InStep
<1> QED BY <1>3, <1>4, <1>5 DEF EditorInv

\* A byte of a key that only changes where serial_poll reads.
LEMMA ModeKeeps ==
  ASSUME EditorInv, mode \notin {"returned", "taken"}, index < Size - 1,
         mode' \in {"line", "after escape", "special", "tilde"},
         tilde' \in BOOLEAN, UNCHANGED <<buffer, index, endOfLine, result, term, inside>>
  PROVE  EditorInv'
<1>1. TypeOK'
  BY DEF EditorInv, TypeOK
<1>2. RoomForKey'
  BY DEF RoomForKey
<1>3. ~inside' => InStep' /\ Ended'
  BY DEF EditorInv, InStep, Ended
<1> QED BY <1>1, <1>2, <1>3 DEF EditorInv

\* The arrows to the side.
LEMMA ArrowKeeps ==
  ASSUME EditorInv, NEW c, Right(c) \/ Left(c)
  PROVE  EditorInv'
<1>1. Reads("special")
  BY DEF Right, Left
<1>2. /\ Size \in Nat \ {0} /\ index \in 0 .. Size - 1 /\ index < Size - 1
      /\ term \in Terminal /\ mode = "special"
      /\ term.at \in Int /\ Width \in Int /\ Width > Size
      /\ term = [cells |-> term.cells, at |-> term.at]
  BY <1>1, Reading, Places DEF EditorInv, RoomForKey, Reads, Terminal
<1>3. mode' = "line" /\ UNCHANGED <<buffer, endOfLine, tilde, result, inside>>
  BY DEF Right, Left
<1>4. /\ index' \in 0 .. Size - 1 /\ term' \in Terminal
      /\ term.at = index => term' = [cells |-> term.cells, at |-> index']
  <2>1. CASE Right(c)
    <3>1. term' = Put(term, CursorRight) /\ index' = index + 1
      BY <2>1, AfterFew DEF Right, Send
    <3>2. term' \in Terminal
      BY <1>2, <3>1, PutKeepsTerminal DEF Sent
    <3>3. term.at = index => term.at < Width
      <4>1. index < Width
        BY <1>2
      <4> QED BY <4>1
    <3> QED BY <1>2, <3>1, <3>2, <3>3, PutEach
  <2>2. CASE Left(c) /\ index = 0
    <3>1. term' = term /\ index' = 0
      BY <2>2, AfterFew DEF Left, Send, OneLeft
    <3> QED BY <1>2, <2>2, <3>1
  <2>3. CASE Left(c) /\ index # 0
    <3>1. term' = Put(term, CursorLeft) /\ index' = index - 1
      BY <2>3, AfterFew DEF Left, Send, OneLeft
    <3>2. term' \in Terminal
      BY <1>2, <3>1, PutKeepsTerminal DEF Sent
    <3> QED BY <1>2, <2>3, <3>1, <3>2, PutEach
  <2> QED BY <2>1, <2>2, <2>3
<1>5. TypeOK'
  BY <1>3, <1>4 DEF EditorInv, TypeOK, InBuffer
<1>6. RoomForKey'
  BY <1>3 DEF RoomForKey
<1>7. ASSUME ~inside' PROVE InStep' /\ Ended'
  <2>1. InStep
    BY <1>3, <1>7 DEF EditorInv
  <2>2. term'.cells = term.cells /\ term'.at = index'
    BY <1>4, <2>1 DEF InStep
  <2> QED BY <1>3, <2>1, <2>2 DEF InStep, Ended
<1> QED BY <1>5, <1>6, <1>7 DEF EditorInv

(***************************************************************************)
(* The delete key, read to its end: the character under the cursor goes.   *)
(* What is sent may hold zeros when the line was edited inside; the screen *)
(* then stays a screen, and nothing more is claimed of it.                 *)
(***************************************************************************)
LEMMA DropKeeps ==
  ASSUME EditorInv, NEW where, Reads(where), where \in {"special", "tilde"},
         Drop, mode' = "line", UNCHANGED tilde
  PROVE  EditorInv'
<1>1. /\ Size \in Nat \ {0} /\ index \in 0 .. Size - 1 /\ index \in Nat
      /\ endOfLine \in Near /\ endOfLine \in Int
      /\ endOfLine - 1 \in -Around - 1 .. Size + Around
      /\ buffer \in [Near -> Printable \cup {Nul}]
      /\ term \in Terminal /\ mode = where
      /\ term.cells \in [Columns -> Printable \cup {Blank}]
      /\ \A i \in 0 .. endOfLine : i \in Near
  <2>1. /\ index \in 0 .. Size - 1 /\ endOfLine \in Near /\ endOfLine \in Int
        /\ endOfLine - 1 \in -Around - 1 .. Size + Around
        /\ buffer \in [Near -> Printable \cup {Nul}]
        /\ term \in Terminal /\ mode = where
        /\ term.cells \in [Columns -> Printable \cup {Blank}]
    BY Reading
  <2>2. Size \in Nat \ {0} /\ index \in Nat /\ \A i \in 0 .. endOfLine : i \in Near
    BY <2>1, Places
  <2> QED BY <2>1, <2>2
<1>2. UNCHANGED <<index, result, inside, tilde>> /\ mode' = "line"
  BY DEF Drop
<1>3. RoomForKey'
  BY <1>2 DEF RoomForKey
<1>4. CASE ~(index < endOfLine)
  <2>1. UNCHANGED <<buffer, endOfLine, term>>
    BY <1>4 DEF Drop
  <2>2. TypeOK'
    BY <1>2, <2>1 DEF EditorInv, TypeOK
  <2>3. ~inside' => InStep' /\ Ended'
    BY <1>1, <1>2, <2>1 DEF EditorInv, InStep, Ended
  <2> QED BY <1>3, <2>2, <2>3 DEF EditorInv
<1>5. CASE index < endOfLine
  <2>1. /\ buffer' = WithoutOne /\ endOfLine' = endOfLine - 1
        /\ term' = After(term, Closing(buffer, index, endOfLine))
    BY <1>5 DEF Drop, Send, Closing
  <2>2. /\ buffer' \in [Near -> Printable \cup {Nul}]
        /\ \A i \in Near :
             buffer'[i] = IF i \in index .. endOfLine - 2 THEN buffer[i + 1]
                          ELSE IF i = index THEN Nul ELSE buffer[i]
    <3>1. DOMAIN buffer = Near
      BY <1>1
    <3>2. \A i \in index .. endOfLine - 2 : i + 1 \in Near
      BY <1>1
    <3> QED BY <1>1, <2>1, <3>1, <3>2 DEF WithoutOne
  <2>3. TypeOK'
    <3> DEFINE bytes == Closing(buffer, index, endOfLine)
    <3>1. /\ Len(bytes) = 2 * (endOfLine - index)
          /\ \A n \in 1 .. 2 * (endOfLine - index) :
               bytes[n] = IF n < endOfLine - index THEN buffer[index + n]
                          ELSE IF n = endOfLine - index THEN Blank ELSE CursorLeft
      BY <1>1, <1>5, ClosingBytes
    <3> HIDE DEF bytes
    <3>2. Len(bytes) \in Nat
      BY <1>1, <1>5, <3>1
    <3>3. ASSUME NEW n \in 1 .. Len(bytes) PROVE bytes[n] \in Sent
      <4>1. n < endOfLine - index => index + n \in Near
        BY <1>1
      <4> QED BY <1>1, <3>1, <4>1 DEF Sent
    <3>4. After(term, bytes) \in Terminal
      BY <1>1, <3>2, <3>3, AfterKeepsTerminal
    <3>5. term' \in Terminal
      BY <2>1, <3>4 DEF bytes
    <3>6. endOfLine' \in -Around - 1 .. Size + Around
      BY <1>1, <2>1
    <3> QED BY <1>2, <2>2, <3>5, <3>6 DEF EditorInv, TypeOK
  <2>4. ASSUME ~inside' PROVE InStep' /\ Ended'
    <3>1. InStep /\ endOfLine \in InBuffer /\ endOfLine \in 0 .. Size - 1 /\ term.at = index
      BY <1>2, <2>4 DEF EditorInv, InStep, InBuffer
    <3>2. \A i \in index .. endOfLine - 1 : buffer[i] # Nul
      BY <1>1, <3>1 DEF InStep
    <3>3. term' = [cells |-> [x \in Columns |->
                                IF x \in index .. endOfLine - 2 THEN buffer[x + 1]
                                ELSE IF x = endOfLine - 1 THEN Blank ELSE term.cells[x]],
                   at |-> index]
      BY <1>1, <1>5, <2>1, <3>1, <3>2, ClosingShows
    <3>4. \A i \in 0 .. endOfLine - 2 : buffer'[i] = IF i >= index THEN buffer[i + 1] ELSE buffer[i]
      <4>1. \A i \in 0 .. endOfLine - 2 : i \in Near /\ (i \in index .. endOfLine - 2 <=> i >= index)
        BY <1>1
      <4> QED BY <1>1, <2>2, <4>1
    <3>5. /\ endOfLine' \in InBuffer
          /\ \A i \in 0 .. endOfLine' - 1 : buffer'[i] # Nul
      <4>1. endOfLine' \in InBuffer
        BY <1>1, <1>5, <2>1, <3>1 DEF InBuffer
      <4>2. ASSUME NEW i \in 0 .. endOfLine' - 1 PROVE buffer'[i] # Nul
        <5>1. i \in 0 .. endOfLine - 2 /\ i \in 0 .. endOfLine - 1 /\ i + 1 \in 0 .. endOfLine - 1
          BY <1>1, <2>1
        <5> QED BY <3>1, <3>4, <5>1 DEF InStep
      <4> QED BY <4>1, <4>2
    <3>6. ASSUME NEW i \in 0 .. Size
          PROVE  term'.cells[i] = IF i < endOfLine' THEN buffer'[i] ELSE Blank
      <4>1. term'.cells[i] = IF i \in index .. endOfLine - 2 THEN buffer[i + 1]
                             ELSE IF i = endOfLine - 1 THEN Blank ELSE term.cells[i]
        <5>1. i \in Columns
          BY <1>1, Places
        <5> QED BY <3>3, <5>1
      <4>2. term.cells[i] = IF i < endOfLine THEN buffer[i] ELSE Blank
        BY <3>1 DEF InStep
      <4>3. CASE i < endOfLine - 1
        <5>1. i \in 0 .. endOfLine - 2 /\ i < endOfLine' /\ i < endOfLine /\ i # endOfLine - 1
              /\ (i >= index) = (i \in index .. endOfLine - 2)
          BY <1>1, <2>1, <4>3
        <5> QED BY <3>4, <4>1, <4>2, <5>1
      <4>4. CASE ~(i < endOfLine - 1)
        <5>1. i \notin index .. endOfLine - 2 /\ ~(i < endOfLine')
              /\ (i # endOfLine - 1 => ~(i < endOfLine))
          BY <1>1, <2>1, <4>4
        <5> QED BY <4>1, <4>2, <5>1
      <4> QED BY <4>3, <4>4
    <3>7. mode' # "returned" /\ term'.at = index'
      BY <1>2, <3>3
    <3> QED BY <3>5, <3>6, <3>7 DEF InStep, Ended
  <2> QED BY <1>3, <2>3, <2>4 DEF EditorInv
<1> QED BY <1>4, <1>5

\* The caller's buffer and the prompt line.
LEMMA FreshLine ==
  ASSUME buffer \in Fresh, index = 0, endOfLine = 0, mode = "line",
         tilde = FALSE, result = 0, term = PromptLine, inside = FALSE
  PROVE  EditorInv
<1>1. /\ term.at = 0 /\ term = [cells |-> [x \in Columns |-> Blank], at |-> 0]
      /\ \A x \in Columns : term.cells[x] = Blank
  BY DEF PromptLine
<1>2. 0 \in Columns
  BY Places
<1>3. term \in Terminal
  BY <1>1, <1>2 DEF Terminal
<1>4. TypeOK
  <2>1. 0 \in InBuffer /\ 0 \in Near /\ 0 \in -Around - 1 .. Size + Around
    BY Places DEF InBuffer
  <2>2. buffer \in [Near -> Printable \cup {Nul}]
    <3>1. PICK around \in [Outside -> Leftover] :
            buffer = [i \in Near |-> IF i \in InBuffer THEN Nul ELSE around[i]]
      BY DEF Fresh
    <3>2. ASSUME NEW i \in Near
          PROVE  (IF i \in InBuffer THEN Nul ELSE around[i]) \in Printable \cup {Nul}
      <4>1. i \notin InBuffer => i \in Outside
        BY DEF Outside
      <4> QED BY <4>1, EditorAssumption
    <3> QED BY <3>1, <3>2
  <2>3. mode \in {"line", "after escape", "special", "tilde", "returned", "taken"}
    OBVIOUS
  <2> QED BY <1>3, <2>1, <2>2, <2>3 DEF TypeOK
<1>5. \A i \in 0 .. Size : i \in Columns /\ ~(i < 0)
  BY Places
<1>6. InStep /\ Ended
  <2>1. endOfLine \in InBuffer /\ term.at = index
    BY <1>1, Places DEF InBuffer
  <2>2. \A i \in 0 .. Size : term.cells[i] = IF i < endOfLine THEN buffer[i] ELSE Blank
    BY <1>1, <1>5
  <2>3. \A i \in 0 .. endOfLine - 1 : buffer[i] # Nul
    OBVIOUS
  <2>4. InStep
    BY <2>1, <2>2, <2>3 DEF InStep
  <2>5. Ended
    BY DEF Ended
  <2> QED BY <2>4, <2>5
<1> QED BY <1>4, <1>6 DEF EditorInv, RoomForKey

\* Every step keeps the invariant.
LEMMA EditorStep == EditorInv /\ [Next]_vars => EditorInv'
<1> SUFFICES ASSUME EditorInv, [Next]_vars PROVE EditorInv'
  OBVIOUS
<1>1. ASSUME NEW c \in Byte, TypeChar(c) PROVE EditorInv'
  BY <1>1, TypeCharKeeps
<1>2. ASSUME NEW c \in Byte, Erase(c) PROVE EditorInv'
  BY <1>2, EraseKeeps
<1>3. ASSUME NEW c \in Byte, Enter(c) PROVE EditorInv'
  BY <1>3, ReturnKeeps
<1>4. ASSUME NEW c \in Byte, Escape(c) PROVE EditorInv'
  BY <1>4, ModeKeeps DEF Escape, Reads, EditorInv, TypeOK
<1>5. ASSUME NEW c \in Byte, UpOrDown(c) PROVE EditorInv'
  BY <1>5, ModeKeeps DEF UpOrDown, Reads, EditorInv, TypeOK, RoomForKey
<1>6. ASSUME NEW c \in Byte, Right(c) \/ Left(c) PROVE EditorInv'
  BY <1>6, ArrowKeeps
<1>7. ASSUME NEW c \in Byte, DeleteKey(c) PROVE EditorInv'
  <2>1. CASE tilde
    BY <1>7, <2>1, DropKeeps DEF DeleteKey
  <2>2. CASE ~tilde
    BY <1>7, <2>2, ModeKeeps DEF DeleteKey, Reads, EditorInv, TypeOK, RoomForKey
  <2> QED BY <2>1, <2>2
<1>8. ASSUME NEW c \in Byte, DeleteTilde(c) PROVE EditorInv'
  BY <1>8, DropKeeps DEF DeleteTilde
<1>9. ASSUME NEW c, AfterEscape(c) PROVE EditorInv'
  BY <1>9, ModeKeeps DEF AfterEscape, Reads, EditorInv, TypeOK, RoomForKey
<1>10. ASSUME Overflow PROVE EditorInv'
  BY <1>10, ReturnKeeps
<1>11. ASSUME Prompt PROVE EditorInv'
  <2>1. (/\ buffer \in Fresh /\ index = 0 /\ endOfLine = 0 /\ mode = "line"
         /\ tilde = FALSE /\ result = 0 /\ term = PromptLine /\ inside = FALSE)'
    BY <1>11 DEF Prompt, Fresh, PromptLine, Columns, Width, Near, InBuffer, Outside
  <2>2. (/\ buffer \in Fresh /\ index = 0 /\ endOfLine = 0 /\ mode = "line"
         /\ tilde = FALSE /\ result = 0 /\ term = PromptLine /\ inside = FALSE
         => EditorInv)'
    BY FreshLine, PTL
  <2> QED BY <2>1, <2>2
<1>12. ASSUME TakeLine PROVE EditorInv'
  BY <1>12, TakeKeeps
<1>13. ASSUME UNCHANGED vars PROVE EditorInv'
  BY <1>13 DEF vars, EditorInv, TypeOK, RoomForKey, InStep, Ended
<1> QED
  BY <1>1, <1>2, <1>3, <1>4, <1>5, <1>6, <1>7, <1>8, <1>9, <1>10, <1>11, <1>12, <1>13
  DEF Next

\* The invariant says that the screen shows the line.
LEMMA ShowsLine == EditorInv => ScreenShowsLine
<1> SUFFICES ASSUME EditorInv PROVE ScreenShowsLine
  OBVIOUS
<1>1. ~inside => InStep
  BY DEF EditorInv
<1> QED BY <1>1 DEF InStep, ScreenShowsLine

\* And it says that the caller gets what the screen shows.
LEMMA GetsScreen == EditorInv => CallerGetsScreen
<1> SUFFICES ASSUME EditorInv, ~inside, mode = "returned", result >= 0 \/ index = endOfLine
             PROVE  /\ result \in {-1, LengthSeen}
                    /\ \A i \in 0 .. LengthSeen - 1 : term.cells[i] = buffer[i]
                    /\ \A i \in LengthSeen .. Size : term.cells[i] = Blank
  BY DEF CallerGetsScreen
<1>1. /\ InStep /\ result \in {-1, endOfLine} /\ buffer[endOfLine] = Nul
      /\ endOfLine \in 0 .. Size - 1 /\ Size \in Nat
  <2>1. InStep /\ Ended
    BY DEF EditorInv
  <2>2. result \in {-1, endOfLine} /\ buffer[endOfLine] = Nul
    BY <2>1 DEF Ended
  <2>3. endOfLine \in 0 .. Size - 1
    BY <2>1 DEF InStep, InBuffer
  <2> QED BY <2>1, <2>2, <2>3, EditorAssumption
<1> DEFINE Seen(n) == /\ \A i \in 0 .. n - 1 : buffer[i] # Nul
                      /\ n < Size => buffer[n] = Nul
<1>2. endOfLine \in 0 .. Size /\ Seen(endOfLine)
  BY <1>1 DEF InStep
<1>3. ASSUME NEW n \in 0 .. Size, Seen(n) PROVE n = endOfLine
  <2>1. CASE n < endOfLine
    <3>1. n \in 0 .. endOfLine - 1 /\ n < Size
      BY <1>1, <2>1
    <3> QED BY <1>2, <1>3, <3>1
  <2>2. CASE endOfLine < n
    <3>1. endOfLine \in 0 .. n - 1
      BY <1>1, <2>2
    <3> QED BY <1>1, <1>3, <3>1
  <2> QED BY <1>1, <2>1, <2>2
<1>4. LengthSeen = CHOOSE n \in 0 .. Size : Seen(n)
  BY DEF LengthSeen
<1> HIDE DEF Seen
<1>5. LengthSeen = endOfLine
  BY <1>2, <1>3, <1>4
<1> QED BY <1>1, <1>5 DEF InStep

(***************************************************************************)
(* A step from the invariant to the invariant writes only the buffer: what *)
(* is written is at index, one before it, or at the end of the line, and   *)
(* the delete key stops at the end.                                        *)
(***************************************************************************)
LEMMA StepWritesInside ==
  ASSUME EditorInv, EditorInv', Next,
         ~inside', mode # "taken", mode = "returned" => result >= 0
  PROVE  KeepsOutside
<1>1. /\ buffer \in [Near -> Printable \cup {Nul}] /\ index \in InBuffer
      /\ index \in Int /\ Size \in Nat
      /\ \A i \in Near \ InBuffer : i \in Int /\ i \notin 0 .. Size - 1
  <2>1. buffer \in [Near -> Printable \cup {Nul}] /\ index \in InBuffer
    BY DEF EditorInv, TypeOK
  <2>2. Size \in Nat /\ Around \in Nat /\ index \in Int
    BY <2>1, EditorAssumption DEF InBuffer
  <2>3. \A i \in Near \ InBuffer : i \in Int /\ i \notin 0 .. Size - 1
    BY <2>2 DEF InBuffer, Near
  <2> QED BY <2>1, <2>2, <2>3
<1>2. ASSUME NEW n \in InBuffer, NEW c, buffer' = [buffer EXCEPT ![n] = c]
      PROVE  KeepsOutside
  BY <1>1, <1>2 DEF KeepsOutside, Outside
<1>3. ASSUME UNCHANGED buffer PROVE KeepsOutside
  BY <1>3 DEF KeepsOutside, Outside
<1>4. ASSUME Drop PROVE KeepsOutside
  <2>1. InStep
    BY <1>4 DEF EditorInv, Drop
  <2>2. CASE ~(index < endOfLine)
    BY <1>3, <1>4, <2>2 DEF Drop
  <2>3. CASE index < endOfLine
    <3>1. buffer' = WithoutOne
      BY <1>4, <2>3 DEF Drop
    <3>2. ASSUME NEW i \in Near \ InBuffer PROVE i \notin index .. endOfLine - 2 /\ i # index
      BY <1>1, <2>1 DEF InStep, InBuffer
    <3> QED BY <1>1, <3>1, <3>2 DEF KeepsOutside, Outside, WithoutOne
  <2> QED BY <2>2, <2>3
<1>5. ASSUME NEW c \in Byte, TypeChar(c) PROVE KeepsOutside
  BY <1>1, <1>2, <1>5 DEF TypeChar
<1>6. ASSUME NEW c \in Byte, Erase(c) PROVE KeepsOutside
  <2>1. index - 1 \in InBuffer
    BY <1>1, <1>6 DEF Erase, InBuffer
  <2> QED BY <1>2, <1>6, <2>1 DEF Erase
<1>7. ASSUME NEW c \in Byte, Enter(c) PROVE KeepsOutside
  <2>1. endOfLine \in InBuffer
    BY <1>7 DEF EditorInv, InStep, Enter
  <2> QED BY <1>2, <1>7, <2>1 DEF Enter, EndAt
<1>8. ASSUME Overflow PROVE KeepsOutside
  BY <1>1, <1>2, <1>8 DEF Overflow, EndAt
<1>9. ASSUME TakeLine PROVE KeepsOutside
  <2>1. result \in InBuffer
    <3>1. InStep /\ result \in {-1, endOfLine} /\ result >= 0
      BY <1>9 DEF EditorInv, Ended, TakeLine
    <3> QED BY <1>1, <3>1 DEF InStep, InBuffer
  <2> QED BY <1>2, <1>9, <2>1 DEF TakeLine, EndAt
<1>10. ASSUME NEW c \in Byte \cup {Nul},
              \/ Escape(c) \/ AfterEscape(c) \/ UpOrDown(c) \/ Right(c) \/ Left(c)
       PROVE  KeepsOutside
  BY <1>3, <1>10 DEF Escape, AfterEscape, UpOrDown, Right, Left
<1>11. ASSUME NEW c \in Byte, DeleteKey(c) \/ DeleteTilde(c) PROVE KeepsOutside
  BY <1>3, <1>4, <1>11 DEF DeleteKey, DeleteTilde
<1>12. ~Prompt
  BY DEF Prompt
<1> QED
  BY <1>5, <1>6, <1>7, <1>8, <1>9, <1>10, <1>11, <1>12 DEF Next

----------------------------------------------------------------------------
(***************************************************************************)
(* serial_poll keeps its invariant, whatever bytes arrive.                 *)
(***************************************************************************)
THEOREM EditorInvariance == Spec => []EditorInv
<1>1. Init => EditorInv
  BY FreshLine DEF Init
<1> QED BY <1>1, EditorStep, PTL DEF Spec

(***************************************************************************)
(* Nothing but the buffer is written, for buffers of every size, as long   *)
(* as the line is edited at its end and the buffer is not full.            *)
(***************************************************************************)
THEOREM BufferKept == Spec => OnlyBufferIsWritten
<1>1. ASSUME EditorInv, EditorInv', [Next]_vars
      PROVE  [~inside' /\ mode # "taken" /\ (mode = "returned" => result >= 0)
              => KeepsOutside]_vars
  BY <1>1, StepWritesInside
<1> QED BY <1>1, EditorInvariance, PTL DEF Spec, OnlyBufferIsWritten

(***************************************************************************)
(* Unless it is edited elsewhere than at its end, the line in the buffer   *)
(* is what the terminal shows, for buffers of every size.                  *)
(***************************************************************************)
THEOREM LineIsOnScreen == Spec => []ScreenShowsLine
  BY EditorInvariance, ShowsLine, PTL

(***************************************************************************)
(* Then the caller gets the text on the screen and its length.             *)
(***************************************************************************)
THEOREM ReturnIsOnScreen == Spec => []CallerGetsScreen
  BY EditorInvariance, GetsScreen, PTL

=============================================================================
