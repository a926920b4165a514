------------------------------ MODULE PcbProofs ------------------------------
(***************************************************************************)
(* Facts about the operators of Pcb: what inserting into a queue, removing *)
(* from it and searching the queues return and preserve.  They lead to     *)
(* EnqueueKeepsGood, DequeueKeepsGood, AppendKeepsGood and FindProperties, *)
(* which are all that the proofs about the running system use.             *)
(***************************************************************************)
EXTENDS Pcb, SequenceTheorems, WellFoundedInduction, TLAPS

\* The order < on the natural numbers, as the set of its pairs.
Less == {ss \in Nat \X Nat : ss[1] < ss[2]}

\* The order of the natural numbers is well founded.
LEMMA LessWellFounded == IsWellFoundedOn(Less, Nat)
  BY NatLessThanWellFounded, Zenon DEF IsWellFoundedOn, OpToRel, Less

\* Min, a CHOOSE, is what it says for every non-empty set of naturals.
LEMMA MinExists ==
  ASSUME NEW S \in SUBSET Nat, S # {}
  PROVE  Min(S) \in S /\ \A x \in S : Min(S) <= x
<1>1. \E x \in S : \A y \in S : ~(<<y, x>> \in Less)
  BY LessWellFounded, WFMin
<1>2. PICK x \in S : \A y \in S : ~(<<y, x>> \in Less)
  BY <1>1
<1>3. ASSUME NEW y \in S PROVE x =< y
  <2>1. x \in Nat /\ y \in Nat
    OBVIOUS
  <2>2. ~(<<y, x>> \in Less)
    BY <1>2
  <2>3. ~(y < x)
    BY <2>1, <2>2 DEF Less
  <2> QED BY <2>1, <2>3
<1> QED BY <1>3 DEF Min

(***************************************************************************)
(* InsertAt and RemoveAt, element by element.                              *)
(***************************************************************************)
LEMMA InsertAtProperties ==
  ASSUME NEW S, NEW s \in Seq(S), NEW i \in 1..Len(s) + 1, NEW e \in S
  PROVE  /\ InsertAt(s, i, e) \in Seq(S)
         /\ Len(InsertAt(s, i, e)) = Len(s) + 1
         /\ \A j \in 1..Len(s) + 1 :
              InsertAt(s, i, e)[j] = IF j < i THEN s[j]
                                     ELSE IF j = i THEN e ELSE s[j - 1]
<1> DEFINE a == SubSeq(s, 1, i - 1)
           b == SubSeq(s, i, Len(s))
<1>1. Len(s) \in Nat /\ \A j \in 1..Len(s) : s[j] \in S
  BY LenProperties, ElementOfSeq
<1>2. a \in Seq(S) /\ Len(a) = i - 1 /\ \A j \in 1..i - 1 : a[j] = s[j]
  BY <1>1, SubSeqProperties
<1>3. /\ b \in Seq(S) /\ Len(b) = Len(s) - i + 1
      /\ \A j \in 1..Len(s) - i + 1 : b[j] = s[i + j - 1]
  BY <1>1, SubSeqProperties
<1> HIDE DEF a, b
<1>4. /\ a \o <<e>> \in Seq(S) /\ Len(a \o <<e>>) = i
      /\ \A j \in 1..i : (a \o <<e>>)[j] = IF j < i THEN s[j] ELSE e
  BY <1>1, <1>2, ConcatProperties
<1> DEFINE c == a \o <<e>>
<1>5. c \in Seq(S) /\ Len(c) = i /\ \A j \in 1..i : c[j] = IF j < i THEN s[j] ELSE e
  BY <1>4
<1> HIDE DEF c
<1>6. /\ c \o b \in Seq(S)
      /\ Len(c \o b) = Len(c) + Len(b)
      /\ \A j \in 1..Len(c) + Len(b) :
           (c \o b)[j] = IF j <= Len(c) THEN c[j] ELSE b[j - Len(c)]
  BY <1>3, <1>5, ConcatProperties
<1>7. InsertAt(s, i, e) = c \o b
  BY DEF InsertAt, a, b, c
<1>8. Len(c) = i /\ Len(c) + Len(b) = Len(s) + 1
  BY <1>1, <1>3, <1>5
<1>9. ASSUME NEW j \in 1..Len(s) + 1
      PROVE  (c \o b)[j] = IF j < i THEN s[j] ELSE IF j = i THEN e ELSE s[j - 1]
  <2>1. CASE j <= i
    BY <1>1, <1>5, <1>6, <1>8, <2>1
  <2>2. CASE j > i
    <3>1. j - i \in 1..Len(s) - i + 1 /\ i + (j - i) - 1 = j - 1
      BY <1>1, <2>2
    <3>2. b[j - i] = s[j - 1]
      BY <1>3, <3>1
    <3>3. j \in 1..Len(c) + Len(b) /\ ~(j <= Len(c)) /\ j - Len(c) = j - i
      BY <1>8, <2>2
    <3>4. (c \o b)[j] = b[j - i]
      BY <1>6, <3>3
    <3> QED BY <2>2, <3>2, <3>4
  <2>3. j <= i \/ j > i
    BY <1>1
  <2> QED BY <2>1, <2>2, <2>3
<1> QED BY <1>6, <1>7, <1>8, <1>9

\* RemoveAt takes one element out and keeps the rest in order.
LEMMA RemoveAtProperties ==
  ASSUME NEW S, NEW s \in Seq(S), NEW i \in 1..Len(s)
  PROVE  /\ RemoveAt(s, i) \in Seq(S)
         /\ Len(RemoveAt(s, i)) = Len(s) - 1
         /\ \A j \in 1..Len(s) - 1 :
              RemoveAt(s, i)[j] = IF j < i THEN s[j] ELSE s[j + 1]
<1> DEFINE a == SubSeq(s, 1, i - 1)
           b == SubSeq(s, i + 1, Len(s))
<1>1. Len(s) \in Nat /\ \A j \in 1..Len(s) : s[j] \in S
  BY LenProperties, ElementOfSeq
<1>2. a \in Seq(S) /\ Len(a) = i - 1 /\ \A j \in 1..i - 1 : a[j] = s[j]
  BY <1>1, SubSeqProperties
<1>3. /\ b \in Seq(S) /\ Len(b) = Len(s) - i
      /\ \A j \in 1..Len(s) - i : b[j] = s[i + j]
  BY <1>1, SubSeqProperties
<1> HIDE DEF a, b
<1>4. /\ a \o b \in Seq(S)
      /\ Len(a \o b) = Len(a) + Len(b)
      /\ \A j \in 1..Len(a) + Len(b) :
           (a \o b)[j] = IF j <= Len(a) THEN a[j] ELSE b[j - Len(a)]
  BY <1>2, <1>3, ConcatProperties
<1>5. RemoveAt(s, i) = a \o b
  BY DEF RemoveAt, a, b
<1>6. Len(a) = i - 1 /\ Len(a) + Len(b) = Len(s) - 1
  BY <1>1, <1>2, <1>3
<1>7. ASSUME NEW j \in 1..Len(s) - 1
      PROVE  (a \o b)[j] = IF j < i THEN s[j] ELSE s[j + 1]
  <2>1. CASE j < i
    BY <1>1, <1>2, <1>4, <1>6, <2>1
  <2>2. CASE j >= i
    <3>1. j - (i - 1) \in 1..Len(s) - i /\ i + (j - (i - 1)) = j + 1
      BY <1>1, <2>2
    <3>2. b[j - (i - 1)] = s[j + 1]
      BY <1>3, <3>1
    <3>3. j \in 1..Len(a) + Len(b) /\ ~(j <= Len(a)) /\ j - Len(a) = j - (i - 1)
      BY <1>6, <2>2
    <3>4. (a \o b)[j] = b[j - (i - 1)]
      BY <1>4, <3>3
    <3> QED BY <2>2, <3>2, <3>4
  <2>3. j < i \/ j >= i
    BY <1>1
  <2> QED BY <2>1, <2>2, <2>3
<1> QED BY <1>4, <1>5, <1>6, <1>7

(***************************************************************************)
(* Inserting a new element, or removing one, keeps a sequence free of      *)
(* duplicates and changes its elements by that one.                        *)
(***************************************************************************)
LEMMA InsertAtKeepsInjective ==
  ASSUME NEW S, NEW s \in Seq(S), NEW i \in 1..Len(s) + 1, NEW e \in S,
         IsInjective(s), e \notin Range(s)
  PROVE  /\ IsInjective(InsertAt(s, i, e))
         /\ Range(InsertAt(s, i, e)) = Range(s) \cup {e}
<1> DEFINE t == InsertAt(s, i, e)
<1>1. Len(s) \in Nat /\ DOMAIN s = 1..Len(s)
  BY LenProperties
<1>2. /\ t \in Seq(S) /\ Len(t) = Len(s) + 1
      /\ \A j \in 1..Len(s) + 1 :
           t[j] = IF j < i THEN s[j] ELSE IF j = i THEN e ELSE s[j - 1]
  BY InsertAtProperties
<1> HIDE DEF t
<1>3. DOMAIN t = 1..Len(s) + 1
  BY <1>2, LenProperties
<1> DEFINE old(j) == IF j < i THEN j ELSE j - 1
<1>4. \A j \in 1..Len(s) + 1 : j # i => old(j) \in 1..Len(s) /\ t[j] = s[old(j)]
  BY <1>1, <1>2
<1>5. \A j \in 1..Len(s) : s[j] \in Range(s)
  BY <1>1 DEF Range
<1>6. t[i] = e
  BY <1>1, <1>2
<1>7. ASSUME NEW a \in 1..Len(s) + 1, NEW b \in 1..Len(s) + 1, t[a] = t[b]
      PROVE  a = b
  <2>1. CASE a = i
    BY <1>4, <1>5, <1>6, <1>7, <2>1
  <2>2. CASE b = i
    BY <1>4, <1>5, <1>6, <1>7, <2>2
  <2>3. CASE a # i /\ b # i
    <3>1. old(a) = old(b)
      BY <1>1, <1>4, <1>7, <2>3 DEF IsInjective
    <3> QED BY <1>1, <2>3, <3>1
  <2> QED BY <2>1, <2>2, <2>3
<1>8. IsInjective(t)
  BY <1>3, <1>7 DEF IsInjective
<1>9. Range(t) \subseteq Range(s) \cup {e}
  BY <1>3, <1>4, <1>5, <1>6 DEF Range
<1>10. ASSUME NEW x \in Range(s) PROVE x \in Range(t)
  <2>1. PICK j \in 1..Len(s) : x = s[j]
    BY <1>1 DEF Range
  <2>2. CASE j < i
    <3>1. j \in 1..Len(s) + 1 /\ t[j] = s[j]
      BY <1>1, <1>2, <2>2
    <3> QED BY <1>3, <2>1, <3>1 DEF Range
  <2>3. CASE j >= i
    <3>1. j + 1 \in 1..Len(s) + 1 /\ old(j + 1) = j /\ j + 1 # i
      BY <1>1, <2>3
    <3>2. t[j + 1] = s[j]
      BY <1>4, <3>1
    <3> QED BY <1>3, <2>1, <3>1, <3>2 DEF Range
  <2>4. j < i \/ j >= i
    BY <1>1
  <2> QED BY <2>2, <2>3, <2>4
<1>11. e \in Range(t)
  BY <1>3, <1>6 DEF Range
<1> QED BY <1>8, <1>9, <1>10, <1>11 DEF t

\* A sequence without repetitions has none after a removal either.
LEMMA RemoveAtKeepsInjective ==
  ASSUME NEW S, NEW s \in Seq(S), NEW i \in 1..Len(s), IsInjective(s)
  PROVE  /\ IsInjective(RemoveAt(s, i))
         /\ Range(RemoveAt(s, i)) = Range(s) \ {s[i]}
<1> DEFINE t == RemoveAt(s, i)
           old(j) == IF j < i THEN j ELSE j + 1
<1>1. Len(s) \in Nat /\ DOMAIN s = 1..Len(s)
  BY LenProperties
<1>2. /\ t \in Seq(S) /\ Len(t) = Len(s) - 1
      /\ \A j \in 1..Len(s) - 1 : t[j] = IF j < i THEN s[j] ELSE s[j + 1]
  BY RemoveAtProperties
<1> HIDE DEF t
<1>3. DOMAIN t = 1..Len(s) - 1
  BY <1>2, LenProperties
<1>4. \A j \in 1..Len(s) - 1 :
        old(j) \in 1..Len(s) /\ old(j) # i /\ t[j] = s[old(j)]
  BY <1>1, <1>2
<1>5. ASSUME NEW a \in 1..Len(s) - 1, NEW b \in 1..Len(s) - 1, t[a] = t[b]
      PROVE  a = b
  <2>1. old(a) = old(b)
    BY <1>1, <1>4, <1>5 DEF IsInjective
  <2> QED BY <1>1, <2>1
<1>6. IsInjective(t)
  BY <1>3, <1>5 DEF IsInjective
<1>7. ASSUME NEW x \in Range(t) PROVE x \in Range(s) /\ x # s[i]
  <2>1. PICK j \in 1..Len(s) - 1 : x = t[j]
    BY <1>3 DEF Range
  <2>2. old(j) \in 1..Len(s) /\ old(j) # i /\ x = s[old(j)]
    BY <1>4, <2>1
  <2> QED BY <1>1, <2>2 DEF Range, IsInjective
<1>8. ASSUME NEW x \in Range(s), x # s[i] PROVE x \in Range(t)
  <2>1. PICK j \in 1..Len(s) : x = s[j]
    BY <1>1 DEF Range
  <2>2. CASE j < i
    <3>1. j \in 1..Len(s) - 1 /\ t[j] = s[j]
      BY <1>1, <1>2, <2>2
    <3> QED BY <1>3, <2>1, <3>1 DEF Range
  <2>3. CASE j > i
    <3>1. j - 1 \in 1..Len(s) - 1 /\ old(j - 1) = j
      BY <1>1, <2>3
    <3>2. t[j - 1] = s[j]
      BY <1>4, <3>1
    <3> QED BY <1>3, <2>1, <3>1, <3>2 DEF Range
  <2>4. j < i \/ j > i
    BY <1>1, <1>8, <2>1
  <2> QED BY <2>2, <2>3, <2>4
<1> QED BY <1>6, <1>7, <1>8 DEF t

(***************************************************************************)
(* The place pcb_insert finds in the ready queue: every block before it    *)
(* has the same or a higher priority, every block from it on a lower one.  *)
(***************************************************************************)
LEMMA ReadyPositionProperties ==
  ASSUME NEW P, NEW S, \A x \in S : P[x].priority \in Nat,
         NEW s \in Seq(S), NEW p \in S, Ascending(P, s)
  PROVE  /\ ReadyPosition(P, s, p) \in 1..Len(s) + 1
         /\ \A i \in 1..Len(s) :
              /\ P[s[i]].priority \in Nat /\ P[p].priority \in Nat
              /\ i < ReadyPosition(P, s, p) => P[s[i]].priority <= P[p].priority
              /\ i >= ReadyPosition(P, s, p) => P[s[i]].priority > P[p].priority
<1> DEFINE lower == {i \in DOMAIN s : P[s[i]].priority > P[p].priority}
           all == lower \cup {Len(s) + 1}
           m == Min(all)
<1>1. Len(s) \in Nat /\ DOMAIN s = 1..Len(s)
  BY LenProperties
<1>4. \A j \in S : P[j].priority \in Nat
  OBVIOUS
<1>5. \A i \in 1..Len(s) : s[i] \in S
  BY ElementOfSeq
<1>6. all \in SUBSET Nat /\ all # {}
  BY <1>1
<1>7. m \in all /\ \A x \in all : m <= x
  <2> HIDE DEF all
  <2> QED BY <1>6, MinExists
<1>8. m \in 1..Len(s) + 1
  BY <1>1, <1>7
<1> HIDE DEF m
<1>9. ASSUME NEW i \in 1..Len(s), i < m
      PROVE  P[s[i]].priority <= P[p].priority
  <2>1. ~(m <= i)
    BY <1>1, <1>8, <1>9
  <2>2. i \notin all
    BY <1>7, <2>1
  <2> QED BY <1>1, <1>4, <1>5, <2>2
<1>10. ASSUME NEW i \in 1..Len(s), i >= m
       PROVE  P[s[i]].priority > P[p].priority
  <2>1. m \in 1..Len(s)
    BY <1>1, <1>8, <1>10
  <2>2. P[s[m]].priority > P[p].priority
    BY <1>1, <1>7, <2>1
  <2>3. CASE i = m
    BY <2>2, <2>3
  <2>4. CASE i > m
    <3>1. P[s[m]].priority <= P[s[i]].priority
      BY <1>1, <2>1, <2>4 DEF Ascending
    <3>2. /\ P[s[m]].priority \in Nat /\ P[s[i]].priority \in Nat
          /\ P[p].priority \in Nat
      BY <1>4, <1>5, <2>1
    <3> QED BY <2>2, <3>1, <3>2
  <2>5. i = m \/ i > m
    BY <1>1, <1>8, <1>10
  <2> QED BY <2>3, <2>4, <2>5
<1>11. ReadyPosition(P, s, p) = m
  BY DEF ReadyPosition, m
<1> QED BY <1>4, <1>5, <1>8, <1>9, <1>10, <1>11

(***************************************************************************)
(* Inserting there, or removing anywhere, keeps the priority order.        *)
(***************************************************************************)
LEMMA InsertKeepsAscending ==
  ASSUME NEW P, NEW S, \A x \in S : P[x].priority \in Nat,
         NEW s \in Seq(S), NEW p \in S, Ascending(P, s)
  PROVE  Ascending(P, InsertAt(s, ReadyPosition(P, s, p), p))
<1> DEFINE m == ReadyPosition(P, s, p)
           t == InsertAt(s, m, p)
<1>1. Len(s) \in Nat /\ DOMAIN s = 1..Len(s)
  BY LenProperties
<1>2. /\ m \in 1..Len(s) + 1
      /\ \A i \in 1..Len(s) :
           /\ P[s[i]].priority \in Nat /\ P[p].priority \in Nat
           /\ i < m => P[s[i]].priority <= P[p].priority
           /\ i >= m => P[s[i]].priority > P[p].priority
  BY ReadyPositionProperties
<1> HIDE DEF m
<1>3. /\ t \in Seq(S) /\ Len(t) = Len(s) + 1
      /\ \A j \in 1..Len(s) + 1 :
           t[j] = IF j < m THEN s[j] ELSE IF j = m THEN p ELSE s[j - 1]
  BY <1>2, InsertAtProperties
<1> HIDE DEF t
<1>4. DOMAIN t = 1..Len(s) + 1
  BY <1>3, LenProperties
<1>5. \A i, j \in 1..Len(s) : i < j => P[s[i]].priority <= P[s[j]].priority
  BY <1>1 DEF Ascending
<1>6. ASSUME NEW i \in 1..Len(s) + 1, NEW j \in 1..Len(s) + 1, i < j
      PROVE  P[t[i]].priority <= P[t[j]].priority
  <2>1. CASE j < m
    BY <1>1, <1>2, <1>3, <1>5, <1>6, <2>1
  <2>2. CASE j = m
    <3>1. i \in 1..Len(s) /\ t[i] = s[i] /\ t[j] = p
      BY <1>1, <1>2, <1>3, <1>6, <2>2
    <3> QED BY <1>2, <1>6, <2>2, <3>1
  <2>3. CASE j > m /\ i = m
    <3>1. j - 1 \in 1..Len(s) /\ j - 1 >= m /\ t[j] = s[j - 1] /\ t[i] = p
      BY <1>1, <1>2, <1>3, <2>3
    <3> QED BY <1>2, <3>1
  <2>4. CASE j > m /\ i < m
    <3>1. /\ j - 1 \in 1..Len(s) /\ t[j] = s[j - 1]
          /\ i \in 1..Len(s) /\ i < j - 1 /\ t[i] = s[i]
      BY <1>1, <1>2, <1>3, <2>4
    <3> QED BY <1>5, <3>1
  <2>5. CASE j > m /\ i > m
    <3>1. /\ j - 1 \in 1..Len(s) /\ t[j] = s[j - 1]
          /\ i - 1 \in 1..Len(s) /\ i - 1 < j - 1 /\ t[i] = s[i - 1]
      BY <1>1, <1>2, <1>3, <1>6, <2>5
    <3> QED BY <1>5, <3>1
  <2>6. j < m \/ j = m \/ (j > m /\ (i = m \/ i < m \/ i > m))
    BY <1>1, <1>2
  <2> QED BY <2>1, <2>2, <2>3, <2>4, <2>5, <2>6
<1> QED BY <1>4, <1>6 DEF Ascending, t, m

\* pcb_remove keeps the priority order.
LEMMA RemoveKeepsAscending ==
  ASSUME NEW P, NEW S, NEW s \in Seq(S), NEW m \in 1..Len(s), Ascending(P, s)
  PROVE  Ascending(P, RemoveAt(s, m))
<1> DEFINE t == RemoveAt(s, m)
           old(j) == IF j < m THEN j ELSE j + 1
<1>1. Len(s) \in Nat /\ DOMAIN s = 1..Len(s)
  BY LenProperties
<1>2. /\ t \in Seq(S) /\ Len(t) = Len(s) - 1
      /\ \A j \in 1..Len(s) - 1 : t[j] = IF j < m THEN s[j] ELSE s[j + 1]
  BY RemoveAtProperties
<1> HIDE DEF t
<1>3. DOMAIN t = 1..Len(s) - 1
  BY <1>2, LenProperties
<1>4. \A j \in 1..Len(s) - 1 : old(j) \in 1..Len(s) /\ t[j] = s[old(j)]
  BY <1>1, <1>2
<1>5. \A i, j \in 1..Len(s) - 1 : i < j => old(i) < old(j)
  BY <1>1
<1> HIDE DEF old
<1>6. ASSUME NEW i \in 1..Len(s) - 1, NEW j \in 1..Len(s) - 1, i < j
      PROVE  P[t[i]].priority <= P[t[j]].priority
  BY <1>1, <1>4, <1>5, <1>6 DEF Ascending
<1> QED BY <1>3, <1>6 DEF Ascending, t

\* Every block belongs to one of the four queues.
LEMMA QueueForType == \A r : QueueFor(r) \in QueueName
  BY DEF QueueFor, QueueName

\* What pcb_insert and pcb_remove rely on of the queues, whatever the table:
\* its blocks are the set S.
GoodQueues(P, S, Q) == /\ Q \in [QueueName -> Seq(S)]
                       /\ OwnQueue(P, Q)
                       /\ Ascending(P, Q["ready"])

\* What the types of the queues say, spelled out.
LEMMA QueueFacts ==
  ASSUME NEW S, NEW Q \in [QueueName -> Seq(S)]
  PROVE  /\ \A q \in QueueName :
              /\ Q[q] \in Seq(S)
              /\ Len(Q[q]) \in Nat /\ DOMAIN Q[q] = 1..Len(Q[q])
              /\ Range(Q[q]) \subseteq S
              /\ Range(Q[q]) \subseteq Queued(Q)
         /\ Queued(Q) \subseteq S
<1>1. ASSUME NEW q \in QueueName
      PROVE  /\ Q[q] \in Seq(S)
             /\ Len(Q[q]) \in Nat /\ DOMAIN Q[q] = 1..Len(Q[q])
             /\ Range(Q[q]) \subseteq S
             /\ Range(Q[q]) \subseteq Queued(Q)
  <2>1. Q[q] \in Seq(S)
    OBVIOUS
  <2>2. Len(Q[q]) \in Nat /\ DOMAIN Q[q] = 1..Len(Q[q])
    BY <2>1, LenProperties
  <2>3. \A i \in 1..Len(Q[q]) : Q[q][i] \in S
    BY <2>1, ElementOfSeq
  <2> QED BY <2>1, <2>2, <2>3 DEF Range, Queued
<1>2. Queued(Q) \subseteq S
  BY <1>1 DEF Queued
<1> QED BY <1>1, <1>2

\* What the types of the table and of the queues say, spelled out.
LEMMA StoreFacts ==
  ASSUME NEW P, NEW Q, StoreType(P, Q)
  PROVE  /\ Len(P) \in Nat /\ DOMAIN P = 1..Len(P)
         /\ \A p \in 1..Len(P) : P[p] \in PcbRec
         /\ \A q \in QueueName :
              /\ Q[q] \in Seq(1..Len(P))
              /\ Len(Q[q]) \in Nat /\ DOMAIN Q[q] = 1..Len(Q[q])
              /\ Range(Q[q]) \subseteq 1..Len(P)
              /\ Range(Q[q]) \subseteq Queued(Q)
         /\ Queued(Q) \subseteq 1..Len(P)
<1>1. Len(P) \in Nat /\ DOMAIN P = 1..Len(P) /\ \A p \in 1..Len(P) : P[p] \in PcbRec
  BY LenProperties, ElementOfSeq DEF StoreType
<1>2. Q \in [QueueName -> Seq(1..Len(P))]
  BY DEF StoreType
<1> QED BY <1>1, <1>2, QueueFacts

\* The queues of a good store are good, and priorities are numbers.
LEMMA GoodStoreFacts ==
  ASSUME NEW P, NEW Q, GoodStore(P, Q)
  PROVE  /\ P \in Seq(PcbRec) /\ GoodQueues(P, 1..Len(P), Q)
         /\ \A x \in 1..Len(P) : P[x].priority \in Nat
<1>1. StoreType(P, Q) /\ OwnQueue(P, Q) /\ Ascending(P, Q["ready"])
  BY DEF GoodStore
<1>2. \A x \in 1..Len(P) : P[x] \in PcbRec
  BY <1>1, StoreFacts
<1>3. \A x \in 1..Len(P) : P[x].priority \in 0..MaxPriority
  BY <1>2 DEF PcbRec
<1>4. \A x \in 1..Len(P) : P[x].priority \in Nat
  BY <1>3, PcbAssumption
<1> QED BY <1>1, <1>4 DEF GoodQueues, StoreType

(***************************************************************************)
(* pcb_insert of a block that is in no queue.                              *)
(***************************************************************************)
LEMMA EnqueueKeepsQueues ==
  ASSUME NEW P, NEW S, \A x \in S : P[x].priority \in Nat,
         NEW Q, GoodQueues(P, S, Q), NEW p \in S, p \notin Queued(Q)
  PROVE  /\ GoodQueues(P, S, Enqueue(P, Q, p))
         /\ Queued(Enqueue(P, Q, p)) = Queued(Q) \cup {p}
         /\ InsertPosition(P, Q, p) \in 1..Len(Q[QueueFor(P[p])]) + 1
<1> DEFINE q == QueueFor(P[p])
           s == Q[q]
           m == InsertPosition(P, Q, p)
           t == InsertAt(s, m, p)
           R == [Q EXCEPT ![q] = t]
<1>1. Q \in [QueueName -> Seq(S)] /\ OwnQueue(P, Q) /\ Ascending(P, Q["ready"])
  BY DEF GoodQueues
<1>2. Q \in [QueueName -> Seq(S)]
  BY <1>1
<1>3. q \in QueueName
  BY QueueForType
<1>4. /\ s \in Seq(S) /\ Len(s) \in Nat
      /\ Range(s) \subseteq S /\ p \notin Range(s)
  BY <1>1, <1>3, QueueFacts
<1>5. m \in 1..Len(s) + 1
  <2>1. CASE q = "ready"
    <3>1. ReadyPosition(P, s, p) \in 1..Len(s) + 1
      BY <1>1, <1>2, <1>4, <2>1, ReadyPositionProperties
    <3> QED BY <2>1, <3>1 DEF InsertPosition
  <2>2. CASE q # "ready"
    BY <1>4, <2>2 DEF InsertPosition
  <2> QED BY <2>1, <2>2
<1>6. IsInjective(s) /\ \A x \in Range(s) : QueueFor(P[x]) = q
  BY <1>1, <1>3 DEF OwnQueue
<1>7. IsInjective(t) /\ Range(t) = Range(s) \cup {p}
  BY <1>4, <1>5, <1>6, InsertAtKeepsInjective
<1>8. t \in Seq(S)
  BY <1>4, <1>5, InsertAtProperties
<1>9. q = "ready" => Ascending(P, t)
  <2> SUFFICES ASSUME q = "ready" PROVE Ascending(P, t)
    OBVIOUS
  <2>1. m = ReadyPosition(P, s, p)
    BY DEF InsertPosition
  <2> QED BY <1>1, <1>2, <1>4, <2>1, InsertKeepsAscending
<1> HIDE DEF t, s, m
<1>10. Enqueue(P, Q, p) = R
  BY DEF Enqueue, t, s, m
<1> HIDE DEF q
<1>11. R \in [QueueName -> Seq(S)]
  BY <1>2, <1>3, <1>8
<1>12. R[q] = t /\ \A x \in QueueName : x # q => R[x] = Q[x]
  BY <1>2, <1>3
<1>13. Range(t) = Range(Q[q]) \cup {p}
  BY <1>7 DEF s
<1> HIDE DEF R
<1>14. Queued(R) = Queued(Q) \cup {p}
  BY <1>3, <1>12, <1>13 DEF Queued
<1>15. ASSUME NEW x \in QueueName
       PROVE  IsInjective(R[x]) /\ \A y \in Range(R[x]) : QueueFor(P[y]) = x
  <2>1. CASE x = q
    BY <1>6, <1>7, <1>12, <2>1 DEF q
  <2>2. CASE x # q
    BY <1>1, <1>12, <2>2 DEF OwnQueue
  <2> QED BY <2>1, <2>2
<1>16. Ascending(P, R["ready"])
  <2>1. "ready" \in QueueName
    BY DEF QueueName
  <2> QED BY <1>1, <1>9, <1>12, <2>1
<1>17. GoodQueues(P, S, R)
  BY <1>2, <1>11, <1>15, <1>16 DEF GoodQueues, OwnQueue
<1> QED BY <1>5, <1>10, <1>14, <1>17 DEF q, s, m

\* The same of a table of control blocks and its queues.
LEMMA EnqueueKeepsGood ==
  ASSUME NEW P, NEW Q, GoodStore(P, Q),
         NEW p \in 1..Len(P), p \notin Queued(Q)
  PROVE  /\ GoodStore(P, Enqueue(P, Q, p))
         /\ Queued(Enqueue(P, Q, p)) = Queued(Q) \cup {p}
<1> DEFINE S == 1..Len(P)
<1>1. /\ GoodQueues(P, S, Q) /\ \A x \in S : P[x].priority \in Nat
      /\ P \in Seq(PcbRec)
  BY GoodStoreFacts
<1> HIDE DEF S
<1>2. p \in S
  BY DEF S
<1>3. /\ GoodQueues(P, S, Enqueue(P, Q, p))
      /\ Queued(Enqueue(P, Q, p)) = Queued(Q) \cup {p}
  BY <1>1, <1>2, EnqueueKeepsQueues
<1> QED BY <1>1, <1>3 DEF GoodQueues, GoodStore, StoreType, S

(***************************************************************************)
(* pcb_remove of a block that is in some queue.                            *)
(***************************************************************************)
LEMMA DequeueKeepsQueues ==
  ASSUME NEW P, NEW S, NEW Q, GoodQueues(P, S, Q), NEW p \in Queued(Q)
  PROVE  /\ GoodQueues(P, S, Dequeue(P, Q, p))
         /\ Queued(Dequeue(P, Q, p)) = Queued(Q) \ {p}
         /\ p \in Range(Q[QueueFor(P[p])])
<1> DEFINE q == QueueFor(P[p])
           s == Q[q]
           m == PositionOf(s, p)
           t == RemoveAt(s, m)
           R == [Q EXCEPT ![q] = t]
<1>1. Q \in [QueueName -> Seq(S)] /\ OwnQueue(P, Q) /\ Ascending(P, Q["ready"])
  BY DEF GoodQueues
<1>2. Q \in [QueueName -> Seq(S)]
  BY <1>1
<1>3. q \in QueueName
  BY QueueForType
<1>4. \A x \in QueueName : p \in Range(Q[x]) => x = q
  BY <1>1 DEF OwnQueue
<1>5. p \in Range(s)
  BY <1>4 DEF Queued
<1>6. s \in Seq(S) /\ Len(s) \in Nat /\ DOMAIN s = 1..Len(s)
  BY <1>1, <1>3, QueueFacts
<1>7. IsInjective(s) /\ \A x \in Range(s) : QueueFor(P[x]) = q
  BY <1>1, <1>3 DEF OwnQueue
<1> HIDE DEF s
<1>8. m \in 1..Len(s) /\ s[m] = p
  <2>1. \E i \in DOMAIN s : s[i] = p
    BY <1>5 DEF Range
  <2> QED BY <1>6, <2>1 DEF PositionOf
<1> HIDE DEF m
<1>9. IsInjective(t) /\ Range(t) = Range(s) \ {p}
  BY <1>6, <1>7, <1>8, RemoveAtKeepsInjective
<1>10. t \in Seq(S)
  BY <1>6, <1>8, RemoveAtProperties
<1>11. Ascending(P, s) => Ascending(P, t)
  BY <1>6, <1>8, RemoveKeepsAscending
<1>12. Dequeue(P, Q, p) = R
  BY <1>5 DEF Dequeue, Unlink, s, m
<1> HIDE DEF q, t
<1>13. R \in [QueueName -> Seq(S)]
  BY <1>2, <1>3, <1>10
<1>14. R[q] = t /\ \A x \in QueueName : x # q => R[x] = Q[x]
  BY <1>2, <1>3
<1>15. Range(t) = Range(Q[q]) \ {p}
  BY <1>9 DEF s
<1> HIDE DEF R
<1>16. Queued(R) = Queued(Q) \ {p}
  BY <1>3, <1>4, <1>14, <1>15 DEF Queued
<1>17. ASSUME NEW x \in QueueName
       PROVE  IsInjective(R[x]) /\ \A y \in Range(R[x]) : QueueFor(P[y]) = x
  <2>1. CASE x = q
    BY <1>7, <1>9, <1>14, <2>1
  <2>2. CASE x # q
    BY <1>1, <1>14, <2>2 DEF OwnQueue
  <2> QED BY <2>1, <2>2
<1>18. Ascending(P, R["ready"])
  <2>1. "ready" \in QueueName
    BY DEF QueueName
  <2>2. CASE q = "ready"
    BY <1>1, <1>11, <1>14, <2>2 DEF s
  <2>3. CASE q # "ready"
    BY <1>1, <1>14, <2>1, <2>3
  <2> QED BY <2>2, <2>3
<1>19. GoodQueues(P, S, R)
  BY <1>2, <1>13, <1>17, <1>18 DEF GoodQueues, OwnQueue
<1> QED BY <1>5, <1>12, <1>16, <1>19 DEF q, s

\* The same of a table of control blocks and its queues.
LEMMA DequeueKeepsGood ==
  ASSUME NEW P, NEW Q, GoodStore(P, Q), NEW p \in Queued(Q)
  PROVE  /\ GoodStore(P, Dequeue(P, Q, p))
         /\ Queued(Dequeue(P, Q, p)) = Queued(Q) \ {p}
<1>1. GoodQueues(P, 1..Len(P), Q) /\ P \in Seq(PcbRec)
  BY GoodStoreFacts
<1>2. /\ GoodQueues(P, 1..Len(P), Dequeue(P, Q, p))
      /\ Queued(Dequeue(P, Q, p)) = Queued(Q) \ {p}
  BY <1>1, DequeueKeepsQueues
<1> QED BY <1>1, <1>2 DEF GoodQueues, GoodStore, StoreType

(***************************************************************************)
(* A block that is in no queue may change.                                 *)
(***************************************************************************)
LEMMA UpdateKeepsGood ==
  ASSUME NEW P, NEW Q, GoodStore(P, Q),
         NEW p \in 1..Len(P), p \notin Queued(Q), NEW r \in PcbRec
  PROVE  /\ GoodStore([P EXCEPT ![p] = r], Q)
         /\ Len([P EXCEPT ![p] = r]) = Len(P)
         /\ [P EXCEPT ![p] = r][p] = r
         /\ \A x \in 1..Len(P) : x # p => [P EXCEPT ![p] = r][x] = P[x]
<1> DEFINE U == [P EXCEPT ![p] = r]
<1>1. StoreType(P, Q) /\ OwnQueue(P, Q) /\ Ascending(P, Q["ready"])
  BY DEF GoodStore
<1>2. /\ U \in Seq(PcbRec) /\ Len(U) = Len(P) /\ U[p] = r
      /\ \A x \in 1..Len(P) : x # p => U[x] = P[x]
  BY <1>1, ExceptSeq DEF StoreType
<1> HIDE DEF U
<1>3. \A x \in Queued(Q) : U[x] = P[x]
  BY <1>1, <1>2, StoreFacts
<1>4. \A q \in QueueName : \A x \in Range(Q[q]) : U[x] = P[x]
  BY <1>3 DEF Queued
<1>5. "ready" \in QueueName
  BY DEF QueueName
<1>6. \A i \in DOMAIN Q["ready"] : U[Q["ready"][i]] = P[Q["ready"][i]]
  BY <1>4, <1>5 DEF Range
<1>7. StoreType(U, Q)
  BY <1>1, <1>2 DEF StoreType
<1>8. OwnQueue(U, Q)
  BY <1>1, <1>4 DEF OwnQueue
<1>9. Ascending(U, Q["ready"])
  BY <1>1, <1>6 DEF Ascending
<1> QED BY <1>2, <1>7, <1>8, <1>9 DEF GoodStore, U

(***************************************************************************)
(* A new block is in no queue.                                             *)
(***************************************************************************)
LEMMA AppendKeepsGood ==
  ASSUME NEW P, NEW Q, GoodStore(P, Q), NEW r \in PcbRec
  PROVE  /\ GoodStore(Append(P, r), Q)
         /\ Len(Append(P, r)) = Len(P) + 1
         /\ Append(P, r)[Len(P) + 1] = r
         /\ \A x \in 1..Len(P) : Append(P, r)[x] = P[x]
         /\ Len(P) + 1 \notin Queued(Q)
<1> DEFINE U == Append(P, r)
<1>1. StoreType(P, Q) /\ OwnQueue(P, Q) /\ Ascending(P, Q["ready"])
  BY DEF GoodStore
<1>2. /\ U \in Seq(PcbRec) /\ Len(U) = Len(P) + 1 /\ U[Len(P) + 1] = r
      /\ \A x \in 1..Len(P) : U[x] = P[x]
  BY <1>1, AppendProperties DEF StoreType
<1> HIDE DEF U
<1>3. Len(P) \in Nat /\ Queued(Q) \subseteq 1..Len(P)
  BY <1>1, StoreFacts
<1>4. \A x \in Queued(Q) : U[x] = P[x]
  BY <1>2, <1>3
<1>5. \A q \in QueueName : \A x \in Range(Q[q]) : U[x] = P[x]
  BY <1>4 DEF Queued
<1>6. "ready" \in QueueName
  BY DEF QueueName
<1>7. \A i \in DOMAIN Q["ready"] : U[Q["ready"][i]] = P[Q["ready"][i]]
  BY <1>5, <1>6 DEF Range
<1>8. StoreType(U, Q)
  <2>1. 1..Len(P) \subseteq 1..Len(P) + 1
    BY <1>3
  <2>2. \A q \in QueueName : Q[q] \in Seq(1..Len(P) + 1)
    BY <1>1, <2>1, SeqMonotonic DEF StoreType
  <2> QED BY <1>1, <1>2, <2>2 DEF StoreType
<1>9. OwnQueue(U, Q)
  BY <1>1, <1>5 DEF OwnQueue
<1>10. Ascending(U, Q["ready"])
  BY <1>1, <1>7 DEF Ascending
<1>11. Len(P) + 1 \notin Queued(Q)
  BY <1>3
<1> QED BY <1>2, <1>8, <1>9, <1>10, <1>11 DEF GoodStore, U

(***************************************************************************)
(* The head of a queue, if there is one, is in it; that of the ready queue *)
(* has the highest priority of all.                                        *)
(***************************************************************************)
LEMMA HeadProperties ==
  ASSUME NEW P, NEW Q, GoodStore(P, Q), NEW q \in QueueName
  PROVE  /\ HeadOf(Q[q]) = NULL <=> Q[q] = <<>>
         /\ HeadOf(Q[q]) # NULL => HeadOf(Q[q]) \in Range(Q[q])
         /\ q = "ready" /\ HeadOf(Q[q]) # NULL =>
              \A p \in Range(Q[q]) : P[HeadOf(Q[q])].priority <= P[p].priority
<1> DEFINE s == Q[q]
<1>1. StoreType(P, Q) /\ Ascending(P, Q["ready"])
  BY DEF GoodStore
<1>2. /\ s \in Seq(1..Len(P)) /\ Len(s) \in Nat /\ DOMAIN s = 1..Len(s)
      /\ Len(P) \in Nat /\ \A x \in 1..Len(P) : P[x] \in PcbRec
      /\ Range(s) \subseteq 1..Len(P)
  BY <1>1, StoreFacts
<1>3. CASE s = <<>>
  BY <1>3 DEF HeadOf
<1>4. CASE s # <<>>
  <2>1. 1 \in 1..Len(s) /\ HeadOf(s) = s[1] /\ s[1] \in 1..Len(P)
    BY <1>2, <1>4, EmptySeq, ElementOfSeq DEF HeadOf
  <2>2. HeadOf(s) # NULL /\ HeadOf(s) \in Range(s)
    BY <1>2, <2>1 DEF NULL, Range
  <2>3. ASSUME q = "ready", NEW p \in Range(s)
        PROVE  P[s[1]].priority <= P[p].priority
    <3>1. PICK i \in 1..Len(s) : p = s[i]
      BY <1>2 DEF Range
    <3>2. P[s[1]] \in PcbRec
      BY <1>2, <2>1
    <3>3. P[s[1]].priority \in 0..MaxPriority
      BY <3>2 DEF PcbRec
    <3>4. CASE i = 1
      BY <3>1, <3>3, <3>4, PcbAssumption
    <3>5. CASE i > 1
      BY <1>1, <1>2, <2>1, <2>3, <3>1, <3>5 DEF Ascending
    <3>6. i = 1 \/ i > 1
      BY <1>2
    <3> QED BY <3>4, <3>5, <3>6
  <2> QED BY <1>4, <2>1, <2>2, <2>3
<1> QED BY <1>3, <1>4

\* The elements of two sequences that pcb_find searches in turn.
LEMMA RangeConcat ==
  ASSUME NEW S, NEW s \in Seq(S), NEW t \in Seq(S)
  PROVE  s \o t \in Seq(S) /\ Range(s \o t) = Range(s) \cup Range(t)
<1>1. /\ Len(s) \in Nat /\ DOMAIN s = 1..Len(s)
      /\ Len(t) \in Nat /\ DOMAIN t = 1..Len(t)
  BY LenProperties
<1> DEFINE c == s \o t
<1>2. /\ c \in Seq(S) /\ Len(c) = Len(s) + Len(t)
      /\ \A i \in 1..Len(s) + Len(t) :
           c[i] = IF i <= Len(s) THEN s[i] ELSE t[i - Len(s)]
  BY ConcatProperties
<1> HIDE DEF c
<1>3. DOMAIN c = 1..Len(s) + Len(t)
  BY <1>2, LenProperties
<1>4. ASSUME NEW x \in Range(c) PROVE x \in Range(s) \cup Range(t)
  <2>1. PICK i \in 1..Len(s) + Len(t) : x = c[i]
    BY <1>3 DEF Range
  <2>2. CASE i <= Len(s)
    <3>1. i \in 1..Len(s) /\ x = s[i]
      BY <1>1, <1>2, <2>1, <2>2
    <3> QED BY <1>1, <3>1 DEF Range
  <2>3. CASE i > Len(s)
    <3>1. i - Len(s) \in 1..Len(t) /\ x = t[i - Len(s)]
      BY <1>1, <1>2, <2>1, <2>3
    <3> QED BY <1>1, <3>1 DEF Range
  <2>4. i <= Len(s) \/ i > Len(s)
    BY <1>1
  <2> QED BY <2>2, <2>3, <2>4
<1>5. ASSUME NEW x \in Range(s) PROVE x \in Range(c)
  <2>1. PICK i \in 1..Len(s) : x = s[i]
    BY <1>1 DEF Range
  <2>2. i \in 1..Len(s) + Len(t) /\ c[i] = x
    BY <1>1, <1>2, <2>1
  <2> QED BY <1>3, <2>2 DEF Range
<1>6. ASSUME NEW x \in Range(t) PROVE x \in Range(c)
  <2>1. PICK i \in 1..Len(t) : x = t[i]
    BY <1>1 DEF Range
  <2>2. /\ i + Len(s) \in 1..Len(s) + Len(t) /\ ~(i + Len(s) <= Len(s))
        /\ (i + Len(s)) - Len(s) = i
    BY <1>1
  <2>3. c[i + Len(s)] = x
    BY <1>2, <2>1, <2>2
  <2> QED BY <1>3, <2>2, <2>3 DEF Range
<1> QED BY <1>2, <1>4, <1>5, <1>6 DEF c

(***************************************************************************)
(* pcb_find finds a queued block of the name, and NULL only if there is    *)
(* none.                                                                   *)
(***************************************************************************)
LEMMA FindProperties ==
  ASSUME NEW P, NEW Q, GoodStore(P, Q), NEW name
  PROVE  \/ /\ Find(P, Q, name) = NULL
            /\ \A p \in Queued(Q) : P[p].name # name
         \/ /\ Find(P, Q, name) \in Queued(Q)
            /\ Find(P, Q, name) # NULL
            /\ P[Find(P, Q, name)].name = name
<1> DEFINE all == SearchOrder(Q)
           hits == {i \in DOMAIN all : P[all[i]].name = name}
<1>1. StoreType(P, Q)
  BY DEF GoodStore
<1>2. /\ Q["ready"] \in Seq(1..Len(P)) /\ Q["blocked"] \in Seq(1..Len(P))
      /\ Q["suspended_ready"] \in Seq(1..Len(P))
      /\ Q["suspended_blocked"] \in Seq(1..Len(P))
  BY <1>1 DEF StoreType, QueueName
<1>3. /\ all \in Seq(1..Len(P))
      /\ Range(all) = Range(Q["ready"]) \cup Range(Q["blocked"])
           \cup Range(Q["suspended_ready"]) \cup Range(Q["suspended_blocked"])
  <2> DEFINE two == Q["ready"] \o Q["blocked"]
             three == two \o Q["suspended_ready"]
  <2>1. /\ two \in Seq(1..Len(P))
        /\ Range(two) = Range(Q["ready"]) \cup Range(Q["blocked"])
    BY <1>2, RangeConcat
  <2> HIDE DEF two
  <2>2. /\ three \in Seq(1..Len(P))
        /\ Range(three) = Range(two) \cup Range(Q["suspended_ready"])
    BY <1>2, <2>1, RangeConcat
  <2>3. all = three \o Q["suspended_blocked"]
    BY DEF SearchOrder, two
  <2> HIDE DEF three
  <2>4. /\ all \in Seq(1..Len(P))
        /\ Range(all) = Range(three) \cup Range(Q["suspended_blocked"])
    BY <1>2, <2>2, <2>3, RangeConcat
  <2> QED BY <2>1, <2>2, <2>4
<1> HIDE DEF all
<1>4. Range(all) = Queued(Q)
  BY <1>3 DEF Queued, QueueName
<1>5. DOMAIN all = 1..Len(all) /\ Len(all) \in Nat
  BY <1>3, LenProperties
<1>6. Find(P, Q, name) = IF hits = {} THEN NULL ELSE all[Min(hits)]
  BY DEF Find, all
<1>7. CASE hits = {}
  <2>1. \A p \in Queued(Q) : P[p].name # name
    BY <1>4, <1>7 DEF Range
  <2> QED BY <1>6, <1>7, <2>1
<1>8. CASE hits # {}
  <2>1. hits \in SUBSET Nat
    BY <1>5
  <2>2. Min(hits) \in hits
    BY <1>8, <2>1, MinExists
  <2>3. all[Min(hits)] \in Range(all) /\ P[all[Min(hits)]].name = name
    BY <2>2 DEF Range
  <2>4. \A p \in Queued(Q) : p # NULL
    BY <1>1, StoreFacts DEF NULL
  <2> QED BY <1>4, <1>6, <1>8, <2>3, <2>4
<1> QED BY <1>7, <1>8

=============================================================================
