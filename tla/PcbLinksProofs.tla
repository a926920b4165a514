--------------------------- MODULE PcbLinksProofs ---------------------------
(***************************************************************************)
(* The links of kernel/pcb.c implement the queues, for every number of     *)
(* control blocks and of priorities.                                       *)
(*                                                                         *)
(* Represents(Q) says that the links are those of the sequences Q.  Under  *)
(* it a walk along next visits the blocks of a queue in order              *)
(* (ListIsQueue), so that Q is what ListOf reads, and the loop of          *)
(* pcb_insert stops at ReadyPosition (LoopFindsPosition).  Writing the     *)
(* links of a block and of its two neighbours then turns the links of Q    *)
(* into the links of Enqueue(pcb, Q, p) or of Dequeue(pcb, Q, p).          *)
(***************************************************************************)
EXTENDS PcbLinks, PcbProofs, FiniteSetTheorems

Links == Block \cup {NULL}

LinksType == /\ pcb \in [Block -> States]
             /\ next \in [Block -> Links] /\ prev \in [Block -> Links]
             /\ head \in [QueueName -> Links] /\ tail \in [QueueName -> Links]

\* The block at a place of a sequence, NULL before its head and past its tail.
Place(s, i) == IF i \in 1..Len(s) THEN s[i] ELSE NULL

\* The links of queue q are those of the sequence s.
Spells(s, q) == /\ head[q] = Place(s, 1) /\ tail[q] = Place(s, Len(s))
                /\ \A i \in 1..Len(s) : /\ next[s[i]] = Place(s, i + 1)
                                        /\ prev[s[i]] = Place(s, i - 1)

Represents(Q) ==
  /\ GoodQueues(pcb, Block, Q)
  /\ Queued(Q) = linked
  /\ \A q \in QueueName : Spells(Q[q], q)
  /\ \A p \in Block \ linked : next[p] = NULL /\ prev[p] = NULL

\* The queues as ListOf reads them, and the inductive invariant.
Lists == [q \in QueueName |-> ListOf(q)]

LinksInv == LinksType /\ Represents(Lists)

----------------------------------------------------------------------------
\* Priorities are numbers, in every table of blocks.
LEMMA PrioritiesAreNumbers ==
  ASSUME NEW P \in [Block -> States]
  PROVE  \A x \in Block : P[x].priority \in Nat
<1>1. \A x \in Block : P[x] \in States
  OBVIOUS
<1>2. \A x \in Block : P[x].priority \in 0..MaxPriority
  BY <1>1 DEF States
<1> QED BY <1>2, PcbAssumption

\* The interval 1..n has n members.
LEMMA IntervalSize ==
  ASSUME NEW n \in Nat
  PROVE  IsFiniteSet(1..n) /\ Cardinality(1..n) = n
<1>1. IsFiniteSet(1..n) /\ Cardinality(1..n) = IF 1 > n THEN 0 ELSE n - 1 + 1
  BY FS_Interval
<1> QED BY <1>1

\* A queue cannot be longer than there are blocks: it holds a block once.
LEMMA QueueIsShort ==
  ASSUME NEW s \in Seq(Block), IsInjective(s)
  PROVE  Len(s) <= Blocks
<1>1. /\ Len(s) \in Nat /\ DOMAIN s = 1..Len(s)
      /\ \A i \in 1..Len(s) : s[i] \in Block
  BY LenProperties, ElementOfSeq
<1>2. s \in [1..Len(s) -> Block]
  BY SeqDef, <1>1
<1>3. s \in Injection(1..Len(s), Block)
  BY <1>1, <1>2 DEF Injection, IsInjective
<1>4. Cardinality(1..Len(s)) = Len(s)
  BY <1>1, IntervalSize
<1>5. IsFiniteSet(Block) /\ Cardinality(Block) = Blocks
  BY BlocksAssumption, IntervalSize DEF Block
<1> QED BY <1>3, <1>4, <1>5, FS_Injection

\* A set of naturals that is not empty has a least member.
LEMMA LeastExists ==
  ASSUME NEW S \in SUBSET Nat, S # {}
  PROVE  \E n \in S : \A i \in S : n <= i
  BY MinExists

(***************************************************************************)
(* Following next from the head visits the blocks of the queue in order:   *)
(* the walk is the sequence, then NULL.                                    *)
(***************************************************************************)
LEMMA ListIsQueue ==
  ASSUME NEW q, NEW s \in Seq(Block), IsInjective(s), Spells(s, q)
  PROVE  ListOf(q) = s
<1> DEFINE Step(f, n) == IF n = 1 THEN head[q]
                         ELSE IF f[n - 1] = NULL THEN NULL ELSE next[f[n - 1]]
           c == CHOOSE cur : cur = [n \in 1..Blocks |-> Step(cur, n)]
           g == [n \in 1..Blocks |-> IF n <= Len(s) THEN s[n] ELSE NULL]
<1>1. /\ Len(s) \in Nat /\ Len(s) <= Blocks /\ Blocks \in Nat
      /\ \A i \in 1..Len(s) : s[i] \in Block /\ s[i] # NULL
      /\ s = [i \in 1..Len(s) |-> s[i]]
  <2>1. \A i \in 1..Len(s) : s[i] \in Block
    BY ElementOfSeq
  <2> QED BY <2>1, LenProperties, QueueIsShort, SeqDef, BlocksAssumption DEF Block, NULL
<1>2. /\ head[q] = IF Len(s) = 0 THEN NULL ELSE s[1]
      /\ \A i \in 1..Len(s) : next[s[i]] = IF i = Len(s) THEN NULL ELSE s[i + 1]
  BY <1>1 DEF Spells, Place
<1>3. \A n \in 1..Blocks : Step(g, n) = g[n]
  <2> SUFFICES ASSUME NEW n \in 1..Blocks PROVE Step(g, n) = g[n]
    OBVIOUS
  <2>1. CASE n = 1
    BY <1>1, <1>2, <2>1
  <2>2. CASE n # 1 /\ n - 1 <= Len(s)
    <3>1. /\ n - 1 \in 1..Len(s) /\ n - 1 \in 1..Blocks /\ g[n - 1] = s[n - 1]
          /\ n - 1 + 1 = n
      BY <1>1, <2>2
    <3>2. Step(g, n) = next[s[n - 1]]
      BY <1>1, <2>2, <3>1
    <3>3. next[s[n - 1]] = IF n - 1 = Len(s) THEN NULL ELSE s[n - 1 + 1]
      BY <1>2, <3>1
    <3> QED BY <1>1, <2>2, <3>1, <3>2, <3>3
  <2>3. CASE n # 1 /\ ~(n - 1 <= Len(s))
    BY <1>1, <2>3
  <2> QED BY <2>1, <2>2, <2>3
<1>4. g = [n \in 1..Blocks |-> Step(g, n)]
  BY <1>3
<1>5. c = [n \in 1..Blocks |-> Step(c, n)]
  BY <1>4
<1>6. ListOf(q) = [i \in 1..Cardinality({n \in 1..Blocks : c[n] # NULL}) |-> c[i]]
  BY DEF ListOf
<1> HIDE DEF c
<1>7. \A n \in 1..Blocks : c[n] = g[n]
  <2> DEFINE D == {n \in 1..Blocks : c[n] # g[n]}
  <2>1. SUFFICES ASSUME D # {} PROVE FALSE
    OBVIOUS
  <2>2. PICK n \in D : \A i \in D : n <= i
    <3>1. D \in SUBSET Nat
      BY <1>1
    <3> HIDE DEF D
    <3> QED BY <2>1, <3>1, LeastExists
  <2>3. n # 1 => n - 1 \in 1..Blocks /\ n - 1 \notin D
    BY <1>1, <2>2
  <2>4. Step(c, n) = Step(g, n)
    BY <2>3
  <2>5. c[n] = Step(c, n)
    <3> DEFINE h == [k \in 1..Blocks |-> Step(c, k)]
    <3>1. h[n] = Step(c, n)
      OBVIOUS
    <3>2. c = h
      BY <1>5
    <3> HIDE DEF h, Step
    <3> QED BY <3>1, <3>2
  <2>6. g[n] = Step(g, n)
    BY <1>3
  <2> HIDE DEF Step
  <2> QED BY <2>4, <2>5, <2>6
<1>8. {n \in 1..Blocks : c[n] # NULL} = 1..Len(s)
  BY <1>1, <1>7
<1>9. ListOf(q) = [i \in 1..Len(s) |-> c[i]]
  BY <1>1, <1>6, <1>8, IntervalSize
<1>10. \A i \in 1..Len(s) : c[i] = s[i]
  BY <1>1, <1>7
<1> QED BY <1>1, <1>9, <1>10

(***************************************************************************)
(* The loop of pcb_insert ends at the block that ReadyPosition names, or   *)
(* at the end of the queue.                                                *)
(***************************************************************************)
LEMMA LoopFindsPosition ==
  ASSUME LinksType, NEW s \in Seq(Block), IsInjective(s), Ascending(pcb, s),
         Spells(s, "ready"), NEW p \in Block
  PROVE  FirstBehind(p) = LET m == ReadyPosition(pcb, s, p)
                          IN  IF m <= Len(s) THEN s[m] ELSE NULL
<1> DEFINE m == ReadyPosition(pcb, s, p)
           at(n) == IF n < m THEN n ELSE m
           block(i) == IF i <= Len(s) THEN s[i] ELSE NULL
           Step(f, n) == IF n = 0 THEN head["ready"]
                         ELSE IF /\ f[n - 1] # NULL
                                 /\ pcb[f[n - 1]].priority <= pcb[p].priority
                              THEN next[f[n - 1]]
                              ELSE f[n - 1]
           c == CHOOSE cur : cur = [n \in 0..Blocks |-> Step(cur, n)]
           g == [n \in 0..Blocks |-> block(at(n + 1))]
<1>1. /\ Len(s) \in Nat /\ Len(s) <= Blocks /\ Blocks \in Nat
      /\ \A i \in 1..Len(s) : s[i] \in Block /\ s[i] # NULL
  <2>1. \A i \in 1..Len(s) : s[i] \in Block
    BY ElementOfSeq
  <2> QED BY <2>1, LenProperties, QueueIsShort, BlocksAssumption DEF Block, NULL
<1>2. /\ head["ready"] = IF Len(s) = 0 THEN NULL ELSE s[1]
      /\ \A i \in 1..Len(s) : next[s[i]] = IF i = Len(s) THEN NULL ELSE s[i + 1]
  BY <1>1 DEF Spells, Place
<1>3. /\ m \in 1..Len(s) + 1
      /\ \A i \in 1..Len(s) :
           /\ pcb[s[i]].priority \in Nat /\ pcb[p].priority \in Nat
           /\ i < m => pcb[s[i]].priority <= pcb[p].priority
           /\ i >= m => pcb[s[i]].priority > pcb[p].priority
  <2>1. \A x \in Block : pcb[x].priority \in Nat
    BY PrioritiesAreNumbers DEF LinksType
  <2> QED BY <2>1, ReadyPositionProperties
<1> HIDE DEF m
<1>4. \A n \in 0..Blocks : Step(g, n) = g[n]
  <2> SUFFICES ASSUME NEW n \in 0..Blocks PROVE Step(g, n) = g[n]
    OBVIOUS
  <2>1. CASE n = 0
    <3>1. at(n + 1) = 1
      BY <1>1, <1>3, <2>1
    <3> QED BY <1>1, <1>2, <2>1, <3>1
  <2>2. CASE n # 0 /\ n < m
    <3>1. /\ n \in 1..Len(s) /\ n - 1 \in 0..Blocks /\ g[n - 1] = s[n]
          /\ n + 1 <= m /\ at(n + 1) = n + 1
      BY <1>1, <1>3, <2>2
    <3>2. pcb[s[n]].priority <= pcb[p].priority
      BY <1>3, <2>2, <3>1
    <3>3. Step(g, n) = next[s[n]]
      BY <1>1, <2>2, <3>1, <3>2
    <3>4. next[s[n]] = block(n + 1)
      BY <1>1, <1>2, <3>1
    <3> QED BY <3>1, <3>3, <3>4
  <2>3. CASE n # 0 /\ n >= m
    <3>1. n - 1 \in 0..Blocks /\ at(n) = m /\ at(n + 1) = m
      BY <1>1, <1>3, <2>3
    <3>2. g[n - 1] = block(m) /\ g[n] = block(m)
      BY <1>1, <3>1
    <3>3. CASE m <= Len(s)
      <4>1. m \in 1..Len(s) /\ block(m) = s[m]
        BY <1>1, <1>3, <3>3
      <4>2. ~(pcb[s[m]].priority <= pcb[p].priority)
        BY <1>3, <4>1
      <4> QED BY <2>3, <3>2, <4>1, <4>2
    <3>4. CASE ~(m <= Len(s))
      BY <2>3, <3>2, <3>4
    <3> QED BY <3>3, <3>4
  <2> QED BY <1>1, <1>3, <2>1, <2>2, <2>3
<1>5. g = [n \in 0..Blocks |-> Step(g, n)]
  BY <1>4
<1>6. c = [n \in 0..Blocks |-> Step(c, n)]
  BY <1>5
<1>7. FirstBehind(p) = c[Blocks]
  BY DEF FirstBehind
<1> HIDE DEF c
<1>8. \A n \in 0..Blocks : c[n] = g[n]
  <2> DEFINE D == {n \in 0..Blocks : c[n] # g[n]}
  <2>1. SUFFICES ASSUME D # {} PROVE FALSE
    OBVIOUS
  <2>2. PICK n \in D : \A i \in D : n <= i
    <3>1. D \in SUBSET Nat
      BY <1>1
    <3> HIDE DEF D
    <3> QED BY <2>1, <3>1, LeastExists
  <2>3. n # 0 => n - 1 \in 0..Blocks /\ n - 1 \notin D
    BY <1>1, <2>2
  <2>4. Step(c, n) = Step(g, n)
    BY <2>3
  <2>5. c[n] = Step(c, n) /\ g[n] = Step(g, n)
    BY <1>4, <1>6
  <2> HIDE DEF Step
  <2> QED BY <2>4, <2>5
<1>9. Blocks \in 0..Blocks /\ at(Blocks + 1) = m
  BY <1>1, <1>3
<1> QED BY <1>7, <1>8, <1>9 DEF m

----------------------------------------------------------------------------
(***************************************************************************)
(* pcb_insert and pcb_remove, block by block: p is put between its         *)
(* neighbours b and a, either of which may be NULL, or taken from between  *)
(* them.                                                                   *)
(***************************************************************************)
Spliced(q, p, b, a) ==
  /\ \A x \in Block :
       /\ next'[x] = IF x = p THEN a ELSE IF x = b THEN p ELSE next[x]
       /\ prev'[x] = IF x = p THEN b ELSE IF x = a THEN p ELSE prev[x]
  /\ \A r \in QueueName :
       /\ head'[r] = IF r = q /\ b = NULL THEN p ELSE head[r]
       /\ tail'[r] = IF r = q /\ a = NULL THEN p ELSE tail[r]

Unspliced(q, p, b, a) ==
  /\ \A x \in Block :
       /\ next'[x] = IF x = p THEN NULL ELSE IF x = b THEN a ELSE next[x]
       /\ prev'[x] = IF x = p THEN NULL ELSE IF x = a THEN b ELSE prev[x]
  /\ \A r \in QueueName :
       /\ head'[r] = IF r = q /\ b = NULL THEN a ELSE head[r]
       /\ tail'[r] = IF r = q /\ a = NULL THEN b ELSE tail[r]

\* Splicing at place m links the sequence with p inserted there.
LEMMA SplicedSpells ==
  ASSUME NEW q \in QueueName, NEW s \in Seq(Block), IsInjective(s), Spells(s, q),
         NEW p \in Block, p \notin Range(s), NEW m \in 1..Len(s) + 1,
         Spliced(q, p, Place(s, m - 1), Place(s, m)),
         NEW t, t = InsertAt(s, m, p)
  PROVE  Spells(t, q)'
<1> DEFINE b == Place(s, m - 1)
           a == Place(s, m)
<1>1. /\ Len(s) \in Nat /\ DOMAIN s = 1..Len(s)
      /\ \A i \in 1..Len(s) : s[i] \in Block /\ s[i] # p /\ s[i] # NULL
  <2>1. \A i \in 1..Len(s) : s[i] \in Block
    BY ElementOfSeq
  <2> QED BY <2>1, LenProperties DEF Range, Block, NULL
<1>2. /\ Len(t) = Len(s) + 1
      /\ \A j \in 1..Len(s) + 1 :
           t[j] = IF j < m THEN s[j] ELSE IF j = m THEN p ELSE s[j - 1]
  BY InsertAtProperties
<1>3. \A i, j \in 1..Len(s) : s[i] = s[j] => i = j
  BY <1>1 DEF IsInjective
<1>4. \A j \in Int : Place(t, j) = IF j < m THEN Place(s, j)
                                   ELSE IF j = m THEN p ELSE Place(s, j - 1)
  BY <1>1, <1>2 DEF Place
<1>5. /\ head'[q] = IF m = 1 THEN p ELSE head[q]
      /\ tail'[q] = IF m = Len(s) + 1 THEN p ELSE tail[q]
  <2>1. (b = NULL <=> m = 1) /\ (a = NULL <=> m = Len(s) + 1)
    BY <1>1 DEF Place
  <2> QED BY <2>1 DEF Spliced
<1>6. head'[q] = Place(t, 1)
  BY <1>1, <1>4, <1>5 DEF Spells
<1>7. tail'[q] = Place(t, Len(t))
  <2>1. CASE m = Len(s) + 1
    BY <1>1, <1>2, <1>4, <1>5, <2>1
  <2>2. CASE m # Len(s) + 1
    <3>1. Len(t) \in Int /\ ~(Len(t) < m) /\ Len(t) # m /\ Len(t) - 1 = Len(s)
      BY <1>1, <1>2, <2>2
    <3> QED BY <1>4, <1>5, <2>2, <3>1 DEF Spells
  <2> QED BY <2>1, <2>2
<1>8. \A i \in 1..Len(s) : (s[i] = b <=> i = m - 1) /\ (s[i] = a <=> i = m)
  BY <1>1, <1>3 DEF Place
<1>9. /\ next'[p] = a /\ prev'[p] = b
      /\ \A i \in 1..Len(s) :
           /\ next'[s[i]] = IF i = m - 1 THEN p ELSE Place(s, i + 1)
           /\ prev'[s[i]] = IF i = m THEN p ELSE Place(s, i - 1)
  BY <1>1, <1>8 DEF Spliced, Spells
<1>10. ASSUME NEW j \in 1..Len(t)
       PROVE  next'[t[j]] = Place(t, j + 1) /\ prev'[t[j]] = Place(t, j - 1)
  <2>1. CASE j = m
    <3>1. t[j] = p /\ Place(t, j + 1) = a /\ Place(t, j - 1) = b
      BY <1>1, <1>2, <1>4, <2>1
    <3> QED BY <1>9, <3>1
  <2>2. CASE j < m
    <3>1. j \in 1..Len(s) /\ t[j] = s[j] /\ j # m
      BY <1>1, <1>2, <2>2
    <3>2. Place(t, j + 1) = IF j = m - 1 THEN p ELSE Place(s, j + 1)
      BY <1>1, <1>4, <2>2, <3>1
    <3>3. Place(t, j - 1) = Place(s, j - 1)
      BY <1>1, <1>4, <2>2, <3>1
    <3> QED BY <1>9, <3>1, <3>2, <3>3
  <2>3. CASE j > m
    <3>1. j - 1 \in 1..Len(s) /\ t[j] = s[j - 1] /\ j - 1 # m - 1
      BY <1>1, <1>2, <2>3
    <3>2. Place(t, j + 1) = Place(s, j - 1 + 1)
      BY <1>1, <1>4, <2>3, <3>1
    <3>3. Place(t, j - 1) = IF j - 1 = m THEN p ELSE Place(s, j - 1 - 1)
      BY <1>1, <1>4, <2>3, <3>1
    <3> QED BY <1>9, <3>1, <3>2, <3>3
  <2> QED BY <1>1, <1>2, <2>1, <2>2, <2>3
<1> QED BY <1>6, <1>7, <1>10 DEF Spells

\* Unsplicing place m links the sequence without it.
LEMMA UnsplicedSpells ==
  ASSUME NEW q \in QueueName, NEW s \in Seq(Block), IsInjective(s), Spells(s, q),
         NEW m \in 1..Len(s),
         Unspliced(q, s[m], Place(s, m - 1), Place(s, m + 1)),
         NEW t, t = RemoveAt(s, m)
  PROVE  Spells(t, q)'
<1> DEFINE b == Place(s, m - 1)
           a == Place(s, m + 1)
<1>1. /\ Len(s) \in Nat /\ DOMAIN s = 1..Len(s)
      /\ \A i \in 1..Len(s) : s[i] \in Block /\ s[i] # NULL
  <2>1. \A i \in 1..Len(s) : s[i] \in Block
    BY ElementOfSeq
  <2> QED BY <2>1, LenProperties DEF Block, NULL
<1>2. /\ Len(t) = Len(s) - 1
      /\ \A j \in 1..Len(s) - 1 : t[j] = IF j < m THEN s[j] ELSE s[j + 1]
  BY RemoveAtProperties
<1>3. \A i, j \in 1..Len(s) : s[i] = s[j] => i = j
  BY <1>1 DEF IsInjective
<1>4. \A j \in Int : Place(t, j) = IF j < m THEN Place(s, j) ELSE Place(s, j + 1)
  BY <1>1, <1>2 DEF Place
<1>5. /\ head'[q] = IF m = 1 THEN a ELSE head[q]
      /\ tail'[q] = IF m = Len(s) THEN b ELSE tail[q]
  <2>1. m \in Int /\ 1 <= m /\ m <= Len(s)
    BY <1>1
  <2>2. b = NULL <=> m = 1
    BY <1>1, <2>1 DEF Place
  <2>3. a = NULL <=> m = Len(s)
    <3> DEFINE l == Len(s)
    <3>0. l \in Nat /\ m \in Int /\ 1 <= m /\ m <= l
      BY <1>1, <2>1
    <3> HIDE DEF l
    <3>1. m + 1 \in 1..l <=> m # l
      BY <3>0
    <3>2. m + 1 \in 1..Len(s) => s[m + 1] # NULL
      BY <1>1
    <3> QED BY <3>1, <3>2 DEF Place, l
  <2> QED BY <2>2, <2>3 DEF Unspliced
<1>6. head'[q] = Place(t, 1)
  <2>1. Place(t, 1) = IF 1 < m THEN Place(s, 1) ELSE Place(s, 2)
    BY <1>4
  <2>2. CASE m = 1
    BY <1>5, <2>1, <2>2
  <2>3. CASE m # 1
    <3>1. 1 < m
      BY <1>1, <2>3
    <3> QED BY <1>5, <2>1, <2>3, <3>1 DEF Spells
  <2> QED BY <2>2, <2>3
<1>7. tail'[q] = Place(t, Len(t))
  <2>1. CASE m = Len(s)
    BY <1>1, <1>2, <1>4, <1>5, <2>1
  <2>2. CASE m # Len(s)
    <3> DEFINE k == Len(t)
               l == Len(s)
    <3>1. l \in Nat /\ k = l - 1 /\ m \in 1..l /\ m # l
      BY <1>1, <1>2, <2>2
    <3> HIDE DEF k, l
    <3>2. k \in Int /\ ~(k < m) /\ k + 1 = l
      BY <3>1
    <3>3. Len(t) \in Int /\ ~(Len(t) < m) /\ Len(t) + 1 = Len(s)
      BY <3>2 DEF k, l
    <3> QED BY <1>4, <1>5, <2>2, <3>3 DEF Spells
  <2> QED BY <2>1, <2>2
<1>8. \A i \in 1..Len(s) : /\ s[i] = b <=> i = m - 1
                           /\ s[i] = a <=> i = m + 1
                           /\ s[i] = s[m] <=> i = m
  BY <1>1, <1>3 DEF Place
<1>9. \A i \in 1..Len(s) : i # m =>
         /\ next'[s[i]] = IF i = m - 1 THEN a ELSE Place(s, i + 1)
         /\ prev'[s[i]] = IF i = m + 1 THEN b ELSE Place(s, i - 1)
  BY <1>1, <1>8 DEF Unspliced, Spells
<1>10. ASSUME NEW j \in 1..Len(t)
       PROVE  next'[t[j]] = Place(t, j + 1) /\ prev'[t[j]] = Place(t, j - 1)
  <2>1. CASE j < m
    <3>1. j \in 1..Len(s) /\ t[j] = s[j] /\ j # m /\ j # m + 1
      BY <1>1, <1>2, <2>1
    <3>2. Place(t, j + 1) = IF j = m - 1 THEN a ELSE Place(s, j + 1)
      <4>1. j \in Int /\ m \in Int /\ j + 1 \in Int
        BY <1>1, <1>2
      <4>2. CASE j = m - 1
        <5>1. ~(j + 1 < m) /\ j + 1 = m
          BY <4>1, <4>2
        <5> QED BY <1>4, <4>1, <4>2, <5>1
      <4>3. CASE j # m - 1
        <5>1. j + 1 < m
          BY <2>1, <4>1, <4>3
        <5> QED BY <1>4, <4>1, <4>3, <5>1
      <4> QED BY <4>2, <4>3
    <3>3. Place(t, j - 1) = Place(s, j - 1)
      BY <1>1, <1>4, <2>1, <3>1
    <3> QED BY <1>9, <3>1, <3>2, <3>3
  <2>2. CASE j >= m
    <3>1. j + 1 \in 1..Len(s) /\ t[j] = s[j + 1] /\ j + 1 # m /\ j + 1 # m - 1
      BY <1>1, <1>2, <2>2
    <3>2. Place(t, j + 1) = Place(s, j + 1 + 1)
      BY <1>1, <1>4, <2>2, <3>1
    <3>3. Place(t, j - 1) = IF j + 1 = m + 1 THEN b ELSE Place(s, j + 1 - 1)
      <4>1. j \in Int /\ m \in Int /\ j + 1 - 1 = j /\ j - 1 + 1 = j
        BY <1>1, <1>2
      <4>2. CASE j = m
        <5>1. j - 1 \in Int /\ j - 1 < m /\ j + 1 = m + 1
          BY <4>1, <4>2
        <5> QED BY <1>4, <4>2, <5>1
      <4>3. CASE j # m
        <5>1. j - 1 \in Int /\ ~(j - 1 < m) /\ j + 1 # m + 1
          BY <2>2, <4>1, <4>3
        <5> QED BY <1>4, <4>1, <5>1
      <4> QED BY <4>2, <4>3
    <3> DEFINE i == j + 1
    <3>4. /\ i \in 1..Len(s) /\ t[j] = s[i] /\ i # m /\ i # m - 1
          /\ Place(t, j + 1) = Place(s, i + 1)
          /\ Place(t, j - 1) = IF i = m + 1 THEN b ELSE Place(s, i - 1)
      BY <3>1, <3>2, <3>3
    <3> HIDE DEF a, b, i
    <3> QED BY <1>9, <3>4
  <2>3. j \in Int /\ m \in Int
    BY <1>1, <1>2
  <2>4. j < m \/ j >= m
    BY <2>3
  <2> QED BY <2>1, <2>2, <2>4
<1> QED BY <1>6, <1>7, <1>10 DEF Spells

----------------------------------------------------------------------------
\* What Represents says of one queue.
LEMMA QueueLinked ==
  ASSUME NEW Q, Represents(Q), NEW q \in QueueName
  PROVE  /\ Q[q] \in Seq(Block) /\ IsInjective(Q[q]) /\ Spells(Q[q], q)
         /\ Len(Q[q]) \in Nat /\ DOMAIN Q[q] = 1..Len(Q[q])
         /\ Range(Q[q]) \subseteq linked
         /\ \A p \in Range(Q[q]) : QueueFor(pcb[p]) = q
         /\ \A i \in 1..Len(Q[q]) : Q[q][i] \in Block /\ Q[q][i] \in Range(Q[q])
<1>1. Q \in [QueueName -> Seq(Block)]
  BY DEF Represents, GoodQueues
<1>2. /\ Q[q] \in Seq(Block) /\ Range(Q[q]) \subseteq linked
      /\ Len(Q[q]) \in Nat /\ DOMAIN Q[q] = 1..Len(Q[q])
  BY <1>1, QueueFacts DEF Represents
<1>3. \A i \in 1..Len(Q[q]) : Q[q][i] \in Block
  BY <1>2, ElementOfSeq
<1> QED BY <1>2, <1>3 DEF Represents, GoodQueues, OwnQueue, Range

\* pcb_insert splices the block in at InsertPosition.
LEMMA InsertSplices ==
  ASSUME LinksType, NEW Q, Represents(Q), NEW p \in Block, PcbInsert(p)
  PROVE  LET q == QueueFor(pcb[p])
             m == InsertPosition(pcb, Q, p)
         IN  /\ Spliced(q, p, Place(Q[q], m - 1), Place(Q[q], m))
             /\ LinksType'
<1> DEFINE q == QueueFor(pcb[p])
           s == Q[q]
           m == InsertPosition(pcb, Q, p)
           cur == IF q = "ready" THEN FirstBehind(p) ELSE NULL
           b == Place(s, m - 1)
           a == Place(s, m)
<1>1. q \in QueueName
  BY QueueForType
<1>2. /\ p \notin linked /\ pcb' = pcb
      /\ \/ cur = NULL /\ (InsertEmpty(q, p) \/ InsertTail(q, p))
         \/ cur # NULL /\ InsertBefore(q, p, cur)
  BY DEF PcbInsert
<1>3. /\ s \in Seq(Block) /\ IsInjective(s) /\ Spells(s, q) /\ Len(s) \in Nat
      /\ \A i \in 1..Len(s) : s[i] \in Block /\ s[i] # NULL /\ s[i] # p
      /\ next[p] = NULL /\ prev[p] = NULL
  <2>1. \A i \in 1..Len(s) : s[i] \in Block /\ s[i] \in Range(s)
    BY <1>1, QueueLinked
  <2>2. next[p] = NULL /\ prev[p] = NULL
    BY <1>2 DEF Represents
  <2>3. \A x \in Block : x # NULL
    BY DEF Block, NULL
  <2> HIDE DEF q
  <2> QED BY <1>1, <1>2, <2>1, <2>2, <2>3, QueueLinked
<1>4. cur = a /\ m \in 1..Len(s) + 1
  <2>1. m \in 1..Len(s) + 1
    BY PrioritiesAreNumbers, EnqueueKeepsQueues, <1>2 DEF Represents, LinksType
  <2>2. CASE q = "ready"
    <3>1. m = ReadyPosition(pcb, s, p)
      BY <2>2 DEF InsertPosition
    <3>2. Ascending(pcb, s)
      BY <2>2 DEF Represents, GoodQueues
    <3>3. FirstBehind(p) = IF m <= Len(s) THEN s[m] ELSE NULL
      BY <1>3, <2>2, <3>1, <3>2, LoopFindsPosition
    <3> HIDE DEF q, m, s
    <3> QED BY <1>3, <2>1, <2>2, <3>3 DEF Place
  <2>3. CASE q # "ready"
    <3>1. m = Len(s) + 1
      BY <2>3 DEF InsertPosition
    <3>2. ~(m \in 1..Len(s))
      BY <1>3, <3>1
    <3> QED BY <2>1, <2>3, <3>2 DEF Place
  <2> QED BY <2>2, <2>3
<1> HIDE DEF q, s, m, cur
<1>5. /\ head[q] = Place(s, 1) /\ tail[q] = Place(s, Len(s))
      /\ \A i \in 1..Len(s) : /\ next[s[i]] = Place(s, i + 1)
                              /\ prev[s[i]] = Place(s, i - 1)
  BY <1>3 DEF Spells
<1>6. /\ pcb \in [Block -> States] /\ p \in Links /\ NULL \in Links
      /\ next \in [Block -> Links] /\ prev \in [Block -> Links]
      /\ head \in [QueueName -> Links] /\ tail \in [QueueName -> Links]
      /\ \A x \in Block : x # NULL
  BY DEF LinksType, Links, Block, NULL
<1>7. (head[q] = NULL <=> Len(s) = 0) /\ (a = NULL <=> m = Len(s) + 1)
  <2>1. m \in Int /\ 1 <= m /\ m <= Len(s) + 1
    BY <1>3, <1>4
  <2>2. m \in 1..Len(s) <=> m # Len(s) + 1
    BY <1>3, <2>1
  <2>3. 1 \in 1..Len(s) <=> Len(s) # 0
    BY <1>3
  <2> QED BY <1>3, <1>5, <2>2, <2>3 DEF Place
<1>8. CASE cur = NULL /\ InsertEmpty(q, p)
  <2>1. m = 1 /\ a = NULL /\ b = NULL
    BY <1>3, <1>4, <1>7, <1>8 DEF InsertEmpty, Place
  <2>2. Spliced(q, p, NULL, NULL)
    BY <1>1, <1>3, <1>6, <1>8 DEF InsertEmpty, Spliced
  <2>3. LinksType'
    BY <1>2, <1>6, <1>8 DEF InsertEmpty, LinksType
  <2> QED BY <2>1, <2>2, <2>3 DEF q, s, m
<1>9. CASE cur = NULL /\ InsertTail(q, p)
  <2>1. /\ Len(s) \in 1..Len(s) /\ m - 1 = Len(s) /\ a = NULL
        /\ b = s[Len(s)] /\ tail[q] = b
    BY <1>3, <1>4, <1>5, <1>7, <1>9 DEF InsertTail, Place
  <2>2. b \in Block /\ b # p /\ b # NULL
    BY <1>3, <2>1
  <2>3. Spliced(q, p, b, NULL)
    BY <1>1, <1>3, <1>6, <1>9, <2>1, <2>2 DEF InsertTail, Spliced
  <2>4. LinksType'
    BY <1>1, <1>2, <1>6, <1>9 DEF InsertTail, LinksType
  <2> QED BY <2>1, <2>3, <2>4 DEF q, s, m
<1>10. CASE cur # NULL /\ InsertBefore(q, p, cur)
  <2>1. m \in 1..Len(s) /\ a = s[m]
    BY <1>4, <1>10 DEF Place
  <2>2. a \in Block /\ a # p /\ prev[a] = b
    BY <1>3, <1>5, <2>1
  <2>3. /\ next' = [x \in Block |-> IF x = p THEN a ELSE IF x = b THEN p ELSE next[x]]
        /\ prev' = [prev EXCEPT ![p] = b, ![a] = p]
        /\ head' = IF b = NULL THEN [head EXCEPT ![q] = p] ELSE head
        /\ tail' = tail
    BY <1>4, <1>10, <2>2 DEF InsertBefore
  <2>4. a # NULL /\ a \in Links /\ b \in Links
    BY <1>4, <1>6, <1>10, <2>2 DEF Links
  <2> HIDE DEF a, b
  <2>5. Spliced(q, p, b, a)
    BY <1>1, <1>6, <2>2, <2>3, <2>4 DEF Spliced
  <2>6. LinksType'
    BY <1>1, <1>2, <1>6, <2>3, <2>4 DEF LinksType
  <2> QED BY <2>5, <2>6 DEF q, s, m, a, b
<1> QED BY <1>2, <1>8, <1>9, <1>10

\* pcb_remove takes the block out at its place in the queue.
LEMMA RemoveUnsplices ==
  ASSUME LinksType, NEW Q, Represents(Q), NEW p \in Block, PcbRemove(p)
  PROVE  LET q == QueueFor(pcb[p])
             m == PositionOf(Q[q], p)
         IN  /\ m \in 1..Len(Q[q]) /\ Q[q][m] = p
             /\ Unspliced(q, p, Place(Q[q], m - 1), Place(Q[q], m + 1))
             /\ LinksType'
<1> DEFINE q == QueueFor(pcb[p])
           s == Q[q]
           m == PositionOf(s, p)
           b == Place(s, m - 1)
           a == Place(s, m + 1)
<1>1. q \in QueueName
  BY QueueForType
<1>2. Spells(s, q) /\ DOMAIN s = 1..Len(s)
  BY <1>1, QueueLinked
<1>3. m \in 1..Len(s) /\ s[m] = p
  <2>1. p \in Queued(Q)
    BY DEF PcbRemove, Represents
  <2>2. p \in Range(s)
    BY <2>1, DequeueKeepsQueues DEF Represents
  <2>3. \E i \in DOMAIN s : s[i] = p
    BY <2>2 DEF Range
  <2> QED BY <1>2, <2>3 DEF PositionOf
<1> HIDE DEF q, s, m
<1>4. next[p] = a /\ prev[p] = b
  BY <1>2, <1>3 DEF Spells
<1> HIDE DEF a, b
<1>5. /\ pcb \in [Block -> States] /\ p \in Links /\ NULL \in Links
      /\ next \in [Block -> Links] /\ prev \in [Block -> Links]
      /\ head \in [QueueName -> Links] /\ tail \in [QueueName -> Links]
      /\ a \in Links /\ b \in Links
  BY <1>4 DEF LinksType, Links
<1>6. /\ next' = [[x \in Block |-> IF x = b THEN a ELSE next[x]] EXCEPT ![p] = NULL]
      /\ prev' = [[x \in Block |-> IF x = a THEN b ELSE prev[x]] EXCEPT ![p] = NULL]
      /\ head' = IF b = NULL THEN [head EXCEPT ![q] = a] ELSE head
      /\ tail' = IF a = NULL THEN [tail EXCEPT ![q] = b] ELSE tail
      /\ pcb' = pcb
  BY <1>4 DEF PcbRemove, Clear, q
<1>7. Unspliced(q, p, b, a)
  BY <1>1, <1>5, <1>6 DEF Unspliced
<1>8. LinksType'
  BY <1>1, <1>5, <1>6 DEF LinksType
<1> QED BY <1>3, <1>7, <1>8 DEF q, s, m, a, b

\* Links that a step leaves alone still spell their queue.
LEMMA SpellsKept ==
  ASSUME NEW r \in QueueName, NEW s, Spells(s, r),
         head'[r] = head[r], tail'[r] = tail[r],
         \A i \in 1..Len(s) : next'[s[i]] = next[s[i]] /\ prev'[s[i]] = prev[s[i]]
  PROVE  Spells(s, r)'
BY DEF Spells

\* After pcb_insert the links are those of the queues with the block inserted.
LEMMA InsertRepresents ==
  ASSUME LinksType, NEW Q, Represents(Q), NEW p \in Block, PcbInsert(p),
         NEW R, R = Enqueue(pcb, Q, p)
  PROVE  Represents(R)'
<1> SUFFICES ASSUME NEW q, q = QueueFor(pcb[p]), NEW s, s = Q[q],
                    NEW m, m = InsertPosition(pcb, Q, p)
             PROVE  Represents(R)'
  OBVIOUS
<1> DEFINE b == Place(s, m - 1)
           a == Place(s, m)
<1>1. /\ q \in QueueName /\ p \notin linked /\ pcb' = pcb /\ linked' = linked \cup {p}
      /\ Q \in [QueueName -> Seq(Block)]
  BY QueueForType DEF PcbInsert, Represents, GoodQueues
<1>2. /\ GoodQueues(pcb, Block, R) /\ Queued(R) = linked \cup {p}
      /\ m \in 1..Len(s) + 1
  <2>1. /\ GoodQueues(pcb, Block, Q) /\ Queued(Q) = linked
        /\ \A x \in Block : pcb[x].priority \in Nat
    BY PrioritiesAreNumbers DEF Represents, LinksType
  <2>2. /\ GoodQueues(pcb, Block, Enqueue(pcb, Q, p))
        /\ Queued(Enqueue(pcb, Q, p)) = Queued(Q) \cup {p}
        /\ InsertPosition(pcb, Q, p) \in 1..Len(Q[QueueFor(pcb[p])]) + 1
    BY <1>1, <2>1, EnqueueKeepsQueues
  <2> QED BY <2>1, <2>2
<1>3. R[q] = InsertAt(s, m, p) /\ \A r \in QueueName : r # q => R[r] = Q[r]
  BY <1>1 DEF Enqueue
<1>4. Spliced(q, p, b, a)
  BY InsertSplices
<1>5. /\ s \in Seq(Block) /\ IsInjective(s) /\ Spells(s, q) /\ Range(s) \subseteq linked
      /\ \A i \in 1..Len(s) : s[i] \in Range(s)
      /\ \A x \in Range(s) : QueueFor(pcb[x]) = q
  BY <1>1, QueueLinked
<1>6. a \in Range(s) \cup {NULL} /\ b \in Range(s) \cup {NULL}
  BY <1>5 DEF Place
<1> HIDE DEF a, b
<1>7. \A x \in Block : x # p /\ x \notin Range(s) =>
         next'[x] = next[x] /\ prev'[x] = prev[x]
  <2>1. NULL \notin Block
    BY DEF Block, NULL
  <2> QED BY <1>4, <1>6, <2>1 DEF Spliced
<1>8. ASSUME NEW r \in QueueName PROVE Spells(R[r], r)'
  <2>1. CASE r = q
    <3>1. p \notin Range(s) /\ R[q] = InsertAt(s, m, p)
      BY <1>1, <1>3, <1>5
    <3>2. Spells(R[q], q)'
      BY <1>1, <1>2, <1>4, <1>5, <3>1, SplicedSpells DEF a, b
    <3> QED BY <2>1, <3>2
  <2>2. CASE r # q
    <3>1. /\ Spells(Q[r], r) /\ Range(Q[r]) \subseteq linked
          /\ \A i \in 1..Len(Q[r]) : Q[r][i] \in Block /\ Q[r][i] \in Range(Q[r])
          /\ \A x \in Range(Q[r]) : QueueFor(pcb[x]) = r
      BY QueueLinked
    <3>2. \A i \in 1..Len(Q[r]) : Q[r][i] # p /\ Q[r][i] \notin Range(s)
      BY <1>1, <1>5, <2>2, <3>1
    <3>3. head'[r] = head[r] /\ tail'[r] = tail[r]
      BY <1>4, <2>2 DEF Spliced
    <3>4. Spells(Q[r], r)'
      BY <1>7, <3>1, <3>2, <3>3, SpellsKept
    <3> QED BY <1>3, <2>2, <3>4
  <2> QED BY <2>1, <2>2
<1>9. \A x \in Block \ linked' : next'[x] = NULL /\ prev'[x] = NULL
  <2>1. \A x \in Block \ linked : next[x] = NULL /\ prev[x] = NULL
    BY DEF Represents
  <2> QED BY <1>1, <1>5, <1>7, <2>1
<1>10. GoodQueues(pcb, Block, R)' /\ (Queued(R) = linked)'
  BY <1>1, <1>2 DEF GoodQueues, OwnQueue, Ascending
<1> QED BY <1>8, <1>9, <1>10 DEF Represents

\* After pcb_remove they are those of the queues without the block.
LEMMA RemoveRepresents ==
  ASSUME LinksType, NEW Q, Represents(Q), NEW p \in Block, PcbRemove(p),
         NEW R, R = Dequeue(pcb, Q, p)
  PROVE  Represents(R)'
<1> SUFFICES ASSUME NEW q, q = QueueFor(pcb[p]), NEW s, s = Q[q],
                    NEW m, m = PositionOf(s, p)
             PROVE  Represents(R)'
  OBVIOUS
<1> DEFINE b == Place(s, m - 1)
           a == Place(s, m + 1)
<1>1. /\ q \in QueueName /\ p \in linked /\ pcb' = pcb /\ linked' = linked \ {p}
      /\ Q \in [QueueName -> Seq(Block)]
  BY QueueForType DEF PcbRemove, Represents, GoodQueues
<1>2. /\ GoodQueues(pcb, Block, R) /\ Queued(R) = linked \ {p}
      /\ p \in Range(s)
  BY <1>1, DequeueKeepsQueues DEF Represents
<1>3. R[q] = RemoveAt(s, m) /\ \A r \in QueueName : r # q => R[r] = Q[r]
  BY <1>1, <1>2 DEF Dequeue, Unlink
<1>4. m \in 1..Len(s) /\ s[m] = p /\ Unspliced(q, p, b, a)
  BY RemoveUnsplices
<1>5. /\ s \in Seq(Block) /\ IsInjective(s) /\ Spells(s, q) /\ Range(s) \subseteq linked
      /\ \A i \in 1..Len(s) : s[i] \in Range(s)
      /\ \A x \in Range(s) : QueueFor(pcb[x]) = q
  BY <1>1, QueueLinked
<1>6. a \in Range(s) \cup {NULL} /\ b \in Range(s) \cup {NULL}
  BY <1>5 DEF Place
<1> HIDE DEF a, b
<1>7. /\ next'[p] = NULL /\ prev'[p] = NULL
      /\ \A x \in Block : x \notin Range(s) =>
           next'[x] = next[x] /\ prev'[x] = prev[x]
  <2>1. NULL \notin Block
    BY DEF Block, NULL
  <2> QED BY <1>2, <1>4, <1>6, <2>1 DEF Unspliced
<1>8. ASSUME NEW r \in QueueName PROVE Spells(R[r], r)'
  <2>1. CASE r = q
    <3>1. Spells(R[q], q)'
      BY <1>1, <1>3, <1>4, <1>5, UnsplicedSpells DEF a, b
    <3> QED BY <2>1, <3>1
  <2>2. CASE r # q
    <3>1. /\ Spells(Q[r], r)
          /\ \A i \in 1..Len(Q[r]) : Q[r][i] \in Block /\ Q[r][i] \in Range(Q[r])
          /\ \A x \in Range(Q[r]) : QueueFor(pcb[x]) = r
      BY QueueLinked
    <3>2. \A i \in 1..Len(Q[r]) : Q[r][i] \notin Range(s)
      BY <1>5, <2>2, <3>1
    <3>3. head'[r] = head[r] /\ tail'[r] = tail[r]
      BY <1>4, <2>2 DEF Unspliced
    <3>4. Spells(Q[r], r)'
      BY <1>7, <3>1, <3>2, <3>3, SpellsKept
    <3> QED BY <1>3, <2>2, <3>4
  <2> QED BY <2>1, <2>2
<1>9. \A x \in Block \ linked' : next'[x] = NULL /\ prev'[x] = NULL
  <2>1. \A x \in Block \ linked : next[x] = NULL /\ prev[x] = NULL
    BY DEF Represents
  <2> QED BY <1>1, <1>5, <1>7, <2>1
<1>10. GoodQueues(pcb, Block, R)' /\ (Queued(R) = linked)'
  BY <1>1, <1>2 DEF GoodQueues, OwnQueue, Ascending
<1> QED BY <1>8, <1>9, <1>10 DEF Represents

\* A change of a block that is in no queue leaves the queues as they are.
LEMMA ChangeRepresents ==
  ASSUME LinksType, NEW Q, Represents(Q), NEW p \in Block, NEW r \in States,
         Change(p, r)
  PROVE  Represents(Q)' /\ LinksType'
<1>1. /\ p \notin linked /\ pcb' = [pcb EXCEPT ![p] = r]
      /\ next' = next /\ prev' = prev /\ head' = head /\ tail' = tail
      /\ linked' = linked
  BY DEF Change
<1>2. LinksType'
  BY <1>1 DEF LinksType
<1>3. ASSUME NEW q \in QueueName
      PROVE  \A x \in Range(Q[q]) : x \in Block /\ pcb'[x] = pcb[x]
  <2>1. Range(Q[q]) \subseteq linked /\ Range(Q[q]) \subseteq Block
    BY QueueLinked, QueueFacts DEF Represents, GoodQueues
  <2> QED BY <1>1, <2>1 DEF LinksType
<1>4. GoodQueues(pcb, Block, Q)'
  <2>1. GoodQueues(pcb, Block, Q)
    BY DEF Represents
  <2>2. OwnQueue(pcb, Q)'
    BY <1>3, <2>1 DEF GoodQueues, OwnQueue
  <2>3. Ascending(pcb, Q["ready"])'
    <3>1. "ready" \in QueueName
      BY DEF QueueName
    <3>2. \A i \in DOMAIN Q["ready"] : pcb'[Q["ready"][i]] = pcb[Q["ready"][i]]
      BY <1>3, <3>1 DEF Range
    <3> QED BY <2>1, <3>2 DEF GoodQueues, Ascending
  <2> QED BY <2>1, <2>2, <2>3 DEF GoodQueues
<1>5. ASSUME NEW q \in QueueName PROVE Spells(Q[q], q)'
  BY <1>1, SpellsKept DEF Represents
<1> QED BY <1>1, <1>2, <1>4, <1>5 DEF Represents

----------------------------------------------------------------------------
(***************************************************************************)
(* The queues the links represent are those that ListOf reads.             *)
(***************************************************************************)
LEMMA ListsAreQueues == \A Q : Represents(Q) => Lists = Q
<1> SUFFICES ASSUME NEW Q, Represents(Q) PROVE Lists = Q
  OBVIOUS
<1>1. Q \in [QueueName -> Seq(Block)]
  BY DEF Represents, GoodQueues
<1>2. ASSUME NEW q \in QueueName PROVE ListOf(q) = Q[q]
  BY QueueLinked, ListIsQueue
<1> QED BY <1>1, <1>2 DEF Lists

\* The same in the state after a step.
LEMMA ListsAreQueuesNext == (\A Q : Represents(Q) => Lists = Q)'
  BY ListsAreQueues, PTL

\* The links of the initial state represent the empty queues.
LEMMA LinksStart == Init => LinksInv /\ Lists = EmptyQueues
<1> SUFFICES ASSUME Init PROVE LinksInv /\ Lists = EmptyQueues
  OBVIOUS
<1>1. LinksType
  BY DEF Init, LinksType, Links, Fresh
<1>2. \A q \in QueueName : EmptyQueues[q] = <<>>
  BY DEF EmptyQueues
<1>3. <<>> \in Seq(Block) /\ Len(<<>>) = 0 /\ DOMAIN <<>> = {}
  BY EmptySeq
<1>4. EmptyQueues \in [QueueName -> Seq(Block)]
  BY <1>2, <1>3 DEF EmptyQueues
<1>5. OwnQueue(pcb, EmptyQueues) /\ Ascending(pcb, EmptyQueues["ready"])
  <2>1. "ready" \in QueueName
    BY DEF QueueName
  <2> QED BY <1>2, <1>3, <2>1 DEF OwnQueue, Ascending, IsInjective, Range
<1>6. Queued(EmptyQueues) = linked
  BY <1>2, <1>3 DEF Queued, Range, Init
<1>7. \A q \in QueueName : Spells(EmptyQueues[q], q)
  <2>1. \A i : i \notin 1..0
    OBVIOUS
  <2>2. \A i : Place(<<>>, i) = NULL
    BY <1>3, <2>1 DEF Place
  <2> QED BY <1>2, <1>3, <2>1, <2>2 DEF Spells, Init
<1>8. Represents(EmptyQueues)
  BY <1>4, <1>5, <1>6, <1>7 DEF Represents, GoodQueues, Init
<1> QED BY <1>1, <1>8, ListsAreQueues DEF LinksInv

\* A call does to the queues that ListOf reads what Pcb says it does.
LEMMA CallsKeep ==
  ASSUME LinksInv, NEW p \in Block
  PROVE  /\ PcbInsert(p) => LinksInv' /\ Lists' = Enqueue(pcb, Lists, p)
         /\ PcbRemove(p) => LinksInv' /\ Lists' = Dequeue(pcb, Lists, p)
         /\ \A r \in States : Change(p, r) => LinksInv' /\ Lists' = Lists
<1> SUFFICES ASSUME NEW Q, Q = Lists
             PROVE  /\ PcbInsert(p) => LinksInv' /\ Lists' = Enqueue(pcb, Q, p)
                    /\ PcbRemove(p) => LinksInv' /\ Lists' = Dequeue(pcb, Q, p)
                    /\ \A r \in States : Change(p, r) => LinksInv' /\ Lists' = Q
  OBVIOUS
<1>1. LinksType /\ Represents(Q)
  BY DEF LinksInv
<1>2. \A R : Represents(R)' => Lists' = R
  BY ListsAreQueuesNext
<1>3. ASSUME PcbInsert(p) PROVE LinksInv' /\ Lists' = Enqueue(pcb, Q, p)
  <2> SUFFICES ASSUME NEW R, R = Enqueue(pcb, Q, p) PROVE LinksInv' /\ Lists' = R
    OBVIOUS
  <2>1. Represents(R)' /\ LinksType'
    BY <1>1, <1>3, InsertRepresents, InsertSplices
  <2>2. Lists' = R
    BY <1>2, <2>1
  <2> QED BY <2>1, <2>2 DEF LinksInv
<1>4. ASSUME PcbRemove(p) PROVE LinksInv' /\ Lists' = Dequeue(pcb, Q, p)
  <2> SUFFICES ASSUME NEW R, R = Dequeue(pcb, Q, p) PROVE LinksInv' /\ Lists' = R
    OBVIOUS
  <2>1. Represents(R)' /\ LinksType'
    BY <1>1, <1>4, RemoveRepresents, RemoveUnsplices
  <2>2. Lists' = R
    BY <1>2, <2>1
  <2> QED BY <2>1, <2>2 DEF LinksInv
<1>5. ASSUME NEW r \in States, Change(p, r) PROVE LinksInv' /\ Lists' = Q
  <2>1. Represents(Q)' /\ LinksType'
    BY <1>1, <1>5, ChangeRepresents
  <2>2. Lists' = Q
    BY <1>2, <2>1
  <2> QED BY <2>1, <2>2 DEF LinksInv
<1> QED BY <1>3, <1>4, <1>5

\* A step that changes nothing.
LEMMA LinksStutter == LinksInv /\ UNCHANGED vars => LinksInv' /\ Lists' = Lists
<1> SUFFICES ASSUME LinksInv, UNCHANGED vars PROVE LinksInv' /\ Lists' = Lists
  OBVIOUS
<1>1. /\ pcb' = pcb /\ next' = next /\ prev' = prev /\ head' = head
      /\ tail' = tail /\ linked' = linked
  BY DEF vars
<1>2. Lists' = Lists
  BY <1>1 DEF Lists, ListOf
<1> QED BY <1>1, <1>2 DEF LinksInv, LinksType, Represents, GoodQueues, OwnQueue,
           Ascending, Spells

(***************************************************************************)
(* In every reachable state the links are those of the queues that ListOf  *)
(* reads: each block in the one queue of its states, once, the ready queue *)
(* in the order of the priorities.                                         *)
(***************************************************************************)
THEOREM LinksInvariance == Spec => []LinksInv
<1>1. Init => LinksInv
  BY LinksStart
<1>2. LinksInv /\ [Next]_vars => LinksInv'
  BY CallsKeep, LinksStutter DEF Next
<1> QED BY <1>1, <1>2, PTL DEF Spec

(***************************************************************************)
(* The lists read the same from either end, and a block that is in no      *)
(* queue has no links (DoublyLinked): what pcb_insert relies on when it    *)
(* leaves the links of the new tail alone, and pcb_remove when it tells    *)
(* the ends of a queue by NULL.                                            *)
(***************************************************************************)
THEOREM ListsAreDoublyLinked == Spec => []DoublyLinked
<1>1. LinksInv => DoublyLinked
  <2> SUFFICES ASSUME LinksInv PROVE DoublyLinked
    OBVIOUS
  <2>1. \A p \in Block \ linked : next[p] = NULL /\ prev[p] = NULL
    BY DEF LinksInv, Represents
  <2>2. ASSUME NEW q \in QueueName, NEW s, s = ListOf(q)
        PROVE  /\ tail[q] = IF s = <<>> THEN NULL ELSE Last(s)
               /\ \A i \in DOMAIN s : prev[s[i]] = IF i = 1 THEN NULL ELSE s[i - 1]
    <3>1. Lists[q] = s
      BY <2>2 DEF Lists
    <3>2. /\ s \in Seq(Block) /\ Len(s) \in Nat /\ DOMAIN s = 1..Len(s)
          /\ Spells(s, q)
      BY <3>1, QueueLinked DEF LinksInv
    <3>3. s = <<>> <=> Len(s) = 0
      BY <3>2, EmptySeq
    <3>4. tail[q] = IF s = <<>> THEN NULL ELSE s[Len(s)]
      BY <3>2, <3>3 DEF Spells, Place
    <3>5. \A i \in 1..Len(s) : i - 1 \in 1..Len(s) <=> i # 1
      BY <3>2
    <3> QED BY <3>2, <3>4, <3>5 DEF Last, Spells, Place
  <2> QED BY <2>1, <2>2 DEF DoublyLinked
<1> QED BY <1>1, LinksInvariance, PTL

\* The operators of Pcb mean the same in the instance of Queues.
LEMMA SameOperators ==
  /\ Seqs!Block = Block /\ Seqs!States = States /\ Seqs!Fresh = Fresh
  /\ Seqs!EmptyQueues = EmptyQueues
  /\ \A Q : Seqs!Queued(Q) = Queued(Q)
  /\ \A P, Q, p : Seqs!Enqueue(P, Q, p) = Enqueue(P, Q, p)
  /\ \A P, Q, p : Seqs!Dequeue(P, Q, p) = Dequeue(P, Q, p)
<1>1. /\ Seqs!Block = Block /\ Seqs!States = States /\ Seqs!Fresh = Fresh
      /\ Seqs!EmptyQueues = EmptyQueues /\ Seqs!NULL = NULL
      /\ \A Q : Seqs!Queued(Q) = Queued(Q)
  BY DEF Seqs!Block, Block, Seqs!States, States, Seqs!Fresh, Fresh, Seqs!EmptyQueues,
         EmptyQueues, Seqs!Queued, Queued, Seqs!QueueName, QueueName, Seqs!Range, Range,
         Seqs!NULL, NULL
<1>2. \A r : Seqs!QueueFor(r) = QueueFor(r)
  BY DEF Seqs!QueueFor, QueueFor
<1>3. /\ \A s, i, e : Seqs!InsertAt(s, i, e) = InsertAt(s, i, e)
      /\ \A s, i : Seqs!RemoveAt(s, i) = RemoveAt(s, i)
      /\ \A s : Seqs!Range(s) = Range(s)
      /\ \A S : Seqs!Min(S) = Min(S)
      /\ \A s, p : Seqs!PositionOf(s, p) = PositionOf(s, p)
  BY DEF Seqs!InsertAt, InsertAt, Seqs!RemoveAt, RemoveAt, Seqs!Range, Range,
         Seqs!Min, Min, Seqs!PositionOf, PositionOf
<1>4. \A P, s, p : Seqs!ReadyPosition(P, s, p) = ReadyPosition(P, s, p)
  BY <1>3 DEF Seqs!ReadyPosition, ReadyPosition
<1>5. \A P, Q, p : Seqs!InsertPosition(P, Q, p) = InsertPosition(P, Q, p)
  BY <1>2, <1>4 DEF Seqs!InsertPosition, InsertPosition
<1>6. \A P, Q, p : Seqs!Enqueue(P, Q, p) = Enqueue(P, Q, p)
  BY <1>2, <1>3, <1>5 DEF Seqs!Enqueue, Enqueue
<1>7. \A s, p : Seqs!Unlink(s, p) = Unlink(s, p)
  BY <1>3 DEF Seqs!Unlink, Unlink
<1>8. \A P, Q, p : Seqs!Dequeue(P, Q, p) = Dequeue(P, Q, p)
  BY <1>2, <1>7 DEF Seqs!Dequeue, Dequeue
<1> QED BY <1>1, <1>6, <1>8

(***************************************************************************)
(* The pointers implement the queues (ImplementsQueues): what every call   *)
(* of pcb_insert and pcb_remove does to the lists is what Queues says it   *)
(* does to the sequences.  The other modules speak of sequences only, and  *)
(* may.                                                                    *)
(***************************************************************************)
THEOREM PointersImplementQueues == Spec => ImplementsQueues
<1>1. Init => Seqs!Init
  BY LinksStart, SameOperators DEF Init, Seqs!Init, Lists
<1>2. LinksInv /\ [Next]_vars => [Seqs!Next]_<<pcb, Lists>>
  <2> SUFFICES ASSUME LinksInv, [Next]_vars PROVE [Seqs!Next]_<<pcb, Lists>>
    OBVIOUS
  <2>1. Queued(Lists) = linked
    BY DEF LinksInv, Represents
  <2>2. ASSUME NEW p \in Block, PcbInsert(p) PROVE Seqs!PcbInsert(p)
    BY <2>1, <2>2, CallsKeep, SameOperators DEF PcbInsert, Seqs!PcbInsert, Lists
  <2>3. ASSUME NEW p \in Block, PcbRemove(p) PROVE Seqs!PcbRemove(p)
    BY <2>1, <2>3, CallsKeep, SameOperators DEF PcbRemove, Seqs!PcbRemove, Lists
  <2>4. ASSUME NEW p \in Block, NEW r \in States, Change(p, r)
        PROVE  Seqs!Change(p, r)
    BY <2>1, <2>4, CallsKeep, SameOperators DEF Change, Seqs!Change, Lists
  <2>5. CASE Next
    BY <2>2, <2>3, <2>4, <2>5, SameOperators DEF Next, Seqs!Next
  <2>6. CASE UNCHANGED vars
    BY <2>6, LinksStutter DEF vars
  <2> QED BY <2>5, <2>6
<1> QED BY <1>1, <1>2, LinksInvariance, PTL DEF Spec, ImplementsQueues, Seqs!Spec, Lists

=============================================================================
