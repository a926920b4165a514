----------------------------- MODULE PcbLinks -----------------------------
(***************************************************************************)
(* The process queues as kernel/pcb.c keeps them: every control block has  *)
(* the links next and prev, every queue a head and a tail.  pcb_insert     *)
(* relies on the links of a block that is in no queue being NULL.          *)
(***************************************************************************)
EXTENDS Pcb

CONSTANT Blocks   \* the number of control blocks

ASSUME BlocksAssumption == Blocks \in Nat

VARIABLES pcb,          \* the states and priorities of the blocks
          next, prev,   \* their links
          head, tail,   \* the ends of the queues
          linked        \* history: the blocks in the queues, by the calls

vars == <<pcb, next, prev, head, tail, linked>>

Block == 1..Blocks

States == [priority        : 0..MaxPriority,
           execution_state : {"ready", "blocked"},
           dispatch_state  : {"active", "suspended"}]

----------------------------------------------------------------------------
\* The first block of the ready queue that p goes before: one follows next
\* past the blocks of the same or a higher priority.  (A cycle would be left
\* after as many steps as there are blocks.)
FirstBehind(p) ==
  LET cur[n \in 0..Blocks] ==
        IF n = 0 THEN head["ready"]
        ELSE IF /\ cur[n - 1] # NULL
                /\ pcb[cur[n - 1]].priority <= pcb[p].priority
             THEN next[cur[n - 1]]
             ELSE cur[n - 1]
  IN  cur[Blocks]

\* The blocks of q in the order of next, up to the first link that is NULL.
ListOf(q) ==
  LET cur[n \in 1..Blocks] ==
        IF n = 1 THEN head[q]
        ELSE IF cur[n - 1] = NULL THEN NULL ELSE next[cur[n - 1]]
  IN  [i \in 1..Cardinality({n \in 1..Blocks : cur[n] # NULL}) |-> cur[i]]

----------------------------------------------------------------------------
(***************************************************************************)
(* pcb_insert.                                                             *)
(***************************************************************************)
InsertEmpty(q, p) ==
  /\ head[q] = NULL
  /\ head' = [head EXCEPT ![q] = p] /\ tail' = [tail EXCEPT ![q] = p]
  /\ UNCHANGED <<next, prev>>

InsertTail(q, p) ==
  /\ head[q] # NULL
  /\ next' = [next EXCEPT ![tail[q]] = p]
  /\ prev' = [prev EXCEPT ![p] = tail[q]]
  /\ tail' = [tail EXCEPT ![q] = p]
  /\ UNCHANGED head

\* Seeded fault: the head of the queue stays where it was.
InsertBeforeKeepsHead(q, p, cur) ==
  /\ next' = [x \in Block |-> IF x = p THEN cur
                              ELSE IF x = prev[cur] THEN p ELSE next[x]]
  /\ prev' = [prev EXCEPT ![p] = prev[cur], ![cur] = p]
  /\ UNCHANGED <<head, tail>>

InsertBefore(q, p, cur) ==
  /\ next' = [x \in Block |-> IF x = p THEN cur
                              ELSE IF x = prev[cur] THEN p ELSE next[x]]
  /\ prev' = [prev EXCEPT ![p] = prev[cur], ![cur] = p]
  /\ head' = IF prev[cur] = NULL THEN [head EXCEPT ![q] = p] ELSE head
  /\ UNCHANGED tail

PcbInsert(p) ==
  LET q   == QueueFor(pcb[p])
      cur == IF q = "ready" THEN FirstBehind(p) ELSE NULL
  IN  /\ p \notin linked
      /\ \/ cur = NULL /\ (InsertEmpty(q, p) \/ InsertTail(q, p))
         \/ cur # NULL /\ InsertBefore(q, p, cur)
      /\ linked' = linked \cup {p}
      /\ UNCHANGED pcb

(***************************************************************************)
(* pcb_remove.                                                             *)
(***************************************************************************)
\* Seeded fault: the links of the block are not cleared.
ClearNone(f, p) == f

Clear(f, p) == [f EXCEPT ![p] = NULL]

PcbRemove(p) ==
  LET q == QueueFor(pcb[p])
      n == next[p]
      b == prev[p]
  IN  /\ p \in linked
      /\ head[q] # NULL
      /\ next' = Clear([x \in Block |-> IF x = b THEN n ELSE next[x]], p)
      /\ prev' = Clear([x \in Block |-> IF x = n THEN b ELSE prev[x]], p)
      /\ head' = IF b = NULL THEN [head EXCEPT ![q] = n] ELSE head
      /\ tail' = IF n = NULL THEN [tail EXCEPT ![q] = b] ELSE tail
      /\ linked' = linked \ {p}
      /\ UNCHANGED pcb

\* The states that pcb_setup gives a block.
Fresh == {r \in States : r.execution_state = "ready" /\ r.dispatch_state = "active"}

\* A caller changes the states or the priority of a block it has unlinked.
Change(p, r) == /\ p \notin linked
                /\ pcb' = [pcb EXCEPT ![p] = r]
                /\ UNCHANGED <<next, prev, head, tail, linked>>

Init == /\ pcb \in [Block -> Fresh]
        /\ next = [p \in Block |-> NULL] /\ prev = [p \in Block |-> NULL]
        /\ head = [q \in QueueName |-> NULL] /\ tail = [q \in QueueName |-> NULL]
        /\ linked = {}

Next == \E p \in Block : \/ PcbInsert(p) \/ PcbRemove(p)
                         \/ \E r \in States : Change(p, r)

Spec == Init /\ [][Next]_vars

----------------------------------------------------------------------------
(***************************************************************************)
(* The lists are the same read from either end: prev leads back over next, *)
(* the head has no block before it, the tail is the block next ends at,    *)
(* and a block that is in no queue has no links.                           *)
(***************************************************************************)
DoublyLinked ==
  /\ \A q \in QueueName :
       LET s == ListOf(q)
       IN  /\ tail[q] = IF s = <<>> THEN NULL ELSE Last(s)
           /\ \A i \in DOMAIN s : prev[s[i]] = IF i = 1 THEN NULL ELSE s[i - 1]
  /\ \A p \in Block \ linked : next[p] = NULL /\ prev[p] = NULL

Seqs == INSTANCE Queues WITH queue <- [q \in QueueName |-> ListOf(q)]

(***************************************************************************)
(* The pointers implement the queues: whatever calls are made, following   *)
(* next from the heads yields the sequences Queues speaks of, with each    *)
(* block inserted at its place and removed without loss of another.        *)
(***************************************************************************)
ImplementsQueues == Seqs!Spec

=============================================================================
