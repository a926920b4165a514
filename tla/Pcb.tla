-------------------------------- MODULE Pcb --------------------------------
(***************************************************************************)
(* Process control blocks and the four process queues: kernel/pcb.c and    *)
(* include/pcb.h.                                                          *)
(*                                                                         *)
(* A process control block is named by the order in which it was allocated *)
(* (1, 2, ...), which is also its address order: the kernel heap only      *)
(* grows.  NULL is 0.  A table P of control blocks is a sequence of        *)
(* records, a table Q of queues maps each queue to the sequence of the     *)
(* blocks linked into it, head first.  The operators are the functions of  *)
(* pcb.c over P and Q.                                                     *)
(***************************************************************************)
EXTENDS Integers, SequencesExt

CONSTANTS R3Count,      \* number of test processes: proc1 .. procN
          MaxPriority   \* the lowest priority (0 is the highest)

ASSUME PcbAssumption == R3Count \in Nat /\ MaxPriority \in Nat

NULL == 0

\* The names the system gives its processes, and what else a user may type.
\* proc n runs for n iterations; alarms are numbered as they are set.
CommhandName == [base |-> "commhand", n |-> 0]
IdleName == [base |-> "idle", n |-> 0]
ProcName(n) == [base |-> "proc", n |-> n]
AlarmName(n) == [base |-> "alarm", n |-> n]
NoName == [base |-> "unknown", n |-> 0]
Name == [base : {"commhand", "idle", "proc", "alarm", "unknown"}, n : Nat]

\* A command line, reduced to what the command handler makes of it.
Op == {"block", "unblock", "suspend", "resume", "resume all", "priority",
       "delete", "load", "load one", "load suspended", "alarm", "exit",
       "exit force", "shutdown", "shutdown force", "none"}
Line == [op : Op, name : Name, prio : Nat]
NoLine == [op |-> "none", name |-> NoName, prio |-> 0]

\* A saved context: the place in the program and the locals that live across
\* a switch (a loop counter or a pointer, and the command line).
Label == {"null", "kmain_commhand", "kmain_idle", "kmain_run", "kmain_off",
          "com_start", "com_read", "com_exec", "com_confirm", "com_load",
          "com_suspend", "com_resume", "idle", "proc", "alarm"}
Context == [at : Label, i : Nat, line : Line]
At(label) == [at |-> label, i |-> 0, line |-> NoLine]

PcbRec == [name            : Name,
           process_class   : {"system", "user"},
           priority        : 0..MaxPriority,
           execution_state : {"ready", "blocked"},
           dispatch_state  : {"active", "suspended"},
           ctx             : Context]

QueueName == {"ready", "blocked", "suspended_ready", "suspended_blocked"}
EmptyQueues == [q \in QueueName |-> <<>>]

(***************************************************************************)
(* A new control block as pcb_setup leaves it.                             *)
(***************************************************************************)
NewPcb(name, class, priority, label) ==
  [name            |-> name,
   process_class   |-> class,
   priority        |-> priority,
   execution_state |-> "ready",
   dispatch_state  |-> "active",
   ctx             |-> At(label)]

(***************************************************************************)
(* The queue that pcb_insert and pcb_remove choose from a block's states.  *)
(***************************************************************************)
\* Seeded fault: the dispatch state is not looked at.
QueueForExecution(r) ==
  IF r.execution_state = "blocked" THEN "blocked" ELSE "ready"

QueueFor(r) ==
  IF r.execution_state = "blocked"
  THEN IF r.dispatch_state = "suspended" THEN "suspended_blocked" ELSE "blocked"
  ELSE IF r.dispatch_state = "suspended" THEN "suspended_ready" ELSE "ready"

(***************************************************************************)
(* pcb_insert.  The ready queue is kept in priority order, first in first  *)
(* out among equals: the block goes before the first one with a strictly   *)
(* greater number.  The other queues take it at the tail.                  *)
(***************************************************************************)
\* Seeded fault: always at the tail.
ReadyPositionAtTail(P, s, p) == Len(s) + 1

\* Seeded fault: before the first one of the same priority.
ReadyPositionBeforeEquals(P, s, p) ==
  Min({i \in DOMAIN s : P[s[i]].priority >= P[p].priority} \cup {Len(s) + 1})

ReadyPosition(P, s, p) ==
  Min({i \in DOMAIN s : P[s[i]].priority > P[p].priority} \cup {Len(s) + 1})

InsertPosition(P, Q, p) ==
  LET q == QueueFor(P[p])
  IN  IF q = "ready" THEN ReadyPosition(P, Q[q], p) ELSE Len(Q[q]) + 1

Enqueue(P, Q, p) ==
  [Q EXCEPT ![QueueFor(P[p])] = InsertAt(@, InsertPosition(P, Q, p), p)]

(***************************************************************************)
(* pcb_remove.  The block is unlinked from its neighbours.  One that is in *)
(* no queue has null links, so that unlinking it empties the queue its     *)
(* states name.                                                            *)
(***************************************************************************)
PositionOf(s, p) == CHOOSE i \in DOMAIN s : s[i] = p

Unlink(s, p) == IF p \in Range(s) THEN RemoveAt(s, PositionOf(s, p)) ELSE <<>>

Dequeue(P, Q, p) == [Q EXCEPT ![QueueFor(P[p])] = Unlink(@, p)]

(***************************************************************************)
(* pcb_find: the first block of that name in the ready, blocked,           *)
(* suspended-ready and suspended-blocked queues, in this order.  The       *)
(* process on the processor is in no queue and is not found.               *)
(***************************************************************************)
\* Seeded fault: the suspended queues are not searched.
SearchOrderActive(Q) == Q["ready"] \o Q["blocked"]

SearchOrder(Q) ==
  Q["ready"] \o Q["blocked"] \o Q["suspended_ready"] \o Q["suspended_blocked"]

Find(P, Q, name) ==
  LET all  == SearchOrder(Q)
      hits == {i \in DOMAIN all : P[all[i]].name = name}
  IN  IF hits = {} THEN NULL ELSE all[Min(hits)]

\* The head of a queue, and the block after p in it.
HeadOf(s) == IF s = <<>> THEN NULL ELSE s[1]
NextOf(s, p) == LET i == PositionOf(s, p)
                IN  IF i = Len(s) THEN NULL ELSE s[i + 1]

\* The blocks that are linked into some queue.
Queued(Q) == UNION {Range(Q[q]) : q \in QueueName}

(***************************************************************************)
(* What the kernel's queues must satisfy.                                  *)
(***************************************************************************)
StoreType(P, Q) == /\ P \in Seq(PcbRec)
                   /\ Q \in [QueueName -> Seq(1..Len(P))]

\* A queue holds a block once, and only the queue its states name holds it.
OwnQueue(P, Q) ==
  \A q \in QueueName : /\ IsInjective(Q[q])
                       /\ \A p \in Range(Q[q]) : QueueFor(P[p]) = q

\* No block before one of a higher priority (a smaller number).
Ascending(P, s) ==
  \A i, j \in DOMAIN s : i < j => P[s[i]].priority <= P[s[j]].priority

\* The three together: what pcb_insert and pcb_remove rely on and preserve.
GoodStore(P, Q) == StoreType(P, Q) /\ OwnQueue(P, Q) /\ Ascending(P, Q["ready"])

=============================================================================
