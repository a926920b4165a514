------------------------------ MODULE Queues ------------------------------
(***************************************************************************)
(* What kernel/pcb.c promises its callers: the four process queues as      *)
(* sequences.  A caller links a block that is in no queue, unlinks one     *)
(* that is in a queue, and changes the states and the priority of a block  *)
(* only while it is in none.  PcbLinks implements this with pointers; Mpx  *)
(* is written over it.                                                     *)
(***************************************************************************)
EXTENDS Pcb

CONSTANT Blocks   \* the number of control blocks

VARIABLES pcb,    \* the control blocks: what pcb_insert looks at
          queue   \* the queues

Block == 1..Blocks

States == [priority        : 0..MaxPriority,
           execution_state : {"ready", "blocked"},
           dispatch_state  : {"active", "suspended"}]

PcbInsert(p) == /\ p \notin Queued(queue)
                /\ queue' = Enqueue(pcb, queue, p)
                /\ UNCHANGED pcb

PcbRemove(p) == /\ p \in Queued(queue)
                /\ queue' = Dequeue(pcb, queue, p)
                /\ UNCHANGED pcb

Change(p, r) == /\ p \notin Queued(queue)
                /\ pcb' = [pcb EXCEPT ![p] = r]
                /\ UNCHANGED queue

\* The states that pcb_setup gives a block.
Fresh == {r \in States : r.execution_state = "ready" /\ r.dispatch_state = "active"}

Init == /\ pcb \in [Block -> Fresh]
        /\ queue = EmptyQueues

Next == \E p \in Block : \/ PcbInsert(p) \/ PcbRemove(p)
                         \/ \E r \in States : Change(p, r)

Spec == Init /\ [][Next]_<<pcb, queue>>

=============================================================================
