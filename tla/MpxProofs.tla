------------------------------ MODULE MpxProofs ------------------------------
(***************************************************************************)
(* Theorems about the running system, for every set of command lines,      *)
(* number of test processes, number of priorities and size of the heap.    *)
(***************************************************************************)
EXTENDS MpxProperties, PcbProofs

(***************************************************************************)
(* The processes that exist, as a set.                                     *)
(***************************************************************************)
Living == Queued(queue) \cup ({curProc} \ {NULL})

\* NamesUnique, said of the processes that live.
LEMMA NamesUniqueOnLiving ==
  ASSUME TypeOK
  PROVE  NamesUnique <=> \A p, q \in Living : pcb[p].name = pcb[q].name => p = q
<1>1. DOMAIN pcb = 1..Len(pcb) /\ Queued(queue) \subseteq 1..Len(pcb) /\ Len(pcb) \in Nat
  BY StoreFacts DEF TypeOK
<1>2. \A p : Alive(p) <=> p \in Living
  BY DEF Alive, Living
<1>3. Living \subseteq DOMAIN pcb
  BY <1>1 DEF Living, TypeOK, NULL
<1> QED BY <1>2, <1>3 DEF NamesUnique

\* The invariant makes the queues such that pcb_insert and pcb_remove work.
LEMMA InvImpliesGood ==
  ASSUME IInv
  PROVE  /\ GoodStore(pcb, queue)
         /\ Len(pcb) \in Nat /\ Queued(queue) \subseteq 1..Len(pcb)
         /\ curProc \notin Queued(queue)
  BY StoreFacts DEF IInv, TypeOK, OnePlace, ReadySorted, GoodStore

(***************************************************************************)
(* The part of the invariant that the dispatcher and the commands work on; *)
(* the rest of it is about heap, output and the cursor.                    *)
(***************************************************************************)
KernelInv ==
  /\ GoodStore(pcb, queue)
  /\ curProc \in 0..Len(pcb) /\ curProc \notin Queued(queue)
  /\ cpu \in Context /\ sysStack \in Context
  /\ OnlyReadyRuns
  /\ \A p, q \in Living : pcb[p].name = pcb[q].name => p = q
  /\ ControlInv

\* The invariant contains the part about the kernel.
LEMMA InvImpliesKernelInv == ASSUME IInv PROVE KernelInv
<1>1. TypeOK /\ NamesUnique /\ OnlyReadyRuns /\ ControlInv
  BY DEF IInv
<1>2. \A p, q \in Living : pcb[p].name = pcb[q].name => p = q
  BY <1>1, NamesUniqueOnLiving
<1> QED BY <1>1, <1>2, InvImpliesGood DEF KernelInv, TypeOK

\* Types, spelled out for the provers.
LEMMA KernelFacts ==
  ASSUME KernelInv
  PROVE  /\ Len(pcb) \in Nat /\ DOMAIN pcb = 1..Len(pcb)
         /\ Queued(queue) \subseteq 1..Len(pcb)
         /\ \A p \in 1..Len(pcb) : pcb[p] \in PcbRec
         /\ Range(queue["ready"]) \subseteq Queued(queue)
         /\ StoreType(pcb, queue)
<1>1. StoreType(pcb, queue) /\ "ready" \in QueueName
  BY DEF KernelInv, GoodStore, QueueName
<1> QED BY <1>1, StoreFacts

(***************************************************************************)
(* The head of the ready queue may run.                                    *)
(***************************************************************************)
LEMMA ReadyHeadProperties ==
  ASSUME KernelInv, ReadyHead # NULL
  PROVE  /\ ReadyHead \in Range(queue["ready"])
         /\ ReadyHead \in Queued(queue) /\ ReadyHead \in 1..Len(pcb)
         /\ \A p \in Range(queue["ready"]) :
              pcb[ReadyHead].priority <= pcb[p].priority
         /\ pcb[ReadyHead].execution_state = "ready"
         /\ pcb[ReadyHead].dispatch_state = "active"
<1>1. GoodStore(pcb, queue) /\ OwnQueue(pcb, queue) /\ "ready" \in QueueName
  BY DEF KernelInv, GoodStore, QueueName
<1>2. /\ ReadyHead \in Range(queue["ready"])
      /\ \A p \in Range(queue["ready"]) :
           pcb[ReadyHead].priority <= pcb[p].priority
  BY <1>1, HeadProperties DEF ReadyHead
<1>3. ReadyHead \in Queued(queue) /\ ReadyHead \in 1..Len(pcb)
  BY <1>2, KernelFacts
<1>4. QueueFor(pcb[ReadyHead]) = "ready"
  BY <1>1, <1>2 DEF OwnQueue
<1>5. pcb[ReadyHead] \in PcbRec
  BY <1>3, KernelFacts
<1>6. /\ pcb[ReadyHead].execution_state \in {"ready", "blocked"}
      /\ pcb[ReadyHead].dispatch_state \in {"active", "suspended"}
  BY <1>5 DEF PcbRec
<1>7. /\ pcb[ReadyHead].execution_state = "ready"
      /\ pcb[ReadyHead].dispatch_state = "active"
  BY <1>4, <1>6 DEF QueueFor
<1> QED BY <1>2, <1>3, <1>7

----------------------------------------------------------------------------
(***************************************************************************)
(* Steps of the command handler.  A block that is moved to another queue   *)
(* stays queued; its name and its context are kept.                        *)
(***************************************************************************)
SameProcesses ==
  /\ Len(pcb') = Len(pcb)
  /\ \A x \in 1..Len(pcb) :
       pcb'[x].name = pcb[x].name /\ pcb'[x].ctx = pcb[x].ctx
  /\ curProc # NULL => pcb'[curProc] = pcb[curProc]

\* A block that waits is unlinked, changed and linked again.
LEMMA RequeueStep ==
  ASSUME KernelInv, NEW p \in Queued(queue), NEW r \in PcbRec,
         r.name = pcb[p].name, r.ctx = pcb[p].ctx, Requeue(p, r)
  PROVE  /\ GoodStore(pcb', queue') /\ Queued(queue') = Queued(queue)
         /\ SameProcesses
         /\ pcb' = [pcb EXCEPT ![p] = r]
         /\ queue' = Enqueue(pcb', Dequeue(pcb, queue, p), p)
<1> DEFINE without == Dequeue(pcb, queue, p)
           changed == [pcb EXCEPT ![p] = r]
<1>1. GoodStore(pcb, queue) /\ curProc \notin Queued(queue) /\ curProc \in 0..Len(pcb)
  BY DEF KernelInv
<1>2. p \in 1..Len(pcb) /\ Len(pcb) \in Nat
  BY KernelFacts
<1>3. GoodStore(pcb, without) /\ Queued(without) = Queued(queue) \ {p}
  BY <1>1, DequeueKeepsGood
<1> HIDE DEF without
<1>4. /\ GoodStore(changed, without) /\ Len(changed) = Len(pcb)
      /\ changed[p] = r
      /\ \A x \in 1..Len(pcb) : x # p => changed[x] = pcb[x]
  BY <1>2, <1>3, UpdateKeepsGood
<1> HIDE DEF changed
<1>5. /\ GoodStore(changed, Enqueue(changed, without, p))
      /\ Queued(Enqueue(changed, without, p)) = Queued(without) \cup {p}
  BY <1>2, <1>3, <1>4, EnqueueKeepsGood
<1>6. pcb' = changed /\ queue' = Enqueue(changed, without, p)
  BY DEF Requeue, changed, without
<1>7. Queued(queue') = Queued(queue)
  BY <1>3, <1>5, <1>6
<1>8. SameProcesses
  <2>1. \A x \in 1..Len(pcb) : changed[x].name = pcb[x].name /\ changed[x].ctx = pcb[x].ctx
    BY <1>4
  <2>2. curProc # NULL => changed[curProc] = pcb[curProc]
    BY <1>1, <1>2, <1>4 DEF NULL
  <2> QED BY <1>4, <1>6, <2>1, <2>2 DEF SameProcesses
<1> QED BY <1>5, <1>6, <1>7, <1>8 DEF changed, without

(***************************************************************************)
(* A step of the command handler that takes no process on keeps the        *)
(* invariant, whatever it does to the states and priorities of those that  *)
(* wait.                                                                   *)
(***************************************************************************)
LEMMA CommandStep ==
  ASSUME KernelInv, GoodStore(pcb', queue'), Queued(queue') \subseteq Queued(queue),
         SameProcesses, curProc' = curProc, sysStack' = sysStack,
         cpu.at \in ComLabels, cpu' \in Context, cpu'.at \in ComLabels
  PROVE  KernelInv'
<1>1. /\ curProc' \in 0..Len(pcb') /\ curProc' \notin Queued(queue')
      /\ curProc # NULL /\ curProc \in 1..Len(pcb)
  BY KernelFacts DEF KernelInv, SameProcesses, ControlInv, NULL
<1>2. OnlyReadyRuns'
  BY <1>1 DEF KernelInv, OnlyReadyRuns, SameProcesses
<1>3. Living' \subseteq Living
  BY DEF Living
<1>4. Living \subseteq 1..Len(pcb)
  BY <1>1, KernelFacts DEF Living
<1>5. \A p, q \in Living' : pcb'[p].name = pcb'[q].name => p = q
  BY <1>3, <1>4 DEF KernelInv, SameProcesses
<1>6. ControlInv'
  <2>1. cpu'.at \notin BootLabels
    BY DEF ComLabels, BootLabels
  <2>2. pcb'[curProc'].name = CommhandName
    BY <1>1 DEF KernelInv, ControlInv, SameProcesses
  <2>3. \A p \in 1..Len(pcb') :
          /\ pcb'[p].ctx.at \in YieldLabels
          /\ pcb'[p].ctx.at \in ComLabels => pcb'[p].name = CommhandName
    BY DEF KernelInv, ControlInv, SameProcesses
  <2>4. sysStack'.at \in {"null", "kmain_off"}
    BY DEF KernelInv, ControlInv
  <2> QED BY <1>1, <2>1, <2>2, <2>3, <2>4 DEF ControlInv
<1> QED BY <1>1, <1>2, <1>5, <1>6 DEF KernelInv

\* A command that leaves the queues alone.
LEMMA NothingMoves ==
  ASSUME KernelInv, UNCHANGED <<pcb, queue>>
  PROVE  GoodStore(pcb', queue') /\ Queued(queue') = Queued(queue) /\ SameProcesses
  BY DEF KernelInv, SameProcesses

(***************************************************************************)
(* suspend_pcb and resume_pcb.                                             *)
(***************************************************************************)
LEMMA SuspendStep ==
  ASSUME KernelInv, NEW p, p \in Queued(queue) \/ p = NULL, SuspendPcb(p)
  PROVE  GoodStore(pcb', queue') /\ Queued(queue') = Queued(queue) /\ SameProcesses
<1>1. CASE p # NULL /\ pcb[p].process_class # "system" /\ pcb[p].dispatch_state = "active"
  <2> DEFINE r == [pcb[p] EXCEPT !.dispatch_state = "suspended"]
  <2>1. pcb[p] \in PcbRec
    BY <1>1, KernelFacts
  <2>2. r \in PcbRec /\ r.name = pcb[p].name /\ r.ctx = pcb[p].ctx
    BY <2>1 DEF PcbRec
  <2>3. Requeue(p, r)
    BY <1>1 DEF SuspendPcb
  <2> HIDE DEF r
  <2> QED BY <1>1, <2>2, <2>3, RequeueStep
<1>2. CASE ~(p # NULL /\ pcb[p].process_class # "system" /\ pcb[p].dispatch_state = "active")
  BY <1>2, NothingMoves DEF SuspendPcb
<1> QED BY <1>1, <1>2

\* resume_pcb moves at most one block.
LEMMA ResumeStep ==
  ASSUME KernelInv, NEW p, p \in Queued(queue) \/ p = NULL, ResumePcb(p)
  PROVE  GoodStore(pcb', queue') /\ Queued(queue') = Queued(queue) /\ SameProcesses
<1>1. CASE p # NULL /\ pcb[p].dispatch_state = "suspended"
  <2> DEFINE r == [pcb[p] EXCEPT !.dispatch_state = "active"]
  <2>1. pcb[p] \in PcbRec
    BY <1>1, KernelFacts
  <2>2. r \in PcbRec /\ r.name = pcb[p].name /\ r.ctx = pcb[p].ctx
    BY <2>1 DEF PcbRec
  <2>3. Requeue(p, r)
    BY <1>1 DEF ResumePcb
  <2> HIDE DEF r
  <2> QED BY <1>1, <2>2, <2>3, RequeueStep
<1>2. CASE ~(p # NULL /\ pcb[p].dispatch_state = "suspended")
  BY <1>2, NothingMoves DEF ResumePcb
<1> QED BY <1>1, <1>2

----------------------------------------------------------------------------
(***************************************************************************)
(* What a step that passes the processor on must do: the process that gets *)
(* it, if there is one, is the head of the ready queue.                    *)
(***************************************************************************)
Dispatches == curProc' # curProc /\ curProc' # NULL => curProc' = ReadyHead

(***************************************************************************)
(* kmain or a process resumes: the invariant of the dispatcher, from what  *)
(* is known of the queues and of the context that is restored.             *)
(***************************************************************************)
LEMMA ResumedStep ==
  ASSUME KernelInv, GoodStore(pcb', queue'), Len(pcb') = Len(pcb),
         curProc' \in 0..Len(pcb), curProc' \notin Queued(queue'),
         Living' \subseteq Living, sysStack' \in Context,
         sysStack'.at \in {"null", "kmain_off"},
         OnlyReadyRuns',
         \A x \in 1..Len(pcb) :
           /\ pcb'[x].name = pcb[x].name
           /\ pcb'[x].ctx.at \in YieldLabels
           /\ pcb'[x].ctx.at \in ComLabels => pcb'[x].name = CommhandName,
         \/ cpu' = sysStack'
         \/ curProc' \in 1..Len(pcb) /\ cpu' = pcb'[curProc'].ctx
  PROVE  KernelInv' /\ cpu'.at # "com_resume"
<1>1. Len(pcb) \in Nat /\ DOMAIN pcb = 1..Len(pcb) /\ Living \subseteq 1..Len(pcb)
  BY KernelFacts DEF Living, KernelInv, NULL
<1>2. \A p, q \in Living' : pcb'[p].name = pcb'[q].name => p = q
  BY <1>1 DEF KernelInv
<1>3. CASE cpu' = sysStack'
  <2>1. ControlInv'
    BY <1>3 DEF ControlInv, BootLabels, ComLabels, YieldLabels
  <2> QED BY <1>2, <1>3, <2>1 DEF KernelInv
<1>4. CASE curProc' \in 1..Len(pcb) /\ cpu' = pcb'[curProc'].ctx
  <2>1. ControlInv' /\ cpu'.at # "com_resume"
    BY <1>1, <1>4 DEF ControlInv, BootLabels, YieldLabels, NULL
  <2>2. pcb'[curProc'] \in PcbRec
    BY <1>4, StoreFacts DEF GoodStore
  <2>3. cpu' \in Context
    BY <1>4, <2>2 DEF PcbRec
  <2> QED BY <1>2, <2>1, <2>3 DEF KernelInv
<1> QED BY <1>3, <1>4

(***************************************************************************)
(* The system call IDLE.                                                   *)
(***************************************************************************)
LEMMA IdleStep ==
  ASSUME KernelInv, NEW saved \in Context, Idle(saved),
         curProc = NULL => saved.at = "kmain_off",
         curProc # NULL => /\ saved.at \in YieldLabels
                           /\ saved.at \in ComLabels => pcb[curProc].name = CommhandName
  PROVE  KernelInv' /\ cpu'.at # "com_resume" /\ Len(pcb') = Len(pcb) /\ Dispatches
<1>1. /\ GoodStore(pcb, queue) /\ Len(pcb) \in Nat /\ Queued(queue) \subseteq 1..Len(pcb)
      /\ curProc \in 0..Len(pcb) /\ curProc \notin Queued(queue)
      /\ \A p \in 1..Len(pcb) : pcb[p] \in PcbRec
  BY KernelFacts DEF KernelInv
<1>2. sysStack' \in Context /\ sysStack'.at \in {"null", "kmain_off"}
  BY DEF Idle, SaveKernelContext, KernelInv, ControlInv
<1>3. \A x \in 1..Len(pcb) :
        /\ pcb[x].ctx.at \in YieldLabels
        /\ pcb[x].ctx.at \in ComLabels => pcb[x].name = CommhandName
  BY DEF KernelInv, ControlInv
<1>4. CASE IdleToKernel
  <2>1. cpu' = sysStack' /\ UNCHANGED <<pcb, queue, curProc>>
    BY <1>4 DEF IdleToKernel
  <2>2. OnlyReadyRuns'
    BY <2>1 DEF KernelInv, OnlyReadyRuns
  <2>3. Living' = Living
    BY <2>1 DEF Living
  <2>4. KernelInv' /\ cpu'.at # "com_resume"
    BY <1>1, <1>2, <1>3, <2>1, <2>2, <2>3, ResumedStep
  <2> QED BY <2>1, <2>4 DEF Dispatches
<1>5. CASE IdleFirst
  <2> DEFINE h == ReadyHead
  <2>1. /\ h # NULL /\ queue' = Dequeue(pcb, queue, h) /\ curProc' = h
        /\ cpu' = pcb[h].ctx /\ pcb' = pcb
    BY <1>5 DEF IdleFirst
  <2>2. /\ h \in Queued(queue) /\ h \in 1..Len(pcb)
        /\ pcb[h].execution_state = "ready" /\ pcb[h].dispatch_state = "active"
    BY <2>1, ReadyHeadProperties
  <2> HIDE DEF h
  <2>3. GoodStore(pcb', queue') /\ Queued(queue') = Queued(queue) \ {h}
    BY <1>1, <2>1, <2>2, DequeueKeepsGood
  <2>4. OnlyReadyRuns'
    BY <2>1, <2>2 DEF OnlyReadyRuns
  <2>5. Living' \subseteq Living /\ curProc' \notin Queued(queue')
    BY <2>1, <2>2, <2>3 DEF Living
  <2>6. KernelInv' /\ cpu'.at # "com_resume"
    BY <1>1, <1>2, <1>3, <2>1, <2>2, <2>3, <2>4, <2>5, ResumedStep
  <2> QED BY <2>1, <2>6 DEF Dispatches, h
<1>6. CASE IdleSwitch(saved)
  <2> DEFINE h == ReadyHead
             r == [pcb[curProc] EXCEPT !.ctx = saved]
             saves == [pcb EXCEPT ![curProc] = r]
             back == Enqueue(saves, queue, curProc)
  <2>1. /\ h # NULL /\ curProc # NULL /\ curProc' = h
        /\ pcb' = [pcb EXCEPT ![curProc].ctx = saved]
        /\ queue' = Dequeue(pcb', Enqueue(pcb', queue, curProc), h)
        /\ cpu' = pcb'[h].ctx
    BY <1>6 DEF IdleSwitch
  <2>2. /\ h \in Queued(queue) /\ h \in 1..Len(pcb)
        /\ pcb[h].execution_state = "ready" /\ pcb[h].dispatch_state = "active"
    BY <2>1, ReadyHeadProperties
  <2>3. curProc \in 1..Len(pcb) /\ pcb[curProc] \in PcbRec /\ DOMAIN pcb = 1..Len(pcb)
    BY <1>1, <2>1, KernelFacts DEF NULL
  <2>4. r \in PcbRec /\ r.name = pcb[curProc].name /\ r.ctx = saved
    BY <2>3 DEF PcbRec
  <2>5. pcb' = saves
    BY <2>1
  <2> HIDE DEF h, r
  <2>6. /\ GoodStore(saves, queue) /\ Len(saves) = Len(pcb) /\ saves[curProc] = r
        /\ \A x \in 1..Len(pcb) : x # curProc => saves[x] = pcb[x]
    BY <1>1, <2>3, <2>4, UpdateKeepsGood
  <2> HIDE DEF saves
  <2>7. GoodStore(saves, back) /\ Queued(back) = Queued(queue) \cup {curProc}
    BY <1>1, <2>3, <2>6, EnqueueKeepsGood
  <2>8. queue' = Dequeue(saves, back, h)
    BY <2>1, <2>5
  <2> HIDE DEF back
  <2>9. GoodStore(saves, queue') /\ Queued(queue') = Queued(back) \ {h}
    BY <2>2, <2>7, <2>8, DequeueKeepsGood
  <2>10. h # curProc /\ saves[h] = pcb[h]
    BY <1>1, <2>2, <2>6
  <2>11. OnlyReadyRuns'
    BY <2>1, <2>2, <2>5, <2>10 DEF OnlyReadyRuns
  <2>12. Living' \subseteq Living /\ curProc' \notin Queued(queue')
    BY <2>1, <2>2, <2>7, <2>9 DEF Living
  <2>13. \A x \in 1..Len(pcb) :
           /\ pcb'[x].name = pcb[x].name
           /\ pcb'[x].ctx.at \in YieldLabels
           /\ pcb'[x].ctx.at \in ComLabels => pcb'[x].name = CommhandName
    BY <1>3, <2>1, <2>4, <2>5, <2>6
  <2>14. /\ GoodStore(pcb', queue') /\ Len(pcb') = Len(pcb)
         /\ curProc' \in 1..Len(pcb) /\ cpu' = pcb'[curProc'].ctx
    BY <2>1, <2>2, <2>5, <2>6, <2>9
  <2>15. curProc' \in 0..Len(pcb)
    BY <1>1, <2>14
  <2>16. KernelInv' /\ cpu'.at # "com_resume"
    BY <1>2, <2>11, <2>12, <2>13, <2>14, <2>15, ResumedStep
  <2> QED BY <2>1, <2>14, <2>16 DEF Dispatches, h
<1> QED BY <1>4, <1>5, <1>6 DEF Idle

(***************************************************************************)
(* The system call EXIT.                                                   *)
(***************************************************************************)
LEMMA ExitStep ==
  ASSUME KernelInv, Exit, curProc # NULL
  PROVE  KernelInv' /\ cpu'.at # "com_resume" /\ Len(pcb') = Len(pcb) /\ Dispatches
<1>1. /\ GoodStore(pcb, queue) /\ Len(pcb) \in Nat /\ Queued(queue) \subseteq 1..Len(pcb)
      /\ \A p \in 1..Len(pcb) : pcb[p] \in PcbRec
  BY KernelFacts DEF KernelInv
<1>2. sysStack' \in Context /\ sysStack'.at \in {"null", "kmain_off"} /\ pcb' = pcb
  BY DEF Exit, SaveKernelContext, KernelInv, ControlInv
<1>3. \A x \in 1..Len(pcb) :
        /\ pcb[x].ctx.at \in YieldLabels
        /\ pcb[x].ctx.at \in ComLabels => pcb[x].name = CommhandName
  BY DEF KernelInv, ControlInv
<1>4. CASE ExitToKernel
  <2>1. cpu' = sysStack' /\ queue' = queue /\ curProc' = NULL
    BY <1>4 DEF ExitToKernel
  <2>2. OnlyReadyRuns' /\ curProc' \in 0..Len(pcb) /\ curProc' \notin Queued(queue')
    BY <1>1, <2>1 DEF OnlyReadyRuns, NULL
  <2>3. Living' \subseteq Living
    BY <2>1 DEF Living
  <2>4. KernelInv' /\ cpu'.at # "com_resume"
    BY <1>1, <1>2, <1>3, <2>1, <2>2, <2>3, ResumedStep
  <2> QED BY <1>2, <2>1, <2>4 DEF Dispatches
<1>5. CASE ExitToNext
  <2> DEFINE h == ReadyHead
  <2>1. /\ h # NULL /\ queue' = Dequeue(pcb, queue, h) /\ curProc' = h
        /\ cpu' = pcb[h].ctx
    BY <1>5 DEF ExitToNext
  <2>2. /\ h \in Queued(queue) /\ h \in 1..Len(pcb)
        /\ pcb[h].execution_state = "ready" /\ pcb[h].dispatch_state = "active"
    BY <2>1, ReadyHeadProperties
  <2> HIDE DEF h
  <2>3. GoodStore(pcb', queue') /\ Queued(queue') = Queued(queue) \ {h}
    BY <1>1, <1>2, <2>1, <2>2, DequeueKeepsGood
  <2>4. OnlyReadyRuns'
    BY <1>2, <2>1, <2>2 DEF OnlyReadyRuns
  <2>5. Living' \subseteq Living /\ curProc' \notin Queued(queue')
    BY <2>1, <2>2, <2>3 DEF Living
  <2>6. KernelInv' /\ cpu'.at # "com_resume"
    BY <1>1, <1>2, <1>3, <2>1, <2>2, <2>3, <2>4, <2>5, ResumedStep
  <2> QED BY <1>2, <2>1, <2>6 DEF Dispatches, h
<1> QED BY <1>4, <1>5 DEF Exit

----------------------------------------------------------------------------
(***************************************************************************)
(* The variables outside the kernel: the rest of the type invariant.       *)
(***************************************************************************)
UserInv == /\ heap \in Nat /\ status \in Status /\ alarms \in Nat
           /\ output \in Seq(Nat) /\ Len(output) = Len(pcb)

\* The invariant is the kernel's part, the other variables and the cursor.
LEMMA InvIsKernelAndUser ==
  IInv <=> KernelInv /\ UserInv /\ CursorAtHead
<1>1. ASSUME IInv PROVE KernelInv /\ UserInv /\ CursorAtHead
  BY <1>1, InvImpliesKernelInv DEF IInv, TypeOK, UserInv
<1>2. ASSUME KernelInv, UserInv, CursorAtHead PROVE IInv
  <2>1. StoreType(pcb, queue) /\ OwnQueue(pcb, queue) /\ Ascending(pcb, queue["ready"])
    BY <1>2 DEF KernelInv, GoodStore
  <2>2. TypeOK /\ OnePlace /\ ReadySorted
    BY <1>2, <2>1 DEF KernelInv, UserInv, TypeOK, OnePlace, ReadySorted
  <2>3. NamesUnique
    BY <1>2, <2>2, NamesUniqueOnLiving DEF KernelInv
  <2> QED BY <1>2, <2>2, <2>3 DEF IInv, KernelInv
<1> QED BY <1>1, <1>2

\* The same, of the next state.
LEMMA InvIsKernelAndUserNext ==
  IInv' <=> KernelInv' /\ UserInv' /\ CursorAtHead'
  BY InvIsKernelAndUser, PTL

\* The kernel's part holds on while the kernel's variables do.
LEMMA KernelStays == ASSUME KernelInv, UNCHANGED kernelVars PROVE KernelInv'
  BY DEF KernelInv, kernelVars, OnlyReadyRuns, Living, ControlInv

\* A machine that stops keeps the invariant.
LEMMA StopStep ==
  ASSUME IInv, NEW reason \in Status, Stop(reason)
  PROVE  IInv'
<1>1. UNCHANGED kernelVars /\ UNCHANGED <<heap, output, alarms>> /\ status' = reason
  BY DEF Stop, kernelVars
<1> QED BY <1>1, InvIsKernelAndUser, InvIsKernelAndUserNext, KernelStays DEF UserInv, CursorAtHead, kernelVars

(***************************************************************************)
(* What holds of the place where the program goes on without giving the    *)
(* processor away.                                                         *)
(***************************************************************************)
GoodNext(next) ==
  /\ next \in Context
  /\ next.at \in BootLabels => curProc = NULL
  /\ next.at \in ComLabels \cup YieldLabels => curProc # NULL
  /\ next.at \in ComLabels => pcb[curProc].name = CommhandName

(***************************************************************************)
(* A new process.  Its name must differ from that of the process on the    *)
(* processor, which pcb_setup does not look at.                            *)
(***************************************************************************)
LEMMA CreateStep ==
  ASSUME IInv, NEW name \in Name, NEW class \in {"system", "user"},
         NEW priority \in 0..MaxPriority, NEW label \in Label, NEW extra \in Nat,
         NEW next, GoodNext(next), next.at # "com_resume",
         label \in YieldLabels, label \in ComLabels => name = CommhandName,
         curProc # NULL => pcb[curProc].name # name,
         Create(name, class, priority, label, extra, next)
  PROVE  IInv' /\ curProc' = curProc
<1> DEFINE taken == Found(name) # NULL
           bytes == IF taken THEN extra ELSE extra + PcbSize
           fits  == heap + bytes <= HeapSize
           new   == NewPcb(name, class, priority, label)
           grown == Append(pcb, new)
<1>1. KernelInv /\ UserInv
  BY InvIsKernelAndUser
<1>2. heap + bytes \in Nat /\ (IF label = "alarm" THEN alarms + 1 ELSE alarms) \in Nat
  BY <1>1, MpxAssumption DEF UserInv
<1>3. CASE ~fits /\ Stop("heap_full")
  BY <1>3, StopStep DEF Status, Stop
<1>4. CASE /\ fits /\ taken
           /\ heap' = heap + bytes
           /\ cpu' = next
           /\ alarms' = IF label = "alarm" THEN alarms + 1 ELSE alarms
           /\ UNCHANGED <<pcb, queue, curProc, sysStack, status, output>>
  <2>1. KernelInv'
    <3>1. ControlInv'
      BY <1>1, <1>4 DEF KernelInv, ControlInv, GoodNext
    <3> QED BY <1>1, <1>4, <3>1 DEF KernelInv, OnlyReadyRuns, Living, GoodNext
  <2>2. UserInv'
    BY <1>1, <1>2, <1>4 DEF UserInv
  <2>3. CursorAtHead'
    BY <1>4 DEF CursorAtHead
  <2> QED BY <1>4, <2>1, <2>2, <2>3, InvIsKernelAndUserNext
<1>5. CASE /\ fits /\ ~taken
           /\ heap' = heap + bytes
           /\ pcb' = grown
           /\ queue' = Enqueue(grown, queue, Len(grown))
           /\ output' = Append(output, 0)
           /\ cpu' = next
           /\ alarms' = IF label = "alarm" THEN alarms + 1 ELSE alarms
           /\ UNCHANGED <<curProc, sysStack, status>>
  <2> DEFINE p == Len(pcb) + 1
  <2>1. /\ GoodStore(pcb, queue) /\ Len(pcb) \in Nat
        /\ Queued(queue) \subseteq 1..Len(pcb)
        /\ curProc \in 0..Len(pcb) /\ curProc \notin Queued(queue)
    BY <1>1, KernelFacts DEF KernelInv
  <2>2. new \in PcbRec /\ new.name = name /\ new.ctx.at = label
    BY DEF NewPcb, PcbRec, At, Context, NoLine, Line, NoName, Name, Op
  <2>3. /\ \A x \in Queued(queue) : pcb[x].name # name
    BY <1>5, <2>1, FindProperties DEF Found
  <2> HIDE DEF new
  <2>4. /\ GoodStore(grown, queue) /\ Len(grown) = p /\ grown[p] = new
        /\ \A x \in 1..Len(pcb) : grown[x] = pcb[x]
        /\ p \notin Queued(queue)
    BY <2>1, <2>2, AppendKeepsGood
  <2>5. p \in 1..p /\ 1..Len(pcb) \subseteq 1..p /\ \A x \in 1..p : x = p \/ x \in 1..Len(pcb)
    BY <2>1
  <2> HIDE DEF grown, p
  <2>6. /\ GoodStore(grown, Enqueue(grown, queue, p))
        /\ Queued(Enqueue(grown, queue, p)) = Queued(queue) \cup {p}
    BY <2>4, <2>5, EnqueueKeepsGood
  <2>7. /\ GoodStore(pcb', queue') /\ Queued(queue') = Queued(queue) \cup {p}
        /\ Len(pcb') = p /\ pcb'[p] = new
        /\ \A x \in 1..Len(pcb) : pcb'[x] = pcb[x]
    BY <1>5, <2>4, <2>6
  <2>8. curProc' \in 0..Len(pcb') /\ curProc' \notin Queued(queue')
        /\ (curProc # NULL => curProc \in 1..Len(pcb) /\ curProc # p)
    BY <1>5, <2>1, <2>7 DEF p, NULL
  <2>9. Living' = Living \cup {p} /\ Living \subseteq 1..Len(pcb)
    BY <1>5, <2>1, <2>7, <2>8 DEF Living
  <2>10. \A x \in Living : pcb[x].name # name
    BY <2>3 DEF Living
  <2>11. \A x, y \in Living' : pcb'[x].name = pcb'[y].name => x = y
    <3>1. \A x, y \in Living : pcb'[x].name = pcb'[y].name => x = y
      BY <1>1, <2>7, <2>9 DEF KernelInv
    <3>2. \A x \in Living : pcb'[x].name # pcb'[p].name
      BY <2>2, <2>7, <2>9, <2>10
    <3> QED BY <2>9, <3>1, <3>2
  <2>12. OnlyReadyRuns'
    BY <1>1, <1>5, <2>7, <2>8 DEF KernelInv, OnlyReadyRuns
  <2>13. ControlInv'
    <3>1. \A x \in 1..Len(pcb') :
            /\ pcb'[x].ctx.at \in YieldLabels
            /\ pcb'[x].ctx.at \in ComLabels => pcb'[x].name = CommhandName
      BY <1>1, <2>2, <2>5, <2>7 DEF KernelInv, ControlInv
    <3>2. curProc # NULL => pcb'[curProc] = pcb[curProc]
      BY <2>7, <2>8
    <3> QED BY <1>1, <1>5, <3>1, <3>2 DEF KernelInv, ControlInv, GoodNext
  <2>14. KernelInv'
    BY <1>1, <1>5, <2>7, <2>8, <2>11, <2>12, <2>13 DEF KernelInv, GoodNext
  <2>15. output' \in Seq(Nat) /\ Len(output') = Len(pcb')
    BY <1>1, <1>5, <2>7 DEF UserInv, p
  <2>16. UserInv'
    BY <1>1, <1>2, <1>5, <2>15 DEF UserInv
  <2>17. CursorAtHead'
    BY <1>5 DEF CursorAtHead
  <2> QED BY <1>5, <2>14, <2>16, <2>17, InvIsKernelAndUserNext
<1> QED BY <1>3, <1>4, <1>5 DEF Create

----------------------------------------------------------------------------
(***************************************************************************)
(* The inductive invariant, one lemma for each kind of step.               *)
(***************************************************************************)
LEMMA CommandKeepsInv ==
  ASSUME IInv, GoodStore(pcb', queue'), Queued(queue') \subseteq Queued(queue),
         SameProcesses, UNCHANGED <<curProc, sysStack>>, Quiet,
         cpu.at \in ComLabels, cpu' \in Context, cpu'.at \in ComLabels,
         CursorAtHead'
  PROVE  IInv'
<1>1. KernelInv /\ UserInv
  BY InvIsKernelAndUser
<1>2. KernelInv'
  BY <1>1, CommandStep
<1>3. UserInv'
  BY <1>1 DEF UserInv, Quiet, SameProcesses
<1> QED BY <1>2, <1>3, InvIsKernelAndUserNext

\* A command that ends at the prompt.
LEMMA QueueCommandKeepsInv ==
  ASSUME IInv, GoodStore(pcb', queue'), Queued(queue') \subseteq Queued(queue),
         SameProcesses, cpu.at \in ComLabels, QueueCommand
  PROVE  IInv'
<1>1. /\ cpu' \in Context /\ cpu'.at = "com_read" /\ cpu'.at \in ComLabels
      /\ UNCHANGED <<curProc, sysStack>> /\ Quiet
  BY DEF QueueCommand, ToRead, At, Context, Label, ComLabels, NoLine, Line, NoName, Name, Op
<1>2. CursorAtHead'
  BY <1>1 DEF CursorAtHead
<1> QED BY <1>1, <1>2, CommandKeepsInv

\* A step that ends in the system call IDLE.
LEMMA IdleKeepsInv ==
  ASSUME IInv, NEW saved \in Context, Idle(saved),
         curProc = NULL => saved.at = "kmain_off",
         curProc # NULL => /\ saved.at \in YieldLabels
                           /\ saved.at \in ComLabels => pcb[curProc].name = CommhandName,
         heap' \in Nat, status' \in Status, alarms' \in Nat,
         output' \in Seq(Nat), Len(output') = Len(output)
  PROVE  IInv' /\ Dispatches
<1>1. KernelInv /\ UserInv
  BY InvIsKernelAndUser
<1>2. KernelInv' /\ cpu'.at # "com_resume" /\ Len(pcb') = Len(pcb) /\ Dispatches
  BY <1>1, IdleStep
<1>3. UserInv' /\ CursorAtHead'
  BY <1>1, <1>2 DEF UserInv, CursorAtHead
<1> QED BY <1>2, <1>3, InvIsKernelAndUserNext

\* A step that ends in the system call EXIT.
LEMMA ExitKeepsInv ==
  ASSUME IInv, Exit, Quiet, curProc # NULL
  PROVE  IInv' /\ Dispatches
<1>1. KernelInv /\ UserInv
  BY InvIsKernelAndUser
<1>2. KernelInv' /\ cpu'.at # "com_resume" /\ Len(pcb') = Len(pcb) /\ Dispatches
  BY <1>1, ExitStep
<1>3. UserInv' /\ CursorAtHead'
  BY <1>1, <1>2 DEF UserInv, CursorAtHead, Quiet
<1> QED BY <1>2, <1>3, InvIsKernelAndUserNext

(***************************************************************************)
(* What a command finds: a process that waits in a queue, or none.         *)
(***************************************************************************)
LEMMA FoundProperties ==
  ASSUME KernelInv, NEW name
  PROVE  /\ Found(name) \in Queued(queue) \/ Found(name) = NULL
         /\ Found(name) # NULL => /\ Found(name) \in 1..Len(pcb)
                                  /\ pcb[Found(name)] \in PcbRec
                                  /\ pcb[Found(name)].name = name
<1>1. GoodStore(pcb, queue)
  BY DEF KernelInv
<1>2. \/ Found(name) = NULL
      \/ Found(name) \in Queued(queue) /\ pcb[Found(name)].name = name
  BY <1>1, FindProperties DEF Found
<1> QED BY <1>2, KernelFacts

\* A record of PcbRec with one field replaced.
LEMMA FieldChanged ==
  ASSUME NEW r \in PcbRec
  PROVE  /\ \A e \in {"ready", "blocked"} :
              /\ [r EXCEPT !.execution_state = e] \in PcbRec
              /\ [r EXCEPT !.execution_state = e].name = r.name
              /\ [r EXCEPT !.execution_state = e].ctx = r.ctx
         /\ \A n \in 0..MaxPriority :
              /\ [r EXCEPT !.priority = n] \in PcbRec
              /\ [r EXCEPT !.priority = n].name = r.name
              /\ [r EXCEPT !.priority = n].ctx = r.ctx
  BY DEF PcbRec

\* block and unblock.
LEMMA BlockKeepsInv ==
  ASSUME IInv, NEW op, NEW from, NEW to \in {"ready", "blocked"}, BlockPcb(op, from, to)
  PROVE  IInv' /\ curProc' = curProc
<1>1. KernelInv /\ cpu.at \in ComLabels
  BY InvIsKernelAndUser DEF BlockPcb, Doing, Running, ComLabels
<1>2. CASE Stop("page_fault")
  BY <1>2, StopStep DEF Stop, Status
<1>3. CASE /\ Target # NULL
           /\ IF pcb[Target].execution_state = from
              THEN Requeue(Target, [pcb[Target] EXCEPT !.execution_state = to])
              ELSE UNCHANGED <<pcb, queue>>
           /\ QueueCommand
  <2>1. /\ Target \in Queued(queue) /\ pcb[Target] \in PcbRec
    BY <1>1, <1>3, FoundProperties DEF Target
  <2>2. CASE pcb[Target].execution_state = from
    <3> DEFINE r == [pcb[Target] EXCEPT !.execution_state = to]
    <3>1. r \in PcbRec /\ r.name = pcb[Target].name /\ r.ctx = pcb[Target].ctx
      BY <2>1, FieldChanged
    <3>2. Requeue(Target, r)
      BY <1>3, <2>2
    <3> HIDE DEF r
    <3>3. GoodStore(pcb', queue') /\ Queued(queue') = Queued(queue) /\ SameProcesses
      BY <1>1, <2>1, <3>1, <3>2, RequeueStep
    <3> QED BY <1>1, <1>3, <3>3, QueueCommandKeepsInv DEF QueueCommand
  <2>3. CASE pcb[Target].execution_state # from
    <3>1. GoodStore(pcb', queue') /\ Queued(queue') = Queued(queue) /\ SameProcesses
      BY <1>1, <1>3, <2>3, NothingMoves
    <3> QED BY <1>1, <1>3, <3>1, QueueCommandKeepsInv DEF QueueCommand
  <2> QED BY <2>2, <2>3
<1> QED BY <1>2, <1>3 DEF BlockPcb

\* priority set.
LEMMA PriorityKeepsInv ==
  ASSUME IInv, ComPriority
  PROVE  IInv' /\ curProc' = curProc
<1> DEFINE allowed == /\ Target # NULL
                      /\ pcb[Target].process_class # "system"
                      /\ cpu.line.prio <= MaxPriority
<1>1. KernelInv /\ cpu.at \in ComLabels /\ cpu.line.prio \in Nat
  BY InvIsKernelAndUser DEF ComPriority, Doing, Running, ComLabels, KernelInv, Context, Line
<1>2. CASE allowed
  <2> DEFINE r == [pcb[Target] EXCEPT !.priority = cpu.line.prio]
  <2>1. /\ Target \in Queued(queue) /\ pcb[Target] \in PcbRec
    BY <1>1, <1>2, FoundProperties DEF Target
  <2>2. cpu.line.prio \in 0..MaxPriority
    BY <1>1, <1>2, PcbAssumption
  <2>3. r \in PcbRec /\ r.name = pcb[Target].name /\ r.ctx = pcb[Target].ctx
    BY <2>1, <2>2, FieldChanged
  <2>4. Requeue(Target, r) /\ QueueCommand
    BY <1>2 DEF ComPriority
  <2> HIDE DEF r
  <2>5. GoodStore(pcb', queue') /\ Queued(queue') = Queued(queue) /\ SameProcesses
    BY <1>1, <2>1, <2>3, <2>4, RequeueStep
  <2> QED BY <1>1, <2>4, <2>5, QueueCommandKeepsInv DEF QueueCommand
<1>3. CASE ~allowed
  <2>1. UNCHANGED <<pcb, queue>> /\ QueueCommand
    BY <1>3 DEF ComPriority
  <2>2. GoodStore(pcb', queue') /\ Queued(queue') = Queued(queue) /\ SameProcesses
    BY <1>1, <2>1, NothingMoves
  <2> QED BY <1>1, <2>1, <2>2, QueueCommandKeepsInv DEF QueueCommand
<1> QED BY <1>2, <1>3

\* delete.
LEMMA DeleteKeepsInv ==
  ASSUME IInv, ComDelete
  PROVE  IInv' /\ curProc' = curProc
<1> DEFINE allowed == Target # NULL /\ pcb[Target].process_class # "system"
<1>1. KernelInv /\ cpu.at \in ComLabels /\ QueueCommand /\ pcb' = pcb
  BY InvIsKernelAndUser DEF ComDelete, Doing, Running, ComLabels
<1>2. CASE allowed
  <2>1. Target \in Queued(queue) /\ queue' = Dequeue(pcb, queue, Target)
    BY <1>1, <1>2, FoundProperties DEF Target, ComDelete
  <2>2. GoodStore(pcb, queue') /\ Queued(queue') \subseteq Queued(queue)
    BY <1>1, <2>1, DequeueKeepsGood DEF KernelInv
  <2>3. SameProcesses
    BY <1>1 DEF SameProcesses
  <2> QED BY <1>1, <2>2, <2>3, QueueCommandKeepsInv DEF QueueCommand
<1>3. CASE ~allowed
  <2>1. UNCHANGED <<pcb, queue>>
    BY <1>1, <1>3 DEF ComDelete
  <2>2. GoodStore(pcb', queue') /\ Queued(queue') = Queued(queue) /\ SameProcesses
    BY <1>1, <2>1, NothingMoves
  <2> QED BY <1>1, <2>2, QueueCommandKeepsInv DEF QueueCommand
<1> QED BY <1>2, <1>3

(***************************************************************************)
(* The head of a queue without repetitions, and what unlinking it leaves.  *)
(***************************************************************************)
LEMMA UnlinkHead ==
  ASSUME NEW S, NULL \notin S, NEW s \in Seq(S), IsInjective(s), HeadOf(s) # NULL
  PROVE  /\ NextOf(s, HeadOf(s)) = HeadOf(Unlink(s, HeadOf(s)))
         /\ NextOf(s, HeadOf(s)) \in S \cup {NULL}
<1>1. s # <<>> /\ HeadOf(s) = s[1]
  BY DEF HeadOf
<1>2. Len(s) \in Nat /\ Len(s) >= 1 /\ DOMAIN s = 1..Len(s) /\ 1 \in 1..Len(s)
  BY <1>1
<1>3. PositionOf(s, s[1]) = 1
  <2>1. \E i \in DOMAIN s : s[i] = s[1]
    BY <1>2
  <2>2. PositionOf(s, s[1]) \in DOMAIN s /\ s[PositionOf(s, s[1])] = s[1]
    BY <2>1 DEF PositionOf
  <2> QED BY <1>2, <2>2 DEF IsInjective
<1>4. s[1] \in Range(s)
  BY <1>2 DEF Range
<1>5. Unlink(s, s[1]) = RemoveAt(s, 1)
  BY <1>3, <1>4 DEF Unlink
<1> DEFINE t == RemoveAt(s, 1)
<1>6. /\ t \in Seq(S) /\ Len(t) = Len(s) - 1
      /\ \A j \in 1..Len(s) - 1 : t[j] = IF j < 1 THEN s[j] ELSE s[j + 1]
  BY <1>2, RemoveAtProperties
<1> HIDE DEF t
<1>7. CASE Len(s) = 1
  <2>1. t = <<>>
    BY <1>6, <1>7
  <2> QED BY <1>1, <1>3, <1>5, <1>7, <2>1 DEF NextOf, HeadOf, t
<1>8. CASE Len(s) # 1
  <2>1. Len(s) >= 2 /\ 1 \in 1..Len(s) - 1 /\ 2 \in 1..Len(s) /\ ~(1 < 1)
    BY <1>2, <1>8
  <2>2. t[1] = s[2] /\ t # <<>>
    BY <1>6, <2>1
  <2>3. NextOf(s, s[1]) = s[2]
    BY <1>3, <1>8 DEF NextOf
  <2> QED BY <1>1, <1>5, <2>1, <2>2, <2>3 DEF HeadOf, t
<1> QED BY <1>7, <1>8

(***************************************************************************)
(* One turn of the loop of "resume all".  The name of the block under the  *)
(* cursor finds that block and no other, it moves to the ready queue, and  *)
(* the link that was read before the move is the new head of the list.     *)
(***************************************************************************)
LEMMA ResumeNextKeepsInv ==
  ASSUME IInv, ComResumeNext
  PROVE  /\ IInv' /\ curProc' = curProc
         /\ cpu'.at # "com_resume" => queue'["suspended_ready"] = <<>>
<1> DEFINE s == queue["suspended_ready"]
           p == cpu.i
           r == [pcb[p] EXCEPT !.dispatch_state = "active"]
<1>1. /\ KernelInv /\ GoodStore(pcb, queue) /\ cpu.at = "com_resume" /\ cpu.at \in ComLabels
      /\ "suspended_ready" \in QueueName /\ "ready" \in QueueName
  BY InvIsKernelAndUser DEF ComResumeNext, Running, ComLabels, KernelInv, QueueName
<1>2. p = HeadOf(s) /\ p # NULL
  BY <1>1, InvIsKernelAndUser DEF CursorAtHead
<1>3. /\ s \in Seq(1..Len(pcb)) /\ Len(pcb) \in Nat /\ IsInjective(s)
      /\ \A x \in Range(s) : QueueFor(pcb[x]) = "suspended_ready"
      /\ Range(s) \subseteq Queued(queue) /\ Queued(queue) \subseteq 1..Len(pcb)
  <2>1. StoreType(pcb, queue)
    BY <1>1 DEF GoodStore
  <2>2. /\ s \in Seq(1..Len(pcb)) /\ Len(pcb) \in Nat
        /\ Range(s) \subseteq Queued(queue) /\ Queued(queue) \subseteq 1..Len(pcb)
    BY <1>1, <2>1, StoreFacts
  <2> QED BY <1>1, <2>2 DEF GoodStore, OwnQueue
<1>4. p \in Range(s) /\ p \in Queued(queue)
  BY <1>1, <1>2, <1>3, HeadProperties
<1>5. Found(pcb[p].name) = p
  <2>1. Found(pcb[p].name) \in Queued(queue)
        /\ pcb[Found(pcb[p].name)].name = pcb[p].name
    BY <1>1, <1>4, FindProperties DEF Found
  <2> QED BY <1>1, <1>4, <2>1 DEF KernelInv, Living
<1>6. /\ pcb[p] \in PcbRec /\ pcb[p].dispatch_state = "suspended"
      /\ pcb[p].execution_state = "ready"
  <2>1. pcb[p] \in PcbRec
    BY <1>1, <1>3, <1>4, KernelFacts
  <2>2. pcb[p].execution_state \in {"ready", "blocked"} /\ pcb[p].dispatch_state \in {"active", "suspended"}
    BY <2>1 DEF PcbRec
  <2> QED BY <1>3, <1>4, <2>1, <2>2 DEF QueueFor
<1>7. r \in PcbRec /\ r.name = pcb[p].name /\ r.ctx = pcb[p].ctx /\ QueueFor(r) = "ready"
  BY <1>6 DEF PcbRec, QueueFor
<1>8. Requeue(p, r)
  BY <1>2, <1>5, <1>6 DEF ComResumeNext, ResumePcb
<1>9. cpu' = IF NextOf(s, p) = NULL THEN At("com_read")
             ELSE [at |-> "com_resume", i |-> NextOf(s, p), line |-> NoLine]
  BY DEF ComResumeNext, ResumeLoop
<1>10. UNCHANGED <<curProc, sysStack>> /\ Quiet
  BY DEF ComResumeNext
<1>11. QueueFor(pcb[p]) = "suspended_ready"
  BY <1>3, <1>4
<1> HIDE DEF s, p, r
<1>12. /\ GoodStore(pcb', queue') /\ Queued(queue') = Queued(queue) /\ SameProcesses
       /\ pcb' = [pcb EXCEPT ![p] = r]
       /\ queue' = Enqueue(pcb', Dequeue(pcb, queue, p), p)
  BY <1>1, <1>4, <1>7, <1>8, RequeueStep
<1>13. queue'["suspended_ready"] = Unlink(s, p)
  <2>1. pcb'[p] = r
    BY <1>1, <1>3, <1>4, <1>12, KernelFacts
  <2>2. Dequeue(pcb, queue, p)["suspended_ready"] = Unlink(s, p)
    BY <1>1, <1>11 DEF Dequeue, KernelInv, GoodStore, StoreType, s
  <2>3. "ready" # "suspended_ready"
    OBVIOUS
  <2>4. queue'["suspended_ready"] = Dequeue(pcb, queue, p)["suspended_ready"]
    BY <1>7, <1>12, <2>1, <2>3 DEF Enqueue
  <2> QED BY <2>2, <2>4
<1>14. /\ NextOf(s, p) = HeadOf(queue'["suspended_ready"])
       /\ NextOf(s, p) \in 1..Len(pcb) \cup {NULL}
  <2>1. NULL \notin 1..Len(pcb)
    BY <1>3 DEF NULL
  <2> QED BY <1>2, <1>3, <1>13, <2>1, UnlinkHead
<1>15. cpu' \in Context /\ cpu'.at \in ComLabels
  BY <1>3, <1>9, <1>14 DEF At, Context, Label, ComLabels, NoLine, Line, NoName, Name, Op, NULL
<1>16. CursorAtHead'
  BY <1>9, <1>14 DEF CursorAtHead, At
<1>17. IInv'
  BY <1>1, <1>10, <1>12, <1>15, <1>16, CommandKeepsInv
<1>18. cpu'.at # "com_resume" => queue'["suspended_ready"] = <<>>
  <2>1. cpu'.at # "com_resume" => HeadOf(queue'["suspended_ready"]) = NULL
    BY <1>9, <1>14
  <2>2. HeadOf(queue'["suspended_ready"]) = NULL <=> queue'["suspended_ready"] = <<>>
    BY <1>1, <1>12, HeadProperties
  <2> QED BY <2>1, <2>2
<1> QED BY <1>10, <1>17, <1>18

----------------------------------------------------------------------------
\* A context without locals.
LEMMA AtType ==
  ASSUME NEW label \in Label
  PROVE  At(label) \in Context /\ At(label).at = label
  BY DEF At, Context, NoLine, Line, NoName, Name, Op

(***************************************************************************)
(* The steps of kmain.                                                     *)
(***************************************************************************)
LEMMA KmainKeepsInv == ASSUME IInv, Kmain PROVE IInv' /\ Dispatches
<1> USE InvIsKernelAndUser
<1>1. CASE KmainCommhand
  <2>1. curProc = NULL
    BY <1>1 DEF KmainCommhand, Running, KernelInv, ControlInv, BootLabels
  <2>2. GoodNext(At("kmain_idle")) /\ At("kmain_idle").at # "com_resume"
    BY <2>1, AtType DEF GoodNext, Label, BootLabels, ComLabels, YieldLabels
  <2>3. /\ CommhandName \in Name /\ SystemPriority \in 0..MaxPriority
        /\ "com_start" \in Label /\ "com_start" \in YieldLabels /\ 0 \in Nat
    BY PcbAssumption DEF CommhandName, Name, SystemPriority, Label, YieldLabels
  <2>4. Create(CommhandName, "system", SystemPriority, "com_start", 0, At("kmain_idle"))
    BY <1>1 DEF KmainCommhand
  <2> QED BY <2>1, <2>2, <2>3, <2>4, CreateStep DEF Dispatches
<1>2. CASE KmainIdle
  <2>1. curProc = NULL
    BY <1>2 DEF KmainIdle, Running, KernelInv, ControlInv, BootLabels
  <2>2. GoodNext(At("kmain_run")) /\ At("kmain_run").at # "com_resume"
    BY <2>1, AtType DEF GoodNext, Label, BootLabels, ComLabels, YieldLabels
  <2>3. /\ IdleName \in Name /\ MaxPriority \in 0..MaxPriority /\ "idle" \in Label
        /\ "idle" \in YieldLabels /\ "idle" \notin ComLabels /\ 0 \in Nat
    BY PcbAssumption DEF IdleName, Name, Label, YieldLabels, ComLabels
  <2>4. Create(IdleName, "system", MaxPriority, "idle", 0, At("kmain_run"))
    BY <1>2 DEF KmainIdle
  <2> QED BY <2>1, <2>2, <2>3, <2>4, CreateStep DEF Dispatches
<1>3. CASE KmainRun
  <2>1. curProc = NULL
    BY <1>3 DEF KmainRun, Running, KernelInv, ControlInv, BootLabels
  <2>2. At("kmain_off") \in Context /\ At("kmain_off").at = "kmain_off"
    BY AtType DEF Label
  <2>3. /\ heap' \in Nat /\ status' \in Status /\ alarms' \in Nat
        /\ output' \in Seq(Nat) /\ Len(output') = Len(output)
    BY <1>3 DEF KmainRun, Quiet, UserInv
  <2>4. Idle(At("kmain_off"))
    BY <1>3 DEF KmainRun
  <2> QED BY <2>1, <2>2, <2>3, <2>4, IdleKeepsInv
<1>4. CASE KmainOff
  <2>1. Stop("halted") /\ "halted" \in Status
    BY <1>4 DEF KmainOff, Status
  <2> QED BY <2>1, StopStep DEF Stop, Dispatches
<1> QED BY <1>1, <1>2, <1>3, <1>4 DEF Kmain

(***************************************************************************)
(* load and alarm create processes while the command handler runs.         *)
(***************************************************************************)
LEMMA ComCreateKeepsInv ==
  ASSUME IInv, cpu.at \in ComLabels,
         NEW name \in Name, name # CommhandName,
         NEW label \in {"proc", "alarm"}, NEW extra \in Nat,
         NEW next \in Context, next.at \in ComLabels, next.at # "com_resume",
         Create(name, "user", LoadPriority, label, extra, next)
  PROVE  IInv' /\ curProc' = curProc
<1>1. KernelInv
  BY InvIsKernelAndUser
<1>2. curProc # NULL /\ pcb[curProc].name = CommhandName
  BY <1>1 DEF KernelInv, ControlInv
<1>3. next.at \notin BootLabels
  BY DEF BootLabels, ComLabels
<1>4. GoodNext(next)
  BY <1>2, <1>3 DEF GoodNext
<1>5. LoadPriority \in 0..MaxPriority
  BY PcbAssumption, MpxAssumption DEF LoadPriority
<1>6. label \in Label /\ label \in YieldLabels /\ label \notin ComLabels
  BY DEF Label, YieldLabels, ComLabels
<1> QED BY <1>2, <1>4, <1>5, <1>6, CreateStep

\* load, one process or all of them.
LEMMA LoadKeepsInv ==
  ASSUME IInv, ComLoadOne \/ ComLoadAll \/ ComLoadNext
  PROVE  IInv' /\ curProc' = curProc
<1>1. KernelInv /\ cpu \in Context /\ cpu.line \in Line /\ cpu.i \in Nat
  BY InvIsKernelAndUser DEF KernelInv, Context
<1>2. \A n \in Nat : ProcName(n) \in Name /\ ProcName(n) # CommhandName
  BY DEF ProcName, Name, CommhandName
<1>3. At("com_read") \in Context /\ At("com_read").at = "com_read"
  BY AtType DEF Label
<1>4. CASE ComLoadOne
  <2>1. cpu.at \in ComLabels
    BY <1>4 DEF ComLoadOne, Doing, Running, ComLabels
  <2>2. CASE IsProcName(cpu.line.name) /\ LoadOne(cpu.line.name.n, At("com_read"))
    <3>1. cpu.line.name.n \in Nat
      BY <2>2, PcbAssumption DEF IsProcName
    <3>2. Create(ProcName(cpu.line.name.n), "user", LoadPriority, "proc", 0, At("com_read"))
      BY <2>2 DEF LoadOne
    <3> QED BY <1>2, <1>3, <2>1, <3>1, <3>2, ComCreateKeepsInv DEF ComLabels
  <2>3. CASE UNCHANGED <<pcb, queue>> /\ QueueCommand
    BY <1>1, <2>1, <2>3, NothingMoves, QueueCommandKeepsInv DEF QueueCommand
  <2> QED BY <1>4, <2>2, <2>3 DEF ComLoadOne
<1>5. CASE ComLoadAll
  <2>1. /\ cpu.at \in ComLabels /\ UNCHANGED <<pcb, queue, curProc, sysStack>> /\ Quiet
        /\ cpu' = [cpu EXCEPT !.at = "com_load", !.i = 1]
    BY <1>5 DEF ComLoadAll, Doing, Running, ComLabels
  <2>2. cpu' \in Context /\ cpu'.at = "com_load"
    BY <1>1, <2>1 DEF Context, Label
  <2>3. CursorAtHead' /\ cpu'.at \in ComLabels
    BY <2>2 DEF CursorAtHead, ComLabels
  <2> QED BY <1>1, <2>1, <2>2, <2>3, NothingMoves, CommandKeepsInv
<1>6. CASE ComLoadNext
  <2>1. cpu.at \in ComLabels
    BY <1>6 DEF ComLoadNext, Running, ComLabels
  <2>2. Create(ProcName(cpu.i), "user", LoadPriority, "proc", 0, AfterLoad)
    BY <1>6 DEF ComLoadNext, LoadOne
  <2>3. AfterLoad \in Context /\ AfterLoad.at \in {"com_load", "com_suspend", "com_read"}
    <3> DEFINE again == [cpu EXCEPT !.i = @ + 1]
               parked == [cpu EXCEPT !.at = "com_suspend", !.i = 1]
    <3>1. cpu.at = "com_load"
      BY <1>6 DEF ComLoadNext, Running
    <3>2. again \in Context /\ again.at = "com_load"
      BY <1>1, <3>1 DEF Context
    <3>3. parked \in Context /\ parked.at = "com_suspend"
      BY <1>1 DEF Context, Label
    <3>4. AfterLoad \in {again, parked, At("com_read")}
      BY DEF AfterLoad
    <3> HIDE DEF again, parked
    <3> QED BY <1>3, <3>2, <3>3, <3>4
  <2> QED BY <1>1, <1>2, <2>1, <2>2, <2>3, ComCreateKeepsInv DEF ComLabels
<1> QED BY <1>4, <1>5, <1>6

\* alarm.
LEMMA AlarmKeepsInv == ASSUME IInv, ComAlarm PROVE IInv' /\ curProc' = curProc
<1>1. cpu.at \in ComLabels /\ alarms \in Nat
  BY InvIsKernelAndUser DEF ComAlarm, Doing, Running, ComLabels, UserInv
<1>2. AlarmName(alarms) \in Name /\ AlarmName(alarms) # CommhandName
  BY <1>1 DEF AlarmName, Name, CommhandName
<1>3. /\ At("com_read") \in Context /\ At("com_read").at \in ComLabels
      /\ At("com_read").at # "com_resume" /\ 2 * AlarmSize \in Nat
  BY AtType, MpxAssumption DEF Label, ComLabels
<1>4. Create(AlarmName(alarms), "user", LoadPriority, "alarm", 2 * AlarmSize, At("com_read"))
  BY DEF ComAlarm
<1> QED BY <1>1, <1>2, <1>3, <1>4, ComCreateKeepsInv

(***************************************************************************)
(* The commands that move one process between the queues, or none.         *)
(***************************************************************************)
LEMMA MoveKeepsInv ==
  ASSUME IInv, \/ ComNone \/ ComSuspendOne \/ ComResumeOne
               \/ ComResumeAll \/ ComSuspendNext
  PROVE  IInv' /\ curProc' = curProc
<1>1. KernelInv /\ cpu \in Context /\ cpu.line \in Line /\ cpu.i \in Nat
  BY InvIsKernelAndUser DEF KernelInv, Context
<1>2. CASE ComNone
  <2>1. cpu.at \in ComLabels /\ UNCHANGED <<pcb, queue>> /\ QueueCommand
    BY <1>2 DEF ComNone, Doing, Running, ComLabels
  <2> QED BY <1>1, <2>1, NothingMoves, QueueCommandKeepsInv DEF QueueCommand
<1>3. CASE ComSuspendOne
  <2>1. cpu.at \in ComLabels /\ SuspendPcb(Target) /\ QueueCommand
    BY <1>3 DEF ComSuspendOne, Doing, Running, ComLabels
  <2>2. Target \in Queued(queue) \/ Target = NULL
    BY <1>1, FoundProperties DEF Target
  <2> QED BY <1>1, <2>1, <2>2, SuspendStep, QueueCommandKeepsInv DEF QueueCommand
<1>4. CASE ComResumeOne
  <2>1. cpu.at \in ComLabels /\ ResumePcb(Target) /\ QueueCommand
    BY <1>4 DEF ComResumeOne, Doing, Running, ComLabels
  <2>2. Target \in Queued(queue) \/ Target = NULL
    BY <1>1, FoundProperties DEF Target
  <2> QED BY <1>1, <2>1, <2>2, ResumeStep, QueueCommandKeepsInv DEF QueueCommand
<1>5. CASE ComResumeAll
  <2> DEFINE p == HeadOf(queue["suspended_ready"])
  <2>1. /\ cpu.at \in ComLabels /\ UNCHANGED <<pcb, queue, curProc, sysStack>> /\ Quiet
        /\ cpu' = IF p = NULL THEN At("com_read")
                  ELSE [at |-> "com_resume", i |-> p, line |-> NoLine]
    BY <1>5 DEF ComResumeAll, ResumeLoop, Doing, Running, ComLabels
  <2>2. p \in Nat
    <3>1. "suspended_ready" \in QueueName /\ GoodStore(pcb, queue)
      BY <1>1 DEF KernelInv, QueueName
    <3>2. p = NULL \/ p \in Range(queue["suspended_ready"])
      BY <3>1, HeadProperties
    <3>3. Range(queue["suspended_ready"]) \subseteq 1..Len(pcb) /\ Len(pcb) \in Nat
      BY <3>1, StoreFacts DEF GoodStore
    <3> QED BY <3>2, <3>3 DEF NULL
  <2> HIDE DEF p
  <2>3. cpu' \in Context /\ cpu'.at \in ComLabels
    <3>1. CASE p = NULL
      <4>1. "com_read" \in Label /\ "com_read" \in ComLabels
        BY DEF Label, ComLabels
      <4> QED BY <2>1, <3>1, <4>1, AtType
    <3>2. CASE p # NULL
      <4>1. "com_resume" \in Label /\ "com_resume" \in ComLabels
        BY DEF Label, ComLabels
      <4>2. NoLine \in Line
        BY DEF NoLine, Line, NoName, Name, Op
      <4> QED BY <2>1, <2>2, <3>2, <4>1, <4>2 DEF Context
    <3> QED BY <3>1, <3>2
  <2>4. CursorAtHead'
    BY <2>1 DEF CursorAtHead, At, p
  <2> QED BY <1>1, <2>1, <2>3, <2>4, NothingMoves, CommandKeepsInv
<1>6. CASE ComSuspendNext
  <2> DEFINE p == Found(ProcName(cpu.i))
  <2>1. /\ cpu.at = "com_suspend" /\ cpu.at \in ComLabels
        /\ UNCHANGED <<curProc, sysStack>> /\ Quiet
        /\ SuspendPcb(p)
        /\ cpu' = IF cpu.i < R3Count THEN [cpu EXCEPT !.i = @ + 1] ELSE At("com_read")
    BY <1>6 DEF ComSuspendNext, Running, ComLabels
  <2>2. p \in Queued(queue) \/ p = NULL
    BY <1>1, FoundProperties
  <2> HIDE DEF p
  <2>3. cpu' \in Context /\ cpu'.at \in {"com_suspend", "com_read"}
    BY <1>1, <2>1, AtType DEF Context, Label
  <2>4. CursorAtHead' /\ cpu'.at \in ComLabels
    BY <2>3 DEF CursorAtHead, ComLabels
  <2> QED BY <1>1, <2>1, <2>2, <2>3, <2>4, SuspendStep, CommandKeepsInv
<1> QED BY <1>2, <1>3, <1>4, <1>5, <1>6

(***************************************************************************)
(* exit and shutdown.                                                      *)
(***************************************************************************)
LEMMA LeaveKeepsInv ==
  ASSUME IInv, cpu.at \in ComLabels, NEW op, Leave(op)
  PROVE  IInv' /\ Dispatches
<1>1. curProc # NULL
  BY InvIsKernelAndUser DEF KernelInv, ControlInv
<1>2. CASE Exit /\ Quiet
  BY <1>1, <1>2, ExitKeepsInv
<1>3. CASE Stop("bad_return")
  BY <1>3, StopStep DEF Stop, Status, Dispatches
<1> QED BY <1>2, <1>3 DEF Leave

\* exit and shutdown, with and without the question.
LEMMA LeavingKeepsInv ==
  ASSUME IInv, ComLeave \/ ConfirmYes \/ ConfirmNo
  PROVE  IInv' /\ Dispatches
<1>1. KernelInv /\ cpu \in Context
  BY InvIsKernelAndUser DEF KernelInv
<1>2. cpu.at \in ComLabels
  BY DEF ComLeave, ConfirmYes, ConfirmNo, Doing, Running, ComLabels
<1>3. CASE Leave(cpu.line.op)
  BY <1>2, <1>3, LeaveKeepsInv
<1>4. CASE /\ cpu' = [cpu EXCEPT !.at = "com_confirm"]
           /\ UNCHANGED <<pcb, queue, curProc, sysStack>> /\ Quiet
  <2>1. cpu' \in Context /\ cpu'.at = "com_confirm"
    BY <1>1, <1>4 DEF Context, Label
  <2>2. CursorAtHead' /\ cpu'.at \in ComLabels
    BY <2>1 DEF CursorAtHead, ComLabels
  <2> QED BY <1>1, <1>2, <1>4, <2>1, <2>2, NothingMoves, CommandKeepsInv DEF Dispatches
<1>5. CASE UNCHANGED <<pcb, queue>> /\ QueueCommand
  BY <1>1, <1>2, <1>5, NothingMoves, QueueCommandKeepsInv DEF QueueCommand, Dispatches
<1> QED BY <1>3, <1>4, <1>5 DEF ComLeave, ConfirmYes, ConfirmNo

(***************************************************************************)
(* The steps of the command handler.                                       *)
(***************************************************************************)
LEMMA ComStartKeepsInv == ASSUME IInv, ComStart PROVE IInv' /\ Dispatches
<1>1. KernelInv /\ cpu.at \in ComLabels
  BY InvIsKernelAndUser DEF ComStart, Running, ComLabels
<1>2. UNCHANGED <<pcb, queue>> /\ QueueCommand
  BY DEF ComStart, QueueCommand
<1> QED BY <1>1, <1>2, NothingMoves, QueueCommandKeepsInv DEF QueueCommand, Dispatches

\* A line is read and the command handler yields.
LEMMA UserTypesKeepsInv == ASSUME IInv, UserTypes PROVE IInv' /\ Dispatches
<1> PICK line \in Commands : ComRead(line)
  BY DEF UserTypes
<1> DEFINE saved == [at |-> "com_exec", i |-> 0, line |-> line]
<1>1. saved \in Context /\ saved.at = "com_exec"
  BY MpxAssumption DEF Context, Label
<1>2. Idle(saved) /\ Quiet
  BY DEF ComRead
<1>3. curProc # NULL /\ pcb[curProc].name = CommhandName
  BY InvIsKernelAndUser DEF ComRead, Running, KernelInv, ControlInv, ComLabels
<1>4. saved.at \in YieldLabels
  BY <1>1 DEF YieldLabels
<1>5. /\ heap' \in Nat /\ status' \in Status /\ alarms' \in Nat
      /\ output' \in Seq(Nat) /\ Len(output') = Len(output)
  BY <1>2, InvIsKernelAndUser DEF Quiet, UserInv
<1> HIDE DEF saved
<1> QED BY <1>1, <1>2, <1>3, <1>4, <1>5, IdleKeepsInv

\* Every command.
LEMMA ComCommandKeepsInv == ASSUME IInv, ComCommand PROVE IInv' /\ Dispatches
<1>1. CASE ComNone \/ ComSuspendOne \/ ComResumeOne \/ ComResumeAll \/ ComSuspendNext
  BY <1>1, MoveKeepsInv DEF Dispatches
<1>2. CASE ComBlock \/ ComUnblock
  BY <1>2, BlockKeepsInv DEF ComBlock, ComUnblock, Dispatches
<1>3. CASE ComResumeNext
  BY <1>3, ResumeNextKeepsInv DEF Dispatches
<1>4. CASE ComPriority
  BY <1>4, PriorityKeepsInv DEF Dispatches
<1>5. CASE ComDelete
  BY <1>5, DeleteKeepsInv DEF Dispatches
<1>6. CASE ComLoadOne \/ ComLoadAll \/ ComLoadNext
  BY <1>6, LoadKeepsInv DEF Dispatches
<1>7. CASE ComAlarm
  BY <1>7, AlarmKeepsInv DEF Dispatches
<1>8. CASE ComLeave
  BY <1>8, LeavingKeepsInv
<1> QED BY <1>1, <1>2, <1>3, <1>4, <1>5, <1>6, <1>7, <1>8 DEF ComCommand

(***************************************************************************)
(* The steps of the other processes.                                       *)
(***************************************************************************)
LEMMA ProcessKeepsInv == ASSUME IInv, Process PROVE IInv' /\ Dispatches
<1>1. /\ KernelInv /\ UserInv /\ cpu \in Context
      /\ curProc \in 0..Len(pcb) /\ Len(pcb) \in Nat
  BY InvIsKernelAndUser, KernelFacts DEF KernelInv
<1>2. cpu.at \in {"idle", "proc", "alarm"}
  BY DEF Process, ProcIterate, ProcExit, IdleProcess, AlarmWait, AlarmRing, Running
<1>3. cpu.at \in YieldLabels /\ cpu.at \notin ComLabels /\ curProc # NULL
  BY <1>1, <1>2 DEF YieldLabels, ComLabels, KernelInv, ControlInv
<1>4. CASE ProcIterate
  <2> DEFINE saved == [cpu EXCEPT !.i = @ + 1]
  <2>1. saved \in Context /\ saved.at = cpu.at
    BY <1>1 DEF Context
  <2>2. /\ Idle(saved) /\ UNCHANGED <<heap, status, alarms>>
        /\ output' = [output EXCEPT ![curProc] = @ + 1]
    BY <1>4 DEF ProcIterate
  <2>3. curProc \in 1..Len(output)
    BY <1>1, <1>3 DEF UserInv, NULL
  <2>4. output[curProc] + 1 \in Nat
    BY <1>1, <2>3 DEF UserInv
  <2>5. output' \in Seq(Nat) /\ Len(output') = Len(output)
    BY <1>1, <2>2, <2>3, <2>4 DEF UserInv
  <2>6. heap' \in Nat /\ status' \in Status /\ alarms' \in Nat
    BY <1>1, <2>2 DEF UserInv
  <2> HIDE DEF saved
  <2> QED BY <1>3, <2>1, <2>2, <2>5, <2>6, IdleKeepsInv
<1>5. CASE Idle(cpu) /\ Quiet
  <2>1. /\ heap' \in Nat /\ status' \in Status /\ alarms' \in Nat
        /\ output' \in Seq(Nat) /\ Len(output') = Len(output)
    BY <1>1, <1>5 DEF Quiet, UserInv
  <2> QED BY <1>1, <1>3, <1>5, <2>1, IdleKeepsInv
<1>6. CASE Exit /\ Quiet
  BY <1>3, <1>6, ExitKeepsInv
<1> QED BY <1>4, <1>5, <1>6 DEF Process, ProcExit, IdleProcess, AlarmWait, AlarmRing

(***************************************************************************)
(* The invariant holds at the start and every step keeps it; and a step    *)
(* that passes the processor on gives it to the head of the ready queue.   *)
(***************************************************************************)
LEMMA InitEstablishesInv == Init => IInv
<1> SUFFICES ASSUME Init PROVE IInv
  OBVIOUS
<1>1. /\ pcb = <<>> /\ queue = EmptyQueues /\ curProc = NULL
      /\ cpu = At("kmain_commhand") /\ sysStack = NoContext
  BY DEF Init
<1>2. /\ cpu \in Context /\ cpu.at = "kmain_commhand"
      /\ sysStack \in Context /\ sysStack.at = "null"
  BY <1>1, AtType DEF NoContext, Label
<1>3. /\ \A q \in QueueName : queue[q] = <<>> /\ Range(queue[q]) = {}
      /\ queue \in [QueueName -> Seq(1..Len(pcb))] /\ Queued(queue) = {}
  BY <1>1 DEF EmptyQueues, Range, Queued
<1>4. GoodStore(pcb, queue)
  <2>1. StoreType(pcb, queue)
    BY <1>1, <1>3 DEF StoreType
  <2>2. OwnQueue(pcb, queue)
    BY <1>3 DEF OwnQueue, IsInjective
  <2>3. Ascending(pcb, queue["ready"])
    BY <1>3 DEF Ascending, QueueName
  <2> QED BY <2>1, <2>2, <2>3 DEF GoodStore
<1>5. KernelInv
  <2>1. Len(pcb) = 0 /\ Living = {}
    BY <1>1, <1>3 DEF Living
  <2>2. ControlInv
    BY <1>1, <1>2, <2>1 DEF ControlInv, BootLabels, ComLabels, YieldLabels
  <2> QED BY <1>1, <1>2, <1>3, <1>4, <2>1, <2>2 DEF KernelInv, OnlyReadyRuns, NULL
<1>6. UserInv /\ CursorAtHead
  BY <1>1, <1>2 DEF Init, UserInv, CursorAtHead, Status
<1> QED BY <1>5, <1>6, InvIsKernelAndUser

\* Every step keeps the invariant and dispatches the head, if anybody.
LEMMA NextKeepsInv == IInv /\ [Next]_vars => IInv' /\ Dispatches
<1> SUFFICES ASSUME IInv, [Next]_vars PROVE IInv' /\ Dispatches
  OBVIOUS
<1>1. CASE Kmain
  BY <1>1, KmainKeepsInv
<1>2. CASE ComStart
  BY <1>2, ComStartKeepsInv
<1>3. CASE UserTypes
  BY <1>3, UserTypesKeepsInv
<1>4. CASE ComCommand
  BY <1>4, ComCommandKeepsInv
<1>5. CASE ConfirmYes \/ ConfirmNo
  BY <1>5, LeavingKeepsInv
<1>6. CASE Process
  BY <1>6, ProcessKeepsInv
<1>7. CASE UNCHANGED vars
  <2>1. UNCHANGED kernelVars
    BY <1>7 DEF vars, kernelVars
  <2>2. KernelInv' /\ UserInv' /\ CursorAtHead'
    BY <1>7, <2>1, InvIsKernelAndUser, KernelStays DEF vars, UserInv, CursorAtHead
  <2> QED BY <1>7, <2>2, InvIsKernelAndUserNext DEF vars, Dispatches
<1> QED BY <1>1, <1>2, <1>3, <1>4, <1>5, <1>6, <1>7 DEF Next, Stopped

----------------------------------------------------------------------------
(***************************************************************************)
(* The inductive invariant: the types, and with them everything below.     *)
(***************************************************************************)
THEOREM Invariance == Spec => []IInv
<1>1. Init => IInv
  BY InitEstablishesInv
<1>2. IInv /\ [Next]_vars => IInv'
  BY NextKeepsInv
<1> QED BY <1>1, <1>2, PTL DEF Spec

\* Every variable keeps its type, priorities stay in range.
THEOREM TypeCorrectness == Spec => []TypeOK
<1>1. IInv => TypeOK
  BY DEF IInv
<1> QED BY <1>1, Invariance, PTL

(***************************************************************************)
(* A process is on the processor or in exactly one queue, once, and that   *)
(* is the queue its states name (pcb_insert, pcb_remove and all callers).  *)
(***************************************************************************)
THEOREM OnePlaceForEach == Spec => []OnePlace
<1>1. IInv => OnePlace
  BY DEF IInv
<1> QED BY <1>1, Invariance, PTL

(***************************************************************************)
(* The ready queue is in priority order in every reachable state.          *)
(***************************************************************************)
THEOREM ReadyIsSorted == Spec => []ReadySorted
<1>1. IInv => ReadySorted
  BY DEF IInv
<1> QED BY <1>1, Invariance, PTL

(***************************************************************************)
(* No blocked and no suspended process has the processor.                  *)
(***************************************************************************)
THEOREM OnlyReadyProcessesRun == Spec => []OnlyReadyRuns
<1>1. IInv => OnlyReadyRuns
  BY DEF IInv
<1> QED BY <1>1, Invariance, PTL

(***************************************************************************)
(* Names identify living processes, although pcb_setup does not compare    *)
(* a new name with that of the process on the processor.                   *)
(***************************************************************************)
THEOREM NamesAreUnique == Spec => []NamesUnique
<1>1. IInv => NamesUnique
  BY DEF IInv
<1> QED BY <1>1, Invariance, PTL

(***************************************************************************)
(* The walk of "resume all" stands at the head of the list it takes apart. *)
(***************************************************************************)
THEOREM CursorStaysAtHead == Spec => []CursorAtHead
<1>1. IInv => CursorAtHead
  BY DEF IInv
<1> QED BY <1>1, Invariance, PTL

(***************************************************************************)
(* The process that gets the processor was ready, and none that was ready  *)
(* had a higher priority.                                                  *)
(***************************************************************************)
THEOREM DispatchIsBest == Spec => DispatchesBest
<1> DEFINE Best == curProc' # curProc /\ curProc' # NULL =>
                     /\ curProc' \in Range(queue["ready"])
                     /\ \A p \in Range(queue["ready"]) :
                          pcb[curProc'].priority <= pcb[p].priority
<1>1. IInv /\ [Next]_vars => [Best]_vars
  <2> SUFFICES ASSUME IInv, [Next]_vars PROVE Best
    OBVIOUS
  <2>1. KernelInv /\ Dispatches
    BY NextKeepsInv, InvIsKernelAndUser
  <2> QED BY <2>1, ReadyHeadProperties DEF Dispatches
<1>2. Spec => [][Best]_vars
  BY <1>1, Invariance, PTL DEF Spec
<1> QED BY <1>2 DEF DispatchesBest

(***************************************************************************)
(* When "resume all" ends, the suspended-ready queue is empty.             *)
(***************************************************************************)
THEOREM ResumeAllIsComplete == Spec => ResumeAllDrains
<1> DEFINE Drains == cpu.at = "com_resume" /\ cpu'.at = "com_read" =>
                       queue'["suspended_ready"] = <<>>
<1>1. IInv /\ [Next]_vars => [Drains]_vars
  <2> SUFFICES ASSUME IInv, [Next]_vars, cpu.at = "com_resume", cpu'.at = "com_read"
               PROVE  queue'["suspended_ready"] = <<>>
    OBVIOUS
  <2>1. ComResumeNext
    BY DEF Next, vars, Kmain, KmainCommhand, KmainIdle, KmainRun, KmainOff,
           ComStart, UserTypes, ComRead, ComCommand, ComNone, ComBlock, ComUnblock,
           BlockPcb, ComSuspendOne, ComResumeOne, ComResumeAll, ComPriority, ComDelete,
           ComLoadOne, ComLoadAll, ComLoadNext, ComSuspendNext, ComAlarm, ComLeave,
           ConfirmYes, ConfirmNo, Process, ProcIterate, ProcExit, IdleProcess,
           AlarmWait, AlarmRing, Stopped, Doing, Running
  <2> QED BY <2>1, ResumeNextKeepsInv
<1>2. Spec => [][Drains]_vars
  BY <1>1, Invariance, PTL DEF Spec
<1> QED BY <1>2 DEF ResumeAllDrains

----------------------------------------------------------------------------
(***************************************************************************)
(* The system implements Lifecycle: every step of Mpx is a step of the     *)
(* process diagram or leaves it alone.                                     *)
(***************************************************************************)

(***************************************************************************)
(* The state of a process, read off its control block and not off the      *)
(* queues: by OnePlace it is the same.                                     *)
(***************************************************************************)
Stage(P, Q, c, p) == IF p = c THEN "running"
                     ELSE IF p \in Queued(Q) THEN QueueFor(P[p]) ELSE "gone"

\* LifeProc is what the control blocks say.
LEMMA StateIsStage ==
  KernelInv => \A p \in 1..Len(pcb) : StateOf(p) = Stage(pcb, queue, curProc, p)
<1> SUFFICES ASSUME KernelInv, NEW p \in 1..Len(pcb)
             PROVE  StateOf(p) = Stage(pcb, queue, curProc, p)
  OBVIOUS
<1>1. CASE p # curProc /\ p \in Queued(queue)
  <2>1. PICK q \in QueueName : p \in Range(queue[q])
    BY <1>1 DEF Queued
  <2>2. \A r \in QueueName : p \in Range(queue[r]) => r = QueueFor(pcb[p])
    BY DEF KernelInv, GoodStore, OwnQueue
  <2> QED BY <1>1, <2>1, <2>2 DEF StateOf, Stage
<1>2. CASE ~(p # curProc /\ p \in Queued(queue))
  BY <1>2 DEF StateOf, Stage
<1> QED BY <1>1, <1>2

\* The same, of the next state.
LEMMA StateIsStageNext ==
  KernelInv' =>
    \A p \in 1..Len(pcb') : StateOf(p)' = Stage(pcb', queue', curProc', p)
<1>1. (KernelInv => \A p \in 1..Len(pcb) : StateOf(p) = Stage(pcb, queue, curProc, p))'
  BY StateIsStage, PTL
<1> QED BY <1>1 DEF Stage, StateOf

(***************************************************************************)
(* The entries of LifeProc, now and next.                                  *)
(***************************************************************************)
LEMMA LifeNow ==
  ASSUME KernelInv
  PROVE  /\ DOMAIN LifeProc = 1..Len(pcb)
         /\ \A p \in 1..Len(pcb) :
              LifeProc[p] = [class |-> pcb[p].process_class,
                             state |-> Stage(pcb, queue, curProc, p)]
  BY StateIsStage DEF LifeProc

\* The same, of the next state.
LEMMA LifeNext ==
  ASSUME KernelInv'
  PROVE  LifeProc' = [p \in 1..Len(pcb') |->
                        [class |-> pcb'[p].process_class,
                         state |-> Stage(pcb', queue', curProc', p)]]
<1>1. LifeProc' = [p \in 1..Len(pcb') |-> [class |-> pcb'[p].process_class,
                                          state |-> StateOf(p)']]
  BY DEF LifeProc
<1> QED BY <1>1, StateIsStageNext

(***************************************************************************)
(* One process changes its state, no process its class: LifeProc changes   *)
(* in that entry only.                                                     *)
(***************************************************************************)
LEMMA OneMoves ==
  ASSUME KernelInv, KernelInv', Len(pcb') = Len(pcb),
         \A x \in 1..Len(pcb) : pcb'[x].process_class = pcb[x].process_class,
         NEW p \in 1..Len(pcb), NEW s,
         Stage(pcb', queue', curProc', p) = s,
         \A x \in 1..Len(pcb) : x # p =>
           Stage(pcb', queue', curProc', x) = Stage(pcb, queue, curProc, x)
  PROVE  LifeProc' = [LifeProc EXCEPT ![p].state = s]
<1> DEFINE old(x) == [class |-> pcb[x].process_class,
                      state |-> Stage(pcb, queue, curProc, x)]
           new(x) == [class |-> pcb'[x].process_class,
                      state |-> Stage(pcb', queue', curProc', x)]
<1>1. LifeProc = [x \in 1..Len(pcb) |-> old(x)]
  BY StateIsStage DEF LifeProc
<1>2. LifeProc' = [x \in 1..Len(pcb) |-> new(x)]
  BY LifeNext
<1>3. \A x \in 1..Len(pcb) :
        new(x) = IF x = p THEN [old(p) EXCEPT !.state = s] ELSE old(x)
  OBVIOUS
<1> HIDE DEF old, new
<1>4. [LifeProc EXCEPT ![p].state = s]
        = [x \in 1..Len(pcb) |-> IF x = p THEN [old(p) EXCEPT !.state = s]
                                ELSE old(x)]
  BY <1>1
<1> QED BY <1>2, <1>3, <1>4

\* Two processes change theirs.
LEMMA TwoMove ==
  ASSUME KernelInv, KernelInv', Len(pcb') = Len(pcb),
         \A x \in 1..Len(pcb) : pcb'[x].process_class = pcb[x].process_class,
         NEW p \in 1..Len(pcb), NEW q \in 1..Len(pcb), p # q,
         \A x \in 1..Len(pcb) : x # p /\ x # q =>
           Stage(pcb', queue', curProc', x) = Stage(pcb, queue, curProc, x)
  PROVE  LifeProc' = [LifeProc EXCEPT ![p].state = Stage(pcb', queue', curProc', p),
                                      ![q].state = Stage(pcb', queue', curProc', q)]
<1> DEFINE old(x) == [class |-> pcb[x].process_class,
                      state |-> Stage(pcb, queue, curProc, x)]
           new(x) == [class |-> pcb'[x].process_class,
                      state |-> Stage(pcb', queue', curProc', x)]
           after(x) == Stage(pcb', queue', curProc', x)
<1>1. LifeProc = [x \in 1..Len(pcb) |-> old(x)]
  BY StateIsStage DEF LifeProc
<1>2. LifeProc' = [x \in 1..Len(pcb) |-> new(x)]
  BY LifeNext
<1>3. \A x \in 1..Len(pcb) :
        new(x) = IF x = q THEN [old(q) EXCEPT !.state = after(q)]
                 ELSE IF x = p THEN [old(p) EXCEPT !.state = after(p)] ELSE old(x)
  OBVIOUS
<1> HIDE DEF old, new, after
<1>4. [LifeProc EXCEPT ![p].state = after(p), ![q].state = after(q)]
        = [x \in 1..Len(pcb) |->
             IF x = q THEN [old(q) EXCEPT !.state = after(q)]
             ELSE IF x = p THEN [old(p) EXCEPT !.state = after(p)] ELSE old(x)]
  BY <1>1
<1> QED BY <1>2, <1>3, <1>4 DEF after

\* No process changes its state.
LEMMA NoneMoves ==
  ASSUME KernelInv, KernelInv', Len(pcb') = Len(pcb),
         \A x \in 1..Len(pcb) : pcb'[x].process_class = pcb[x].process_class,
         \A x \in 1..Len(pcb) :
           Stage(pcb', queue', curProc', x) = Stage(pcb, queue, curProc, x)
  PROVE  LifeProc' = LifeProc
<1>1. LifeProc = [x \in 1..Len(pcb) |->
                    [class |-> pcb[x].process_class,
                     state |-> Stage(pcb, queue, curProc, x)]]
  BY StateIsStage DEF LifeProc
<1> QED BY <1>1, LifeNext

\* Nothing that Lifecycle speaks of changes.
LEMMA LifeStays ==
  ASSUME UNCHANGED <<pcb, queue, curProc>>
  PROVE  LifeProc' = LifeProc
  BY DEF LifeProc, StateOf

(***************************************************************************)
(* A step of the process diagram, or none.                                 *)
(***************************************************************************)
LifeStep == Life!Next \/ LifeProc' = LifeProc

----------------------------------------------------------------------------
(***************************************************************************)
(* A process that waits is linked again after a change of its block.       *)
(***************************************************************************)
LEMMA RequeueMoves ==
  ASSUME KernelInv, KernelInv', NEW p \in Queued(queue), NEW r \in PcbRec,
         r.name = pcb[p].name, r.ctx = pcb[p].ctx,
         r.process_class = pcb[p].process_class,
         Requeue(p, r), curProc' = curProc
  PROVE  /\ p \in DOMAIN LifeProc
         /\ LifeProc[p].state = QueueFor(pcb[p])
         /\ LifeProc[p].class = pcb[p].process_class
         /\ LifeProc' = [LifeProc EXCEPT ![p].state = QueueFor(r)]
         /\ QueueFor(r) = QueueFor(pcb[p]) => LifeProc' = LifeProc
<1>1. p \in 1..Len(pcb) /\ p # curProc /\ DOMAIN pcb = 1..Len(pcb)
  BY KernelFacts DEF KernelInv
<1>2. /\ Queued(queue') = Queued(queue) /\ Len(pcb') = Len(pcb)
      /\ pcb' = [pcb EXCEPT ![p] = r]
  BY RequeueStep DEF SameProcesses
<1>3. /\ pcb'[p] = r /\ \A x \in 1..Len(pcb) : x # p => pcb'[x] = pcb[x]
  BY <1>1, <1>2
<1>4. /\ Stage(pcb', queue', curProc', p) = QueueFor(r)
      /\ Stage(pcb, queue, curProc, p) = QueueFor(pcb[p])
      /\ \A x \in 1..Len(pcb) : x # p =>
           Stage(pcb', queue', curProc', x) = Stage(pcb, queue, curProc, x)
  BY <1>1, <1>2, <1>3 DEF Stage
<1>5. \A x \in 1..Len(pcb) : pcb'[x].process_class = pcb[x].process_class
  BY <1>3
<1>6. LifeProc' = [LifeProc EXCEPT ![p].state = QueueFor(r)]
  BY <1>1, <1>2, <1>4, <1>5, OneMoves
<1>7. QueueFor(r) = QueueFor(pcb[p]) => LifeProc' = LifeProc
  <2> SUFFICES ASSUME QueueFor(r) = QueueFor(pcb[p]) PROVE LifeProc' = LifeProc
    OBVIOUS
  <2>1. \A x \in 1..Len(pcb) :
          Stage(pcb', queue', curProc', x) = Stage(pcb, queue, curProc, x)
    BY <1>4
  <2> QED BY <1>2, <1>5, <2>1, NoneMoves
<1> QED BY <1>1, <1>4, <1>6, <1>7, LifeNow

(***************************************************************************)
(* The commands that change the states of one process.                     *)
(***************************************************************************)
LEMMA QueueForRecord ==
  ASSUME NEW r \in PcbRec
  PROVE  /\ r.process_class \in {"system", "user"}
         /\ r.dispatch_state \in {"active", "suspended"}
         /\ r.execution_state \in {"ready", "blocked"}
         /\ r.execution_state = "ready" =>
              QueueFor(r) = IF r.dispatch_state = "active" THEN "ready"
                            ELSE "suspended_ready"
         /\ r.execution_state = "blocked" =>
              QueueFor(r) = IF r.dispatch_state = "active" THEN "blocked"
                            ELSE "suspended_blocked"
  BY DEF PcbRec, QueueFor

\* block and unblock.
LEMMA BlockLife ==
  ASSUME KernelInv, KernelInv', ComBlock \/ ComUnblock
  PROVE  LifeStep
<1>1. PICK from \in {"ready", "blocked"}, to \in {"ready", "blocked"}, op \in Op :
        from # to /\ BlockPcb(op, from, to)
  BY DEF ComBlock, ComUnblock, Op
<1>2. CASE Stop("page_fault") \/ UNCHANGED <<pcb, queue, curProc>>
  BY <1>2, LifeStays DEF Stop, LifeStep
<1>3. CASE /\ Target # NULL
           /\ pcb[Target].execution_state = from
           /\ Requeue(Target, [pcb[Target] EXCEPT !.execution_state = to])
           /\ curProc' = curProc
  <2> DEFINE p == Target
             r == [pcb[p] EXCEPT !.execution_state = to]
  <2>1. p \in Queued(queue) /\ pcb[p] \in PcbRec
    BY <1>3, FoundProperties DEF Target
  <2>2. /\ r \in PcbRec /\ r.name = pcb[p].name /\ r.ctx = pcb[p].ctx
        /\ r.process_class = pcb[p].process_class
        /\ r.dispatch_state = pcb[p].dispatch_state
        /\ r.execution_state = to
    BY <2>1 DEF PcbRec
  <2>3. Requeue(p, r) /\ curProc' = curProc
    BY <1>3
  <2> HIDE DEF r, p
  <2>4. /\ p \in DOMAIN LifeProc
        /\ LifeProc[p].state = QueueFor(pcb[p])
        /\ LifeProc' = [LifeProc EXCEPT ![p].state = QueueFor(r)]
    BY <2>1, <2>2, <2>3, RequeueMoves
  <2>5. pcb[p].execution_state = from
    BY <1>3 DEF p
  <2>6. Life!Block(p) \/ Life!Unblock(p)
    BY <1>1, <2>1, <2>2, <2>4, <2>5, QueueForRecord
       DEF Life!Block, Life!Unblock, Life!Move
  <2> QED BY <2>4, <2>6 DEF Life!Next, LifeStep
<1> QED BY <1>1, <1>2, <1>3 DEF BlockPcb, QueueCommand

\* suspend, of a process found by name.
LEMMA SuspendLife ==
  ASSUME KernelInv, KernelInv', NEW name, SuspendPcb(Found(name)), curProc' = curProc
  PROVE  LifeStep
<1> DEFINE p == Found(name)
<1>1. CASE UNCHANGED <<pcb, queue>>
  BY <1>1, LifeStays DEF LifeStep
<1>2. CASE ~UNCHANGED <<pcb, queue>>
  <2> DEFINE r == [pcb[p] EXCEPT !.dispatch_state = "suspended"]
  <2>1. /\ p # NULL /\ pcb[p].process_class # "system"
        /\ pcb[p].dispatch_state = "active" /\ Requeue(p, r)
    BY <1>2 DEF SuspendPcb
  <2>2. p \in Queued(queue) /\ pcb[p] \in PcbRec
    BY <2>1, FoundProperties
  <2>3. /\ r \in PcbRec /\ r.name = pcb[p].name /\ r.ctx = pcb[p].ctx
        /\ r.process_class = pcb[p].process_class
        /\ r.execution_state = pcb[p].execution_state
        /\ r.dispatch_state = "suspended"
    BY <2>2 DEF PcbRec
  <2> HIDE DEF r, p
  <2>4. /\ p \in DOMAIN LifeProc
        /\ LifeProc[p].state = QueueFor(pcb[p])
        /\ LifeProc[p].class = pcb[p].process_class
        /\ LifeProc' = [LifeProc EXCEPT ![p].state = QueueFor(r)]
    BY <2>1, <2>2, <2>3, RequeueMoves
  <2>5. Life!Suspend(p)
    BY <2>1, <2>2, <2>3, <2>4, QueueForRecord DEF Life!Suspend, Life!Move
  <2> QED BY <2>4, <2>5 DEF Life!Next, LifeStep
<1> QED BY <1>1, <1>2

\* resume.
LEMMA ResumeLife ==
  ASSUME KernelInv, KernelInv', NEW name, ResumePcb(Found(name)), curProc' = curProc
  PROVE  LifeStep
<1> DEFINE p == Found(name)
<1>1. CASE UNCHANGED <<pcb, queue>>
  BY <1>1, LifeStays DEF LifeStep
<1>2. CASE ~UNCHANGED <<pcb, queue>>
  <2> DEFINE r == [pcb[p] EXCEPT !.dispatch_state = "active"]
  <2>1. p # NULL /\ pcb[p].dispatch_state = "suspended" /\ Requeue(p, r)
    BY <1>2 DEF ResumePcb
  <2>2. p \in Queued(queue) /\ pcb[p] \in PcbRec
    BY <2>1, FoundProperties
  <2>3. /\ r \in PcbRec /\ r.name = pcb[p].name /\ r.ctx = pcb[p].ctx
        /\ r.process_class = pcb[p].process_class
        /\ r.execution_state = pcb[p].execution_state
        /\ r.dispatch_state = "active"
    BY <2>2 DEF PcbRec
  <2> HIDE DEF r, p
  <2>4. /\ p \in DOMAIN LifeProc
        /\ LifeProc[p].state = QueueFor(pcb[p])
        /\ LifeProc' = [LifeProc EXCEPT ![p].state = QueueFor(r)]
    BY <2>1, <2>2, <2>3, RequeueMoves
  <2>5. Life!Resume(p)
    BY <2>1, <2>2, <2>3, <2>4, QueueForRecord DEF Life!Resume, Life!Move
  <2> QED BY <2>4, <2>5 DEF Life!Next, LifeStep
<1> QED BY <1>1, <1>2

\* priority set moves a process within its queue.
LEMMA PriorityLife ==
  ASSUME KernelInv, KernelInv', ComPriority
  PROVE  LifeStep
<1>1. curProc' = curProc
  BY DEF ComPriority, QueueCommand
<1>2. CASE UNCHANGED <<pcb, queue>>
  BY <1>1, <1>2, LifeStays DEF LifeStep
<1>3. CASE ~UNCHANGED <<pcb, queue>>
  <2> DEFINE p == Target
             r == [pcb[p] EXCEPT !.priority = cpu.line.prio]
  <2>1. p # NULL /\ cpu.line.prio <= MaxPriority /\ Requeue(p, r)
    BY <1>3 DEF ComPriority
  <2>2. p \in Queued(queue) /\ pcb[p] \in PcbRec
    BY <2>1, FoundProperties DEF Target
  <2>3. cpu.line.prio \in 0..MaxPriority
    BY <2>1, PcbAssumption DEF KernelInv, Context, Line
  <2>4. /\ r \in PcbRec /\ r.name = pcb[p].name /\ r.ctx = pcb[p].ctx
        /\ r.process_class = pcb[p].process_class
        /\ r.execution_state = pcb[p].execution_state
        /\ r.dispatch_state = pcb[p].dispatch_state
    BY <2>2, <2>3 DEF PcbRec
  <2> HIDE DEF r, p
  <2>5. QueueFor(r) = QueueFor(pcb[p])
    BY <2>4 DEF QueueFor
  <2> QED BY <1>1, <2>1, <2>2, <2>4, <2>5, RequeueMoves DEF LifeStep
<1> QED BY <1>2, <1>3

\* delete.
LEMMA DeleteLife ==
  ASSUME KernelInv, KernelInv', ComDelete
  PROVE  LifeStep
<1>1. curProc' = curProc /\ pcb' = pcb
  BY DEF ComDelete, QueueCommand
<1>2. CASE UNCHANGED queue
  BY <1>1, <1>2, LifeStays DEF LifeStep
<1>3. CASE ~UNCHANGED queue
  <2> DEFINE p == Target
  <2>1. /\ p # NULL /\ pcb[p].process_class # "system"
        /\ queue' = Dequeue(pcb, queue, p)
    BY <1>3 DEF ComDelete
  <2>2. /\ p \in Queued(queue) /\ p \in 1..Len(pcb) /\ p # curProc
        /\ pcb[p] \in PcbRec
    BY <2>1, FoundProperties DEF Target, KernelInv
  <2> HIDE DEF p
  <2>3. Queued(queue') = Queued(queue) \ {p}
    BY <2>1, <2>2, DequeueKeepsGood DEF KernelInv
  <2>4. /\ Stage(pcb', queue', curProc', p) = "gone"
        /\ Stage(pcb, queue, curProc, p) = QueueFor(pcb[p])
        /\ \A x \in 1..Len(pcb) : x # p =>
             Stage(pcb', queue', curProc', x) = Stage(pcb, queue, curProc, x)
    BY <1>1, <2>2, <2>3 DEF Stage
  <2>5. LifeProc' = [LifeProc EXCEPT ![p].state = "gone"]
    BY <1>1, <2>2, <2>4, OneMoves
  <2>6. /\ p \in DOMAIN LifeProc /\ LifeProc[p].class = "user"
        /\ LifeProc[p].state \in Life!Waiting
    BY <2>1, <2>2, <2>4, LifeNow, QueueForType, QueueForRecord
       DEF Life!Waiting, QueueName
  <2>7. Life!DeleteOne(p)
    BY <2>5, <2>6 DEF Life!DeleteOne
  <2> QED BY <2>6, <2>7 DEF Life!Next, LifeStep
<1> QED BY <1>2, <1>3

----------------------------------------------------------------------------
(***************************************************************************)
(* A process is created: it is ready, the others are where they were.      *)
(***************************************************************************)
LEMMA CreateLife ==
  ASSUME KernelInv, KernelInv', NEW name, NEW class \in {"system", "user"},
         NEW priority, NEW label, NEW extra, NEW next,
         Create(name, class, priority, label, extra, next)
  PROVE  LifeStep
<1> DEFINE new == NewPcb(name, class, priority, label)
           grown == Append(pcb, new)
           p == Len(pcb) + 1
<1>1. CASE UNCHANGED <<pcb, queue, curProc>>
  BY <1>1, LifeStays DEF LifeStep
<1>2. CASE /\ pcb' = grown
           /\ queue' = Enqueue(grown, queue, Len(grown))
           /\ curProc' = curProc
  <2>1. /\ GoodStore(pcb, queue) /\ Len(pcb) \in Nat
        /\ Queued(queue) \subseteq 1..Len(pcb) /\ curProc \in 0..Len(pcb)
        /\ pcb \in Seq(PcbRec) /\ pcb' \in Seq(PcbRec)
    BY KernelFacts DEF KernelInv, GoodStore, StoreType
  <2>2. /\ new.process_class = class /\ QueueFor(new) = "ready"
    BY DEF NewPcb, QueueFor
  <2>3. new \in PcbRec
    <3>1. /\ Len(pcb') = Len(pcb) + 1 /\ pcb'[Len(pcb) + 1] = new
      BY <1>2, <2>1
    <3>2. Len(pcb) + 1 \in 1..Len(pcb')
      BY <2>1, <3>1
    <3>3. pcb'[Len(pcb) + 1] \in PcbRec
      BY <2>1, <3>2, ElementOfSeq
    <3> QED BY <3>1, <3>3
  <2> HIDE DEF new
  <2>4. /\ GoodStore(grown, queue) /\ Len(grown) = p /\ grown[p] = new
        /\ \A x \in 1..Len(pcb) : grown[x] = pcb[x]
        /\ p \notin Queued(queue)
    BY <2>1, <2>3, AppendKeepsGood
  <2>5. p \in 1..p /\ p \notin 1..Len(pcb) /\ p # curProc
        /\ \A x \in 1..p : x = p \/ x \in 1..Len(pcb)
    BY <2>1
  <2> HIDE DEF grown, p
  <2>6. Queued(Enqueue(grown, queue, p)) = Queued(queue) \cup {p}
    BY <2>4, <2>5, EnqueueKeepsGood
  <2>7. /\ Queued(queue') = Queued(queue) \cup {p} /\ Len(pcb') = p /\ pcb'[p] = new
        /\ \A x \in 1..Len(pcb) : pcb'[x] = pcb[x]
    BY <1>2, <2>4, <2>6
  <2>8. /\ Stage(pcb', queue', curProc', p) = "ready"
        /\ \A x \in 1..Len(pcb) :
             Stage(pcb', queue', curProc', x) = Stage(pcb, queue, curProc, x)
    BY <1>2, <2>2, <2>5, <2>7 DEF Stage
  <2> DEFINE old(x) == [class |-> pcb[x].process_class,
                        state |-> Stage(pcb, queue, curProc, x)]
             entry == [class |-> class, state |-> "ready"]
  <2>9. LifeProc = [x \in 1..Len(pcb) |-> old(x)]
    BY StateIsStage DEF LifeProc
  <2>10. LifeProc' = [x \in 1..p |-> IF x = p THEN entry ELSE old(x)]
    BY <2>2, <2>5, <2>7, <2>8, LifeNext
  <2> HIDE DEF old, entry
  <2>11. LifeProc' = Append(LifeProc, entry)
    <3>1. Len(LifeProc) = Len(pcb) /\ LifeProc \in Seq({old(x) : x \in 1..Len(pcb)})
      BY <2>1, <2>9
    <3> DEFINE S == {old(x) : x \in 1..Len(pcb)} \cup {entry}
               a == Append(LifeProc, entry)
    <3>2. LifeProc \in Seq(S) /\ entry \in S
      BY <2>1, <2>9
    <3>3. /\ a \in Seq(S) /\ Len(a) = p /\ a[p] = entry
          /\ \A x \in 1..Len(pcb) : a[x] = LifeProc[x]
      BY <3>1, <3>2, AppendProperties DEF p
    <3> HIDE DEF a, S
    <3>4. a = [x \in 1..p |-> a[x]]
      BY <3>3
    <3>5. \A x \in 1..p : a[x] = IF x = p THEN entry ELSE old(x)
      BY <2>5, <2>9, <3>3
    <3>6. LifeProc' = a
      BY <2>10, <3>4, <3>5
    <3> QED BY <3>6 DEF a
  <2> QED BY <2>11 DEF Life!Next, Life!Create, LifeStep, entry
<1> QED BY <1>1, <1>2 DEF Create, Stop

(***************************************************************************)
(* Who is ready, who runs.                                                 *)
(***************************************************************************)
LEMMA HeadIsReady ==
  ASSUME KernelInv, ReadyHead # NULL
  PROVE  /\ ReadyHead \in 1..Len(pcb) /\ ReadyHead # curProc
         /\ ReadyHead \in Queued(queue)
         /\ ReadyHead \in DOMAIN LifeProc /\ LifeProc[ReadyHead].state = "ready"
<1>1. /\ ReadyHead \in Queued(queue) /\ ReadyHead \in 1..Len(pcb)
      /\ pcb[ReadyHead].execution_state = "ready"
      /\ pcb[ReadyHead].dispatch_state = "active"
  BY ReadyHeadProperties
<1>2. ReadyHead # curProc
  BY <1>1 DEF KernelInv
<1> QED BY <1>1, <1>2, LifeNow DEF Stage, QueueFor

\* The process on the processor runs.
LEMMA CurrentRuns ==
  ASSUME KernelInv, curProc # NULL
  PROVE  /\ curProc \in 1..Len(pcb) /\ QueueFor(pcb[curProc]) = "ready"
         /\ curProc \in DOMAIN LifeProc /\ LifeProc[curProc].state = "running"
<1>1. curProc \in 1..Len(pcb)
  BY KernelFacts DEF KernelInv, NULL
<1>2. QueueFor(pcb[curProc]) = "ready"
  BY DEF KernelInv, OnlyReadyRuns, QueueFor
<1> QED BY <1>1, <1>2, LifeNow DEF Stage

\* With an empty ready queue nobody is ready.
LEMMA NobodyReady ==
  ASSUME KernelInv, ReadyHead = NULL
  PROVE  Life!InState("ready") = {}
<1> SUFFICES ASSUME NEW p \in DOMAIN LifeProc, LifeProc[p].state = "ready"
             PROVE  FALSE
  BY DEF Life!InState
<1>1. p \in 1..Len(pcb) /\ Stage(pcb, queue, curProc, p) = "ready"
  BY LifeNow
<1>2. p \in Queued(queue) /\ QueueFor(pcb[p]) = "ready"
  BY <1>1 DEF Stage
<1>3. "ready" \in QueueName /\ GoodStore(pcb, queue)
  BY DEF QueueName, KernelInv
<1>4. PICK q \in QueueName : p \in Range(queue[q])
  BY <1>2 DEF Queued
<1>5. q = "ready"
  BY <1>2, <1>3, <1>4 DEF GoodStore, OwnQueue
<1>6. queue["ready"] = <<>>
  BY <1>3, HeadProperties DEF ReadyHead
<1> QED BY <1>4, <1>5, <1>6 DEF Range

(***************************************************************************)
(* The system calls.                                                       *)
(***************************************************************************)
LEMMA IdleLife ==
  ASSUME KernelInv, KernelInv', NEW saved, Idle(saved)
  PROVE  LifeStep
<1> DEFINE h == ReadyHead
<1>1. CASE IdleToKernel
  BY <1>1, LifeStays DEF IdleToKernel, LifeStep
<1>2. CASE IdleFirst
  <2>1. /\ h # NULL /\ curProc = NULL /\ pcb' = pcb /\ curProc' = h
        /\ queue' = Dequeue(pcb, queue, h)
    BY <1>2 DEF IdleFirst
  <2>2. /\ h \in 1..Len(pcb) /\ h \in Queued(queue)
        /\ h \in DOMAIN LifeProc /\ LifeProc[h].state = "ready"
    BY <2>1, HeadIsReady
  <2> HIDE DEF h
  <2>3. Queued(queue') = Queued(queue) \ {h}
    BY <2>1, <2>2, DequeueKeepsGood DEF KernelInv
  <2>4. NULL \notin 1..Len(pcb)
    BY KernelFacts DEF NULL
  <2>5. /\ Stage(pcb', queue', curProc', h) = "running"
        /\ \A x \in 1..Len(pcb) : x # h =>
             Stage(pcb', queue', curProc', x) = Stage(pcb, queue, curProc, x)
    BY <2>1, <2>3, <2>4 DEF Stage
  <2>6. LifeProc' = [LifeProc EXCEPT ![h].state = "running"]
    BY <2>1, <2>2, <2>5, OneMoves
  <2>7. Life!InState("running") = {}
    <3> SUFFICES ASSUME NEW x \in DOMAIN LifeProc, LifeProc[x].state = "running"
                 PROVE  FALSE
      BY DEF Life!InState
    <3>1. x \in 1..Len(pcb) /\ Stage(pcb, queue, curProc, x) = "running"
      BY LifeNow
    <3> QED BY <2>1, <2>4, <3>1 DEF Stage, QueueFor
  <2>8. Life!First(h)
    BY <2>2, <2>6, <2>7 DEF Life!First, Life!Move
  <2> QED BY <2>2, <2>8 DEF Life!Next, LifeStep
<1>3. CASE IdleSwitch(saved)
  <2> DEFINE c == curProc
             back == Enqueue(pcb', queue, c)
  <2>1. /\ h # NULL /\ c # NULL /\ curProc' = h
        /\ pcb' = [pcb EXCEPT ![c].ctx = saved]
        /\ queue' = Dequeue(pcb', back, h)
    BY <1>3 DEF IdleSwitch
  <2>2. /\ h \in 1..Len(pcb) /\ h \in Queued(queue) /\ h # c
        /\ h \in DOMAIN LifeProc /\ LifeProc[h].state = "ready"
        /\ c \in 1..Len(pcb) /\ QueueFor(pcb[c]) = "ready"
        /\ c \in DOMAIN LifeProc /\ LifeProc[c].state = "running"
        /\ c \notin Queued(queue) /\ pcb[c] \in PcbRec /\ DOMAIN pcb = 1..Len(pcb)
    BY <2>1, HeadIsReady, CurrentRuns, KernelFacts DEF KernelInv
  <2> DEFINE r == [pcb[c] EXCEPT !.ctx = saved]
  <2>3. /\ pcb' = [pcb EXCEPT ![c] = r] /\ Len(pcb') = Len(pcb) /\ pcb'[c] = r
        /\ \A x \in 1..Len(pcb) : x # c => pcb'[x] = pcb[x]
    <3>1. pcb \in Seq(PcbRec)
      BY DEF KernelInv, GoodStore, StoreType
    <3> QED BY <2>1, <2>2, <3>1
  <2>4. /\ r.process_class = pcb[c].process_class /\ QueueFor(r) = QueueFor(pcb[c])
    BY <2>2 DEF PcbRec, QueueFor
  <2> HIDE DEF r
  <2>5. r \in PcbRec
    <3>1. StoreType(pcb', queue')
      BY DEF KernelInv, GoodStore
    <3>2. pcb'[c] \in PcbRec
      BY <2>2, <2>3, <3>1, ElementOfSeq DEF StoreType
    <3> QED BY <2>3, <3>2
  <2> HIDE DEF h, c
  <2>6. GoodStore(pcb', queue)
    BY <2>2, <2>3, <2>5, UpdateKeepsGood DEF KernelInv
  <2> DEFINE P == pcb'
  <2>7. GoodStore(P, back) /\ Queued(back) = Queued(queue) \cup {c}
    <3>1. GoodStore(P, queue) /\ c \in 1..Len(P) /\ back = Enqueue(P, queue, c)
      BY <2>2, <2>3, <2>6
    <3> HIDE DEF P, back
    <3> QED BY <2>2, <3>1, EnqueueKeepsGood
  <2> HIDE DEF back
  <2>8. Queued(queue') = (Queued(queue) \cup {c}) \ {h}
    BY <2>1, <2>2, <2>7, DequeueKeepsGood
  <2>9. /\ Stage(pcb', queue', curProc', c) = "ready"
        /\ Stage(pcb', queue', curProc', h) = "running"
        /\ \A x \in 1..Len(pcb) : x # c /\ x # h =>
             Stage(pcb', queue', curProc', x) = Stage(pcb, queue, curProc, x)
    BY <2>1, <2>2, <2>3, <2>4, <2>8 DEF Stage, c
  <2>10. \A x \in 1..Len(pcb) : pcb'[x].process_class = pcb[x].process_class
    BY <2>3, <2>4
  <2>11. LifeProc' = [LifeProc EXCEPT ![c].state = "ready", ![h].state = "running"]
    <3>1. Len(pcb') = Len(pcb)
      BY <2>3
    <3> QED BY <2>2, <2>9, <2>10, <3>1, TwoMove
  <2>12. Life!Yield(c, h)
    BY <2>2, <2>11 DEF Life!Yield
  <2> QED BY <2>2, <2>12 DEF Life!Next, LifeStep
<1> QED BY <1>1, <1>2, <1>3 DEF Idle

\* EXIT: the caller is gone.
LEMMA ExitLife ==
  ASSUME KernelInv, KernelInv', Exit, curProc # NULL
  PROVE  LifeStep
<1> DEFINE h == ReadyHead
           c == curProc
<1>1. /\ c \in 1..Len(pcb) /\ c \in DOMAIN LifeProc
      /\ LifeProc[c].state = "running" /\ c \notin Queued(queue) /\ pcb' = pcb
  BY CurrentRuns DEF KernelInv, Exit
<1>2. CASE ExitToKernel
  <2>1. h = NULL /\ curProc' = NULL /\ queue' = queue
    BY <1>2 DEF ExitToKernel
  <2>2. NULL \notin 1..Len(pcb)
    BY KernelFacts DEF NULL
  <2>3. /\ Stage(pcb', queue', curProc', c) = "gone"
        /\ \A x \in 1..Len(pcb) : x # c =>
             Stage(pcb', queue', curProc', x) = Stage(pcb, queue, curProc, x)
    BY <1>1, <2>1, <2>2 DEF Stage
  <2>4. LifeProc' = [LifeProc EXCEPT ![c].state = "gone"]
    BY <1>1, <2>3, OneMoves
  <2>5. Life!ExitLast(c)
    BY <1>1, <2>1, <2>4, NobodyReady DEF Life!ExitLast, Life!Move
  <2> QED BY <1>1, <2>5 DEF Life!Next, LifeStep
<1>3. CASE ExitToNext
  <2>1. h # NULL /\ curProc' = h /\ queue' = Dequeue(pcb, queue, h)
    BY <1>3 DEF ExitToNext
  <2>2. /\ h \in 1..Len(pcb) /\ h \in Queued(queue) /\ h # c
        /\ h \in DOMAIN LifeProc /\ LifeProc[h].state = "ready"
    BY <2>1, HeadIsReady
  <2> HIDE DEF h
  <2>3. Queued(queue') = Queued(queue) \ {h}
    BY <2>1, <2>2, DequeueKeepsGood DEF KernelInv
  <2>4. /\ Stage(pcb', queue', curProc', c) = "gone"
        /\ Stage(pcb', queue', curProc', h) = "running"
        /\ \A x \in 1..Len(pcb) : x # c /\ x # h =>
             Stage(pcb', queue', curProc', x) = Stage(pcb, queue, curProc, x)
    BY <1>1, <2>1, <2>2, <2>3 DEF Stage
  <2>5. LifeProc' = [LifeProc EXCEPT ![c].state = "gone", ![h].state = "running"]
    <3>1. /\ Len(pcb') = Len(pcb)
          /\ \A x \in 1..Len(pcb) : pcb'[x].process_class = pcb[x].process_class
      BY <1>1
    <3> QED BY <1>1, <2>2, <2>4, <3>1, TwoMove
  <2>6. Life!ExitTo(c, h)
    BY <1>1, <2>2, <2>5 DEF Life!ExitTo
  <2> QED BY <1>1, <2>2, <2>6 DEF Life!Next, LifeStep
<1> QED BY <1>2, <1>3 DEF Exit

----------------------------------------------------------------------------
(***************************************************************************)
(* Every step of the system is one of the diagram, or none.                *)
(***************************************************************************)
LEMMA NextLife ==
  ASSUME IInv, [Next]_vars
  PROVE  LifeStep
<1>1. KernelInv /\ KernelInv'
  BY NextKeepsInv, InvIsKernelAndUser, InvIsKernelAndUserNext
<1>2. CASE UNCHANGED <<pcb, queue, curProc>>
  BY <1>2, LifeStays DEF LifeStep
<1>3. CASE Kmain
  <2>1. CASE KmainCommhand \/ KmainIdle
    BY <1>1, <2>1, CreateLife DEF KmainCommhand, KmainIdle
  <2>2. CASE KmainRun
    BY <1>1, <2>2, IdleLife DEF KmainRun
  <2>3. CASE KmainOff
    BY <1>2, <2>3 DEF KmainOff, Stop
  <2> QED BY <1>3, <2>1, <2>2, <2>3 DEF Kmain
<1>4. CASE UserTypes
  <2>1. PICK line \in Commands : ComRead(line)
    BY <1>4 DEF UserTypes
  <2> QED BY <1>1, <2>1, IdleLife DEF ComRead
<1>5. CASE \/ ComStart \/ ComNone \/ ComResumeAll \/ ComLoadAll \/ ConfirmNo
  BY <1>2, <1>5 DEF ComStart, ComNone, ComResumeAll, ComLoadAll, ConfirmNo, QueueCommand
<1>6. CASE ComBlock \/ ComUnblock
  BY <1>1, <1>6, BlockLife
<1>7. CASE ComSuspendOne \/ ComSuspendNext
  BY <1>1, <1>7, SuspendLife DEF ComSuspendOne, ComSuspendNext, Target, QueueCommand
<1>8. CASE ComResumeOne \/ ComResumeNext
  BY <1>1, <1>8, ResumeLife DEF ComResumeOne, ComResumeNext, Target, QueueCommand
<1>9. CASE ComPriority
  BY <1>1, <1>9, PriorityLife
<1>10. CASE ComDelete
  BY <1>1, <1>10, DeleteLife
<1>11. CASE ComLoadOne \/ ComLoadNext \/ ComAlarm
  BY <1>1, <1>2, <1>11, CreateLife
     DEF ComLoadOne, ComLoadNext, ComAlarm, LoadOne, QueueCommand
<1>12. CASE ComLeave \/ ConfirmYes
  <2>1. curProc # NULL
    BY <1>1, <1>12
       DEF ComLeave, ConfirmYes, Doing, Running, KernelInv, ControlInv, ComLabels
  <2>2. CASE \E op : Leave(op)
    BY <1>1, <1>2, <2>1, <2>2, ExitLife DEF Leave, Stop
  <2> QED BY <1>2, <1>12, <2>2 DEF ComLeave, ConfirmYes
<1>13. CASE Process
  <2>1. curProc # NULL
    BY <1>1, <1>13
       DEF Process, ProcIterate, ProcExit, IdleProcess, AlarmWait, AlarmRing,
           Running, KernelInv, ControlInv, YieldLabels
  <2>2. CASE ProcIterate \/ IdleProcess \/ AlarmWait
    BY <1>1, <2>2, IdleLife DEF ProcIterate, IdleProcess, AlarmWait
  <2>3. CASE ProcExit \/ AlarmRing
    BY <1>1, <2>1, <2>3, ExitLife DEF ProcExit, AlarmRing
  <2> QED BY <1>13, <2>2, <2>3 DEF Process
<1> QED BY <1>2, <1>3, <1>4, <1>5, <1>6, <1>7, <1>8, <1>9, <1>10, <1>11, <1>12,
           <1>13 DEF Next, ComCommand, Stopped, vars

(***************************************************************************)
(* The system implements the process diagram (FollowsLifecycle): for every *)
(* set of commands and number of processes, a step of the dispatcher or of *)
(* a command moves processes along its arrows only.                        *)
(***************************************************************************)
THEOREM ImplementsLifecycle == Spec => FollowsLifecycle
<1>1. Init => Life!Init
  <2> SUFFICES ASSUME Init PROVE LifeProc = <<>>
    BY DEF Life!Init
  <2>1. pcb = <<>> /\ Len(pcb) = 0
    BY DEF Init
  <2> QED BY <2>1 DEF LifeProc
<1>2. IInv /\ [Next]_vars => [Life!Next]_LifeProc
  BY NextLife DEF LifeStep
<1> QED BY <1>1, <1>2, Invariance, PTL DEF Spec, FollowsLifecycle, Life!Spec

=============================================================================
