-------------------------------- MODULE Mpx --------------------------------
(***************************************************************************)
(* The running system: kmain (kernel/kmain.c), the command handler         *)
(* (kernel/comhand.c) with the process commands of user/, the test         *)
(* processes and the idle process (user/core.c) and the alarms             *)
(* (user/alarm.c), over the dispatcher of SysCall and the queues of Pcb.   *)
(*                                                                         *)
(* One program runs at a time: cpu is its place and every action below is  *)
(* one stretch of it, which starts at the label cpu.at names and ends at   *)
(* the next system call that gives the processor away (or at a loop head). *)
(***************************************************************************)
EXTENDS SysCall

CONSTANTS Commands,   \* the command lines the user may type
          HeapSize,   \* bytes of the kernel heap (KHEAP_SIZE)
          PcbSize,    \* bytes a control block and its stack take
          AlarmSize   \* bytes of an AlarmData

ASSUME MpxAssumption ==
  /\ Commands \subseteq Line
  /\ HeapSize \in Nat /\ PcbSize \in Nat \ {0} /\ AlarmSize \in Nat
  /\ R3Count > 0 /\ MaxPriority > 0

VARIABLES heap,     \* bytes allocated: the heap only grows
          status,   \* running, or what stopped the machine
          output,   \* lines "dispatched procN" each process has printed
          alarms    \* alarm_counter, the number of the next alarm

vars == <<pcb, queue, curProc, cpu, sysStack, heap, status, output, alarms>>

\* "page_fault" and "bad_return" stop in kpanic through the page-fault
\* exception, "heap_full" in the kpanic of alloc, "halted" in core-asm.s.
Status == {"running", "halted", "page_fault", "bad_return", "heap_full"}

SystemPriority == 0   \* of commhand
LoadPriority == 1     \* of the test processes and the alarms

----------------------------------------------------------------------------
\* The processor is at that label and the machine has not stopped.
Running(label) == status = "running" /\ cpu.at = label

\* The machine stops for that reason; nothing runs any more.
Stop(reason) ==
  /\ status' = reason
  /\ UNCHANGED <<pcb, queue, curProc, cpu, sysStack, heap, output, alarms>>

Found(name) == Find(pcb, queue, name)

(***************************************************************************)
(* pcb_setup followed by pcb_insert, then the program goes on at next.     *)
(* With a name that is taken pcb_setup returns NULL, and pcb_insert(NULL)  *)
(* does nothing.  extra bytes are allocated by the caller besides the      *)
(* block.  What was allocated before the request that does not fit is not  *)
(* followed: the machine has stopped.                                      *)
(***************************************************************************)
Create(name, class, priority, label, extra, next) ==
  LET taken == Found(name) # NULL
      bytes == IF taken THEN extra ELSE extra + PcbSize
      fits  == heap + bytes <= HeapSize
      grown == Append(pcb, NewPcb(name, class, priority, label))
  IN
  \/ /\ ~fits
     /\ Stop("heap_full")
  \/ /\ fits /\ taken
     /\ heap' = heap + bytes
     /\ cpu' = next
     /\ alarms' = IF label = "alarm" THEN alarms + 1 ELSE alarms
     /\ UNCHANGED <<pcb, queue, curProc, sysStack, status, output>>
  \/ /\ fits /\ ~taken
     /\ heap' = heap + bytes
     /\ pcb' = grown
     /\ queue' = Enqueue(grown, queue, Len(grown))
     /\ output' = Append(output, 0)
     /\ cpu' = next
     /\ alarms' = IF label = "alarm" THEN alarms + 1 ELSE alarms
     /\ UNCHANGED <<curProc, sysStack, status>>

\* Seeded fault: the field is changed before the block is unlinked.
RequeueChangesFirst(p, r) ==
  LET changed == [pcb EXCEPT ![p] = r] IN
  /\ pcb' = changed
  /\ queue' = Enqueue(changed, Dequeue(changed, queue, p), p)

(***************************************************************************)
(* The common body of block, unblock, suspend, resume and priority set:    *)
(* unlink the block, change a field, link it where it now belongs.         *)
(***************************************************************************)
Requeue(p, r) ==
  LET changed == [pcb EXCEPT ![p] = r] IN
  /\ pcb' = changed
  /\ queue' = Enqueue(changed, Dequeue(pcb, queue, p), p)

\* What only the programs outside the kernel change.
Quiet == UNCHANGED <<heap, status, output, alarms>>

----------------------------------------------------------------------------
(***************************************************************************)
(* kmain: create the command handler and the idle process, give them the   *)
(* processor, and shut down when it comes back.                            *)
(***************************************************************************)
KmainCommhand ==
  /\ Running("kmain_commhand")
  /\ Create(CommhandName, "system", SystemPriority, "com_start", 0,
            At("kmain_idle"))

KmainIdle ==
  /\ Running("kmain_idle")
  /\ Create(IdleName, "system", MaxPriority, "idle", 0, At("kmain_run"))

KmainRun == Running("kmain_run") /\ Idle(At("kmain_off")) /\ Quiet

KmainOff == Running("kmain_off") /\ Stop("halted")

Kmain == KmainCommhand \/ KmainIdle \/ KmainRun \/ KmainOff

----------------------------------------------------------------------------
(***************************************************************************)
(* The command handler.  It reads a line, yields, and executes the line    *)
(* when it has the processor again; no command gives the processor away    *)
(* but exit, so what a command finds is what the processes that ran after  *)
(* the line was typed have left.                                           *)
(***************************************************************************)
ToRead == cpu' = At("com_read")

ComStart ==
  /\ Running("com_start")
  /\ ToRead
  /\ UNCHANGED <<pcb, queue, curProc, sysStack>> /\ Quiet

\* Read a line; yield().
ComRead(line) ==
  /\ Running("com_read")
  /\ Idle([at |-> "com_exec", i |-> 0, line |-> line])
  /\ Quiet

Doing(op) == Running("com_exec") /\ cpu.line.op = op

\* The block of the process the line names.
Target == Found(cpu.line.name)

\* The end of a command that works on the queues alone.
QueueCommand == ToRead /\ UNCHANGED <<curProc, sysStack>> /\ Quiet

\* A line that changes nothing: help, show, version, a refused argument ...
ComNone ==
  /\ Doing("none")
  /\ UNCHANGED <<pcb, queue>> /\ QueueCommand

(***************************************************************************)
(* block and unblock read the state of the block before they test that     *)
(* there is one: page 0 is not mapped.                                     *)
(***************************************************************************)
BlockPcb(op, from, to) ==
  /\ Doing(op)
  /\ \/ Target = NULL /\ Stop("page_fault")
     \/ /\ Target # NULL
        /\ IF pcb[Target].execution_state = from
           THEN Requeue(Target, [pcb[Target] EXCEPT !.execution_state = to])
           ELSE UNCHANGED <<pcb, queue>>
        /\ QueueCommand

ComBlock == BlockPcb("block", "ready", "blocked")
ComUnblock == BlockPcb("unblock", "blocked", "ready")

\* suspend_pcb refuses a system process and one that is suspended already.
SuspendPcb(p) ==
  IF /\ p # NULL
     /\ pcb[p].process_class # "system"
     /\ pcb[p].dispatch_state = "active"
  THEN Requeue(p, [pcb[p] EXCEPT !.dispatch_state = "suspended"])
  ELSE UNCHANGED <<pcb, queue>>

\* Seeded fault: resume also unblocks.
ResumePcbUnblocks(p) ==
  IF p # NULL /\ pcb[p].dispatch_state = "suspended"
  THEN Requeue(p, [pcb[p] EXCEPT !.dispatch_state = "active",
                                 !.execution_state = "ready"])
  ELSE UNCHANGED <<pcb, queue>>

ResumePcb(p) ==
  IF p # NULL /\ pcb[p].dispatch_state = "suspended"
  THEN Requeue(p, [pcb[p] EXCEPT !.dispatch_state = "active"])
  ELSE UNCHANGED <<pcb, queue>>

ComSuspendOne == Doing("suspend") /\ SuspendPcb(Target) /\ QueueCommand
ComResumeOne == Doing("resume") /\ ResumePcb(Target) /\ QueueCommand

(***************************************************************************)
(* resume all walks the suspended-ready queue; the link to the next block  *)
(* is read before the current one is moved to another queue.  Here         *)
(* cpu.i is curPtr.                                                        *)
(***************************************************************************)
ResumeLoop(p) ==
  cpu' = IF p = NULL THEN At("com_read")
         ELSE [at |-> "com_resume", i |-> p, line |-> NoLine]

ComResumeAll ==
  /\ Doing("resume all")
  /\ ResumeLoop(HeadOf(queue["suspended_ready"]))
  /\ UNCHANGED <<pcb, queue, curProc, sysStack>> /\ Quiet

\* Seeded fault: the link to the next block is read after the move.
ComResumeNextReadsLate ==
  /\ Running("com_resume")
  /\ ResumePcb(Found(pcb[cpu.i].name))
  /\ ResumeLoop(NextOf(queue'[QueueFor(pcb'[cpu.i])], cpu.i))
  /\ UNCHANGED <<curProc, sysStack>> /\ Quiet

ComResumeNext ==
  /\ Running("com_resume")
  /\ ResumePcb(Found(pcb[cpu.i].name))
  /\ ResumeLoop(NextOf(queue["suspended_ready"], cpu.i))
  /\ UNCHANGED <<curProc, sysStack>> /\ Quiet

\* Seeded fault: the priority changes where the block is.
ComPriorityInPlace ==
  /\ Doing("priority")
  /\ IF /\ Target # NULL
        /\ pcb[Target].process_class # "system"
        /\ cpu.line.prio <= MaxPriority
     THEN pcb' = [pcb EXCEPT ![Target].priority = cpu.line.prio]
     ELSE UNCHANGED pcb
  /\ UNCHANGED queue
  /\ QueueCommand

\* Seeded fault: any number is accepted.
ComPriorityUnchecked ==
  /\ Doing("priority")
  /\ IF Target # NULL /\ pcb[Target].process_class # "system"
     THEN Requeue(Target, [pcb[Target] EXCEPT !.priority = cpu.line.prio])
     ELSE UNCHANGED <<pcb, queue>>
  /\ QueueCommand

\* priority set: the block is linked again even when its priority is kept.
ComPriority ==
  /\ Doing("priority")
  /\ IF /\ Target # NULL
        /\ pcb[Target].process_class # "system"
        /\ cpu.line.prio <= MaxPriority
     THEN Requeue(Target, [pcb[Target] EXCEPT !.priority = cpu.line.prio])
     ELSE UNCHANGED <<pcb, queue>>
  /\ QueueCommand

\* delete: pcb_free gives nothing back, the heap has no free function.
ComDelete ==
  /\ Doing("delete")
  /\ IF Target # NULL /\ pcb[Target].process_class # "system"
     THEN queue' = Dequeue(pcb, queue, Target)
     ELSE UNCHANGED queue
  /\ UNCHANGED pcb
  /\ QueueCommand

----------------------------------------------------------------------------
(***************************************************************************)
(* load: one test process, or all of them in turn (cpu.i is the next); for *)
(* "load suspended" each is then suspended by its name, which also takes   *)
(* one that was there before.                                              *)
(***************************************************************************)
LoadOne(n, next) == Create(ProcName(n), "user", LoadPriority, "proc", 0, next)

IsProcName(name) == name.base = "proc" /\ name.n \in 1..R3Count

ComLoadOne ==
  /\ Doing("load one")
  /\ \/ IsProcName(cpu.line.name) /\ LoadOne(cpu.line.name.n, At("com_read"))
     \/ /\ ~IsProcName(cpu.line.name)
        /\ UNCHANGED <<pcb, queue>> /\ QueueCommand

ComLoadAll ==
  /\ Doing("load") \/ Doing("load suspended")
  /\ cpu' = [cpu EXCEPT !.at = "com_load", !.i = 1]
  /\ UNCHANGED <<pcb, queue, curProc, sysStack>> /\ Quiet

AfterLoad ==
  IF cpu.i < R3Count THEN [cpu EXCEPT !.i = @ + 1]
  ELSE IF cpu.line.op = "load suspended"
       THEN [cpu EXCEPT !.at = "com_suspend", !.i = 1]
       ELSE At("com_read")

ComLoadNext == Running("com_load") /\ LoadOne(cpu.i, AfterLoad)

\* Seeded fault: the loop ends one process early.
ComSuspendNextStopsEarly ==
  /\ Running("com_suspend")
  /\ SuspendPcb(Found(ProcName(cpu.i)))
  /\ cpu' = IF cpu.i < R3Count - 1 THEN [cpu EXCEPT !.i = @ + 1]
            ELSE At("com_read")
  /\ UNCHANGED <<curProc, sysStack>> /\ Quiet

ComSuspendNext ==
  /\ Running("com_suspend")
  /\ SuspendPcb(Found(ProcName(cpu.i)))
  /\ cpu' = IF cpu.i < R3Count THEN [cpu EXCEPT !.i = @ + 1]
            ELSE At("com_read")
  /\ UNCHANGED <<curProc, sysStack>> /\ Quiet

\* alarm: two copies of the data and a process of a name of its own.
ComAlarm ==
  /\ Doing("alarm")
  /\ Create(AlarmName(alarms), "user", LoadPriority, "alarm", 2 * AlarmSize,
            At("com_read"))

----------------------------------------------------------------------------
(***************************************************************************)
(* exit ends the command handler's process.  shutdown returns from it: no  *)
(* return address is on its stack, and what the return takes for one is    *)
(* the word after the stack, the first letters of the idle process's name. *)
(***************************************************************************)
Leave(op) ==
  \/ op \in {"exit", "exit force"} /\ Exit /\ Quiet
  \/ op \in {"shutdown", "shutdown force"} /\ Stop("bad_return")

ComLeave ==
  \/ /\ Doing("exit") \/ Doing("shutdown")
     /\ cpu' = [cpu EXCEPT !.at = "com_confirm"]
     /\ UNCHANGED <<pcb, queue, curProc, sysStack>> /\ Quiet
  \/ /\ Doing("exit force") \/ Doing("shutdown force")
     /\ Leave(cpu.line.op)

\* The answer to "Exit? (Y/n)"; any other answer asks again.
ConfirmYes == Running("com_confirm") /\ Leave(cpu.line.op)
ConfirmNo == /\ Running("com_confirm")
             /\ UNCHANGED <<pcb, queue>> /\ QueueCommand

ComCommand ==
  \/ ComNone \/ ComBlock \/ ComUnblock \/ ComSuspendOne \/ ComResumeOne
  \/ ComResumeAll \/ ComResumeNext \/ ComPriority \/ ComDelete
  \/ ComLoadOne \/ ComLoadAll \/ ComLoadNext \/ ComSuspendNext
  \/ ComAlarm \/ ComLeave

----------------------------------------------------------------------------
\* A test process: print, yield, and exit after the last iteration.
Iterations == pcb[curProc].name.n

ProcIterate ==
  /\ Running("proc") /\ cpu.i < Iterations
  /\ output' = [output EXCEPT ![curProc] = @ + 1]
  /\ Idle([cpu EXCEPT !.i = @ + 1])
  /\ UNCHANGED <<heap, status, alarms>>

ProcExit == Running("proc") /\ cpu.i >= Iterations /\ Exit /\ Quiet

IdleProcess == Running("idle") /\ Idle(cpu) /\ Quiet

\* An alarm yields until the time of day is past its own; the clock may show
\* either.
AlarmWait == Running("alarm") /\ Idle(cpu) /\ Quiet
AlarmRing == Running("alarm") /\ Exit /\ Quiet

Process == ProcIterate \/ ProcExit \/ IdleProcess \/ AlarmWait \/ AlarmRing

\* The loops around hlt in kpanic and core-asm.s.
Stopped == status # "running" /\ UNCHANGED vars

----------------------------------------------------------------------------
Init ==
  /\ pcb = <<>>
  /\ queue = EmptyQueues
  /\ curProc = NULL
  /\ cpu = At("kmain_commhand")
  /\ sysStack = NoContext
  /\ heap = 0
  /\ status = "running"
  /\ output = <<>>
  /\ alarms = 1

UserTypes == \E line \in Commands : ComRead(line)

Next == \/ Kmain \/ ComStart \/ UserTypes \/ ComCommand
        \/ ConfirmYes \/ ConfirmNo \/ Process \/ Stopped

Spec == Init /\ [][Next]_vars

(***************************************************************************)
(* Fairness.  The processor never stops by itself, so the program that has *)
(* it goes on, and so does a user who sits at the prompt.  Nothing is      *)
(* assumed of the clock.                                                   *)
(***************************************************************************)
Fairness ==
  /\ WF_vars(Kmain \/ ComStart \/ ComCommand \/ Process)
  /\ WF_vars(UserTypes)
  /\ WF_vars(ConfirmYes \/ ConfirmNo)

FairSpec == Spec /\ Fairness

=============================================================================
