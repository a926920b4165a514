----------------------------- MODULE StepProofs -----------------------------
(***************************************************************************)
(* Theorems about the running system that follow from the kind of its      *)
(* steps: a command of the command handler, a new process, a system call   *)
(* IDLE or EXIT, or a stop of the machine.  They are about what show       *)
(* prints, who is ready at the shutdown, where a process resumes, who may  *)
(* vanish, and what load suspended leaves.                                 *)
(***************************************************************************)
EXTENDS MpxProofs

----------------------------------------------------------------------------
(***************************************************************************)
(* The kinds of steps.                                                     *)
(***************************************************************************)
\* The processes and their contexts are the same.
SameBlocks ==
  /\ Len(pcb') = Len(pcb)
  /\ \A x \in 1..Len(pcb) : /\ pcb'[x].name = pcb[x].name
                            /\ pcb'[x].ctx = pcb[x].ctx
                            /\ pcb'[x].process_class = pcb[x].process_class

Deletes(t) ==
  /\ Doing("delete")
  /\ pcb[t].name = cpu.line.name /\ pcb[t].process_class = "user"
  /\ Queued(queue') = Queued(queue) \ {t}

Commanded ==
  /\ status = "running" /\ cpu.at \in ComLabels /\ cpu'.at \in ComLabels
  /\ SameBlocks
  /\ UNCHANGED <<curProc, sysStack, status, output>>
  /\ Queued(queue') = Queued(queue) \/ \E t \in Queued(queue) : Deletes(t)

Created ==
  /\ status = "running" /\ cpu.at # "kmain_off"
  /\ curProc # NULL => pcb[curProc].name = CommhandName
  /\ \E name \in Name, class \in {"system", "user"}, priority \in 0..MaxPriority,
        label \in YieldLabels, extra \in Nat, next \in Context :
       /\ Create(name, class, priority, label, extra, next)
       /\ next.at \notin {"kmain_off", "proc"}
       /\ name.base = "proc" => class = "user" /\ name.n \in 1..R3Count

\* What a process has printed grows with its loop counter.
Counts(saved) ==
  \/ /\ output' = output
     /\ saved.at # "proc"
     /\ curProc # NULL /\ pcb[curProc].name.base = "proc" => saved.i = cpu.i
  \/ /\ output' = [output EXCEPT ![curProc] = @ + 1]
     /\ cpu.at = "proc" /\ saved.at = "proc"
     /\ saved.i = cpu.i + 1 /\ cpu.i < pcb[curProc].name.n

Yielded ==
  /\ status = "running" /\ status' = status /\ cpu.at # "kmain_off"
  /\ \E saved \in Context : /\ Idle(saved) /\ Counts(saved)
                            /\ curProc = NULL => saved.at = "kmain_off"
                            /\ curProc # NULL => saved.at \in YieldLabels

MayExit ==
  \/ cpu.at = "proc" /\ cpu.i >= pcb[curProc].name.n
  \/ cpu.at = "alarm"
  \/ cpu.at \in {"com_exec", "com_confirm"} /\ cpu.line.op \in {"exit", "exit force"}

Exited == /\ status = "running" /\ curProc # NULL /\ cpu.at # "kmain_off"
          /\ Exit /\ Quiet /\ MayExit

Halted == \E reason \in Status : /\ status = "running" /\ Stop(reason)
                                 /\ reason = "halted" => cpu.at = "kmain_off"

\* A block that is moved stays the process it is.
LEMMA RequeueBlocks ==
  ASSUME KernelInv, NEW p \in Queued(queue), NEW r \in PcbRec, Requeue(p, r),
         r.name = pcb[p].name, r.ctx = pcb[p].ctx,
         r.process_class = pcb[p].process_class
  PROVE  SameBlocks /\ Queued(queue') = Queued(queue)
<1>1. /\ Queued(queue') = Queued(queue) /\ SameProcesses
      /\ pcb' = [pcb EXCEPT ![p] = r]
  BY RequeueStep
<1>2. DOMAIN pcb = 1..Len(pcb) /\ p \in 1..Len(pcb)
  BY KernelFacts
<1> QED BY <1>1, <1>2 DEF SameBlocks, SameProcesses

\* suspend_pcb moves at most one block.
LEMMA SuspendBlocks ==
  ASSUME KernelInv, NEW name, SuspendPcb(Found(name))
  PROVE  SameBlocks /\ Queued(queue') = Queued(queue)
<1> DEFINE p == Found(name)
           r == [pcb[p] EXCEPT !.dispatch_state = "suspended"]
<1>1. p # NULL => p \in Queued(queue) /\ pcb[p] \in PcbRec
  BY FoundProperties
<1>2. CASE p # NULL /\ Requeue(p, r)
  <2>1. /\ r \in PcbRec /\ r.name = pcb[p].name /\ r.ctx = pcb[p].ctx
        /\ r.process_class = pcb[p].process_class
    BY <1>1, <1>2 DEF PcbRec
  <2> HIDE DEF r, p
  <2> QED BY <1>1, <1>2, <2>1, RequeueBlocks
<1>3. CASE UNCHANGED <<pcb, queue>>
  BY <1>3 DEF SameBlocks
<1> QED BY <1>2, <1>3 DEF SuspendPcb

\* resume_pcb moves at most one block.
LEMMA ResumeBlocks ==
  ASSUME KernelInv, NEW name, ResumePcb(Found(name))
  PROVE  SameBlocks /\ Queued(queue') = Queued(queue)
<1> DEFINE p == Found(name)
           r == [pcb[p] EXCEPT !.dispatch_state = "active"]
<1>1. p # NULL => p \in Queued(queue) /\ pcb[p] \in PcbRec
  BY FoundProperties
<1>2. CASE p # NULL /\ Requeue(p, r)
  <2>1. /\ r \in PcbRec /\ r.name = pcb[p].name /\ r.ctx = pcb[p].ctx
        /\ r.process_class = pcb[p].process_class
    BY <1>1, <1>2 DEF PcbRec
  <2> HIDE DEF r, p
  <2> QED BY <1>1, <1>2, <2>1, RequeueBlocks
<1>3. CASE UNCHANGED <<pcb, queue>>
  BY <1>3 DEF SameBlocks
<1> QED BY <1>2, <1>3 DEF ResumePcb

\* The labels a command ends at.
LEMMA PromptLabel == At("com_read").at \in ComLabels
  BY AtType DEF Label, ComLabels

\* block, unblock and priority set.
LEMMA ChangeBlocks ==
  ASSUME KernelInv, ComBlock \/ ComUnblock \/ ComPriority
  PROVE  Commanded \/ Halted
<1>1. /\ status = "running" /\ cpu.at \in ComLabels
      /\ cpu.line.prio \in Nat
  BY DEF ComBlock, ComUnblock, BlockPcb, ComPriority, Doing, Running, ComLabels,
         KernelInv, Context, Line
<1>2. Target # NULL => Target \in Queued(queue) /\ pcb[Target] \in PcbRec
  BY FoundProperties DEF Target
<1>3. CASE Stop("page_fault")
  BY <1>1, <1>3 DEF Halted, Status
<1>4. ASSUME NEW to \in {"ready", "blocked"}, Target # NULL, QueueCommand,
             Requeue(Target, [pcb[Target] EXCEPT !.execution_state = to])
      PROVE  Commanded
  <2> DEFINE r == [pcb[Target] EXCEPT !.execution_state = to]
  <2>1. /\ r \in PcbRec /\ r.name = pcb[Target].name /\ r.ctx = pcb[Target].ctx
        /\ r.process_class = pcb[Target].process_class
    BY <1>2, <1>4 DEF PcbRec
  <2>2. Requeue(Target, r)
    BY <1>4
  <2> HIDE DEF r
  <2>3. SameBlocks /\ Queued(queue') = Queued(queue)
    BY <1>2, <1>4, <2>1, <2>2, RequeueBlocks
  <2> QED BY <1>1, <1>4, <2>3, PromptLabel DEF Commanded, QueueCommand, ToRead, Quiet
<1>5. CASE UNCHANGED <<pcb, queue>> /\ QueueCommand
  BY <1>1, <1>5, PromptLabel DEF Commanded, SameBlocks, QueueCommand, ToRead, Quiet
<1>6. ASSUME Target # NULL, QueueCommand, cpu.line.prio <= MaxPriority,
             Requeue(Target, [pcb[Target] EXCEPT !.priority = cpu.line.prio])
      PROVE  Commanded
  <2> DEFINE r == [pcb[Target] EXCEPT !.priority = cpu.line.prio]
  <2>1. cpu.line.prio \in 0..MaxPriority
    BY <1>1, <1>6, PcbAssumption
  <2>2. /\ r \in PcbRec /\ r.name = pcb[Target].name /\ r.ctx = pcb[Target].ctx
        /\ r.process_class = pcb[Target].process_class
    BY <1>2, <1>6, <2>1 DEF PcbRec
  <2>3. Requeue(Target, r)
    BY <1>6
  <2> HIDE DEF r
  <2>4. SameBlocks /\ Queued(queue') = Queued(queue)
    BY <1>2, <1>6, <2>2, <2>3, RequeueBlocks
  <2> QED BY <1>1, <1>6, <2>4, PromptLabel DEF Commanded, QueueCommand, ToRead, Quiet
<1>7. CASE ComBlock \/ ComUnblock
  BY <1>3, <1>4, <1>5, <1>7 DEF ComBlock, ComUnblock, BlockPcb
<1>8. CASE ComPriority
  BY <1>5, <1>6, <1>8 DEF ComPriority
<1> QED BY <1>7, <1>8

\* delete takes one waiting user process out.
LEMMA DeleteBlocks == ASSUME KernelInv, ComDelete PROVE Commanded
<1>1. status = "running" /\ cpu.at \in ComLabels /\ QueueCommand /\ pcb' = pcb
  BY DEF ComDelete, Doing, Running, ComLabels
<1>2. CASE Target # NULL /\ pcb[Target].process_class # "system"
  <2>1. /\ Target \in Queued(queue) /\ pcb[Target] \in PcbRec
        /\ pcb[Target].name = cpu.line.name
    BY <1>2, FoundProperties DEF Target
  <2>2. queue' = Dequeue(pcb, queue, Target)
    BY <1>2 DEF ComDelete
  <2>3. Queued(queue') = Queued(queue) \ {Target}
    BY <2>1, <2>2, DequeueKeepsGood DEF KernelInv
  <2>4. pcb[Target].process_class = "user"
    BY <1>2, <2>1 DEF PcbRec
  <2>5. Deletes(Target)
    BY <2>1, <2>3, <2>4 DEF Deletes, ComDelete
  <2> QED BY <1>1, <2>1, <2>5, PromptLabel DEF Commanded, SameBlocks, QueueCommand, ToRead, Quiet
<1>3. CASE queue' = queue
  BY <1>1, <1>3, PromptLabel DEF Commanded, SameBlocks, QueueCommand, ToRead, Quiet
<1> QED BY <1>2, <1>3 DEF ComDelete

\* The commands that move blocks between queues, or none.
LEMMA MoveBlocks ==
  ASSUME KernelInv,
         \/ ComStart \/ ComNone \/ ComSuspendOne \/ ComResumeOne \/ ComResumeAll
         \/ ComResumeNext \/ ComSuspendNext \/ ComLoadAll \/ ConfirmNo
         \/ ComLeave /\ cpu' = [cpu EXCEPT !.at = "com_confirm"]
                     /\ UNCHANGED <<pcb, queue, curProc, sysStack>> /\ Quiet
  PROVE  Commanded
<1>1. cpu \in Context
  BY DEF KernelInv
<1>2. status = "running" /\ cpu.at \in ComLabels
  BY DEF ComStart, ComNone, ComSuspendOne, ComResumeOne, ComResumeAll, ComResumeNext,
         ComSuspendNext, ComLoadAll, ConfirmNo, ComLeave, Doing, Running, ComLabels
<1>3. UNCHANGED <<curProc, sysStack>> /\ Quiet
  BY DEF ComStart, ComNone, ComSuspendOne, ComResumeOne, ComResumeAll, ComResumeNext,
         ComSuspendNext, ComLoadAll, ConfirmNo, QueueCommand
<1>4. cpu'.at \in ComLabels
  <2>1. \/ cpu' = At("com_read")
        \/ \E p : cpu' = [at |-> "com_resume", i |-> p, line |-> NoLine]
        \/ \E n : cpu' = [cpu EXCEPT !.i = n]
        \/ \E n : cpu' = [cpu EXCEPT !.at = "com_load", !.i = n]
        \/ cpu' = [cpu EXCEPT !.at = "com_confirm"]
    BY Zenon DEF ComStart, ComNone, ComSuspendOne, ComResumeOne, ComResumeAll, ComResumeNext,
           ComSuspendNext, ComLoadAll, ConfirmNo, QueueCommand, ToRead, ResumeLoop
  <2>2. ASSUME NEW n PROVE /\ [cpu EXCEPT !.i = n].at = cpu.at
                           /\ [cpu EXCEPT !.at = "com_load", !.i = n].at = "com_load"
    BY <1>1 DEF Context
  <2>3. [cpu EXCEPT !.at = "com_confirm"].at = "com_confirm"
    BY <1>1 DEF Context
  <2>4. CASE cpu' = At("com_read")
    BY <2>4, PromptLabel
  <2>5. CASE \E p : cpu' = [at |-> "com_resume", i |-> p, line |-> NoLine]
    <3>1. PICK p : cpu' = [at |-> "com_resume", i |-> p, line |-> NoLine]
      BY <2>5
    <3> QED BY <3>1 DEF ComLabels
  <2>6. CASE \E n : cpu' = [cpu EXCEPT !.i = n]
    <3>1. PICK n : cpu' = [cpu EXCEPT !.i = n]
      BY <2>6
    <3> QED BY <1>2, <2>2, <3>1
  <2>7. CASE \E n : cpu' = [cpu EXCEPT !.at = "com_load", !.i = n]
    <3>1. PICK n : cpu' = [cpu EXCEPT !.at = "com_load", !.i = n]
      BY <2>7
    <3> QED BY <2>2, <3>1 DEF ComLabels
  <2>8. CASE cpu' = [cpu EXCEPT !.at = "com_confirm"]
    BY <2>3, <2>8 DEF ComLabels
  <2> QED BY <2>1, <2>4, <2>5, <2>6, <2>7, <2>8
<1>5. SameBlocks /\ Queued(queue') = Queued(queue)
  <2>1. CASE UNCHANGED <<pcb, queue>>
    BY <2>1 DEF SameBlocks
  <2>2. CASE \E name : SuspendPcb(Found(name)) \/ ResumePcb(Found(name))
    BY <2>2, SuspendBlocks, ResumeBlocks
  <2> QED BY <2>1, <2>2 DEF ComStart, ComNone, ComSuspendOne, ComResumeOne, ComResumeAll,
           ComResumeNext, ComSuspendNext, ComLoadAll, ConfirmNo, Target
<1> QED BY <1>2, <1>3, <1>4, <1>5 DEF Commanded, Quiet

\* load and alarm.
LEMMA LoadBlocks ==
  ASSUME IInv, ComLoadOne \/ ComAlarm \/ ComLoadNext,
         ComLoadNext => cpu.i \in 1..R3Count
  PROVE  Created \/ Commanded
<1>1. KernelInv /\ cpu \in Context /\ alarms \in Nat
  BY InvIsKernelAndUser DEF KernelInv, UserInv
<1>2. status = "running" /\ cpu.at \in ComLabels
  BY DEF ComLoadOne, ComAlarm, ComLoadNext, Doing, Running, ComLabels
<1>3. /\ cpu.at # "kmain_off"
      /\ curProc # NULL => pcb[curProc].name = CommhandName
  BY <1>1, <1>2 DEF KernelInv, ControlInv, ComLabels
<1>4. "proc" \in YieldLabels /\ "alarm" \in YieldLabels
  BY DEF YieldLabels
<1>5. LoadPriority \in 0..MaxPriority
  BY PcbAssumption, MpxAssumption DEF LoadPriority
<1>6. At("com_read") \in Context /\ At("com_read").at \notin {"kmain_off", "proc"}
  BY AtType DEF Label
<1>7. ASSUME NEW n \in 1..R3Count, NEW next \in Context,
             next.at \notin {"kmain_off", "proc"}, LoadOne(n, next)
      PROVE  Created
  <2>1. ProcName(n) \in Name /\ ProcName(n).n \in 1..R3Count
    BY PcbAssumption DEF ProcName, Name
  <2>2. Create(ProcName(n), "user", LoadPriority, "proc", 0, next)
    BY <1>7 DEF LoadOne
  <2> QED BY <1>2, <1>3, <1>4, <1>5, <1>7, <2>1, <2>2 DEF Created
<1>8. CASE ComLoadOne
  <2>1. CASE IsProcName(cpu.line.name) /\ LoadOne(cpu.line.name.n, At("com_read"))
    BY <1>6, <1>7, <2>1 DEF IsProcName
  <2>2. CASE UNCHANGED <<pcb, queue>> /\ QueueCommand
    BY <1>2, <2>2, PromptLabel DEF Commanded, SameBlocks, QueueCommand, ToRead, Quiet
  <2> QED BY <1>8, <2>1, <2>2 DEF ComLoadOne
<1>9. CASE ComAlarm
  <2>1. AlarmName(alarms) \in Name /\ AlarmName(alarms).base # "proc"
    BY <1>1 DEF AlarmName, Name
  <2>2. Create(AlarmName(alarms), "user", LoadPriority, "alarm", 2 * AlarmSize, At("com_read"))
    BY <1>9 DEF ComAlarm
  <2>3. 2 * AlarmSize \in Nat /\ "user" \in {"system", "user"}
    BY MpxAssumption
  <2>4. "alarm" \in YieldLabels
    BY <1>4
  <2> QED BY <1>2, <1>3, <1>5, <1>6, <2>1, <2>2, <2>3, <2>4 DEF Created
<1>10. CASE ComLoadNext /\ cpu.i \in 1..R3Count
  <2>1. AfterLoad \in Context /\ AfterLoad.at \notin {"kmain_off", "proc"}
    <3>1. cpu.at = "com_load"
      BY <1>10 DEF ComLoadNext, Running
    <3>2. cpu.i + 1 \in Nat /\ 1 \in Nat
      BY <1>1 DEF Context
    <3>3. [cpu EXCEPT !.i = @ + 1] \in Context /\ [cpu EXCEPT !.i = @ + 1].at = "com_load"
      BY <1>1, <3>1, <3>2 DEF Context
    <3>4. /\ [cpu EXCEPT !.at = "com_suspend", !.i = 1] \in Context
          /\ [cpu EXCEPT !.at = "com_suspend", !.i = 1].at = "com_suspend"
      BY <1>1, <3>2 DEF Context, Label
    <3>5. AfterLoad \in {[cpu EXCEPT !.i = @ + 1], [cpu EXCEPT !.at = "com_suspend", !.i = 1],
                         At("com_read")}
      BY DEF AfterLoad
    <3> QED BY <1>6, <3>3, <3>4, <3>5
  <2>2. LoadOne(cpu.i, AfterLoad)
    BY <1>10 DEF ComLoadNext
  <2> HIDE DEF AfterLoad
  <2> QED BY <1>7, <1>10, <2>1, <2>2
<1>11. CASE ComLoadNext
  BY <1>10, <1>11, Zenon
<1> QED BY <1>8, <1>9, <1>11, Zenon

\* exit and shutdown.
LEMMA LeaveBlocks ==
  ASSUME KernelInv, ComLeave \/ ConfirmYes
  PROVE  Exited \/ Halted \/ Commanded
<1>1. status = "running" /\ cpu.at \in {"com_exec", "com_confirm"}
  BY DEF ComLeave, ConfirmYes, Doing, Running
<1>2. curProc # NULL /\ cpu.at # "kmain_off"
  BY <1>1 DEF KernelInv, ControlInv, ComLabels
<1>3. CASE Leave(cpu.line.op)
  BY <1>1, <1>2, <1>3 DEF Leave, Exited, MayExit, Halted, Status
<1>4. CASE ComLeave /\ cpu' = [cpu EXCEPT !.at = "com_confirm"]
                    /\ UNCHANGED <<pcb, queue, curProc, sysStack>> /\ Quiet
  BY <1>4, MoveBlocks
<1> QED BY <1>3, <1>4 DEF ComLeave, ConfirmYes

\* The test processes, the idle process and the alarms.
LEMMA ProcessBlocks == ASSUME KernelInv, Process PROVE Yielded \/ Exited
<1>0. cpu \in Context /\ cpu.i \in Nat
  BY DEF KernelInv, Context
<1>1. status = "running" /\ cpu.at \in {"proc", "idle", "alarm"}
  BY DEF Process, ProcIterate, ProcExit, IdleProcess, AlarmWait, AlarmRing, Running
<1>2. curProc # NULL /\ cpu.at \in YieldLabels /\ cpu.at # "kmain_off"
  BY <1>1 DEF KernelInv, ControlInv, YieldLabels
<1>3. CASE ProcIterate
  <2> DEFINE saved == [cpu EXCEPT !.i = @ + 1]
  <2>1. saved \in Context /\ saved.at = cpu.at /\ saved.i = cpu.i + 1
    BY <1>0 DEF Context
  <2>2. /\ Idle(saved) /\ cpu.at = "proc" /\ cpu.i < pcb[curProc].name.n
        /\ output' = [output EXCEPT ![curProc] = @ + 1] /\ status' = status
    BY <1>3 DEF ProcIterate, Running, Iterations
  <2> HIDE DEF saved
  <2>3. Counts(saved)
    BY <2>1, <2>2 DEF Counts
  <2> QED BY <1>1, <1>2, <2>1, <2>2, <2>3 DEF Yielded
<1>4. CASE Idle(cpu) /\ Quiet /\ cpu.at # "proc"
  <2>1. Counts(cpu)
    BY <1>4 DEF Counts, Quiet
  <2> QED BY <1>0, <1>1, <1>2, <1>4, <2>1 DEF Yielded, Quiet
<1>5. CASE Exit /\ Quiet /\ MayExit
  BY <1>1, <1>2, <1>5 DEF Exited
<1>6. CASE ProcExit
  BY <1>5, <1>6 DEF ProcExit, Running, MayExit, Iterations
<1>7. CASE IdleProcess \/ AlarmWait
  BY <1>4, <1>7 DEF IdleProcess, AlarmWait, Running
<1>8. CASE AlarmRing
  BY <1>5, <1>8 DEF AlarmRing, Running, MayExit
<1> QED BY <1>3, <1>6, <1>7, <1>8 DEF Process

\* kmain, and the command handler when it has read a line.
LEMMA KmainBlocks == ASSUME KernelInv, Kmain PROVE Created \/ Yielded \/ Halted
<1>1. CASE KmainCommhand
  <2>1. /\ status = "running" /\ cpu.at = "kmain_commhand" /\ curProc = NULL
        /\ Create(CommhandName, "system", SystemPriority, "com_start", 0, At("kmain_idle"))
    BY <1>1 DEF KmainCommhand, Running, KernelInv, ControlInv, BootLabels
  <2>2. /\ CommhandName \in Name /\ SystemPriority \in 0..MaxPriority
        /\ "com_start" \in YieldLabels /\ CommhandName.base # "proc"
    BY PcbAssumption DEF CommhandName, Name, SystemPriority, YieldLabels
  <2>3. At("kmain_idle") \in Context /\ At("kmain_idle").at \notin {"kmain_off", "proc"}
    BY AtType DEF Label
  <2> QED BY <2>1, <2>2, <2>3 DEF Created
<1>2. CASE KmainIdle
  <2>1. /\ status = "running" /\ cpu.at = "kmain_idle" /\ curProc = NULL
        /\ Create(IdleName, "system", MaxPriority, "idle", 0, At("kmain_run"))
    BY <1>2 DEF KmainIdle, Running, KernelInv, ControlInv, BootLabels
  <2>2. /\ IdleName \in Name /\ MaxPriority \in 0..MaxPriority
        /\ "idle" \in YieldLabels /\ IdleName.base # "proc"
    BY PcbAssumption DEF IdleName, Name, YieldLabels
  <2>3. At("kmain_run") \in Context /\ At("kmain_run").at \notin {"kmain_off", "proc"}
    BY AtType DEF Label
  <2> QED BY <2>1, <2>2, <2>3 DEF Created
<1>3. CASE KmainRun
  <2>1. /\ status = "running" /\ cpu.at = "kmain_run" /\ curProc = NULL
        /\ Idle(At("kmain_off")) /\ output' = output /\ status' = status
    BY <1>3 DEF KmainRun, Running, KernelInv, ControlInv, BootLabels, Quiet
  <2>2. At("kmain_off") \in Context /\ At("kmain_off").at = "kmain_off"
    BY AtType DEF Label
  <2>3. Counts(At("kmain_off"))
    BY <2>1, <2>2 DEF Counts
  <2> QED BY <2>1, <2>2, <2>3 DEF Yielded
<1>4. CASE KmainOff
  BY <1>4 DEF KmainOff, Running, Halted, Status
<1> QED BY <1>1, <1>2, <1>3, <1>4 DEF Kmain

\* The command handler yields when it has read a line.
LEMMA TypingBlocks == ASSUME KernelInv, UserTypes PROVE Yielded
<1> PICK line \in Commands : ComRead(line)
  BY DEF UserTypes
<1> DEFINE saved == [at |-> "com_exec", i |-> 0, line |-> line]
<1>1. saved \in Context /\ saved.at = "com_exec"
  BY MpxAssumption DEF Context, Label
<1>2. /\ Idle(saved) /\ output' = output /\ status' = status
      /\ status = "running" /\ cpu.at = "com_read"
  BY DEF ComRead, Running, Quiet
<1>3. curProc # NULL /\ pcb[curProc].name.base # "proc"
  BY <1>2 DEF KernelInv, ControlInv, ComLabels, CommhandName
<1> HIDE DEF saved
<1>4. Counts(saved)
  BY <1>1, <1>2, <1>3 DEF Counts
<1> QED BY <1>1, <1>2, <1>3, <1>4 DEF Yielded, YieldLabels

(***************************************************************************)
(* Every step is of one of these kinds (of the loop of load it is known    *)
(* below that it counts the test processes).                               *)
(***************************************************************************)
LEMMA StepKinds ==
  ASSUME IInv, [Next]_vars, cpu.at = "com_load" => cpu.i \in 1..R3Count
  PROVE  \/ Commanded \/ Created \/ Yielded \/ Exited \/ Halted
         \/ UNCHANGED vars
<1>1. KernelInv
  BY InvIsKernelAndUser
<1>2. ComLoadNext => cpu.i \in 1..R3Count
  BY DEF ComLoadNext, Running
<1> QED BY <1>1, <1>2, ChangeBlocks, DeleteBlocks, MoveBlocks, LoadBlocks, LeaveBlocks,
           ProcessBlocks, KmainBlocks, TypingBlocks DEF Next, ComCommand, Stopped

----------------------------------------------------------------------------
(***************************************************************************)
(* Where the processor goes.                                               *)
(***************************************************************************)
Handover ==
  \/ queue["ready"] = <<>> /\ queue'["ready"] = <<>> /\ cpu' = sysStack'
  \/ /\ curProc' \in Queued(queue) /\ curProc' # NULL
     /\ cpu' = pcb[curProc'].ctx

\* IDLE loses no process, and saves the caller's context where it resumes.
LEMMA IdleBlocks ==
  ASSUME KernelInv, NEW saved \in Context, Idle(saved)
  PROVE  /\ Handover /\ Len(pcb') = Len(pcb) /\ Living' = Living
         /\ sysStack' = IF curProc = NULL THEN saved ELSE sysStack
         /\ curProc = NULL => pcb' = pcb
         /\ \A x \in 1..Len(pcb) : /\ pcb'[x].name = pcb[x].name
                                   /\ pcb'[x].process_class = pcb[x].process_class
                                   /\ pcb'[x].dispatch_state = pcb[x].dispatch_state
                                   /\ x # curProc => pcb'[x].ctx = pcb[x].ctx
         /\ curProc # NULL /\ curProc' # curProc => pcb'[curProc].ctx = saved
         /\ curProc' = curProc => cpu' = sysStack' /\ pcb' = pcb
<1>1. /\ GoodStore(pcb, queue) /\ Len(pcb) \in Nat /\ Queued(queue) \subseteq 1..Len(pcb)
      /\ curProc \in 0..Len(pcb) /\ curProc \notin Queued(queue)
      /\ DOMAIN pcb = 1..Len(pcb)
      /\ \A p \in 1..Len(pcb) : pcb[p] \in PcbRec
  BY KernelFacts DEF KernelInv
<1>2. sysStack' = IF curProc = NULL THEN saved ELSE sysStack
  BY DEF Idle, SaveKernelContext
<1>3. ReadyHead = NULL <=> queue["ready"] = <<>>
  BY <1>1, HeadProperties DEF ReadyHead, QueueName
<1>4. ReadyHead # NULL => ReadyHead \in Queued(queue)
  BY ReadyHeadProperties
<1>5. CASE IdleToKernel
  BY <1>2, <1>3, <1>5 DEF IdleToKernel, Handover, Living
<1>6. CASE IdleFirst
  <2> DEFINE h == ReadyHead
  <2>1. /\ h # NULL /\ queue' = Dequeue(pcb, queue, h) /\ curProc' = h
        /\ cpu' = pcb[h].ctx /\ pcb' = pcb /\ curProc = NULL
    BY <1>6 DEF IdleFirst
  <2> HIDE DEF h
  <2>2. h \in Queued(queue)
    BY <1>4, <2>1 DEF h
  <2>3. Queued(queue') = Queued(queue) \ {h}
    BY <1>1, <2>1, <2>2, DequeueKeepsGood
  <2>4. Living' = Living
    BY <2>1, <2>2, <2>3 DEF Living
  <2> QED BY <1>2, <2>1, <2>2, <2>4 DEF Handover
<1>7. CASE IdleSwitch(saved)
  <2> DEFINE h == ReadyHead
             r == [pcb[curProc] EXCEPT !.ctx = saved]
             saves == [pcb EXCEPT ![curProc] = r]
             back == Enqueue(saves, queue, curProc)
  <2>1. /\ h # NULL /\ curProc # NULL /\ curProc' = h
        /\ pcb' = [pcb EXCEPT ![curProc].ctx = saved]
        /\ queue' = Dequeue(pcb', Enqueue(pcb', queue, curProc), h)
        /\ cpu' = pcb'[h].ctx
    BY <1>7 DEF IdleSwitch
  <2>2. curProc \in 1..Len(pcb) /\ pcb[curProc] \in PcbRec
    BY <1>1, <2>1 DEF NULL
  <2>3. /\ r \in PcbRec /\ r.name = pcb[curProc].name /\ r.ctx = saved
        /\ r.process_class = pcb[curProc].process_class
        /\ r.dispatch_state = pcb[curProc].dispatch_state
    BY <2>2 DEF PcbRec
  <2>4. pcb' = saves
    BY <2>1
  <2>5. h \in Queued(queue) /\ h \in 1..Len(pcb)
    BY <1>1, <1>4, <2>1
  <2> HIDE DEF h, r
  <2>6. /\ GoodStore(saves, queue) /\ Len(saves) = Len(pcb) /\ saves[curProc] = r
        /\ \A x \in 1..Len(pcb) : x # curProc => saves[x] = pcb[x]
    BY <1>1, <2>2, <2>3, UpdateKeepsGood
  <2> HIDE DEF saves
  <2>7. GoodStore(saves, back) /\ Queued(back) = Queued(queue) \cup {curProc}
    BY <1>1, <2>2, <2>6, EnqueueKeepsGood
  <2>8. queue' = Dequeue(saves, back, h)
    BY <2>1, <2>4
  <2> HIDE DEF back
  <2>9. Queued(queue') = Queued(back) \ {h}
    BY <2>5, <2>7, <2>8, DequeueKeepsGood
  <2>10. h # curProc /\ saves[h] = pcb[h]
    BY <1>1, <2>5, <2>6
  <2>11. Living' = Living
    BY <2>1, <2>5, <2>7, <2>9, <2>10 DEF Living
  <2>12. Handover
    BY <2>1, <2>4, <2>5, <2>10 DEF Handover
  <2> QED BY <1>2, <2>1, <2>3, <2>4, <2>6, <2>10, <2>11, <2>12
<1> QED BY <1>5, <1>6, <1>7 DEF Idle

\* EXIT takes the caller and nobody else.
LEMMA ExitBlocks ==
  ASSUME KernelInv, Exit, curProc # NULL
  PROVE  /\ Handover /\ pcb' = pcb /\ sysStack' = sysStack
         /\ Living' = Living \ {curProc} /\ curProc' # curProc
         /\ curProc' = NULL => cpu' = sysStack'
<1>1. /\ GoodStore(pcb, queue) /\ curProc \notin Queued(queue)
      /\ Queued(queue) \subseteq 1..Len(pcb)
  BY KernelFacts DEF KernelInv
<1>2. pcb' = pcb /\ sysStack' = sysStack
  BY DEF Exit, SaveKernelContext
<1>3. ReadyHead = NULL <=> queue["ready"] = <<>>
  BY <1>1, HeadProperties DEF ReadyHead, QueueName
<1>4. ReadyHead # NULL => ReadyHead \in Queued(queue)
  BY ReadyHeadProperties
<1>5. CASE ExitToKernel
  BY <1>1, <1>2, <1>3, <1>5 DEF ExitToKernel, Handover, Living
<1>6. CASE ExitToNext
  <2> DEFINE h == ReadyHead
  <2>1. /\ h # NULL /\ queue' = Dequeue(pcb, queue, h) /\ curProc' = h
        /\ cpu' = pcb[h].ctx
    BY <1>6 DEF ExitToNext
  <2> HIDE DEF h
  <2>2. h \in Queued(queue)
    BY <1>4, <2>1 DEF h
  <2>3. Queued(queue') = Queued(queue) \ {h}
    BY <1>1, <2>1, <2>2, DequeueKeepsGood
  <2>4. Living' = Living \ {curProc}
    BY <1>1, <2>1, <2>2, <2>3 DEF Living
  <2> QED BY <1>1, <1>2, <2>1, <2>2, <2>4 DEF Handover
<1> QED BY <1>5, <1>6 DEF Exit

\* A new process is added to those there are, or the machine stops.
LEMMA CreateBlocks ==
  ASSUME IInv, NEW name \in Name, NEW class \in {"system", "user"},
         NEW priority \in 0..MaxPriority, NEW label \in YieldLabels, NEW extra,
         NEW next, Create(name, class, priority, label, extra, next)
  PROVE  /\ UNCHANGED <<curProc, sysStack>>
         /\ \/ Stop("heap_full")
            \/ /\ cpu' = next /\ status' = status
               /\ UNCHANGED <<pcb, queue, output>>
            \/ /\ cpu' = next /\ status' = status
               /\ Len(pcb') = Len(pcb) + 1
               /\ \A x \in 1..Len(pcb) : pcb'[x] = pcb[x] /\ output'[x] = output[x]
               /\ pcb'[Len(pcb) + 1] = NewPcb(name, class, priority, label)
               /\ output'[Len(pcb) + 1] = 0
               /\ Living' = Living \cup {Len(pcb) + 1}
<1> DEFINE new == NewPcb(name, class, priority, label)
           grown == Append(pcb, new)
           p == Len(pcb) + 1
<1>1. KernelInv /\ UserInv
  BY InvIsKernelAndUser
<1>2. CASE Stop("heap_full")
  BY <1>2 DEF Stop
<1>3. CASE /\ cpu' = next /\ UNCHANGED <<pcb, queue, curProc, sysStack, status, output>>
  BY <1>3
<1>4. CASE /\ pcb' = grown
           /\ queue' = Enqueue(grown, queue, Len(grown))
           /\ output' = Append(output, 0)
           /\ cpu' = next
           /\ UNCHANGED <<curProc, sysStack, status>>
  <2>1. GoodStore(pcb, queue) /\ Len(pcb) \in Nat
    BY <1>1, KernelFacts DEF KernelInv
  <2>2. new \in PcbRec
    BY DEF NewPcb, PcbRec, At, Context, NoLine, Line, NoName, Name, Op, YieldLabels, Label
  <2> HIDE DEF new
  <2>3. /\ GoodStore(grown, queue) /\ Len(grown) = p /\ grown[p] = new
        /\ \A x \in 1..Len(pcb) : grown[x] = pcb[x]
        /\ p \notin Queued(queue)
    BY <2>1, <2>2, AppendKeepsGood
  <2>4. p \in 1..p
    BY <2>1
  <2> HIDE DEF grown
  <2>5. Queued(queue') = Queued(queue) \cup {p}
    BY <1>4, <2>3, <2>4, EnqueueKeepsGood
  <2>6. Living' = Living \cup {p}
    BY <1>4, <2>5 DEF Living
  <2>7. /\ \A x \in 1..Len(pcb) : output'[x] = output[x]
        /\ output'[p] = 0
    BY <1>1, <1>4, <2>1, AppendProperties DEF UserInv
  <2> QED BY <1>4, <2>3, <2>6, <2>7 DEF new
<1> QED BY <1>2, <1>3, <1>4 DEF Create

----------------------------------------------------------------------------
(***************************************************************************)
(* What show prints.                                                       *)
(***************************************************************************)
\* A name that is looked up finds the process it belongs to.
LEMMA FoundItself ==
  ASSUME KernelInv, NEW p \in Queued(queue)
  PROVE  Found(pcb[p].name) = p
<1>1. GoodStore(pcb, queue)
  BY DEF KernelInv
<1>2. p \in Living /\ \A x \in Queued(queue) : x \in Living
  BY KernelFacts DEF Living, KernelInv
<1>3. Found(pcb[p].name) \in Queued(queue)
      /\ pcb[Found(pcb[p].name)].name = pcb[p].name
  BY <1>1, FindProperties DEF Found
<1> QED BY <1>2, <1>3 DEF KernelInv

(***************************************************************************)
(* show lists every process that waits, once and as itself, under the      *)
(* heading of its states, although it looks each up by name (showPCB.c).   *)
(***************************************************************************)
THEOREM ShowIsComplete == Spec => []ShowListsWaiting
<1>1. ASSUME IInv PROVE ShowListsWaiting
  <2>1. KernelInv /\ OwnQueue(pcb, queue)
    BY <1>1, InvIsKernelAndUser DEF KernelInv, GoodStore
  <2>2. ASSUME NEW q \in QueueName
        PROVE  /\ ShowQueue(q) = queue[q]
               /\ \A p \in Range(queue[q]) : p # NULL /\ QueueFor(pcb[p]) = q
    <3>1. /\ queue[q] \in Seq(1..Len(pcb)) /\ Range(queue[q]) \subseteq Queued(queue)
          /\ Len(queue[q]) \in Nat /\ DOMAIN queue[q] = 1..Len(queue[q])
          /\ Queued(queue) \subseteq 1..Len(pcb)
      BY <2>1, KernelFacts, StoreFacts
    <3>2. \A i \in DOMAIN queue[q] : queue[q][i] \in Queued(queue)
      BY <3>1 DEF Range
    <3>3. \A i \in DOMAIN queue[q] : showPCB(pcb[queue[q][i]].name) = queue[q][i]
      BY <2>1, <3>2, FoundItself DEF showPCB
    <3>4. /\ ShowQueue(q) \in Seq(1..Len(pcb)) /\ Len(ShowQueue(q)) = Len(queue[q])
          /\ \A i \in 1..Len(queue[q]) : ShowQueue(q)[i] = queue[q][i]
      BY <3>1, <3>2, <3>3 DEF ShowQueue
    <3>5. ShowQueue(q) = queue[q]
      BY <3>1, <3>4, SeqEqual
    <3>6. \A p \in Range(queue[q]) : p # NULL
      BY <3>1 DEF NULL
    <3> QED BY <2>1, <3>5, <3>6 DEF OwnQueue
  <2>3. /\ ShowQueue("ready") = queue["ready"]
        /\ ShowQueue("blocked") = queue["blocked"]
        /\ ShowQueue("suspended_ready") = queue["suspended_ready"]
        /\ ShowQueue("suspended_blocked") = queue["suspended_blocked"]
    BY <2>2 DEF QueueName
  <2>4. show_command([word |-> "all", name |-> NoName]) = showAllPCB
    BY DEF show_command
  <2>5. showAllPCB = (queue["ready"] \o queue["blocked"]) \o
                     (queue["suspended_ready"] \o queue["suspended_blocked"])
    BY <2>3 DEF showAllPCB, showReady, showBlocked, showSuspended
  <2>6. showAllPCB = SearchOrder(queue)
    <3>1. /\ queue["ready"] \in Seq(1..Len(pcb)) /\ queue["blocked"] \in Seq(1..Len(pcb))
          /\ queue["suspended_ready"] \in Seq(1..Len(pcb))
          /\ queue["suspended_blocked"] \in Seq(1..Len(pcb))
      BY <2>1, KernelFacts, StoreFacts DEF QueueName
    <3>2. queue["ready"] \o queue["blocked"] \in Seq(1..Len(pcb))
      BY <3>1, ConcatProperties
    <3>3. \A s, t, u \in Seq(1..Len(pcb)) : (s \o t) \o u = s \o (t \o u)
      BY ConcatAssociative
    <3>4. ((queue["ready"] \o queue["blocked"]) \o queue["suspended_ready"])
            \o queue["suspended_blocked"] =
          (queue["ready"] \o queue["blocked"]) \o
            (queue["suspended_ready"] \o queue["suspended_blocked"])
      BY <3>1, <3>2, <3>3, Zenon
    <3> QED BY <2>5, <3>4, Zenon DEF SearchOrder
  <2> QED BY <2>2, <2>4, <2>6 DEF ShowListsWaiting, PrintedState
<1> QED BY <1>1, Invariance, PTL

----------------------------------------------------------------------------
(***************************************************************************)
(* What the steps keep besides IInv: where kmain waits, how far the test   *)
(* processes have come, and what a process named proc is.                  *)
(***************************************************************************)
KmainWaits == curProc # NULL => sysStack.at = "kmain_off"

Resumes ==
  \A p \in Living : pcb[p].name.base = "proc" /\ cpu.at # "kmain_off" =>
    output[p] = IF p = curProc THEN cpu.i ELSE pcb[p].ctx.i

CountersInRange ==
  /\ \A p \in 1..Len(pcb) : pcb[p].ctx.at = "proc" => pcb[p].ctx.i <= pcb[p].name.n
  /\ cpu.at = "proc" => cpu.i <= pcb[curProc].name.n

TestsAreUsers ==
  \A p \in 1..Len(pcb) : pcb[p].name.base = "proc" =>
    pcb[p].process_class = "user" /\ pcb[p].name.n \in 1..R3Count

StepInv == /\ KmainWaits /\ ShutdownLeavesNoneReady /\ Resumes
           /\ CountersInRange /\ TestsAreUsers

\* Resumes is ResumesWhereItYielded.
LEMMA ResumesOfLiving == ASSUME TypeOK PROVE Resumes <=> ResumesWhereItYielded
<1>1. DOMAIN pcb = 1..Len(pcb) /\ Queued(queue) \subseteq 1..Len(pcb) /\ Len(pcb) \in Nat
  BY StoreFacts DEF TypeOK
<1>2. \A p : Alive(p) <=> p \in Living
  BY DEF Alive, Living
<1>3. Living \subseteq DOMAIN pcb
  BY <1>1 DEF Living, TypeOK, NULL
<1> QED BY <1>2, <1>3 DEF Resumes, ResumesWhereItYielded

\* Commands leave the processes and the processor where they are.
LEMMA CommandKeepsStepInv == ASSUME KernelInv, StepInv, Commanded PROVE StepInv'
<1>1. /\ cpu'.at \in ComLabels /\ SameBlocks /\ status' = "running"
      /\ UNCHANGED <<curProc, sysStack, output>>
      /\ Queued(queue') \subseteq Queued(queue)
  BY DEF Commanded, Deletes
<1>2. /\ cpu'.at \notin {"kmain_off", "proc"}
      /\ curProc # NULL => pcb[curProc].name.base # "proc"
  BY <1>1 DEF ComLabels, Commanded, KernelInv, ControlInv, CommhandName
<1>3. Living' \subseteq Living /\ Living \subseteq 1..Len(pcb)
  BY <1>1, KernelFacts DEF Living, KernelInv, NULL
<1>4. KmainWaits'
  BY <1>1 DEF StepInv, KmainWaits
<1>5. ShutdownLeavesNoneReady'
  BY <1>1, <1>2 DEF ShutdownLeavesNoneReady
<1>6. Resumes'
  <2> SUFFICES ASSUME NEW p \in Living', pcb'[p].name.base = "proc"
               PROVE  output'[p] = IF p = curProc' THEN cpu'.i ELSE pcb'[p].ctx.i
    BY DEF Resumes
  <2>1. p \in Living /\ p # NULL
    BY <1>3, KernelFacts DEF NULL
  <2>2. pcb'[p].name = pcb[p].name /\ pcb'[p].ctx = pcb[p].ctx
    BY <1>1, <1>3 DEF SameBlocks
  <2>3. p # curProc
    BY <1>2, <2>1, <2>2
  <2>4. cpu.at # "kmain_off"
    BY DEF Commanded, ComLabels
  <2> QED BY <1>1, <2>1, <2>2, <2>3, <2>4 DEF StepInv, Resumes
<1>7. CountersInRange'
  BY <1>1, <1>2 DEF StepInv, CountersInRange, SameBlocks
<1>8. TestsAreUsers'
  BY <1>1 DEF StepInv, TestsAreUsers, SameBlocks
<1> QED BY <1>4, <1>5, <1>6, <1>7, <1>8 DEF StepInv

\* A stop changes nothing else.
LEMMA StopKeepsStepInv ==
  ASSUME StepInv, NEW reason, Stop(reason), reason = "halted" => cpu.at = "kmain_off"
  PROVE  StepInv'
<1>1. UNCHANGED <<pcb, queue, curProc, cpu, sysStack, output>> /\ status' = reason
  BY DEF Stop
<1>2. ShutdownLeavesNoneReady'
  BY <1>1 DEF StepInv, ShutdownLeavesNoneReady
<1> QED BY <1>1, <1>2 DEF StepInv, KmainWaits, Resumes, Living, CountersInRange, TestsAreUsers

\* A new process has printed nothing yet.
LEMMA CreatedKeepsStepInv == ASSUME IInv, StepInv, Created PROVE StepInv'
<1>1. KernelInv /\ Len(pcb) \in Nat /\ Living \subseteq 1..Len(pcb) /\ curProc \in 0..Len(pcb)
  <2>1. KernelInv
    BY InvIsKernelAndUser
  <2> QED BY <2>1, KernelFacts DEF Living, KernelInv, NULL
<1> PICK name \in Name, class \in {"system", "user"}, priority \in 0..MaxPriority,
         label \in YieldLabels, extra \in Nat, next \in Context :
       /\ Create(name, class, priority, label, extra, next)
       /\ next.at \notin {"kmain_off", "proc"}
       /\ name.base = "proc" => class = "user" /\ name.n \in 1..R3Count
  BY DEF Created
<1>2. /\ cpu.at # "kmain_off" /\ status = "running"
      /\ curProc # NULL => pcb[curProc].name.base # "proc"
  BY DEF Created, CommhandName
<1> DEFINE new == NewPcb(name, class, priority, label)
<1>3. CASE Stop("heap_full")
  BY <1>3, StopKeepsStepInv
<1>4. CASE /\ cpu' = next /\ status' = status
           /\ UNCHANGED <<pcb, queue, output, curProc, sysStack>>
  <2>1. cpu'.at \notin {"kmain_off", "proc"}
    BY <1>4
  <2>2. KmainWaits' /\ TestsAreUsers' /\ CountersInRange'
    BY <1>4, <2>1 DEF StepInv, KmainWaits, TestsAreUsers, CountersInRange
  <2>3. ShutdownLeavesNoneReady'
    BY <1>2, <1>4, <2>1 DEF ShutdownLeavesNoneReady
  <2>4. Living' = Living
    BY <1>4 DEF Living
  <2>5. \A p \in Living : pcb[p].name.base = "proc" => p # curProc
    BY <1>1, <1>2 DEF NULL
  <2>6. Resumes'
    BY <1>2, <1>4, <2>4, <2>5 DEF StepInv, Resumes
  <2> QED BY <2>2, <2>3, <2>6 DEF StepInv
<1>5. CASE /\ cpu' = next /\ status' = status
           /\ UNCHANGED <<curProc, sysStack>>
           /\ Len(pcb') = Len(pcb) + 1
           /\ \A x \in 1..Len(pcb) : pcb'[x] = pcb[x] /\ output'[x] = output[x]
           /\ pcb'[Len(pcb) + 1] = new
           /\ output'[Len(pcb) + 1] = 0
           /\ Living' = Living \cup {Len(pcb) + 1}
  <2> DEFINE p == Len(pcb) + 1
  <2>1. cpu'.at \notin {"kmain_off", "proc"}
    BY <1>5
  <2>2. new.name = name /\ new.ctx.i = 0 /\ new.process_class = class
    BY DEF NewPcb, At
  <2> HIDE DEF new
  <2>3. /\ \A x \in 1..Len(pcb') : x \in 1..Len(pcb) \/ x = p
        /\ p # curProc /\ p \notin 1..Len(pcb)
    BY <1>1, <1>5
  <2>4. KmainWaits'
    BY <1>5 DEF StepInv, KmainWaits
  <2>5. ShutdownLeavesNoneReady'
    BY <1>2, <1>5, <2>1 DEF ShutdownLeavesNoneReady
  <2>6. pcb'[p].name = name /\ pcb'[p].process_class = class /\ pcb'[p].ctx.i = 0
    BY <1>5, <2>2
  <2>7. TestsAreUsers'
    BY <1>5, <2>3, <2>6 DEF StepInv, TestsAreUsers
  <2>8. 0 <= name.n
    BY DEF Name
  <2>9. CountersInRange'
    <3>1. pcb'[p].ctx.i <= pcb'[p].name.n
      BY <2>6, <2>8
    <3>2. \A x \in 1..Len(pcb) : pcb'[x].ctx.at = "proc" => pcb'[x].ctx.i <= pcb'[x].name.n
      BY <1>5, Zenon DEF StepInv, CountersInRange
    <3> HIDE DEF p
    <3> QED BY <2>1, <2>3, <3>1, <3>2, Zenon DEF CountersInRange
  <2>10. Resumes'
    <3>1. output'[p] = IF p = curProc' THEN cpu'.i ELSE pcb'[p].ctx.i
      BY <1>5, <2>3, <2>6
    <3>2. ASSUME NEW x \in Living, pcb'[x].name.base = "proc"
          PROVE  output'[x] = IF x = curProc' THEN cpu'.i ELSE pcb'[x].ctx.i
      <4>1. pcb'[x] = pcb[x] /\ output'[x] = output[x] /\ x # curProc
        BY <1>1, <1>2, <1>5, <3>2 DEF NULL
      <4> QED BY <1>2, <1>5, <3>2, <4>1 DEF StepInv, Resumes
    <3> QED BY <1>5, <3>1, <3>2 DEF Resumes
  <2> QED BY <2>4, <2>5, <2>7, <2>9, <2>10 DEF StepInv
<1>6. \/ Stop("heap_full")
      \/ /\ cpu' = next /\ status' = status
         /\ UNCHANGED <<pcb, queue, output, curProc, sysStack>>
      \/ /\ cpu' = next /\ status' = status
         /\ UNCHANGED <<curProc, sysStack>>
         /\ Len(pcb') = Len(pcb) + 1
         /\ \A x \in 1..Len(pcb) : pcb'[x] = pcb[x] /\ output'[x] = output[x]
         /\ pcb'[Len(pcb) + 1] = new
         /\ output'[Len(pcb) + 1] = 0
         /\ Living' = Living \cup {Len(pcb) + 1}
  BY CreateBlocks
<1> QED BY <1>3, <1>4, <1>5, <1>6

\* A yield: the caller's counter is saved with what it has printed.
LEMMA YieldKeepsStepInv == ASSUME IInv, StepInv, Yielded PROVE StepInv'
<1>1. /\ KernelInv /\ Len(pcb) \in Nat /\ Living \subseteq 1..Len(pcb)
      /\ curProc \in 0..Len(pcb) /\ Queued(queue) \subseteq Living
      /\ output \in Seq(Nat) /\ Len(output) = Len(pcb)
      /\ curProc \notin Queued(queue)
  <2>1. KernelInv /\ UserInv
    BY InvIsKernelAndUser
  <2> QED BY <2>1, KernelFacts DEF Living, KernelInv, NULL, UserInv
<1> PICK saved \in Context : /\ Idle(saved) /\ Counts(saved)
                             /\ curProc = NULL => saved.at = "kmain_off"
                             /\ curProc # NULL => saved.at \in YieldLabels
  BY DEF Yielded
<1>2. cpu.at # "kmain_off" /\ status = "running" /\ status' = status
  BY DEF Yielded
<1>3. /\ Handover /\ Len(pcb') = Len(pcb) /\ Living' = Living
      /\ sysStack' = IF curProc = NULL THEN saved ELSE sysStack
      /\ curProc = NULL => pcb' = pcb
      /\ \A x \in 1..Len(pcb) : /\ pcb'[x].name = pcb[x].name
                                /\ pcb'[x].process_class = pcb[x].process_class
                                /\ pcb'[x].dispatch_state = pcb[x].dispatch_state
                                /\ x # curProc => pcb'[x].ctx = pcb[x].ctx
      /\ curProc # NULL /\ curProc' # curProc => pcb'[curProc].ctx = saved
      /\ curProc' = curProc => cpu' = sysStack' /\ pcb' = pcb
  BY <1>1, IdleBlocks
<1>4. sysStack'.at = "kmain_off"
  BY <1>3 DEF StepInv, KmainWaits
<1>5. KmainWaits' /\ TestsAreUsers'
  BY <1>3, <1>4 DEF StepInv, KmainWaits, TestsAreUsers
<1>6. \A x \in 1..Len(pcb) : pcb[x].ctx.at \in YieldLabels
  BY <1>1 DEF KernelInv, ControlInv
<1>7. \/ queue'["ready"] = <<>> /\ cpu'.at = "kmain_off"
      \/ /\ curProc' \in Queued(queue) /\ curProc' # NULL /\ curProc' \in 1..Len(pcb)
         /\ cpu' = pcb[curProc'].ctx /\ cpu'.at # "kmain_off"
         /\ curProc' # curProc
  BY <1>1, <1>3, <1>4, <1>6 DEF Handover, YieldLabels
<1>8. ShutdownLeavesNoneReady'
  BY <1>2, <1>7 DEF ShutdownLeavesNoneReady
<1>9. \A x \in 1..Len(pcb) : x # curProc => output'[x] = output[x]
  BY <1>1 DEF Counts
<1>10. curProc # NULL /\ pcb[curProc].name.base = "proc" =>
         output'[curProc] = saved.i
  <2> SUFFICES ASSUME curProc # NULL, pcb[curProc].name.base = "proc"
               PROVE  output'[curProc] = saved.i
    OBVIOUS
  <2>1. curProc \in Living /\ curProc \in 1..Len(output)
    BY <1>1 DEF Living, NULL
  <2>2. output[curProc] = cpu.i
    BY <1>2, <2>1 DEF StepInv, Resumes
  <2>3. output[curProc] \in Nat
    BY <1>1, <2>1
  <2>4. CASE output' = output /\ saved.i = cpu.i
    BY <2>2, <2>4
  <2>5. CASE output' = [output EXCEPT ![curProc] = @ + 1] /\ saved.i = cpu.i + 1
    BY <1>1, <2>1, <2>2, <2>5
  <2> QED BY <2>4, <2>5 DEF Counts
<1>11. Resumes'
  <2> SUFFICES ASSUME NEW p \in Living, pcb'[p].name.base = "proc", cpu'.at # "kmain_off"
               PROVE  output'[p] = IF p = curProc' THEN cpu'.i ELSE pcb'[p].ctx.i
    BY <1>3 DEF Resumes
  <2>1. /\ p \in 1..Len(pcb) /\ pcb[p].name.base = "proc" /\ p # NULL
        /\ curProc' \in 1..Len(pcb) /\ cpu' = pcb[curProc'].ctx
        /\ curProc' # curProc
    BY <1>1, <1>3, <1>7 DEF NULL
  <2>2. CASE p = curProc
    BY <1>3, <1>10, <2>1, <2>2
  <2>3. CASE p # curProc
    <3>1. output[p] = pcb[p].ctx.i
      BY <1>2, <2>1, <2>3 DEF StepInv, Resumes
    <3>2. output'[p] = pcb[p].ctx.i
      BY <1>9, <2>1, <2>3, <3>1
    <3>3. CASE p = curProc'
      BY <2>1, <3>2, <3>3
    <3>4. CASE p # curProc'
      BY <1>3, <2>1, <2>3, <3>2, <3>4
    <3> QED BY <3>3, <3>4
  <2> QED BY <2>2, <2>3
<1>12. saved.at = "proc" => saved.i <= pcb[curProc].name.n
  <2> SUFFICES ASSUME saved.at = "proc" PROVE saved.i <= pcb[curProc].name.n
    OBVIOUS
  <2>1. saved.i = cpu.i + 1 /\ cpu.i < pcb[curProc].name.n /\ cpu.at = "proc"
    BY DEF Counts
  <2>2. cpu.i \in Nat
    BY <1>1 DEF KernelInv, Context
  <2>3. curProc # NULL
    BY <1>1, <2>1 DEF KernelInv, ControlInv, YieldLabels
  <2>4. pcb[curProc].name.n \in Nat
    <3>1. curProc \in 1..Len(pcb)
      BY <1>1, <2>3 DEF NULL
    <3>2. pcb[curProc] \in PcbRec
      BY <1>1, <3>1, KernelFacts
    <3> QED BY <3>2 DEF PcbRec, Name
  <2> HIDE DEF StepInv
  <2> QED BY <2>1, <2>2, <2>4
<1>13. CountersInRange'
  <2>1. ASSUME NEW p \in 1..Len(pcb), pcb'[p].ctx.at = "proc"
        PROVE  pcb'[p].ctx.i <= pcb'[p].name.n
    <3>1. CASE pcb'[p].ctx = pcb[p].ctx
      BY <1>3, <2>1, <3>1 DEF StepInv, CountersInRange
    <3>2. CASE p = curProc /\ pcb'[p].ctx = saved
      BY <1>3, <1>12, <2>1, <3>2
    <3>3. CASE p = curProc /\ curProc' = curProc
      BY <1>3, <1>7, <3>1, <3>3 DEF Handover
    <3> QED BY <1>1, <1>3, <3>1, <3>2, <3>3 DEF NULL
  <2>2. cpu'.at = "proc" => cpu'.i <= pcb'[curProc'].name.n
    BY <1>3, <1>7 DEF StepInv, CountersInRange
  <2> QED BY <1>3, <2>1, <2>2 DEF CountersInRange
<1> QED BY <1>5, <1>8, <1>11, <1>13 DEF StepInv

\* An exit: the others are as they were.
LEMMA ExitKeepsStepInv == ASSUME IInv, StepInv, Exited PROVE StepInv'
<1>1. /\ KernelInv /\ Len(pcb) \in Nat /\ Living \subseteq 1..Len(pcb)
      /\ Queued(queue) \subseteq 1..Len(pcb)
  <2>1. KernelInv
    BY InvIsKernelAndUser
  <2> QED BY <2>1, KernelFacts DEF Living, KernelInv, NULL
<1>2. /\ cpu.at # "kmain_off" /\ status = "running" /\ status' = status
      /\ curProc # NULL /\ output' = output
  BY DEF Exited, Quiet
<1>3. /\ Handover /\ pcb' = pcb /\ sysStack' = sysStack
      /\ Living' = Living \ {curProc} /\ curProc' # curProc
  BY <1>1, ExitBlocks DEF Exited
<1>4. sysStack'.at = "kmain_off"
  BY <1>2, <1>3 DEF StepInv, KmainWaits
<1>5. KmainWaits' /\ TestsAreUsers'
  BY <1>3, <1>4 DEF StepInv, KmainWaits, TestsAreUsers
<1>6. \A x \in 1..Len(pcb) : pcb[x].ctx.at \in YieldLabels
  BY <1>1 DEF KernelInv, ControlInv
<1>7. \/ queue'["ready"] = <<>> /\ cpu'.at = "kmain_off"
      \/ /\ curProc' \in 1..Len(pcb)
         /\ cpu' = pcb[curProc'].ctx /\ cpu'.at # "kmain_off"
  BY <1>1, <1>3, <1>4, <1>6 DEF Handover, YieldLabels
<1>8. ShutdownLeavesNoneReady'
  BY <1>2, <1>7 DEF ShutdownLeavesNoneReady
<1>9. Resumes'
  BY <1>2, <1>3, <1>7 DEF StepInv, Resumes
<1>10. CountersInRange'
  BY <1>3, <1>7 DEF StepInv, CountersInRange
<1> QED BY <1>5, <1>8, <1>9, <1>10 DEF StepInv

----------------------------------------------------------------------------
(***************************************************************************)
(* The two loops of load: the first counts the test processes, and behind  *)
(* the counter of the second all of them are suspended.                    *)
(***************************************************************************)
LoadInv ==
  /\ cpu.at = "com_load" => cpu.i \in 1..R3Count
  /\ cpu.at = "com_suspend" =>
       /\ cpu.i \in 1..R3Count
       /\ \A p \in Living : pcb[p].name.base = "proc" /\ pcb[p].name.n < cpu.i =>
            pcb[p].dispatch_state = "suspended"

\* The step does not end in one of the two loops, or is none.
Elsewhere == \/ cpu'.at \notin {"com_load", "com_suspend"}
             \/ UNCHANGED <<pcb, queue, curProc, cpu>>

\* suspend_pcb leaves the process of that name suspended, and those that are.
LEMMA SuspendParks ==
  ASSUME KernelInv, TestsAreUsers, NEW k, SuspendPcb(Found(ProcName(k))),
         curProc # NULL => pcb[curProc].name.base # "proc",
         NEW p \in Living, pcb[p].name.base = "proc",
         pcb[p].name.n = k \/ pcb[p].dispatch_state = "suspended"
  PROVE  pcb'[p].dispatch_state = "suspended"
<1>1. p \in Queued(queue) /\ p \in 1..Len(pcb) /\ pcb[p] \in PcbRec
      /\ DOMAIN pcb = 1..Len(pcb) /\ p # NULL
  BY KernelFacts DEF Living, NULL
<1>2. pcb[p].process_class = "user" /\ pcb[p].dispatch_state \in {"active", "suspended"}
  BY <1>1 DEF TestsAreUsers, PcbRec
<1>3. CASE Found(ProcName(k)) = p
  <2>1. CASE pcb[p].dispatch_state = "active"
    <3>1. Requeue(p, [pcb[p] EXCEPT !.dispatch_state = "suspended"])
      BY <1>1, <1>2, <1>3, <2>1 DEF SuspendPcb
    <3>2. pcb' = [pcb EXCEPT ![p] = [pcb[p] EXCEPT !.dispatch_state = "suspended"]]
      BY <3>1 DEF Requeue
    <3>3. [pcb[p] EXCEPT !.dispatch_state = "suspended"].dispatch_state = "suspended"
      BY <1>1 DEF PcbRec
    <3> QED BY <1>1, <3>2, <3>3
  <2>2. CASE pcb[p].dispatch_state = "suspended"
    BY <1>3, <2>2 DEF SuspendPcb
  <2> QED BY <1>2, <2>1, <2>2
<1>4. CASE Found(ProcName(k)) # p
  <2>1. pcb[p].name # ProcName(k)
    BY <1>1, <1>4, FoundItself
  <2>2. pcb[p].name.n # k
    BY <1>1, <2>1 DEF ProcName, PcbRec, Name
  <2>3. pcb'[p] = pcb[p]
    BY <1>1, <1>4 DEF SuspendPcb, Requeue
  <2> QED BY <2>2, <2>3
<1> QED BY <1>3, <1>4

\* Commands that end at the prompt or the walk of resume all.
LEMMA PromptIsElsewhere ==
  ASSUME \/ ComStart \/ ComNone \/ ComBlock \/ ComUnblock \/ ComSuspendOne \/ ComResumeOne
         \/ ComResumeAll \/ ComResumeNext \/ ComPriority \/ ComDelete \/ ConfirmNo
  PROVE  Elsewhere
<1>1. At("com_read").at = "com_read"
  BY AtType DEF Label
<1>2. \A n : ResumeLoop(n) => cpu'.at \in {"com_read", "com_resume"}
  BY <1>1 DEF ResumeLoop
<1>3. ToRead => cpu'.at = "com_read"
  BY <1>1 DEF ToRead
<1>4. CASE \/ ComStart \/ ComNone \/ ComSuspendOne \/ ComResumeOne
           \/ ComPriority \/ ComDelete \/ ConfirmNo
  BY <1>3, <1>4 DEF ComStart, ComNone, ComSuspendOne, ComResumeOne, ComPriority, ComDelete,
                    ConfirmNo, QueueCommand, Elsewhere
<1>5. CASE ComResumeAll \/ ComResumeNext
  BY <1>2, <1>5 DEF ComResumeAll, ComResumeNext, Elsewhere
<1>6. CASE ComBlock \/ ComUnblock
  BY <1>3, <1>6 DEF ComBlock, ComUnblock, BlockPcb, Stop, QueueCommand, Elsewhere
<1> QED BY <1>4, <1>5, <1>6

\* What creates one process, and kmain.
LEMMA CreationIsElsewhere ==
  ASSUME ComLoadOne \/ ComAlarm \/ KmainCommhand \/ KmainIdle \/ KmainOff
  PROVE  Elsewhere
<1>1. /\ At("com_read").at = "com_read" /\ At("kmain_idle").at = "kmain_idle"
      /\ At("kmain_run").at = "kmain_run"
  BY AtType DEF Label
<1>2. ASSUME NEW name, NEW class, NEW priority, NEW label, NEW extra, NEW next,
             Create(name, class, priority, label, extra, next),
             next.at \notin {"com_load", "com_suspend"}
      PROVE  Elsewhere
  BY <1>2 DEF Create, Stop, Elsewhere
<1>3. CASE ComLoadOne
  BY <1>1, <1>2, <1>3 DEF ComLoadOne, LoadOne, QueueCommand, ToRead, Elsewhere
<1>4. CASE ComAlarm \/ KmainCommhand \/ KmainIdle
  BY <1>1, <1>2, <1>4 DEF ComAlarm, KmainCommhand, KmainIdle
<1>5. CASE KmainOff
  BY <1>5 DEF KmainOff, Stop, Elsewhere
<1> QED BY <1>3, <1>4, <1>5

\* After a yield or an exit a process resumes where processes yield.
LEMMA SwitchIsElsewhere ==
  ASSUME KernelInv, KmainWaits, Yielded \/ Exited
  PROVE  Elsewhere
<1>1. \A x \in Queued(queue) : pcb[x].ctx.at \in YieldLabels
  BY KernelFacts DEF KernelInv, ControlInv
<1>2. ASSUME Handover, sysStack'.at = "kmain_off" PROVE Elsewhere
  BY <1>1, <1>2 DEF Handover, Elsewhere, YieldLabels
<1>3. CASE Yielded
  <2> PICK saved \in Context : Idle(saved) /\ (curProc = NULL => saved.at = "kmain_off")
    BY <1>3 DEF Yielded
  <2>1. Handover /\ sysStack' = IF curProc = NULL THEN saved ELSE sysStack
    BY IdleBlocks
  <2> QED BY <1>2, <2>1 DEF KmainWaits
<1>4. CASE Exited
  <2>1. Handover /\ sysStack' = sysStack /\ curProc # NULL
    BY <1>4, ExitBlocks DEF Exited
  <2> QED BY <1>2, <2>1 DEF KmainWaits
<1> QED BY <1>3, <1>4

\* exit and shutdown, confirmed or not.
LEMMA LeavingIsElsewhere ==
  ASSUME KernelInv, KmainWaits, ComLeave \/ ConfirmYes
  PROVE  Elsewhere
<1>1. CASE ComLeave /\ cpu' = [cpu EXCEPT !.at = "com_confirm"]
  BY <1>1 DEF KernelInv, Context, Elsewhere
<1>2. CASE Leave(cpu.line.op)
  <2>1. status = "running" /\ cpu.at \in {"com_exec", "com_confirm"}
    BY DEF ComLeave, ConfirmYes, Doing, Running
  <2>2. curProc # NULL /\ cpu.at # "kmain_off"
    BY <2>1 DEF KernelInv, ControlInv, ComLabels
  <2>3. Exited \/ Stop("bad_return")
    BY <1>2, <2>1, <2>2 DEF Leave, Exited, MayExit
  <2> QED BY <2>3, SwitchIsElsewhere DEF Stop, Elsewhere
<1> QED BY <1>1, <1>2 DEF ComLeave, ConfirmYes

\* Only load goes on in its loops.
LEMMA LoopSteps ==
  ASSUME IInv, StepInv, [Next]_vars
  PROVE  Elsewhere \/ ComLoadAll \/ ComLoadNext \/ ComSuspendNext
<1>1. KernelInv /\ KmainWaits
  BY InvIsKernelAndUser DEF StepInv
<1>2. UNCHANGED vars => Elsewhere
  BY DEF vars, Elsewhere
<1>3. CASE UserTypes \/ Process
  BY <1>1, <1>3, TypingBlocks, ProcessBlocks, SwitchIsElsewhere
<1>4. CASE Kmain
  <2>1. CASE KmainRun
    <3>1. Yielded
      <4>1. /\ status = "running" /\ cpu.at = "kmain_run" /\ curProc = NULL
            /\ Idle(At("kmain_off")) /\ output' = output /\ status' = status
        BY <1>1, <2>1 DEF KmainRun, Running, KernelInv, ControlInv, BootLabels, Quiet
      <4>2. At("kmain_off") \in Context /\ At("kmain_off").at = "kmain_off"
        BY AtType DEF Label
      <4>3. Counts(At("kmain_off"))
        BY <4>1, <4>2 DEF Counts
      <4> QED BY <4>1, <4>2, <4>3 DEF Yielded
    <3> QED BY <1>1, <3>1, SwitchIsElsewhere
  <2> QED BY <1>4, <2>1, CreationIsElsewhere DEF Kmain
<1> QED BY <1>1, <1>2, <1>3, <1>4, PromptIsElsewhere, CreationIsElsewhere, LeavingIsElsewhere
        DEF Next, ComCommand, Stopped

\* The loops stay in range and leave suspended processes behind them.
LEMMA LoopsKeepLoadInv ==
  ASSUME IInv, StepInv, StepInv', LoadInv, [Next]_vars
  PROVE  LoadInv'
<1>1. /\ KernelInv /\ TestsAreUsers /\ TestsAreUsers' /\ cpu \in Context /\ cpu.i \in Nat
      /\ Living \subseteq 1..Len(pcb)
  <2>1. KernelInv
    BY InvIsKernelAndUser
  <2> QED BY <2>1, KernelFacts DEF StepInv, KernelInv, Context, Living, NULL
<1>2. R3Count \in Nat /\ 1 \in 1..R3Count
  BY PcbAssumption, MpxAssumption
<1>3. CASE Elsewhere
  BY <1>3 DEF Elsewhere, LoadInv, Living
<1>4. [cpu EXCEPT !.at = "com_load", !.i = 1].at = "com_load"
      /\ [cpu EXCEPT !.at = "com_load", !.i = 1].i = 1
      /\ [cpu EXCEPT !.at = "com_suspend", !.i = 1].at = "com_suspend"
      /\ [cpu EXCEPT !.at = "com_suspend", !.i = 1].i = 1
      /\ [cpu EXCEPT !.i = @ + 1].at = cpu.at
      /\ [cpu EXCEPT !.i = @ + 1].i = cpu.i + 1
  BY <1>1 DEF Context
<1>5. At("com_read").at = "com_read"
  BY AtType DEF Label
<1>6. CASE ComLoadAll
  BY <1>2, <1>4, <1>6 DEF ComLoadAll, LoadInv
<1>7. CASE ComLoadNext
  <2>1. cpu.at = "com_load"
    BY <1>7 DEF ComLoadNext, Running
  <2>2. cpu.i \in 1..R3Count
    BY <2>1 DEF LoadInv
  <2>3. CASE Stop("heap_full")
    BY <2>1, <2>2, <2>3 DEF Stop, LoadInv
  <2>4. CASE cpu' = AfterLoad
    <3>1. CASE cpu.i < R3Count /\ cpu' = [cpu EXCEPT !.i = @ + 1]
      <4>1. cpu.i + 1 \in 1..R3Count
        BY <1>2, <2>2, <3>1
      <4> QED BY <1>4, <2>1, <3>1, <4>1 DEF LoadInv
    <3>2. CASE cpu' = [cpu EXCEPT !.at = "com_suspend", !.i = 1]
      <4>1. cpu'.at = "com_suspend" /\ cpu'.i = 1
        BY <1>4, <3>2
      <4>2. Living' \subseteq 1..Len(pcb')
        <5>1. IInv'
          BY NextKeepsInv
        <5>2. TypeOK'
          BY <5>1 DEF IInv
        <5>3. Queued(queue') \subseteq 1..Len(pcb') /\ Len(pcb') \in Nat
          BY <5>2, StoreFacts DEF TypeOK
        <5> QED BY <5>2, <5>3 DEF Living, TypeOK, NULL
      <4>3. ASSUME NEW p \in Living', pcb'[p].name.base = "proc"
            PROVE  ~(pcb'[p].name.n < 1)
        <5>1. pcb'[p].name.n \in 1..R3Count
          BY <1>1, <4>2, <4>3 DEF TestsAreUsers
        <5> QED BY <1>2, <5>1
      <4> QED BY <1>2, <4>1, <4>3 DEF LoadInv
    <3>3. CASE cpu' = At("com_read")
      BY <1>5, <3>3 DEF LoadInv
    <3> QED BY <2>4, <3>1, <3>2, <3>3 DEF AfterLoad
  <2> QED BY <1>7, <2>3, <2>4 DEF ComLoadNext, LoadOne, Create
<1>8. CASE ComSuspendNext
  <2>1. /\ cpu.at = "com_suspend" /\ SuspendPcb(Found(ProcName(cpu.i)))
        /\ curProc' = curProc
    BY <1>8 DEF ComSuspendNext, Running
  <2>2. cpu.i \in 1..R3Count
    BY <2>1 DEF LoadInv
  <2>3. \A p \in Living : pcb[p].name.base = "proc" /\ pcb[p].name.n < cpu.i =>
          pcb[p].dispatch_state = "suspended"
    BY <2>1 DEF LoadInv
  <2>4. curProc # NULL => pcb[curProc].name.base # "proc"
    BY <1>1, <2>1 DEF KernelInv, ControlInv, ComLabels, CommhandName
  <2>5. CASE cpu' = At("com_read")
    BY <1>5, <2>5 DEF LoadInv
  <2>6. CASE cpu.i < R3Count /\ cpu' = [cpu EXCEPT !.i = @ + 1]
    <3>1. cpu.i + 1 \in 1..R3Count
      BY <1>2, <2>2, <2>6
    <3>2. cpu'.at = "com_suspend" /\ cpu'.i = cpu.i + 1
      BY <1>4, <2>1, <2>6
    <3>3. SameBlocks /\ Queued(queue') = Queued(queue)
      BY <1>1, <2>1, SuspendBlocks
    <3>4. Living' = Living
      BY <2>1, <3>3 DEF Living
    <3>5. ASSUME NEW p \in Living, pcb'[p].name.base = "proc", pcb'[p].name.n < cpu.i + 1
          PROVE  pcb'[p].dispatch_state = "suspended"
      <4>1. pcb'[p].name = pcb[p].name
        BY <1>1, <3>3 DEF SameBlocks
      <4>2. pcb[p].name.n \in 1..R3Count
        BY <1>1, <3>5, <4>1 DEF TestsAreUsers
      <4>3. pcb[p].name.n < cpu.i \/ pcb[p].name.n = cpu.i
        BY <1>1, <1>2, <3>5, <4>1, <4>2
      <4>4. pcb[p].name.n = cpu.i \/ pcb[p].dispatch_state = "suspended"
        BY <2>3, <3>5, <4>1, <4>3
      <4> QED BY <1>1, <2>1, <2>4, <3>5, <4>1, <4>4, SuspendParks
    <3> QED BY <3>1, <3>2, <3>4, <3>5 DEF LoadInv
  <2> QED BY <1>8, <2>5, <2>6 DEF ComSuspendNext
<1> QED BY <1>3, <1>6, <1>7, <1>8, LoopSteps

(***************************************************************************)
(* The second invariant, over the first: where kmain waits, how far the    *)
(* test processes have come and what the loops of load have done.          *)
(***************************************************************************)
FullInv == IInv /\ StepInv /\ LoadInv

\* It holds at the start.
LEMMA InitEstablishesFullInv == Init => FullInv
<1> SUFFICES ASSUME Init PROVE FullInv
  OBVIOUS
<1>1. IInv
  BY InitEstablishesInv
<1>2. /\ pcb = <<>> /\ curProc = NULL /\ Len(pcb) = 0 /\ cpu.at = "kmain_commhand"
      /\ queue["ready"] = <<>>
  BY AtType DEF Init, Label, EmptyQueues, QueueName
<1>3. Living = {}
  BY <1>1, <1>2, InvIsKernelAndUser, KernelFacts DEF Living
<1> QED BY <1>1, <1>2, <1>3 DEF FullInv, StepInv, LoadInv, KmainWaits, Resumes,
        ShutdownLeavesNoneReady, CountersInRange, TestsAreUsers

\* Every step keeps it, and is of one of the kinds.
LEMMA NextKeepsFullInv ==
  ASSUME FullInv, [Next]_vars
  PROVE  /\ FullInv'
         /\ Commanded \/ Created \/ Yielded \/ Exited \/ Halted \/ UNCHANGED vars
<1>1. IInv /\ StepInv /\ LoadInv /\ IInv' /\ KernelInv
  BY NextKeepsInv, InvIsKernelAndUser DEF FullInv
<1>2. Commanded \/ Created \/ Yielded \/ Exited \/ Halted \/ UNCHANGED vars
  BY <1>1, StepKinds DEF LoadInv
<1>3. ASSUME Halted PROVE StepInv'
  <2> PICK reason \in Status : Stop(reason) /\ (reason = "halted" => cpu.at = "kmain_off")
    BY <1>3 DEF Halted
  <2> QED BY <1>1, StopKeepsStepInv
<1>4. ASSUME UNCHANGED vars PROVE StepInv'
  BY <1>1, <1>4 DEF vars, StepInv, KmainWaits, ShutdownLeavesNoneReady, Resumes, Living,
                    CountersInRange, TestsAreUsers
<1>5. StepInv'
  BY <1>1, <1>2, <1>3, <1>4, CommandKeepsStepInv, CreatedKeepsStepInv, YieldKeepsStepInv,
     ExitKeepsStepInv
<1> QED BY <1>1, <1>2, <1>5, LoopsKeepLoadInv DEF FullInv

(***************************************************************************)
(* The second invariant holds in every state the system reaches.           *)
(***************************************************************************)
THEOREM FullInvariance == Spec => []FullInv
<1>1. FullInv /\ [Next]_vars => FullInv'
  BY NextKeepsFullInv
<1> QED BY <1>1, InitEstablishesFullInv, PTL DEF Spec

(***************************************************************************)
(* kmain resumes, and the machine powers off, only when the ready queue is *)
(* empty (sys_call.c, kmain.c).                                            *)
(***************************************************************************)
THEOREM ShutdownIsLast == Spec => []ShutdownLeavesNoneReady
<1>1. FullInv => ShutdownLeavesNoneReady
  BY DEF FullInv, StepInv
<1> QED BY <1>1, FullInvariance, PTL

(***************************************************************************)
(* A test process resumes with the counter of the line it printed last:    *)
(* no line is repeated or left out (sys_call.c saves and restores the      *)
(* context through the block of the caller and of the next process).       *)
(***************************************************************************)
THEOREM ResumesInPlace == Spec => []ResumesWhereItYielded
<1>1. FullInv => ResumesWhereItYielded
  BY ResumesOfLiving DEF FullInv, StepInv, IInv
<1> QED BY <1>1, FullInvariance, PTL

\* Alive is Living.
LEMMA AliveIsLiving == \A p : Alive(p) <=> p \in Living
  BY DEF Alive, Living

\* After a step too.
LEMMA AliveIsLivingNext == \A p : Alive(p)' <=> p \in Living'
  BY DEF Alive, Living

(***************************************************************************)
(* Processes end only where their programs exit or delete names them: no   *)
(* command, yield or switch loses one.                                     *)
(***************************************************************************)
THEOREM NobodyIsLost == Spec => NoneLost
<1> DEFINE Kept == \A p \in DOMAIN pcb :
              Alive(p) /\ ~Alive(p)' =>
                \/ p = curProc /\ AtExit
                \/ /\ Doing("delete")
                   /\ pcb[p].name = cpu.line.name
                   /\ pcb[p].process_class = "user"
<1>1. FullInv /\ [Next]_vars => [Kept]_vars
  <2> SUFFICES ASSUME FullInv, [Next]_vars, NEW p \in Living, p \notin Living'
               PROVE  \/ p = curProc /\ AtExit
                      \/ /\ Doing("delete")
                         /\ pcb[p].name = cpu.line.name
                         /\ pcb[p].process_class = "user"
    BY AliveIsLiving, AliveIsLivingNext
  <2>1. IInv /\ KernelInv /\ CountersInRange /\ curProc \notin Queued(queue)
    BY InvIsKernelAndUser DEF FullInv, StepInv, KernelInv
  <2>2. Commanded \/ Created \/ Yielded \/ Exited \/ Halted \/ UNCHANGED vars
    BY NextKeepsFullInv
  <2>3. CASE Commanded
    BY <2>1, <2>3 DEF Commanded, Deletes, Living
  <2>4. ~Created
    <3> SUFFICES ASSUME Created PROVE Living \subseteq Living'
      OBVIOUS
    <3> PICK name \in Name, class \in {"system", "user"}, priority \in 0..MaxPriority,
             label \in YieldLabels, extra \in Nat, next \in Context :
           Create(name, class, priority, label, extra, next)
      BY DEF Created
    <3> QED BY <2>1, CreateBlocks DEF Stop, Living
  <2>5. ~Yielded
    BY <2>1, IdleBlocks DEF Yielded
  <2>6. ~Halted /\ ~UNCHANGED vars
    BY DEF Halted, Stop, vars, Living
  <2>7. CASE Exited
    <3>1. p = curProc /\ MayExit
      BY <2>1, <2>7, ExitBlocks DEF Exited
    <3>2. cpu.at = "proc" /\ cpu.i >= pcb[curProc].name.n => cpu.i = Iterations
      <4> SUFFICES ASSUME cpu.at = "proc", cpu.i >= pcb[curProc].name.n
                   PROVE  cpu.i = pcb[curProc].name.n
        BY DEF Iterations
      <4>1. cpu.i <= pcb[curProc].name.n
        BY <2>1 DEF CountersInRange
      <4>2. cpu.i \in Nat
        BY <2>1 DEF KernelInv, Context
      <4>3. pcb[curProc].name.n \in Nat
        <5>1. curProc \in 1..Len(pcb)
          BY <2>1, <2>7 DEF Exited, KernelInv, NULL
        <5>2. pcb[curProc] \in PcbRec
          BY <2>1, <5>1, KernelFacts
        <5> QED BY <5>2 DEF PcbRec, Name
      <4> QED BY <4>1, <4>2, <4>3
    <3> QED BY <3>1, <3>2 DEF MayExit, AtExit
  <2> QED BY <2>2, <2>3, <2>4, <2>5, <2>6, <2>7
<1>2. Spec => [][Kept]_vars
  BY <1>1, FullInvariance, PTL DEF Spec
<1> QED BY <1>2 DEF NoneLost

(***************************************************************************)
(* "load suspended" leaves every test process that exists suspended, the   *)
(* ones that were there before included (user/core.c).                     *)
(***************************************************************************)
THEOREM LoadSuspendedIsComplete == Spec => LoadSuspendedParks
<1> DEFINE Parks == cpu.at = "com_suspend" /\ cpu'.at = "com_read" =>
              \A p \in DOMAIN pcb :
                Alive(p) /\ pcb[p].name.base = "proc" =>
                  pcb'[p].dispatch_state = "suspended"
<1>1. FullInv /\ [Next]_vars => [Parks]_vars
  <2> SUFFICES ASSUME FullInv, [Next]_vars, cpu.at = "com_suspend", cpu'.at = "com_read",
                      NEW p \in Living, pcb[p].name.base = "proc"
               PROVE  pcb'[p].dispatch_state = "suspended"
    BY AliveIsLiving
  <2>1. KernelInv /\ TestsAreUsers /\ LoadInv /\ cpu \in Context /\ cpu.i \in Nat
    BY InvIsKernelAndUser DEF FullInv, StepInv, KernelInv, Context
  <2>2. ComSuspendNext
    BY DEF Next, vars, Kmain, KmainCommhand, KmainIdle, KmainRun, KmainOff,
           ComStart, UserTypes, ComRead, ComCommand, ComNone, ComBlock, ComUnblock,
           BlockPcb, ComSuspendOne, ComResumeOne, ComResumeAll, ComResumeNext, ComPriority,
           ComDelete, ComLoadOne, ComLoadAll, ComLoadNext, ComAlarm, ComLeave,
           ConfirmYes, ConfirmNo, Process, ProcIterate, ProcExit, IdleProcess,
           AlarmWait, AlarmRing, Stopped, Doing, Running
  <2>3. SuspendPcb(Found(ProcName(cpu.i)))
    BY <2>2 DEF ComSuspendNext
  <2>4. R3Count \in Nat /\ cpu.i \in 1..R3Count
    BY <2>1, PcbAssumption DEF LoadInv
  <2>5. ~(cpu.i < R3Count)
    <3>1. cpu' = IF cpu.i < R3Count THEN [cpu EXCEPT !.i = @ + 1] ELSE At("com_read")
      BY <2>2 DEF ComSuspendNext
    <3>2. [cpu EXCEPT !.i = @ + 1].at = "com_suspend"
      BY <2>1 DEF Context
    <3> QED BY <3>1, <3>2
  <2>6. pcb[p].name.n \in 1..R3Count
    <3>1. p \in 1..Len(pcb)
      BY <2>1, KernelFacts DEF Living, KernelInv, NULL
    <3> QED BY <2>1, <3>1 DEF TestsAreUsers
  <2>7. pcb[p].name.n < cpu.i \/ pcb[p].name.n = cpu.i
    BY <2>4, <2>5, <2>6
  <2>8. pcb[p].name.n = cpu.i \/ pcb[p].dispatch_state = "suspended"
    BY <2>1, <2>7 DEF LoadInv
  <2>9. curProc # NULL => pcb[curProc].name.base # "proc"
    BY <2>1 DEF KernelInv, ControlInv, ComLabels, CommhandName
  <2> QED BY <2>1, <2>3, <2>8, <2>9, SuspendParks
<1>2. Spec => [][Parks]_vars
  BY <1>1, FullInvariance, PTL DEF Spec
<1> QED BY <1>2 DEF LoadSuspendedParks

----------------------------------------------------------------------------
(***************************************************************************)
(* First in, first out among equals.                                       *)
(***************************************************************************)
Ordered(s, p, q) == \E i, j \in DOMAIN s : i < j /\ s[i] = p /\ s[j] = q

\* A block that is linked in changes the order of no others.
LEMMA InsertKeepsOrder ==
  ASSUME NEW S, NEW s \in Seq(S), NEW m \in 1..Len(s) + 1, NEW x \in S,
         NEW p, NEW q, Ordered(s, p, q)
  PROVE  Ordered(InsertAt(s, m, x), p, q)
<1>1. Len(s) \in Nat /\ DOMAIN s = 1..Len(s)
  BY LenProperties
<1>2. /\ InsertAt(s, m, x) \in Seq(S) /\ Len(InsertAt(s, m, x)) = Len(s) + 1
      /\ \A j \in 1..Len(s) + 1 :
           InsertAt(s, m, x)[j] = IF j < m THEN s[j] ELSE IF j = m THEN x ELSE s[j - 1]
  BY ONLY InsertAtProperties, s \in Seq(S), m \in 1..Len(s) + 1, x \in S
<1> DEFINE t == InsertAt(s, m, x)
           new(i) == IF i < m THEN i ELSE i + 1
<1> HIDE DEF t
<1>3. DOMAIN t = 1..Len(s) + 1
  BY <1>1, <1>2, LenProperties DEF t
<1>4. PICK i \in 1..Len(s), j \in 1..Len(s) : i < j /\ s[i] = p /\ s[j] = q
  BY <1>1 DEF Ordered
<1>5. /\ new(i) \in 1..Len(s) + 1 /\ new(j) \in 1..Len(s) + 1 /\ new(i) < new(j)
      /\ t[new(i)] = s[i] /\ t[new(j)] = s[j]
  BY <1>1, <1>2, <1>4, SMTT(60) DEF t
<1> HIDE DEF new
<1> QED BY <1>3, <1>4, <1>5 DEF Ordered, t

\* It stands behind those before its position.
LEMMA InsertIsBehind ==
  ASSUME NEW S, NEW s \in Seq(S), NEW m \in 1..Len(s) + 1, NEW x \in S,
         NEW i \in 1..Len(s), i < m
  PROVE  Ordered(InsertAt(s, m, x), s[i], x)
<1>1. Len(s) \in Nat
  BY LenProperties
<1>2. /\ InsertAt(s, m, x) \in Seq(S) /\ Len(InsertAt(s, m, x)) = Len(s) + 1
      /\ \A j \in 1..Len(s) + 1 :
           InsertAt(s, m, x)[j] = IF j < m THEN s[j] ELSE IF j = m THEN x ELSE s[j - 1]
  BY ONLY InsertAtProperties, s \in Seq(S), m \in 1..Len(s) + 1, x \in S
<1> DEFINE t == InsertAt(s, m, x)
<1> HIDE DEF t
<1>3. DOMAIN t = 1..Len(s) + 1
  BY <1>1, <1>2, LenProperties DEF t
<1>4. i \in 1..Len(s) + 1 /\ t[i] = s[i] /\ t[m] = x
  BY <1>1, <1>2 DEF t
<1> QED BY <1>3, <1>4 DEF Ordered, t

\* Nor does a block that is taken out.
LEMMA RemoveKeepsOrder ==
  ASSUME NEW S, NEW s \in Seq(S), NEW m \in 1..Len(s),
         NEW p, NEW q, Ordered(s, p, q), p # s[m], q # s[m]
  PROVE  Ordered(RemoveAt(s, m), p, q)
<1> DEFINE t == RemoveAt(s, m)
           new(i) == IF i < m THEN i ELSE i - 1
<1>1. Len(s) \in Nat /\ DOMAIN s = 1..Len(s)
  BY LenProperties
<1>2. /\ t \in Seq(S) /\ Len(t) = Len(s) - 1
      /\ \A j \in 1..Len(s) - 1 : t[j] = IF j < m THEN s[j] ELSE s[j + 1]
  BY RemoveAtProperties, SMTT(90)
<1> HIDE DEF t
<1>3. DOMAIN t = 1..Len(s) - 1
  BY <1>1, <1>2, LenProperties
<1>4. PICK i \in 1..Len(s), j \in 1..Len(s) : i < j /\ s[i] = p /\ s[j] = q
  BY <1>1 DEF Ordered
<1>5. i # m /\ j # m
  BY <1>4
<1>6. /\ new(i) \in 1..Len(s) - 1 /\ new(j) \in 1..Len(s) - 1 /\ new(i) < new(j)
      /\ t[new(i)] = s[i] /\ t[new(j)] = s[j]
  BY <1>1, <1>2, <1>4, <1>5
<1> HIDE DEF new
<1> QED BY <1>3, <1>4, <1>6 DEF Ordered, t

(***************************************************************************)
(* pcb_insert puts a ready block behind those of its priority or a better  *)
(* one, and leaves the others in their order.                              *)
(***************************************************************************)
LEMMA EnqueueKeepsOrder ==
  ASSUME NEW P, NEW Q, GoodStore(P, Q), NEW x \in 1..Len(P), x \notin Queued(Q)
  PROVE  LET s == Q["ready"]
             t == Enqueue(P, Q, x)["ready"]
         IN  /\ \A p, q : Ordered(s, p, q) => Ordered(t, p, q)
             /\ Range(t) \subseteq Range(s) \cup {x} /\ Range(s) \subseteq Range(t)
             /\ x \in Range(t) =>
                  /\ QueueFor(P[x]) = "ready"
                  /\ \A p \in Range(s) :
                       P[p].priority = P[x].priority => Ordered(t, p, x)
<1> DEFINE s == Q["ready"]
           m == ReadyPosition(P, s, x)
           t == Enqueue(P, Q, x)["ready"]
<1>1. /\ P \in Seq(PcbRec) /\ s \in Seq(1..Len(P)) /\ Len(s) \in Nat
      /\ DOMAIN s = 1..Len(s) /\ Range(s) \subseteq Queued(Q) /\ "ready" \in QueueName
      /\ Ascending(P, s) /\ IsInjective(s)
  BY StoreFacts DEF GoodStore, StoreType, OwnQueue, QueueName
<1>2. CASE QueueFor(P[x]) # "ready"
  <2>1. t = s
    BY <1>2 DEF Enqueue, GoodStore, StoreType, QueueName
  <2> QED BY <1>1, <2>1
<1>3. CASE QueueFor(P[x]) = "ready"
  <2>1. t = InsertAt(s, m, x)
    BY <1>3 DEF Enqueue, InsertPosition, GoodStore, StoreType, QueueName
  <2>2. /\ m \in 1..Len(s) + 1
        /\ \A i \in 1..Len(s) :
             /\ P[s[i]].priority \in Nat /\ P[x].priority \in Nat
             /\ i >= m => P[s[i]].priority > P[x].priority
    <3> DEFINE S == 1..Len(P)
    <3>1. s \in Seq(S) /\ x \in S /\ \A y \in S : P[y].priority \in Nat
      BY <1>1, GoodStoreFacts
    <3> HIDE DEF S
    <3> QED BY <1>1, <3>1, ReadyPositionProperties
  <2> HIDE DEF m, s, t
  <2>3. \A p, q : Ordered(s, p, q) => Ordered(t, p, q)
    BY <1>1, <2>1, <2>2, InsertKeepsOrder
  <2>4. Range(t) = Range(s) \cup {x}
    <3>1. x \notin Range(s)
      BY <1>1
    <3> QED BY <1>1, <2>1, <2>2, <3>1, InsertAtKeepsInjective
  <2>5. ASSUME NEW p \in Range(s), P[p].priority = P[x].priority
        PROVE  Ordered(t, p, x)
    <3>1. PICK i \in 1..Len(s) : s[i] = p
      BY <1>1 DEF Range
    <3>2. i < m
      BY <1>1, <2>2, <2>5, <3>1
    <3>3. Ordered(InsertAt(s, m, x), s[i], x)
      BY <1>1, <2>2, <3>2, InsertIsBehind
    <3> QED BY <2>1, <3>1, <3>3
  <2> QED BY <1>3, <2>3, <2>4, <2>5 DEF s, t
<1> QED BY <1>2, <1>3

\* pcb_remove leaves the other ready blocks in their order.
LEMMA DequeueKeepsOrder ==
  ASSUME NEW P, NEW Q, GoodStore(P, Q), NEW x \in Queued(Q)
  PROVE  LET s == Q["ready"]
             t == Dequeue(P, Q, x)["ready"]
         IN  /\ \A p, q : p # x /\ q # x /\ Ordered(s, p, q) => Ordered(t, p, q)
             /\ Range(t) = Range(s) \ {x}
             /\ x \in Range(s) => QueueFor(P[x]) = "ready"
<1> DEFINE s == Q["ready"]
           m == PositionOf(s, x)
           t == Dequeue(P, Q, x)["ready"]
<1>1. /\ P \in Seq(PcbRec) /\ s \in Seq(1..Len(P)) /\ Len(s) \in Nat
      /\ DOMAIN s = 1..Len(s) /\ "ready" \in QueueName /\ IsInjective(s)
      /\ \A q \in QueueName : \A p \in Range(Q[q]) : QueueFor(P[p]) = q
  BY StoreFacts DEF GoodStore, StoreType, OwnQueue, QueueName
<1>2. x \in Range(s) <=> QueueFor(P[x]) = "ready"
  <2>1. PICK q \in QueueName : x \in Range(Q[q])
    BY DEF Queued
  <2> QED BY <1>1, <2>1
<1>3. CASE QueueFor(P[x]) # "ready"
  <2>1. t = s
    BY <1>3 DEF Dequeue, GoodStore, StoreType, QueueName
  <2> QED BY <1>2, <1>3, <2>1
<1>4. CASE QueueFor(P[x]) = "ready"
  <2>1. t = RemoveAt(s, m)
    BY <1>2, <1>4 DEF Dequeue, Unlink, GoodStore, StoreType, QueueName
  <2>2. m \in 1..Len(s) /\ s[m] = x
    BY <1>1, <1>2, <1>4 DEF PositionOf, Range
  <2> HIDE DEF m, s, t
  <2>3. \A p, q : p # x /\ q # x /\ Ordered(s, p, q) => Ordered(t, p, q)
    BY <1>1, <2>1, <2>2, RemoveKeepsOrder
  <2>4. Range(t) = Range(s) \ {x}
    BY <1>1, <2>1, <2>2, RemoveAtKeepsInjective
  <2> QED BY <1>4, <2>3, <2>4 DEF s, t
<1> QED BY <1>3, <1>4

\* What FifoAmongEquals says of a step.
Fifo ==
  \A p \in Range(queue["ready"]) \cap Range(queue'["ready"]), q \in Range(queue'["ready"]) :
    /\ p # q /\ pcb'[p].priority = pcb'[q].priority
    /\ q \in Range(queue["ready"]) => Ordered(queue["ready"], p, q)
    => Ordered(queue'["ready"], p, q)

\* A block that does not go from ready to ready.
LEMMA RequeueIsFifo ==
  ASSUME KernelInv, NEW x \in Queued(queue), NEW r \in PcbRec, Requeue(x, r),
         ~(QueueFor(pcb[x]) = "ready" /\ QueueFor(r) = "ready")
  PROVE  Fifo
<1> DEFINE without == Dequeue(pcb, queue, x)
           changed == [pcb EXCEPT ![x] = r]
           s == queue["ready"]
           t == without["ready"]
           u == queue'["ready"]
<1>1. /\ GoodStore(pcb, queue) /\ x \in 1..Len(pcb) /\ DOMAIN pcb = 1..Len(pcb)
  BY KernelFacts DEF KernelInv
<1>2. /\ \A p, q : p # x /\ q # x /\ Ordered(s, p, q) => Ordered(t, p, q)
      /\ Range(t) = Range(s) \ {x}
      /\ x \in Range(s) => QueueFor(pcb[x]) = "ready"
  BY <1>1, DequeueKeepsOrder
<1>3. GoodStore(pcb, without) /\ Queued(without) = Queued(queue) \ {x}
  BY <1>1, DequeueKeepsGood
<1>4. queue' = Enqueue(changed, without, x) /\ pcb' = changed
  BY DEF Requeue
<1> HIDE DEF without
<1>5. GoodStore(changed, without) /\ Len(changed) = Len(pcb) /\ changed[x] = r
  BY <1>1, <1>3, UpdateKeepsGood
<1> HIDE DEF changed
<1>6. x \in 1..Len(changed) /\ x \notin Queued(without)
  BY <1>1, <1>3, <1>5
<1>7. /\ \A p, q : Ordered(t, p, q) => Ordered(u, p, q)
      /\ Range(u) \subseteq Range(t) \cup {x}
      /\ x \in Range(u) =>
           /\ QueueFor(r) = "ready"
           /\ \A p \in Range(t) :
                changed[p].priority = changed[x].priority => Ordered(u, p, x)
  BY <1>4, <1>5, <1>6, EnqueueKeepsOrder
<1> HIDE DEF s, t, u
<1>8. ASSUME NEW p \in Range(s) \cap Range(u), NEW q \in Range(u), p # q,
             pcb'[p].priority = pcb'[q].priority,
             q \in Range(s) => Ordered(s, p, q)
      PROVE  Ordered(u, p, q)
  <2>1. p # x
    BY <1>2, <1>7, <1>8
  <2>2. p \in Range(t)
    BY <1>2, <1>8, <2>1
  <2>3. CASE q = x
    BY <1>4, <1>7, <1>8, <2>2, <2>3
  <2>4. CASE q # x
    BY <1>2, <1>7, <1>8, <2>1, <2>4
  <2> QED BY <2>3, <2>4
<1> QED BY <1>8 DEF Fifo, s, u

\* Blocks that are only taken out.
LEMMA DequeueIsFifo ==
  ASSUME KernelInv, NEW x \in Queued(queue), queue' = Dequeue(pcb, queue, x)
  PROVE  Fifo
<1> DEFINE s == queue["ready"]
           u == queue'["ready"]
<1>1. GoodStore(pcb, queue)
  BY DEF KernelInv
<1>2. /\ \A p, q : p # x /\ q # x /\ Ordered(s, p, q) => Ordered(u, p, q)
      /\ Range(u) = Range(s) \ {x}
  BY <1>1, DequeueKeepsOrder
<1> HIDE DEF s, u
<1>3. ASSUME NEW p \in Range(s) \cap Range(u), NEW q \in Range(u),
             q \in Range(s) => Ordered(s, p, q)
      PROVE  Ordered(u, p, q)
  BY <1>2, <1>3
<1> QED BY <1>3 DEF Fifo, s, u

\* The queues are as they were.
LEMMA UnmovedIsFifo == ASSUME queue' = queue PROVE Fifo
  BY DEF Fifo

\* A yield: the caller is linked in behind its equals, then the head leaves.
LEMMA IdleIsFifo ==
  ASSUME KernelInv, NEW saved \in Context, Idle(saved)
  PROVE  Fifo
<1>1. /\ GoodStore(pcb, queue) /\ curProc \notin Queued(queue) /\ curProc \in 0..Len(pcb)
      /\ Len(pcb) \in Nat
  BY KernelFacts DEF KernelInv
<1>2. ReadyHead # NULL => ReadyHead \in Queued(queue)
  BY ReadyHeadProperties
<1>3. CASE IdleToKernel
  BY <1>3, UnmovedIsFifo DEF IdleToKernel
<1>4. CASE IdleFirst
  BY <1>2, <1>4, DequeueIsFifo DEF IdleFirst
<1>5. CASE IdleSwitch(saved)
  <2> DEFINE h == ReadyHead
             saves == [pcb EXCEPT ![curProc].ctx = saved]
             back == Enqueue(saves, queue, curProc)
             s == queue["ready"]
             t == back["ready"]
             u == queue'["ready"]
  <2>1. /\ h # NULL /\ curProc # NULL /\ pcb' = saves /\ queue' = Dequeue(saves, back, h)
    BY <1>5 DEF IdleSwitch
  <2>2. h \in Queued(queue) /\ curProc \in 1..Len(pcb)
    BY <1>1, <1>2, <2>1 DEF NULL
  <2>3. pcb[curProc] \in PcbRec
    BY <2>2, KernelFacts
  <2>4. [pcb[curProc] EXCEPT !.ctx = saved] \in PcbRec
    BY <2>3 DEF PcbRec
  <2>5. saves = [pcb EXCEPT ![curProc] = [pcb[curProc] EXCEPT !.ctx = saved]]
    OBVIOUS
  <2>6. GoodStore(saves, queue) /\ Len(saves) = Len(pcb)
    BY <1>1, <2>2, <2>4, <2>5, UpdateKeepsGood
  <2> HIDE DEF h, saves
  <2>7. /\ \A p, q : Ordered(s, p, q) => Ordered(t, p, q)
        /\ Range(t) \subseteq Range(s) \cup {curProc} /\ Range(s) \subseteq Range(t)
        /\ curProc \in Range(t) =>
             \A p \in Range(s) :
               saves[p].priority = saves[curProc].priority => Ordered(t, p, curProc)
    BY <1>1, <2>2, <2>6, EnqueueKeepsOrder
  <2>8. GoodStore(saves, back) /\ Queued(back) = Queued(queue) \cup {curProc}
    BY <1>1, <2>2, <2>6, EnqueueKeepsGood
  <2> HIDE DEF back
  <2>9. h \in Queued(back)
    BY <2>2, <2>8
  <2>10. /\ \A p, q : p # h /\ q # h /\ Ordered(t, p, q) => Ordered(u, p, q)
         /\ Range(u) = Range(t) \ {h}
    BY <2>1, <2>8, <2>9, DequeueKeepsOrder
  <2> HIDE DEF s, t, u
  <2>11. ASSUME NEW p \in Range(s) \cap Range(u), NEW q \in Range(u), p # q,
                saves[p].priority = saves[q].priority,
                q \in Range(s) => Ordered(s, p, q)
         PROVE  Ordered(u, p, q)
    <3>1. p # h /\ q # h /\ q \in Range(t) /\ p \in Range(s)
      BY <2>10, <2>11
    <3>2. Ordered(t, p, q)
      BY <2>7, <2>11, <3>1
    <3> QED BY <2>10, <3>1, <3>2
  <2> QED BY <2>1, <2>11 DEF Fifo, s, u
<1> QED BY <1>3, <1>4, <1>5 DEF Idle

\* An exit only takes the head out.
LEMMA ExitIsFifo == ASSUME KernelInv, Exit PROVE Fifo
<1>1. ReadyHead # NULL => ReadyHead \in Queued(queue)
  BY ReadyHeadProperties
<1> QED BY <1>1, DequeueIsFifo, UnmovedIsFifo DEF Exit, ExitToKernel, ExitToNext

\* A new process stands behind its equals.
LEMMA CreateIsFifo ==
  ASSUME KernelInv, NEW name \in Name, NEW class \in {"system", "user"},
         NEW priority \in 0..MaxPriority, NEW label \in YieldLabels, NEW extra, NEW next,
         Create(name, class, priority, label, extra, next)
  PROVE  Fifo
<1> DEFINE new == NewPcb(name, class, priority, label)
           grown == Append(pcb, new)
           x == Len(pcb) + 1
           s == queue["ready"]
           u == queue'["ready"]
<1>1. CASE Stop("heap_full") \/ UNCHANGED <<pcb, queue>>
  BY <1>1, UnmovedIsFifo DEF Stop
<1>2. CASE pcb' = grown /\ queue' = Enqueue(grown, queue, Len(grown))
  <2>1. GoodStore(pcb, queue) /\ Len(pcb) \in Nat
    BY KernelFacts DEF KernelInv
  <2>2. new \in PcbRec
    BY DEF NewPcb, PcbRec, At, Context, NoLine, Line, NoName, Name, Op, YieldLabels, Label
  <2> HIDE DEF new
  <2>3. GoodStore(grown, queue) /\ Len(grown) = x /\ x \notin Queued(queue)
    BY <2>1, <2>2, AppendKeepsGood
  <2>4. x \in 1..x
    BY <2>1
  <2> HIDE DEF grown, x
  <2>5. x \in 1..Len(grown)
    BY <2>3, <2>4
  <2>6. u = Enqueue(grown, queue, x)["ready"]
    BY <1>2, <2>3
  <2>7. /\ \A p, q : Ordered(s, p, q) => Ordered(u, p, q)
        /\ Range(u) \subseteq Range(s) \cup {x}
        /\ x \in Range(u) =>
             \A p \in Range(s) :
               grown[p].priority = grown[x].priority => Ordered(u, p, x)
    BY <2>3, <2>5, <2>6, EnqueueKeepsOrder
  <2> HIDE DEF s, u
  <2>8. ASSUME NEW p \in Range(s) \cap Range(u), NEW q \in Range(u), p # q,
               grown[p].priority = grown[q].priority,
               q \in Range(s) => Ordered(s, p, q)
        PROVE  Ordered(u, p, q)
    BY <2>7, <2>8
  <2> QED BY <1>2, <2>8 DEF Fifo, s, u
<1> QED BY <1>1, <1>2 DEF Create

\* The commands, priority set excepted.
LEMMA SuspendIsFifo == ASSUME KernelInv, NEW name, SuspendPcb(Found(name)) PROVE Fifo
<1> DEFINE p == Found(name)
           r == [pcb[p] EXCEPT !.dispatch_state = "suspended"]
<1>1. p # NULL => p \in Queued(queue) /\ pcb[p] \in PcbRec
  BY FoundProperties
<1>2. CASE p # NULL /\ Requeue(p, r)
  <2>1. r \in PcbRec /\ r.dispatch_state = "suspended"
    BY <1>1, <1>2 DEF PcbRec
  <2>2. QueueFor(r) # "ready"
    BY <2>1 DEF QueueFor
  <2> HIDE DEF r, p
  <2> QED BY <1>1, <1>2, <2>1, <2>2, RequeueIsFifo
<1> QED BY <1>2, UnmovedIsFifo DEF SuspendPcb

\* resume moves a suspended block.
LEMMA ResumeIsFifo == ASSUME KernelInv, NEW name, ResumePcb(Found(name)) PROVE Fifo
<1> DEFINE p == Found(name)
           r == [pcb[p] EXCEPT !.dispatch_state = "active"]
<1>1. p # NULL => p \in Queued(queue) /\ pcb[p] \in PcbRec
  BY FoundProperties
<1>2. CASE p # NULL /\ pcb[p].dispatch_state = "suspended" /\ Requeue(p, r)
  <2>1. r \in PcbRec
    BY <1>1, <1>2 DEF PcbRec
  <2>2. QueueFor(pcb[p]) # "ready"
    BY <1>2 DEF QueueFor
  <2> HIDE DEF r, p
  <2> QED BY <1>1, <1>2, <2>1, <2>2, RequeueIsFifo
<1> QED BY <1>2, UnmovedIsFifo DEF ResumePcb

\* block and unblock change the execution state.
LEMMA BlockIsFifo ==
  ASSUME KernelInv, NEW op, NEW from \in {"ready", "blocked"}, NEW to \in {"ready", "blocked"},
         from # to, BlockPcb(op, from, to)
  PROVE  Fifo
<1> DEFINE p == Target
           r == [pcb[p] EXCEPT !.execution_state = to]
<1>1. p # NULL => p \in Queued(queue) /\ pcb[p] \in PcbRec
  BY FoundProperties DEF Target
<1>2. CASE p # NULL /\ pcb[p].execution_state = from /\ Requeue(p, r)
  <2>1. r \in PcbRec /\ r.execution_state = to
    BY <1>1, <1>2 DEF PcbRec
  <2>2. ~(QueueFor(pcb[p]) = "ready" /\ QueueFor(r) = "ready")
    BY <1>2, <2>1 DEF QueueFor
  <2> HIDE DEF r, p
  <2> QED BY <1>1, <1>2, <2>1, <2>2, RequeueIsFifo
<1> QED BY <1>2, UnmovedIsFifo DEF BlockPcb, Stop

\* Commands that create.
LEMMA LoadIsFifo ==
  ASSUME FullInv, ComLoadOne \/ ComLoadNext \/ ComAlarm
  PROVE  Fifo
<1>1. KernelInv /\ LoadPriority \in 0..MaxPriority /\ "proc" \in YieldLabels
      /\ "alarm" \in YieldLabels /\ alarms \in Nat /\ R3Count \in Nat
  BY InvIsKernelAndUser, PcbAssumption, MpxAssumption DEF FullInv, UserInv, LoadPriority, YieldLabels
<1>2. ASSUME NEW n \in 1..R3Count, NEW next, LoadOne(n, next) PROVE Fifo
  <2>1. ProcName(n) \in Name
    BY <1>1 DEF ProcName, Name
  <2> QED BY <1>1, <1>2, <2>1, CreateIsFifo DEF LoadOne
<1>3. CASE ComLoadOne
  BY <1>2, <1>3, UnmovedIsFifo DEF ComLoadOne, IsProcName
<1>4. CASE ComLoadNext
  <2>1. cpu.i \in 1..R3Count
    BY <1>4 DEF ComLoadNext, Running, FullInv, LoadInv
  <2> QED BY <1>2, <1>4, <2>1 DEF ComLoadNext
<1>5. CASE ComAlarm
  <2>1. AlarmName(alarms) \in Name
    BY <1>1 DEF AlarmName, Name
  <2> QED BY <1>1, <1>5, <2>1, CreateIsFifo DEF ComAlarm
<1> QED BY <1>3, <1>4, <1>5

\* Every step but priority set.
LEMMA StepsAreFifo == ASSUME FullInv, [Next]_vars, ~ComPriority PROVE Fifo
<1>1. KernelInv
  BY InvIsKernelAndUser DEF FullInv
<1>2. CASE \/ ComStart \/ ComNone \/ ComResumeAll \/ ComLoadAll \/ ConfirmNo \/ Stopped
           \/ UNCHANGED vars
  BY <1>2, UnmovedIsFifo
     DEF ComStart, ComNone, ComResumeAll, ComLoadAll, ConfirmNo, Stopped, vars
<1>3. CASE ComBlock \/ ComUnblock
  BY <1>1, <1>3, BlockIsFifo DEF ComBlock, ComUnblock
<1>4. CASE ComSuspendOne \/ ComSuspendNext \/ ComResumeOne \/ ComResumeNext
  BY <1>1, <1>4, SuspendIsFifo, ResumeIsFifo
     DEF ComSuspendOne, ComSuspendNext, ComResumeOne, ComResumeNext, Target
<1>5. CASE ComDelete
  <2>1. Target # NULL => Target \in Queued(queue)
    BY <1>1, FoundProperties DEF Target
  <2> QED BY <1>1, <1>5, <2>1, DequeueIsFifo, UnmovedIsFifo DEF ComDelete
<1>6. CASE ComLoadOne \/ ComLoadNext \/ ComAlarm
  BY <1>6, LoadIsFifo
<1>7. CASE ComLeave \/ ConfirmYes
  BY <1>1, <1>7, ExitIsFifo, UnmovedIsFifo DEF ComLeave, ConfirmYes, Leave, Stop
<1>8. CASE UserTypes \/ Process
  <2>1. (\E saved \in Context : Idle(saved)) \/ Exit
    BY <1>1, <1>8, TypingBlocks, ProcessBlocks DEF Yielded, Exited
  <2> QED BY <1>1, <2>1, IdleIsFifo, ExitIsFifo
<1>9. CASE Kmain
  <2>1. CASE KmainRun
    BY <1>1, <2>1, IdleIsFifo, AtType DEF KmainRun, Label
  <2>2. CASE KmainOff
    BY <2>2, UnmovedIsFifo DEF KmainOff, Stop
  <2>3. CASE KmainCommhand
    <3>1. CommhandName \in Name /\ SystemPriority \in 0..MaxPriority /\ "com_start" \in YieldLabels
      BY PcbAssumption DEF CommhandName, Name, SystemPriority, YieldLabels
    <3> QED BY <1>1, <2>3, <3>1, CreateIsFifo DEF KmainCommhand
  <2>4. CASE KmainIdle
    <3>1. IdleName \in Name /\ MaxPriority \in 0..MaxPriority /\ "idle" \in YieldLabels
      BY PcbAssumption DEF IdleName, Name, YieldLabels
    <3> QED BY <1>1, <2>4, <3>1, CreateIsFifo DEF KmainIdle
  <2> QED BY <1>9, <2>1, <2>2, <2>3, <2>4 DEF Kmain
<1> QED BY <1>2, <1>3, <1>4, <1>5, <1>6, <1>7, <1>8, <1>9 DEF Next, ComCommand

(***************************************************************************)
(* First in, first out: of two ready processes of the same priority the    *)
(* first stays first, and one that becomes ready, by whatever command or   *)
(* yield, stands behind those of its priority that are there.              *)
(***************************************************************************)
THEOREM EqualsKeepOrder == Spec => FifoAmongEquals
<1> DEFINE Fair == ~Doing("priority") =>
              \A p \in Range(queue["ready"]) \cap Range(queue'["ready"]),
                 q \in Range(queue'["ready"]) :
                /\ p # q /\ pcb'[p].priority = pcb'[q].priority
                /\ IsReady(q) => Before(p, q)
                => Before(p, q)'
<1>1. FullInv /\ [Next]_vars => [Fair]_vars
  <2> SUFFICES ASSUME FullInv, [Next]_vars, ~Doing("priority"),
                      NEW p \in Range(queue["ready"]) \cap Range(queue'["ready"]),
                      NEW q \in Range(queue'["ready"]),
                      p # q, pcb'[p].priority = pcb'[q].priority,
                      IsReady(q) => Before(p, q)
               PROVE  Before(p, q)'
    OBVIOUS
  <2>1. Fifo
    BY StepsAreFifo DEF ComPriority
  <2>2. Before(p, q) <=> Ordered(queue["ready"], p, q)
    BY DEF Before, Ordered
  <2>3. Before(p, q)' <=> Ordered(queue'["ready"], p, q)
    BY DEF Before, Ordered
  <2> QED BY <2>1, <2>2, <2>3 DEF Fifo, IsReady
<1>2. Spec => [][Fair]_vars
  BY <1>1, FullInvariance, PTL DEF Spec
<1> QED BY <1>2 DEF FifoAmongEquals

=============================================================================
