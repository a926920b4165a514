------------------------------ MODULE SysCall ------------------------------
(***************************************************************************)
(* The dispatcher: sys_call in kernel/sys_call.c, entered through the      *)
(* interrupt 0x60 of sys_req.  Interrupts from devices are masked and an   *)
(* interrupt gate clears the interrupt flag, so a system call is one step  *)
(* and the processor changes hands nowhere else.                           *)
(*                                                                         *)
(* READ and WRITE return the caller's own context with -1, on which the    *)
(* caller's sys_req does the serial I/O itself: they change nothing here   *)
(* and are part of the step of the program that issues them.               *)
(***************************************************************************)
EXTENDS Pcb

VARIABLES pcb,       \* the control blocks, in allocation order
          queue,     \* the four process queues
          curProc,   \* the process on the processor, NULL before the first
          cpu,       \* the context the processor is executing
          sysStack   \* sysStackPtr: kmain's context

kernelVars == <<pcb, queue, curProc, cpu, sysStack>>

NoContext == At("null")

ReadyHead == HeadOf(queue["ready"])

\* A caller that is no process is kmain.
SaveKernelContext(saved) ==
  sysStack' = IF curProc = NULL THEN saved ELSE sysStack

\* Seeded fault: IDLE with nobody ready returns to the caller.
IdleToCaller ==
  /\ ReadyHead = NULL
  /\ cpu' = cpu
  /\ UNCHANGED <<pcb, queue, curProc>>

\* IDLE with nobody ready: kmain resumes (the caller is not saved).
IdleToKernel ==
  /\ ReadyHead = NULL
  /\ cpu' = sysStack'
  /\ UNCHANGED <<pcb, queue, curProc>>

\* IDLE by kmain: the first process is dispatched.
IdleFirst ==
  /\ ReadyHead # NULL
  /\ curProc = NULL
  /\ queue' = Dequeue(pcb, queue, ReadyHead)
  /\ curProc' = ReadyHead
  /\ cpu' = pcb[ReadyHead].ctx
  /\ UNCHANGED pcb

\* Seeded fault: the context is saved after curProc has changed.
IdleSwitchSavesLate(saved) ==
  LET saves == [pcb EXCEPT ![ReadyHead].ctx = saved] IN
  /\ ReadyHead # NULL
  /\ curProc # NULL
  /\ pcb' = saves
  /\ queue' = Dequeue(pcb, Enqueue(pcb, queue, curProc), ReadyHead)
  /\ curProc' = ReadyHead
  /\ cpu' = pcb[ReadyHead].ctx

\* Seeded fault: the caller is not put back into its queue.
IdleSwitchDropsCaller(saved) ==
  LET saves == [pcb EXCEPT ![curProc].ctx = saved] IN
  /\ ReadyHead # NULL
  /\ curProc # NULL
  /\ pcb' = saves
  /\ queue' = Dequeue(saves, queue, ReadyHead)
  /\ curProc' = ReadyHead
  /\ cpu' = saves[ReadyHead].ctx

(***************************************************************************)
(* IDLE by a process.  The next process is chosen before the caller is     *)
(* put back, so a yield passes the processor on even to a process of lower *)
(* priority.                                                               *)
(***************************************************************************)
IdleSwitch(saved) ==
  LET saves == [pcb EXCEPT ![curProc].ctx = saved] IN
  /\ ReadyHead # NULL
  /\ curProc # NULL
  /\ pcb' = saves
  /\ queue' = Dequeue(saves, Enqueue(saves, queue, curProc), ReadyHead)
  /\ curProc' = ReadyHead
  /\ cpu' = saves[ReadyHead].ctx

\* The system call IDLE, by a caller that resumes at the context saved.
Idle(saved) ==
  /\ SaveKernelContext(saved)
  /\ \/ IdleToKernel
     \/ IdleFirst
     \/ IdleSwitch(saved)

\* Seeded fault: EXIT returns to kmain with processes ready.
ExitToKernelAlways ==
  /\ curProc' = NULL
  /\ cpu' = sysStack'
  /\ UNCHANGED queue

(***************************************************************************)
(* The system call EXIT: the caller is in no queue and is not put back.    *)
(***************************************************************************)
ExitToKernel ==
  /\ ReadyHead = NULL
  /\ curProc' = NULL
  /\ cpu' = sysStack'
  /\ UNCHANGED queue

ExitToNext ==
  /\ ReadyHead # NULL
  /\ queue' = Dequeue(pcb, queue, ReadyHead)
  /\ curProc' = ReadyHead
  /\ cpu' = pcb[ReadyHead].ctx

Exit ==
  /\ SaveKernelContext(cpu)
  /\ ExitToKernel \/ ExitToNext
  /\ UNCHANGED pcb

=============================================================================
