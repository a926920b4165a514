--------------------------- MODULE MpxProperties ---------------------------
(***************************************************************************)
(* What the running system must satisfy.                                   *)
(***************************************************************************)
EXTENDS Show

TypeOK ==
  /\ StoreType(pcb, queue)
  /\ curProc \in 0..Len(pcb)
  /\ cpu \in Context
  /\ sysStack \in Context
  /\ heap \in Nat
  /\ status \in Status
  /\ output \in Seq(Nat) /\ Len(output) = Len(pcb)
  /\ alarms \in Nat

\* A process that exists: it waits in a queue or has the processor.
Alive(p) == p \in Queued(queue) \/ (p = curProc /\ p # NULL)

(***************************************************************************)
(* A process is in one place.  It is on the processor, or in exactly one   *)
(* queue, once, and that is the queue its states name; pcb_remove, which   *)
(* picks the queue from the states, would otherwise cut the wrong list     *)
(* (pcb_insert, pcb_remove and every command that calls both).             *)
(***************************************************************************)
OnePlace == OwnQueue(pcb, queue) /\ curProc \notin Queued(queue)

(***************************************************************************)
(* The ready queue stays in priority order through yields, loads, resumes, *)
(* unblocks and changes of priority: the dispatcher takes its head without *)
(* looking further.                                                        *)
(***************************************************************************)
ReadySorted == Ascending(pcb, queue["ready"])

(***************************************************************************)
(* No blocked and no suspended process has the processor, although the     *)
(* states of a process can change at any time it does not run.             *)
(***************************************************************************)
OnlyReadyRuns ==
  curProc # NULL => /\ pcb[curProc].execution_state = "ready"
                    /\ pcb[curProc].dispatch_state = "active"

(***************************************************************************)
(* No two living processes share a name.  pcb_setup searches the queues    *)
(* only, which do not hold the running process, so this depends on who may *)
(* create processes and under which names.                                 *)
(***************************************************************************)
NamesUnique ==
  \A p, q \in DOMAIN pcb :
    Alive(p) /\ Alive(q) /\ pcb[p].name = pcb[q].name => p = q

(***************************************************************************)
(* A process resumes where it yielded: the lines a living test process has *)
(* printed are those its loop counter, on the processor or saved in its    *)
(* control block, stands for.  A context saved under or restored from the  *)
(* wrong block, or saved too late, would repeat or skip lines.  (When      *)
(* kmain has taken the processor back from a yield that found nobody       *)
(* ready, the context of that caller is gone.)                             *)
(***************************************************************************)
ResumesWhereItYielded ==
  \A p \in DOMAIN pcb :
    Alive(p) /\ pcb[p].name.base = "proc" /\ cpu.at # "kmain_off" =>
      output[p] = IF p = curProc THEN cpu.i ELSE pcb[p].ctx.i

(***************************************************************************)
(* While commands run the cursor of "resume all" is the head of the        *)
(* suspended-ready queue: the block it was read from has left the queue    *)
(* and nothing is skipped.                                                 *)
(***************************************************************************)
CursorAtHead ==
  cpu.at = "com_resume" => cpu.i = HeadOf(queue["suspended_ready"])
                           /\ cpu.i # NULL

(***************************************************************************)
(* Where control is.  kmain runs before there is a current process, the    *)
(* programs of processes only when there is one, the command handler's     *)
(* only as the process of that name; a process yields at these places      *)
(* only, and kmain waits where it shuts down.                              *)
(***************************************************************************)
BootLabels == {"kmain_commhand", "kmain_idle", "kmain_run"}
ComLabels == {"com_start", "com_read", "com_exec", "com_confirm", "com_load",
              "com_suspend", "com_resume"}
YieldLabels == {"com_start", "com_exec", "idle", "proc", "alarm"}

ControlInv ==
  /\ cpu.at \in BootLabels => curProc = NULL
  /\ cpu.at \in ComLabels \cup YieldLabels => curProc # NULL
  /\ cpu.at \in ComLabels => pcb[curProc].name = CommhandName
  /\ sysStack.at \in {"null", "kmain_off"}
  /\ \A p \in 1..Len(pcb) :
       /\ pcb[p].ctx.at \in YieldLabels
       /\ pcb[p].ctx.at \in ComLabels => pcb[p].name = CommhandName

(***************************************************************************)
(* The inductive invariant: the safety invariants above that no command    *)
(* and no system call breaks, together with where control is, on which     *)
(* they depend (a command may touch only processes that wait).             *)
(***************************************************************************)
IInv == /\ TypeOK /\ OnePlace /\ ReadySorted /\ OnlyReadyRuns
        /\ NamesUnique /\ CursorAtHead /\ ControlInv

\* The queue from whose states showPCB prints "Ready", "Suspended" and so on.
PrintedState(p) == QueueFor(pcb[p])

(***************************************************************************)
(* When a command is executed, "show" would list every process that waits, *)
(* once and as itself, under the heading its states belong to, although it *)
(* looks each of them up by name again (showPCB.c).  The command handler   *)
(* itself has the processor and is not listed.                             *)
(***************************************************************************)
ShowListsWaiting ==
  cpu.at = "com_exec" =>
    /\ show_command([word |-> "all", name |-> NoName]) = SearchOrder(queue)
    /\ \A q \in QueueName :
         \A p \in Range(ShowQueue(q)) : p # NULL /\ PrintedState(p) = q

(***************************************************************************)
(* kmain resumes, and the machine powers off, only when no process is      *)
(* ready.                                                                  *)
(***************************************************************************)
ShutdownLeavesNoneReady ==
  cpu.at = "kmain_off" \/ status = "halted" => queue["ready"] = <<>>

----------------------------------------------------------------------------
(***************************************************************************)
(* The dispatcher hands the processor to a process that was ready, and to  *)
(* none when one of higher priority was waiting too (sys_call, IDLE and    *)
(* EXIT).                                                                  *)
(***************************************************************************)
DispatchesBest ==
  [][curProc' # curProc /\ curProc' # NULL =>
       /\ curProc' \in Range(queue["ready"])
       /\ \A p \in Range(queue["ready"]) :
            pcb[curProc'].priority <= pcb[p].priority]_vars

\* The place where the running program gives up its process for good.
AtExit ==
  \/ cpu.at = "proc" /\ cpu.i = Iterations
  \/ cpu.at = "alarm"
  \/ cpu.at \in {"com_exec", "com_confirm"}
     /\ cpu.line.op \in {"exit", "exit force"}

(***************************************************************************)
(* No process is lost.  Living processes live on through every step,       *)
(* except the one that exits at the end of its own program and the user    *)
(* process that delete names.                                              *)
(***************************************************************************)
NoneLost ==
  [][\A p \in DOMAIN pcb :
       Alive(p) /\ ~Alive(p)' =>
         \/ p = curProc /\ AtExit
         \/ /\ Doing("delete")
            /\ pcb[p].name = cpu.line.name
            /\ pcb[p].process_class = "user"]_vars

IsReady(p) == p \in Range(queue["ready"])

Before(p, q) ==
  LET s == queue["ready"]
  IN  \E i, j \in DOMAIN s : i < j /\ s[i] = p /\ s[j] = q

(***************************************************************************)
(* First in, first out among equals.  Of two ready processes of the same   *)
(* priority the first stays first, and one that enters the ready queue     *)
(* gets behind those of its priority that are there, whatever command or   *)
(* yield brings it.  (Only priority set moves a process that is ready.)    *)
(***************************************************************************)
FifoAmongEquals ==
  [][~Doing("priority") =>
       \A p \in Range(queue["ready"]) \cap Range(queue'["ready"]),
          q \in Range(queue'["ready"]) :
         /\ p # q /\ pcb'[p].priority = pcb'[q].priority
         /\ IsReady(q) => Before(p, q)
         => Before(p, q)']_vars

(***************************************************************************)
(* "resume all" leaves no suspended-ready process behind, although it      *)
(* takes the list apart while it walks it.                                 *)
(***************************************************************************)
ResumeAllDrains ==
  [][cpu.at = "com_resume" /\ cpu'.at = "com_read" =>
       queue'["suspended_ready"] = <<>>]_vars

(***************************************************************************)
(* After "load suspended" every test process that exists is suspended, the *)
(* ones that were loaded, blocked or moved before included.                *)
(***************************************************************************)
LoadSuspendedParks ==
  [][cpu.at = "com_suspend" /\ cpu'.at = "com_read" =>
       \A p \in DOMAIN pcb :
         Alive(p) /\ pcb[p].name.base = "proc" =>
           pcb'[p].dispatch_state = "suspended"]_vars

----------------------------------------------------------------------------
\* The state the queues and the processor give a process.
StateOf(p) ==
  IF p = curProc THEN "running"
  ELSE IF p \in Queued(queue)
       THEN CHOOSE q \in QueueName : p \in Range(queue[q])
       ELSE "gone"

LifeProc == [p \in 1..Len(pcb) |-> [class |-> pcb[p].process_class,
                                   state |-> StateOf(p)]]

Life == INSTANCE Lifecycle WITH proc <- LifeProc

(***************************************************************************)
(* The system implements Lifecycle: whatever commands, yields and exits    *)
(* follow each other, every process moves along the steps of its diagram   *)
(* only; a blocked process becomes ready by unblock alone, a suspended one *)
(* active by resume alone, and system processes are neither suspended nor  *)
(* deleted.                                                                *)
(***************************************************************************)
FollowsLifecycle == Life!Spec

----------------------------------------------------------------------------
\* The command handler is the first process created.
CommhandGone == Len(pcb) >= 2 /\ ~Alive(1)

AlarmAlive == \E p \in DOMAIN pcb : Alive(p) /\ pcb[p].name.base = "alarm"

(***************************************************************************)
(* Once the command handler has exited the machine powers off, whatever    *)
(* was running, blocked or suspended then, unless an alarm waits for its   *)
(* time.                                                                   *)
(***************************************************************************)
ExitPowersOff == CommhandGone ~> (status = "halted" \/ AlarmAlive)

\* The control blocks of user processes: 1 and 2 are commhand and idle, and
\* the heap holds no more than this.
UserPcbs == 3..(HeapSize \div PcbSize)

(***************************************************************************)
(* No user process starves: one that is ready gets the processor, or is    *)
(* taken out of the ready queue by a command, unless the machine stops.    *)
(* This is of processes of the priority load gives them; priority set can  *)
(* starve the others at will.                                              *)
(***************************************************************************)
NoneStarved ==
  \A p \in UserPcbs : IsReady(p) ~> (~IsReady(p) \/ status # "running")

=============================================================================
