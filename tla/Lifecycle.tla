----------------------------- MODULE Lifecycle -----------------------------
(***************************************************************************)
(* What the system promises of the processes: the states a process passes  *)
(* through and the steps between them, without queues, programs, contexts  *)
(* or the command handler.  Mpx implements it (MpxProperties,              *)
(* FollowsLifecycle).                                                      *)
(*                                                                         *)
(*            load, alarm       yield                 exit                 *)
(*    (none) ------------> ready <----> running ------------------> gone   *)
(*                         |   |                                     ^     *)
(*           block, unblock|   |suspend, resume                      |     *)
(*                   blocked   suspended_ready          delete, of a user  *)
(*     suspend, resume     |   |block, unblock          process that waits *)
(*                    suspended_blocked                                    *)
(***************************************************************************)
EXTENDS Naturals, Sequences

VARIABLE proc   \* class and state of the processes, in order of creation

Waiting == {"ready", "blocked", "suspended_ready", "suspended_blocked"}

ProcState == Waiting \cup {"running", "gone"}

InState(s) == {p \in DOMAIN proc : proc[p].state = s}

TypeOK == proc \in Seq([class : {"system", "user"}, state : ProcState])

Create(class) == proc' = Append(proc, [class |-> class, state |-> "ready"])

Move(p, from, to) == /\ proc[p].state = from
                     /\ proc' = [proc EXCEPT ![p].state = to]

Block(p) == \/ Move(p, "ready", "blocked")
            \/ Move(p, "suspended_ready", "suspended_blocked")

Unblock(p) == \/ Move(p, "blocked", "ready")
              \/ Move(p, "suspended_blocked", "suspended_ready")

Suspend(p) == /\ proc[p].class = "user"
              /\ \/ Move(p, "ready", "suspended_ready")
                 \/ Move(p, "blocked", "suspended_blocked")

Resume(p) == \/ Move(p, "suspended_ready", "ready")
             \/ Move(p, "suspended_blocked", "blocked")

DeleteOne(p) == /\ proc[p].class = "user" /\ proc[p].state \in Waiting
                /\ proc' = [proc EXCEPT ![p].state = "gone"]

\* The first process gets the processor.
First(q) == InState("running") = {} /\ Move(q, "ready", "running")

\* The running process yields to one that is ready.
Yield(p, q) == /\ proc[p].state = "running" /\ proc[q].state = "ready"
               /\ proc' = [proc EXCEPT ![p].state = "ready",
                                       ![q].state = "running"]

\* It exits: to one that is ready, to nobody only when none is.
ExitTo(p, q) == /\ proc[p].state = "running" /\ proc[q].state = "ready"
                /\ proc' = [proc EXCEPT ![p].state = "gone",
                                        ![q].state = "running"]
ExitLast(p) == InState("ready") = {} /\ Move(p, "running", "gone")

Init == proc = <<>>

Next == \/ \E class \in {"system", "user"} : Create(class)
        \/ \E p \in DOMAIN proc :
             \/ Block(p) \/ Unblock(p) \/ Suspend(p) \/ Resume(p)
             \/ DeleteOne(p) \/ First(p) \/ ExitLast(p)
             \/ \E q \in DOMAIN proc : Yield(p, q) \/ ExitTo(p, q)

Spec == Init /\ [][Next]_proc

=============================================================================
