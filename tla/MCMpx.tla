------------------------------- MODULE MCMpx -------------------------------
(***************************************************************************)
(* Instances of Mpx for TLC: the command lines of each run.                *)
(***************************************************************************)
EXTENDS MpxClaims

Cmd(op, name) == [op |-> op, name |-> name, prio |-> 0]
Plain(op) == Cmd(op, NoName)
SetPriority(name, prio) == [op |-> "priority", name |-> name, prio |-> prio]

Procs == {ProcName(n) : n \in 1..R3Count}

\* Every kind of command, on user and on system processes.
AllCommands ==
  {Cmd(op, ProcName(1)) : op \in {"block", "unblock", "suspend", "resume", "delete"}}
  \cup {Cmd(op, ProcName(2)) : op \in {"block", "suspend"}}
  \cup {Cmd(op, IdleName) : op \in {"block", "unblock", "suspend", "delete"}}
  \cup {SetPriority(ProcName(2), prio) : prio \in {0, MaxPriority}}
  \cup {SetPriority(IdleName, 0), SetPriority(ProcName(1), MaxPriority + 1)}
  \cup {Plain(op) : op \in {"resume all", "load", "load suspended", "alarm",
                            "exit", "exit force", "shutdown", "shutdown force",
                            "none"}}
  \cup {Cmd("load one", ProcName(2))}

\* Little that the user can do, so that every behaviour can be followed.
FewCommands ==
  {Plain(op) : op \in {"load", "load suspended", "alarm", "exit", "resume all",
                      "none"}}
  \cup {Cmd(op, ProcName(1)) : op \in {"block", "unblock"}}
  \cup {Cmd("suspend", ProcName(n)) : n \in {2, 3}}

\* The lines that show where the code and its documentation differ.
BlockCommands == {Cmd("load one", ProcName(1)), Cmd("block", ProcName(1)),
                  Plain("none")}
ShutdownCommands == {Plain("load"), Plain("shutdown")}

=============================================================================
