-------------------------------- MODULE Show --------------------------------
(***************************************************************************)
(* The show command (user/pcb/showPCB.c).  It changes nothing, so that a   *)
(* line with it is "none" to Mpx; here is what it prints: the sequence of  *)
(* the blocks whose name, class, states and priority are listed, with NULL *)
(* for the message that there is no such process.                          *)
(*                                                                         *)
(* The lists are walked by the links, but each block on the way is printed *)
(* through pcb_find, under its name.                                       *)
(***************************************************************************)
EXTENDS Mpx

showPCB(name) == Found(name)

ShowQueue(q) == [i \in DOMAIN queue[q] |-> showPCB(pcb[queue[q][i]].name)]

showReady == ShowQueue("ready")
showBlocked == ShowQueue("blocked")
showSuspended == ShowQueue("suspended_ready") \o ShowQueue("suspended_blocked")
showAllPCB == showReady \o showBlocked \o showSuspended

\* The argument: one of the words, or a name.
Words == {"", "all", "ready", "blocked", "suspended", "help", "name"}
Argument == [word : Words, name : Name]

show_command(arg) ==
  CASE arg.word \in {"", "all"} -> showAllPCB
    [] arg.word = "ready"       -> showReady
    [] arg.word = "blocked"     -> showBlocked
    [] arg.word = "suspended"   -> showSuspended
    [] arg.word = "help"        -> <<>>
    [] OTHER                    -> <<showPCB(arg.name)>>

=============================================================================
