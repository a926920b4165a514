----------------------------- MODULE MpxClaims -----------------------------
(***************************************************************************)
(* What comments and help texts say of the system and the code does not do *)
(* (README, "Findings").  Each is refuted by a run of its own.             *)
(***************************************************************************)
EXTENDS MpxProperties

(***************************************************************************)
(* block and unblock of a name nobody has answer "Could not find process"  *)
(* (user/pcb/block.c: "Checks if the process exists").                     *)
(***************************************************************************)
MissingProcessIsReported == status # "page_fault"

(***************************************************************************)
(* When the command handler returns, kmain cleans up and the system shuts  *)
(* down (kernel/kmain.c, step 10).                                         *)
(***************************************************************************)
ShutdownReachesKmain == status # "bad_return"

=============================================================================
