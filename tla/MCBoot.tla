------------------------------- MODULE MCBoot -------------------------------
(***************************************************************************)
(* Instances of Boot.                                                      *)
(***************************************************************************)
EXTENDS Boot

\* Memory that nobody has written to, and what another kernel has left.
AnyMemory == {NotMapped, [present |-> TRUE, frame |-> 3]}

\* The end of the image: at the end of a page, in it, and so far up that the
\* memory in use takes one, two or three tables, or is exhausted.
Ends == {8, 9, 15, 16, 23, 30, 37, 44, 51, 60}
=============================================================================
