--------------------------- MODULE MCLineEditor ---------------------------
(***************************************************************************)
(* Instances of LineEditor.                                                *)
(***************************************************************************)
EXTENDS LineEditor

\* The bytes of the arrow keys and of the delete key.
KeyLetters == {"A", "C", "D", "3"}

\* What may be around the buffer.
Stale == {"A"}

\* Where TLC goes on: the terminal still has its cursor where the editor is.
CursorsAgree == term.at = index

AllControls == {Backspace, Delete, CR, LF, Esc, Tilde, "["}
=============================================================================
