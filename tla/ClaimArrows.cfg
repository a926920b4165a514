\* The comment on arrow keys.
CONSTANTS
  Size = 4
  Printable <- KeyLetters
  Controls <- AllControls
  Around = 1
  Leftover <- Stale
SPECIFICATION Spec
INVARIANT ArrowKeysAreHandled
CHECK_DEADLOCK FALSE
