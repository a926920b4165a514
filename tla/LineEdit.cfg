\* Every sequence of keys on a short line, and one byte on either side of it.
CONSTANTS
  Size = 5
  Printable <- KeyLetters
  Controls <- AllControls
  Around = 1
  Leftover <- Stale
SPECIFICATION Spec
CONSTRAINT CursorsAgree
INVARIANTS
  ScreenShowsLine
  CallerGetsScreen
PROPERTY OnlyBufferIsWritten
CHECK_DEADLOCK FALSE
