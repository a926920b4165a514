\* What serial.h says of the buffer.
CONSTANTS
  Size = 7
  Printable <- KeyLetters
  Controls <- AllControls
  Around = 1
  Leftover <- Stale
SPECIFICATION Spec
PROPERTY WritesIntoBuffer
CHECK_DEADLOCK FALSE
