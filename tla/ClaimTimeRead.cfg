CONSTANTS
  Binary = FALSE
  Starts <- EdgeStarts
  Settings <- Nothing
  AlarmTimes <- Nothing
  MaxTicks = 2
SPECIFICATION Spec
INVARIANT ReadsTheCurrentTime
