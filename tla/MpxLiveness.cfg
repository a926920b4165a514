\* Three test processes or alarms at once, the commands that walk over them,
\* and fairness.
CONSTANTS
  R3Count = 3
  MaxPriority = 2
  Commands <- FewCommands
  HeapSize = 56
  PcbSize = 10
  AlarmSize = 1
SPECIFICATION FairSpec
PROPERTIES
  ExitPowersOff
  NoneStarved
  ResumeAllDrains
  LoadSuspendedParks
