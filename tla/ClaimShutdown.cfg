\* the command shutdown
CONSTANTS
  R3Count = 2
  MaxPriority = 2
  Commands <- ShutdownCommands
  HeapSize = 44
  PcbSize = 10
  AlarmSize = 1
SPECIFICATION Spec
INVARIANT ShutdownReachesKmain
