\* block of a process that has exited
CONSTANTS
  R3Count = 2
  MaxPriority = 2
  Commands <- BlockCommands
  HeapSize = 44
  PcbSize = 10
  AlarmSize = 1
SPECIFICATION Spec
INVARIANT MissingProcessIsReported
