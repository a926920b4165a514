\* Two test processes or alarms or one of each besides commhand and idle, every command.
CONSTANTS
  R3Count = 2
  MaxPriority = 2
  Commands <- AllCommands
  HeapSize = 44
  PcbSize = 10
  AlarmSize = 1
SPECIFICATION Spec
INVARIANTS
  TypeOK
  OnePlace
  ReadySorted
  OnlyReadyRuns
  NamesUnique
  ResumesWhereItYielded
  ShutdownLeavesNoneReady
  ShowListsWaiting
PROPERTIES
  DispatchesBest
  NoneLost
  FollowsLifecycle
  FifoAmongEquals
