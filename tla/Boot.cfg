\* Tables of four entries, a heap of three pages in two tables, any kernel.
CONSTANTS
  Entries = 4
  Tables = 10
  Frames = 34
  HeapPage = 35
  HeapPages = 3
  SlackPages = 2
  KernelEnds <- Ends
  Leftovers <- AnyMemory
  Requests = {1, 2, 5}
  Lines = {0, 8}
SPECIFICATION Spec
INVARIANTS
  TypeOK
  UsedMemoryStays
  TablesApart
  FramesApart
  BlocksApart
  NoDeviceInterrupts
  FaultsAreReported
PROPERTIES
  BootEnds
