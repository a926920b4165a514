\* Three blocks, three priorities.
CONSTANTS
  R3Count = 1
  MaxPriority = 2
  Blocks = 3
SPECIFICATION Spec
INVARIANTS
  DoublyLinked
PROPERTIES
  ImplementsQueues
