SPECIFICATION FairSpec
CONSTANTS
  Counts <- SomeCounts
  SECTOR = 512
  CHUNK = 32
  Maps <- SomeMaps
  CAP = 2
  WRAP = 4194304
  HEAP_START = 256
  FALLBACK = 64
  STACK_TOP = 576
  Lines = {0, 1, 14}
  Threads = {"main", "kernel", "shell"}
INVARIANTS KernelInPlace HeapIsRam OnlyHandledVectors NothingInService
PROPERTIES KeysServed TicksGoOn
CHECK_DEADLOCK FALSE
