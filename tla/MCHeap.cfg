SPECIFICATION FairSpec
CONSTANTS
  HEAP_START = 5
  HEAP_END = 92
  HDR = 12
  Requests = {1, 6, 19}
INVARIANTS TypeOK Tiling MemorySafe FullyCoalesced
PROPERTY CallsReturn
CHECK_DEADLOCK TRUE
