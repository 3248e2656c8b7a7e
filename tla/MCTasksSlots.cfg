SPECIFICATION FairSpec
CONSTANTS
  MAX_TASKS = 3
  Blocks = {b1, b2, b3}
  NULL = NULL
  BootStack = BootStack
PROPERTY RefusedOnlyWhenFull
