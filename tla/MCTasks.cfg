SPECIFICATION FairSpec
CONSTANTS
  MAX_TASKS = 4
  Blocks = {b1, b2, b3, b4}
  NULL = NULL
  BootStack = BootStack
INVARIANTS CurrentRuns Resumable StacksDisjoint NoStackLost
PROPERTIES EveryTaskRuns
