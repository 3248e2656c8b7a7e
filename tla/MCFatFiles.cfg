SPECIFICATION FairStoreSpec
CONSTANTS
  NCLUSTERS = 3
  ROOT_ENTRIES = 2
  EPC = 3
  BPS = 2
  FPS = 4
  Names = {"A", "B"}
  Payloads <- FilePayloads
  Ops = {"fs_create", "fs_write", "fs_append", "fs_delete", "fs_rename"}
  MaxCrashes = 0
INVARIANTS ChainsDisjoint NothingLeaks SizesMatchChains
PROPERTIES CallsReturn ImplementsFileStore
CHECK_DEADLOCK TRUE
