SPECIFICATION StoreSpec
CONSTANTS
  NCLUSTERS = 3
  ROOT_ENTRIES = 1
  EPC = 3
  BPS = 2
  FPS = 4
  Names = {"A", "B"}
  Payloads <- DirPayloads
  Ops = {"fs_create", "fs_write", "fs_delete", "fs_rename", "fs_mkdir", "fs_rmdir", "fs_chdir"}
  MaxCrashes = 0
INVARIANTS NothingLeaks DotsPointHome
PROPERTIES ImplementsFileStore
CHECK_DEADLOCK TRUE
