SPECIFICATION Spec
CONSTANTS
  NCLUSTERS = 2
  ROOT_ENTRIES = 2
  EPC = 3
  BPS = 2
  FPS = 2
  Names = {"A"}
  Payloads <- OneByte
  Ops = {"fs_write"}
  MaxCrashes = 0
INVARIANTS FatsMirroredAfterBoot
CHECK_DEADLOCK TRUE
