SPECIFICATION StoreSpec
CONSTANTS
  NCLUSTERS = 2
  ROOT_ENTRIES = 2
  EPC = 4
  BPS = 2
  FPS = 4
  Names = {A, B}
  Payloads <- DirPayloads
  Ops = {"fs_append", "fs_write", "fs_delete", "fs_mkdir", "fs_rmdir", "fs_rename"}
  MaxCrashes = 1
SYMMETRY NamesAlike
CONSTRAINT UntilMounted
PROPERTIES DanglesOnlyByFreeing DriftOnlyInsideFatWrite ImplementsFileStore
CHECK_DEADLOCK TRUE
