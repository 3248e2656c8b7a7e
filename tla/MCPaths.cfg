SPECIFICATION Spec
CONSTANTS
  NAME = 2
  COMPONENT = 3
  SHOWN = 5
  DIRPART = 6
  CWD = 6
  NCLUSTERS = 3
  TypedPaths <- ShortPaths
  Ops = {"fs_create", "fs_delete", "fs_mkdir", "fs_rmdir", "fs_rename", "fs_chdir"}
CONSTRAINT SmallTree
INVARIANTS CwdAttached CdGoesThere ParentIsNamed
PROPERTY PwdStaleOnlyByRenameOrLength
