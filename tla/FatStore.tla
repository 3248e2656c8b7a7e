------------------------------ MODULE FatStore ------------------------------
(***************************************************************************)
(* FatVolume implements FileStore: the tree of files that fs_read and the  *)
(* directory scans find on the disk, at every sector write of every call.  *)
(***************************************************************************)
EXTENDS FatVolume

VARIABLE tree  \* auxiliary: the tree of files that is on the disk

(* The tree of volume v while call o is in progress.  The target of a call *)
(* that has begun to take it apart is torn, and a directory being removed  *)
(* is no longer part of the tree.                                          *)
TornBy(o, l) ==
  /\ o.what \in {"fs_write", "fs_delete", "fs_rmdir"}
  /\ o.pc \in {"free", "alloc", "link", "fill", "entry"}
  /\ l = o.loc

StoredNode(v, o, l) ==
  LET e == EntryAt(v, l)
  IN  CASE TornBy(o, l) -> [kind |-> "torn"]
        [] ~TornBy(o, l) /\ e.isdir -> [kind |-> "dir", id |-> e.first]
        [] ~TornBy(o, l) /\ ~e.isdir -> [kind |-> "file", bytes |-> fs_read(v, e, e.size)]

StoredTree(v, o) ==
  LET removed == IF o.what = "fs_rmdir" /\ o.pc \in {"free", "entry"}
                 THEN {EntryAt(v, o.loc).first} ELSE {}
  IN  [d \in Dirs(v) \ removed |->
         [n \in {EntryAt(v, l).name : l \in Live(v, d)} |->
            StoredNode(v, o, CHOOSE l \in Live(v, d) : EntryAt(v, l).name = n)]]

CurrentCall ==
  IF op.what \in {"idle", "fs_init"}
  THEN [what |-> "idle", dir |-> ROOT, name |-> "free", arg |-> <<>>,
        to |-> "free"]
  ELSE [what |-> op.what, dir |-> op.dir, name |-> op.leaf, arg |-> op.arg,
        to |-> op.to]

StoreInit == Init /\ tree = StoredTree(OnDisk, op)
StoreNext == Next /\ \E v \in {OnDisk'} : tree' = StoredTree(v, op')
StoreSpec == StoreInit /\ [][StoreNext]_<<vars, tree>>
FairStoreSpec == StoreSpec /\ Fairness

FS == INSTANCE FileStore WITH req <- CurrentCall

(* Every call does to the tree of files what FileStore says, whatever      *)
(* clusters it allocates, links and frees on the way; no file other than   *)
(* its target changes, even for the length of one sector write.            *)
ImplementsFileStore == FS!Spec
=============================================================================
