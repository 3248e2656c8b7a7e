------------------------------ MODULE FatVolume ------------------------------
(***************************************************************************)
(* The RinkFS16 volume of kernel/fs.c and the operations on it, one sector *)
(* write per step.                                                         *)
(*                                                                         *)
(* A call is in progress in op from Call until it returns; every step of   *)
(* it is one write to the disk (or a decision between two writes), so a    *)
(* Crash can fall between any two writes.  fat_write is two writes: the    *)
(* sector of FAT1 and then, as the pending step Mirror, the same bytes to  *)
(* FAT2.  Reading never changes the disk, so scans, chain walks and        *)
(* fs_read are operators on the current state.                             *)
(*                                                                         *)
(* Names are 8.3 names after split_name; a parent directory is any         *)
(* directory that resolve_parent can reach (0 is the root, otherwise its   *)
(* first cluster, as in dir_ref_t).  A path that does not resolve makes    *)
(* every operation return -1 at once, with no effect.                      *)
(***************************************************************************)
EXTENDS Integers, FiniteSets, SequencesExt

CONSTANTS
  NCLUSTERS,   \* FS_TOTAL_DATA_CLUSTERS; data clusters are 2 .. NCLUSTERS + 1
  ROOT_ENTRIES,\* FS_ROOT_ENTRIES
  EPC,         \* FS_ENTRIES_PER_CLUSTER
  BPS,         \* FS_BYTES_PER_SECTOR, also the size of a cluster
  FPS,         \* FAT entries in a sector
  Names,       \* the 8.3 names users type
  Payloads,    \* the data given to fs_write and fs_append
  Ops,         \* the operations users call
  MaxCrashes   \* bound on power failures

FREE == 0      \* FS_CLUSTER_FREE
BAD  == 65527  \* FS_CLUSTER_BAD
EOC  == 65535  \* FS_CLUSTER_EOC
ROOT == 0      \* the root as a directory reference, and as a location
NONE == -2
NoMirror == [sector |-> NONE, buf |-> <<>>]

(* A subdirectory cluster must hold "." and ".." and at least one entry;   *)
(* the cluster numbers of a 16-bit FAT stay below its marks.               *)
ASSUME VolumeAssumption ==
  /\ NCLUSTERS \in Nat \ {0} /\ ROOT_ENTRIES \in Nat \ {0}
  /\ NCLUSTERS + 1 < BAD
  /\ EPC \in Nat /\ EPC > 2
  /\ BPS \in Nat \ {0} /\ FPS \in Nat \ {0}
  /\ MaxCrashes \in Nat
  /\ Names \cap {"free", "deleted", ".", ".."} = {}
  /\ \A s \in Payloads : s \in Seq(Nat)
  /\ Ops \subseteq {"fs_create", "fs_write", "fs_append", "fs_delete",
                    "fs_rename", "fs_mkdir", "fs_rmdir", "fs_chdir"}

VARIABLES
  marker,    \* disk: the RINKFS16 marker is in the boot sector
  fat1,      \* disk: FAT copy 1, the only one that is read
  fat2,      \* disk: FAT copy 2
  rootDisk,  \* disk: the root directory area
  data,      \* disk: the data clusters
  root,      \* RAM: the cached root directory
  cwd,       \* RAM: cwd_is_root and cwd_cluster
  mirror,    \* the sector that fat_write has still to write to FAT2, and its buffer
  op,        \* the call in progress: its arguments and local variables
  ret,       \* what the last call returned
  crashes    \* number of power failures so far

disk == <<marker, fat1, fat2, rootDisk, data>>
vars == <<marker, fat1, fat2, rootDisk, data, root, cwd, mirror, op, ret, crashes>>

DataClusters == 2 .. NCLUSTERS + 1
FatIndex     == 0 .. NCLUSTERS + 1
RootIndex    == 0 .. ROOT_ENTRIES - 1
Dirent == [name : Names \cup {"free", "deleted", ".", ".."},
           isdir : BOOLEAN, first : {0} \cup DataClusters, size : Nat]

FreeEntry == [name |-> "free", isdir |-> FALSE, first |-> 0, size |-> 0]
(* A sector of zeros, as a directory and as file data.                     *)
ZeroDir  == [i \in 0 .. EPC - 1 |-> FreeEntry]
ZeroFile == [b \in 1 .. BPS |-> 0]

Idle == [what |-> "idle", pc |-> "idle", dir |-> ROOT, leaf |-> "free", arg |-> <<>>, to |-> "free",
         loc |-> [c |-> ROOT, i |-> 0], d |-> FreeEntry,
         first |-> 0, prev |-> 0, c |-> 0, written |-> 0, res |-> 0]

-----------------------------------------------------------------------------
(* Reading a volume v: its FAT1, root directory and data clusters.  The    *)
(* running kernel sees the cached root; the disk alone has rootDisk.       *)

Kernel == [fat |-> fat1, root |-> root, data |-> data]
OnDisk == [fat |-> fat1, root |-> rootDisk, data |-> data]

IsData(c) == c >= 2 /\ c < 65528   \* FS_FIRST_DATA_CLUSTER, FS_CLUSTER_EOC_MIN

(* One link forward, 0 once the chain is over.                             *)
LinkOf(fat, c) == IF IsData(c) THEN fat[c] ELSE 0

(* cluster_at_index(first, i) for every i.                                 *)
cluster_at_index(v, first) ==
  LET at[i \in 0 .. NCLUSTERS] == IF i = 0 THEN first ELSE LinkOf(v.fat, at[i - 1])
  IN  at

(* The data clusters of a chain, in order: once it is over it stays over.  *)
Chain(v, first) ==
  LET at == cluster_at_index(v, first)
  IN  [i \in 1 .. Cardinality({k \in 0 .. NCLUSTERS : IsData(at[k])}) |-> at[i - 1]]

ChainSet(v, first) == ToSet(Chain(v, first))

(* dir_iter_next: the entry locations of a directory, in scan order.       *)
dir_iter(v, dir) ==
  IF dir = ROOT
  THEN [p \in 1 .. ROOT_ENTRIES |-> [c |-> ROOT, i |-> p - 1]]
  ELSE LET chain == Chain(v, dir)
       IN  [p \in 1 .. EPC * Len(chain) |->
              [c |-> chain[((p - 1) \div EPC) + 1], i |-> (p - 1) % EPC]]

EntryAt(v, l) == IF l.c = ROOT THEN v.root[l.i] ELSE v.data[l.c][l.i]
Used(e)  == e.name \notin {"free", "deleted"}
IsDot(e) == e.name \in {".", ".."}

(* dir_scan: where in the scan the first entry called n is, 0 if nowhere.  *)
dir_scan(v, dir, n) ==
  SelectInSeq(dir_iter(v, dir),
              LAMBDA l : Used(EntryAt(v, l)) /\ EntryAt(v, l).name = n)

(* The locations of the live entries of a directory, other than . and ..   *)
(* A cluster that dir_find_free has linked and not yet zeroed holds none;  *)
(* the code itself never reads it in that moment.                          *)
Live(v, dir) ==
  {l \in ToSet(dir_iter(v, dir)) :
     /\ l.c = ROOT \/ 0 \in DOMAIN v.data[l.c]
     /\ Used(EntryAt(v, l)) /\ ~IsDot(EntryAt(v, l))}

Subdirs(v, dir) ==
  {EntryAt(v, l).first : l \in {m \in Live(v, dir) : EntryAt(v, m).isdir}}

(* The directories that walk_path can reach.                               *)
Dirs(v) ==
  LET reach[k \in 0 .. NCLUSTERS] ==
        IF k = 0 THEN {ROOT} ELSE UNION {{d} \cup Subdirs(v, d) : d \in reach[k - 1]}
  IN  reach[NCLUSTERS]

LesserOf(a, b) == IF a < b THEN a ELSE b

(* fs_read: the bytes it copies out for entry e with a buffer of max bytes; *)
(* it stops early where the chain is shorter than the size says.           *)
fs_read(v, e, max) ==
  LET size  == LesserOf(e.size, max)
      chain == Chain(v, e.first)
  IN  [b \in 1 .. LesserOf(size, BPS * Len(chain)) |->
         v.data[chain[((b - 1) \div BPS) + 1]][((b - 1) % BPS) + 1]]

(* Variant: everything but an end-of-chain mark counts as free.            *)
fat_alloc_cluster_NotEnd ==
  LET free == {c \in DataClusters : fat1[c] # EOC}
  IN  IF free = {} THEN 0 ELSE Min(free)

(* The cluster fat_alloc_cluster takes: the first free one, 0 when full.   *)
fat_alloc_cluster ==
  LET free == {c \in DataClusters : fat1[c] = FREE}
  IN  IF free = {} THEN 0 ELSE Min(free)

-----------------------------------------------------------------------------
(* Writing the volume.                                                     *)

(* fat_write, first half: the sector of FAT1.                              *)
fat_write(c, value) ==
  /\ fat1' = [fat1 EXCEPT ![c] = value]
  /\ mirror' = [sector |-> c \div FPS, buf |-> fat1']

(* Variant: the sector before the right one.                               *)
InMirrored_Before(c) == c \div FPS = mirror.sector - 1

InMirrored(c) == c \div FPS = mirror.sector

(* fat_write, second half: the sector goes from the buffer to FAT2.        *)
Mirror ==
  /\ mirror # NoMirror
  /\ fat2' = [c \in FatIndex |-> IF InMirrored(c) THEN mirror.buf[c] ELSE fat2[c]]
  /\ mirror' = NoMirror
  /\ UNCHANGED <<marker, fat1, rootDisk, data, root, cwd, op, ret, crashes>>

root_save == rootDisk' = root'

(* dir_write_entry: the cached root and root_save, or a cluster's sector.   *)
dir_write_entry(l, e) ==
  IF l.c = ROOT
  THEN /\ root' = [root EXCEPT ![l.i] = e]
       /\ root_save
       /\ UNCHANGED data
  ELSE /\ data' = [data EXCEPT ![l.c][l.i] = e]
       /\ UNCHANGED <<root, rootDisk>>

Return(r) == op' = Idle /\ ret' = r

(* The step of call w at label l that is about to run.                     *)
At(w, l) == op.what = w /\ op.pc = l /\ mirror = NoMirror

(* What no step of a call changes.                                         *)
Frame == UNCHANGED <<marker, fat2, cwd, crashes>>
NoWrite == UNCHANGED <<fat1, mirror, rootDisk, data, root>>
FatOnly == UNCHANGED <<rootDisk, data, root>>
DataOnly == UNCHANGED <<fat1, mirror, rootDisk, root>>

-----------------------------------------------------------------------------
(* fs_init.                                                                *)

(* The marker is there: root_load.                                         *)
Mount ==
  /\ At("fs_init", "start") /\ marker
  /\ root' = rootDisk /\ cwd' = ROOT
  /\ op' = Idle
  /\ UNCHANGED <<marker, fat1, fat2, rootDisk, data, mirror, ret, crashes>>

(* No marker: write the boot sector, then zero both FATs sector by sector. *)
FormatBoot ==
  /\ At("fs_init", "start") /\ ~marker
  /\ marker' = TRUE
  /\ op' = [op EXCEPT !.pc = "format_fat"]
  /\ UNCHANGED <<fat1, fat2, rootDisk, data, root, cwd, mirror, ret, crashes>>

FormatFat ==
  /\ At("fs_init", "format_fat")
  /\ fat1' = [c \in FatIndex |-> IF c \div FPS = op.c THEN FREE ELSE fat1[c]]
  /\ mirror' = [sector |-> op.c, buf |-> fat1']
  /\ op' = [op EXCEPT !.c = @ + 1,
              !.pc = IF (op.c + 1) * FPS > NCLUSTERS + 1 THEN "format_0" ELSE @]
  /\ FatOnly /\ Frame /\ UNCHANGED ret

FormatReserved ==
  /\ \/ /\ At("fs_init", "format_0")
        /\ fat_write(0, BAD) /\ op' = [op EXCEPT !.pc = "format_1"]
     \/ /\ At("fs_init", "format_1")
        /\ fat_write(1, EOC) /\ op' = [op EXCEPT !.pc = "format_root"]
  /\ FatOnly /\ Frame /\ UNCHANGED ret

FormatRoot ==
  /\ At("fs_init", "format_root")
  /\ root' = [i \in RootIndex |-> FreeEntry] /\ root_save
  /\ cwd' = ROOT /\ op' = Idle
  /\ UNCHANGED <<marker, fat1, fat2, data, mirror, ret, crashes>>

fs_init == Mount \/ FormatBoot \/ FormatFat \/ FormatReserved \/ FormatRoot

-----------------------------------------------------------------------------
(* Steps shared by several operations.                                     *)

(* dir_find_free: the first free slot; else a subdirectory grows by a      *)
(* cluster, which is allocated (here), linked, and only then zeroed.       *)
(* op.d is the entry that will be written to the slot.                     *)
FindFree ==
  /\ op.pc = "find_free" /\ mirror = NoMirror
  /\ LET slots == dir_iter(Kernel, op.dir)
         p     == SelectInSeq(slots, LAMBDA l : ~Used(EntryAt(Kernel, l)))
         c     == fat_alloc_cluster
     IN  \/ /\ p # 0
            /\ op' = [op EXCEPT !.loc = slots[p], !.pc = "create"]
            /\ NoWrite /\ UNCHANGED ret
         \/ /\ p = 0 /\ (op.dir = ROOT \/ c = 0)
            /\ IF op.what = "fs_mkdir"
               THEN op' = [op EXCEPT !.c = op.d.first, !.pc = "free"] /\ UNCHANGED ret
               ELSE Return(-1)
            /\ NoWrite
         \/ /\ p = 0 /\ op.dir # ROOT /\ c # 0
            /\ fat_write(c, EOC)
            /\ op' = [op EXCEPT !.prev = slots[Len(slots)].c, !.c = c, !.pc = "grow_link"]
            /\ FatOnly /\ UNCHANGED ret
  /\ Frame

GrowLink ==
  /\ op.pc = "grow_link" /\ mirror = NoMirror
  /\ fat_write(op.prev, op.c)
  /\ op' = [op EXCEPT !.pc = "grow_zero"]
  /\ FatOnly /\ Frame /\ UNCHANGED ret

GrowZero ==
  /\ op.pc = "grow_zero" /\ mirror = NoMirror
  /\ data' = [data EXCEPT ![op.c] = ZeroDir]
  /\ op' = [op EXCEPT !.loc = [c |-> op.c, i |-> 0], !.pc = "create"]
  /\ DataOnly /\ Frame /\ UNCHANGED ret

(* The entry of a new file or directory.  fs_write and fs_append called    *)
(* fs_create and now scan again, which finds the entry.                    *)
CreateEntry ==
  /\ op.pc = "create" /\ mirror = NoMirror
  /\ dir_write_entry(op.loc, op.d)
  /\ IF op.what \in {"fs_write", "fs_append"}
     THEN op' = [op EXCEPT !.pc = "start", !.prev = 0, !.c = 0] /\ UNCHANGED ret
     ELSE Return(0)
  /\ Frame /\ UNCHANGED <<fat1, mirror>>

(* The last write of a call: the changed entry goes back to its slot.      *)
WriteBack ==
  /\ op.pc = "entry" /\ mirror = NoMirror
  /\ dir_write_entry(op.loc, op.d)
  /\ Return(op.res)
  /\ Frame /\ UNCHANGED <<fat1, mirror>>

(* Variants: the cursor stays; only the first cluster is freed.            *)
NextToFree_Same == op.c
NextToFree_None == 0

(* fat_free_chain, one iteration: op.c is the cursor; its link is read      *)
(* before the entry is cleared.                                            *)
NextToFree == fat1[op.c]

FreeNext ==
  /\ op.pc = "free" /\ mirror = NoMirror /\ IsData(op.c)
  /\ fat_write(op.c, FREE)
  /\ op' = [op EXCEPT !.c = NextToFree]
  /\ FatOnly /\ Frame /\ UNCHANGED ret

(* fat_free_chain is done; what its caller does next.                      *)
FreeDone ==
  /\ op.pc = "free" /\ mirror = NoMirror /\ ~IsData(op.c)
  /\ CASE op.what = "fs_mkdir" -> Return(-1)
       [] op.what \in {"fs_delete", "fs_rmdir"} ->
            /\ op' = [op EXCEPT !.d.name = "deleted", !.d.first = 0, !.d.size = 0,
                                !.pc = "entry"]
            /\ UNCHANGED ret
       [] op.what = "fs_write" ->
            /\ op' = [op EXCEPT !.d.first = 0, !.d.size = 0,
                                !.pc = IF op.res = -1 \/ op.arg = <<>>
                                       THEN "entry" ELSE "alloc"]
            /\ UNCHANGED ret
  /\ NoWrite /\ Frame

(* Variants: the size forgets what the file held before, or counts what    *)
(* did not fit.                                                            *)
NewSize_OnlyWritten == op.written
NewSize_AsIfAll == op.d.size + Len(op.arg)

NewSize == op.d.size + op.written

(* The cluster loop of fs_write and fs_append: all data is written, or the *)
(* disk is full, or one more cluster is taken.                             *)
AllocDone ==
  /\ op.pc = "alloc" /\ mirror = NoMirror
  /\ op.written = Len(op.arg)
  /\ op' = [op EXCEPT !.d.first = op.first, !.d.size = NewSize, !.pc = "entry"]
  /\ NoWrite /\ Frame /\ UNCHANGED ret

DiskFull ==
  /\ op.pc = "alloc" /\ mirror = NoMirror
  /\ op.written < Len(op.arg) /\ fat_alloc_cluster = 0
  /\ op' = IF op.what = "fs_write"
           THEN [op EXCEPT !.c = op.first, !.res = -1, !.pc = "free"]
           ELSE [op EXCEPT !.d.first = op.first, !.d.size = NewSize,
                           !.res = -1, !.pc = "entry"]
  /\ NoWrite /\ Frame /\ UNCHANGED ret

Alloc ==
  /\ op.pc = "alloc" /\ mirror = NoMirror
  /\ op.written < Len(op.arg) /\ fat_alloc_cluster # 0
  /\ fat_write(fat_alloc_cluster, EOC)
  /\ op' = [op EXCEPT !.c = fat_alloc_cluster,
                      !.pc = IF op.first # 0 /\ op.prev # 0 THEN "link" ELSE "fill",
                      !.first = IF @ = 0 THEN fat_alloc_cluster ELSE @]
  /\ FatOnly /\ Frame /\ UNCHANGED ret

(* Variant: every cluster is linked behind the first.                      *)
LinkFrom_First == op.first

LinkFrom == op.prev

Link ==
  /\ op.pc = "link" /\ mirror = NoMirror
  /\ fat_write(LinkFrom, op.c)
  /\ op' = [op EXCEPT !.pc = "fill"]
  /\ FatOnly /\ Frame /\ UNCHANGED ret

(* sector_buf: the next n bytes of the data, then zeros.                   *)
SectorBuf(n) == [b \in 1 .. BPS |-> IF b <= n THEN op.arg[op.written + b] ELSE 0]

Fill ==
  /\ op.pc = "fill" /\ mirror = NoMirror
  /\ LET chunk == LesserOf(Len(op.arg) - op.written, BPS)
     IN  /\ data' = [data EXCEPT ![op.c] = SectorBuf(chunk)]
         /\ op' = [op EXCEPT !.prev = op.c, !.written = @ + chunk, !.pc = "alloc"]
  /\ DataOnly /\ Frame /\ UNCHANGED ret

-----------------------------------------------------------------------------
(* The operations, up to their first write.                                *)

NewEntry(n, isdir, first) ==
  [name |-> n, isdir |-> isdir, first |-> first, size |-> 0]

Found == dir_scan(Kernel, op.dir, op.leaf) # 0
FoundLoc == dir_iter(Kernel, op.dir)[dir_scan(Kernel, op.dir, op.leaf)]
FoundEntry == EntryAt(Kernel, FoundLoc)

Fail == Return(-1) /\ NoWrite /\ Frame

(* fs_create, also when fs_write or fs_append call it.                     *)
fs_create ==
  /\ op.what \in {"fs_create", "fs_write", "fs_append"}
  /\ op.pc = "start" /\ mirror = NoMirror
  /\ ~Found
  /\ op' = [op EXCEPT !.d = NewEntry(op.leaf, FALSE, 0), !.pc = "find_free"]
  /\ NoWrite /\ Frame /\ UNCHANGED ret

fs_create_exists == At("fs_create", "start") /\ Found /\ Fail

fs_write ==
  /\ At("fs_write", "start") /\ Found
  /\ \/ FoundEntry.isdir /\ Fail
     \/ /\ ~FoundEntry.isdir
        /\ op' = [op EXCEPT !.loc = FoundLoc, !.d = FoundEntry,
                            !.c = FoundEntry.first, !.pc = "free"]
        /\ NoWrite /\ Frame /\ UNCHANGED ret

fs_append ==
  /\ At("fs_append", "start") /\ Found
  /\ LET d    == FoundEntry
         last == cluster_at_index(Kernel, d.first)[(d.size - 1) \div BPS]
         off  == d.size % BPS
         next == [op EXCEPT !.loc = FoundLoc, !.d = d, !.first = d.first, !.pc = "alloc"]
     IN  \/ (d.isdir \/ (op.arg # <<>> /\ d.size > 0 /\ last = 0)) /\ Fail
         \/ ~d.isdir /\ op.arg = <<>> /\ Return(0) /\ NoWrite /\ Frame
         \/ /\ ~d.isdir /\ op.arg # <<>> /\ d.size = 0
            /\ op' = next
            /\ NoWrite /\ Frame /\ UNCHANGED ret
         \/ /\ ~d.isdir /\ op.arg # <<>> /\ d.size > 0 /\ last # 0 /\ off = 0
            /\ op' = [next EXCEPT !.prev = last]
            /\ NoWrite /\ Frame /\ UNCHANGED ret
         \/ /\ ~d.isdir /\ op.arg # <<>> /\ d.size > 0 /\ last # 0 /\ off > 0
            /\ LET chunk == LesserOf(Len(op.arg), BPS - off)
               IN  /\ data' = [data EXCEPT ![last] =
                                 [b \in 1 .. BPS |->
                                    IF b > off /\ b <= off + chunk THEN op.arg[b - off] ELSE @[b]]]
                   /\ op' = [next EXCEPT !.prev = last, !.written = chunk]
            /\ DataOnly /\ Frame /\ UNCHANGED ret

fs_delete ==
  /\ At("fs_delete", "start")
  /\ \/ ~Found /\ Fail
     \/ Found /\ FoundEntry.isdir /\ Fail
     \/ /\ Found /\ ~FoundEntry.isdir
        /\ op' = [op EXCEPT !.loc = FoundLoc, !.d = FoundEntry,
                            !.c = FoundEntry.first, !.pc = "free"]
        /\ NoWrite /\ Frame /\ UNCHANGED ret

Renamable == Found /\ dir_scan(Kernel, op.dir, op.to) = 0

(* fs_rename within one directory, to the name op.to.                      *)
fs_rename ==
  /\ At("fs_rename", "start")
  /\ \/ ~Renamable /\ Fail
     \/ /\ Renamable
        /\ op' = [op EXCEPT !.loc = FoundLoc, !.d = [FoundEntry EXCEPT !.name = op.to],
                            !.pc = "entry"]
        /\ NoWrite /\ Frame /\ UNCHANGED ret

(* fs_mkdir: take a cluster, zero it, write "." and "..", then the entry.  *)
fs_mkdir ==
  /\ At("fs_mkdir", "start")
  /\ \/ (Found \/ fat_alloc_cluster = 0) /\ Fail
     \/ /\ ~Found /\ fat_alloc_cluster # 0
        /\ fat_write(fat_alloc_cluster, EOC)
        /\ op' = [op EXCEPT !.c = fat_alloc_cluster, !.pc = "mkdir_zero"]
        /\ FatOnly /\ Frame /\ UNCHANGED ret

MkdirZero ==
  /\ At("fs_mkdir", "mkdir_zero")
  /\ data' = [data EXCEPT ![op.c] = ZeroDir]
  /\ op' = [op EXCEPT !.pc = "mkdir_dot"]
  /\ DataOnly /\ Frame /\ UNCHANGED ret

MkdirDot ==
  /\ At("fs_mkdir", "mkdir_dot")
  /\ dir_write_entry([c |-> op.c, i |-> 0], NewEntry(".", TRUE, op.c))
  /\ op' = [op EXCEPT !.pc = "mkdir_dotdot"]
  /\ Frame /\ UNCHANGED <<fat1, mirror, ret>>

(* Variant: ".." of every directory means the root.                        *)
DotDotCluster_Root == ROOT

DotDotCluster == op.dir

MkdirDotDot ==
  /\ At("fs_mkdir", "mkdir_dotdot")
  /\ dir_write_entry([c |-> op.c, i |-> 1], NewEntry("..", TRUE, DotDotCluster))
  /\ op' = [op EXCEPT !.d = NewEntry(op.leaf, TRUE, op.c), !.pc = "find_free"]
  /\ Frame /\ UNCHANGED <<fat1, mirror, ret>>

Empty(dir) == \A l \in ToSet(dir_iter(Kernel, dir)) :
                Used(EntryAt(Kernel, l)) => IsDot(EntryAt(Kernel, l))

(* Variant: the current directory may be removed.                          *)
Removable_Cwd == Found /\ FoundEntry.isdir /\ Empty(FoundEntry.first)

(* fs_rmdir refuses the current directory and one that is not empty.       *)
Removable == /\ Found /\ FoundEntry.isdir
             /\ FoundEntry.first # cwd
             /\ Empty(FoundEntry.first)

fs_rmdir ==
  /\ At("fs_rmdir", "start")
  /\ \/ ~Removable /\ Fail
     \/ /\ Removable
        /\ op' = [op EXCEPT !.loc = FoundLoc, !.d = FoundEntry,
                            !.c = FoundEntry.first, !.pc = "free"]
        /\ NoWrite /\ Frame /\ UNCHANGED ret

-----------------------------------------------------------------------------
(* The disk image is zeros behind the kernel (Makefile, truncate) and the  *)
(* kernel's static variables are zero; the kernel task runs fs_init first. *)
Init ==
  /\ marker = FALSE
  /\ fat1 = [c \in FatIndex |-> FREE] /\ fat2 = fat1
  /\ rootDisk = [i \in RootIndex |-> FreeEntry] /\ root = rootDisk
  /\ data = [c \in DataClusters |-> ZeroFile]
  /\ cwd = ROOT /\ mirror = NoMirror
  /\ op = [Idle EXCEPT !.what = "fs_init", !.pc = "start"]
  /\ ret = 0 /\ crashes = 0

(* A call by the shell, with a path that resolves to a directory.          *)
Call ==
  /\ op = Idle /\ mirror = NoMirror
  /\ \E what \in Ops \ {"fs_chdir"}, dir \in Dirs(Kernel), leaf \in Names :
     \E arg \in IF what \in {"fs_write", "fs_append"} THEN Payloads ELSE {<<>>},
        to  \in IF what = "fs_rename" THEN Names ELSE {"free"} :
       op' = [Idle EXCEPT !.what = what, !.pc = "start", !.dir = dir,
                          !.leaf = leaf, !.arg = arg, !.to = to]
  /\ ret' = 0
  /\ UNCHANGED <<marker, fat1, fat2, rootDisk, data, root, cwd, mirror, crashes>>

fs_chdir ==
  /\ "fs_chdir" \in Ops /\ op = Idle /\ mirror = NoMirror
  /\ cwd' \in Dirs(Kernel)
  /\ ret' = 0
  /\ UNCHANGED <<marker, fat1, fat2, rootDisk, data, root, mirror, op, crashes>>

(* Power fails, or the shell reboots the machine: RAM is lost, the disk    *)
(* stays as it is, and fs_init runs again.                                 *)
Crash ==
  /\ crashes < MaxCrashes
  /\ crashes' = crashes + 1
  /\ root' = [i \in RootIndex |-> FreeEntry]
  /\ cwd' = ROOT /\ mirror' = NoMirror /\ ret' = 0
  /\ op' = [Idle EXCEPT !.what = "fs_init", !.pc = "start"]
  /\ UNCHANGED disk

(* One step of the call in progress.                                       *)
Step ==
  \/ Mirror \/ fs_init
  \/ FindFree \/ GrowLink \/ GrowZero \/ CreateEntry \/ WriteBack
  \/ FreeNext \/ FreeDone \/ AllocDone \/ DiskFull \/ Alloc \/ Link \/ Fill
  \/ fs_create \/ fs_create_exists \/ fs_write \/ fs_append \/ fs_delete
  \/ fs_rename \/ fs_mkdir \/ MkdirZero \/ MkdirDot \/ MkdirDotDot \/ fs_rmdir

Next == Call \/ fs_chdir \/ Step \/ Crash

Spec == Init /\ [][Next]_vars

(* A call in progress is executed: the shell and kernel tasks keep         *)
(* running.  This is WF_vars(Step) with ENABLED Step written out, for a    *)
(* call in progress has a next step; one without would be a deadlock.      *)
InProgress == op # Idle \/ mirror # NoMirror
Fairness == []<>~InProgress \/ []<><<Step>>_vars
FairSpec == Spec /\ Fairness

-----------------------------------------------------------------------------
(* Properties.                                                             *)

(* FAT entries, directory entries and sectors are well formed.             *)
TypeOK ==
  /\ marker \in BOOLEAN
  /\ fat1 \in [FatIndex -> {FREE, BAD, EOC} \cup DataClusters]
  /\ fat2 \in [FatIndex -> {FREE, BAD, EOC} \cup DataClusters]
  /\ rootDisk \in [RootIndex -> Dirent] /\ root \in [RootIndex -> Dirent]
  /\ \A c \in DataClusters : \/ data[c] \in [0 .. EPC - 1 -> Dirent]
                             \/ data[c] \in [1 .. BPS -> Nat]
  /\ cwd \in {ROOT} \cup DataClusters
  /\ \/ mirror = NoMirror
     \/ mirror \in [sector : Nat, buf : [FatIndex -> {FREE, BAD, EOC} \cup DataClusters]]
  /\ ret \in {0, -1} /\ crashes \in 0 .. MaxCrashes

Quiet == op = Idle /\ mirror = NoMirror

(* The live entries of the whole volume, by location.                      *)
Files == UNION {Live(OnDisk, d) : d \in Dirs(OnDisk)}
Entry(l) == EntryAt(OnDisk, l)

(* No cluster belongs to two files or directories, at any moment of any    *)
(* call: neither on the disk nor to the chain a call is building.          *)
ChainsDisjoint ==
  /\ \A k, l \in Files :
       k # l => ChainSet(OnDisk, Entry(k).first) \cap ChainSet(OnDisk, Entry(l).first) = {}
  /\ \A k \in Files :
       op.pc \in {"link", "fill", "alloc"} /\ k # op.loc =>
         ChainSet(OnDisk, Entry(k).first) \cap (ChainSet(OnDisk, op.first) \cup {op.c}) = {}

(* Between calls the allocated clusters are exactly the clusters of live   *)
(* files and directories: nothing leaks, whichever call failed half-way,   *)
(* and every chain ends with an end-of-chain mark.                         *)
NothingLeaks ==
  Quiet =>
    /\ {c \in DataClusters : fat1[c] # FREE} =
         UNION {ChainSet(OnDisk, Entry(l).first) : l \in Files}
    /\ \A l \in Files : \A c \in ChainSet(OnDisk, Entry(l).first) : fat1[c] # FREE

(* Between calls a file has exactly the clusters its size needs, so        *)
(* fs_append finds its last cluster and fs_read never stops short.         *)
SizesMatchChains ==
  Quiet => \A l \in Files :
    LET e == Entry(l)
    IN  ~e.isdir => /\ Len(Chain(OnDisk, e.first)) = (e.size + BPS - 1) \div BPS
                    /\ Len(fs_read(OnDisk, e, e.size)) = e.size

(* No entry refers to a free cluster or promises more bytes than its chain *)
(* holds.                                                                  *)
NothingDangles ==
  \A l \in Files :
    LET e == Entry(l)
    IN  /\ \A c \in ChainSet(OnDisk, e.first) : fat1[c] # FREE
        /\ ~e.isdir => Len(fs_read(OnDisk, e, e.size)) = e.size

(* Only fs_write, fs_delete and fs_rmdir, which free a chain before the    *)
(* entry changes, ever write a sector after which an entry dangles.  Any   *)
(* other call, and the format, can be cut off by a power failure anywhere. *)
DanglesOnlyByFreeing ==
  [][op.what \notin {"fs_write", "fs_delete", "fs_rmdir"} /\ disk' # disk /\ NothingDangles
       => NothingDangles']_vars

(* The directories form a tree: each one starts with "." for itself and    *)
(* ".." for the directory that holds its entry, which is what "cd .."      *)
(* follows.                                                                *)
DotsPointHome ==
  \A d \in Dirs(OnDisk) : \A l \in Live(OnDisk, d) :
    Entry(l).isdir /\ (Quiet \/ l # op.loc) =>
      LET c == Entry(l).first
      IN  /\ data[c][0] = NewEntry(".", TRUE, c)
          /\ data[c][1] = NewEntry("..", TRUE, d)

(* "FAT copy #2 always mirrors FAT copy #1 exactly - ... they can never    *)
(* drift apart" (fs.c, above fat_read), between two fat_writes.            *)
FatsMirrored == mirror = NoMirror => fat1 = fat2

(* A pending second write carries FAT1, and the copies differ at most in   *)
(* the sector that it will write.                                          *)
CatchesUp ==
  mirror # NoMirror =>
    /\ mirror.buf = fat1
    /\ \A c \in FatIndex : ~InMirrored(c) => fat1[c] = fat2[c]

Synced == FatsMirrored /\ CatchesUp

(* Copies in step, or to be in step after the second write, come to differ *)
(* in one way only: the power fails while fat_write has written FAT1's     *)
(* sector and not yet FAT2's.  Then they do differ, whatever the comment   *)
(* above fat_read says, and fs_init mounts them so.                        *)
DriftOnlyInsideFatWrite ==
  [][Synced => Synced' \/ (Crash /\ mirror # NoMirror)]_vars

(* Every call returns: no chain it follows is cyclic.                      *)
CallsReturn == (op # Idle) ~> (op = Idle)
=============================================================================
