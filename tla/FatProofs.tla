------------------------------ MODULE FatProofs ------------------------------
(***************************************************************************)
(* Proofs about FatVolume, for every size of the volume, every name and    *)
(* every payload.                                                          *)
(*                                                                         *)
(* The first part is about the two FAT copies: what fs.c promises of them, *)
(* "FAT copy #2 always mirrors FAT copy #1 exactly", holds between any two *)
(* fat_writes of any sequence of calls, and only a power failure between   *)
(* the two sector writes of one fat_write breaks it.  FatsMirrored is not  *)
(* inductive: nothing in it says that the buffer which fat_write still has *)
(* to write to FAT2 is the right one.  Synced says so.                     *)
(*                                                                         *)
(* The second part is about the volume itself: until the first power       *)
(* failure no cluster belongs to two files, none leaks, sizes and chains   *)
(* agree, directories form a tree, and only a call that frees a chain      *)
(* makes an entry dangle.  None of these is inductive.  VInv is: for some  *)
(* ghost g that gives each data cluster an owner, a position and a depth,  *)
(* the FAT, the entries and the local variables of the call in progress    *)
(* fit together (Volume and Progress below).  The ghost turns questions    *)
(* about walking chains and trees, which only induction answers, into      *)
(* facts about single links; the lemmas on chains and on Dirs go back from *)
(* the links to the walks.                                                 *)
(***************************************************************************)
EXTENDS FatVolume, FiniteSetTheorems, WellFoundedInduction, TLAPS

(* The copies are FATs of the volume's size.                               *)
FatShape ==
  /\ fat1 = [c \in FatIndex |-> fat1[c]]
  /\ fat2 = [c \in FatIndex |-> fat2[c]]

IInv ==
  /\ crashes \in Nat /\ FatShape
  /\ crashes = 0 => Synced

-----------------------------------------------------------------------------
(* The four things a step can do to the FATs.                              *)

LeavesFats == UNCHANGED <<fat1, fat2, mirror>>

(* A sector of FAT1 is written, with changes at entries of that sector.    *)
WritesFat1 ==
  /\ mirror = NoMirror /\ fat2' = fat2
  /\ fat1' = [c \in FatIndex |-> fat1'[c]]
  /\ mirror'.buf = fat1'
  /\ mirror' # NoMirror
  /\ \A c \in FatIndex : c \div FPS # mirror'.sector => fat1'[c] = fat1[c]

(* The volume has at least one FAT entry.                                  *)
LEMMA FatNotEmpty ==
  ASSUME NEW f, NEW g, f = [c \in FatIndex |-> g[c]]
  PROVE  f # <<>>
<1>1. 0 \in FatIndex
  BY VolumeAssumption DEF FatIndex
<1>2. DOMAIN f = FatIndex /\ DOMAIN <<>> = {}
  OBVIOUS
<1> QED  BY <1>1, <1>2

(* fat_write leaves a mirror write behind for the sector it changed.       *)
LEMMA FatWrite ==
  ASSUME FatShape, mirror = NoMirror, NEW c, NEW v, fat_write(c, v), fat2' = fat2
  PROVE  WritesFat1
<1>1. fat1' = [fat1 EXCEPT ![c] = v] /\ mirror' = [sector |-> c \div FPS, buf |-> fat1']
  BY DEF fat_write
<1>2. fat1' = [x \in FatIndex |-> fat1'[x]]
  BY <1>1 DEF FatShape
<1>3. mirror'.buf = fat1' /\ mirror'.sector = c \div FPS
  BY <1>1
<1>4. mirror' # NoMirror
  <2>1. fat1' # <<>>
    BY <1>2, FatNotEmpty
  <2> QED  BY <1>3, <2>1 DEF NoMirror
<1>5. \A x \in FatIndex : x \div FPS # c \div FPS => fat1'[x] = fat1[x]
  <2> SUFFICES ASSUME NEW x \in FatIndex, x \div FPS # c \div FPS
               PROVE  fat1'[x] = fat1[x]
    OBVIOUS
  <2>1. x # c
    OBVIOUS
  <2>2. x \in DOMAIN fat1
    BY DEF FatShape
  <2> QED  BY <1>1, <2>1, <2>2
<1> QED  BY <1>2, <1>3, <1>4, <1>5 DEF WritesFat1

(* fs_format leaves a mirror write behind for the sector it cleared.       *)
LEMMA FormatWrite ==
  ASSUME FatShape, FormatFat
  PROVE  WritesFat1 /\ crashes' = crashes
<1>1. /\ mirror = NoMirror /\ fat2' = fat2 /\ crashes' = crashes
      /\ fat1' = [c \in FatIndex |-> IF c \div FPS = op.c THEN FREE ELSE fat1[c]]
      /\ mirror' = [sector |-> op.c, buf |-> fat1']
  BY DEF FormatFat, At, Frame
<1>2. fat1' = [x \in FatIndex |-> fat1'[x]]
  BY <1>1
<1>3. mirror'.buf = fat1' /\ mirror'.sector = op.c
  BY <1>1
<1>4. mirror' # NoMirror
  <2>1. fat1' # <<>>
    BY <1>2, FatNotEmpty
  <2> QED  BY <1>3, <2>1 DEF NoMirror
<1>5. \A x \in FatIndex : x \div FPS # op.c => fat1'[x] = fat1[x]
  BY <1>1
<1> QED  BY <1>1, <1>2, <1>3, <1>4, <1>5 DEF WritesFat1

(* fs_init and every call, step by step.                                   *)
LEMMA InitSteps ==
  ASSUME FatShape, fs_init
  PROVE  (LeavesFats \/ WritesFat1) /\ crashes' = crashes
<1>1. CASE Mount \/ FormatBoot \/ FormatRoot
  BY <1>1 DEF Mount, FormatBoot, FormatRoot, LeavesFats
<1>2. CASE FormatFat
  BY <1>2, FormatWrite
<1>3. CASE FormatReserved
  <2>1. PICK c, v : fat_write(c, v) /\ mirror = NoMirror /\ fat2' = fat2 /\ crashes' = crashes
    BY <1>3 DEF FormatReserved, At, Frame
  <2> QED  BY <2>1, FatWrite
<1> QED  BY <1>1, <1>2, <1>3 DEF fs_init

(* The steps that write no FAT sector.                                     *)
LEMMA QuietSteps ==
  ASSUME \/ GrowZero \/ CreateEntry \/ WriteBack \/ FreeDone \/ AllocDone \/ DiskFull \/ Fill
         \/ fs_create \/ fs_create_exists \/ fs_write \/ fs_append \/ fs_delete \/ fs_rename
         \/ MkdirZero \/ MkdirDot \/ MkdirDotDot \/ fs_rmdir \/ Call \/ fs_chdir
         \/ UNCHANGED vars
  PROVE  LeavesFats /\ crashes' = crashes
<1>1. CASE GrowZero \/ CreateEntry \/ WriteBack \/ FreeDone \/ AllocDone \/ DiskFull \/ Fill
  BY <1>1 DEF GrowZero, CreateEntry, WriteBack, FreeDone, AllocDone, DiskFull, Fill,
     NoWrite, DataOnly, Frame, LeavesFats
<1>2. CASE fs_create \/ fs_create_exists \/ fs_write \/ fs_delete \/ fs_rename \/ fs_rmdir
  BY <1>2 DEF fs_create, fs_create_exists, fs_write, fs_delete, fs_rename, fs_rmdir,
     Fail, NoWrite, Frame, LeavesFats
<1>3. CASE fs_append
  BY <1>3 DEF fs_append, Fail, NoWrite, DataOnly, Frame, LeavesFats
<1>4. CASE MkdirZero \/ MkdirDot \/ MkdirDotDot
  BY <1>4 DEF MkdirZero, MkdirDot, MkdirDotDot, DataOnly, Frame, LeavesFats
<1>5. CASE Call \/ fs_chdir \/ UNCHANGED vars
  BY <1>5 DEF Call, fs_chdir, vars, LeavesFats
<1> QED  BY <1>1, <1>2, <1>3, <1>4, <1>5

(* The steps that may write one: allocating, linking and freeing.          *)
LEMMA FatSteps ==
  ASSUME FatShape, FindFree \/ GrowLink \/ FreeNext \/ Alloc \/ Link \/ fs_mkdir
  PROVE  (LeavesFats \/ WritesFat1) /\ crashes' = crashes
<1>1. /\ crashes' = crashes
      /\ \/ LeavesFats
         \/ mirror = NoMirror /\ fat2' = fat2 /\ \E c, v : fat_write(c, v)
  <2>1. CASE FindFree
    BY <2>1 DEF FindFree, NoWrite, Frame, LeavesFats
  <2>2. CASE GrowLink \/ FreeNext \/ Alloc \/ Link
    BY <2>2 DEF GrowLink, FreeNext, Alloc, Link, Frame
  <2>3. CASE fs_mkdir
    BY <2>3 DEF fs_mkdir, At, Fail, NoWrite, Frame, LeavesFats
  <2> QED  BY <2>1, <2>2, <2>3
<1> QED  BY <1>1, FatWrite

(* What any step does to the FATs.                                         *)
LEMMA Effects ==
  ASSUME FatShape, [Next]_vars
  PROVE  \/ (LeavesFats \/ WritesFat1 \/ Mirror) /\ crashes' = crashes
         \/ Crash
BY InitSteps, QuietSteps, FatSteps DEF Next, Step, Mirror

-----------------------------------------------------------------------------
(* Synced is kept by everything but a power failure.                       *)
LEMMA SyncedKept ==
  ASSUME FatShape, Synced, LeavesFats \/ WritesFat1 \/ Mirror
  PROVE  FatShape' /\ Synced'
<1>1. CASE LeavesFats
  BY <1>1 DEF LeavesFats, FatShape, Synced, FatsMirrored, CatchesUp, InMirrored
<1>2. CASE WritesFat1
  <2>1. FatShape'
    BY <1>2 DEF WritesFat1, FatShape
  <2>2. fat1 = fat2
    BY <1>2 DEF WritesFat1, Synced, FatsMirrored
  <2> QED  BY <1>2, <2>1, <2>2 DEF WritesFat1, Synced, FatsMirrored, CatchesUp, InMirrored
<1>3. CASE Mirror
  <2>1. /\ mirror # NoMirror /\ mirror' = NoMirror /\ fat1' = fat1
        /\ fat2' = [c \in FatIndex |-> IF InMirrored(c) THEN mirror.buf[c] ELSE fat2[c]]
    BY <1>3 DEF Mirror
  <2>2. fat2' = [c \in FatIndex |-> fat1[c]]
    BY <2>1 DEF Synced, CatchesUp
  <2>3. fat2' = fat1
    BY <2>2 DEF FatShape
  <2> QED  BY <2>1, <2>3 DEF FatShape, Synced, FatsMirrored, CatchesUp
<1> QED  BY <1>1, <1>2, <1>3

(* Both copies stay functions on the entries of the FAT.                   *)
LEMMA ShapeKept ==
  ASSUME FatShape, [Next]_vars
  PROVE  FatShape'
<1>1. CASE LeavesFats
  BY <1>1 DEF LeavesFats, FatShape
<1>2. CASE WritesFat1
  BY <1>2 DEF WritesFat1, FatShape
<1>3. CASE Mirror
  BY <1>3 DEF Mirror, FatShape
<1>4. CASE Crash
  BY <1>4 DEF Crash, FatShape, disk
<1> QED  BY <1>1, <1>2, <1>3, <1>4, Effects

(* A new volume's FATs are both zeros.                                     *)
LEMMA InitIInv == Init => IInv
<1> SUFFICES ASSUME Init  PROVE IInv  OBVIOUS
<1>1. FatShape
  BY DEF Init, FatShape
<1>2. Synced
  BY DEF Init, Synced, FatsMirrored, CatchesUp
<1> QED  BY <1>1, <1>2 DEF Init, IInv

(* Every step keeps the invariant: most of them leave both copies alone.   *)
LEMMA NextIInv == IInv /\ [Next]_vars => IInv'
<1> SUFFICES ASSUME IInv, [Next]_vars  PROVE IInv'
  OBVIOUS
<1>1. FatShape'
  BY ShapeKept DEF IInv
<1>2. CASE (LeavesFats \/ WritesFat1 \/ Mirror) /\ crashes' = crashes
  BY <1>1, <1>2, SyncedKept DEF IInv
<1>3. CASE Crash
  <2>1. crashes' \in Nat /\ crashes' # 0
    BY <1>3 DEF Crash, IInv
  <2> QED  BY <1>1, <2>1 DEF IInv
<1> QED  BY <1>2, <1>3, Effects DEF IInv

(* The inductive invariant holds in every reachable state.                 *)
THEOREM FatInvariant == Spec => []IInv
BY InitIInv, NextIInv, PTL DEF Spec

(* As long as the power does not fail, the two FAT copies are the same     *)
(* between any two fat_writes: formatting, allocating, linking, growing a  *)
(* directory, freeing a chain and every failing call included.             *)
THEOREM CopiesMirrored == Spec => [](crashes = 0 => FatsMirrored)
<1>1. IInv => (crashes = 0 => FatsMirrored)
  BY DEF IInv, Synced
<1> QED  BY <1>1, FatInvariant, PTL

(* The copies drift apart in one way only: the power fails while fat_write *)
(* has written FAT1's sector and not yet FAT2's.  Power failures at any    *)
(* other moment, and everything done after them, keep the copies in step.  *)
THEOREM FatsDriftInOneWay == Spec => DriftOnlyInsideFatWrite
<1>1. IInv /\ [Next]_vars => [Synced => Synced' \/ (Crash /\ mirror # NoMirror)]_vars
  <2> SUFFICES ASSUME IInv, [Next]_vars, Synced, ~(Crash /\ mirror # NoMirror)
               PROVE  Synced'
    OBVIOUS
  <2>1. FatShape
    BY DEF IInv
  <2>2. CASE LeavesFats \/ WritesFat1 \/ Mirror
    BY <2>1, <2>2, SyncedKept
  <2>3. CASE Crash
    <3>1. mirror = NoMirror /\ mirror' = NoMirror /\ fat1' = fat1 /\ fat2' = fat2
      BY <2>3 DEF Crash, disk
    <3> QED  BY <3>1 DEF Synced, FatsMirrored, CatchesUp
  <2> QED  BY <2>1, <2>2, <2>3, Effects
<1> QED  BY <1>1, FatInvariant, PTL DEF Spec, DriftOnlyInsideFatWrite

-----------------------------------------------------------------------------
(* The owners of the clusters.  A ghost g gives every data cluster an      *)
(* owner, its position in the owner's chain and the depth of the owner in  *)
(* the directory tree.  The owner is the location of a directory entry, or *)
(* the call in progress: NewTag is the chain that it builds or frees,      *)
(* GrowTag a cluster it has taken and not yet linked to a chain.           *)

Nobody  == [c |-> NONE, i |-> 0]
NewTag  == [c |-> NONE, i |-> 1]
GrowTag == [c |-> NONE, i |-> 2]

(* The slots of a directory cluster, where entries can be, and who can own *)
(* a cluster.                                                              *)
DirIndex == 0 .. EPC - 1
Loc == [c : {ROOT}, i : RootIndex] \cup [c : DataClusters, i : DirIndex]
Tag == Loc \cup {Nobody, NewTag, GrowTag}

(* The ghost: owner, position in the chain and depth of every data         *)
(* cluster.                                                                *)
Owners(g) ==
  /\ g.own \in [DataClusters -> Tag]
  /\ g.pos \in [DataClusters -> Nat]
  /\ g.lvl \in [DataClusters -> Nat]

(* Taken clusters have an owner, links stay with it, and no two clusters   *)
(* have the same place in a chain.                                         *)
Linked(v, g) ==
  /\ \A c \in DataClusters :
       /\ v.fat[c] = FREE <=> g.own[c] = Nobody
       /\ g.own[c] # Nobody =>
            \/ v.fat[c] = EOC
            \/ /\ v.fat[c] \in DataClusters
               /\ g.own[v.fat[c]] = g.own[c] /\ g.pos[v.fat[c]] = g.pos[c] + 1
       /\ g.own[c] # Nobody /\ g.pos[c] # 0 =>
            \E p \in DataClusters : g.own[p] = g.own[c] /\ v.fat[p] = c
  /\ \A c, d \in DataClusters :
       g.own[c] # Nobody /\ g.own[c] = g.own[d] /\ g.pos[c] = g.pos[d] => c = d

(* A cluster of a directory; u is one that is not zeroed yet.              *)
DirCluster(v, g, c) == g.own[c] \in Loc /\ EntryAt(v, g.own[c]).isdir
Slot(v, g, u, l) == l.c = ROOT \/ (DirCluster(v, g, l.c) /\ l.c # u)
Alive(v, g, u, l) ==
  l \in Loc /\ Slot(v, g, u, l) /\ Used(EntryAt(v, l)) /\ ~IsDot(EntryAt(v, l))

(* The directory that holds location l, and the depth of its entries.      *)
Home(v, g, l) == IF l.c = ROOT THEN ROOT ELSE EntryAt(v, g.own[l.c]).first
Depth(g, l) == IF l.c = ROOT THEN 1 ELSE g.lvl[l.c] + 1

(* A cluster of entries.                                                   *)
DirBlock == [DirIndex -> Dirent]

(* The root and the clusters of directories hold entries.  What is left in *)
(* other clusters is file data or a directory without entries.             *)
Blocks(v, g, u) ==
  /\ v.root \in [RootIndex -> Dirent]
  /\ \A c \in DataClusters :
       /\ v.data[c] \in DirBlock \/ 0 \notin DOMAIN v.data[c]
       /\ DirCluster(v, g, c) /\ c # u => v.data[c] \in DirBlock
       /\ v.data[c] \in DirBlock /\ (~DirCluster(v, g, c) \/ c = u) =>
            \A i \in DirIndex : Used(v.data[c][i]) => IsDot(v.data[c][i])

(* t holds the locations whose chain the call in progress has given up.    *)
Owned(v, g, t, u) ==
  \A c \in DataClusters : g.own[c] \in Loc =>
    /\ Alive(v, g, u, g.own[c]) /\ g.own[c] \notin t
    /\ g.pos[c] = 0 => EntryAt(v, g.own[c]).first = c
    /\ g.lvl[c] = Depth(g, g.own[c])

(* An entry names the first cluster of its chain, or is a file without     *)
(* one.                                                                    *)
Heads(v, g, t, u) ==
  \A l \in Loc : Alive(v, g, u, l) /\ l \notin t =>
    \/ EntryAt(v, l).first = 0 /\ ~EntryAt(v, l).isdir
    \/ /\ EntryAt(v, l).first \in DataClusters
       /\ g.own[EntryAt(v, l).first] = l /\ g.pos[EntryAt(v, l).first] = 0

(* A directory begins with itself and its parent.                          *)
Dots(v, g, t, u) ==
  \A l \in Loc : Alive(v, g, u, l) /\ l \notin t /\ EntryAt(v, l).isdir =>
    /\ v.data[EntryAt(v, l).first][0] = NewEntry(".", TRUE, EntryAt(v, l).first)
    /\ v.data[EntryAt(v, l).first][1] = NewEntry("..", TRUE, Home(v, g, l))

(* The entry of a chain that is given up is still there, and what it names *)
(* belongs to no other entry.                                              *)
GivenUp(v, g, t, u) ==
  \A l \in t : /\ Alive(v, g, u, l)
               /\ EntryAt(v, l).first \in DataClusters =>
                    g.own[EntryAt(v, l).first] \notin Loc

(* The chain of owner w ends at position n.                                *)
EndsAt(v, g, w, n) ==
  \A c \in DataClusters : g.own[c] = w /\ v.fat[c] = EOC => g.pos[c] = n

(* The position of the cluster that holds the last of size bytes.          *)
LastPos(size) == (size - 1) \div BPS

(* z holds the locations whose size is about to be written.                *)
Sized(v, g, t, z, u) ==
  \A l \in Loc : Alive(v, g, u, l) /\ l \notin t /\ ~EntryAt(v, l).isdir =>
    LET e == EntryAt(v, l)
    IN  /\ e.first = 0 => e.size = 0
        /\ \A c \in DataClusters :
             g.own[c] = l /\ v.fat[c] = EOC => e.size <= BPS * (g.pos[c] + 1)
        /\ l \notin z =>
             (e.size = 0 => e.first = 0) /\ EndsAt(v, g, l, LastPos(e.size))

(* The volume is in order, but for what the call in progress is changing.  *)
Volume(v, g, t, z, u) ==
  /\ Owners(g) /\ Linked(v, g) /\ Blocks(v, g, u)
  /\ Owned(v, g, t, u) /\ Heads(v, g, t, u) /\ Dots(v, g, t, u)
  /\ GivenUp(v, g, t, u) /\ Sized(v, g, t, z, u)

-----------------------------------------------------------------------------
(* The call in progress.                                                   *)

(* Between the first cluster that it frees and its last write such a call  *)
(* has given up the chain of op.loc; until that write the entry has the    *)
(* old size.                                                               *)
Freeing(o) == /\ o.what \in {"fs_write", "fs_delete", "fs_rmdir"}
              /\ o.pc \in {"free", "alloc", "link", "fill", "entry"}
Appending(o) == o.what = "fs_append" /\ o.pc \in {"alloc", "link", "fill", "entry"}
Torn(o) == IF Freeing(o) THEN {o.loc} ELSE {}
Resized(o) == IF Freeing(o) \/ Appending(o) THEN {o.loc} ELSE {}
Raw(o) == IF o.pc = "grow_zero" THEN o.c ELSE 0

(* The call's own chain begins at h; the cluster it has not yet linked is k. *)
OwnChain(g, h) ==
  \A c \in DataClusters : g.own[c] = NewTag /\ g.pos[c] = 0 => c = h
Unlinked(v, g, k) ==
  \A c \in DataClusters : g.own[c] = GrowTag => c = k /\ g.pos[c] = 0 /\ v.fat[c] = EOC

(* Where the chain of the call begins, and the cluster it has not yet      *)
(* linked, label by label.                                                 *)
HeadOf(o) ==
  CASE o.pc \in {"mkdir_zero", "mkdir_dot", "mkdir_dotdot", "free"} -> o.c
    [] o.pc \in {"find_free", "grow_link", "grow_zero", "create", "entry"} -> o.d.first
    [] o.pc \in {"alloc", "link", "fill"} -> o.first
    [] OTHER -> 0
GrowOf(o) == IF o.pc \in {"grow_link", "link"} THEN o.c ELSE 0

(* The calls and their labels.                                             *)
Calls == {"fs_create", "fs_write", "fs_append", "fs_delete", "fs_rename", "fs_mkdir", "fs_rmdir"}
FormatPcs == {"format_fat", "format_0", "format_1", "format_root"}
Labels == FormatPcs \cup
  {"idle", "start", "find_free", "grow_link", "grow_zero", "create", "entry", "free",
   "alloc", "link", "fill", "mkdir_zero", "mkdir_dot", "mkdir_dotdot"}

(* The values of op.                                                       *)
OpType == [what : Calls \cup {"idle", "fs_init"}, pc : Labels, dir : {ROOT} \cup DataClusters,
           leaf : Names \cup {"free"}, arg : Seq(Nat), to : Names \cup {"free"},
           loc : Loc, d : Dirent,
           first : Nat, prev : Nat, c : Nat, written : Nat, res : {0, -1}]

(* The new volume is empty until fs_init is done.                          *)
AtInit(v, o) ==
  o.what = "fs_init" =>
    /\ o.pc \in FormatPcs \cup {"start"}
    /\ \A c \in DataClusters : v.fat[c] = FREE
    /\ \A i \in RootIndex : v.root[i] = FreeEntry

(* The directory that the call works in is there.                          *)
DirOK(v, g, d) ==
  d # ROOT => d \in DataClusters /\ DirCluster(v, g, d) /\ g.pos[d] = 0

(* A call that has written nothing yet.                                    *)
AtStart(v, g, o) ==
  o.pc = "start" /\ o.what # "fs_init" =>
    /\ o.what \in Calls /\ DirOK(v, g, o.dir) /\ o.leaf \in Names
    /\ o.what = "fs_rename" => o.to \in Names
    /\ o.first = 0 /\ o.prev = 0 /\ o.c = 0 /\ o.written = 0 /\ o.res = 0

(* The first cluster of the chain of the call.                             *)
NewHead(g, c) == c \in DataClusters /\ g.own[c] = NewTag /\ g.pos[c] = 0
(* The cursor of fat_free_chain: the head of the call's own chain, or past its end. *)
HeadOrEnd(g, c) == NewHead(g, c) \/ ~IsData(c)
NewCluster(g, c) == NewHead(g, c) /\ \A d \in DataClusters : g.own[d] = NewTag => d = c

(* The cluster of a directory that fs_mkdir makes in dir.                  *)
NewDir(v, g, c, dir) ==
  /\ NewCluster(g, c)
  /\ v.data[c] \in DirBlock
  /\ v.data[c][0] = NewEntry(".", TRUE, c)
  /\ v.data[c][1] = NewEntry("..", TRUE, dir)

(* A call that makes an entry.                                             *)
Creating(v, g, o) ==
  /\ o.what \in {"fs_create", "fs_write", "fs_append", "fs_mkdir"}
  /\ DirOK(v, g, o.dir) /\ o.leaf \in Names
  /\ o.d = NewEntry(o.leaf, o.what = "fs_mkdir", o.d.first)
  /\ o.what # "fs_mkdir" => o.d.first = 0
  /\ o.what = "fs_mkdir" => NewDir(v, g, o.d.first, o.dir)
  /\ o.first = 0 /\ o.written = 0 /\ o.res = 0

(* A slot is looked for, made and written.                                 *)
AtCreate(v, g, o) ==
  o.pc \in {"find_free", "grow_link", "grow_zero", "create"} =>
    /\ Creating(v, g, o)
    /\ o.pc \in {"grow_link", "grow_zero"} => o.dir # ROOT /\ o.c \in DataClusters
    /\ o.pc = "grow_link" =>
         /\ g.own[o.c] = GrowTag
         /\ o.prev \in DataClusters /\ v.fat[o.prev] = EOC /\ g.own[o.prev] = g.own[o.dir]
    /\ o.pc = "grow_zero" => g.own[o.c] = g.own[o.dir] /\ g.pos[o.c] # 0
    /\ o.pc = "create" => /\ Slot(v, g, 0, o.loc) /\ ~Used(EntryAt(v, o.loc))
                          /\ Home(v, g, o.loc) = o.dir

(* fs_mkdir prepares its cluster.                                          *)
AtMkdir(v, g, o) ==
  o.pc \in {"mkdir_zero", "mkdir_dot", "mkdir_dotdot"} =>
    /\ o.what = "fs_mkdir" /\ DirOK(v, g, o.dir) /\ o.leaf \in Names
    /\ NewCluster(g, o.c)
    /\ o.first = 0 /\ o.written = 0 /\ o.res = 0
    /\ o.pc # "mkdir_zero" => v.data[o.c] \in DirBlock
    /\ o.pc = "mkdir_dotdot" => v.data[o.c][0] = NewEntry(".", TRUE, o.c)

(* fat_free_chain runs.                                                    *)
AtFree(v, g, o) ==
  o.pc = "free" =>
    /\ o.what \in {"fs_mkdir", "fs_delete", "fs_rmdir", "fs_write"}
    /\ HeadOrEnd(g, o.c)
    /\ o.what = "fs_write" =>
         /\ o.d.name \in Names /\ ~o.d.isdir /\ ~EntryAt(v, o.loc).isdir
         /\ o.res = -1 \/ (o.first = 0 /\ o.prev = 0 /\ o.written = 0)

(* The chain that fs_write or fs_append extends.                           *)
Target(v, o) ==
  IF o.what = "fs_append" /\ EntryAt(v, o.loc).first # 0 THEN o.loc ELSE NewTag

(* Only whole sectors are written before the last one.                     *)
Whole(n) == n % BPS = 0

(* The cluster loop: w is the owner of the chain that grows, s the bytes   *)
(* it holds so far.                                                        *)
AtData(v, g, o) ==
  o.pc \in {"alloc", "link", "fill"} =>
    LET w == Target(v, o)
        s == o.d.size + o.written
    IN  /\ o.what \in {"fs_write", "fs_append"}
        /\ Alive(v, g, 0, o.loc) /\ ~EntryAt(v, o.loc).isdir
        /\ o.d.name \in Names /\ ~o.d.isdir
        /\ o.what = "fs_append" => o.d = EntryAt(v, o.loc)
        /\ o.what = "fs_write" => o.d.size = 0
        /\ o.written <= Len(o.arg) /\ o.res = 0
        /\ o.pc # "alloc" => o.written < Len(o.arg)
        /\ o.written < Len(o.arg) => Whole(s)
        /\ \/ o.pc = "alloc" /\ o.first = 0 /\ o.prev = 0 /\ s = 0 /\ w = NewTag
           \/ /\ o.first \in DataClusters /\ g.own[o.first] = w /\ g.pos[o.first] = 0
              /\ o.pc \in {"alloc", "link"} =>
                   /\ o.prev \in DataClusters /\ g.own[o.prev] = w /\ v.fat[o.prev] = EOC
                   /\ s # 0 /\ EndsAt(v, g, w, LastPos(s))
              /\ o.pc = "link" => o.c \in DataClusters /\ g.own[o.c] = GrowTag
              /\ o.pc = "fill" =>
                   /\ o.c \in DataClusters /\ g.own[o.c] = w /\ v.fat[o.c] = EOC
                   /\ EndsAt(v, g, w, s \div BPS)
        /\ o.pc = "alloc" /\ IsData(o.c) => o.c \in DataClusters /\ g.own[o.c] = w

(* The entry goes back to its slot.                                        *)
AtEntry(v, g, o) ==
  o.pc = "entry" =>
    /\ Alive(v, g, 0, o.loc)
    /\ o.what \in {"fs_write", "fs_append", "fs_delete", "fs_rename", "fs_rmdir"}
    /\ o.what = "fs_rename" =>
         /\ o.d.name \in Names
         /\ o.d.first = EntryAt(v, o.loc).first /\ o.d.isdir = EntryAt(v, o.loc).isdir
         /\ o.d.size = EntryAt(v, o.loc).size
    /\ o.what \in {"fs_delete", "fs_rmdir"} => o.d.name = "deleted" /\ o.d.first = 0
    /\ o.what \in {"fs_write", "fs_append"} =>
         /\ o.d.name \in Names /\ ~o.d.isdir /\ ~EntryAt(v, o.loc).isdir
         /\ \/ o.d.first = 0 /\ o.d.size = 0 /\ Target(v, o) = NewTag
            \/ /\ o.d.first \in DataClusters /\ g.own[o.d.first] = Target(v, o)
               /\ g.pos[o.d.first] = 0 /\ o.d.size # 0
               /\ EndsAt(v, g, Target(v, o), LastPos(o.d.size))

(* No call in progress.                                                    *)
AtIdle(o) == o.pc = "idle" \/ o.what = "idle" => o = Idle

(* What the local variables of the call mean for the volume.               *)
Progress(v, g, o) ==
  /\ o \in OpType /\ OwnChain(g, HeadOf(o)) /\ Unlinked(v, g, GrowOf(o))
  /\ AtInit(v, o) /\ AtStart(v, g, o) /\ AtCreate(v, g, o) /\ AtMkdir(v, g, o)
  /\ AtFree(v, g, o) /\ AtData(v, g, o) /\ AtEntry(v, g, o) /\ AtIdle(o)

(* Volume and call fit together, for some owners of the clusters.          *)
Consistent(v, g, o) ==
  Volume(v, g, Torn(o), Resized(o), Raw(o)) /\ Progress(v, g, o)

(* The data area has the volume's clusters.                                *)
DataShape == data = [c \in DataClusters |-> data[c]]

(* Until the power fails, the cached root is the root on the disk, and the *)
(* disk and the call fit together for some owners of the clusters.         *)
InOrder == DataShape /\ root = rootDisk /\ \E g : Consistent(OnDisk, g, op)
VInv == crashes = 0 => InOrder

-----------------------------------------------------------------------------
(* Numbers, marks and locations.                                           *)

(* A set of naturals that is not empty has a least element.                *)
LEMMA LeastNat ==
  ASSUME NEW T, T \subseteq Nat, T # {}
  PROVE  \E x \in T : \A y \in T : x <= y
<1>1. PICK x \in T : \A y \in T : ~(<<y, x>> \in OpToRel(<, Nat))
  BY NatLessThanWellFounded, WFMin
<1>2. \A y \in T : ~(y < x)
  BY <1>1 DEF OpToRel
<1>3. ASSUME NEW y \in T  PROVE x <= y
  <2>1. x \in Nat /\ y \in Nat /\ ~(y < x)
    BY <1>1, <1>2
  <2> QED  BY <2>1
<1> QED  BY <1>1, <1>3

(* What is assumed of the volume's measures.                               *)
LEMMA Measures ==
  /\ NCLUSTERS \in Nat \ {0} /\ NCLUSTERS + 1 < BAD
  /\ ROOT_ENTRIES \in Nat \ {0} /\ EPC \in Nat /\ EPC > 2
  /\ BPS \in Nat \ {0} /\ FPS \in Nat \ {0}
BY VolumeAssumption

(* Cluster numbers are data clusters to fs.c, and no marks.                *)
LEMMA ClusterNumbers ==
  ASSUME NEW c \in DataClusters
  PROVE  /\ c \in Nat /\ c # 0 /\ c # EOC /\ c # FREE /\ c # ROOT /\ c # NONE
         /\ IsData(c) /\ c \in FatIndex
BY Measures DEF DataClusters, FatIndex, IsData, EOC, FREE, ROOT, BAD, NONE

(* The marks are not.                                                      *)
LEMMA MarkNumbers ==
  /\ ~IsData(EOC) /\ ~IsData(0) /\ ~IsData(FREE) /\ EOC # FREE /\ 0 \notin DataClusters
  /\ EOC \notin DataClusters
BY Measures DEF IsData, EOC, FREE, DataClusters, BAD

(* The three owners that are no locations.                                 *)
LEMMA Tags ==
  /\ Nobody \notin Loc /\ NewTag \notin Loc /\ GrowTag \notin Loc
  /\ Nobody # NewTag /\ Nobody # GrowTag /\ NewTag # GrowTag
<1>1. \A l \in Loc : l.c # NONE
  BY ClusterNumbers DEF Loc, NONE, ROOT
<1>2. Nobody.c = NONE /\ NewTag.c = NONE /\ GrowTag.c = NONE
  BY DEF Nobody, NewTag, GrowTag
<1>3. Nobody.i = 0 /\ NewTag.i = 1 /\ GrowTag.i = 2
  BY DEF Nobody, NewTag, GrowTag
<1> QED  BY <1>1, <1>2, <1>3

(* A location is a slot of the root, or of a cluster.                      *)
LEMMA Locations ==
  ASSUME NEW l \in Loc
  PROVE  /\ l = [c |-> l.c, i |-> l.i]
         /\ \/ l.c = ROOT /\ l.i \in RootIndex
            \/ l.c \in DataClusters /\ l.c # ROOT /\ l.i \in DirIndex
BY ClusterNumbers DEF Loc

(* Two locations differ in the directory cluster or in the index.          *)
LEMMA LocationsDiffer ==
  ASSUME NEW l \in Loc, NEW m \in Loc, l.c = m.c, l.i = m.i
  PROVE  l = m
BY Locations

-----------------------------------------------------------------------------
(* Sizes in sectors.                                                       *)

(* Quotient and remainder of natural numbers.                              *)
LEMMA Division ==
  ASSUME NEW n \in Nat, NEW b \in Nat \ {0}
  PROVE  /\ n \div b \in Nat /\ n % b \in Nat /\ n % b < b
         /\ n = b * (n \div b) + (n % b)
OBVIOUS

(* A larger quotient leaves room for a whole block.                        *)
LEMMA Monotone ==
  ASSUME NEW b \in Nat \ {0}, NEW p \in Nat, NEW q \in Nat, p < q
  PROVE  b * p + b <= b * q
<1>1. b * (q - p - 1) \in Nat /\ b * (q - p - 1) = b * q - b * p - b
  OBVIOUS
<1> QED  BY <1>1

(* A number's quotient and remainder are the only ones.                    *)
LEMMA DivisionUnique ==
  ASSUME NEW b \in Nat \ {0}, NEW q \in Nat, NEW r \in Nat, r < b
  PROVE  (b * q + r) \div b = q /\ (b * q + r) % b = r
<1>1. PICK n \in Nat : n = b * q + r
  <2>1. b * q \in Nat  OBVIOUS
  <2> QED  BY <2>1
<1>2. PICK q2 \in Nat : q2 = n \div b
  BY Division
<1>3. PICK r2 \in Nat : r2 = n % b
  BY Division
<1>4. n = b * q2 + r2 /\ r2 < b
  BY <1>2, <1>3, Division
<1>5. PICK x \in Nat : x = b * q
  OBVIOUS
<1>6. PICK x2 \in Nat : x2 = b * q2
  OBVIOUS
<1>7. ~(q < q2)
  <2>1. ASSUME q < q2  PROVE x + b <= x2
    BY <2>1, <1>5, <1>6, Monotone
  <2> QED  BY <1>1, <1>4, <1>5, <1>6, <2>1
<1>8. ~(q2 < q)
  <2>1. ASSUME q2 < q  PROVE x2 + b <= x
    BY <2>1, <1>5, <1>6, Monotone
  <2> QED  BY <1>1, <1>4, <1>5, <1>6, <2>1
<1>9. q = q2
  BY <1>7, <1>8
<1>10. r = r2
  BY <1>1, <1>4, <1>9
<1> QED  BY <1>1, <1>2, <1>3, <1>9, <1>10

(* A sector is filled, as far as the data goes.                            *)
LEMMA FillSector ==
  ASSUME NEW s \in Nat, Whole(s), NEW k \in Nat, 1 <= k, k <= BPS
  PROVE  /\ LastPos(s + k) = s \div BPS
         /\ k = BPS => Whole(s + k)
<1>1. PICK q \in Nat : q = s \div BPS
  BY Measures, Division
<1>2. BPS \in Nat \ {0}
  BY Measures
<1>3. s = BPS * q
  BY <1>1, <1>2, Division DEF Whole
<1>4. s + k - 1 = BPS * q + (k - 1) /\ k - 1 \in Nat /\ k - 1 < BPS
  BY <1>2, <1>3
<1>5. (s + k - 1) \div BPS = q
  BY <1>2, <1>4, DivisionUnique
<1>6. ASSUME k = BPS  PROVE Whole(s + k)
  <2>1. q + 1 \in Nat /\ s + k = BPS * (q + 1) + 0
    BY <1>2, <1>3, <1>6
  <2>2. (BPS * (q + 1) + 0) % BPS = 0
    BY <1>2, <2>1, DivisionUnique
  <2> QED  BY <2>1, <2>2 DEF Whole
<1> QED  BY <1>1, <1>5, <1>6 DEF LastPos

(* The rest of the last sector is filled.                                  *)
LEMMA FillRest ==
  ASSUME NEW s \in Nat, ~Whole(s), NEW k \in Nat, k <= BPS - (s % BPS)
  PROVE  /\ LastPos(s + k) = LastPos(s)
         /\ k = BPS - (s % BPS) => Whole(s + k)
<1>1. PICK q \in Nat : q = s \div BPS
  BY Measures, Division
<1>2. BPS \in Nat \ {0}
  BY Measures
<1>3. PICK r \in Nat : r = s % BPS
  BY <1>2, Division
<1>4. s = BPS * q + r /\ r < BPS /\ r # 0
  BY <1>1, <1>2, <1>3, Division DEF Whole
<1>5. BPS * q \in Nat
  BY <1>2
<1>6. s + k - 1 = BPS * q + (r + k - 1) /\ r + k - 1 \in Nat /\ r + k - 1 < BPS
  BY <1>2, <1>3, <1>4, <1>5
<1>7. s - 1 = BPS * q + (r - 1) /\ r - 1 \in Nat /\ r - 1 < BPS
  BY <1>2, <1>3, <1>4, <1>5
<1>8. (s + k - 1) \div BPS = q /\ (s - 1) \div BPS = q
  BY <1>2, <1>6, <1>7, DivisionUnique
<1>9. ASSUME k = BPS - (s % BPS)  PROVE Whole(s + k)
  <2>1. q + 1 \in Nat /\ s + k = BPS * (q + 1) + 0
    BY <1>2, <1>3, <1>4, <1>9
  <2>2. (BPS * (q + 1) + 0) % BPS = 0
    BY <1>2, <2>1, DivisionUnique
  <2> QED  BY <2>1, <2>2 DEF Whole
<1> QED  BY <1>8, <1>9 DEF LastPos

(* The sector after the last one of a file that fills its sectors.         *)
LEMMA NextSector ==
  ASSUME NEW s \in Nat, Whole(s), s # 0
  PROVE  LastPos(s) + 1 = s \div BPS /\ LastPos(s) \in Nat
<1>1. PICK q \in Nat : q = s \div BPS
  BY Measures, Division
<1>2. BPS \in Nat \ {0}
  BY Measures
<1>3. s = BPS * q
  BY <1>1, <1>2, Division DEF Whole
<1>4. q # 0
  BY <1>2, <1>3
<1>5. q - 1 \in Nat /\ s - 1 = BPS * (q - 1) + (BPS - 1)
  BY <1>2, <1>3, <1>4
<1>6. BPS - 1 \in Nat /\ BPS - 1 < BPS
  BY <1>2
<1>7. (BPS * (q - 1) + (BPS - 1)) \div BPS = q - 1
  BY <1>2, <1>5, <1>6, DivisionUnique
<1> QED  BY <1>1, <1>5, <1>7 DEF LastPos

(* As many sectors as a size needs, and no more than it fills.             *)
LEMMA SectorsOf ==
  ASSUME NEW s \in Nat, s # 0
  PROVE  /\ LastPos(s) \in Nat
         /\ s <= BPS * (LastPos(s) + 1)
         /\ (s + BPS - 1) \div BPS = LastPos(s) + 1
<1>1. BPS \in Nat \ {0} /\ s - 1 \in Nat
  BY Measures
<1>2. PICK q \in Nat : q = (s - 1) \div BPS
  BY <1>1, Division
<1>3. PICK r \in Nat : r = (s - 1) % BPS
  BY <1>1, Division
<1>4. s - 1 = BPS * q + r /\ r < BPS
  BY <1>1, <1>2, <1>3, Division
<1>5. BPS * q \in Nat /\ BPS * (q + 1) = BPS * q + BPS /\ q + 1 \in Nat
  BY <1>1
<1>6. s + BPS - 1 = BPS * (q + 1) + r
  BY <1>1, <1>3, <1>4, <1>5
<1>7. (BPS * (q + 1) + r) \div BPS = q + 1
  BY <1>1, <1>4, <1>5, DivisionUnique
<1>8. s <= BPS * (q + 1)
  BY <1>1, <1>3, <1>4, <1>5
<1> QED  BY <1>2, <1>6, <1>7, <1>8 DEF LastPos

(* Nothing needs no sector.                                                *)
LEMMA NoSectors == Whole(0) /\ 0 \div BPS = 0 /\ (0 + BPS - 1) \div BPS = 0
<1>1. BPS \in Nat \ {0} /\ BPS - 1 \in Nat /\ BPS * 0 = 0 /\ BPS - 1 < BPS
  BY Measures
<1>2. (BPS * 0 + 0) \div BPS = 0 /\ (BPS * 0 + 0) % BPS = 0
  BY <1>1, DivisionUnique
<1>3. (BPS * 0 + (BPS - 1)) \div BPS = 0
  BY <1>1, DivisionUnique
<1>4. 0 + BPS - 1 = BPS * 0 + (BPS - 1) /\ BPS * 0 + 0 = 0
  BY <1>1
<1> QED  BY <1>2, <1>3, <1>4 DEF Whole

-----------------------------------------------------------------------------
(* Scans, allocation and links.                                            *)

(* The minimum that the scans and fat_alloc_cluster take is in the set.    *)
LEMMA MinIn ==
  ASSUME NEW S, S \subseteq Nat, S # {}
  PROVE  Min(S) \in S
<1>1. \E x \in S : \A y \in S : x <= y
  BY LeastNat
<1> QED  BY <1>1 DEF Min

(* fat_alloc_cluster takes a free cluster.                                 *)
LEMMA AllocFree ==
  ASSUME fat_alloc_cluster # 0
  PROVE  fat_alloc_cluster \in DataClusters /\ fat1[fat_alloc_cluster] = FREE
<1> DEFINE free == {c \in DataClusters : fat1[c] = FREE}
<1>1. free # {} /\ fat_alloc_cluster = Min(free)
  BY DEF fat_alloc_cluster
<1>2. free \subseteq Nat
  BY ClusterNumbers
<1>3. Min(free) \in free
  <2> HIDE DEF free
  <2> QED  BY <1>1, <1>2, MinIn
<1> QED  BY <1>1, <1>3

(* dir_scan finds a used entry of that name, if it finds one.              *)
LEMMA ScanFinds ==
  ASSUME NEW v, NEW dir, NEW n, dir_scan(v, dir, n) # 0
  PROVE  LET p == dir_scan(v, dir, n)
             l == dir_iter(v, dir)[p]
         IN  /\ p \in 1 .. Len(dir_iter(v, dir))
             /\ Used(EntryAt(v, l)) /\ EntryAt(v, l).name = n
<1> DEFINE s == dir_iter(v, dir)
           I == {i \in 1 .. Len(s) : Used(EntryAt(v, s[i])) /\ EntryAt(v, s[i]).name = n}
<1>1. dir_scan(v, dir, n) = IF I # {} THEN Min(I) ELSE 0
  BY DEF dir_scan, SelectInSeq
<1>2. I \subseteq Nat
  OBVIOUS
<1>3. I # {} /\ dir_scan(v, dir, n) = Min(I)
  BY <1>1
<1>4. Min(I) \in I
  <2> HIDE DEF I
  <2> QED  BY <1>2, <1>3, MinIn
<1> QED  BY <1>3, <1>4

(* The slot that dir_find_free finds.                                      *)
FirstFree(v, dir) == SelectInSeq(dir_iter(v, dir), LAMBDA l : ~Used(EntryAt(v, l)))

(* dir_find_free's scan stops at an entry that is not used.                *)
LEMMA FindsFree ==
  ASSUME NEW v, NEW dir, FirstFree(v, dir) # 0
  PROVE  LET p == FirstFree(v, dir)
         IN  /\ p \in 1 .. Len(dir_iter(v, dir))
             /\ ~Used(EntryAt(v, dir_iter(v, dir)[p]))
<1> DEFINE s == dir_iter(v, dir)
           I == {i \in 1 .. Len(s) : ~Used(EntryAt(v, s[i]))}
<1>1. FirstFree(v, dir) = IF I # {} THEN Min(I) ELSE 0
  BY DEF FirstFree, SelectInSeq
<1>2. I \subseteq Nat
  OBVIOUS
<1>3. I # {} /\ FirstFree(v, dir) = Min(I)
  BY <1>1
<1>4. Min(I) \in I
  <2> HIDE DEF I
  <2> QED  BY <1>2, <1>3, MinIn
<1> QED  BY <1>3, <1>4

-----------------------------------------------------------------------------
(* Following a chain.                                                      *)

(* f[0], ..., f[n] are the clusters that cluster_at_index passes.          *)
Following(f, v, first, n) ==
  f = [i \in 0 .. n |-> IF i = 0 THEN first ELSE LinkOf(v.fat, f[i - 1])]

(* The function that cluster_at_index defines exists: it is built link by  *)
(* link.                                                                   *)
LEMMA FollowingExists ==
  ASSUME NEW v, NEW first, NEW N \in Nat
  PROVE  \E f : Following(f, v, first, N)
<1> DEFINE T == {n \in 0 .. N : ~\E f : Following(f, v, first, n)}
<1>1. ASSUME T # {}  PROVE FALSE
  <2>1. PICK n \in T : \A y \in T : n <= y
    <3>1. T \subseteq Nat  OBVIOUS
    <3> HIDE DEF T
    <3> QED  BY <1>1, <3>1, LeastNat
  <2>2. n \in 0 .. N /\ ~\E f : Following(f, v, first, n)
    BY <2>1
  <2>3. n # 0
    <3>1. Following([i \in 0 .. 0 |-> first], v, first, 0)
      BY DEF Following
    <3> QED  BY <2>2, <3>1
  <2>4. n - 1 \in 0 .. N /\ n - 1 \notin T
    <3> HIDE DEF T
    <3> QED  BY <2>1, <2>2, <2>3
  <2>5. PICK f : Following(f, v, first, n - 1)
    BY <2>4
  <2> DEFINE h == [i \in 0 .. n |-> IF i < n THEN f[i] ELSE LinkOf(v.fat, f[n - 1])]
  <2>6. ASSUME NEW i \in 0 .. n
        PROVE  h[i] = IF i = 0 THEN first ELSE LinkOf(v.fat, h[i - 1])
    <3>1. \A j \in 0 .. n - 1 : f[j] = IF j = 0 THEN first ELSE LinkOf(v.fat, f[j - 1])
      BY <2>5 DEF Following
    <3>2. CASE i = 0
      BY <3>1, <3>2, <2>3, <2>2
    <3>3. CASE i # 0 /\ i < n
      BY <3>1, <3>3, <2>3, <2>2
    <3>4. CASE i = n
      BY <3>1, <3>4, <2>3, <2>2
    <3> QED  BY <3>2, <3>3, <3>4
  <2>7. h = [i \in 0 .. n |-> h[i]]
    OBVIOUS
  <2> HIDE DEF h
  <2>8. Following(h, v, first, n)
    BY <2>6, <2>7 DEF Following
  <2> QED  BY <2>2, <2>8
<1>2. N \in 0 .. N
  OBVIOUS
<1> QED  BY <1>1, <1>2

(* cluster_at_index starts at the first cluster and follows the FAT.       *)
LEMMA Follows ==
  ASSUME NEW v, NEW first
  PROVE  /\ cluster_at_index(v, first)[0] = first
         /\ \A i \in 1 .. NCLUSTERS : cluster_at_index(v, first)[i] =
              LinkOf(v.fat, cluster_at_index(v, first)[i - 1])
<1>1. NCLUSTERS \in Nat
  BY Measures
<1>2. \E f : f = [i \in 0 .. NCLUSTERS |-> IF i = 0 THEN first ELSE LinkOf(v.fat, f[i - 1])]
  <2>1. PICK f : Following(f, v, first, NCLUSTERS)
    BY <1>1, FollowingExists
  <2> QED  BY <2>1 DEF Following
<1> DEFINE at[i \in 0 .. NCLUSTERS] == IF i = 0 THEN first ELSE LinkOf(v.fat, at[i - 1])
<1>3. cluster_at_index(v, first) = at
  BY DEF cluster_at_index
<1>4. at = [i \in 0 .. NCLUSTERS |-> IF i = 0 THEN first ELSE LinkOf(v.fat, at[i - 1])]
  BY <1>2
<1> HIDE DEF at
<1>5. \A i \in 0 .. NCLUSTERS : at[i] = IF i = 0 THEN first ELSE LinkOf(v.fat, at[i - 1])
  BY <1>4
<1>6. 0 \in 0 .. NCLUSTERS /\ \A i \in 1 .. NCLUSTERS : i \in 0 .. NCLUSTERS /\ i # 0
  BY <1>1
<1> QED  BY <1>3, <1>5, <1>6

(* The links of a cluster stay with its owner.                             *)
LEMMA LinkStays ==
  ASSUME NEW v, NEW g, Owners(g), Linked(v, g), NEW c \in DataClusters, g.own[c] # Nobody
  PROVE  \/ LinkOf(v.fat, c) = EOC /\ v.fat[c] = EOC
         \/ /\ LinkOf(v.fat, c) = v.fat[c] /\ v.fat[c] \in DataClusters
            /\ g.own[v.fat[c]] = g.own[c] /\ g.pos[v.fat[c]] = g.pos[c] + 1
BY ClusterNumbers DEF Linked, LinkOf

(* A chain that starts at a cluster of w stays with w.                     *)
LEMMA ChainStays ==
  ASSUME NEW v, NEW g, Owners(g), Linked(v, g),
         NEW first \in DataClusters, g.own[first] # Nobody
  PROVE  \A i \in 0 .. NCLUSTERS :
           LET c == cluster_at_index(v, first)[i]
           IN  ~IsData(c) \/ (c \in DataClusters /\ g.own[c] = g.own[first])
<1>0. PICK at : at = cluster_at_index(v, first)
  OBVIOUS
<1> DEFINE T == {i \in 0 .. NCLUSTERS :
                   ~(~IsData(at[i]) \/ (at[i] \in DataClusters /\ g.own[at[i]] = g.own[first]))}
<1>1. ASSUME T # {}  PROVE FALSE
  <2>1. PICK n \in T : \A y \in T : n <= y
    <3>1. T \subseteq Nat  OBVIOUS
    <3> HIDE DEF T
    <3> QED  BY <1>1, <3>1, LeastNat
  <2>2. n \in 0 .. NCLUSTERS /\ ~(~IsData(at[n]) \/ (at[n] \in DataClusters /\ g.own[at[n]] = g.own[first]))
    BY <2>1
  <2>3. n # 0
    BY <1>0, <2>2, Follows
  <2>4. n - 1 \in 0 .. NCLUSTERS /\ n - 1 \notin T /\ n \in 1 .. NCLUSTERS
    <3> HIDE DEF T
    <3> QED  BY <2>1, <2>2, <2>3, Measures
  <2>5. at[n] = LinkOf(v.fat, at[n - 1])
    BY <1>0, <2>4, Follows
  <2>6. CASE ~IsData(at[n - 1])
    BY <2>2, <2>5, <2>6, MarkNumbers DEF LinkOf
  <2>7. CASE at[n - 1] \in DataClusters /\ g.own[at[n - 1]] = g.own[first]
    BY <2>2, <2>5, <2>7, LinkStays, MarkNumbers
  <2> QED  BY <2>4, <2>6, <2>7
<1> QED  BY <1>0, <1>1

(* A chain that starts at no cluster is over at once.                      *)
LEMMA NoChain ==
  ASSUME NEW v, NEW first, ~IsData(first)
  PROVE  \A i \in 0 .. NCLUSTERS : ~IsData(cluster_at_index(v, first)[i])
<1>0. PICK at : at = cluster_at_index(v, first)
  OBVIOUS
<1> DEFINE T == {i \in 0 .. NCLUSTERS : IsData(at[i])}
<1>1. ASSUME T # {}  PROVE FALSE
  <2>1. PICK n \in T : \A y \in T : n <= y
    <3>1. T \subseteq Nat  OBVIOUS
    <3> HIDE DEF T
    <3> QED  BY <1>1, <3>1, LeastNat
  <2>2. n \in 0 .. NCLUSTERS /\ IsData(at[n])
    BY <2>1
  <2>3. n # 0
    BY <1>0, <2>2, Follows
  <2>4. n - 1 \in 0 .. NCLUSTERS /\ n - 1 \notin T /\ n \in 1 .. NCLUSTERS
    <3> HIDE DEF T
    <3> QED  BY <2>1, <2>2, <2>3, Measures
  <2>5. at[n] = LinkOf(v.fat, at[n - 1])
    BY <1>0, <2>4, Follows
  <2> QED  BY <2>2, <2>4, <2>5, MarkNumbers DEF LinkOf
<1> QED  BY <1>0, <1>1

(* A chain that starts at a free cluster is over after it.                 *)
LEMMA FreeChain ==
  ASSUME NEW v, NEW first \in DataClusters, v.fat[first] = FREE
  PROVE  \A i \in 1 .. NCLUSTERS : ~IsData(cluster_at_index(v, first)[i])
<1>0. PICK at : at = cluster_at_index(v, first)
  OBVIOUS
<1> DEFINE T == {i \in 1 .. NCLUSTERS : IsData(at[i])}
<1>1. ASSUME T # {}  PROVE FALSE
  <2>1. PICK n \in T : \A y \in T : n <= y
    <3>1. T \subseteq Nat  OBVIOUS
    <3> HIDE DEF T
    <3> QED  BY <1>1, <3>1, LeastNat
  <2>2. n \in 1 .. NCLUSTERS /\ IsData(at[n])
    BY <2>1
  <2>3. at[n] = LinkOf(v.fat, at[n - 1])
    BY <1>0, <2>2, Follows
  <2>4. n # 1
    BY <1>0, <2>2, <2>3, Follows, MarkNumbers DEF LinkOf, FREE
  <2>5. n - 1 \in 1 .. NCLUSTERS /\ n - 1 \notin T
    <3> HIDE DEF T
    <3> QED  BY <2>1, <2>2, <2>4, Measures
  <2> QED  BY <2>2, <2>3, <2>5, MarkNumbers DEF LinkOf
<1> QED  BY <1>0, <1>1

-----------------------------------------------------------------------------
(* Chains: from the first cluster of an owner a chain has all that it owns *)
(* and then ends.                                                          *)

(* Once a chain is over it stays over.                                     *)
LEMMA OverStays ==
  ASSUME NEW v, NEW first, NEW n \in 0 .. NCLUSTERS,
         ~IsData(cluster_at_index(v, first)[n])
  PROVE  \A i \in n .. NCLUSTERS : ~IsData(cluster_at_index(v, first)[i])
<1>0. PICK at : at = cluster_at_index(v, first)
  OBVIOUS
<1> DEFINE T == {i \in n .. NCLUSTERS : IsData(at[i])}
<1>1. ASSUME T # {}  PROVE FALSE
  <2>1. PICK k \in T : \A y \in T : k <= y
    <3>1. T \subseteq Nat  OBVIOUS
    <3> HIDE DEF T
    <3> QED  BY <1>1, <3>1, LeastNat
  <2>2. k \in n .. NCLUSTERS /\ IsData(at[k])
    BY <2>1
  <2>3. k # n
    BY <1>0, <2>2
  <2>4. k - 1 \in n .. NCLUSTERS /\ k - 1 \notin T /\ k \in 1 .. NCLUSTERS
    <3> HIDE DEF T
    <3> QED  BY <2>1, <2>2, <2>3, Measures
  <2>5. at[k] = LinkOf(v.fat, at[k - 1])
    BY <1>0, <2>4, Follows
  <2> QED  BY <2>2, <2>4, <2>5, MarkNumbers DEF LinkOf
<1> QED  BY <1>0, <1>1

(* The clusters from first on, n of them, are the chain of first's owner.  *)
IsChain(v, g, first, n) ==
  LET at == cluster_at_index(v, first)
  IN  /\ \A i \in 0 .. n - 1 :
           at[i] \in DataClusters /\ g.own[at[i]] = g.own[first] /\ g.pos[at[i]] = i
      /\ v.fat[at[n - 1]] = EOC
      /\ \A i \in n .. NCLUSTERS : ~IsData(at[i])
      /\ \A c \in DataClusters : g.own[c] = g.own[first] => g.pos[c] \in 0 .. n - 1 /\ at[g.pos[c]] = c

(* A volume has no more places than clusters.                              *)
LEMMA NoRoom ==
  ASSUME NEW f, \A i \in 0 .. NCLUSTERS : f[i] \in DataClusters,
         \A i, j \in 0 .. NCLUSTERS : f[i] = f[j] => i = j
  PROVE  FALSE
<1>1. PICK b \in Int : b = NCLUSTERS /\ b > 0
  BY Measures
<1>2. IsFiniteSet(0 .. b) /\ Cardinality(0 .. b) = b + 1
  <2>1. 0 \in Int /\ b \in Int
    BY <1>1
  <2>2. Cardinality(0 .. b) = IF 0 > b THEN 0 ELSE b - 0 + 1
    BY <2>1, FS_Interval, Zenon
  <2>3. IsFiniteSet(0 .. b)
    BY <2>1, FS_Interval, Zenon
  <2> QED  BY <1>1, <2>2, <2>3
<1>3. PICK e \in Int : e = b + 1
  BY <1>1
<1>4. IsFiniteSet(2 .. e) /\ Cardinality(2 .. e) = b
  <2>1. 2 \in Int /\ e \in Int
    BY <1>3
  <2>2. Cardinality(2 .. e) = IF 2 > e THEN 0 ELSE e - 2 + 1
    BY <2>1, FS_Interval, Zenon
  <2>3. IsFiniteSet(2 .. e)
    BY <2>1, FS_Interval, Zenon
  <2> QED  BY <1>1, <1>3, <2>2, <2>3
<1>5. DataClusters = 2 .. e
  BY <1>1, <1>3 DEF DataClusters
<1>6. PICK D : D = 0 .. b
  OBVIOUS
<1>7. PICK C : C = 2 .. e
  OBVIOUS
<1>8. PICK h : h = [i \in D |-> f[i]]
  OBVIOUS
<1>9. h \in [D -> C]
  BY <1>1, <1>5, <1>6, <1>7, <1>8
<1>10. IsFiniteSet(D) /\ IsFiniteSet(C) /\ Cardinality(C) < Cardinality(D)
  BY <1>1, <1>2, <1>4, <1>6, <1>7
<1>11. \E x, y \in D : x # y /\ h[x] = h[y]
  BY <1>9, <1>10, FS_PigeonHole
<1> QED  BY <1>1, <1>6, <1>8, <1>11

(* A chain from the first cluster of an owner has all the owner's clusters *)
(* in order and then an end-of-chain mark.                                 *)
LEMMA ChainWhole ==
  ASSUME NEW v, NEW g, Owners(g), Linked(v, g),
         NEW first \in DataClusters, g.own[first] # Nobody, g.pos[first] = 0
  PROVE  \E n \in 1 .. NCLUSTERS : IsChain(v, g, first, n)
<1>0. PICK at : at = cluster_at_index(v, first)
  OBVIOUS
<1> DEFINE P(i) == at[i] \in DataClusters /\ g.own[at[i]] = g.own[first] /\ g.pos[at[i]] = i
           T == {i \in 0 .. NCLUSTERS : ~P(i)}
<1>1. T # {}
  <2>1. ASSUME T = {}  PROVE FALSE
    <3>1. \A i \in 0 .. NCLUSTERS : P(i)
      BY <2>1
    <3>2. \A i \in 0 .. NCLUSTERS : at[i] \in DataClusters
      BY <3>1
    <3>3. \A i, j \in 0 .. NCLUSTERS : at[i] = at[j] => i = j
      BY <3>1
    <3> QED  BY <3>2, <3>3, NoRoom
  <2> QED  BY <2>1
<1>2. PICK n \in T : \A y \in T : n <= y
  <2>1. T \subseteq Nat  OBVIOUS
  <2> HIDE DEF T
  <2> QED  BY <1>1, <2>1, LeastNat
<1>3. n \in 0 .. NCLUSTERS /\ ~P(n)
  BY <1>2
<1>4. n # 0
  BY <1>0, <1>3, Follows
<1>5. \A i \in 0 .. n - 1 : P(i)
  <2> SUFFICES ASSUME NEW i \in 0 .. n - 1  PROVE P(i)
    OBVIOUS
  <2>1. i \in 0 .. NCLUSTERS /\ i \notin T
    <3> HIDE DEF T
    <3> QED  BY <1>2, <1>3, Measures
  <2> QED  BY <2>1
<1>6. n \in 1 .. NCLUSTERS /\ n - 1 \in 0 .. n - 1
  BY <1>3, <1>4, Measures
<1>7. P(n - 1)
  BY <1>5, <1>6
<1>8. at[n] = LinkOf(v.fat, at[n - 1])
  BY <1>0, <1>6, Follows
<1>9. at[n] = EOC /\ v.fat[at[n - 1]] = EOC
  <2>1. g.pos[at[n - 1]] + 1 = n
    BY <1>6, <1>7
  <2> QED  BY <1>3, <1>7, <1>8, <2>1, LinkStays
<1>10. \A i \in n .. NCLUSTERS : ~IsData(at[i])
  BY <1>0, <1>3, <1>9, OverStays, MarkNumbers
<1>11. ASSUME NEW c \in DataClusters, g.own[c] = g.own[first]
       PROVE  g.pos[c] < n
  <2> DEFINE K == {k \in Nat : k >= n /\ \E d \in DataClusters : g.own[d] = g.own[first] /\ g.pos[d] = k}
  <2>1. ASSUME K # {}  PROVE FALSE
    <3>1. PICK k \in K : \A y \in K : k <= y
      <4>1. K \subseteq Nat  OBVIOUS
      <4> HIDE DEF K
      <4> QED  BY <2>1, <4>1, LeastNat
    <3>2. k \in Nat /\ k >= n
      BY <3>1
    <3>3. PICK d \in DataClusters : g.own[d] = g.own[first] /\ g.pos[d] = k
      BY <3>1
    <3>4. k # 0
      BY <1>6, <3>2
    <3>5. PICK p \in DataClusters : g.own[p] = g.own[d] /\ v.fat[p] = d
      BY <3>3, <3>4 DEF Linked
    <3>6. g.pos[d] = g.pos[p] + 1 /\ g.pos[p] \in Nat
      BY <3>3, <3>5, ClusterNumbers DEF Linked, Owners
    <3>7. g.pos[p] = k - 1
      BY <3>3, <3>6
    <3>8. k - 1 \notin K
      <4> HIDE DEF K
      <4> QED  BY <3>1, <3>2
    <3>9. k = n
      BY <3>2, <3>3, <3>4, <3>5, <3>7, <3>8, <1>6
    <3>10. p = at[n - 1]
      BY <1>7, <3>3, <3>5, <3>7, <3>9 DEF Linked
    <3> QED  BY <1>9, <3>5, <3>10, ClusterNumbers
  <2>2. g.pos[c] \in Nat
    BY DEF Owners
  <2>3. g.pos[c] \notin K
    BY <2>1
  <2> QED  BY <1>6, <1>11, <2>2, <2>3
<1>12. ASSUME NEW c \in DataClusters, g.own[c] = g.own[first]
       PROVE  g.pos[c] \in 0 .. n - 1 /\ at[g.pos[c]] = c
  <2>1. g.pos[c] \in Nat /\ g.pos[c] < n
    BY <1>11, <1>12 DEF Owners
  <2>2. g.pos[c] \in 0 .. n - 1
    BY <1>6, <2>1
  <2>3. P(g.pos[c])
    BY <1>5, <2>2
  <2> QED  BY <1>12, <2>2, <2>3 DEF Linked
<1>13. IsChain(v, g, first, n)
  BY <1>0, <1>5, <1>9, <1>10, <1>12 DEF IsChain
<1> QED  BY <1>6, <1>13

(* Chain is that sequence of clusters.                                     *)
LEMMA ChainIs ==
  ASSUME NEW v, NEW g, NEW first, NEW n \in 1 .. NCLUSTERS, IsChain(v, g, first, n)
  PROVE  /\ Chain(v, first) = [i \in 1 .. n |-> cluster_at_index(v, first)[i - 1]]
         /\ Len(Chain(v, first)) = n
<1>0. PICK at : at = cluster_at_index(v, first)
  OBVIOUS
<1>1. PICK b \in Int : b = n - 1 /\ b >= 0
  BY Measures
<1>2. {k \in 0 .. NCLUSTERS : IsData(at[k])} = 0 .. b
  <2>1. ASSUME NEW k \in 0 .. NCLUSTERS  PROVE IsData(at[k]) <=> k \in 0 .. b
    <3>1. CASE k \in 0 .. n - 1
      BY <1>0, <1>1, <3>1, ClusterNumbers DEF IsChain
    <3>2. CASE k \in n .. NCLUSTERS
      BY <1>0, <1>1, <3>2, Measures DEF IsChain
    <3> QED  BY <3>1, <3>2, Measures
  <2>2. \A k \in 0 .. b : k \in 0 .. NCLUSTERS
    BY <1>1, Measures
  <2> QED  BY <2>1, <2>2
<1>3. Cardinality(0 .. b) = n
  <2>1. 0 \in Int
    OBVIOUS
  <2>2. Cardinality(0 .. b) = IF 0 > b THEN 0 ELSE b - 0 + 1
    BY <2>1, FS_Interval, Zenon
  <2> QED  BY <1>1, <2>2, Measures
<1>4. Chain(v, first) = [i \in 1 .. Cardinality({k \in 0 .. NCLUSTERS : IsData(at[k])}) |-> at[i - 1]]
  BY <1>0 DEF Chain
<1>5. Chain(v, first) = [i \in 1 .. n |-> at[i - 1]]
  BY <1>2, <1>3, <1>4
<1>6. n \in Nat
  BY Measures
<1> QED  BY <1>0, <1>5, <1>6

(* Chain takes the data clusters that cluster_at_index passes.             *)
LEMMA ChainShape ==
  ASSUME NEW v, NEW first
  PROVE  \E m \in 0 .. NCLUSTERS + 1 :
           /\ Chain(v, first) = [i \in 1 .. m |-> cluster_at_index(v, first)[i - 1]]
           /\ \A k \in 0 .. NCLUSTERS : IsData(cluster_at_index(v, first)[k]) <=> k < m
<1>0. PICK at : at = cluster_at_index(v, first)
  OBVIOUS
<1> DEFINE T == {k \in 0 .. NCLUSTERS + 1 : k = NCLUSTERS + 1 \/ ~IsData(at[k])}
<1>1. NCLUSTERS + 1 \in T
  BY Measures
<1>2. PICK m \in T : \A y \in T : m <= y
  <2>1. T \subseteq Nat  OBVIOUS
  <2> HIDE DEF T
  <2> QED  BY <1>1, <2>1, LeastNat
<1>3. m \in 0 .. NCLUSTERS + 1 /\ (m = NCLUSTERS + 1 \/ ~IsData(at[m]))
  BY <1>2
<1>4. ASSUME NEW k \in 0 .. NCLUSTERS  PROVE IsData(at[k]) <=> k < m
  <2>1. CASE k < m
    <3>1. k \notin T
      <4> HIDE DEF T
      <4> QED  BY <1>2, <1>3, <2>1, Measures
    <3>2. k \in 0 .. NCLUSTERS + 1 /\ k # NCLUSTERS + 1
      BY Measures
    <3> QED  BY <2>1, <3>1, <3>2
  <2>2. CASE ~(k < m)
    <3>1. m \in 0 .. NCLUSTERS /\ k \in m .. NCLUSTERS /\ ~IsData(at[m])
      BY <1>3, <2>2, Measures
    <3> QED  BY <1>0, <2>2, <3>1, OverStays
  <2> QED  BY <2>1, <2>2
<1> HIDE DEF T
<1>5. PICK b \in Int : b = m - 1
  BY <1>3, Measures
<1>6. {k \in 0 .. NCLUSTERS : IsData(at[k])} = 0 .. b
  BY <1>3, <1>4, <1>5, Measures
<1>7. Cardinality(0 .. b) = m
  <2>1. 0 \in Int
    OBVIOUS
  <2>2. Cardinality(0 .. b) = IF 0 > b THEN 0 ELSE b - 0 + 1
    BY <2>1, FS_Interval, Zenon
  <2> QED  BY <1>3, <1>5, <2>2, Measures
<1>8. Chain(v, first) = [i \in 1 .. m |-> at[i - 1]]
  BY <1>0, <1>6, <1>7 DEF Chain
<1> QED  BY <1>0, <1>3, <1>4, <1>8

(* The clusters of a chain are data clusters that cluster_at_index gives.  *)
LEMMA ChainSetAt ==
  ASSUME NEW v, NEW first, NEW c \in ChainSet(v, first)
  PROVE  \E i \in 0 .. NCLUSTERS :
           c = cluster_at_index(v, first)[i] /\ IsData(cluster_at_index(v, first)[i])
<1>0. PICK at : at = cluster_at_index(v, first)
  OBVIOUS
<1>1. PICK m \in 0 .. NCLUSTERS + 1 :
        /\ Chain(v, first) = [i \in 1 .. m |-> at[i - 1]]
        /\ \A k \in 0 .. NCLUSTERS : IsData(at[k]) <=> k < m
  BY <1>0, ChainShape
<1>2. PICK i \in 1 .. m : c = at[i - 1]
  BY <1>1 DEF ChainSet, ToSet
<1>3. i - 1 \in 0 .. NCLUSTERS /\ i - 1 < m
  BY <1>1, Measures
<1> QED  BY <1>0, <1>1, <1>2, <1>3

(* The chain of a free cluster, or of none.                                *)
LEMMA ChainSetOfFree ==
  ASSUME NEW v, NEW first, ~IsData(first) \/ (first \in DataClusters /\ v.fat[first] = FREE)
  PROVE  ChainSet(v, first) \subseteq {first}
<1> SUFFICES ASSUME NEW c \in ChainSet(v, first)  PROVE c = first
  OBVIOUS
<1>1. PICK i \in 0 .. NCLUSTERS :
        c = cluster_at_index(v, first)[i] /\ IsData(cluster_at_index(v, first)[i])
  BY ChainSetAt
<1>2. IsData(first)
  BY <1>1, NoChain
<1>3. i = 0
  BY <1>1, <1>2, FreeChain, Measures
<1> QED  BY <1>1, <1>3, Follows

(* The chain of a cluster that is taken belongs to its owner.              *)
LEMMA ChainSetOwned ==
  ASSUME NEW v, NEW g, Owners(g), Linked(v, g),
         NEW first \in DataClusters, g.own[first] # Nobody, NEW c \in ChainSet(v, first)
  PROVE  c \in DataClusters /\ g.own[c] = g.own[first]
BY ChainSetAt, ChainStays

(* The chain of an owner, from its first cluster, is all that it owns.     *)
LEMMA ChainSetIs ==
  ASSUME NEW v, NEW g, Owners(g), Linked(v, g),
         NEW first \in DataClusters, g.own[first] # Nobody, g.pos[first] = 0
  PROVE  ChainSet(v, first) = {c \in DataClusters : g.own[c] = g.own[first]}
<1>1. PICK n \in 1 .. NCLUSTERS : IsChain(v, g, first, n)
  BY ChainWhole
<1>2. Chain(v, first) = [i \in 1 .. n |-> cluster_at_index(v, first)[i - 1]]
  BY <1>1, ChainIs
<1>3. ASSUME NEW c \in DataClusters, g.own[c] = g.own[first]  PROVE c \in ChainSet(v, first)
  <2>1. g.pos[c] \in 0 .. n - 1 /\ cluster_at_index(v, first)[g.pos[c]] = c
    BY <1>1, <1>3 DEF IsChain
  <2>2. g.pos[c] + 1 \in 1 .. n /\ (g.pos[c] + 1) - 1 = g.pos[c]
    BY <2>1, Measures
  <2>3. Chain(v, first)[g.pos[c] + 1] = c /\ g.pos[c] + 1 \in DOMAIN Chain(v, first)
    BY <1>2, <2>1, <2>2
  <2> QED  BY <2>3 DEF ChainSet, ToSet
<1> QED  BY <1>3, ChainSetOwned

-----------------------------------------------------------------------------
(* Directories as sequences of slots.                                      *)

(* Entry p of a directory lies in sector q at place r.                     *)
LEMMA SlotNumber ==
  ASSUME NEW n \in Nat, NEW p \in 1 .. EPC * n
  PROVE  /\ (p - 1) \div EPC \in 0 .. n - 1
         /\ (p - 1) % EPC \in DirIndex
<1>1. EPC \in Nat \ {0} /\ EPC * n \in Nat
  BY Measures
<1>2. p - 1 \in Nat /\ p - 1 < EPC * n
  BY <1>1
<1>3. PICK q \in Nat : q = (p - 1) \div EPC
  BY <1>1, <1>2, Division
<1>4. PICK r \in Nat : r = (p - 1) % EPC
  BY <1>1, <1>2, Division
<1>5. p - 1 = EPC * q + r /\ r < EPC
  BY <1>1, <1>2, <1>3, <1>4, Division
<1>6. q < n
  <2>1. PICK x \in Nat : x = EPC * n
    BY <1>1
  <2>2. PICK y \in Nat : y = EPC * q
    BY <1>1
  <2>3. q # n
    BY <1>2, <1>4, <1>5, <2>1, <2>2
  <2>4. ASSUME n < q  PROVE FALSE
    <3>1. x + EPC <= y
      BY <2>1, <2>2, <2>4, <1>1, Monotone
    <3> QED  BY <1>1, <1>2, <1>4, <1>5, <2>1, <2>2, <3>1
  <2> QED  BY <2>3, <2>4
<1>7. q \in 0 .. n - 1 /\ r \in DirIndex
  BY <1>1, <1>5, <1>6 DEF DirIndex
<1> QED  BY <1>3, <1>4, <1>7

(* The last entry of a directory of n sectors is in the last sector.       *)
LEMMA LastSlot ==
  ASSUME NEW n \in Nat \ {0}
  PROVE  /\ EPC * n \in 1 .. EPC * n
         /\ (EPC * n - 1) \div EPC = n - 1
<1>1. EPC \in Nat \ {0} /\ EPC * n \in Nat /\ EPC - 1 \in Nat /\ EPC - 1 < EPC
  BY Measures
<1>2. n - 1 \in Nat /\ EPC * n = EPC * (n - 1) + EPC /\ EPC * (n - 1) \in Nat
  BY <1>1
<1>3. EPC * n - 1 = EPC * (n - 1) + (EPC - 1)
  BY <1>1, <1>2
<1>4. (EPC * (n - 1) + (EPC - 1)) \div EPC = n - 1
  BY <1>1, <1>2, DivisionUnique
<1> QED  BY <1>1, <1>2, <1>3, <1>4

(* Every place of every sector has its number.                             *)
LEMMA SlotAt ==
  ASSUME NEW n \in Nat, NEW q \in 0 .. n - 1, NEW r \in DirIndex
  PROVE  \E p \in 1 .. EPC * n : (p - 1) \div EPC = q /\ (p - 1) % EPC = r
<1>1. EPC \in Nat \ {0} /\ q \in Nat /\ r \in Nat /\ r < EPC
  BY Measures DEF DirIndex
<1>2. PICK x \in Nat : x = EPC * q
  BY <1>1
<1>3. PICK y \in Nat : y = EPC * n
  BY <1>1
<1>4. x + EPC <= y
  BY <1>1, <1>2, <1>3, Monotone
<1>5. x + r + 1 \in 1 .. y /\ (x + r + 1) - 1 = x + r
  BY <1>1, <1>4
<1>6. (x + r) \div EPC = q /\ (x + r) % EPC = r
  BY <1>1, <1>2, DivisionUnique
<1> QED  BY <1>3, <1>5, <1>6

(* The root's slots.                                                       *)
LEMMA RootSlots ==
  ASSUME NEW v
  PROVE  /\ Len(dir_iter(v, ROOT)) = ROOT_ENTRIES
         /\ \A p \in 1 .. ROOT_ENTRIES : dir_iter(v, ROOT)[p] \in Loc /\ dir_iter(v, ROOT)[p].c = ROOT
         /\ \A l \in Loc : l.c = ROOT => l \in ToSet(dir_iter(v, ROOT))
         /\ \A l \in ToSet(dir_iter(v, ROOT)) : l \in Loc /\ l.c = ROOT
<1>1. dir_iter(v, ROOT) = [p \in 1 .. ROOT_ENTRIES |-> [c |-> ROOT, i |-> p - 1]]
  BY DEF dir_iter
<1>2. Len(dir_iter(v, ROOT)) = ROOT_ENTRIES
  BY <1>1, Measures
<1>3. ASSUME NEW p \in 1 .. ROOT_ENTRIES
      PROVE  dir_iter(v, ROOT)[p] \in Loc /\ dir_iter(v, ROOT)[p].c = ROOT
  <2>1. p - 1 \in RootIndex
    BY Measures DEF RootIndex
  <2> QED  BY <1>1, <2>1 DEF Loc
<1>4. ASSUME NEW l \in Loc, l.c = ROOT  PROVE l \in ToSet(dir_iter(v, ROOT))
  <2>1. l = [c |-> ROOT, i |-> l.i] /\ l.i \in RootIndex
    BY <1>4, Locations
  <2>2. l.i + 1 \in 1 .. ROOT_ENTRIES /\ (l.i + 1) - 1 = l.i
    BY <2>1, Measures DEF RootIndex
  <2>3. dir_iter(v, ROOT)[l.i + 1] = l /\ l.i + 1 \in DOMAIN dir_iter(v, ROOT)
    BY <1>1, <2>1, <2>2
  <2> QED  BY <2>3 DEF ToSet
<1>5. DOMAIN dir_iter(v, ROOT) = 1 .. ROOT_ENTRIES
  BY <1>1
<1> QED  BY <1>2, <1>3, <1>4, <1>5 DEF ToSet

(* The slots of a subdirectory lie in its clusters.                        *)
LEMMA DirSlots ==
  ASSUME NEW v, NEW dir, dir # ROOT
  PROVE  \A l \in ToSet(dir_iter(v, dir)) :
           l = [c |-> l.c, i |-> l.i] /\ l.c \in ChainSet(v, dir) /\ l.i \in DirIndex
<1>1. PICK m \in 0 .. NCLUSTERS + 1 :
        /\ Chain(v, dir) = [i \in 1 .. m |-> cluster_at_index(v, dir)[i - 1]]
        /\ \A k \in 0 .. NCLUSTERS : IsData(cluster_at_index(v, dir)[k]) <=> k < m
  BY ChainShape, Zenon
<1>2. m \in Nat /\ Len(Chain(v, dir)) = m /\ DOMAIN Chain(v, dir) = 1 .. m
  BY <1>1, Measures
<1>3. PICK chain : chain = Chain(v, dir)
  OBVIOUS
<1>4. dir_iter(v, dir) = [p \in 1 .. EPC * m |-> [c |-> chain[((p - 1) \div EPC) + 1], i |-> (p - 1) % EPC]]
  BY <1>2, <1>3 DEF dir_iter
<1>5. ASSUME NEW p \in 1 .. EPC * m
      PROVE  chain[((p - 1) \div EPC) + 1] \in ChainSet(v, dir) /\ (p - 1) % EPC \in DirIndex
  <2>1. (p - 1) \div EPC \in 0 .. m - 1 /\ (p - 1) % EPC \in DirIndex
    BY <1>2, SlotNumber
  <2>2. ((p - 1) \div EPC) + 1 \in DOMAIN chain
    BY <1>2, <1>3, <2>1
  <2> QED  BY <1>3, <2>1, <2>2 DEF ChainSet, ToSet
<1> SUFFICES ASSUME NEW l \in ToSet(dir_iter(v, dir))
             PROVE  l = [c |-> l.c, i |-> l.i] /\ l.c \in ChainSet(v, dir) /\ l.i \in DirIndex
  OBVIOUS
<1>6. PICK p \in 1 .. EPC * m : l = [c |-> chain[((p - 1) \div EPC) + 1], i |-> (p - 1) % EPC]
  BY <1>4 DEF ToSet
<1> QED  BY <1>5, <1>6

(* The scan of a subdirectory: all the slots of its owner's clusters, and  *)
(* the last one is in the last cluster.                                    *)
LEMMA DirScan ==
  ASSUME NEW v, NEW g, Owners(g), Linked(v, g),
         NEW dir \in DataClusters, g.own[dir] # Nobody, g.pos[dir] = 0
  PROVE  LET s == dir_iter(v, dir)
         IN  /\ Len(s) \in Nat \ {0}
             /\ \A p \in 1 .. Len(s) : /\ s[p] = [c |-> s[p].c, i |-> s[p].i]
                                       /\ s[p].c \in DataClusters
                                       /\ s[p].i \in DirIndex
                                       /\ g.own[s[p].c] = g.own[dir]
             /\ v.fat[s[Len(s)].c] = EOC
             /\ \A c \in DataClusters, i \in DirIndex :
                  g.own[c] = g.own[dir] => [c |-> c, i |-> i] \in ToSet(s)
<1>0. PICK at : at = cluster_at_index(v, dir)
  OBVIOUS
<1>1. PICK n \in 1 .. NCLUSTERS : IsChain(v, g, dir, n)
  BY ChainWhole
<1>2. Chain(v, dir) = [i \in 1 .. n |-> at[i - 1]] /\ Len(Chain(v, dir)) = n /\ n \in Nat
  BY <1>0, <1>1, ChainIs, Measures
<1>3. PICK s : s = dir_iter(v, dir)
  OBVIOUS
<1>4. s = [p \in 1 .. EPC * n |-> [c |-> Chain(v, dir)[((p - 1) \div EPC) + 1], i |-> (p - 1) % EPC]]
  BY <1>2, <1>3, ClusterNumbers DEF dir_iter
<1>5. EPC * n \in Nat /\ EPC * n # 0
  BY <1>2, Measures
<1>6. Len(s) = EPC * n
  BY <1>4, <1>5
<1>7. ASSUME NEW p \in 1 .. EPC * n
      PROVE  /\ (p - 1) \div EPC \in 0 .. n - 1
             /\ s[p] = [c |-> at[(p - 1) \div EPC], i |-> (p - 1) % EPC]
             /\ (p - 1) % EPC \in DirIndex
  <2>1. (p - 1) \div EPC \in 0 .. n - 1 /\ (p - 1) % EPC \in DirIndex
    BY <1>2, SlotNumber
  <2>2. PICK q \in 0 .. n - 1 : q = (p - 1) \div EPC
    BY <2>1
  <2>3. q + 1 \in 1 .. n /\ (q + 1) - 1 = q
    BY <1>2, <2>2
  <2>4. Chain(v, dir)[q + 1] = at[q]
    BY <1>2, <2>3
  <2> QED  BY <1>4, <2>1, <2>2, <2>4
<1>8. \A i \in 0 .. n - 1 : at[i] \in DataClusters /\ g.own[at[i]] = g.own[dir]
  BY <1>0, <1>1 DEF IsChain
<1>9. ASSUME NEW p \in 1 .. Len(s)
      PROVE  /\ s[p] = [c |-> s[p].c, i |-> s[p].i] /\ s[p].c \in DataClusters
             /\ s[p].i \in DirIndex /\ g.own[s[p].c] = g.own[dir]
  BY <1>6, <1>7, <1>8
<1>10. v.fat[s[Len(s)].c] = EOC
  <2>1. PICK e \in Nat : e = EPC * n
    BY <1>5
  <2>2. n \in Nat \ {0}
    BY Measures
  <2>3. e \in 1 .. EPC * n /\ (e - 1) \div EPC = n - 1
    BY <2>1, <2>2, LastSlot
  <2>4. s[e] = [c |-> at[(e - 1) \div EPC], i |-> (e - 1) % EPC]
    BY <1>7, <2>3
  <2>5. s[EPC * n].c = at[n - 1]
    BY <2>1, <2>3, <2>4
  <2>6. v.fat[at[n - 1]] = EOC
    BY <1>0, <1>1 DEF IsChain
  <2> QED  BY <1>6, <2>5, <2>6
<1>11. ASSUME NEW c \in DataClusters, NEW i \in DirIndex, g.own[c] = g.own[dir]
       PROVE  [c |-> c, i |-> i] \in ToSet(s)
  <2>1. g.pos[c] \in 0 .. n - 1 /\ at[g.pos[c]] = c
    BY <1>0, <1>1, <1>11 DEF IsChain
  <2>2. PICK q \in 0 .. n - 1 : q = g.pos[c]
    BY <2>1
  <2>3. n \in Nat
    BY <1>2
  <2>4. \E p \in 1 .. EPC * n : (p - 1) \div EPC = q /\ (p - 1) % EPC = i
    BY <2>3, SlotAt
  <2>5. PICK p \in 1 .. EPC * n : (p - 1) \div EPC = q /\ (p - 1) % EPC = i
    BY <2>4
  <2>6. s[p] = [c |-> c, i |-> i]
    BY <1>7, <2>1, <2>2, <2>5
  <2>7. DOMAIN s = 1 .. EPC * n
    BY <1>4
  <2> QED  BY <2>5, <2>6, <2>7 DEF ToSet
<1> QED  BY <1>3, <1>5, <1>6, <1>9, <1>10, <1>11

(* A slot holds an entry.                                                  *)
LEMMA SlotEntry ==
  ASSUME NEW v, NEW g, NEW u, Blocks(v, g, u), NEW l \in Loc, Slot(v, g, u, l)
  PROVE  EntryAt(v, l) \in Dirent
<1>1. CASE l.c = ROOT
  BY <1>1, Locations, ClusterNumbers DEF Blocks, EntryAt
<1>2. CASE l.c # ROOT
  BY <1>2, Locations DEF Blocks, EntryAt, Slot, DirBlock
<1> QED  BY <1>1, <1>2

(* A chain has a first cluster.                                            *)
LEMMA HeadExists ==
  ASSUME NEW v, NEW g, Owners(g), Linked(v, g), NEW c \in DataClusters, g.own[c] # Nobody
  PROVE  \E h \in DataClusters : g.own[h] = g.own[c] /\ g.pos[h] = 0
<1> DEFINE T == {k \in Nat : \E d \in DataClusters : g.own[d] = g.own[c] /\ g.pos[d] = k}
<1>1. g.pos[c] \in T
  BY DEF Owners
<1>2. PICK k \in T : \A y \in T : k <= y
  <2>1. T \subseteq Nat  OBVIOUS
  <2> HIDE DEF T
  <2> QED  BY <1>1, <2>1, LeastNat
<1>3. PICK d \in DataClusters : g.own[d] = g.own[c] /\ g.pos[d] = k
  BY <1>2
<1>4. ASSUME k # 0  PROVE FALSE
  <2>1. PICK p \in DataClusters : g.own[p] = g.own[d] /\ v.fat[p] = d
    BY <1>3, <1>4 DEF Linked
  <2>2. g.pos[d] = g.pos[p] + 1 /\ g.pos[p] \in Nat
    BY <1>3, <2>1, ClusterNumbers DEF Linked, Owners
  <2>3. g.pos[p] \in T
    BY <1>3, <2>1, <2>2
  <2>4. k <= g.pos[p] /\ k \in Nat
    <3> HIDE DEF T
    <3> QED  BY <1>2, <1>3, <2>2, <2>3
  <2> QED  BY <1>3, <2>2, <2>4
<1> QED  BY <1>3, <1>4

(* A call has no chain of its own when its head is none.                   *)
LEMMA NoNew ==
  ASSUME NEW v, NEW g, Owners(g), Linked(v, g), NEW h, OwnChain(g, h),
         h \in DataClusters => g.own[h] # NewTag
  PROVE  \A c \in DataClusters : g.own[c] # NewTag
<1> SUFFICES ASSUME NEW c \in DataClusters, g.own[c] = NewTag  PROVE FALSE
  OBVIOUS
<1>1. PICK b \in DataClusters : g.own[b] = g.own[c] /\ g.pos[b] = 0
  BY HeadExists, Tags
<1> QED  BY <1>1 DEF OwnChain

-----------------------------------------------------------------------------
(* Changes that leave the directory tree alone.                            *)

(* The entries and what they own stay as they are.                         *)
SameOwned(v, g, v2, g2) ==
  /\ v2.root = v.root /\ v2.data = v.data
  /\ \A c \in DataClusters : g.own[c] \in Loc \/ g2.own[c] \in Loc =>
       /\ g2.own[c] = g.own[c] /\ g2.pos[c] = g.pos[c] /\ g2.lvl[c] = g.lvl[c]
       /\ v2.fat[c] = v.fat[c]

(* Entries, directories and depths are then what they were.                *)
LEMMA SameEntries ==
  ASSUME NEW v, NEW g, NEW v2, NEW g2, SameOwned(v, g, v2, g2)
  PROVE  /\ \A l : EntryAt(v2, l) = EntryAt(v, l)
         /\ \A c \in DataClusters : DirCluster(v2, g2, c) <=> DirCluster(v, g, c)
         /\ \A u : \A l \in Loc : Slot(v2, g2, u, l) <=> Slot(v, g, u, l)
         /\ \A u : \A l \in Loc : Alive(v2, g2, u, l) <=> Alive(v, g, u, l)
         /\ \A u : \A l \in Loc : Slot(v, g, u, l) =>
              Home(v2, g2, l) = Home(v, g, l) /\ Depth(g2, l) = Depth(g, l)
<1>1. \A l : EntryAt(v2, l) = EntryAt(v, l)
  BY DEF SameOwned, EntryAt
<1>2. \A c \in DataClusters : DirCluster(v2, g2, c) <=> DirCluster(v, g, c)
  BY <1>1 DEF SameOwned, DirCluster
<1>3. \A u : \A l \in Loc : Slot(v2, g2, u, l) <=> Slot(v, g, u, l)
  BY <1>2, Locations DEF Slot
<1>4. \A u : \A l \in Loc : Alive(v2, g2, u, l) <=> Alive(v, g, u, l)
  BY <1>1, <1>3 DEF Alive
<1>5. ASSUME NEW u, NEW l \in Loc, Slot(v, g, u, l)
      PROVE  Home(v2, g2, l) = Home(v, g, l) /\ Depth(g2, l) = Depth(g, l)
  BY <1>1, <1>5, Locations DEF Slot, DirCluster, SameOwned, Home, Depth
<1> QED  BY <1>1, <1>2, <1>3, <1>4, <1>5

(* A change that leaves entries and what they own alone keeps the volume   *)
(* in order.                                                               *)
LEMMA VolumeKept ==
  ASSUME NEW v, NEW g, NEW v2, NEW g2, NEW t, t \subseteq Loc, NEW z, NEW u,
         Volume(v, g, t, z, u), SameOwned(v, g, v2, g2), Owners(g2), Linked(v2, g2)
  PROVE  Volume(v2, g2, t, z, u)
<1>0. Blocks(v, g, u) /\ Owned(v, g, t, u) /\ Heads(v, g, t, u) /\ Dots(v, g, t, u)
  BY DEF Volume
<1>1. Blocks(v2, g2, u)
  <2>1. v2.root = v.root /\ v2.data = v.data
    BY DEF SameOwned
  <2>2. \A c \in DataClusters : DirCluster(v2, g2, c) <=> DirCluster(v, g, c)
    BY SameEntries
  <2> QED  BY <1>0, <2>1, <2>2 DEF Blocks
<1>2. Owned(v2, g2, t, u)
  <2> SUFFICES ASSUME NEW c \in DataClusters, g2.own[c] \in Loc
               PROVE  /\ Alive(v2, g2, u, g2.own[c]) /\ g2.own[c] \notin t
                      /\ g2.pos[c] = 0 => EntryAt(v2, g2.own[c]).first = c
                      /\ g2.lvl[c] = Depth(g2, g2.own[c])
    BY DEF Owned
  <2>1. g2.own[c] = g.own[c] /\ g2.pos[c] = g.pos[c] /\ g2.lvl[c] = g.lvl[c]
    BY DEF SameOwned
  <2>2. /\ Alive(v, g, u, g.own[c]) /\ g.own[c] \notin t
        /\ g.pos[c] = 0 => EntryAt(v, g.own[c]).first = c
        /\ g.lvl[c] = Depth(g, g.own[c])
    BY <1>0, <2>1 DEF Owned
  <2> QED  BY <2>1, <2>2, SameEntries DEF Alive
<1>3. Heads(v2, g2, t, u)
  <2> SUFFICES ASSUME NEW l \in Loc, Alive(v2, g2, u, l), l \notin t
               PROVE  \/ EntryAt(v2, l).first = 0 /\ ~EntryAt(v2, l).isdir
                      \/ /\ EntryAt(v2, l).first \in DataClusters
                         /\ g2.own[EntryAt(v2, l).first] = l /\ g2.pos[EntryAt(v2, l).first] = 0
    BY DEF Heads
  <2>1. Alive(v, g, u, l) /\ EntryAt(v2, l) = EntryAt(v, l)
    BY SameEntries
  <2>2. \/ EntryAt(v, l).first = 0 /\ ~EntryAt(v, l).isdir
        \/ /\ EntryAt(v, l).first \in DataClusters
           /\ g.own[EntryAt(v, l).first] = l /\ g.pos[EntryAt(v, l).first] = 0
    BY <1>0, <2>1 DEF Heads
  <2> QED  BY <2>1, <2>2 DEF SameOwned
<1>4. Dots(v2, g2, t, u)
  <2> SUFFICES ASSUME NEW l \in Loc, Alive(v2, g2, u, l), l \notin t, EntryAt(v2, l).isdir
               PROVE  /\ v2.data[EntryAt(v2, l).first][0] = NewEntry(".", TRUE, EntryAt(v2, l).first)
                      /\ v2.data[EntryAt(v2, l).first][1] = NewEntry("..", TRUE, Home(v2, g2, l))
    BY DEF Dots
  <2>1. Alive(v, g, u, l) /\ EntryAt(v2, l) = EntryAt(v, l)
    BY SameEntries
  <2>2. Home(v2, g2, l) = Home(v, g, l)
    BY <2>1, SameEntries DEF Alive
  <2> QED  BY <1>0, <2>1, <2>2 DEF Dots, SameOwned
<1>5. GivenUp(v2, g2, t, u)
  <2> SUFFICES ASSUME NEW l \in t
               PROVE  /\ Alive(v2, g2, u, l)
                      /\ EntryAt(v2, l).first \in DataClusters =>
                           g2.own[EntryAt(v2, l).first] \notin Loc
    BY DEF GivenUp
  <2>1. Alive(v, g, u, l) /\ (EntryAt(v, l).first \in DataClusters =>
          g.own[EntryAt(v, l).first] \notin Loc)
    BY DEF Volume, GivenUp
  <2>2. Alive(v2, g2, u, l) /\ EntryAt(v2, l) = EntryAt(v, l)
    BY <2>1, SameEntries
  <2> QED  BY <2>1, <2>2 DEF SameOwned
<1>6. Sized(v2, g2, t, z, u)
  <2>1. ASSUME NEW l \in Loc, Alive(v2, g2, u, l), l \notin t, ~EntryAt(v2, l).isdir
        PROVE  /\ EntryAt(v2, l).first = 0 => EntryAt(v2, l).size = 0
               /\ \A c \in DataClusters : g2.own[c] = l /\ v2.fat[c] = EOC =>
                    EntryAt(v2, l).size <= BPS * (g2.pos[c] + 1)
               /\ l \notin z => /\ EntryAt(v2, l).size = 0 => EntryAt(v2, l).first = 0
                                /\ EndsAt(v2, g2, l, LastPos(EntryAt(v2, l).size))
    <3>1. Alive(v, g, u, l) /\ EntryAt(v2, l) = EntryAt(v, l)
      BY <2>1, SameEntries
    <3>2. Sized(v, g, t, z, u)
      BY DEF Volume
    <3>3. /\ EntryAt(v, l).first = 0 => EntryAt(v, l).size = 0
          /\ \A c \in DataClusters : g.own[c] = l /\ v.fat[c] = EOC =>
               EntryAt(v, l).size <= BPS * (g.pos[c] + 1)
          /\ l \notin z => /\ EntryAt(v, l).size = 0 => EntryAt(v, l).first = 0
                           /\ EndsAt(v, g, l, LastPos(EntryAt(v, l).size))
      BY <2>1, <3>1, <3>2 DEF Sized
    <3>4. \A c \in DataClusters : g2.own[c] = l =>
            g.own[c] = l /\ g2.pos[c] = g.pos[c] /\ v2.fat[c] = v.fat[c]
      BY DEF SameOwned
    <3> QED  BY <3>1, <3>3, <3>4 DEF EndsAt
  <2> QED  BY <2>1 DEF Sized
<1> QED  BY <1>1, <1>2, <1>3, <1>4, <1>5, <1>6 DEF Volume

-----------------------------------------------------------------------------
(* Taking a cluster from the FAT, and giving it back.                      *)

(* The FAT changes at cluster c only.                                      *)
FatSet(v, v2, c, value) ==
  /\ v2.root = v.root /\ v2.data = v.data
  /\ v2.fat[c] = value
  /\ \A d \in DataClusters : d # c => v2.fat[d] = v.fat[d]

(* A free cluster is taken and marked as the end of a chain of its own.    *)
Takes(v, g, v2, g2, c, w) ==
  /\ c \in DataClusters /\ v.fat[c] = FREE /\ FatSet(v, v2, c, EOC)
  /\ w \in {NewTag, GrowTag} /\ \A d \in DataClusters : g.own[d] # w
  /\ g2.own = [g.own EXCEPT ![c] = w] /\ g2.pos = [g.pos EXCEPT ![c] = 0] /\ g2.lvl = g.lvl

(* fat_alloc_cluster's cluster gets the call as its owner; the volume      *)
(* stays in order.                                                         *)
LEMMA Take ==
  ASSUME NEW v, NEW g, NEW v2, NEW g2, NEW t, t \subseteq Loc, NEW z, NEW u,
         Volume(v, g, t, z, u), NEW c, NEW w, Takes(v, g, v2, g2, c, w)
  PROVE  Volume(v2, g2, t, z, u)
<1> USE DEF Takes
<1>0. Owners(g) /\ Linked(v, g) /\ g.own[c] = Nobody
  BY DEF Volume, Linked
<1>1. /\ g2.own[c] = w /\ g2.pos[c] = 0
      /\ \A d \in DataClusters : d # c => g2.own[d] = g.own[d] /\ g2.pos[d] = g.pos[d]
      /\ g2.own \in [DataClusters -> Tag] /\ g2.pos \in [DataClusters -> Nat]
      /\ g2.lvl \in [DataClusters -> Nat]
  BY <1>0 DEF Owners, Tag
<1>2. Owners(g2)
  BY <1>1 DEF Owners
<1>3. Linked(v2, g2)
  <2>1. ASSUME NEW d \in DataClusters
        PROVE  /\ v2.fat[d] = FREE <=> g2.own[d] = Nobody
               /\ g2.own[d] # Nobody =>
                    \/ v2.fat[d] = EOC
                    \/ /\ v2.fat[d] \in DataClusters
                       /\ g2.own[v2.fat[d]] = g2.own[d] /\ g2.pos[v2.fat[d]] = g2.pos[d] + 1
               /\ g2.own[d] # Nobody /\ g2.pos[d] # 0 =>
                    \E p \in DataClusters : g2.own[p] = g2.own[d] /\ v2.fat[p] = d
    <3>1. CASE d = c
      BY <1>1, <3>1, Tags, MarkNumbers DEF FatSet
    <3>2. CASE d # c
      <4>1. v2.fat[d] = v.fat[d] /\ g2.own[d] = g.own[d] /\ g2.pos[d] = g.pos[d]
        BY <1>1, <3>2 DEF FatSet
      <4>2. /\ v.fat[d] = FREE <=> g.own[d] = Nobody
            /\ g.own[d] # Nobody =>
                 \/ v.fat[d] = EOC
                 \/ /\ v.fat[d] \in DataClusters
                    /\ g.own[v.fat[d]] = g.own[d] /\ g.pos[v.fat[d]] = g.pos[d] + 1
        BY <1>0 DEF Linked
      <4>3. ASSUME g.own[d] # Nobody, g.pos[d] # 0
            PROVE  \E p \in DataClusters : g2.own[p] = g2.own[d] /\ v2.fat[p] = d
        <5>1. PICK p \in DataClusters : g.own[p] = g.own[d] /\ v.fat[p] = d
          BY <1>0, <4>3 DEF Linked
        <5>2. p # c
          BY <1>0, <4>3, <5>1
        <5> QED  BY <1>1, <4>1, <5>1, <5>2 DEF FatSet
      <4> QED  BY <1>0, <1>1, <4>1, <4>2, <4>3
    <3> QED  BY <3>1, <3>2
  <2>2. ASSUME NEW d \in DataClusters, NEW e \in DataClusters,
               g2.own[d] # Nobody, g2.own[d] = g2.own[e], g2.pos[d] = g2.pos[e]
        PROVE  d = e
    BY <1>0, <1>1, <2>2 DEF Linked
  <2> QED  BY <2>1, <2>2 DEF Linked
<1>4. SameOwned(v, g, v2, g2)
  BY <1>0, <1>1, Tags DEF SameOwned, FatSet
<1> QED  BY <1>2, <1>3, <1>4, VolumeKept

(* The call's own chain loses its first cluster.                           *)
Releases(v, g, v2, g2, c) ==
  /\ NewHead(g, c) /\ FatSet(v, v2, c, FREE)
  /\ g2.own = [g.own EXCEPT ![c] = Nobody]
  /\ g2.pos = [d \in DataClusters |->
                 IF g.own[d] = NewTag /\ d # c THEN g.pos[d] - 1 ELSE g.pos[d]]
  /\ g2.lvl = g.lvl

(* fat_free_chain frees the head of the call's own chain; the cursor is    *)
(* then at the next head, or past the end.                                 *)
LEMMA Release ==
  ASSUME NEW v, NEW g, NEW v2, NEW g2, NEW t, t \subseteq Loc, NEW z, NEW u,
         Volume(v, g, t, z, u), NEW c, Releases(v, g, v2, g2, c)
  PROVE  /\ Volume(v2, g2, t, z, u)
         /\ OwnChain(g2, v.fat[c])
         /\ HeadOrEnd(g2, v.fat[c])
<1> USE DEF Releases
<1>0. Owners(g) /\ Linked(v, g) /\ g.own[c] = NewTag /\ g.pos[c] = 0 /\ c \in DataClusters
  BY DEF Volume, NewHead
<1>1. ASSUME NEW d \in DataClusters, d # c, g.own[d] = NewTag
      PROVE  g.pos[d] # 0 /\ g.pos[d] - 1 \in Nat
  BY <1>0, <1>1, Tags DEF Linked, Owners
<1>2. /\ g2.own[c] = Nobody
      /\ \A d \in DataClusters : d # c => g2.own[d] = g.own[d]
      /\ \A d \in DataClusters : g.own[d] # NewTag => g2.pos[d] = g.pos[d]
      /\ \A d \in DataClusters : d # c /\ g.own[d] = NewTag => g2.pos[d] = g.pos[d] - 1
      /\ g2.own \in [DataClusters -> Tag] /\ g2.lvl \in [DataClusters -> Nat]
  BY <1>0 DEF Owners, Tag
<1>3. \A d \in DataClusters : g2.pos[d] \in Nat
  BY <1>0, <1>1 DEF Owners
<1>4. Owners(g2)
  BY <1>2, <1>3 DEF Owners
<1>5. ASSUME NEW d \in DataClusters, d # c
      PROVE  /\ v2.fat[d] = FREE <=> g2.own[d] = Nobody
             /\ g2.own[d] # Nobody =>
                  \/ v2.fat[d] = EOC
                  \/ /\ v2.fat[d] \in DataClusters
                     /\ g2.own[v2.fat[d]] = g2.own[d] /\ g2.pos[v2.fat[d]] = g2.pos[d] + 1
             /\ g2.own[d] # Nobody /\ g2.pos[d] # 0 =>
                  \E p \in DataClusters : g2.own[p] = g2.own[d] /\ v2.fat[p] = d
  <2>1. v2.fat[d] = v.fat[d] /\ g2.own[d] = g.own[d]
    BY <1>2, <1>5 DEF FatSet
  <2>2. /\ v.fat[d] = FREE <=> g.own[d] = Nobody
        /\ g.own[d] # Nobody =>
             \/ v.fat[d] = EOC
             \/ /\ v.fat[d] \in DataClusters
                /\ g.own[v.fat[d]] = g.own[d] /\ g.pos[v.fat[d]] = g.pos[d] + 1
    BY <1>0 DEF Linked
  <2>3. ASSUME g.own[d] # Nobody, v.fat[d] # EOC
        PROVE  /\ v2.fat[d] \in DataClusters
               /\ g2.own[v2.fat[d]] = g2.own[d] /\ g2.pos[v2.fat[d]] = g2.pos[d] + 1
    <3>1. PICK e \in DataClusters : e = v.fat[d] /\ g.own[e] = g.own[d] /\ g.pos[e] = g.pos[d] + 1
      BY <2>2, <2>3
    <3>2. g.pos[d] \in Nat /\ g.pos[e] \in Nat
      BY <1>0 DEF Owners
    <3>3. e # c
      BY <1>0, <3>1, <3>2
    <3>4. g2.own[e] = g.own[e]
      BY <1>2, <3>3
    <3>5. g2.pos[e] = g2.pos[d] + 1
      BY <1>2, <1>5, <3>1, <3>2, <3>3
    <3> QED  BY <2>1, <3>1, <3>4, <3>5
  <2>4. ASSUME g.own[d] # Nobody, g2.pos[d] # 0
        PROVE  \E p \in DataClusters : g2.own[p] = g2.own[d] /\ v2.fat[p] = d
    <3>1. g.pos[d] # 0 /\ g.pos[d] \in Nat
      BY <1>1, <1>2, <1>5, <2>4, <1>0 DEF Owners
    <3>2. PICK p \in DataClusters : g.own[p] = g.own[d] /\ v.fat[p] = d
      BY <1>0, <2>4, <3>1 DEF Linked
    <3>3. g.pos[d] = g.pos[p] + 1
      BY <1>0, <2>4, <3>2, ClusterNumbers DEF Linked
    <3>4. p # c
      <4>1. ASSUME p = c  PROVE FALSE
        <5>1. g.pos[d] = 1 /\ g.own[d] = NewTag
          BY <1>0, <3>2, <3>3, <4>1
        <5>2. g2.pos[d] = g.pos[d] - 1
          BY <1>2, <1>5, <5>1
        <5> QED  BY <2>4, <5>1, <5>2
      <4> QED  BY <4>1
    <3> QED  BY <1>2, <2>1, <3>2, <3>4 DEF FatSet
  <2> QED  BY <2>1, <2>2, <2>3, <2>4
<1>6. Linked(v2, g2)
  <2>1. v2.fat[c] = FREE
    BY DEF FatSet
  <2>2. ASSUME NEW d \in DataClusters, NEW e \in DataClusters,
               g2.own[d] # Nobody, g2.own[d] = g2.own[e], g2.pos[d] = g2.pos[e]
        PROVE  d = e
    <3>1. d # c /\ e # c /\ g.own[d] = g.own[e] /\ g.own[d] # Nobody
      BY <1>2, <2>2
    <3>2. g.pos[d] \in Nat /\ g.pos[e] \in Nat
      BY <1>0 DEF Owners
    <3>3. g.pos[d] = g.pos[e]
      BY <1>2, <2>2, <3>1, <3>2
    <3> QED  BY <1>0, <3>1, <3>3 DEF Linked
  <2>3. ASSUME NEW d \in DataClusters
        PROVE  /\ v2.fat[d] = FREE <=> g2.own[d] = Nobody
               /\ g2.own[d] # Nobody =>
                    \/ v2.fat[d] = EOC
                    \/ /\ v2.fat[d] \in DataClusters
                       /\ g2.own[v2.fat[d]] = g2.own[d] /\ g2.pos[v2.fat[d]] = g2.pos[d] + 1
               /\ g2.own[d] # Nobody /\ g2.pos[d] # 0 =>
                    \E p \in DataClusters : g2.own[p] = g2.own[d] /\ v2.fat[p] = d
    <3>1. CASE d = c
      BY <1>2, <2>1, <3>1
    <3>2. CASE d # c
      BY <1>5, <3>2
    <3> QED  BY <3>1, <3>2
  <2> QED  BY <2>2, <2>3 DEF Linked
<1>7. SameOwned(v, g, v2, g2)
  BY <1>0, <1>2, Tags DEF SameOwned, FatSet
<1>8. Volume(v2, g2, t, z, u)
  BY <1>4, <1>6, <1>7, VolumeKept
<1>9. OwnChain(g2, v.fat[c])
  <2> SUFFICES ASSUME NEW d \in DataClusters, g2.own[d] = NewTag, g2.pos[d] = 0
               PROVE  d = v.fat[c]
    BY DEF OwnChain
  <2>1. d # c /\ g.own[d] = NewTag /\ g.pos[d] = 1
    <3>1. d # c /\ g.own[d] = NewTag
      BY <1>2, Tags
    <3>2. g2.pos[d] = g.pos[d] - 1 /\ g.pos[d] \in Nat
      BY <1>0, <1>2, <3>1 DEF Owners
    <3> QED  BY <3>1, <3>2
  <2>2. PICK p \in DataClusters : g.own[p] = g.own[d] /\ v.fat[p] = d
    BY <1>0, <2>1, Tags DEF Linked
  <2>3. g.pos[d] = g.pos[p] + 1 /\ g.pos[p] \in Nat
    BY <1>0, <2>1, <2>2, Tags, ClusterNumbers DEF Linked, Owners
  <2>4. p = c
    BY <1>0, <2>1, <2>2, <2>3, Tags DEF Linked
  <2> QED  BY <2>2, <2>4
<1>10. v.fat[c] = EOC \/ NewHead(g2, v.fat[c])
  <2>1. ASSUME v.fat[c] # EOC  PROVE NewHead(g2, v.fat[c])
    <3>1. PICK e \in DataClusters : e = v.fat[c] /\ g.own[e] = NewTag /\ g.pos[e] = 1
      BY <1>0, <2>1, Tags DEF Linked
    <3>2. e # c
      BY <1>0, <3>1
    <3> QED  BY <1>2, <3>1, <3>2 DEF NewHead
  <2> QED  BY <2>1
<1> QED  BY <1>8, <1>9, <1>10, MarkNumbers DEF HeadOrEnd

-----------------------------------------------------------------------------
(* Linking a cluster behind a chain.                                       *)

(* An unlinked cluster c is linked behind the last cluster p of a chain.   *)
Joins(v, g, v2, g2, p, c) ==
  /\ p \in DataClusters /\ c \in DataClusters
  /\ v.fat[p] = EOC /\ g.own[p] # Nobody /\ g.own[p] # GrowTag
  /\ g.own[c] = GrowTag /\ v.fat[c] = EOC
  /\ \A d \in DataClusters : g.own[d] = GrowTag => d = c
  /\ FatSet(v, v2, p, c)
  /\ g2.own = [g.own EXCEPT ![c] = g.own[p]]
  /\ g2.pos = [g.pos EXCEPT ![c] = g.pos[p] + 1]
  /\ g2.lvl = [g.lvl EXCEPT ![c] = g.lvl[p]]

(* Who owns what after the link.                                           *)
LEMMA JoinFacts ==
  ASSUME NEW v, NEW g, NEW v2, NEW g2, NEW p, NEW c, Owners(g), Linked(v, g),
         Joins(v, g, v2, g2, p, c)
  PROVE  /\ p # c
         /\ g2.own[c] = g.own[p] /\ g2.pos[c] = g.pos[p] + 1 /\ g2.lvl[c] = g.lvl[p]
         /\ \A d \in DataClusters : d # c =>
              g2.own[d] = g.own[d] /\ g2.pos[d] = g.pos[d] /\ g2.lvl[d] = g.lvl[d]
         /\ v2.fat[c] = EOC
         /\ Owners(g2)
BY Tags DEF Joins, Owners, FatSet

(* The FAT is in order after the link.                                     *)
LEMMA JoinLinked ==
  ASSUME NEW v, NEW g, NEW v2, NEW g2, NEW p, NEW c, Owners(g), Linked(v, g),
         Joins(v, g, v2, g2, p, c)
  PROVE  Linked(v2, g2)
<1>0. p \in DataClusters /\ c \in DataClusters /\ v.fat[p] = EOC /\ g.own[p] # Nobody
  BY DEF Joins
<1>1. /\ p # c
      /\ g2.own[c] = g.own[p] /\ g2.pos[c] = g.pos[p] + 1
      /\ \A d \in DataClusters : d # c => g2.own[d] = g.own[d] /\ g2.pos[d] = g.pos[d]
      /\ v2.fat[c] = EOC
      /\ v2.fat[p] = c
      /\ \A d \in DataClusters : d # p => v2.fat[d] = v.fat[d]
  <2>1. v2.fat[p] = c /\ \A d \in DataClusters : d # p => v2.fat[d] = v.fat[d]
    BY DEF Joins, FatSet
  <2> QED  BY <2>1, JoinFacts
<1>2. ASSUME NEW d \in DataClusters, d # c
      PROVE  /\ v2.fat[d] = FREE <=> g2.own[d] = Nobody
             /\ g2.own[d] # Nobody =>
                  \/ v2.fat[d] = EOC
                  \/ /\ v2.fat[d] \in DataClusters
                     /\ g2.own[v2.fat[d]] = g2.own[d] /\ g2.pos[v2.fat[d]] = g2.pos[d] + 1
             /\ g2.own[d] # Nobody /\ g2.pos[d] # 0 =>
                  \E q \in DataClusters : g2.own[q] = g2.own[d] /\ v2.fat[q] = d
  <2>1. g2.own[d] = g.own[d] /\ g2.pos[d] = g.pos[d]
    BY <1>1, <1>2
  <2>2. CASE d = p
    <3>1. v2.fat[d] = c /\ v2.fat[d] # FREE /\ g.own[d] # Nobody
      BY <1>0, <1>1, <2>2, ClusterNumbers
    <3>2. ASSUME g.pos[d] # 0
          PROVE  \E q \in DataClusters : g2.own[q] = g2.own[d] /\ v2.fat[q] = d
      <4>1. PICK q \in DataClusters : g.own[q] = g.own[d] /\ v.fat[q] = d
        BY <3>1, <3>2 DEF Linked
      <4>2. q # p /\ q # c
        BY <1>0, <2>2, <4>1, ClusterNumbers DEF Joins
      <4> QED  BY <1>1, <2>1, <4>1, <4>2
    <3> QED  BY <1>0, <1>1, <2>1, <2>2, <3>1, <3>2
  <2>3. CASE d # p
    <3>1. v2.fat[d] = v.fat[d]
      BY <1>1, <2>3
    <3>2. /\ v.fat[d] = FREE <=> g.own[d] = Nobody
          /\ g.own[d] # Nobody =>
               \/ v.fat[d] = EOC
               \/ /\ v.fat[d] \in DataClusters
                  /\ g.own[v.fat[d]] = g.own[d] /\ g.pos[v.fat[d]] = g.pos[d] + 1
      BY DEF Linked
    <3>3. g.own[d] # GrowTag
      BY <1>2 DEF Joins
    <3>4. g.own[d] # Nobody /\ v.fat[d] \in DataClusters => v.fat[d] # c
      BY <3>2, <3>3, ClusterNumbers DEF Joins
    <3>5. ASSUME g.own[d] # Nobody, g.pos[d] # 0
          PROVE  \E q \in DataClusters : g2.own[q] = g2.own[d] /\ v2.fat[q] = d
      <4>1. PICK q \in DataClusters : g.own[q] = g.own[d] /\ v.fat[q] = d
        BY <3>5 DEF Linked
      <4>2. q # p /\ q # c
        BY <1>0, <3>3, <4>1, ClusterNumbers DEF Joins
      <4> QED  BY <1>1, <2>1, <4>1, <4>2
    <3> QED  BY <1>1, <2>1, <3>1, <3>2, <3>4, <3>5
  <2> QED  BY <2>2, <2>3
<1>3. /\ v2.fat[c] # FREE /\ g2.own[c] # Nobody
      /\ \E q \in DataClusters : g2.own[q] = g2.own[c] /\ v2.fat[q] = c
  BY <1>0, <1>1, MarkNumbers
<1>4. ASSUME NEW d \in DataClusters, g.own[d] = g.own[p], d # c
      PROVE  g.pos[d] # g.pos[p] + 1
  <2>1. ASSUME g.pos[d] = g.pos[p] + 1  PROVE FALSE
    <3>1. g.pos[p] \in Nat /\ g.pos[d] # 0
      BY <1>0, <2>1 DEF Owners
    <3>2. PICK q \in DataClusters : g.own[q] = g.own[d] /\ v.fat[q] = d
      BY <1>0, <1>4, <3>1 DEF Linked
    <3>3. g.pos[d] = g.pos[q] + 1 /\ g.pos[q] \in Nat
      BY <1>0, <1>4, <3>2, ClusterNumbers DEF Linked, Owners
    <3>4. q = p
      <4>1. \A a, b \in DataClusters :
              g.own[a] # Nobody /\ g.own[a] = g.own[b] /\ g.pos[a] = g.pos[b] => a = b
        BY DEF Linked
      <4>2. g.own[q] = g.own[p] /\ g.own[q] # Nobody
        BY <1>0, <1>4, <3>2
      <4>3. g.pos[q] = g.pos[p]
        BY <2>1, <3>1, <3>3
      <4> QED  BY <1>0, <4>1, <4>2, <4>3
    <3> QED  BY <1>0, <3>2, <3>4, ClusterNumbers
  <2> QED  BY <2>1
<1>5. ASSUME NEW d \in DataClusters, NEW e \in DataClusters,
             g2.own[d] # Nobody, g2.own[d] = g2.own[e], g2.pos[d] = g2.pos[e]
      PROVE  d = e
  <2>1. CASE d = c /\ e # c
    BY <1>1, <1>4, <1>5, <2>1
  <2>2. CASE d # c /\ e = c
    BY <1>1, <1>4, <1>5, <2>2
  <2>3. CASE d # c /\ e # c
    BY <1>1, <1>5, <2>3 DEF Linked
  <2> QED  BY <2>1, <2>2, <2>3
<1>6. ASSUME NEW d \in DataClusters
      PROVE  /\ v2.fat[d] = FREE <=> g2.own[d] = Nobody
             /\ g2.own[d] # Nobody =>
                  \/ v2.fat[d] = EOC
                  \/ /\ v2.fat[d] \in DataClusters
                     /\ g2.own[v2.fat[d]] = g2.own[d] /\ g2.pos[v2.fat[d]] = g2.pos[d] + 1
             /\ g2.own[d] # Nobody /\ g2.pos[d] # 0 =>
                  \E q \in DataClusters : g2.own[q] = g2.own[d] /\ v2.fat[q] = d
  <2>1. CASE d = c
    BY <1>1, <1>3, <2>1
  <2>2. CASE d # c
    BY <1>2, <2>2
  <2> QED  BY <2>1, <2>2
<1> QED  BY <1>5, <1>6 DEF Linked

(* The end of a chain moves on with the cluster that is linked to it.      *)
LEMMA JoinEnds ==
  ASSUME NEW v, NEW g, NEW v2, NEW g2, NEW p, NEW c, Owners(g), Linked(v, g),
         Joins(v, g, v2, g2, p, c), NEW n, EndsAt(v, g, g.own[p], n)
  PROVE  EndsAt(v2, g2, g.own[p], n + 1) /\ g.pos[p] = n
<1>1. g.pos[p] = n
  BY DEF EndsAt, Joins
<1>2. /\ p # c /\ p \in DataClusters /\ c \in DataClusters /\ g2.pos[c] = g.pos[p] + 1
      /\ \A d \in DataClusters : d # c => g2.own[d] = g.own[d] /\ g2.pos[d] = g.pos[d]
      /\ v2.fat[p] = c
      /\ \A d \in DataClusters : d # p => v2.fat[d] = v.fat[d]
  <2>1. /\ v2.fat[p] = c /\ p \in DataClusters /\ c \in DataClusters
        /\ \A d \in DataClusters : d # p => v2.fat[d] = v.fat[d]
    BY DEF Joins, FatSet
  <2> QED  BY <2>1, JoinFacts
<1>3. ASSUME NEW d \in DataClusters, g2.own[d] = g.own[p], v2.fat[d] = EOC
      PROVE  g2.pos[d] = n + 1
  <2>1. d # p
    BY <1>2, <1>3, ClusterNumbers
  <2>2. ASSUME d # c  PROVE FALSE
    <3>1. g.own[d] = g.own[p] /\ v.fat[d] = EOC
      BY <1>2, <1>3, <2>1, <2>2
    <3>2. g.pos[d] = n
      BY <3>1 DEF EndsAt
    <3> QED  BY <1>1, <1>2, <2>1, <3>1, <3>2 DEF Joins, Linked
  <2> QED  BY <1>1, <1>2, <2>2
<1> QED  BY <1>1, <1>3 DEF EndsAt

(* Linking to the chain that the call builds.                              *)
LEMMA JoinNew ==
  ASSUME NEW v, NEW g, NEW v2, NEW g2, NEW t, t \subseteq Loc, NEW z, NEW u,
         Volume(v, g, t, z, u), NEW p, NEW c, Joins(v, g, v2, g2, p, c), g.own[p] = NewTag
  PROVE  Volume(v2, g2, t, z, u)
<1>0. Owners(g) /\ Linked(v, g)
  BY DEF Volume
<1>1. Owners(g2) /\ Linked(v2, g2)
  BY <1>0, JoinFacts, JoinLinked
<1>2. SameOwned(v, g, v2, g2)
  <2>1. v2.root = v.root /\ v2.data = v.data
    BY DEF Joins, FatSet
  <2>2. ASSUME NEW d \in DataClusters, g.own[d] \in Loc \/ g2.own[d] \in Loc
        PROVE  /\ g2.own[d] = g.own[d] /\ g2.pos[d] = g.pos[d] /\ g2.lvl[d] = g.lvl[d]
               /\ v2.fat[d] = v.fat[d]
    <3>1. d # c
      BY <1>0, <2>2, JoinFacts, Tags DEF Joins
    <3>2. d # p
      BY <1>0, <2>2, <3>1, JoinFacts, Tags
    <3>3. v2.fat[d] = v.fat[d]
      BY <3>2 DEF Joins, FatSet
    <3> QED  BY <1>0, <3>1, <3>3, JoinFacts
  <2> QED  BY <2>1, <2>2 DEF SameOwned
<1> QED  BY <1>1, <1>2, VolumeKept

(* Linking to the chain of an entry: of a file that grows (u2 = 0), or of  *)
(* a directory, where the new cluster is not zeroed yet (u2 = c).          *)
LEMMA JoinEntry ==
  ASSUME NEW v, NEW g, NEW v2, NEW g2, NEW z, NEW u2,
         Volume(v, g, {}, z, 0), NEW p, NEW c, Joins(v, g, v2, g2, p, c), g.own[p] \in Loc,
         \/ ~EntryAt(v, g.own[p]).isdir /\ u2 = 0 /\ g.own[p] \in z
         \/ EntryAt(v, g.own[p]).isdir /\ u2 = c
  PROVE  Volume(v2, g2, {}, z, u2)
<1>0. Owners(g) /\ Linked(v, g) /\ Blocks(v, g, 0) /\ Owned(v, g, {}, 0) /\ Heads(v, g, {}, 0)
      /\ Dots(v, g, {}, 0) /\ Sized(v, g, {}, z, 0)
  BY DEF Volume
<1>1. Owners(g2) /\ Linked(v2, g2)
  BY <1>0, JoinFacts, JoinLinked
<1>2. PICK w \in Loc : w = g.own[p]
  OBVIOUS
<1>3. /\ p \in DataClusters /\ c \in DataClusters /\ g.own[c] = GrowTag /\ p # c
      /\ g2.own[c] = w /\ g2.pos[c] = g.pos[p] + 1 /\ g2.lvl[c] = g.lvl[p]
      /\ \A d \in DataClusters : d # c =>
           g2.own[d] = g.own[d] /\ g2.pos[d] = g.pos[d] /\ g2.lvl[d] = g.lvl[d]
      /\ v2.fat[p] = c /\ v2.fat[c] = EOC /\ v2.root = v.root /\ v2.data = v.data
      /\ \A d \in DataClusters : d # p => v2.fat[d] = v.fat[d]
      /\ \/ ~EntryAt(v, w).isdir /\ u2 = 0 /\ w \in z
         \/ EntryAt(v, w).isdir /\ u2 = c
      /\ v.fat[p] = EOC
  <2>1. /\ p \in DataClusters /\ c \in DataClusters /\ g.own[c] = GrowTag
        /\ v2.fat[p] = c /\ v2.root = v.root /\ v2.data = v.data /\ v.fat[p] = EOC
        /\ \A d \in DataClusters : d # p => v2.fat[d] = v.fat[d]
    BY DEF Joins, FatSet
  <2> QED  BY <1>0, <1>2, <2>1, JoinFacts
<1>4. \A l : EntryAt(v2, l) = EntryAt(v, l)
  BY <1>3 DEF EntryAt
<1>5. \A d \in DataClusters : d # c => (DirCluster(v2, g2, d) <=> DirCluster(v, g, d))
  BY <1>3, <1>4 DEF DirCluster
<1>6. ~DirCluster(v, g, c) /\ (DirCluster(v2, g2, c) => u2 = c)
  BY <1>3, <1>4, Tags DEF DirCluster
<1>7. \A l \in Loc : Slot(v2, g2, u2, l) <=> Slot(v, g, 0, l)
  BY <1>3, <1>5, <1>6, Locations, ClusterNumbers DEF Slot, ROOT
<1>8. \A l \in Loc : Alive(v2, g2, u2, l) <=> Alive(v, g, 0, l)
  BY <1>4, <1>7 DEF Alive
<1>9. ASSUME NEW l \in Loc, Slot(v, g, 0, l)
      PROVE  l.c # c /\ Home(v2, g2, l) = Home(v, g, l) /\ Depth(g2, l) = Depth(g, l)
  <2>1. l.c # c
    BY <1>3, <1>6, <1>9, ClusterNumbers DEF Slot
  <2> QED  BY <1>3, <1>4, <2>1, Locations DEF Home, Depth
<1>10. /\ Alive(v, g, 0, w) /\ g.lvl[p] = Depth(g, w)
  BY <1>0, <1>2, <1>3 DEF Owned
<1>11. Blocks(v2, g2, u2)
  <2> SUFFICES ASSUME NEW d \in DataClusters
        PROVE  /\ v.data[d] \in DirBlock \/ 0 \notin DOMAIN v.data[d]
               /\ DirCluster(v2, g2, d) /\ d # u2 => v.data[d] \in DirBlock
               /\ v.data[d] \in DirBlock /\ (~DirCluster(v2, g2, d) \/ d = u2) =>
                    \A i \in DirIndex : Used(v.data[d][i]) => IsDot(v.data[d][i])
    BY <1>0, <1>3 DEF Blocks
  <2>1. CASE d = c
    BY <1>0, <1>6, <2>1 DEF Blocks
  <2>2. CASE d # c
    BY <1>0, <1>3, <1>5, <2>2, ClusterNumbers DEF Blocks
  <2> QED  BY <2>1, <2>2
<1>12. Owned(v2, g2, {}, u2)
  <2> SUFFICES ASSUME NEW d \in DataClusters, g2.own[d] \in Loc
               PROVE  /\ Alive(v2, g2, u2, g2.own[d])
                      /\ g2.pos[d] = 0 => EntryAt(v2, g2.own[d]).first = d
                      /\ g2.lvl[d] = Depth(g2, g2.own[d])
    BY DEF Owned
  <2>1. CASE d = c
    <3>1. g.pos[p] \in Nat
      BY <1>0, <1>3 DEF Owners
    <3> QED  BY <1>3, <1>8, <1>9, <1>10, <2>1, <3>1 DEF Alive
  <2>2. CASE d # c
    <3>1. /\ Alive(v, g, 0, g.own[d]) /\ g.own[d] \in Loc
          /\ g.pos[d] = 0 => EntryAt(v, g.own[d]).first = d
          /\ g.lvl[d] = Depth(g, g.own[d])
      BY <1>0, <1>3, <2>2 DEF Owned
    <3> QED  BY <1>3, <1>4, <1>8, <1>9, <2>2, <3>1 DEF Alive
  <2> QED  BY <2>1, <2>2
<1>13. Heads(v2, g2, {}, u2)
  <2> SUFFICES ASSUME NEW l \in Loc, Alive(v2, g2, u2, l)
               PROVE  \/ EntryAt(v2, l).first = 0 /\ ~EntryAt(v2, l).isdir
                      \/ /\ EntryAt(v2, l).first \in DataClusters
                         /\ g2.own[EntryAt(v2, l).first] = l /\ g2.pos[EntryAt(v2, l).first] = 0
    BY DEF Heads
  <2>1. \/ EntryAt(v, l).first = 0 /\ ~EntryAt(v, l).isdir
        \/ /\ EntryAt(v, l).first \in DataClusters
           /\ g.own[EntryAt(v, l).first] = l /\ g.pos[EntryAt(v, l).first] = 0
    BY <1>0, <1>8 DEF Heads
  <2> QED  BY <1>3, <1>4, <2>1, Tags
<1>14. Dots(v2, g2, {}, u2)
  <2> SUFFICES ASSUME NEW l \in Loc, Alive(v2, g2, u2, l), EntryAt(v2, l).isdir
               PROVE  /\ v2.data[EntryAt(v2, l).first][0] = NewEntry(".", TRUE, EntryAt(v2, l).first)
                      /\ v2.data[EntryAt(v2, l).first][1] = NewEntry("..", TRUE, Home(v2, g2, l))
    BY DEF Dots
  <2>1. Alive(v, g, 0, l) /\ EntryAt(v2, l) = EntryAt(v, l)
    BY <1>4, <1>8
  <2>2. Home(v2, g2, l) = Home(v, g, l)
    BY <1>9, <2>1 DEF Alive
  <2> QED  BY <1>0, <1>3, <2>1, <2>2 DEF Dots
<1>15. GivenUp(v2, g2, {}, u2)
  BY DEF GivenUp
<1>16. Sized(v2, g2, {}, z, u2)
  <2>1. ASSUME NEW l \in Loc, Alive(v2, g2, u2, l), ~EntryAt(v2, l).isdir
        PROVE  /\ EntryAt(v2, l).first = 0 => EntryAt(v2, l).size = 0
               /\ \A d \in DataClusters : g2.own[d] = l /\ v2.fat[d] = EOC =>
                    EntryAt(v2, l).size <= BPS * (g2.pos[d] + 1)
               /\ l \notin z => /\ EntryAt(v2, l).size = 0 => EntryAt(v2, l).first = 0
                                /\ EndsAt(v2, g2, l, LastPos(EntryAt(v2, l).size))
    <3>1. Alive(v, g, 0, l) /\ EntryAt(v2, l) = EntryAt(v, l)
      BY <1>4, <1>8, <2>1
    <3>2. /\ EntryAt(v, l).first = 0 => EntryAt(v, l).size = 0
          /\ \A d \in DataClusters : g.own[d] = l /\ v.fat[d] = EOC =>
               EntryAt(v, l).size <= BPS * (g.pos[d] + 1)
          /\ l \notin z => /\ EntryAt(v, l).size = 0 => EntryAt(v, l).first = 0
                           /\ EndsAt(v, g, l, LastPos(EntryAt(v, l).size))
      BY <1>0, <2>1, <3>1 DEF Sized
    <3>3. CASE l # w
      <4>1. \A d \in DataClusters : g2.own[d] = l =>
              g.own[d] = l /\ g2.pos[d] = g.pos[d] /\ v2.fat[d] = v.fat[d]
        BY <1>2, <1>3, <3>3
      <4> QED  BY <3>1, <3>2, <4>1 DEF EndsAt
    <3>4. CASE l = w
      <4>1. l \in z
        BY <1>3, <2>1, <3>1, <3>4
      <4>2. ASSUME NEW d \in DataClusters, g2.own[d] = l, v2.fat[d] = EOC
            PROVE  EntryAt(v, l).size <= BPS * (g2.pos[d] + 1)
        <5>1. CASE d # c
          <6>1. d # p
            BY <1>3, <4>2, ClusterNumbers
          <6> QED  BY <1>3, <3>2, <4>2, <5>1, <6>1
        <5>2. CASE d = c
          <6>1. EntryAt(v, l).size <= BPS * (g.pos[p] + 1)
            BY <1>2, <1>3, <3>2, <3>4
          <6>2. PICK k \in Nat : k = g.pos[p] + 1
            BY <1>0, <1>3 DEF Owners
          <6>3. BPS * k \in Nat /\ BPS * (k + 1) = BPS * k + BPS
            BY Measures
          <6>4. EntryAt(v, l) \in Dirent
            BY <1>0, <3>1, SlotEntry DEF Alive
          <6>5. EntryAt(v, l).size \in Nat
            BY <6>4 DEF Dirent
          <6>6. g2.pos[d] = k
            BY <1>3, <5>2, <6>2
          <6> QED  BY <6>1, <6>2, <6>3, <6>5, <6>6, Measures
        <5> QED  BY <5>1, <5>2
      <4> QED  BY <3>1, <3>2, <4>1, <4>2
    <3> QED  BY <3>3, <3>4
  <2> QED  BY <2>1 DEF Sized
<1> QED  BY <1>1, <1>11, <1>12, <1>13, <1>14, <1>15, <1>16 DEF Volume

-----------------------------------------------------------------------------
(* Writing a data cluster.                                                 *)

(* Data cluster c changes to block b.                                      *)
DataSet(v, v2, c, b) ==
  /\ v2.root = v.root /\ v2.fat = v.fat
  /\ v2.data[c] = b
  /\ \A d \in DataClusters : d # c => v2.data[d] = v.data[d]

(* A block that holds no entry but . and ..                                *)
NoEntries(b) ==
  \/ 0 \notin DOMAIN b
  \/ b \in DirBlock /\ \A i \in DirIndex : Used(b[i]) => IsDot(b[i])

(* A zeroed sector is a directory cluster without entries.                 *)
LEMMA ZeroDirBlock ==
  /\ ZeroDir \in DirBlock /\ NoEntries(ZeroDir)
  /\ \A i \in DirIndex : ZeroDir[i] = FreeEntry
  /\ FreeEntry \in Dirent /\ ~Used(FreeEntry)
<1>1. FreeEntry \in Dirent /\ ~Used(FreeEntry)
  BY DEF FreeEntry, Dirent, Used
<1>2. ZeroDir \in DirBlock /\ \A i \in DirIndex : ZeroDir[i] = FreeEntry
  BY <1>1 DEF ZeroDir, DirBlock, DirIndex
<1> QED  BY <1>1, <1>2 DEF NoEntries

(* Writing a cluster that no directory uses, or zeroing the one that a     *)
(* directory has just been given, leaves the volume in order.              *)
LEMMA DataWrite ==
  ASSUME NEW v, NEW g, NEW v2, NEW t, t \subseteq Loc, NEW z, NEW u, NEW u2,
         Volume(v, g, t, z, u), NEW c \in DataClusters, NEW b, DataSet(v, v2, c, b),
         NoEntries(b),
         \/ ~DirCluster(v, g, c) /\ u2 = u
         \/ c = u /\ u2 = 0 /\ b = ZeroDir /\ g.pos[c] # 0
  PROVE  Volume(v2, g, t, z, u2)
<1>0. Owners(g) /\ Linked(v, g) /\ Blocks(v, g, u) /\ Owned(v, g, t, u) /\ Heads(v, g, t, u)
      /\ Dots(v, g, t, u) /\ GivenUp(v, g, t, u) /\ Sized(v, g, t, z, u)
  BY DEF Volume
<1>1. /\ v2.root = v.root /\ v2.fat = v.fat /\ v2.data[c] = b
      /\ \A d \in DataClusters : d # c => v2.data[d] = v.data[d]
  BY DEF DataSet
<1>2. \A l \in Loc : l.c # c => EntryAt(v2, l) = EntryAt(v, l)
  BY <1>1, Locations DEF EntryAt
<1>3. \A l \in Loc : Slot(v, g, u, l) => l.c # c
  BY ClusterNumbers DEF Slot
<1>4. \A l \in Loc : Slot(v, g, u, l) => EntryAt(v2, l) = EntryAt(v, l)
  BY <1>2, <1>3
<1>5. ASSUME NEW d \in DataClusters, g.own[d] \in Loc
      PROVE  EntryAt(v2, g.own[d]) = EntryAt(v, g.own[d])
  <2>1. Slot(v, g, u, g.own[d])
    BY <1>0, <1>5 DEF Owned, Alive
  <2> QED  BY <1>4, <1>5, <2>1
<1>6. \A d \in DataClusters : DirCluster(v2, g, d) <=> DirCluster(v, g, d)
  BY <1>5 DEF DirCluster
<1>7. ASSUME NEW l \in Loc
      PROVE  Alive(v2, g, u2, l) <=> Alive(v, g, u, l)
  <2>1. CASE l.c # c
    <3>1. Slot(v2, g, u2, l) <=> Slot(v, g, u, l)
      BY <1>6, <2>1, Locations, ClusterNumbers DEF Slot
    <3> QED  BY <1>2, <2>1, <3>1 DEF Alive
  <2>2. CASE l.c = c
    <3>1. ~Alive(v, g, u, l)
      BY <1>3, <2>2 DEF Alive
    <3>2. CASE ~DirCluster(v, g, c) /\ u2 = u
      BY <1>6, <2>2, <3>1, <3>2, ClusterNumbers DEF Alive, Slot
    <3>3. CASE b = ZeroDir
      <4>1. EntryAt(v2, l) = FreeEntry
        BY <1>1, <2>2, <3>3, Locations, ClusterNumbers, ZeroDirBlock DEF EntryAt
      <4> QED  BY <3>1, <4>1, ZeroDirBlock DEF Alive
    <3> QED  BY <3>2, <3>3
  <2> QED  BY <2>1, <2>2
<1>8. ASSUME NEW l \in Loc, Alive(v, g, u, l)
      PROVE  EntryAt(v2, l) = EntryAt(v, l) /\ Home(v2, g, l) = Home(v, g, l)
  <2>1. Slot(v, g, u, l)
    BY <1>8 DEF Alive
  <2>2. l.c # ROOT => l.c \in DataClusters /\ g.own[l.c] \in Loc
    BY <2>1, Locations DEF Slot, DirCluster
  <2> QED  BY <1>4, <1>5, <2>1, <2>2 DEF Home
<1>9. Linked(v2, g)
  BY <1>0, <1>1 DEF Linked
<1>10. Blocks(v2, g, u2)
  <2>1. v2.root \in [RootIndex -> Dirent]
    BY <1>0, <1>1 DEF Blocks
  <2>2. ASSUME NEW d \in DataClusters
        PROVE  /\ v2.data[d] \in DirBlock \/ 0 \notin DOMAIN v2.data[d]
               /\ DirCluster(v2, g, d) /\ d # u2 => v2.data[d] \in DirBlock
               /\ v2.data[d] \in DirBlock /\ (~DirCluster(v2, g, d) \/ d = u2) =>
                    \A i \in DirIndex : Used(v2.data[d][i]) => IsDot(v2.data[d][i])
    <3>1. CASE d # c
      <4>1. /\ v.data[d] \in DirBlock \/ 0 \notin DOMAIN v.data[d]
            /\ DirCluster(v, g, d) /\ d # u => v.data[d] \in DirBlock
            /\ v.data[d] \in DirBlock /\ (~DirCluster(v, g, d) \/ d = u) =>
                 \A i \in DirIndex : Used(v.data[d][i]) => IsDot(v.data[d][i])
        BY <1>0 DEF Blocks
      <4>2. v2.data[d] = v.data[d] /\ (d = u2 <=> d = u)
        BY <1>1, <3>1, ClusterNumbers
      <4> QED  BY <1>6, <4>1, <4>2
    <3>2. CASE d = c
      <4>1. \/ 0 \notin DOMAIN b /\ b \notin DirBlock
            \/ b \in DirBlock /\ \A i \in DirIndex : Used(b[i]) => IsDot(b[i])
        <5>1. b \in DirBlock => 0 \in DOMAIN b
          BY Measures DEF DirBlock, DirIndex
        <5> QED  BY <5>1 DEF NoEntries
      <4>2. CASE ~DirCluster(v, g, c) /\ u2 = u
        BY <1>1, <1>6, <3>2, <4>1, <4>2
      <4>3. CASE b = ZeroDir
        BY <1>1, <3>2, <4>1, <4>3, ZeroDirBlock
      <4> QED  BY <4>2, <4>3
    <3> QED  BY <3>1, <3>2
  <2> QED  BY <2>1, <2>2 DEF Blocks
<1>11. Owned(v2, g, t, u2)
  <2> SUFFICES ASSUME NEW d \in DataClusters, g.own[d] \in Loc
               PROVE  /\ Alive(v2, g, u2, g.own[d]) /\ g.own[d] \notin t
                      /\ g.pos[d] = 0 => EntryAt(v2, g.own[d]).first = d
                      /\ g.lvl[d] = Depth(g, g.own[d])
    BY DEF Owned
  <2> QED  BY <1>0, <1>5, <1>7 DEF Owned
<1>12. Heads(v2, g, t, u2)
  BY <1>0, <1>7, <1>8 DEF Heads
<1>13. Dots(v2, g, t, u2)
  <2> SUFFICES ASSUME NEW l \in Loc, Alive(v2, g, u2, l), l \notin t, EntryAt(v2, l).isdir
               PROVE  /\ v2.data[EntryAt(v2, l).first][0] = NewEntry(".", TRUE, EntryAt(v2, l).first)
                      /\ v2.data[EntryAt(v2, l).first][1] = NewEntry("..", TRUE, Home(v2, g, l))
    BY DEF Dots
  <2>1. Alive(v, g, u, l) /\ EntryAt(v2, l) = EntryAt(v, l) /\ Home(v2, g, l) = Home(v, g, l)
    BY <1>7, <1>8
  <2>2. PICK h : h = EntryAt(v, l).first
    OBVIOUS
  <2>3. h \in DataClusters /\ g.own[h] = l /\ g.pos[h] = 0
    BY <1>0, <2>1, <2>2 DEF Heads
  <2>4. h # c
    BY <2>1, <2>3 DEF DirCluster
  <2>5. v2.data[h] = v.data[h]
    BY <1>1, <2>3, <2>4
  <2> QED  BY <1>0, <2>1, <2>2, <2>5 DEF Dots
<1>14. GivenUp(v2, g, t, u2)
  BY <1>0, <1>7, <1>8 DEF GivenUp
<1>15. Sized(v2, g, t, z, u2)
  <2>1. ASSUME NEW l \in Loc, Alive(v2, g, u2, l), l \notin t, ~EntryAt(v2, l).isdir
        PROVE  /\ EntryAt(v2, l).first = 0 => EntryAt(v2, l).size = 0
               /\ \A d \in DataClusters : g.own[d] = l /\ v2.fat[d] = EOC =>
                    EntryAt(v2, l).size <= BPS * (g.pos[d] + 1)
               /\ l \notin z => /\ EntryAt(v2, l).size = 0 => EntryAt(v2, l).first = 0
                                /\ EndsAt(v2, g, l, LastPos(EntryAt(v2, l).size))
    <3>1. Alive(v, g, u, l) /\ EntryAt(v2, l) = EntryAt(v, l)
      BY <1>7, <1>8, <2>1
    <3> QED  BY <1>0, <1>1, <2>1, <3>1 DEF Sized, EndsAt
  <2> QED  BY <2>1 DEF Sized
<1> QED  BY <1>0, <1>9, <1>10, <1>11, <1>12, <1>13, <1>14, <1>15 DEF Volume

-----------------------------------------------------------------------------
(* A chain passes from an entry to the call that frees it, and from a call *)
(* to the entry that it writes.                                            *)

(* A call takes the chain of location l over, to free it; the chain of a   *)
(* directory only if the directory is empty.                               *)
Detaches(v, g, g2, l) ==
  /\ Alive(v, g, 0, l)
  /\ EntryAt(v, l).isdir =>
       \A c \in DataClusters : g.own[c] = l =>
         \A i \in DirIndex : Used(v.data[c][i]) => IsDot(v.data[c][i])
  /\ \A c \in DataClusters : g.own[c] # NewTag
  /\ g2.own = [c \in DataClusters |-> IF g.own[c] = l THEN NewTag ELSE g.own[c]]
  /\ g2.pos = g.pos /\ g2.lvl = g.lvl

(* A call gives up the chain of an entry: from now on the chain is the     *)
(* call's own.                                                             *)
LEMMA Detach ==
  ASSUME NEW v, NEW g, NEW g2, NEW l, NEW t, t = {l},
         Volume(v, g, {}, {}, 0), Detaches(v, g, g2, l)
  PROVE  /\ Volume(v, g2, t, t, 0)
         /\ OwnChain(g2, EntryAt(v, l).first)
         /\ HeadOrEnd(g2, EntryAt(v, l).first)
<1>0. Owners(g) /\ Linked(v, g) /\ Blocks(v, g, 0) /\ Owned(v, g, {}, 0) /\ Heads(v, g, {}, 0)
      /\ Dots(v, g, {}, 0) /\ Sized(v, g, {}, {}, 0)
  BY DEF Volume
<1>1. /\ l \in Loc /\ Alive(v, g, 0, l)
      /\ \A c \in DataClusters : g.own[c] # NewTag
      /\ \A c \in DataClusters : g.own[c] = l => g2.own[c] = NewTag
      /\ \A c \in DataClusters : g.own[c] # l => g2.own[c] = g.own[c]
      /\ g2.pos = g.pos /\ g2.lvl = g.lvl
  BY DEF Detaches, Alive
<1>2. Owners(g2)
  <2>1. g2.own = [c \in DataClusters |-> IF g.own[c] = l THEN NewTag ELSE g.own[c]]
    BY DEF Detaches
  <2>2. \A c \in DataClusters : (IF g.own[c] = l THEN NewTag ELSE g.own[c]) \in Tag
    BY <1>0 DEF Owners, Tag
  <2> QED  BY <1>0, <1>1, <2>1, <2>2 DEF Owners
<1>3. Linked(v, g2)
  <2>1. l # Nobody /\ l # NewTag
    BY <1>1, Tags
  <2>2. ASSUME NEW d \in DataClusters
        PROVE  /\ v.fat[d] = FREE <=> g2.own[d] = Nobody
               /\ g2.own[d] # Nobody =>
                    \/ v.fat[d] = EOC
                    \/ /\ v.fat[d] \in DataClusters
                       /\ g2.own[v.fat[d]] = g2.own[d] /\ g2.pos[v.fat[d]] = g2.pos[d] + 1
               /\ g2.own[d] # Nobody /\ g2.pos[d] # 0 =>
                    \E q \in DataClusters : g2.own[q] = g2.own[d] /\ v.fat[q] = d
    <3>1. g2.own[d] = Nobody <=> g.own[d] = Nobody
      BY <1>1, <2>1, Tags
    <3>2. \A q \in DataClusters : g.own[q] = g.own[d] => g2.own[q] = g2.own[d]
      BY <1>1
    <3> QED  BY <1>0, <1>1, <3>1, <3>2 DEF Linked
  <2>3. ASSUME NEW d \in DataClusters, NEW e \in DataClusters,
               g2.own[d] # Nobody, g2.own[d] = g2.own[e], g2.pos[d] = g2.pos[e]
        PROVE  d = e
    <3>1. g.own[d] = g.own[e] /\ g.own[d] # Nobody
      BY <1>1, <2>1, <2>3, Tags
    <3> QED  BY <1>0, <1>1, <2>3, <3>1 DEF Linked
  <2> QED  BY <2>2, <2>3 DEF Linked
<1>4. \A d \in DataClusters : DirCluster(v, g2, d) <=> DirCluster(v, g, d) /\ g.own[d] # l
  BY <1>1, Tags DEF DirCluster
<1>5. ASSUME NEW m \in Loc
      PROVE  Alive(v, g2, 0, m) <=> Alive(v, g, 0, m)
  <2>1. CASE m.c = ROOT
    BY <2>1 DEF Alive, Slot
  <2>2. CASE m.c \in DataClusters /\ g.own[m.c] # l
    BY <1>4, <2>2, ClusterNumbers DEF Alive, Slot
  <2>3. CASE m.c \in DataClusters /\ g.own[m.c] = l
    <3>1. ~Alive(v, g2, 0, m)
      BY <1>4, <2>3, ClusterNumbers DEF Alive, Slot
    <3>2. ASSUME Alive(v, g, 0, m)  PROVE FALSE
      <4>1. EntryAt(v, l).isdir
        BY <2>3, <3>2, ClusterNumbers DEF Alive, Slot, DirCluster
      <4>2. m.i \in DirIndex
        BY <2>3, Locations, ClusterNumbers
      <4>3. Used(v.data[m.c][m.i]) => IsDot(v.data[m.c][m.i])
        BY <2>3, <4>1, <4>2 DEF Detaches
      <4> QED  BY <2>3, <3>2, <4>3, ClusterNumbers DEF Alive, EntryAt
    <3> QED  BY <3>1, <3>2
  <2> QED  BY <2>1, <2>2, <2>3, Locations
<1>6. ASSUME NEW m \in Loc, Alive(v, g, 0, m)
      PROVE  Home(v, g2, m) = Home(v, g, m) /\ Depth(g2, m) = Depth(g, m)
  <2>1. CASE m.c = ROOT
    BY <2>1 DEF Home, Depth
  <2>2. CASE m.c \in DataClusters
    <3>1. Slot(v, g2, 0, m)
      BY <1>5, <1>6 DEF Alive
    <3>2. g.own[m.c] # l
      BY <1>4, <2>2, <3>1, ClusterNumbers DEF Slot
    <3>3. g2.own[m.c] = g.own[m.c] /\ g2.lvl[m.c] = g.lvl[m.c]
      BY <1>1, <2>2, <3>2
    <3> QED  BY <2>2, <3>3, ClusterNumbers DEF Home, Depth
  <2> QED  BY <2>1, <2>2, Locations
<1>7. Blocks(v, g2, 0)
  <2>1. v.root \in [RootIndex -> Dirent]
    BY <1>0 DEF Blocks
  <2>2. ASSUME NEW d \in DataClusters
        PROVE  /\ v.data[d] \in DirBlock \/ 0 \notin DOMAIN v.data[d]
               /\ DirCluster(v, g2, d) /\ d # 0 => v.data[d] \in DirBlock
               /\ v.data[d] \in DirBlock /\ (~DirCluster(v, g2, d) \/ d = 0) =>
                    \A i \in DirIndex : Used(v.data[d][i]) => IsDot(v.data[d][i])
    <3>1. CASE g.own[d] # l
      <4>1. DirCluster(v, g2, d) <=> DirCluster(v, g, d)
        BY <1>4, <3>1
      <4> QED  BY <1>0, <4>1 DEF Blocks
    <3>2. CASE g.own[d] = l /\ EntryAt(v, l).isdir
      <4>1. ~DirCluster(v, g2, d)
        BY <1>4, <3>2
      <4>2. \A i \in DirIndex : Used(v.data[d][i]) => IsDot(v.data[d][i])
        BY <3>2 DEF Detaches
      <4>3. v.data[d] \in DirBlock \/ 0 \notin DOMAIN v.data[d]
        BY <1>0 DEF Blocks
      <4> QED  BY <4>1, <4>2, <4>3
    <3>3. CASE g.own[d] = l /\ ~EntryAt(v, l).isdir
      <4>1. ~DirCluster(v, g2, d) /\ ~DirCluster(v, g, d)
        BY <1>4, <3>3 DEF DirCluster
      <4> QED  BY <1>0, <4>1 DEF Blocks
    <3> QED  BY <3>1, <3>2, <3>3
  <2> QED  BY <2>1, <2>2 DEF Blocks
<1>8. ASSUME NEW d \in DataClusters, g2.own[d] \in Loc
      PROVE  g2.own[d] = g.own[d] /\ g.own[d] # l
  BY <1>1, <1>8, Tags
<1>9. Owned(v, g2, {l}, 0)
  <2> SUFFICES ASSUME NEW d \in DataClusters, g2.own[d] \in Loc
               PROVE  /\ Alive(v, g2, 0, g2.own[d]) /\ g2.own[d] \notin {l}
                      /\ g2.pos[d] = 0 => EntryAt(v, g2.own[d]).first = d
                      /\ g2.lvl[d] = Depth(g2, g2.own[d])
    BY DEF Owned
  <2>1. /\ Alive(v, g, 0, g.own[d]) /\ g.own[d] # l /\ g2.own[d] = g.own[d]
        /\ g.pos[d] = 0 => EntryAt(v, g.own[d]).first = d
        /\ g.lvl[d] = Depth(g, g.own[d])
    BY <1>0, <1>8 DEF Owned
  <2> QED  BY <1>1, <1>5, <1>6, <2>1
<1>10. ASSUME NEW m \in Loc, Alive(v, g, 0, m)
       PROVE  \/ EntryAt(v, m).first = 0 /\ ~EntryAt(v, m).isdir
              \/ /\ EntryAt(v, m).first \in DataClusters
                 /\ g.own[EntryAt(v, m).first] = m /\ g.pos[EntryAt(v, m).first] = 0
  BY <1>0, <1>10 DEF Heads
<1>11. Heads(v, g2, {l}, 0)
  <2> SUFFICES ASSUME NEW m \in Loc, Alive(v, g2, 0, m), m \notin {l}
               PROVE  \/ EntryAt(v, m).first = 0 /\ ~EntryAt(v, m).isdir
                      \/ /\ EntryAt(v, m).first \in DataClusters
                         /\ g2.own[EntryAt(v, m).first] = m /\ g2.pos[EntryAt(v, m).first] = 0
    BY DEF Heads
  <2> QED  BY <1>1, <1>5, <1>10
<1>12. Dots(v, g2, {l}, 0)
  <2> SUFFICES ASSUME NEW m \in Loc, Alive(v, g2, 0, m), m \notin {l}, EntryAt(v, m).isdir
               PROVE  /\ v.data[EntryAt(v, m).first][0] = NewEntry(".", TRUE, EntryAt(v, m).first)
                      /\ v.data[EntryAt(v, m).first][1] = NewEntry("..", TRUE, Home(v, g2, m))
    BY DEF Dots
  <2>1. Alive(v, g, 0, m) /\ Home(v, g2, m) = Home(v, g, m)
    BY <1>5, <1>6
  <2> QED  BY <1>0, <2>1 DEF Dots
<1>13. GivenUp(v, g2, {l}, 0)
  <2>1. Alive(v, g2, 0, l)
    BY <1>1, <1>5
  <2>2. EntryAt(v, l).first \in DataClusters => g2.own[EntryAt(v, l).first] = NewTag
    BY <1>1, <1>10, MarkNumbers
  <2> QED  BY <2>1, <2>2, Tags DEF GivenUp
<1>14. Sized(v, g2, {l}, {l}, 0)
  <2>1. ASSUME NEW m \in Loc, Alive(v, g2, 0, m), m \notin {l}, ~EntryAt(v, m).isdir
        PROVE  /\ EntryAt(v, m).first = 0 => EntryAt(v, m).size = 0
               /\ \A d \in DataClusters : g2.own[d] = m /\ v.fat[d] = EOC =>
                    EntryAt(v, m).size <= BPS * (g2.pos[d] + 1)
               /\ m \notin {l} => /\ EntryAt(v, m).size = 0 => EntryAt(v, m).first = 0
                                  /\ EndsAt(v, g2, m, LastPos(EntryAt(v, m).size))
    <3>1. Alive(v, g, 0, m)
      BY <1>5, <2>1
    <3>2. \A d \in DataClusters : g2.own[d] = m => g.own[d] = m
      BY <1>8
    <3>3. /\ EntryAt(v, m).first = 0 => EntryAt(v, m).size = 0
          /\ \A d \in DataClusters : g.own[d] = m /\ v.fat[d] = EOC =>
               EntryAt(v, m).size <= BPS * (g.pos[d] + 1)
          /\ EntryAt(v, m).size = 0 => EntryAt(v, m).first = 0
          /\ EndsAt(v, g, m, LastPos(EntryAt(v, m).size))
      BY <1>0, <2>1, <3>1 DEF Sized
    <3> QED  BY <1>1, <3>2, <3>3 DEF EndsAt
  <2> QED  BY <2>1 DEF Sized
<1>15. OwnChain(g2, EntryAt(v, l).first)
  <2> SUFFICES ASSUME NEW d \in DataClusters, g2.own[d] = NewTag, g2.pos[d] = 0
               PROVE  d = EntryAt(v, l).first
    BY DEF OwnChain
  <2>1. g.own[d] = l
    BY <1>1
  <2> QED  BY <1>0, <1>1, <2>1 DEF Owned
<1>16. HeadOrEnd(g2, EntryAt(v, l).first)
  BY <1>1, <1>10, MarkNumbers DEF NewHead, HeadOrEnd
<1> QED
  BY <1>2, <1>3, <1>7, <1>9, <1>11, <1>12, <1>13, <1>14, <1>15, <1>16 DEF Volume

(* The entry at location l becomes e.                                      *)
EntrySet(v, v2, l, e) ==
  /\ v2.fat = v.fat
  /\ l.c = ROOT => v2.root = [v.root EXCEPT ![l.i] = e] /\ v2.data = v.data
  /\ l.c # ROOT => /\ v2.root = v.root
                   /\ v2.data[l.c] = [v.data[l.c] EXCEPT ![l.i] = e]
                   /\ \A d \in DataClusters : d # l.c => v2.data[d] = v.data[d]

(* The chain that the call has built, if any, now belongs to l.            *)
Handed(g, g2, l) ==
  /\ g2.own = [c \in DataClusters |-> IF g.own[c] = NewTag THEN l ELSE g.own[c]]
  /\ g2.pos = g.pos
  /\ g2.lvl = [c \in DataClusters |-> IF g.own[c] = NewTag THEN Depth(g, l) ELSE g.lvl[c]]

(* Who owns what after the call's chain is given to the entry at l.        *)
LEMMA HandFacts ==
  ASSUME NEW v, NEW g, NEW g2, NEW l \in Loc, Owners(g), Linked(v, g), Slot(v, g, 0, l),
         Handed(g, g2, l),
         \/ \A c \in DataClusters : g.own[c] # l
         \/ \A c \in DataClusters : g.own[c] # NewTag
  PROVE  /\ Owners(g2) /\ Linked(v, g2)
         /\ \A c \in DataClusters : g.own[c] = NewTag =>
              g2.own[c] = l /\ g2.lvl[c] = Depth(g, l)
         /\ \A c \in DataClusters : g.own[c] # NewTag =>
              g2.own[c] = g.own[c] /\ g2.lvl[c] = g.lvl[c]
         /\ g2.pos = g.pos
<1>1. Depth(g, l) \in Nat
  <2>1. CASE l.c = ROOT
    BY <2>1 DEF Depth
  <2>2. CASE l.c \in DataClusters
    <3>1. g.lvl[l.c] \in Nat
      BY <2>2 DEF Owners
    <3> QED  BY <3>1 DEF Depth
  <2> QED  BY <2>1, <2>2, Locations
<1>2. /\ \A c \in DataClusters : g.own[c] = NewTag =>
              g2.own[c] = l /\ g2.lvl[c] = Depth(g, l)
      /\ \A c \in DataClusters : g.own[c] # NewTag =>
              g2.own[c] = g.own[c] /\ g2.lvl[c] = g.lvl[c]
      /\ g2.pos = g.pos
  BY DEF Handed
<1>3. Owners(g2)
  <2>1. \A c \in DataClusters : (IF g.own[c] = NewTag THEN l ELSE g.own[c]) \in Tag
    BY DEF Owners, Tag
  <2>2. \A c \in DataClusters :
          (IF g.own[c] = NewTag THEN Depth(g, l) ELSE g.lvl[c]) \in Nat
    BY <1>1 DEF Owners
  <2> QED  BY <2>1, <2>2 DEF Owners, Handed
<1>4. Linked(v, g2)
  <2>1. l # Nobody /\ l # NewTag
    BY Tags
  <2>2. ASSUME NEW d \in DataClusters
        PROVE  /\ v.fat[d] = FREE <=> g2.own[d] = Nobody
               /\ g2.own[d] # Nobody =>
                    \/ v.fat[d] = EOC
                    \/ /\ v.fat[d] \in DataClusters
                       /\ g2.own[v.fat[d]] = g2.own[d] /\ g2.pos[v.fat[d]] = g2.pos[d] + 1
               /\ g2.own[d] # Nobody /\ g2.pos[d] # 0 =>
                    \E q \in DataClusters : g2.own[q] = g2.own[d] /\ v.fat[q] = d
    <3>1. g2.own[d] = Nobody <=> g.own[d] = Nobody
      BY <1>2, <2>1, Tags
    <3>2. \A q \in DataClusters : g.own[q] = g.own[d] => g2.own[q] = g2.own[d]
      BY <1>2
    <3> QED  BY <1>2, <3>1, <3>2 DEF Linked
  <2>3. ASSUME NEW d \in DataClusters, NEW e \in DataClusters,
               g2.own[d] # Nobody, g2.own[d] = g2.own[e], g2.pos[d] = g2.pos[e]
        PROVE  d = e
    <3>1. g.own[d] = g.own[e] /\ g.own[d] # Nobody
      BY <1>2, <2>1, <2>3, Tags
    <3> QED  BY <1>2, <2>3, <3>1 DEF Linked
  <2> QED  BY <2>2, <2>3 DEF Linked
<1> QED  BY <1>2, <1>3, <1>4

(* Entry e describes the chain that l has then: none, that of a file with  *)
(* its size, or that of a directory with its dots.                         *)
Fits(v, g, g2, l, e) ==
  \/ ~Used(e) /\ \A c \in DataClusters : g2.own[c] # l
  \/ /\ e.name \in Names /\ ~e.isdir /\ e.first = 0 /\ e.size = 0
     /\ \A c \in DataClusters : g2.own[c] # l
  \/ /\ e.name \in Names /\ e.first \in DataClusters
     /\ g2.own[e.first] = l /\ g2.pos[e.first] = 0
     /\ ~e.isdir => e.size # 0 /\ EndsAt(v, g2, l, LastPos(e.size))
     /\ e.isdir => /\ \A c \in DataClusters : g2.own[c] = l => v.data[c] \in DirBlock
                   /\ v.data[e.first][0] = NewEntry(".", TRUE, e.first)
                   /\ v.data[e.first][1] = NewEntry("..", TRUE, Home(v, g, l))

(* An entry whose chain stays keeps its kind and its first cluster.        *)
KeepsChain(v, g, l, e) ==
  (\E c \in DataClusters : g.own[c] = l) =>
    /\ e.isdir = EntryAt(v, l).isdir /\ e.first = EntryAt(v, l).first
    /\ \A c \in DataClusters : g.own[c] # NewTag

(* Entry e is written to the slot l, with the owners that it has then.     *)
Puts(v, g, v2, g2, l, e) ==
  /\ l \in Loc /\ Slot(v, g, 0, l) /\ ~IsDot(EntryAt(v, l)) /\ e \in Dirent
  /\ EntrySet(v, v2, l, e) /\ Handed(g, g2, l)
  /\ Fits(v, g, g2, l, e) /\ KeepsChain(v, g, l, e)

(* A name users type is neither free nor deleted nor a dot.                *)
LEMMA UserNames ==
  ASSUME NEW e, e.name \in Names
  PROVE  Used(e) /\ ~IsDot(e)
BY VolumeAssumption DEF Used, IsDot

(* "." and ".." are the entries that the scans of a directory pass over.   *)
LEMMA DotNames ==
  ASSUME NEW f, NEW d
  PROVE  IsDot(NewEntry(".", f, d)) /\ IsDot(NewEntry("..", f, d))
BY DEF IsDot, NewEntry

(* What writing the entry changes.                                         *)
LEMMA PutWrites ==
  ASSUME NEW v, NEW g, NEW v2, NEW g2, NEW t, NEW z, NEW l, NEW e,
         Volume(v, g, t, z, 0), Puts(v, g, v2, g2, l, e)
  PROVE  /\ EntryAt(v2, l) = e
         /\ \A m \in Loc : m # l => EntryAt(v2, m) = EntryAt(v, m)
         /\ v2.fat = v.fat
         /\ v2.root \in [RootIndex -> Dirent]
         /\ l.c # ROOT => DirCluster(v, g, l.c) /\ v2.data[l.c] \in DirBlock
         /\ \A d \in DataClusters : d # l.c => v2.data[d] = v.data[d]
<1>1. Blocks(v, g, 0)
  BY DEF Volume
<1>2. l \in Loc
  BY DEF Puts
<1>3. e \in Dirent
  BY DEF Puts
<1>4. Slot(v, g, 0, l) /\ EntrySet(v, v2, l, e)
  BY DEF Puts
<1>5. CASE l.c = ROOT
  <2>1. l.i \in RootIndex
    BY <1>2, <1>5, Locations, ClusterNumbers
  <2>2. v.root \in [RootIndex -> Dirent]
    BY <1>1 DEF Blocks
  <2>3. v2.root = [v.root EXCEPT ![l.i] = e] /\ v2.data = v.data /\ v2.fat = v.fat
    BY <1>4, <1>5 DEF EntrySet
  <2>4. v2.root \in [RootIndex -> Dirent] /\ v2.root[l.i] = e
    BY <1>3, <2>1, <2>2, <2>3
  <2>5. ASSUME NEW m \in Loc, m # l  PROVE EntryAt(v2, m) = EntryAt(v, m)
    <3>1. CASE m.c = ROOT
      <4>1. m.i # l.i /\ m.i \in RootIndex
        BY <1>5, <1>2, <2>5, <3>1, LocationsDiffer, Locations, ClusterNumbers
      <4> QED  BY <2>1, <2>2, <2>3, <3>1, <4>1 DEF EntryAt
    <3>2. CASE m.c # ROOT
      BY <2>3, <3>2 DEF EntryAt
    <3> QED  BY <3>1, <3>2
  <2> QED  BY <1>5, <2>3, <2>4, <2>5 DEF EntryAt
<1>6. CASE l.c # ROOT
  <2>1. l.c \in DataClusters /\ l.i \in DirIndex
    BY <1>2, <1>6, Locations
  <2>2. DirCluster(v, g, l.c) /\ l.c # 0
    BY <1>4, <1>6 DEF Slot
  <2>3. v.data[l.c] \in DirBlock /\ v.root \in [RootIndex -> Dirent]
    BY <1>1, <2>1, <2>2 DEF Blocks
  <2>4. /\ v2.root = v.root /\ v2.fat = v.fat
        /\ v2.data[l.c] = [v.data[l.c] EXCEPT ![l.i] = e]
        /\ \A d \in DataClusters : d # l.c => v2.data[d] = v.data[d]
    BY <1>4, <1>6 DEF EntrySet
  <2>5. /\ v2.data[l.c] \in DirBlock /\ v2.data[l.c][l.i] = e
        /\ \A i \in DirIndex : i # l.i => v2.data[l.c][i] = v.data[l.c][i]
    BY <1>3, <2>1, <2>3, <2>4 DEF DirBlock
  <2>6. ASSUME NEW m \in Loc, m # l  PROVE EntryAt(v2, m) = EntryAt(v, m)
    <3>1. CASE m.c = l.c
      <4>1. m.i # l.i /\ m.i \in DirIndex
        BY <1>6, <1>2, <2>6, <3>1, LocationsDiffer, Locations
      <4> QED  BY <1>6, <2>5, <3>1, <4>1 DEF EntryAt
    <3>2. CASE m.c # l.c /\ m.c # ROOT
      BY <2>4, <3>2, Locations DEF EntryAt
    <3>3. CASE m.c = ROOT
      BY <2>4, <3>3 DEF EntryAt
    <3> QED  BY <3>1, <3>2, <3>3
  <2> QED  BY <1>6, <2>2, <2>3, <2>4, <2>5, <2>6 DEF EntryAt
<1> QED  BY <1>5, <1>6

(* What the directories look like after the entry has been written.        *)
LEMMA PutDirs ==
  ASSUME NEW v, NEW g, NEW v2, NEW g2, NEW t, NEW z, NEW l, NEW e,
         Volume(v, g, t, z, 0), Puts(v, g, v2, g2, l, e)
  PROVE  /\ \A c \in DataClusters :
              DirCluster(v2, g2, c) <=> DirCluster(v, g, c) \/ (g.own[c] = NewTag /\ e.isdir)
         /\ \A m \in Loc : m # l => (Alive(v2, g2, 0, m) <=> Alive(v, g, 0, m))
         /\ Slot(v2, g2, 0, l)
         /\ \A m \in Loc : Slot(v, g, 0, m) =>
              Home(v2, g2, m) = Home(v, g, m) /\ Depth(g2, m) = Depth(g, m)
<1>0. Owners(g) /\ Linked(v, g) /\ Blocks(v, g, 0) /\ Owned(v, g, t, 0)
  BY DEF Volume
<1>1. l \in Loc /\ Slot(v, g, 0, l) /\ e \in Dirent /\ Fits(v, g, g2, l, e)
      /\ KeepsChain(v, g, l, e) /\ EntrySet(v, v2, l, e) /\ Handed(g, g2, l)
  BY DEF Puts
<1>2. /\ EntryAt(v2, l) = e
      /\ \A m \in Loc : m # l => EntryAt(v2, m) = EntryAt(v, m)
  BY PutWrites
<1>3. \/ \A c \in DataClusters : g.own[c] # l
      \/ \A c \in DataClusters : g.own[c] # NewTag
  BY <1>1 DEF KeepsChain
<1>4. /\ \A c \in DataClusters : g.own[c] = NewTag =>
              g2.own[c] = l /\ g2.lvl[c] = Depth(g, l)
      /\ \A c \in DataClusters : g.own[c] # NewTag =>
              g2.own[c] = g.own[c] /\ g2.lvl[c] = g.lvl[c]
  BY <1>0, <1>1, <1>3, HandFacts
<1>5. ASSUME NEW c \in DataClusters
      PROVE  DirCluster(v2, g2, c) <=> DirCluster(v, g, c) \/ (g.own[c] = NewTag /\ e.isdir)
  <2>1. CASE g.own[c] = NewTag
    BY <1>1, <1>2, <1>4, <2>1, Tags DEF DirCluster
  <2>2. CASE g.own[c] = l
    <3>1. g2.own[c] = l /\ e.isdir = EntryAt(v, l).isdir /\ l # NewTag
      BY <1>1, <1>4, <2>2, Tags DEF KeepsChain
    <3> QED  BY <1>1, <1>2, <2>2, <3>1 DEF DirCluster
  <2>3. CASE g.own[c] # NewTag /\ g.own[c] # l
    BY <1>2, <1>4, <2>3 DEF DirCluster
  <2> QED  BY <2>1, <2>2, <2>3
<1>6. ASSUME NEW m \in Loc, m # l
      PROVE  Alive(v2, g2, 0, m) <=> Alive(v, g, 0, m)
  <2>0. EntryAt(v2, m) = EntryAt(v, m)
    BY <1>2, <1>6
  <2>1. CASE m.c = ROOT
    BY <2>0, <2>1 DEF Alive, Slot
  <2>2. CASE m.c \in DataClusters /\ ~(g.own[m.c] = NewTag /\ e.isdir)
    BY <1>5, <2>0, <2>2 DEF Alive, Slot
  <2>3. CASE m.c \in DataClusters /\ g.own[m.c] = NewTag /\ e.isdir
    <3>1. ~DirCluster(v, g, m.c)
      BY <2>3, Tags DEF DirCluster
    <3>2. v.data[m.c] \in DirBlock
      BY <1>1, <1>4, <2>3 DEF Fits
    <3>3. m.i \in DirIndex
      BY <2>3, Locations, ClusterNumbers
    <3>4. Used(v.data[m.c][m.i]) => IsDot(v.data[m.c][m.i])
      BY <1>0, <2>3, <3>1, <3>2, <3>3 DEF Blocks
    <3>5. EntryAt(v, m) = v.data[m.c][m.i]
      BY <2>3, ClusterNumbers DEF EntryAt
    <3> QED  BY <2>0, <3>4, <3>5 DEF Alive
  <2> QED  BY <2>1, <2>2, <2>3, Locations
<1>7. Slot(v2, g2, 0, l)
  BY <1>1, <1>5, Locations DEF Slot
<1>8. ASSUME NEW m \in Loc, Slot(v, g, 0, m)
      PROVE  Home(v2, g2, m) = Home(v, g, m) /\ Depth(g2, m) = Depth(g, m)
  <2>1. CASE m.c = ROOT
    BY <2>1 DEF Home, Depth
  <2>2. CASE m.c # ROOT
    <3>1. m.c \in DataClusters /\ g.own[m.c] \in Loc
      BY <1>8, <2>2, Locations DEF Slot, DirCluster
    <3>2. g2.own[m.c] = g.own[m.c] /\ g2.lvl[m.c] = g.lvl[m.c]
      BY <1>4, <3>1, Tags
    <3>3. EntryAt(v2, g.own[m.c]).first = EntryAt(v, g.own[m.c]).first
      <4>1. CASE g.own[m.c] = l
        BY <1>1, <1>2, <3>1, <4>1 DEF KeepsChain
      <4>2. CASE g.own[m.c] # l
        BY <1>2, <3>1, <4>2
      <4> QED  BY <4>1, <4>2
    <3> QED  BY <2>2, <3>2, <3>3 DEF Home, Depth
  <2> QED  BY <2>1, <2>2
<1> QED  BY <1>5, <1>6, <1>7, <1>8

(* Writing an entry that fits leaves the volume in order, and the entry's  *)
(* chain is no longer given up.                                            *)
LEMMA PutEntry ==
  ASSUME NEW v, NEW g, NEW v2, NEW g2, NEW t, NEW z, NEW l, NEW e,
         t \subseteq {l}, z \subseteq {l},
         Volume(v, g, t, z, 0), Puts(v, g, v2, g2, l, e)
  PROVE  Volume(v2, g2, {}, {}, 0)
<1>0. Owners(g) /\ Linked(v, g) /\ Blocks(v, g, 0) /\ Owned(v, g, t, 0) /\ Heads(v, g, t, 0)
      /\ Dots(v, g, t, 0) /\ Sized(v, g, t, z, 0)
  BY DEF Volume
<1>1. l \in Loc /\ Slot(v, g, 0, l) /\ e \in Dirent /\ Fits(v, g, g2, l, e)
      /\ KeepsChain(v, g, l, e) /\ EntrySet(v, v2, l, e) /\ Handed(g, g2, l)
      /\ ~IsDot(EntryAt(v, l))
  BY DEF Puts
<1>2. /\ EntryAt(v2, l) = e
      /\ \A m \in Loc : m # l => EntryAt(v2, m) = EntryAt(v, m)
      /\ v2.fat = v.fat
      /\ v2.root \in [RootIndex -> Dirent]
      /\ l.c # ROOT => DirCluster(v, g, l.c) /\ v2.data[l.c] \in DirBlock
      /\ \A d \in DataClusters : d # l.c => v2.data[d] = v.data[d]
  BY PutWrites
<1>3. \/ \A c \in DataClusters : g.own[c] # l
      \/ \A c \in DataClusters : g.own[c] # NewTag
  BY <1>1 DEF KeepsChain
<1>4. /\ Owners(g2) /\ Linked(v, g2)
      /\ \A c \in DataClusters : g.own[c] = NewTag =>
              g2.own[c] = l /\ g2.lvl[c] = Depth(g, l)
      /\ \A c \in DataClusters : g.own[c] # NewTag =>
              g2.own[c] = g.own[c] /\ g2.lvl[c] = g.lvl[c]
      /\ g2.pos = g.pos
  BY <1>0, <1>1, <1>3, HandFacts
<1>5. /\ \A c \in DataClusters :
              DirCluster(v2, g2, c) <=> DirCluster(v, g, c) \/ (g.own[c] = NewTag /\ e.isdir)
      /\ \A m \in Loc : m # l => (Alive(v2, g2, 0, m) <=> Alive(v, g, 0, m))
      /\ Slot(v2, g2, 0, l)
      /\ \A m \in Loc : Slot(v, g, 0, m) =>
           Home(v2, g2, m) = Home(v, g, m) /\ Depth(g2, m) = Depth(g, m)
  BY PutDirs
<1>6. Linked(v2, g2)
  BY <1>2, <1>4 DEF Linked
<1>7. \A d \in DataClusters : g2.own[d] # l => g.own[d] = g2.own[d] /\ g2.lvl[d] = g.lvl[d]
  BY <1>4
<1>8. ASSUME NEW d \in DataClusters, g2.own[d] = l
      PROVE  /\ Alive(v2, g2, 0, l) /\ e.first \in DataClusters
             /\ g2.own[e.first] = l /\ g2.pos[e.first] = 0
  <2>1. e.name \in Names /\ e.first \in DataClusters /\ g2.own[e.first] = l /\ g2.pos[e.first] = 0
    BY <1>1, <1>8 DEF Fits
  <2> QED  BY <1>1, <1>2, <1>5, <2>1, UserNames DEF Alive
<1>9. Blocks(v2, g2, 0)
  <2>1. ASSUME NEW d \in DataClusters
        PROVE  /\ v2.data[d] \in DirBlock \/ 0 \notin DOMAIN v2.data[d]
               /\ DirCluster(v2, g2, d) /\ d # 0 => v2.data[d] \in DirBlock
               /\ v2.data[d] \in DirBlock /\ (~DirCluster(v2, g2, d) \/ d = 0) =>
                    \A i \in DirIndex : Used(v2.data[d][i]) => IsDot(v2.data[d][i])
    <3>1. CASE d = l.c
      BY <1>2, <1>5, <3>1, ClusterNumbers
    <3>2. CASE d # l.c
      <4>1. v2.data[d] = v.data[d]
        BY <1>2, <3>2
      <4>2. DirCluster(v2, g2, d) => v.data[d] \in DirBlock
        <5>1. CASE DirCluster(v, g, d)
          BY <1>0, <5>1, ClusterNumbers DEF Blocks
        <5>2. CASE g.own[d] = NewTag /\ e.isdir
          BY <1>1, <1>4, <5>2 DEF Fits
        <5> QED  BY <1>5, <5>1, <5>2
      <4>3. ~DirCluster(v2, g2, d) => ~DirCluster(v, g, d)
        BY <1>5
      <4> QED  BY <1>0, <4>1, <4>2, <4>3, ClusterNumbers DEF Blocks
    <3> QED  BY <3>1, <3>2
  <2> QED  BY <1>2, <2>1 DEF Blocks
<1>10. Owned(v2, g2, {}, 0)
  <2> SUFFICES ASSUME NEW d \in DataClusters, g2.own[d] \in Loc
               PROVE  /\ Alive(v2, g2, 0, g2.own[d])
                      /\ g2.pos[d] = 0 => EntryAt(v2, g2.own[d]).first = d
                      /\ g2.lvl[d] = Depth(g2, g2.own[d])
    BY DEF Owned
  <2>1. CASE g2.own[d] = l
    <3>1. Alive(v2, g2, 0, l) /\ e.first \in DataClusters /\ g2.own[e.first] = l
          /\ g2.pos[e.first] = 0 /\ l # Nobody
      BY <1>1, <1>8, <2>1, Tags
    <3>2. g2.pos[d] = 0 => e.first = d
      BY <1>4, <2>1, <3>1 DEF Linked
    <3>3. g2.lvl[d] = Depth(g, l)
      <4>1. CASE g.own[d] = NewTag
        BY <1>4, <4>1
      <4>2. CASE g.own[d] # NewTag
        BY <1>0, <1>1, <1>4, <2>1, <4>2 DEF Owned
      <4> QED  BY <4>1, <4>2
    <3> QED  BY <1>1, <1>2, <1>5, <2>1, <3>1, <3>2, <3>3
  <2>2. CASE g2.own[d] # l
    <3>1. PICK m \in Loc : m = g.own[d] /\ m = g2.own[d] /\ m # l /\ g2.lvl[d] = g.lvl[d]
      BY <1>7, <2>2
    <3>2. /\ Alive(v, g, 0, m) /\ g.pos[d] = 0 => EntryAt(v, m).first = d
          /\ g.lvl[d] = Depth(g, m)
      BY <1>0, <3>1 DEF Owned
    <3> QED  BY <1>0, <1>2, <1>4, <1>5, <3>1, <3>2 DEF Alive, Owned
  <2> QED  BY <2>1, <2>2
<1>11. ASSUME NEW m \in Loc, m # l, Alive(v2, g2, 0, m)
       PROVE  /\ Alive(v, g, 0, m) /\ m \notin t /\ m \notin z /\ EntryAt(v2, m) = EntryAt(v, m)
              /\ Home(v2, g2, m) = Home(v, g, m)
              /\ \A d \in DataClusters : g2.own[d] = m <=> g.own[d] = m
  <2>1. Alive(v, g, 0, m) /\ m \notin t /\ m \notin z /\ EntryAt(v2, m) = EntryAt(v, m)
    BY <1>2, <1>5, <1>11
  <2>2. Home(v2, g2, m) = Home(v, g, m)
    BY <1>5, <2>1 DEF Alive
  <2> QED  BY <1>4, <1>11, <2>1, <2>2, Tags
<1>12. ASSUME Alive(v2, g2, 0, l)
       PROVE  \/ /\ ~e.isdir /\ e.first = 0 /\ e.size = 0
                 /\ \A c \in DataClusters : g2.own[c] # l
              \/ /\ e.first \in DataClusters
                 /\ g2.own[e.first] = l /\ g2.pos[e.first] = 0
                 /\ ~e.isdir => e.size # 0 /\ EndsAt(v, g2, l, LastPos(e.size))
                 /\ e.isdir => /\ v.data[e.first][0] = NewEntry(".", TRUE, e.first)
                               /\ v.data[e.first][1] = NewEntry("..", TRUE, Home(v, g, l))
  <2>1. Used(e)
    BY <1>2, <1>12 DEF Alive
  <2> QED  BY <1>1, <2>1 DEF Fits
<1>13. Heads(v2, g2, {}, 0)
  <2> SUFFICES ASSUME NEW m \in Loc, Alive(v2, g2, 0, m)
               PROVE  \/ EntryAt(v2, m).first = 0 /\ ~EntryAt(v2, m).isdir
                      \/ /\ EntryAt(v2, m).first \in DataClusters
                         /\ g2.own[EntryAt(v2, m).first] = m /\ g2.pos[EntryAt(v2, m).first] = 0
    BY DEF Heads
  <2>1. CASE m = l
    BY <1>2, <1>12, <2>1
  <2>2. CASE m # l
    <3>1. \/ EntryAt(v, m).first = 0 /\ ~EntryAt(v, m).isdir
          \/ /\ EntryAt(v, m).first \in DataClusters
             /\ g.own[EntryAt(v, m).first] = m /\ g.pos[EntryAt(v, m).first] = 0
      BY <1>0, <1>11, <2>2 DEF Heads
    <3> QED  BY <1>4, <1>11, <2>2, <3>1
  <2> QED  BY <2>1, <2>2
<1>14. ASSUME NEW h \in DataClusters, NEW i \in DirIndex, IsDot(v.data[h][i])
       PROVE  v2.data[h][i] = v.data[h][i]
  <2>1. CASE h # l.c
    BY <1>2, <2>1
  <2>2. CASE h = l.c
    <3>1. PICK m : m = [c |-> h, i |-> i]
      OBVIOUS
    <3>2. m \in Loc /\ m.c = h /\ m.i = i
      BY <3>1 DEF Loc
    <3>3. EntryAt(v, m) = v.data[h][i] /\ EntryAt(v2, m) = v2.data[h][i]
      BY <3>2, ClusterNumbers DEF EntryAt
    <3>4. m # l
      BY <1>1, <1>14, <3>3
    <3> QED  BY <1>2, <3>2, <3>3, <3>4
  <2> QED  BY <2>1, <2>2
<1>15. Dots(v2, g2, {}, 0)
  <2> SUFFICES ASSUME NEW m \in Loc, Alive(v2, g2, 0, m), EntryAt(v2, m).isdir
               PROVE  /\ v2.data[EntryAt(v2, m).first][0] = NewEntry(".", TRUE, EntryAt(v2, m).first)
                      /\ v2.data[EntryAt(v2, m).first][1] = NewEntry("..", TRUE, Home(v2, g2, m))
    BY DEF Dots
  <2>0. 0 \in DirIndex /\ 1 \in DirIndex
    BY Measures DEF DirIndex
  <2>1. PICK h : h = EntryAt(v2, m).first
    OBVIOUS
  <2>2. /\ h \in DataClusters
        /\ v.data[h][0] = NewEntry(".", TRUE, h)
        /\ v.data[h][1] = NewEntry("..", TRUE, Home(v2, g2, m))
    <3>1. CASE m = l
      <4>1. Home(v2, g2, l) = Home(v, g, l)
        BY <1>1, <1>5
      <4> QED  BY <1>2, <1>12, <2>1, <3>1, <4>1
    <3>2. CASE m # l
      <4>1. /\ Alive(v, g, 0, m) /\ m \notin t /\ EntryAt(v2, m) = EntryAt(v, m)
            /\ Home(v2, g2, m) = Home(v, g, m)
        BY <1>11, <3>2
      <4>2. h \in DataClusters
        BY <1>0, <2>1, <4>1 DEF Heads
      <4> QED  BY <1>0, <2>1, <4>1, <4>2 DEF Dots
    <3> QED  BY <3>1, <3>2
  <2>3. IsDot(v.data[h][0]) /\ IsDot(v.data[h][1])
    BY <2>2, DotNames
  <2>4. v2.data[h][0] = v.data[h][0] /\ v2.data[h][1] = v.data[h][1]
    BY <1>14, <2>0, <2>2, <2>3
  <2> QED  BY <2>1, <2>2, <2>4
<1>16. GivenUp(v2, g2, {}, 0)
  BY DEF GivenUp
<1>17. Sized(v2, g2, {}, {}, 0)
  <2>1. ASSUME NEW m \in Loc, Alive(v2, g2, 0, m), ~EntryAt(v2, m).isdir
        PROVE  /\ EntryAt(v2, m).first = 0 => EntryAt(v2, m).size = 0
               /\ \A d \in DataClusters : g2.own[d] = m /\ v2.fat[d] = EOC =>
                    EntryAt(v2, m).size <= BPS * (g2.pos[d] + 1)
               /\ EntryAt(v2, m).size = 0 => EntryAt(v2, m).first = 0
               /\ EndsAt(v2, g2, m, LastPos(EntryAt(v2, m).size))
    <3>1. CASE m = l
      <4>1. CASE e.first = 0 /\ e.size = 0 /\ \A c \in DataClusters : g2.own[c] # l
        BY <1>2, <3>1, <4>1 DEF EndsAt
      <4>2. CASE e.first \in DataClusters /\ e.size # 0 /\ EndsAt(v, g2, l, LastPos(e.size))
        <5>1. e.size \in Nat
          BY <1>1 DEF Dirent
        <5>2. e.size <= BPS * (LastPos(e.size) + 1)
          BY <4>2, <5>1, SectorsOf
        <5>3. EndsAt(v2, g2, l, LastPos(e.size))
          BY <1>2, <4>2 DEF EndsAt
        <5>4. \A d \in DataClusters : g2.own[d] = l /\ v2.fat[d] = EOC =>
                g2.pos[d] = LastPos(e.size)
          BY <5>3 DEF EndsAt
        <5>5. \A d \in DataClusters : g2.own[d] = l /\ v2.fat[d] = EOC =>
                e.size <= BPS * (g2.pos[d] + 1)
          BY <5>2, <5>4
        <5> QED  BY <1>2, <3>1, <4>2, <5>3, <5>5, ClusterNumbers
      <4> QED  BY <1>2, <1>12, <2>1, <3>1, <4>1, <4>2
    <3>2. CASE m # l
      <4>1. /\ Alive(v, g, 0, m) /\ m \notin t /\ m \notin z /\ EntryAt(v2, m) = EntryAt(v, m)
            /\ \A d \in DataClusters : g2.own[d] = m <=> g.own[d] = m
        BY <1>11, <2>1, <3>2
      <4>2. /\ EntryAt(v, m).first = 0 => EntryAt(v, m).size = 0
            /\ \A d \in DataClusters : g.own[d] = m /\ v.fat[d] = EOC =>
                 EntryAt(v, m).size <= BPS * (g.pos[d] + 1)
            /\ EntryAt(v, m).size = 0 => EntryAt(v, m).first = 0
            /\ EndsAt(v, g, m, LastPos(EntryAt(v, m).size))
        BY <1>0, <2>1, <4>1 DEF Sized
      <4> QED  BY <1>2, <1>4, <4>1, <4>2 DEF EndsAt
    <3> QED  BY <3>1, <3>2
  <2> QED  BY <2>1 DEF Sized
<1> QED  BY <1>4, <1>6, <1>9, <1>10, <1>13, <1>15, <1>16, <1>17 DEF Volume

-----------------------------------------------------------------------------
(* What the scans find in a volume in order.                               *)

(* The scan of a directory of the volume visits slots of that directory,   *)
(* and its last slot is in the last cluster of the directory's chain.      *)
LEMMA DirFacts ==
  ASSUME NEW v, NEW g, NEW t, NEW z, NEW dir, Volume(v, g, t, z, 0), DirOK(v, g, dir)
  PROVE  LET s == dir_iter(v, dir)
         IN  /\ Len(s) \in Nat \ {0}
             /\ \A p \in 1 .. Len(s) :
                  s[p] \in Loc /\ Slot(v, g, 0, s[p]) /\ Home(v, g, s[p]) = dir
             /\ dir # ROOT => /\ s[Len(s)].c \in DataClusters
                              /\ v.fat[s[Len(s)].c] = EOC
                              /\ g.own[s[Len(s)].c] = g.own[dir]
<1>0. Owners(g) /\ Linked(v, g) /\ Owned(v, g, t, 0)
  BY DEF Volume
<1>1. PICK s : s = dir_iter(v, dir)
  OBVIOUS
<1>2. CASE dir = ROOT
  <2>1. Len(s) \in Nat \ {0}
    BY <1>1, <1>2, RootSlots, Measures
  <2>2. \A p \in 1 .. Len(s) : s[p] \in Loc /\ s[p].c = ROOT
    BY <1>1, <1>2, RootSlots
  <2> QED  BY <1>1, <1>2, <2>1, <2>2 DEF Slot, Home
<1>3. CASE dir # ROOT
  <2>1. dir \in DataClusters /\ DirCluster(v, g, dir) /\ g.pos[dir] = 0
    BY <1>3 DEF DirOK
  <2>2. g.own[dir] \in Loc /\ g.own[dir] # Nobody /\ EntryAt(v, g.own[dir]).isdir
    BY <2>1, Tags DEF DirCluster
  <2>3. EntryAt(v, g.own[dir]).first = dir
    BY <1>0, <2>1, <2>2 DEF Owned
  <2>4. /\ Len(s) \in Nat \ {0}
        /\ \A p \in 1 .. Len(s) : /\ s[p] = [c |-> s[p].c, i |-> s[p].i]
                                  /\ s[p].c \in DataClusters
                                  /\ s[p].i \in DirIndex
                                  /\ g.own[s[p].c] = g.own[dir]
        /\ v.fat[s[Len(s)].c] = EOC
    BY <1>0, <1>1, <2>1, <2>2, DirScan
  <2>5. ASSUME NEW p \in 1 .. Len(s)
        PROVE  s[p] \in Loc /\ Slot(v, g, 0, s[p]) /\ Home(v, g, s[p]) = dir
    <3>1. /\ s[p] = [c |-> s[p].c, i |-> s[p].i]
          /\ s[p].c \in DataClusters /\ s[p].c # ROOT /\ s[p].c # 0
          /\ s[p].i \in DirIndex
          /\ g.own[s[p].c] = g.own[dir]
      BY <2>4, <2>5, ClusterNumbers
    <3>2. s[p] \in Loc
      BY <3>1 DEF Loc
    <3> QED  BY <2>2, <2>3, <3>1, <3>2 DEF Slot, DirCluster, Home
  <2>6. Len(s) \in 1 .. Len(s)
    BY <2>4
  <2> QED  BY <1>1, <2>4, <2>5, <2>6
<1> QED  BY <1>2, <1>3

(* dir_scan finds an entry of that directory.                              *)
LEMMA FoundIs ==
  ASSUME NEW v, NEW g, NEW t, NEW z, NEW dir, Volume(v, g, t, z, 0), DirOK(v, g, dir),
         NEW n \in Names, dir_scan(v, dir, n) # 0
  PROVE  LET l == dir_iter(v, dir)[dir_scan(v, dir, n)]
         IN  /\ l \in Loc /\ Alive(v, g, 0, l) /\ Home(v, g, l) = dir
             /\ EntryAt(v, l) \in Dirent /\ EntryAt(v, l).name = n
<1>1. PICK p : p = dir_scan(v, dir, n)
  OBVIOUS
<1>2. PICK l : l = dir_iter(v, dir)[p]
  OBVIOUS
<1>3. /\ p \in 1 .. Len(dir_iter(v, dir))
      /\ Used(EntryAt(v, l)) /\ EntryAt(v, l).name = n
  BY <1>1, <1>2, ScanFinds
<1>4. l \in Loc /\ Slot(v, g, 0, l) /\ Home(v, g, l) = dir
  BY <1>2, <1>3, DirFacts
<1>5. EntryAt(v, l) \in Dirent
  BY <1>4, SlotEntry DEF Volume
<1>6. ~IsDot(EntryAt(v, l))
  BY <1>3, UserNames
<1> QED  BY <1>1, <1>2, <1>3, <1>4, <1>5, <1>6 DEF Alive

(* The slot that dir_find_free finds is a slot of that directory and holds *)
(* no entry.                                                               *)
LEMMA FreeIs ==
  ASSUME NEW v, NEW g, NEW t, NEW z, NEW dir, Volume(v, g, t, z, 0), DirOK(v, g, dir),
         FirstFree(v, dir) # 0
  PROVE  LET l == dir_iter(v, dir)[FirstFree(v, dir)]
         IN  /\ l \in Loc /\ Slot(v, g, 0, l) /\ Home(v, g, l) = dir
             /\ ~Used(EntryAt(v, l))
<1>1. PICK p : p = FirstFree(v, dir)
  OBVIOUS
<1>2. PICK l : l = dir_iter(v, dir)[p]
  OBVIOUS
<1>3. p \in 1 .. Len(dir_iter(v, dir)) /\ ~Used(EntryAt(v, l))
  BY <1>1, <1>2, FindsFree
<1>4. l \in Loc /\ Slot(v, g, 0, l) /\ Home(v, g, l) = dir
  BY <1>2, <1>3, DirFacts
<1> QED  BY <1>1, <1>2, <1>3, <1>4

(* The clusters of an empty directory hold no entry but the dots.          *)
LEMMA EmptyIs ==
  ASSUME NEW v, NEW g, Volume(v, g, {}, {}, 0), NEW l, Alive(v, g, 0, l),
         EntryAt(v, l).isdir,
         \A m \in ToSet(dir_iter(v, EntryAt(v, l).first)) :
           Used(EntryAt(v, m)) => IsDot(EntryAt(v, m))
  PROVE  \A c \in DataClusters : g.own[c] = l =>
           \A i \in DirIndex : Used(v.data[c][i]) => IsDot(v.data[c][i])
<1>1. PICK h : h = EntryAt(v, l).first
  OBVIOUS
<1>2. l \in Loc /\ h \in DataClusters /\ g.own[h] = l /\ g.pos[h] = 0 /\ l # Nobody
  BY <1>1, Tags DEF Volume, Heads, Alive
<1>3. \A c \in DataClusters, i \in DirIndex :
        g.own[c] = g.own[h] => [c |-> c, i |-> i] \in ToSet(dir_iter(v, h))
  BY <1>2, DirScan DEF Volume
<1>4. ASSUME NEW c \in DataClusters, g.own[c] = l, NEW i \in DirIndex
      PROVE  Used(v.data[c][i]) => IsDot(v.data[c][i])
  <2>1. PICK m : m = [c |-> c, i |-> i]
    OBVIOUS
  <2>2. m \in ToSet(dir_iter(v, h))
    BY <1>2, <1>3, <1>4, <2>1
  <2>3. EntryAt(v, m) = v.data[c][i]
    BY <2>1, ClusterNumbers DEF EntryAt
  <2> QED  BY <1>1, <2>2, <2>3
<1> QED  BY <1>4

(* The last cluster of a file that holds data.                             *)
LEMMA LastOf ==
  ASSUME NEW v, NEW g, Volume(v, g, {}, {}, 0), NEW l, Alive(v, g, 0, l),
         ~EntryAt(v, l).isdir, EntryAt(v, l).size # 0
  PROVE  LET e == EntryAt(v, l)
             last == cluster_at_index(v, e.first)[(e.size - 1) \div BPS]
         IN  /\ e.first \in DataClusters /\ g.own[e.first] = l /\ g.pos[e.first] = 0
             /\ last \in DataClusters /\ last # 0 /\ g.own[last] = l /\ v.fat[last] = EOC
             /\ EndsAt(v, g, l, LastPos(e.size))
<1>0. Owners(g) /\ Linked(v, g) /\ Heads(v, g, {}, 0) /\ Sized(v, g, {}, {}, 0) /\ l \in Loc
  BY DEF Volume, Alive
<1>1. PICK e : e = EntryAt(v, l)
  OBVIOUS
<1>2. e.first # 0 /\ EndsAt(v, g, l, LastPos(e.size))
  BY <1>0, <1>1 DEF Sized
<1>3. e.first \in DataClusters /\ g.own[e.first] = l /\ g.pos[e.first] = 0 /\ l # Nobody
  BY <1>0, <1>1, <1>2, Tags DEF Heads
<1>4. PICK n \in 1 .. NCLUSTERS : IsChain(v, g, e.first, n)
  BY <1>0, <1>3, ChainWhole
<1>5. PICK c : c = cluster_at_index(v, e.first)[n - 1]
  OBVIOUS
<1>6. c \in DataClusters /\ g.own[c] = l /\ g.pos[c] = n - 1 /\ v.fat[c] = EOC
  <2>1. n - 1 \in 0 .. n - 1
    OBVIOUS
  <2> QED  BY <1>3, <1>4, <1>5, <2>1 DEF IsChain
<1>7. LastPos(e.size) = n - 1
  BY <1>2, <1>6 DEF EndsAt
<1> QED  BY <1>1, <1>2, <1>3, <1>5, <1>6, <1>7, ClusterNumbers DEF LastPos

(* What the links of the FAT have to do with entries and directories.      *)
LEMMA FatKept ==
  ASSUME NEW v, NEW g, NEW v2, NEW g2, v2.root = v.root, v2.data = v.data,
         \A c \in DataClusters : g.own[c] \in Loc =>
           g2.own[c] = g.own[c] /\ g2.pos[c] = g.pos[c]
  PROVE  /\ \A l : EntryAt(v2, l) = EntryAt(v, l)
         /\ \A l : Alive(v, g, 0, l) => Alive(v2, g2, 0, l)
         /\ \A d : DirOK(v, g, d) => DirOK(v2, g2, d)
<1>1. \A l : EntryAt(v2, l) = EntryAt(v, l)
  BY DEF EntryAt
<1>2. \A c \in DataClusters : DirCluster(v, g, c) => DirCluster(v2, g2, c)
  BY <1>1 DEF DirCluster
<1>3. ASSUME NEW l, Alive(v, g, 0, l)  PROVE Alive(v2, g2, 0, l)
  <2>1. l \in Loc /\ Slot(v, g, 0, l)
    BY <1>3 DEF Alive
  <2>2. Slot(v2, g2, 0, l)
    BY <1>2, <2>1, Locations DEF Slot
  <2> QED  BY <1>1, <1>3, <2>2 DEF Alive
<1>4. ASSUME NEW d, DirOK(v, g, d)  PROVE DirOK(v2, g2, d)
  BY <1>2, <1>4 DEF DirOK, DirCluster
<1> QED  BY <1>1, <1>3, <1>4

(* The same for a write to a data cluster that holds no entries.           *)
LEMMA DataKept ==
  ASSUME NEW v, NEW g, NEW v2, NEW t, NEW z, NEW u, Volume(v, g, t, z, u),
         NEW c \in DataClusters, NEW b, DataSet(v, v2, c, b),
         ~DirCluster(v, g, c) \/ c = u
  PROVE  /\ \A l : Alive(v, g, u, l) => Alive(v2, g, u, l) /\ EntryAt(v2, l) = EntryAt(v, l)
         /\ \A d \in DataClusters : DirCluster(v, g, d) => DirCluster(v2, g, d)
         /\ \A d : DirOK(v, g, d) => DirOK(v2, g, d)
<1>1. /\ v2.root = v.root
      /\ \A d \in DataClusters : d # c => v2.data[d] = v.data[d]
  BY DEF DataSet
<1>2. ASSUME NEW l, Alive(v, g, u, l)  PROVE EntryAt(v2, l) = EntryAt(v, l) /\ l.c # c
  <2>1. l \in Loc /\ Slot(v, g, u, l)
    BY <1>2 DEF Alive
  <2>2. l.c # c
    BY <2>1, ClusterNumbers DEF Slot
  <2> QED  BY <1>1, <2>1, <2>2, Locations DEF EntryAt
<1>3. \A d \in DataClusters : g.own[d] \in Loc => EntryAt(v2, g.own[d]) = EntryAt(v, g.own[d])
  <2>1. \A d \in DataClusters : g.own[d] \in Loc => Alive(v, g, u, g.own[d])
    BY DEF Volume, Owned
  <2> QED  BY <1>2, <2>1
<1>4. \A d \in DataClusters : DirCluster(v, g, d) => DirCluster(v2, g, d)
  BY <1>3 DEF DirCluster
<1>5. ASSUME NEW l, Alive(v, g, u, l)  PROVE Alive(v2, g, u, l)
  <2>1. l \in Loc /\ Slot(v, g, u, l)
    BY <1>5 DEF Alive
  <2>2. Slot(v2, g, u, l)
    BY <1>4, <2>1, Locations DEF Slot
  <2> QED  BY <1>2, <1>5, <2>2 DEF Alive
<1>6. ASSUME NEW d, DirOK(v, g, d)  PROVE DirOK(v2, g, d)
  BY <1>4, <1>6 DEF DirOK
<1> QED  BY <1>2, <1>4, <1>5, <1>6

-----------------------------------------------------------------------------
(* The call in progress, label by label: each step of a call, as a change  *)
(* from volume v and call o to v2 and o2, keeps them in order for some     *)
(* owners.                                                                 *)

(* What the invariant says at other labels says nothing here.              *)
LEMMA OtherLabels ==
  ASSUME NEW v, NEW g, NEW o, o.what \in Calls
  PROVE  /\ AtInit(v, o)
         /\ o.pc # "start" => AtStart(v, g, o)
         /\ o.pc \notin {"find_free", "grow_link", "grow_zero", "create"} => AtCreate(v, g, o)
         /\ o.pc \notin {"mkdir_zero", "mkdir_dot", "mkdir_dotdot"} => AtMkdir(v, g, o)
         /\ o.pc # "free" => AtFree(v, g, o)
         /\ o.pc \notin {"alloc", "link", "fill"} => AtData(v, g, o)
         /\ o.pc # "entry" => AtEntry(v, g, o)
         /\ o.pc # "idle" => AtIdle(o)
<1>1. o.what # "fs_init" /\ o.what # "idle"
  BY DEF Calls
<1>2. AtInit(v, o) /\ (o.pc # "idle" => AtIdle(o))
  BY <1>1 DEF AtInit, AtIdle
<1>3. o.pc # "start" => AtStart(v, g, o)
  BY DEF AtStart
<1>4. o.pc \notin {"find_free", "grow_link", "grow_zero", "create"} => AtCreate(v, g, o)
  BY DEF AtCreate
<1>5. o.pc \notin {"mkdir_zero", "mkdir_dot", "mkdir_dotdot"} => AtMkdir(v, g, o)
  BY DEF AtMkdir
<1>6. o.pc # "free" => AtFree(v, g, o)
  BY DEF AtFree
<1>7. o.pc \notin {"alloc", "link", "fill"} => AtData(v, g, o)
  BY DEF AtData
<1>8. o.pc # "entry" => AtEntry(v, g, o)
  BY DEF AtEntry
<1> QED  BY <1>2, <1>3, <1>4, <1>5, <1>6, <1>7, <1>8

(* Which locations are given up, resized or not yet zeroed, by label.      *)
LEMMA ByLabel ==
  ASSUME NEW o
  PROVE  /\ o.pc \in FormatPcs \cup {"idle", "start", "find_free", "grow_link", "create",
                       "mkdir_zero", "mkdir_dot", "mkdir_dotdot"} =>
              Torn(o) = {} /\ Resized(o) = {} /\ Raw(o) = 0
         /\ o.pc = "grow_zero" => Torn(o) = {} /\ Resized(o) = {} /\ Raw(o) = o.c
         /\ o.pc = "free" =>
              /\ Raw(o) = 0
              /\ o.what = "fs_mkdir" => Torn(o) = {} /\ Resized(o) = {}
              /\ o.what \in {"fs_write", "fs_delete", "fs_rmdir"} =>
                   Torn(o) = {o.loc} /\ Resized(o) = {o.loc}
         /\ o.pc \in {"alloc", "link", "fill", "entry"} =>
              /\ Raw(o) = 0
              /\ o.what \in {"fs_write", "fs_delete", "fs_rmdir"} =>
                   Torn(o) = {o.loc} /\ Resized(o) = {o.loc}
              /\ o.what = "fs_append" => Torn(o) = {} /\ Resized(o) = {o.loc}
              /\ o.what = "fs_rename" => Torn(o) = {} /\ Resized(o) = {}
BY DEF Torn, Resized, Raw, Freeing, Appending, FormatPcs

(* The cluster that the call's own chain begins with, by label.            *)
LEMMA HeadByLabel ==
  ASSUME NEW o
  PROVE  /\ o.pc \in FormatPcs \cup {"idle", "start"} => HeadOf(o) = 0
         /\ o.pc \in {"mkdir_zero", "mkdir_dot", "mkdir_dotdot", "free"} => HeadOf(o) = o.c
         /\ o.pc \in {"find_free", "grow_link", "grow_zero", "create", "entry"} =>
              HeadOf(o) = o.d.first
         /\ o.pc \in {"alloc", "link", "fill"} => HeadOf(o) = o.first
         /\ o.pc \in {"grow_link", "link"} => GrowOf(o) = o.c
         /\ o.pc \notin {"grow_link", "link"} => GrowOf(o) = 0
<1>1. o.pc \in FormatPcs \cup {"idle", "start"} => HeadOf(o) = 0
  BY DEF HeadOf, FormatPcs
<1>2. o.pc \in {"mkdir_zero", "mkdir_dot", "mkdir_dotdot", "free"} => HeadOf(o) = o.c
  BY DEF HeadOf
<1>3. o.pc \in {"find_free", "grow_link", "grow_zero", "create", "entry"} => HeadOf(o) = o.d.first
  BY DEF HeadOf
<1>4. o.pc \in {"alloc", "link", "fill"} => HeadOf(o) = o.first
  BY DEF HeadOf
<1>5. /\ o.pc \in {"grow_link", "link"} => GrowOf(o) = o.c
      /\ o.pc \notin {"grow_link", "link"} => GrowOf(o) = 0
  BY DEF GrowOf
<1> QED  BY <1>1, <1>2, <1>3, <1>4, <1>5

(* Nothing is owned by w.                                                  *)
NoTag(g, w) == \A c \in DataClusters : g.own[c] # w

(* A call that has no unlinked cluster owns none as GrowTag.               *)
LEMMA NoGrow ==
  ASSUME NEW v, NEW g, Unlinked(v, g, 0)
  PROVE  NoTag(g, GrowTag)
BY ClusterNumbers DEF Unlinked, NoTag

(* A call whose chain begins nowhere owns no chain.                        *)
LEMMA NoOwn ==
  ASSUME NEW v, NEW g, NEW t, NEW z, NEW u, Volume(v, g, t, z, u), NEW h, OwnChain(g, h),
         ~IsData(h) \/ h \notin DataClusters
  PROVE  NoTag(g, NewTag)
<1>1. Owners(g) /\ Linked(v, g)
  BY DEF Volume
<1>2. h \notin DataClusters
  BY ClusterNumbers
<1> QED  BY <1>1, <1>2, NoNew DEF NoTag

(* When the call owns nothing, any head and any unlinked cluster will do.  *)
LEMMA TagFree ==
  ASSUME NEW v, NEW g, NEW h, NoTag(g, NewTag), NoTag(g, GrowTag)
  PROVE  OwnChain(g, h) /\ Unlinked(v, g, h)
BY DEF NoTag, OwnChain, Unlinked

(* When the call has taken no unlinked cluster, any number will do for it. *)
LEMMA GrowFree ==
  ASSUME NEW v, NEW g, NEW h, NoTag(g, GrowTag)
  PROVE  Unlinked(v, g, h)
BY DEF NoTag, Unlinked

(* No call in progress is a value of op.                                   *)
LEMMA IdleType == Idle \in OpType /\ Idle.pc = "idle" /\ Idle.what = "idle"
<1>1. [c |-> ROOT, i |-> 0] \in Loc
  BY Measures DEF Loc, RootIndex
<1>2. FreeEntry \in Dirent
  BY ZeroDirBlock
<1>3. <<>> \in Seq(Nat)
  OBVIOUS
<1> QED  BY <1>1, <1>2, <1>3 DEF Idle, OpType, Calls, Labels, FormatPcs

(* No call is in progress.                                                 *)
LEMMA IdleOK ==
  ASSUME NEW v, NEW g, Volume(v, g, {}, {}, 0), NoTag(g, NewTag), NoTag(g, GrowTag)
  PROVE  Consistent(v, g, Idle)
<1>0. PICK o : o = Idle
  OBVIOUS
<1>1. o \in OpType /\ o.pc = "idle" /\ o.what = "idle"
  BY <1>0, IdleType
<1>2. Torn(o) = {} /\ Resized(o) = {} /\ Raw(o) = 0
  BY <1>1, ByLabel
<1>3. OwnChain(g, HeadOf(o)) /\ Unlinked(v, g, GrowOf(o))
  BY TagFree
<1>4. AtInit(v, o) /\ AtStart(v, g, o) /\ AtIdle(o)
  BY <1>0, <1>1 DEF AtInit, AtStart, AtIdle
<1>5. AtCreate(v, g, o) /\ AtMkdir(v, g, o)
  BY <1>1 DEF AtCreate, AtMkdir
<1>6. AtFree(v, g, o) /\ AtData(v, g, o) /\ AtEntry(v, g, o)
  BY <1>1 DEF AtFree, AtData, AtEntry
<1>7. Consistent(v, g, o)
  BY <1>1, <1>2, <1>3, <1>4, <1>5, <1>6 DEF Consistent, Progress
<1> QED  BY <1>0, <1>7

(* A volume with a call at its start, or none.                             *)
LEMMA AtRest ==
  ASSUME NEW v, NEW g, NEW o, Consistent(v, g, o), o.pc \in {"idle", "start"} \cup FormatPcs
  PROVE  Volume(v, g, {}, {}, 0) /\ NoTag(g, NewTag) /\ NoTag(g, GrowTag)
<1>1. Torn(o) = {} /\ Resized(o) = {} /\ Raw(o) = 0
  BY ByLabel
<1>2. HeadOf(o) = 0 /\ GrowOf(o) = 0
  BY HeadByLabel DEF FormatPcs
<1>3. Volume(v, g, {}, {}, 0) /\ OwnChain(g, 0) /\ Unlinked(v, g, 0)
  BY <1>1, <1>2 DEF Consistent, Progress
<1> QED  BY <1>3, NoGrow, NoOwn, MarkNumbers

(* A call that returns before its first write leaves all as it is.         *)
LEMMA StartFails ==
  ASSUME NEW v, NEW g, NEW o, Consistent(v, g, o), o.pc = "start"
  PROVE  Consistent(v, g, Idle)
BY AtRest, IdleOK

(* A call by the shell, in a directory that walk_path reaches, starts in   *)
(* order.                                                                  *)
LEMMA CallStarts ==
  ASSUME NEW v, NEW g, Consistent(v, g, Idle),
         NEW what \in Calls, NEW dir \in {ROOT} \cup DataClusters, DirOK(v, g, dir),
         NEW leaf \in Names, NEW arg \in Seq(Nat), NEW to \in Names \cup {"free"},
         what = "fs_rename" => to \in Names,
         NEW o2, o2 = [Idle EXCEPT !.what = what, !.pc = "start", !.dir = dir,
                                   !.leaf = leaf, !.arg = arg, !.to = to]
  PROVE  Consistent(v, g, o2)
<1>1. Volume(v, g, {}, {}, 0) /\ NoTag(g, NewTag) /\ NoTag(g, GrowTag)
  BY AtRest, IdleType
<1>2. o2 \in OpType
  BY IdleType DEF OpType, Labels
<1>3. /\ o2.what = what /\ o2.pc = "start" /\ o2.dir = dir /\ o2.leaf = leaf /\ o2.to = to
      /\ o2.first = 0 /\ o2.prev = 0 /\ o2.c = 0 /\ o2.written = 0 /\ o2.res = 0
  BY DEF Idle
<1>4. Torn(o2) = {} /\ Resized(o2) = {} /\ Raw(o2) = 0
  BY <1>3, ByLabel
<1>5. OwnChain(g, HeadOf(o2)) /\ Unlinked(v, g, GrowOf(o2))
  BY <1>1, TagFree
<1>6. AtStart(v, g, o2)
  BY <1>3 DEF AtStart
<1>7. Progress(v, g, o2)
  BY <1>2, <1>3, <1>5, <1>6, OtherLabels DEF Progress
<1> QED  BY <1>1, <1>4, <1>7 DEF Consistent

(* What a call that has written nothing yet can rely on.                   *)
LEMMA StartFacts ==
  ASSUME NEW v, NEW g, NEW o, Consistent(v, g, o), o.pc = "start", o.what \in Calls
  PROVE  /\ Volume(v, g, {}, {}, 0) /\ NoTag(g, NewTag) /\ NoTag(g, GrowTag)
         /\ o \in OpType /\ DirOK(v, g, o.dir) /\ o.leaf \in Names
         /\ o.what = "fs_rename" => o.to \in Names
         /\ o.first = 0 /\ o.prev = 0 /\ o.c = 0 /\ o.written = 0 /\ o.res = 0
<1>1. Volume(v, g, {}, {}, 0) /\ NoTag(g, NewTag) /\ NoTag(g, GrowTag)
  BY AtRest
<1>2. o \in OpType /\ AtStart(v, g, o)
  BY DEF Consistent, Progress
<1>3. o.what # "fs_init"
  BY DEF Calls
<1> QED  BY <1>1, <1>2, <1>3 DEF AtStart

(* The numbers in a directory entry.                                       *)
LEMMA FirstNat ==
  ASSUME NEW e \in Dirent
  PROVE  e.first \in Nat /\ e.size \in Nat /\ (e.first # 0 => e.first \in DataClusters)
<1>1. e.first \in {0} \cup DataClusters /\ e.size \in Nat
  BY DEF Dirent
<1> QED  BY <1>1, ClusterNumbers

(* A new entry is a directory entry.                                       *)
LEMMA NewDirent ==
  ASSUME NEW n \in Names \cup {".", ".."}, NEW f \in BOOLEAN, NEW c \in {0} \cup DataClusters
  PROVE  NewEntry(n, f, c) \in Dirent
BY DEF NewEntry, Dirent

(* fs_create: the entry is made, its slot comes next.                      *)
LEMMA CreateStarts ==
  ASSUME NEW v, NEW g, NEW o, Consistent(v, g, o), o.pc = "start",
         o.what \in {"fs_create", "fs_write", "fs_append"},
         NEW o2, o2 = [o EXCEPT !.d = NewEntry(o.leaf, FALSE, 0), !.pc = "find_free"]
  PROVE  Consistent(v, g, o2)
<1>1. o.what \in Calls
  BY DEF Calls
<1>2. /\ Volume(v, g, {}, {}, 0) /\ NoTag(g, NewTag) /\ NoTag(g, GrowTag)
      /\ o \in OpType /\ DirOK(v, g, o.dir) /\ o.leaf \in Names
      /\ o.first = 0 /\ o.prev = 0 /\ o.c = 0 /\ o.written = 0 /\ o.res = 0
  BY <1>1, StartFacts
<1>3. PICK e \in Dirent : e = NewEntry(o.leaf, FALSE, 0)
  BY <1>2, NewDirent
<1>4. o2 \in OpType
  BY <1>2, <1>3 DEF OpType, Labels
<1>5. /\ o2.what = o.what /\ o2.pc = "find_free" /\ o2.dir = o.dir /\ o2.leaf = o.leaf
      /\ o2.first = 0 /\ o2.written = 0 /\ o2.res = 0 /\ o2.d = e
  BY <1>2, <1>3 DEF OpType
<1>6. e.first = 0 /\ e = NewEntry(o.leaf, FALSE, e.first)
  BY <1>3 DEF NewEntry
<1>7. (o2.what = "fs_mkdir") = FALSE
  BY <1>5
<1>8. AtCreate(v, g, o2)
  BY <1>2, <1>5, <1>6, <1>7 DEF AtCreate, Creating
<1>9. Torn(o2) = {} /\ Resized(o2) = {} /\ Raw(o2) = 0
  BY <1>5, ByLabel
<1>10. OwnChain(g, HeadOf(o2)) /\ Unlinked(v, g, GrowOf(o2))
  BY <1>2, TagFree
<1>11. Progress(v, g, o2)
  BY <1>1, <1>4, <1>5, <1>8, <1>10, OtherLabels DEF Progress
<1> QED  BY <1>2, <1>9, <1>11 DEF Consistent

(* fs_write, fs_delete and fs_rmdir: the chain of the entry will be freed. *)
LEMMA FreeStarts ==
  ASSUME NEW v, NEW g, NEW o, Consistent(v, g, o), o.pc = "start",
         o.what \in {"fs_write", "fs_delete", "fs_rmdir"},
         NEW l \in Loc, Alive(v, g, 0, l), NEW e \in Dirent, e = EntryAt(v, l),
         e.name \in Names, o.what # "fs_rmdir" => ~e.isdir,
         e.isdir => \A m \in ToSet(dir_iter(v, e.first)) :
                      Used(EntryAt(v, m)) => IsDot(EntryAt(v, m)),
         NEW o2, o2 = [o EXCEPT !.loc = l, !.d = e, !.c = e.first, !.pc = "free"]
  PROVE  \E g2 : Consistent(v, g2, o2)
<1>1. o.what \in Calls
  BY DEF Calls
<1>2. /\ Volume(v, g, {}, {}, 0) /\ NoTag(g, NewTag) /\ NoTag(g, GrowTag)
      /\ o \in OpType
      /\ o.first = 0 /\ o.prev = 0 /\ o.c = 0 /\ o.written = 0 /\ o.res = 0
  BY <1>1, StartFacts
<1>3. o2 \in OpType
  <2>1. e.first \in Nat /\ "free" \in Labels
    BY FirstNat DEF Labels
  <2> QED  BY <1>2, <2>1 DEF OpType
<1>4. /\ o2.what = o.what /\ o2.pc = "free" /\ o2.loc = l /\ o2.d = e /\ o2.c = e.first
      /\ o2.first = 0 /\ o2.prev = 0 /\ o2.written = 0
  BY <1>2 DEF OpType
<1>5. PICK g2 : g2 = [own |-> [c \in DataClusters |-> IF g.own[c] = l THEN NewTag ELSE g.own[c]],
                      pos |-> g.pos, lvl |-> g.lvl]
  OBVIOUS
<1>6. e.isdir => \A c \in DataClusters : g.own[c] = l =>
                   \A i \in DirIndex : Used(v.data[c][i]) => IsDot(v.data[c][i])
  BY <1>2, EmptyIs
<1>7. Detaches(v, g, g2, l)
  BY <1>2, <1>5, <1>6 DEF Detaches, NoTag
<1>8. /\ Volume(v, g2, {l}, {l}, 0)
      /\ OwnChain(g2, e.first)
      /\ HeadOrEnd(g2, e.first)
      /\ \A c \in DataClusters : g2.own[c] # NewTag => g2.own[c] = g.own[c]
  <2>1. PICK t : t = {l}
    OBVIOUS
  <2>2. /\ Volume(v, g2, t, t, 0)
        /\ OwnChain(g2, EntryAt(v, l).first)
        /\ HeadOrEnd(g2, EntryAt(v, l).first)
    BY <1>2, <1>7, <2>1, Detach
  <2>3. \A c \in DataClusters : g2.own[c] # NewTag => g2.own[c] = g.own[c]
    BY <1>7 DEF Detaches
  <2> QED  BY <2>1, <2>2, <2>3
<1>9. NoTag(g2, GrowTag)
  BY <1>2, <1>8, Tags DEF NoTag
<1>10. AtFree(v, g2, o2)
  BY <1>4, <1>8 DEF AtFree
<1>11. Torn(o2) = {l} /\ Resized(o2) = {l} /\ Raw(o2) = 0
  BY <1>4, ByLabel
<1>12. OwnChain(g2, HeadOf(o2)) /\ Unlinked(v, g2, GrowOf(o2))
  BY <1>4, <1>8, <1>9, HeadByLabel, GrowFree
<1>13. Progress(v, g2, o2)
  BY <1>1, <1>3, <1>4, <1>10, <1>12, OtherLabels DEF Progress
<1> QED  BY <1>8, <1>11, <1>13 DEF Consistent

(* fs_rename: the entry gets its new name.                                 *)
LEMMA RenameStarts ==
  ASSUME NEW v, NEW g, NEW o, Consistent(v, g, o), o.pc = "start", o.what = "fs_rename",
         NEW l \in Loc, Alive(v, g, 0, l), NEW e \in Dirent, e = EntryAt(v, l),
         NEW o2, o2 = [o EXCEPT !.loc = l, !.d = [e EXCEPT !.name = o.to], !.pc = "entry"]
  PROVE  Consistent(v, g, o2)
<1>1. o.what \in Calls
  BY DEF Calls
<1>2. /\ Volume(v, g, {}, {}, 0) /\ NoTag(g, NewTag) /\ NoTag(g, GrowTag)
      /\ o \in OpType /\ o.to \in Names
  BY <1>1, StartFacts
<1>3. PICK f : f = [e EXCEPT !.name = o.to]
  OBVIOUS
<1>4. /\ f \in Dirent /\ f.name = o.to /\ f.first = e.first /\ f.isdir = e.isdir
      /\ f.size = e.size
  BY <1>2, <1>3 DEF Dirent
<1>5. o2 \in OpType
  BY <1>2, <1>3, <1>4 DEF OpType, Labels
<1>6. o2.what = o.what /\ o2.pc = "entry" /\ o2.loc = l /\ o2.d = f
  BY <1>2, <1>3 DEF OpType
<1>7. AtEntry(v, g, o2)
  BY <1>2, <1>4, <1>6 DEF AtEntry
<1>8. Torn(o2) = {} /\ Resized(o2) = {} /\ Raw(o2) = 0
  BY <1>6, ByLabel
<1>9. OwnChain(g, HeadOf(o2)) /\ Unlinked(v, g, GrowOf(o2))
  BY <1>2, TagFree
<1>10. Progress(v, g, o2)
  BY <1>1, <1>5, <1>6, <1>7, <1>9, OtherLabels DEF Progress
<1> QED  BY <1>2, <1>8, <1>10 DEF Consistent

(* fs_mkdir: a cluster is taken for the directory.                         *)
LEMMA MkdirStarts ==
  ASSUME NEW v, NEW g, NEW o, Consistent(v, g, o), o.pc = "start", o.what = "fs_mkdir",
         NEW v2, NEW c \in DataClusters, v.fat[c] = FREE, FatSet(v, v2, c, EOC),
         NEW o2, o2 = [o EXCEPT !.c = c, !.pc = "mkdir_zero"]
  PROVE  \E g2 : Consistent(v2, g2, o2)
<1>1. o.what \in Calls
  BY DEF Calls
<1>2. /\ Volume(v, g, {}, {}, 0) /\ NoTag(g, NewTag) /\ NoTag(g, GrowTag)
      /\ o \in OpType /\ DirOK(v, g, o.dir) /\ o.leaf \in Names
      /\ o.first = 0 /\ o.prev = 0 /\ o.written = 0 /\ o.res = 0
  BY <1>1, StartFacts
<1>3. o2 \in OpType
  BY <1>2, ClusterNumbers DEF OpType, Labels
<1>4. /\ o2.what = o.what /\ o2.pc = "mkdir_zero" /\ o2.c = c /\ o2.dir = o.dir /\ o2.leaf = o.leaf
      /\ o2.first = 0 /\ o2.written = 0 /\ o2.res = 0
  BY <1>2 DEF OpType
<1>5. PICK g2 : g2 = [own |-> [g.own EXCEPT ![c] = NewTag], pos |-> [g.pos EXCEPT ![c] = 0],
                      lvl |-> g.lvl]
  OBVIOUS
<1>6. /\ g2.own = [g.own EXCEPT ![c] = NewTag] /\ g2.pos = [g.pos EXCEPT ![c] = 0]
      /\ g2.lvl = g.lvl
  BY <1>5
<1>7. Volume(v2, g2, {}, {}, 0)
  <2>1. \A d \in DataClusters : g.own[d] # NewTag
    BY <1>2 DEF NoTag
  <2>2. Takes(v, g, v2, g2, c, NewTag)
    BY <1>6, <2>1 DEF Takes
  <2>3. {} \subseteq Loc
    OBVIOUS
  <2> QED  BY <1>2, <2>2, <2>3, Take
<1>8. /\ g2.own[c] = NewTag /\ g2.pos[c] = 0
      /\ \A d \in DataClusters : d # c => g2.own[d] = g.own[d] /\ g2.pos[d] = g.pos[d]
      /\ g.own[c] = Nobody
  BY <1>2, <1>6 DEF Volume, Owners, Linked
<1>9. NewCluster(g2, c) /\ OwnChain(g2, c) /\ NoTag(g2, GrowTag)
  BY <1>2, <1>8, Tags DEF NewCluster, NewHead, OwnChain, NoTag
<1>10. DirOK(v2, g2, o.dir)
  <2>1. v2.root = v.root /\ v2.data = v.data
    BY DEF FatSet
  <2>2. \A d \in DataClusters : g.own[d] \in Loc =>
          g2.own[d] = g.own[d] /\ g2.pos[d] = g.pos[d]
    BY <1>8, Tags
  <2> QED  BY <1>2, <2>1, <2>2, FatKept
<1>11. AtMkdir(v2, g2, o2)
  BY <1>2, <1>4, <1>9, <1>10 DEF AtMkdir
<1>12. Torn(o2) = {} /\ Resized(o2) = {} /\ Raw(o2) = 0
  BY <1>4, ByLabel
<1>13. OwnChain(g2, HeadOf(o2)) /\ Unlinked(v2, g2, GrowOf(o2))
  BY <1>4, <1>9, HeadByLabel, GrowFree
<1>14. Progress(v2, g2, o2)
  BY <1>1, <1>3, <1>4, <1>11, <1>13, OtherLabels DEF Progress
<1> QED  BY <1>7, <1>12, <1>14 DEF Consistent

-----------------------------------------------------------------------------
(* fs_mkdir.                                                               *)

(* What fs_mkdir can rely on while it prepares its cluster.                *)
LEMMA MkdirFacts ==
  ASSUME NEW v, NEW g, NEW o, Consistent(v, g, o),
         o.pc \in {"mkdir_zero", "mkdir_dot", "mkdir_dotdot"}
  PROVE  /\ Volume(v, g, {}, {}, 0) /\ o \in OpType /\ o.what = "fs_mkdir"
         /\ DirOK(v, g, o.dir) /\ o.leaf \in Names /\ NewCluster(g, o.c)
         /\ o.first = 0 /\ o.written = 0 /\ o.res = 0
         /\ o.pc # "mkdir_zero" => v.data[o.c] \in DirBlock
         /\ o.pc = "mkdir_dotdot" => v.data[o.c][0] = NewEntry(".", TRUE, o.c)
         /\ OwnChain(g, o.c) /\ NoTag(g, GrowTag)
         /\ o.c \in DataClusters /\ ~DirCluster(v, g, o.c)
         /\ v.data[o.c] \in DirBlock => NoEntries(v.data[o.c])
<1>1. Torn(o) = {} /\ Resized(o) = {} /\ Raw(o) = 0
  BY ByLabel
<1>2. HeadOf(o) = o.c /\ GrowOf(o) = 0
  BY HeadByLabel
<1>3. /\ Volume(v, g, {}, {}, 0) /\ o \in OpType /\ AtMkdir(v, g, o)
      /\ OwnChain(g, o.c) /\ Unlinked(v, g, 0)
  BY <1>1, <1>2 DEF Consistent, Progress
<1>4. NoTag(g, GrowTag)
  BY <1>3, NoGrow
<1>5. /\ o.what = "fs_mkdir" /\ DirOK(v, g, o.dir) /\ o.leaf \in Names
      /\ NewCluster(g, o.c)
      /\ o.first = 0 /\ o.written = 0 /\ o.res = 0
      /\ o.pc # "mkdir_zero" => v.data[o.c] \in DirBlock
      /\ o.pc = "mkdir_dotdot" => v.data[o.c][0] = NewEntry(".", TRUE, o.c)
  BY <1>3 DEF AtMkdir
<1>6. o.c \in DataClusters /\ ~DirCluster(v, g, o.c)
  BY <1>5, Tags DEF NewCluster, NewHead, DirCluster
<1>7. v.data[o.c] \in DirBlock => NoEntries(v.data[o.c])
  BY <1>3, <1>6 DEF Volume, Blocks, NoEntries
<1> QED  BY <1>3, <1>4, <1>5, <1>6, <1>7

(* A write to the cluster of the new directory.                            *)
LEMMA MkdirWrites ==
  ASSUME NEW v, NEW g, NEW o, Consistent(v, g, o),
         o.pc \in {"mkdir_zero", "mkdir_dot", "mkdir_dotdot"},
         NEW v2, NEW b, DataSet(v, v2, o.c, b), NoEntries(b)
  PROVE  Volume(v2, g, {}, {}, 0) /\ DirOK(v2, g, o.dir) /\ v2.data[o.c] = b
<1>1. /\ Volume(v, g, {}, {}, 0) /\ o.c \in DataClusters /\ ~DirCluster(v, g, o.c)
      /\ DirOK(v, g, o.dir)
  BY MkdirFacts
<1>2. PICK c \in DataClusters : c = o.c
  BY <1>1
<1>3. {} \subseteq Loc
  OBVIOUS
<1>4. Volume(v2, g, {}, {}, 0)
  BY <1>1, <1>2, <1>3, DataWrite
<1>5. DirOK(v2, g, o.dir)
  BY <1>1, <1>2, DataKept
<1> QED  BY <1>4, <1>5 DEF DataSet

(* fs_mkdir zeroes its cluster.                                            *)
LEMMA MkdirZeroStep ==
  ASSUME NEW v, NEW g, NEW o, Consistent(v, g, o), o.pc = "mkdir_zero",
         NEW v2, DataSet(v, v2, o.c, ZeroDir),
         NEW o2, o2 = [o EXCEPT !.pc = "mkdir_dot"]
  PROVE  Consistent(v2, g, o2)
<1>1. /\ o \in OpType /\ o.what = "fs_mkdir"
      /\ o.leaf \in Names /\ NewCluster(g, o.c)
      /\ o.first = 0 /\ o.written = 0 /\ o.res = 0
      /\ OwnChain(g, o.c) /\ NoTag(g, GrowTag)
  BY MkdirFacts
<1>2. Volume(v2, g, {}, {}, 0) /\ DirOK(v2, g, o.dir) /\ v2.data[o.c] = ZeroDir
  BY MkdirWrites, ZeroDirBlock
<1>3. o2 \in OpType
  BY <1>1 DEF OpType, Labels
<1>4. /\ o2.what = "fs_mkdir" /\ o2.pc = "mkdir_dot" /\ o2.c = o.c /\ o2.dir = o.dir
      /\ o2.leaf = o.leaf /\ o2.first = 0 /\ o2.written = 0 /\ o2.res = 0 /\ o2.what \in Calls
  BY <1>1 DEF OpType, Calls
<1>5. AtMkdir(v2, g, o2)
  BY <1>1, <1>2, <1>4, ZeroDirBlock DEF AtMkdir
<1>6. Torn(o2) = {} /\ Resized(o2) = {} /\ Raw(o2) = 0
  BY <1>4, ByLabel
<1>7. OwnChain(g, HeadOf(o2)) /\ Unlinked(v2, g, GrowOf(o2))
  BY <1>1, <1>4, HeadByLabel, GrowFree
<1>8. Progress(v2, g, o2)
  BY <1>3, <1>4, <1>5, <1>7, OtherLabels DEF Progress
<1> QED  BY <1>2, <1>6, <1>8 DEF Consistent

(* An entry . or .. goes into a block without entries.                     *)
DotPut(b, b2, i, e) ==
  /\ b \in DirBlock /\ NoEntries(b) /\ i \in DirIndex /\ e \in Dirent /\ IsDot(e)
  /\ b2 = [b EXCEPT ![i] = e]

(* A directory cluster without entries stays so when "." or ".." is        *)
(* written.                                                                *)
LEMMA DotWritten ==
  ASSUME NEW b, NEW b2, NEW i, NEW e, DotPut(b, b2, i, e)
  PROVE  b2 \in DirBlock /\ NoEntries(b2) /\ b2[i] = e
<1>1. /\ b2 \in DirBlock /\ b2[i] = e
      /\ \A j \in DirIndex : j # i => b2[j] = b[j]
  BY DEF DirBlock, DotPut
<1>2. 0 \in DOMAIN b
  BY Measures DEF DirBlock, DirIndex, DotPut
<1>3. \A j \in DirIndex : Used(b[j]) => IsDot(b[j])
  BY <1>2 DEF NoEntries, DotPut
<1>4. \A j \in DirIndex : Used(b2[j]) => IsDot(b2[j])
  BY <1>1, <1>3 DEF DotPut
<1> QED  BY <1>1, <1>4 DEF NoEntries

(* fs_mkdir writes ".".                                                    *)
LEMMA MkdirDotStep ==
  ASSUME NEW v, NEW g, NEW o, Consistent(v, g, o), o.pc = "mkdir_dot",
         NEW v2, NEW b2, DataSet(v, v2, o.c, b2),
         b2 = [v.data[o.c] EXCEPT ![0] = NewEntry(".", TRUE, o.c)],
         NEW o2, o2 = [o EXCEPT !.pc = "mkdir_dotdot"]
  PROVE  Consistent(v2, g, o2)
<1>1. /\ o \in OpType /\ o.what = "fs_mkdir"
      /\ o.leaf \in Names /\ NewCluster(g, o.c)
      /\ o.first = 0 /\ o.written = 0 /\ o.res = 0
      /\ OwnChain(g, o.c) /\ NoTag(g, GrowTag) /\ o.c \in DataClusters
      /\ v.data[o.c] \in DirBlock /\ NoEntries(v.data[o.c])
  BY MkdirFacts
<1>2. PICK e \in Dirent : e = NewEntry(".", TRUE, o.c)
  BY <1>1, NewDirent
<1>3. PICK b \in DirBlock : b = v.data[o.c]
  BY <1>1
<1>4. b2 \in DirBlock /\ NoEntries(b2) /\ b2[0] = e
  <2>1. IsDot(e)
    BY <1>2, DotNames
  <2>2. PICK i \in DirIndex : i = 0
    BY Measures DEF DirIndex
  <2>3. DotPut(b, b2, i, e)
    BY <1>1, <1>2, <1>3, <2>1, <2>2 DEF DotPut
  <2>4. b2 \in DirBlock /\ NoEntries(b2) /\ b2[i] = e
    BY <2>3, DotWritten
  <2> QED  BY <2>2, <2>4
<1>5. Volume(v2, g, {}, {}, 0) /\ DirOK(v2, g, o.dir) /\ v2.data[o.c] = b2
  BY <1>4, MkdirWrites
<1>6. o2 \in OpType
  BY <1>1 DEF OpType, Labels
<1>7. /\ o2.what = "fs_mkdir" /\ o2.pc = "mkdir_dotdot" /\ o2.c = o.c /\ o2.dir = o.dir
      /\ o2.leaf = o.leaf /\ o2.first = 0 /\ o2.written = 0 /\ o2.res = 0 /\ o2.what \in Calls
  BY <1>1 DEF OpType, Calls
<1>8. AtMkdir(v2, g, o2)
  BY <1>1, <1>2, <1>4, <1>5, <1>7 DEF AtMkdir
<1>9. Torn(o2) = {} /\ Resized(o2) = {} /\ Raw(o2) = 0
  BY <1>7, ByLabel
<1>10. OwnChain(g, HeadOf(o2)) /\ Unlinked(v2, g, GrowOf(o2))
  BY <1>1, <1>7, HeadByLabel, GrowFree
<1>11. Progress(v2, g, o2)
  BY <1>6, <1>7, <1>8, <1>10, OtherLabels DEF Progress
<1> QED  BY <1>5, <1>9, <1>11 DEF Consistent

(* fs_mkdir writes "..", and its directory is ready for an entry.          *)
LEMMA MkdirDotDotStep ==
  ASSUME NEW v, NEW g, NEW o, Consistent(v, g, o), o.pc = "mkdir_dotdot",
         NEW v2, NEW b2, DataSet(v, v2, o.c, b2),
         b2 = [v.data[o.c] EXCEPT ![1] = NewEntry("..", TRUE, o.dir)],
         NEW o2, o2 = [o EXCEPT !.d = NewEntry(o.leaf, TRUE, o.c), !.pc = "find_free"]
  PROVE  Consistent(v2, g, o2)
<1>1. /\ o \in OpType /\ o.what = "fs_mkdir"
      /\ o.leaf \in Names /\ NewCluster(g, o.c)
      /\ o.first = 0 /\ o.written = 0 /\ o.res = 0
      /\ OwnChain(g, o.c) /\ NoTag(g, GrowTag) /\ o.c \in DataClusters
      /\ v.data[o.c] \in DirBlock /\ NoEntries(v.data[o.c])
      /\ v.data[o.c][0] = NewEntry(".", TRUE, o.c)
  BY MkdirFacts
<1>2. PICK e \in Dirent : e = NewEntry("..", TRUE, o.dir)
  <2>1. o.dir \in {0} \cup DataClusters
    BY <1>1 DEF OpType, ROOT
  <2> QED  BY <2>1, NewDirent
<1>3. PICK b \in DirBlock : b = v.data[o.c]
  BY <1>1
<1>4. b2 \in DirBlock /\ NoEntries(b2) /\ b2[1] = e /\ b2[0] = b[0]
  <2>1. IsDot(e)
    BY <1>2, DotNames
  <2>2. 0 \in DirIndex /\ 1 \in DirIndex
    BY Measures DEF DirIndex
  <2>3. PICK i \in DirIndex : i = 1
    BY <2>2
  <2>4. DotPut(b, b2, i, e)
    BY <1>1, <1>2, <1>3, <2>1, <2>3 DEF DotPut
  <2>5. b2 \in DirBlock /\ NoEntries(b2) /\ b2[i] = e
    BY <2>4, DotWritten
  <2>6. b2[0] = b[0]
    BY <2>2, <2>3, <2>4 DEF DotPut, DirBlock
  <2> QED  BY <2>3, <2>5, <2>6
<1>5. Volume(v2, g, {}, {}, 0) /\ DirOK(v2, g, o.dir) /\ v2.data[o.c] = b2
  BY <1>4, MkdirWrites
<1>6. PICK f \in Dirent : f = NewEntry(o.leaf, TRUE, o.c)
  BY <1>1, NewDirent
<1>7. o2 \in OpType
  BY <1>1, <1>6 DEF OpType, Labels
<1>8. /\ o2.what = "fs_mkdir" /\ o2.pc = "find_free" /\ o2.c = o.c /\ o2.dir = o.dir
      /\ o2.leaf = o.leaf /\ o2.first = 0 /\ o2.written = 0 /\ o2.res = 0 /\ o2.what \in Calls
      /\ o2.d = f
  BY <1>1, <1>6 DEF OpType, Calls
<1>9. f.first = o.c /\ f = NewEntry(o.leaf, TRUE, f.first) /\ (o2.what = "fs_mkdir") = TRUE
  BY <1>6, <1>8 DEF NewEntry
<1>10. NewDir(v2, g, o.c, o.dir)
  BY <1>1, <1>2, <1>3, <1>4, <1>5 DEF NewDir
<1>11. AtCreate(v2, g, o2)
  BY <1>1, <1>5, <1>8, <1>9, <1>10 DEF AtCreate, Creating
<1>12. Torn(o2) = {} /\ Resized(o2) = {} /\ Raw(o2) = 0
  BY <1>8, ByLabel
<1>13. OwnChain(g, HeadOf(o2)) /\ Unlinked(v2, g, GrowOf(o2))
  <2>1. HeadOf(o2) = o2.d.first
    BY <1>8, HeadByLabel
  <2>2. Unlinked(v2, g, GrowOf(o2))
    BY <1>1, GrowFree
  <2> QED  BY <1>1, <1>8, <1>9, <2>1, <2>2
<1>14. Progress(v2, g, o2)
  BY <1>7, <1>8, <1>11, <1>13, OtherLabels DEF Progress
<1> QED  BY <1>5, <1>12, <1>14 DEF Consistent

-----------------------------------------------------------------------------
(* Making an entry: dir_find_free, the growing of a directory, the write.  *)

(* What a call can rely on while it makes an entry.                        *)
LEMMA CreateFacts ==
  ASSUME NEW v, NEW g, NEW o, Consistent(v, g, o),
         o.pc \in {"find_free", "grow_link", "grow_zero", "create"}
  PROVE  /\ Creating(v, g, o) /\ o \in OpType /\ o.d \in Dirent /\ o.loc \in Loc
         /\ o.what \in Calls
         /\ OwnChain(g, o.d.first)
         /\ o.pc # "grow_zero" => Volume(v, g, {}, {}, 0)
         /\ o.pc = "grow_zero" => Volume(v, g, {}, {}, o.c)
         /\ o.pc # "grow_link" => NoTag(g, GrowTag)
         /\ o.pc = "grow_link" => Unlinked(v, g, o.c)
<1>1. /\ o.pc # "grow_zero" => Torn(o) = {} /\ Resized(o) = {} /\ Raw(o) = 0
      /\ o.pc = "grow_zero" => Torn(o) = {} /\ Resized(o) = {} /\ Raw(o) = o.c
  BY ByLabel
<1>2. /\ HeadOf(o) = o.d.first
      /\ o.pc # "grow_link" => GrowOf(o) = 0
      /\ o.pc = "grow_link" => GrowOf(o) = o.c
  BY HeadByLabel
<1>3. /\ Volume(v, g, Torn(o), Resized(o), Raw(o)) /\ o \in OpType /\ AtCreate(v, g, o)
      /\ OwnChain(g, HeadOf(o)) /\ Unlinked(v, g, GrowOf(o))
  BY DEF Consistent, Progress
<1>4. Creating(v, g, o)
  BY <1>3 DEF AtCreate
<1>5. o.d \in Dirent /\ o.loc \in Loc
  BY <1>3 DEF OpType
<1>6. o.what \in Calls
  BY <1>4 DEF Creating, Calls
<1>7. /\ o.pc # "grow_zero" => Volume(v, g, {}, {}, 0)
      /\ o.pc = "grow_zero" => Volume(v, g, {}, {}, o.c)
  BY <1>1, <1>3
<1>8. o.pc # "grow_link" => NoTag(g, GrowTag)
  BY <1>2, <1>3, NoGrow
<1> QED  BY <1>2, <1>3, <1>4, <1>5, <1>6, <1>7, <1>8

(* A step that leaves what a call is making alone.                         *)
SameCall(o, o2) ==
  /\ o2.what = o.what /\ o2.dir = o.dir /\ o2.leaf = o.leaf /\ o2.d = o.d
  /\ o2.first = o.first /\ o2.written = o.written /\ o2.res = o.res

(* A step that keeps the parent and the new directory goes on making the   *)
(* entry.                                                                  *)
LEMMA CreatingGoesOn ==
  ASSUME NEW v, NEW g, NEW o, NEW v2, NEW g2, NEW o2, Creating(v, g, o), SameCall(o, o2),
         DirOK(v2, g2, o.dir),
         NewDir(v, g, o.d.first, o.dir) => NewDir(v2, g2, o.d.first, o.dir)
  PROVE  Creating(v2, g2, o2)
BY DEF Creating, SameCall

(* dir_find_free finds a slot.                                             *)
LEMMA FindFreeSlot ==
  ASSUME NEW v, NEW g, NEW o, Consistent(v, g, o), o.pc = "find_free",
         FirstFree(v, o.dir) # 0,
         NEW o2, o2 = [o EXCEPT !.loc = dir_iter(v, o.dir)[FirstFree(v, o.dir)], !.pc = "create"]
  PROVE  Consistent(v, g, o2)
<1>1. /\ Creating(v, g, o) /\ o \in OpType /\ o.what \in Calls
      /\ OwnChain(g, o.d.first) /\ Volume(v, g, {}, {}, 0) /\ NoTag(g, GrowTag)
  BY CreateFacts
<1>2. DirOK(v, g, o.dir)
  BY <1>1 DEF Creating
<1>3. PICK l : l = dir_iter(v, o.dir)[FirstFree(v, o.dir)]
  OBVIOUS
<1>4. l \in Loc /\ Slot(v, g, 0, l) /\ Home(v, g, l) = o.dir /\ ~Used(EntryAt(v, l))
  BY <1>1, <1>2, <1>3, FreeIs
<1>5. o2 \in OpType
  BY <1>1, <1>3, <1>4 DEF OpType, Labels
<1>6. SameCall(o, o2) /\ o2.loc = l /\ o2.pc = "create" /\ o2.d = o.d /\ o2.what = o.what
      /\ o2.dir = o.dir
  BY <1>1, <1>3 DEF OpType, SameCall
<1>7. Creating(v, g, o2)
  BY <1>1, <1>2, <1>6, CreatingGoesOn
<1>8. AtCreate(v, g, o2)
  BY <1>4, <1>6, <1>7 DEF AtCreate
<1>9. Torn(o2) = {} /\ Resized(o2) = {} /\ Raw(o2) = 0
  BY <1>6, ByLabel
<1>10. OwnChain(g, HeadOf(o2)) /\ Unlinked(v, g, GrowOf(o2))
  <2>1. HeadOf(o2) = o2.d.first
    BY <1>6, HeadByLabel
  <2>2. Unlinked(v, g, GrowOf(o2))
    BY <1>1, GrowFree
  <2> QED  BY <1>1, <1>6, <2>1, <2>2
<1>11. Progress(v, g, o2)
  BY <1>1, <1>5, <1>6, <1>8, <1>10, OtherLabels DEF Progress
<1> QED  BY <1>1, <1>9, <1>11 DEF Consistent

(* No slot and no cluster: fs_mkdir frees its own cluster.                 *)
LEMMA FindFreeFails ==
  ASSUME NEW v, NEW g, NEW o, Consistent(v, g, o), o.pc = "find_free"
  PROVE  /\ o.what # "fs_mkdir" => Consistent(v, g, Idle)
         /\ o.what = "fs_mkdir" =>
              Consistent(v, g, [o EXCEPT !.c = o.d.first, !.pc = "free"])
<1>1. /\ Creating(v, g, o) /\ o \in OpType /\ o.what \in Calls /\ o.d \in Dirent
      /\ OwnChain(g, o.d.first) /\ Volume(v, g, {}, {}, 0) /\ NoTag(g, GrowTag)
  BY CreateFacts
<1>2. ASSUME o.what # "fs_mkdir"  PROVE Consistent(v, g, Idle)
  <2>1. o.d.first = 0
    BY <1>1, <1>2 DEF Creating
  <2>2. NoTag(g, NewTag)
    BY <1>1, <2>1, NoOwn, MarkNumbers
  <2> QED  BY <1>1, <2>2, IdleOK
<1>3. ASSUME o.what = "fs_mkdir"
      PROVE  Consistent(v, g, [o EXCEPT !.c = o.d.first, !.pc = "free"])
  <2>1. PICK o2 : o2 = [o EXCEPT !.c = o.d.first, !.pc = "free"]
    OBVIOUS
  <2>2. o2 \in OpType
    BY <1>1, <2>1, FirstNat DEF OpType, Labels
  <2>3. o2.what = "fs_mkdir" /\ o2.pc = "free" /\ o2.c = o.d.first
    BY <1>1, <1>3, <2>1 DEF OpType
  <2>4. HeadOrEnd(g, o.d.first)
    BY <1>1, <1>3 DEF Creating, NewDir, NewCluster, HeadOrEnd
  <2>5. AtFree(v, g, o2)
    BY <2>3, <2>4 DEF AtFree
  <2>6. Torn(o2) = {} /\ Resized(o2) = {} /\ Raw(o2) = 0
    BY <2>3, ByLabel
  <2>7. OwnChain(g, HeadOf(o2)) /\ Unlinked(v, g, GrowOf(o2))
    BY <1>1, <2>3, HeadByLabel, GrowFree
  <2>8. Progress(v, g, o2)
    BY <1>1, <1>3, <2>2, <2>3, <2>5, <2>7, OtherLabels DEF Progress
  <2>9. Consistent(v, g, o2)
    BY <1>1, <2>6, <2>8 DEF Consistent
  <2> QED  BY <2>1, <2>9
<1> QED  BY <1>2, <1>3

(* No slot: the directory gets a cluster more.                             *)
(* The call goes on to link cluster c behind the directory's last one.     *)
GrowOp(v, o, o2, c) ==
  LET s == dir_iter(v, o.dir)
  IN  o2 = [o EXCEPT !.prev = s[Len(s)].c, !.c = c, !.pc = "grow_link"]

(* dir_find_free takes a cluster for a directory that is full.             *)
LEMMA FindFreeGrows ==
  ASSUME NEW v, NEW g, NEW o, Consistent(v, g, o), o.pc = "find_free", o.dir # ROOT,
         NEW v2, NEW c \in DataClusters, v.fat[c] = FREE, FatSet(v, v2, c, EOC),
         NEW o2, GrowOp(v, o, o2, c)
  PROVE  \E g2 : Consistent(v2, g2, o2)
<1>1. /\ Creating(v, g, o) /\ o \in OpType /\ o.what \in Calls
      /\ OwnChain(g, o.d.first) /\ Volume(v, g, {}, {}, 0) /\ NoTag(g, GrowTag)
  BY CreateFacts
<1>2. DirOK(v, g, o.dir)
  BY <1>1 DEF Creating
<1>3. PICK p : /\ p = dir_iter(v, o.dir)[Len(dir_iter(v, o.dir))].c
               /\ o2 = [o EXCEPT !.prev = p, !.c = c, !.pc = "grow_link"]
  BY DEF GrowOp
<1>4. p \in DataClusters /\ v.fat[p] = EOC /\ g.own[p] = g.own[o.dir]
  BY <1>1, <1>2, <1>3, DirFacts
<1>5. o2 \in OpType
  BY <1>1, <1>3, <1>4, ClusterNumbers DEF OpType, Labels
<1>6. SameCall(o, o2) /\ o2.pc = "grow_link" /\ o2.d = o.d /\ o2.what = o.what
      /\ o2.dir = o.dir /\ o2.c = c /\ o2.prev = p
  BY <1>1, <1>3 DEF OpType, SameCall
<1>7. PICK g2 : g2 = [own |-> [g.own EXCEPT ![c] = GrowTag], pos |-> [g.pos EXCEPT ![c] = 0],
                      lvl |-> g.lvl]
  OBVIOUS
<1>8. Takes(v, g, v2, g2, c, GrowTag)
  BY <1>1, <1>7 DEF Takes, NoTag
<1>9. Volume(v2, g2, {}, {}, 0)
  <2>1. {} \subseteq Loc
    OBVIOUS
  <2> QED  BY <1>1, <1>8, <2>1, Take
<1>10. /\ g2.own[c] = GrowTag /\ g2.pos[c] = 0
       /\ \A d \in DataClusters : d # c => g2.own[d] = g.own[d] /\ g2.pos[d] = g.pos[d]
       /\ g.own[c] = Nobody
  BY <1>1, <1>7 DEF Volume, Owners, Linked
<1>11. /\ v2.root = v.root /\ v2.data = v.data /\ v2.fat[c] = EOC
       /\ \A d \in DataClusters : d # c => v2.fat[d] = v.fat[d]
  BY DEF FatSet
<1>12. DirOK(v2, g2, o.dir)
  <2>1. \A d \in DataClusters : g.own[d] \in Loc =>
          g2.own[d] = g.own[d] /\ g2.pos[d] = g.pos[d]
    BY <1>10, Tags
  <2> QED  BY <1>2, <1>11, <2>1, FatKept
<1>13. NewDir(v, g, o.d.first, o.dir) => NewDir(v2, g2, o.d.first, o.dir)
  BY <1>10, <1>11, Tags DEF NewDir, NewCluster, NewHead
<1>14. Creating(v2, g2, o2)
  BY <1>1, <1>6, <1>12, <1>13, CreatingGoesOn
<1>15. v2.fat[p] = EOC /\ g2.own[p] = g2.own[o.dir]
  <2>1. o.dir \in DataClusters /\ g.own[o.dir] \in Loc
    BY <1>2 DEF DirOK, DirCluster
  <2>2. p # c /\ o.dir # c
    BY <1>4, <1>10, <2>1, Tags
  <2> QED  BY <1>4, <1>10, <1>11, <2>1, <2>2
<1>16. AtCreate(v2, g2, o2)
  BY <1>4, <1>6, <1>10, <1>14, <1>15 DEF AtCreate
<1>17. Torn(o2) = {} /\ Resized(o2) = {} /\ Raw(o2) = 0
  BY <1>6, ByLabel
<1>18. OwnChain(g2, o.d.first) /\ Unlinked(v2, g2, c)
  BY <1>1, <1>10, <1>11, Tags DEF OwnChain, Unlinked, NoTag
<1>19. OwnChain(g2, HeadOf(o2)) /\ Unlinked(v2, g2, GrowOf(o2))
  <2>1. HeadOf(o2) = o.d.first
    <3>1. HeadOf(o2) = o2.d.first
      BY <1>6, HeadByLabel
    <3> QED  BY <1>6, <3>1
  <2>2. GrowOf(o2) = c
    BY <1>6 DEF GrowOf
  <2> QED  BY <1>18, <2>1, <2>2
<1>20. Progress(v2, g2, o2)
  BY <1>1, <1>5, <1>6, <1>16, <1>19, OtherLabels DEF Progress
<1> QED  BY <1>9, <1>17, <1>20 DEF Consistent

(* The cluster is linked behind the directory's last one; it is not zeroed *)
(* yet.                                                                    *)
LEMMA GrowLinkStep ==
  ASSUME NEW v, NEW g, NEW o, Consistent(v, g, o), o.pc = "grow_link",
         NEW v2, FatSet(v, v2, o.prev, o.c),
         NEW o2, o2 = [o EXCEPT !.pc = "grow_zero"]
  PROVE  \E g2 : Consistent(v2, g2, o2)
<1>1. /\ Creating(v, g, o) /\ o \in OpType /\ o.what \in Calls
      /\ OwnChain(g, o.d.first) /\ Volume(v, g, {}, {}, 0) /\ Unlinked(v, g, o.c)
  BY CreateFacts
<1>2. AtCreate(v, g, o)
  BY DEF Consistent, Progress
<1>3. /\ o.dir # ROOT /\ o.c \in DataClusters /\ g.own[o.c] = GrowTag
      /\ o.prev \in DataClusters /\ v.fat[o.prev] = EOC /\ g.own[o.prev] = g.own[o.dir]
  BY <1>2 DEF AtCreate
<1>4. /\ DirOK(v, g, o.dir) /\ o.dir \in DataClusters /\ g.own[o.dir] \in Loc
      /\ EntryAt(v, g.own[o.dir]).isdir
  BY <1>1, <1>3 DEF Creating, DirOK, DirCluster
<1>5. PICK p : p = o.prev
  OBVIOUS
<1>6. PICK c : c = o.c
  OBVIOUS
<1>7. PICK g2 : g2 = [own |-> [g.own EXCEPT ![c] = g.own[p]],
                      pos |-> [g.pos EXCEPT ![c] = g.pos[p] + 1],
                      lvl |-> [g.lvl EXCEPT ![c] = g.lvl[p]]]
  OBVIOUS
<1>8. g.own[p] \in Loc /\ g.own[p] # Nobody /\ g.own[p] # GrowTag
  BY <1>3, <1>4, <1>5, Tags
<1>9. v.fat[c] = EOC /\ \A d \in DataClusters : g.own[d] = GrowTag => d = c
  BY <1>1, <1>3, <1>6 DEF Unlinked
<1>10. Joins(v, g, v2, g2, p, c)
  BY <1>3, <1>5, <1>6, <1>7, <1>8, <1>9 DEF Joins
<1>11. Volume(v2, g2, {}, {}, c)
  <2>1. EntryAt(v, g.own[p]).isdir
    BY <1>3, <1>4, <1>5
  <2> QED  BY <1>1, <1>8, <1>10, <2>1, JoinEntry
<1>12. /\ p # c
       /\ g2.own[c] = g.own[p] /\ g2.pos[c] = g.pos[p] + 1
       /\ \A d \in DataClusters : d # c => g2.own[d] = g.own[d] /\ g2.pos[d] = g.pos[d]
  BY <1>1, <1>10, JoinFacts DEF Volume
<1>13. v2.root = v.root /\ v2.data = v.data
  BY DEF FatSet
<1>14. DirOK(v2, g2, o.dir)
  <2>1. \A d \in DataClusters : g.own[d] \in Loc =>
          g2.own[d] = g.own[d] /\ g2.pos[d] = g.pos[d]
    BY <1>3, <1>6, <1>12, Tags
  <2> QED  BY <1>4, <1>13, <2>1, FatKept
<1>15. NewDir(v, g, o.d.first, o.dir) => NewDir(v2, g2, o.d.first, o.dir)
  BY <1>3, <1>6, <1>8, <1>12, <1>13, Tags DEF NewDir, NewCluster, NewHead
<1>16. o2 \in OpType
  BY <1>1 DEF OpType, Labels
<1>17. SameCall(o, o2) /\ o2.pc = "grow_zero" /\ o2.d = o.d /\ o2.what = o.what
      /\ o2.dir = o.dir /\ o2.c = c
  BY <1>1, <1>6 DEF OpType, SameCall
<1>18. Creating(v2, g2, o2)
  BY <1>1, <1>14, <1>15, <1>17, CreatingGoesOn
<1>19. g2.own[c] = g2.own[o.dir] /\ g2.pos[c] # 0
  <2>1. o.dir # c
    BY <1>3, <1>4, <1>6, Tags
  <2>2. g.pos[p] \in Nat
    BY <1>1, <1>3, <1>5 DEF Volume, Owners
  <2> QED  BY <1>3, <1>4, <1>5, <1>12, <2>1, <2>2
<1>20. AtCreate(v2, g2, o2)
  BY <1>3, <1>6, <1>17, <1>18, <1>19 DEF AtCreate
<1>21. Torn(o2) = {} /\ Resized(o2) = {} /\ Raw(o2) = c
  BY <1>17, ByLabel
<1>22. OwnChain(g2, o.d.first) /\ NoTag(g2, GrowTag)
  BY <1>1, <1>8, <1>9, <1>12, Tags DEF OwnChain, NoTag
<1>23. OwnChain(g2, HeadOf(o2)) /\ Unlinked(v2, g2, GrowOf(o2))
  <2>1. HeadOf(o2) = o.d.first /\ GrowOf(o2) = 0
    BY <1>17, HeadByLabel
  <2> QED  BY <1>22, <2>1, GrowFree
<1>24. Progress(v2, g2, o2)
  BY <1>1, <1>16, <1>17, <1>20, <1>23, OtherLabels DEF Progress
<1> QED  BY <1>11, <1>21, <1>24 DEF Consistent

(* The cluster is zeroed and the directory is in order again.              *)
LEMMA GrowZeroStep ==
  ASSUME NEW v, NEW g, NEW o, Consistent(v, g, o), o.pc = "grow_zero",
         NEW v2, DataSet(v, v2, o.c, ZeroDir),
         NEW o2, o2 = [o EXCEPT !.loc = [c |-> o.c, i |-> 0], !.pc = "create"]
  PROVE  Consistent(v2, g, o2)
<1>1. /\ Creating(v, g, o) /\ o \in OpType /\ o.what \in Calls
      /\ OwnChain(g, o.d.first) /\ Volume(v, g, {}, {}, o.c) /\ NoTag(g, GrowTag)
  BY CreateFacts
<1>2. AtCreate(v, g, o)
  BY DEF Consistent, Progress
<1>3. o.dir # ROOT /\ o.c \in DataClusters /\ g.own[o.c] = g.own[o.dir] /\ g.pos[o.c] # 0
  BY <1>2 DEF AtCreate
<1>4. /\ DirOK(v, g, o.dir) /\ o.dir \in DataClusters /\ g.own[o.dir] \in Loc
      /\ DirCluster(v, g, o.dir) /\ g.pos[o.dir] = 0
  BY <1>1, <1>3 DEF Creating, DirOK, DirCluster
<1>5. PICK c \in DataClusters : c = o.c
  BY <1>3
<1>6. Volume(v2, g, {}, {}, 0)
  <2>1. {} \subseteq Loc
    OBVIOUS
  <2>2. NoEntries(ZeroDir)
    BY ZeroDirBlock
  <2>3. PICK b : b = ZeroDir
    OBVIOUS
  <2> QED  BY <1>1, <1>3, <1>5, <2>1, <2>2, <2>3, DataWrite
<1>7. DirOK(v2, g, o.dir) /\ DirCluster(v2, g, o.dir)
  BY <1>1, <1>4, <1>5, DataKept
<1>8. PICK l : l = [c |-> o.c, i |-> 0]
  OBVIOUS
<1>9. l \in Loc /\ l.c = c /\ l.i = 0
  <2>1. 0 \in DirIndex
    BY Measures DEF DirIndex
  <2> QED  BY <1>5, <1>8, <2>1 DEF Loc
<1>10. EntryAt(v2, l) = FreeEntry /\ ~Used(EntryAt(v2, l))
  <2>1. v2.data[c] = ZeroDir
    BY <1>5 DEF DataSet
  <2>2. 0 \in DirIndex
    BY Measures DEF DirIndex
  <2>3. l.c # ROOT
    BY <1>9, ClusterNumbers
  <2>4. EntryAt(v2, l) = ZeroDir[0]
    BY <1>9, <2>1, <2>3 DEF EntryAt
  <2> QED  BY <2>2, <2>4, ZeroDirBlock
<1>11. Slot(v2, g, 0, l) /\ Home(v2, g, l) = o.dir
  <2>1. DirCluster(v2, g, c) /\ c # ROOT /\ c # 0
    BY <1>3, <1>5, <1>7, ClusterNumbers DEF DirCluster
  <2>2. EntryAt(v2, g.own[o.dir]).first = o.dir
    BY <1>4, <1>6 DEF Volume, Owned
  <2> QED  BY <1>3, <1>5, <1>9, <2>1, <2>2 DEF Slot, Home
<1>12. NewDir(v, g, o.d.first, o.dir) => NewDir(v2, g, o.d.first, o.dir)
  <2>1. g.own[c] # NewTag
    BY <1>3, <1>4, <1>5, Tags
  <2>2. \A d \in DataClusters : d # c => v2.data[d] = v.data[d]
    BY <1>5 DEF DataSet
  <2> QED  BY <2>1, <2>2 DEF NewDir, NewCluster, NewHead
<1>13. o2 \in OpType
  BY <1>1, <1>8, <1>9 DEF OpType, Labels
<1>14. SameCall(o, o2) /\ o2.pc = "create" /\ o2.d = o.d /\ o2.what = o.what
      /\ o2.dir = o.dir /\ o2.loc = l
  BY <1>1, <1>8 DEF OpType, SameCall
<1>15. Creating(v2, g, o2)
  BY <1>1, <1>7, <1>12, <1>14, CreatingGoesOn
<1>16. AtCreate(v2, g, o2)
  BY <1>10, <1>11, <1>14, <1>15 DEF AtCreate
<1>17. Torn(o2) = {} /\ Resized(o2) = {} /\ Raw(o2) = 0
  BY <1>14, ByLabel
<1>18. OwnChain(g, HeadOf(o2)) /\ Unlinked(v2, g, GrowOf(o2))
  <2>1. HeadOf(o2) = o2.d.first
    BY <1>14, HeadByLabel
  <2>2. Unlinked(v2, g, GrowOf(o2))
    BY <1>1, GrowFree
  <2> QED  BY <1>1, <1>14, <2>1, <2>2
<1>19. Progress(v2, g, o2)
  BY <1>1, <1>13, <1>14, <1>16, <1>18, OtherLabels DEF Progress
<1> QED  BY <1>6, <1>17, <1>19 DEF Consistent

(* The owners after an entry has been written to l.                        *)
HandedTo(g, l) ==
  [own |-> [c \in DataClusters |-> IF g.own[c] = NewTag THEN l ELSE g.own[c]],
   pos |-> g.pos,
   lvl |-> [c \in DataClusters |-> IF g.own[c] = NewTag THEN Depth(g, l) ELSE g.lvl[c]]]

(* HandedTo gives the chain away, and the call keeps nothing.              *)
LEMMA HandedToIs ==
  ASSUME NEW g, NEW l \in Loc, NEW g2, g2 = HandedTo(g, l)
  PROVE  /\ Handed(g, g2, l)
         /\ NoTag(g2, NewTag)
         /\ NoTag(g, GrowTag) => NoTag(g2, GrowTag)
<1>1. Handed(g, g2, l)
  BY DEF HandedTo, Handed
<1>2. NoTag(g2, NewTag)
  BY <1>1, Tags DEF Handed, NoTag
<1>3. NoTag(g, GrowTag) => NoTag(g2, GrowTag)
  BY <1>1, Tags DEF Handed, NoTag
<1> QED  BY <1>1, <1>2, <1>3

(* Nobody owns a location that is given up, unused, or an empty file.      *)
LEMMA Unowned ==
  ASSUME NEW v, NEW g, NEW t, NEW z, Volume(v, g, t, z, 0), NEW l \in Loc,
         ~Used(EntryAt(v, l)) \/ l \in t \/ EntryAt(v, l).first = 0
  PROVE  \A c \in DataClusters : g.own[c] # l
<1>1. ASSUME NEW c \in DataClusters, g.own[c] = l  PROVE FALSE
  <2>1. Alive(v, g, 0, l) /\ l \notin t
    BY <1>1 DEF Volume, Owned
  <2>2. PICK h \in DataClusters : g.own[h] = l /\ g.pos[h] = 0
    BY <1>1, HeadExists, Tags DEF Volume
  <2>3. EntryAt(v, l).first = h
    BY <2>2 DEF Volume, Owned
  <2> QED  BY <2>1, <2>2, <2>3, ClusterNumbers DEF Alive
<1> QED  BY <1>1

(* The new entry of fs_create or fs_mkdir.                                 *)
LEMMA CreatePuts ==
  ASSUME NEW v, NEW g, NEW o, Consistent(v, g, o), o.pc = "create",
         NEW v2, EntrySet(v, v2, o.loc, o.d), NEW g2, g2 = HandedTo(g, o.loc)
  PROVE  /\ Volume(v2, g2, {}, {}, 0) /\ NoTag(g2, NewTag) /\ NoTag(g2, GrowTag)
         /\ DirOK(v2, g2, o.dir)
<1>1. /\ Creating(v, g, o) /\ o \in OpType /\ o.what \in Calls /\ o.d \in Dirent /\ o.loc \in Loc
      /\ OwnChain(g, o.d.first) /\ Volume(v, g, {}, {}, 0) /\ NoTag(g, GrowTag)
  BY CreateFacts
<1>2. AtCreate(v, g, o)
  BY DEF Consistent, Progress
<1>3. Slot(v, g, 0, o.loc) /\ ~Used(EntryAt(v, o.loc)) /\ Home(v, g, o.loc) = o.dir
  BY <1>2 DEF AtCreate
<1>4. PICK l \in Loc : l = o.loc
  BY <1>1
<1>5. PICK e \in Dirent : e = o.d
  BY <1>1
<1>6. Handed(g, g2, l) /\ NoTag(g2, NewTag) /\ NoTag(g2, GrowTag)
  BY <1>1, <1>4, HandedToIs
<1>7. \A c \in DataClusters : g.own[c] # l
  BY <1>1, <1>3, <1>4, Unowned
<1>8. \A c \in DataClusters : g2.own[c] = l <=> g.own[c] = NewTag
  BY <1>6, <1>7 DEF Handed
<1>9. Fits(v, g, g2, l, e)
  <2>1. CASE o.what # "fs_mkdir"
    <3>1. e.first = 0 /\ e = NewEntry(o.leaf, o.what = "fs_mkdir", e.first) /\ o.leaf \in Names
      BY <1>1, <1>5, <2>1 DEF Creating
    <3>2. e.name \in Names /\ ~e.isdir /\ e.size = 0
      <4>1. (o.what = "fs_mkdir") = FALSE
        BY <2>1
      <4>2. PICK f : f = e.first
        OBVIOUS
      <4>3. e = NewEntry(o.leaf, FALSE, f)
        BY <3>1, <4>1, <4>2
      <4> QED  BY <3>1, <4>3 DEF NewEntry
    <3>3. NoTag(g, NewTag)
      BY <1>1, <1>5, <3>1, NoOwn, MarkNumbers
    <3> QED  BY <1>8, <3>1, <3>2, <3>3 DEF Fits, NoTag
  <2>2. CASE o.what = "fs_mkdir"
    <3>1. /\ e = NewEntry(o.leaf, o.what = "fs_mkdir", e.first) /\ o.leaf \in Names
          /\ NewDir(v, g, e.first, o.dir)
      BY <1>1, <1>5, <2>2 DEF Creating
    <3>2. e.name \in Names /\ e.isdir
      <4>1. (o.what = "fs_mkdir") = TRUE
        BY <2>2
      <4>2. PICK f : f = e.first
        OBVIOUS
      <4>3. e = NewEntry(o.leaf, TRUE, f)
        BY <3>1, <4>1, <4>2
      <4> QED  BY <3>1, <4>3 DEF NewEntry
    <3>3. /\ e.first \in DataClusters /\ g.own[e.first] = NewTag /\ g.pos[e.first] = 0
          /\ \A d \in DataClusters : g.own[d] = NewTag => d = e.first
          /\ v.data[e.first] \in DirBlock
          /\ v.data[e.first][0] = NewEntry(".", TRUE, e.first)
          /\ v.data[e.first][1] = NewEntry("..", TRUE, o.dir)
      BY <3>1 DEF NewDir, NewCluster, NewHead
    <3>4. g2.pos = g.pos
      BY <1>6 DEF Handed
    <3> QED  BY <1>3, <1>4, <1>8, <3>2, <3>3, <3>4 DEF Fits
  <2> QED  BY <2>1, <2>2
<1>10. KeepsChain(v, g, l, e)
  BY <1>7 DEF KeepsChain
<1>11. ~IsDot(EntryAt(v, l))
  BY <1>3, <1>4 DEF Used, IsDot
<1>12. Puts(v, g, v2, g2, l, e)
  BY <1>3, <1>4, <1>5, <1>6, <1>9, <1>10, <1>11 DEF Puts
<1>13. Volume(v2, g2, {}, {}, 0)
  <2>1. PICK t : t = {}
    OBVIOUS
  <2>2. t \subseteq {l} /\ Volume(v, g, t, t, 0)
    BY <1>1, <2>1
  <2>3. Volume(v2, g2, {}, {}, 0)
    BY <1>12, <2>2, PutEntry
  <2> QED  BY <2>3
<1>14. \A c \in DataClusters : DirCluster(v, g, c) => DirCluster(v2, g2, c)
  BY <1>1, <1>12, PutDirs
<1>15. DirOK(v2, g2, o.dir)
  <2>1. DirOK(v, g, o.dir) /\ g2.pos = g.pos
    BY <1>1, <1>6 DEF Creating, Handed
  <2> QED  BY <1>14, <2>1 DEF DirOK
<1> QED  BY <1>6, <1>13, <1>15

(* The new entry is written, and owns what the call had built for it.      *)
LEMMA CreateStep ==
  ASSUME NEW v, NEW g, NEW o, Consistent(v, g, o), o.pc = "create",
         NEW v2, EntrySet(v, v2, o.loc, o.d),
         NEW o2,
         \/ o2 = Idle
         \/ /\ o.what \in {"fs_write", "fs_append"}
            /\ o2 = [o EXCEPT !.pc = "start", !.prev = 0, !.c = 0]
  PROVE  \E g2 : Consistent(v2, g2, o2)
<1>0. PICK g2 : g2 = HandedTo(g, o.loc)
  OBVIOUS
<1>1. /\ Volume(v2, g2, {}, {}, 0) /\ NoTag(g2, NewTag) /\ NoTag(g2, GrowTag)
      /\ DirOK(v2, g2, o.dir)
  BY <1>0, CreatePuts
<1>2. CASE o2 = Idle
  BY <1>1, <1>2, IdleOK
<1>3. CASE /\ o.what \in {"fs_write", "fs_append"}
           /\ o2 = [o EXCEPT !.pc = "start", !.prev = 0, !.c = 0]
  <2>1. Creating(v, g, o) /\ o \in OpType /\ o.what \in Calls
    BY CreateFacts
  <2>2. o2 \in OpType
    BY <1>3, <2>1 DEF OpType, Labels
  <2>3. /\ o2.what = o.what /\ o2.pc = "start" /\ o2.dir = o.dir /\ o2.leaf = o.leaf
        /\ o2.first = o.first /\ o2.prev = 0 /\ o2.c = 0 /\ o2.written = o.written /\ o2.res = o.res
    BY <1>3, <2>1 DEF OpType
  <2>4. AtStart(v2, g2, o2)
    BY <1>1, <1>3, <2>1, <2>3 DEF AtStart, Creating
  <2>5. Torn(o2) = {} /\ Resized(o2) = {} /\ Raw(o2) = 0
    BY <2>3, ByLabel
  <2>6. OwnChain(g2, HeadOf(o2)) /\ Unlinked(v2, g2, GrowOf(o2))
    BY <1>1, TagFree
  <2>7. Progress(v2, g2, o2)
    BY <2>1, <2>2, <2>3, <2>4, <2>6, OtherLabels DEF Progress
  <2> QED  BY <1>1, <2>5, <2>7 DEF Consistent
<1> QED  BY <1>2, <1>3

-----------------------------------------------------------------------------
(* The last write of a call.                                               *)

(* What a call can rely on before its last write.                          *)
LEMMA EntryFacts ==
  ASSUME NEW v, NEW g, NEW o, Consistent(v, g, o), o.pc = "entry"
  PROVE  /\ o \in OpType /\ o.d \in Dirent /\ o.loc \in Loc
         /\ Volume(v, g, Torn(o), Resized(o), 0)
         /\ OwnChain(g, o.d.first) /\ NoTag(g, GrowTag) /\ AtEntry(v, g, o)
         /\ Alive(v, g, 0, o.loc)
<1>1. Raw(o) = 0 /\ HeadOf(o) = o.d.first /\ GrowOf(o) = 0
  BY ByLabel, HeadByLabel
<1>2. /\ o \in OpType /\ Volume(v, g, Torn(o), Resized(o), 0)
      /\ OwnChain(g, o.d.first) /\ Unlinked(v, g, 0) /\ AtEntry(v, g, o)
  BY <1>1 DEF Consistent, Progress
<1>3. NoTag(g, GrowTag)
  BY <1>2, NoGrow
<1>4. o.d \in Dirent /\ o.loc \in Loc
  BY <1>2 DEF OpType
<1>5. Alive(v, g, 0, o.loc)
  BY <1>2 DEF AtEntry
<1> QED  BY <1>2, <1>3, <1>4, <1>5

(* The entry of a file describes the chain that the call has built.        *)
BuiltFile(v, g, e) ==
  /\ e.name \in Names /\ ~e.isdir
  /\ \/ e.first = 0 /\ e.size = 0
     \/ /\ e.first \in DataClusters /\ g.own[e.first] = NewTag /\ g.pos[e.first] = 0
        /\ e.size # 0 /\ EndsAt(v, g, NewTag, LastPos(e.size))

(* The entry of a chain that the call has built fits the slot of an entry  *)
(* without one.                                                            *)
LEMMA FitsBuilt ==
  ASSUME NEW v, NEW g, NEW t, NEW z, NEW l \in Loc, NEW e, NEW g2, Volume(v, g, t, z, 0),
         BuiltFile(v, g, e), OwnChain(g, e.first), Handed(g, g2, l),
         \A c \in DataClusters : g.own[c] # l
  PROVE  Fits(v, g, g2, l, e) /\ KeepsChain(v, g, l, e)
<1>1. \A c \in DataClusters : g2.own[c] = l <=> g.own[c] = NewTag
  BY DEF Handed
<1>2. g2.pos = g.pos
  BY DEF Handed
<1>3. CASE e.first = 0 /\ e.size = 0
  <2>1. NoTag(g, NewTag)
    BY <1>3, NoOwn, MarkNumbers
  <2> QED  BY <1>1, <1>3, <2>1 DEF Fits, NoTag, BuiltFile, KeepsChain
<1>4. CASE /\ e.first \in DataClusters /\ g.own[e.first] = NewTag /\ g.pos[e.first] = 0
           /\ e.size # 0 /\ EndsAt(v, g, NewTag, LastPos(e.size))
  <2>1. EndsAt(v, g2, l, LastPos(e.size))
    BY <1>1, <1>2, <1>4 DEF EndsAt
  <2> QED  BY <1>1, <1>2, <1>4, <2>1 DEF Fits, BuiltFile, KeepsChain
<1> QED  BY <1>3, <1>4 DEF BuiltFile

(* The chain of the entry stays as it is: what Fits asks of each kind.     *)
LEMMA FitsKept ==
  ASSUME NEW v, NEW g, NEW l \in Loc, NEW e \in Dirent, NEW g2,
         Volume(v, g, {}, {}, 0), Alive(v, g, 0, l),
         e.name \in Names, e.first = EntryAt(v, l).first, e.isdir = EntryAt(v, l).isdir,
         e.size = EntryAt(v, l).size,
         OwnChain(g, e.first), Handed(g, g2, l)
  PROVE  Fits(v, g, g2, l, e) /\ KeepsChain(v, g, l, e)
<1>0. Owners(g) /\ Linked(v, g) /\ Blocks(v, g, 0) /\ Heads(v, g, {}, 0)
      /\ Dots(v, g, {}, 0) /\ Sized(v, g, {}, {}, 0)
  BY DEF Volume
<1>1. \/ e.first = 0 /\ ~e.isdir
      \/ e.first \in DataClusters /\ g.own[e.first] = l /\ g.pos[e.first] = 0
  BY <1>0 DEF Heads
<1>2. \A c \in DataClusters : g.own[c] # NewTag
  <2>1. e.first \in DataClusters => g.own[e.first] # NewTag
    BY <1>1, Tags, MarkNumbers
  <2> QED  BY <1>0, <2>1, NoNew
<1>3. g2.pos = g.pos /\ \A c \in DataClusters : g2.own[c] = g.own[c]
  BY <1>2 DEF Handed
<1>4. KeepsChain(v, g, l, e)
  BY <1>2 DEF KeepsChain
<1>5. CASE e.first = 0 /\ ~e.isdir
  <2>1. \A c \in DataClusters : g.own[c] # l
    BY <1>5, Unowned
  <2>2. e.size = 0
    BY <1>0, <1>5 DEF Sized
  <2> QED  BY <1>3, <1>4, <1>5, <2>1, <2>2 DEF Fits
<1>6. CASE e.first \in DataClusters /\ g.own[e.first] = l /\ g.pos[e.first] = 0
  <2>1. ASSUME ~e.isdir  PROVE e.size # 0 /\ EndsAt(v, g2, l, LastPos(e.size))
    <3>1. e.size # 0 /\ EndsAt(v, g, l, LastPos(e.size))
      BY <1>0, <1>6, <2>1, MarkNumbers DEF Sized
    <3> QED  BY <1>3, <3>1 DEF EndsAt
  <2>2. ASSUME e.isdir
        PROVE  /\ \A c \in DataClusters : g2.own[c] = l => v.data[c] \in DirBlock
               /\ v.data[e.first][0] = NewEntry(".", TRUE, e.first)
               /\ v.data[e.first][1] = NewEntry("..", TRUE, Home(v, g, l))
    <3>1. ASSUME NEW c \in DataClusters, g2.own[c] = l  PROVE v.data[c] \in DirBlock
      <4>1. DirCluster(v, g, c) /\ c # 0
        BY <1>3, <2>2, <3>1, ClusterNumbers DEF DirCluster
      <4> QED  BY <1>0, <4>1 DEF Blocks
    <3>2. /\ v.data[e.first][0] = NewEntry(".", TRUE, e.first)
          /\ v.data[e.first][1] = NewEntry("..", TRUE, Home(v, g, l))
      BY <1>0, <2>2 DEF Dots
    <3> QED  BY <3>1, <3>2
  <2> QED  BY <1>3, <1>4, <1>6, <2>1, <2>2 DEF Fits
<1> QED  BY <1>1, <1>4, <1>5, <1>6

(* A file that has grown on its own chain.                                 *)
LEMMA FitsGrown ==
  ASSUME NEW v, NEW g, NEW z, NEW l \in Loc, NEW e \in Dirent, NEW g2,
         Volume(v, g, {}, z, 0), Alive(v, g, 0, l), ~EntryAt(v, l).isdir,
         e.name \in Names, ~e.isdir, e.first \in DataClusters, e.size # 0,
         g.own[e.first] = l, g.pos[e.first] = 0, EndsAt(v, g, l, LastPos(e.size)),
         OwnChain(g, e.first), Handed(g, g2, l)
  PROVE  Fits(v, g, g2, l, e) /\ KeepsChain(v, g, l, e)
<1>0. Owners(g) /\ Linked(v, g) /\ Owned(v, g, {}, 0)
  BY DEF Volume
<1>1. EntryAt(v, l).first = e.first
  BY <1>0 DEF Owned
<1>2. \A c \in DataClusters : g.own[c] # NewTag
  <2>1. g.own[e.first] # NewTag
    BY Tags
  <2> QED  BY <1>0, <2>1, NoNew
<1>3. g2.pos = g.pos /\ \A c \in DataClusters : g2.own[c] = g.own[c]
  BY <1>2 DEF Handed
<1>4. e.isdir = EntryAt(v, l).isdir
  <2>1. EntryAt(v, l) \in Dirent
    BY SlotEntry DEF Alive, Volume
  <2>2. EntryAt(v, l).isdir \in BOOLEAN /\ e.isdir \in BOOLEAN
    BY <2>1 DEF Dirent
  <2> QED  BY <2>2
<1>5. KeepsChain(v, g, l, e)
  BY <1>1, <1>2, <1>4 DEF KeepsChain
<1>6. EndsAt(v, g2, l, LastPos(e.size))
  BY <1>3 DEF EndsAt
<1> QED  BY <1>3, <1>5, <1>6 DEF Fits

(* Every call's last write fits: the entry goes back with the chain it had *)
(* or the one the call has built.                                          *)
LEMMA WriteBackFits ==
  ASSUME NEW v, NEW g, NEW o, Consistent(v, g, o), o.pc = "entry",
         NEW g2, Handed(g, g2, o.loc)
  PROVE  Fits(v, g, g2, o.loc, o.d) /\ KeepsChain(v, g, o.loc, o.d)
<1>1. /\ o \in OpType /\ o.d \in Dirent /\ o.loc \in Loc
      /\ Volume(v, g, Torn(o), Resized(o), 0)
      /\ OwnChain(g, o.d.first) /\ AtEntry(v, g, o)
      /\ Alive(v, g, 0, o.loc)
  BY EntryFacts
<1>2. PICK l \in Loc : l = o.loc
  BY <1>1
<1>3. PICK e \in Dirent : e = o.d
  BY <1>1
<1>4. CASE o.what \in {"fs_delete", "fs_rmdir"}
  <2>1. e.name = "deleted" /\ e.first = 0 /\ Torn(o) = {l}
    BY <1>1, <1>2, <1>3, <1>4, ByLabel DEF AtEntry
  <2>2. \A c \in DataClusters : g.own[c] # l
    BY <1>1, <2>1, Unowned
  <2>3. NoTag(g, NewTag)
    BY <1>1, <1>3, <2>1, NoOwn, MarkNumbers
  <2>4. \A c \in DataClusters : g2.own[c] # l
    BY <1>2, <2>2, <2>3 DEF Handed, NoTag
  <2> QED  BY <1>2, <1>3, <2>1, <2>2, <2>4 DEF Fits, KeepsChain, Used
<1>5. CASE o.what = "fs_rename"
  <2>1. /\ e.name \in Names /\ e.first = EntryAt(v, l).first /\ e.isdir = EntryAt(v, l).isdir
        /\ e.size = EntryAt(v, l).size /\ Torn(o) = {} /\ Resized(o) = {}
    BY <1>1, <1>2, <1>3, <1>5, ByLabel DEF AtEntry
  <2>2. Volume(v, g, {}, {}, 0) /\ Alive(v, g, 0, l) /\ OwnChain(g, e.first) /\ Handed(g, g2, l)
    BY <1>1, <1>2, <1>3, <2>1
  <2>3. Fits(v, g, g2, l, e) /\ KeepsChain(v, g, l, e)
    BY <2>1, <2>2, FitsKept
  <2> QED  BY <1>2, <1>3, <2>3
<1>6. CASE o.what \in {"fs_write", "fs_append"}
  <2>1. /\ e.name \in Names /\ ~e.isdir /\ ~EntryAt(v, l).isdir
        /\ \/ e.first = 0 /\ e.size = 0 /\ Target(v, o) = NewTag
           \/ /\ e.first \in DataClusters /\ g.own[e.first] = Target(v, o)
              /\ g.pos[e.first] = 0 /\ e.size # 0
              /\ EndsAt(v, g, Target(v, o), LastPos(e.size))
    BY <1>1, <1>2, <1>3, <1>6 DEF AtEntry
  <2>2. CASE Target(v, o) = NewTag
    <3>1. BuiltFile(v, g, e)
      BY <2>1, <2>2 DEF BuiltFile
    <3>2. l \in Torn(o) \/ EntryAt(v, l).first = 0
      <4>1. CASE o.what = "fs_write"
        BY <1>2, <4>1, ByLabel
      <4>2. CASE o.what = "fs_append"
        BY <1>2, <2>2, <4>2, Tags DEF Target
      <4> QED  BY <1>6, <4>1, <4>2
    <3>3. \A c \in DataClusters : g.own[c] # l
      BY <1>1, <3>2, Unowned
    <3>4. Fits(v, g, g2, l, e) /\ KeepsChain(v, g, l, e)
      BY <1>1, <1>2, <1>3, <3>1, <3>3, FitsBuilt
    <3> QED  BY <1>2, <1>3, <3>4
  <2>3. CASE Target(v, o) # NewTag
    <3>1. Target(v, o) = l /\ o.what = "fs_append"
      BY <1>2, <2>3 DEF Target
    <3>2. /\ e.first \in DataClusters /\ g.own[e.first] = l
          /\ g.pos[e.first] = 0 /\ e.size # 0
          /\ EndsAt(v, g, l, LastPos(e.size))
      BY <2>1, <2>3, <3>1
    <3>3. Torn(o) = {}
      BY <3>1, ByLabel
    <3>4. Volume(v, g, {}, Resized(o), 0) /\ Alive(v, g, 0, l) /\ OwnChain(g, e.first)
          /\ Handed(g, g2, l)
      BY <1>1, <1>2, <1>3, <3>3
    <3>5. Fits(v, g, g2, l, e) /\ KeepsChain(v, g, l, e)
      BY <2>1, <3>2, <3>4, FitsGrown
    <3> QED  BY <1>2, <1>3, <3>5
  <2> QED  BY <2>2, <2>3
<1> QED  BY <1>1, <1>4, <1>5, <1>6 DEF AtEntry

(* The last write of a call leaves a volume in order.                      *)
LEMMA WriteBackStep ==
  ASSUME NEW v, NEW g, NEW o, Consistent(v, g, o), o.pc = "entry",
         NEW v2, EntrySet(v, v2, o.loc, o.d)
  PROVE  \E g2 : Consistent(v2, g2, Idle)
<1>1. /\ o.d \in Dirent /\ o.loc \in Loc
      /\ Volume(v, g, Torn(o), Resized(o), 0)
      /\ NoTag(g, GrowTag) /\ Alive(v, g, 0, o.loc)
  BY EntryFacts
<1>2. PICK g2 : g2 = HandedTo(g, o.loc)
  OBVIOUS
<1>3. Handed(g, g2, o.loc) /\ NoTag(g2, NewTag) /\ NoTag(g2, GrowTag)
  BY <1>1, <1>2, HandedToIs
<1>4. Fits(v, g, g2, o.loc, o.d) /\ KeepsChain(v, g, o.loc, o.d)
  BY <1>3, WriteBackFits
<1>5. Puts(v, g, v2, g2, o.loc, o.d)
  BY <1>1, <1>3, <1>4 DEF Puts, Alive
<1>6. Torn(o) \subseteq {o.loc} /\ Resized(o) \subseteq {o.loc}
  BY DEF Torn, Resized
<1>7. Volume(v2, g2, {}, {}, 0)
  BY <1>1, <1>5, <1>6, PutEntry
<1> QED  BY <1>3, <1>7, IdleOK

-----------------------------------------------------------------------------
(* fat_free_chain and what follows it.                                     *)

(* What holds while fat_free_chain runs.                                   *)
LEMMA FreeFacts ==
  ASSUME NEW v, NEW g, NEW o, Consistent(v, g, o), o.pc = "free"
  PROVE  /\ o \in OpType /\ o.d \in Dirent /\ o.loc \in Loc /\ o.what \in Calls
         /\ Volume(v, g, Torn(o), Resized(o), 0) /\ Torn(o) \subseteq Loc
         /\ OwnChain(g, o.c) /\ NoTag(g, GrowTag) /\ AtFree(v, g, o)
<1>1. Progress(v, g, o) /\ Volume(v, g, Torn(o), Resized(o), Raw(o))
  BY DEF Consistent
<1>2. o \in OpType /\ OwnChain(g, HeadOf(o)) /\ Unlinked(v, g, GrowOf(o)) /\ AtFree(v, g, o)
  BY <1>1 DEF Progress
<1>3. o.d \in Dirent /\ o.loc \in Loc
  BY <1>2 DEF OpType
<1>4. HeadOf(o) = o.c /\ GrowOf(o) = 0 /\ Raw(o) = 0
  BY ByLabel, HeadByLabel
<1>5. NoTag(g, GrowTag)
  BY <1>2, <1>4, NoGrow
<1>6. o.what \in Calls
  BY <1>2 DEF AtFree, Calls
<1>7. Torn(o) \subseteq Loc
  BY <1>3 DEF Torn
<1> QED  BY <1>1, <1>2, <1>3, <1>4, <1>5, <1>6, <1>7

(* fat_free_chain frees the first cluster that is left.                    *)
LEMMA FreeNextStep ==
  ASSUME NEW v, NEW g, NEW o, Consistent(v, g, o), o.pc = "free", IsData(o.c),
         NEW v2, FatSet(v, v2, o.c, FREE),
         NEW o2, o2 = [o EXCEPT !.c = v.fat[o.c]]
  PROVE  \E g2 : Consistent(v2, g2, o2)
<1>1. /\ o \in OpType /\ o.d \in Dirent /\ o.loc \in Loc /\ o.what \in Calls
      /\ Volume(v, g, Torn(o), Resized(o), 0) /\ Torn(o) \subseteq Loc
      /\ OwnChain(g, o.c) /\ NoTag(g, GrowTag) /\ AtFree(v, g, o)
  BY FreeFacts
<1>2. PICK c : c = o.c
  OBVIOUS
<1>3. NewHead(g, c) /\ c \in DataClusters /\ g.own[c] = NewTag
  BY <1>1, <1>2 DEF AtFree, HeadOrEnd, NewHead
<1>4. PICK g2 : g2 = [own |-> [g.own EXCEPT ![c] = Nobody],
                      pos |-> [d \in DataClusters |->
                        IF g.own[d] = NewTag /\ d # c THEN g.pos[d] - 1 ELSE g.pos[d]],
                      lvl |-> g.lvl]
  OBVIOUS
<1>5. Releases(v, g, v2, g2, c)
  BY <1>2, <1>3, <1>4 DEF Releases
<1>6. PICK t : t = Torn(o)
  OBVIOUS
<1>7. PICK z : z = Resized(o)
  OBVIOUS
<1>8. /\ Volume(v2, g2, t, z, 0)
      /\ OwnChain(g2, v.fat[c])
      /\ HeadOrEnd(g2, v.fat[c])
  BY <1>1, <1>5, <1>6, <1>7, Release
<1>9. v.fat[c] \in Nat
  <2>1. v.fat[c] = EOC \/ v.fat[c] \in DataClusters
    BY <1>1, <1>3, Tags DEF Volume, Linked
  <2> QED  BY <2>1, ClusterNumbers DEF EOC
<1>10. o2 \in OpType
  BY <1>1, <1>2, <1>9 DEF OpType
<1>11. /\ o2.what = o.what /\ o2.pc = "free" /\ o2.loc = o.loc /\ o2.d = o.d
       /\ o2.c = v.fat[c] /\ o2.first = o.first /\ o2.prev = o.prev
       /\ o2.written = o.written /\ o2.res = o.res
  BY <1>1, <1>2 DEF OpType
<1>12. NoTag(g2, GrowTag)
  BY <1>1, <1>3, <1>4, Tags DEF NoTag, Volume, Owners
<1>13. EntryAt(v2, o.loc) = EntryAt(v, o.loc)
  BY DEF FatSet, EntryAt
<1>14. AtFree(v2, g2, o2)
  BY <1>1, <1>8, <1>11, <1>13 DEF AtFree
<1>15. Torn(o2) = t /\ Resized(o2) = z /\ Raw(o2) = 0
  BY <1>6, <1>7, <1>11 DEF Torn, Resized, Raw, Freeing, Appending
<1>16. OwnChain(g2, HeadOf(o2)) /\ Unlinked(v2, g2, GrowOf(o2))
  <2>1. HeadOf(o2) = v.fat[c] /\ GrowOf(o2) = 0
    BY <1>11, HeadByLabel
  <2> QED  BY <1>8, <1>12, <2>1, GrowFree
<1>17. Progress(v2, g2, o2)
  BY <1>1, <1>10, <1>11, <1>14, <1>16, OtherLabels DEF Progress
<1> QED  BY <1>8, <1>15, <1>17 DEF Consistent

(* fat_free_chain is done.                                                 *)
LEMMA FreedFacts ==
  ASSUME NEW v, NEW g, NEW o, Consistent(v, g, o), o.pc = "free", ~IsData(o.c)
  PROVE  /\ NoTag(g, NewTag)
         /\ o.what # "fs_mkdir" =>
              /\ Torn(o) = {o.loc} /\ Resized(o) = {o.loc}
              /\ Alive(v, g, 0, o.loc)
<1>1. /\ o \in OpType
      /\ Volume(v, g, Torn(o), Resized(o), 0)
      /\ OwnChain(g, o.c) /\ AtFree(v, g, o)
  BY FreeFacts
<1>2. NoTag(g, NewTag)
  <2>1. PICK t : t = Torn(o)
    OBVIOUS
  <2>2. PICK z : z = Resized(o)
    OBVIOUS
  <2>3. PICK h : h = o.c
    OBVIOUS
  <2>4. Volume(v, g, t, z, 0) /\ OwnChain(g, h) /\ ~IsData(h)
    BY <1>1, <2>1, <2>2, <2>3
  <2> QED  BY <2>4, NoOwn
<1>3. ASSUME o.what # "fs_mkdir"
      PROVE  /\ Torn(o) = {o.loc} /\ Resized(o) = {o.loc}
             /\ Alive(v, g, 0, o.loc)
  <2>1. Torn(o) = {o.loc} /\ Resized(o) = {o.loc}
    BY <1>1, <1>3 DEF AtFree, Torn, Resized, Freeing
  <2>2. GivenUp(v, g, Torn(o), 0)
    BY <1>1 DEF Volume
  <2> QED  BY <2>1, <2>2 DEF GivenUp
<1> QED  BY <1>2, <1>3

(* fs_mkdir has freed its cluster again and fails.                         *)
LEMMA MkdirGivesUp ==
  ASSUME NEW v, NEW g, NEW o, Consistent(v, g, o), o.pc = "free", ~IsData(o.c),
         o.what = "fs_mkdir"
  PROVE  Consistent(v, g, Idle)
<1>1. Volume(v, g, Torn(o), Resized(o), 0) /\ NoTag(g, GrowTag) /\ NoTag(g, NewTag)
  BY FreeFacts, FreedFacts
<1>2. Torn(o) = {} /\ Resized(o) = {}
  BY ByLabel
<1> QED  BY <1>1, <1>2, IdleOK

(* The entry that fs_delete or fs_rmdir leaves.                            *)
LEMMA DeleteGoesOn ==
  ASSUME NEW v, NEW g, NEW o, Consistent(v, g, o), o.pc = "free", ~IsData(o.c),
         o.what \in {"fs_delete", "fs_rmdir"},
         NEW o2, o2 = [o EXCEPT !.d.name = "deleted", !.d.first = 0, !.d.size = 0,
                                !.pc = "entry"]
  PROVE  Consistent(v, g, o2)
<1>1. /\ o \in OpType /\ o.d \in Dirent /\ o.what \in Calls
      /\ Volume(v, g, Torn(o), Resized(o), 0) /\ NoTag(g, GrowTag)
  BY FreeFacts
<1>2. /\ NoTag(g, NewTag) /\ Torn(o) = {o.loc} /\ Resized(o) = {o.loc}
      /\ Alive(v, g, 0, o.loc)
  BY FreedFacts
<1>3. PICK e : e = [o.d EXCEPT !.name = "deleted", !.first = 0, !.size = 0]
  OBVIOUS
<1>4. e \in Dirent /\ e.name = "deleted" /\ e.first = 0
  BY <1>1, <1>3 DEF Dirent
<1>5. o2 = [o EXCEPT !.d = e, !.pc = "entry"]
  BY <1>1, <1>3 DEF OpType, Dirent
<1>6. o2 \in OpType
  <2>1. "entry" \in Labels
    BY DEF Labels
  <2> QED  BY <1>1, <1>4, <1>5, <2>1 DEF OpType
<1>7. o2.what = o.what /\ o2.pc = "entry" /\ o2.loc = o.loc /\ o2.d = e
  BY <1>1, <1>5 DEF OpType
<1>8. AtEntry(v, g, o2)
  BY <1>2, <1>4, <1>7 DEF AtEntry
<1>9. Torn(o2) = Torn(o) /\ Resized(o2) = Resized(o) /\ Raw(o2) = 0
  BY <1>2, <1>7, ByLabel
<1>10. OwnChain(g, HeadOf(o2)) /\ Unlinked(v, g, GrowOf(o2))
  BY <1>1, <1>2, TagFree
<1>11. Progress(v, g, o2)
  BY <1>1, <1>6, <1>7, <1>8, <1>10, OtherLabels DEF Progress
<1> QED  BY <1>1, <1>9, <1>11 DEF Consistent

(* fs_write goes on with an empty file.                                    *)
LEMMA WriteGoesOn ==
  ASSUME NEW v, NEW g, NEW o, Consistent(v, g, o), o.pc = "free", ~IsData(o.c),
         o.what = "fs_write",
         NEW o2, o2 = [o EXCEPT !.d.first = 0, !.d.size = 0,
                                !.pc = IF o.res = -1 \/ o.arg = <<>> THEN "entry" ELSE "alloc"]
  PROVE  Consistent(v, g, o2)
<1>1. /\ o \in OpType /\ o.d \in Dirent /\ o.what \in Calls
      /\ Volume(v, g, Torn(o), Resized(o), 0) /\ NoTag(g, GrowTag) /\ AtFree(v, g, o)
  BY FreeFacts
<1>2. /\ NoTag(g, NewTag) /\ Torn(o) = {o.loc} /\ Resized(o) = {o.loc}
      /\ Alive(v, g, 0, o.loc)
  BY FreedFacts
<1>3. PICK e : e = [o.d EXCEPT !.first = 0, !.size = 0]
  OBVIOUS
<1>4. /\ o.d.name \in Names /\ ~o.d.isdir /\ ~EntryAt(v, o.loc).isdir
      /\ o.res = -1 \/ (o.first = 0 /\ o.prev = 0 /\ o.written = 0)
  BY <1>1 DEF AtFree
<1>5. e \in Dirent /\ e.name \in Names /\ ~e.isdir /\ e.first = 0 /\ e.size = 0
  BY <1>1, <1>3, <1>4 DEF Dirent
<1>6. PICK p : p = IF o.res = -1 \/ o.arg = <<>> THEN "entry" ELSE "alloc"
  OBVIOUS
<1>7. p \in {"entry", "alloc"} /\ (p = "alloc" => o.res # -1 /\ o.arg # <<>>)
  BY <1>6
<1>8. o2 = [o EXCEPT !.d = e, !.pc = p]
  BY <1>1, <1>3, <1>6 DEF OpType, Dirent
<1>9. o2 \in OpType
  BY <1>1, <1>5, <1>7, <1>8 DEF OpType, Labels
<1>10. /\ o2.what = o.what /\ o2.pc = p /\ o2.loc = o.loc /\ o2.d = e /\ o2.first = o.first
       /\ o2.prev = o.prev /\ o2.written = o.written /\ o2.c = o.c /\ o2.arg = o.arg
       /\ o2.res = o.res
  BY <1>1, <1>8 DEF OpType
<1>11. Target(v, o2) = NewTag
  BY <1>10 DEF Target
<1>12. AtEntry(v, g, o2)
  BY <1>2, <1>4, <1>5, <1>10, <1>11 DEF AtEntry
<1>13. AtData(v, g, o2)
  <2>1. SUFFICES ASSUME p = "alloc"
                 PROVE  AtData(v, g, o2)
    BY <1>7, <1>10 DEF AtData
  <2>2. o.first = 0 /\ o.prev = 0 /\ o.written = 0 /\ o.res = 0
    BY <1>1, <1>4, <1>7, <2>1 DEF OpType
  <2>3. Len(o.arg) \in Nat
    BY <1>1 DEF OpType
  <2>4. e.size + o.written = 0
    BY <1>5, <2>2
  <2> QED  BY <1>2, <1>4, <1>5, <1>10, <1>11, <2>1, <2>2, <2>3, <2>4, NoSectors DEF AtData
<1>14. Torn(o2) = Torn(o) /\ Resized(o2) = Resized(o) /\ Raw(o2) = 0
  BY <1>2, <1>7, <1>10, ByLabel
<1>15. OwnChain(g, HeadOf(o2)) /\ Unlinked(v, g, GrowOf(o2))
  BY <1>1, <1>2, TagFree
<1>16. Progress(v, g, o2)
  BY <1>1, <1>7, <1>9, <1>10, <1>12, <1>13, <1>15, OtherLabels DEF Progress
<1> QED  BY <1>1, <1>14, <1>16 DEF Consistent

-----------------------------------------------------------------------------
(* The cluster loop of fs_write and fs_append.                             *)

(* What holds in the cluster loop of fs_write and fs_append.               *)
LEMMA DataFacts ==
  ASSUME NEW v, NEW g, NEW o, Consistent(v, g, o), o.pc \in {"alloc", "link", "fill"}
  PROVE  /\ o \in OpType /\ o.d \in Dirent /\ o.loc \in Loc /\ o.what \in Calls
         /\ o.what \in {"fs_write", "fs_append"}
         /\ Volume(v, g, Torn(o), Resized(o), 0)
         /\ Torn(o) \subseteq Loc /\ Resized(o) = {o.loc}
         /\ o.what = "fs_append" => Torn(o) = {}
         /\ OwnChain(g, o.first) /\ AtData(v, g, o)
         /\ o.pc # "link" => NoTag(g, GrowTag)
         /\ o.pc = "link" => Unlinked(v, g, o.c)
         /\ o.first \in Nat /\ o.prev \in Nat /\ o.c \in Nat
         /\ o.d.size \in Nat /\ o.written \in Nat /\ Len(o.arg) \in Nat
<1>1. Progress(v, g, o) /\ Volume(v, g, Torn(o), Resized(o), Raw(o))
  BY DEF Consistent
<1>2. o \in OpType /\ OwnChain(g, HeadOf(o)) /\ Unlinked(v, g, GrowOf(o)) /\ AtData(v, g, o)
  BY <1>1 DEF Progress
<1>3. /\ o.d \in Dirent /\ o.loc \in Loc /\ o.first \in Nat /\ o.prev \in Nat /\ o.c \in Nat
      /\ o.written \in Nat /\ Len(o.arg) \in Nat
  BY <1>2 DEF OpType
<1>4. /\ HeadOf(o) = o.first /\ Raw(o) = 0 /\ (o.pc # "link" => GrowOf(o) = 0)
      /\ (o.pc = "link" => GrowOf(o) = o.c)
  BY ByLabel, HeadByLabel
<1>5. o.pc # "link" => NoTag(g, GrowTag)
  BY <1>2, <1>4, NoGrow
<1>6. o.what \in {"fs_write", "fs_append"}
  BY <1>2 DEF AtData
<1>7. o.what \in Calls
  BY <1>6 DEF Calls
<1>8. /\ Torn(o) \subseteq Loc /\ Resized(o) = {o.loc}
      /\ o.what = "fs_append" => Torn(o) = {}
  BY <1>3, <1>6, ByLabel
<1>9. o.d.size \in Nat
  BY <1>3 DEF Dirent
<1> QED  BY <1>1, <1>2, <1>3, <1>4, <1>5, <1>6, <1>7, <1>8, <1>9

(* The same, with AtData taken apart: w is the owner of the chain that     *)
(* grows, and s the bytes that the file holds so far.                      *)
LEMMA DataParts ==
  ASSUME NEW v, NEW g, NEW o, Consistent(v, g, o), o.pc \in {"alloc", "link", "fill"},
         NEW w, w = Target(v, o), NEW s, s = o.d.size + o.written
  PROVE  /\ Alive(v, g, 0, o.loc) /\ ~EntryAt(v, o.loc).isdir
         /\ o.d.name \in Names /\ ~o.d.isdir
         /\ o.what = "fs_append" => o.d = EntryAt(v, o.loc)
         /\ o.what = "fs_write" => o.d.size = 0
         /\ o.written <= Len(o.arg) /\ o.res = 0
         /\ o.pc # "alloc" => o.written < Len(o.arg)
         /\ o.written < Len(o.arg) => Whole(s)
         /\ \/ o.pc = "alloc" /\ o.first = 0 /\ o.prev = 0 /\ s = 0 /\ w = NewTag
            \/ o.first \in DataClusters /\ g.own[o.first] = w /\ g.pos[o.first] = 0
         /\ o.pc \in {"alloc", "link"} /\ o.first # 0 =>
              /\ o.prev \in DataClusters /\ g.own[o.prev] = w /\ v.fat[o.prev] = EOC
              /\ s # 0 /\ EndsAt(v, g, w, LastPos(s))
         /\ o.pc = "link" => o.c \in DataClusters /\ g.own[o.c] = GrowTag
         /\ o.pc = "fill" =>
              /\ o.c \in DataClusters /\ g.own[o.c] = w /\ v.fat[o.c] = EOC
              /\ EndsAt(v, g, w, s \div BPS)
         /\ s \in Nat
         /\ \/ w = NewTag
            \/ w = o.loc /\ o.what = "fs_append" /\ EntryAt(v, o.loc).first # 0
         /\ w # GrowTag /\ w # Nobody
<1>1. AtData(v, g, o) /\ o.d.size \in Nat /\ o.written \in Nat /\ o.loc \in Loc
  BY DataFacts
<1>2. s \in Nat
  BY <1>1
<1>3. \/ w = NewTag
      \/ w = o.loc /\ o.what = "fs_append" /\ EntryAt(v, o.loc).first # 0
  BY DEF Target
<1>4. w # GrowTag /\ w # Nobody
  BY <1>1, <1>3, Tags
<1>5. o.first \in DataClusters => o.first # 0
  BY ClusterNumbers
<1> QED  BY <1>1, <1>2, <1>3, <1>4, <1>5 DEF AtData

(* The loop ends: the entry gets the first cluster and the size.           *)
LEMMA DataEnds ==
  ASSUME NEW v, NEW g, NEW o, Consistent(v, g, o), o.pc = "alloc", NEW r \in {0, -1},
         NEW o2, o2 = [o EXCEPT !.d.first = o.first, !.d.size = o.d.size + o.written,
                                !.res = r, !.pc = "entry"]
  PROVE  Consistent(v, g, o2)
<1>1. /\ o \in OpType /\ o.d \in Dirent /\ o.what \in Calls
      /\ o.what \in {"fs_write", "fs_append"}
      /\ Volume(v, g, Torn(o), Resized(o), 0)
      /\ OwnChain(g, o.first) /\ NoTag(g, GrowTag)
  BY DataFacts
<1>2. PICK w : w = Target(v, o)
  OBVIOUS
<1>3. PICK s : s = o.d.size + o.written
  OBVIOUS
<1>4. /\ Alive(v, g, 0, o.loc) /\ ~EntryAt(v, o.loc).isdir
      /\ o.d.name \in Names /\ ~o.d.isdir
      /\ \/ o.pc = "alloc" /\ o.first = 0 /\ o.prev = 0 /\ s = 0 /\ w = NewTag
         \/ o.first \in DataClusters /\ g.own[o.first] = w /\ g.pos[o.first] = 0
      /\ o.first # 0 => s # 0 /\ EndsAt(v, g, w, LastPos(s))
      /\ s \in Nat
  BY <1>2, <1>3, DataParts
<1>5. PICK e : e = [o.d EXCEPT !.first = o.first, !.size = s]
  OBVIOUS
<1>6. e \in Dirent /\ e.name = o.d.name /\ e.isdir = o.d.isdir /\ e.first = o.first /\ e.size = s
  BY <1>1, <1>4, <1>5 DEF Dirent
<1>7. o2 = [o EXCEPT !.d = e, !.res = r, !.pc = "entry"]
  BY <1>1, <1>3, <1>5 DEF OpType, Dirent
<1>8. o2 \in OpType
  BY <1>1, <1>6, <1>7 DEF OpType, Labels
<1>9. o2.what = o.what /\ o2.pc = "entry" /\ o2.loc = o.loc /\ o2.d = e
  BY <1>1, <1>7 DEF OpType
<1>10. Target(v, o2) = w
  BY <1>2, <1>9 DEF Target
<1>11. AtEntry(v, g, o2)
  <2>1. \/ e.first = 0 /\ e.size = 0 /\ Target(v, o2) = NewTag
        \/ /\ e.first \in DataClusters /\ g.own[e.first] = Target(v, o2)
           /\ g.pos[e.first] = 0 /\ e.size # 0
           /\ EndsAt(v, g, Target(v, o2), LastPos(e.size))
    BY <1>4, <1>6, <1>10, ClusterNumbers
  <2> QED  BY <1>1, <1>4, <1>6, <1>9, <2>1 DEF AtEntry
<1>12. Torn(o2) = Torn(o) /\ Resized(o2) = Resized(o) /\ Raw(o2) = 0
  BY <1>1, <1>9, ByLabel
<1>13. OwnChain(g, HeadOf(o2)) /\ Unlinked(v, g, GrowOf(o2))
  <2>1. HeadOf(o2) = o2.d.first /\ GrowOf(o2) = 0
    BY <1>9, HeadByLabel
  <2> QED  BY <1>1, <1>6, <1>9, <2>1, GrowFree
<1>14. Progress(v, g, o2)
  BY <1>1, <1>8, <1>9, <1>11, <1>13, OtherLabels DEF Progress
<1> QED  BY <1>1, <1>12, <1>14 DEF Consistent

(* The disk is full: fs_write frees what it has taken.                     *)
LEMMA WriteGivesUp ==
  ASSUME NEW v, NEW g, NEW o, Consistent(v, g, o), o.pc = "alloc", o.what = "fs_write",
         NEW o2, o2 = [o EXCEPT !.c = o.first, !.res = -1, !.pc = "free"]
  PROVE  Consistent(v, g, o2)
<1>1. /\ o \in OpType /\ o.d \in Dirent /\ o.what \in Calls /\ o.first \in Nat
      /\ Volume(v, g, Torn(o), Resized(o), 0)
      /\ OwnChain(g, o.first) /\ NoTag(g, GrowTag)
  BY DataFacts
<1>2. PICK w : w = Target(v, o)
  OBVIOUS
<1>3. PICK s : s = o.d.size + o.written
  OBVIOUS
<1>4. /\ ~EntryAt(v, o.loc).isdir /\ o.d.name \in Names /\ ~o.d.isdir
      /\ \/ o.first = 0
         \/ o.first \in DataClusters /\ g.own[o.first] = w /\ g.pos[o.first] = 0
  BY <1>2, <1>3, DataParts
<1>5. w = NewTag
  BY <1>2 DEF Target
<1>6. HeadOrEnd(g, o.first)
  BY <1>4, <1>5, MarkNumbers DEF HeadOrEnd, NewHead
<1>7. o2 \in OpType
  BY <1>1 DEF OpType, Labels
<1>8. /\ o2.what = o.what /\ o2.pc = "free" /\ o2.loc = o.loc /\ o2.d = o.d
      /\ o2.c = o.first /\ o2.res = -1
  BY <1>1 DEF OpType
<1>9. AtFree(v, g, o2)
  BY <1>4, <1>6, <1>8 DEF AtFree
<1>10. Torn(o2) = Torn(o) /\ Resized(o2) = Resized(o) /\ Raw(o2) = 0
  BY <1>1, <1>8, ByLabel
<1>11. OwnChain(g, HeadOf(o2)) /\ Unlinked(v, g, GrowOf(o2))
  <2>1. HeadOf(o2) = o.first /\ GrowOf(o2) = 0
    BY <1>8, HeadByLabel
  <2> QED  BY <1>1, <2>1, GrowFree
<1>12. Progress(v, g, o2)
  BY <1>1, <1>7, <1>8, <1>9, <1>11, OtherLabels DEF Progress
<1> QED  BY <1>1, <1>10, <1>12 DEF Consistent

(* The first cluster of a file.                                            *)
LEMMA AllocFirst ==
  ASSUME NEW v, NEW g, NEW o, Consistent(v, g, o), o.pc = "alloc",
         o.written < Len(o.arg), o.first = 0,
         NEW v2, NEW c \in DataClusters, v.fat[c] = FREE, FatSet(v, v2, c, EOC),
         NEW o2, o2 = [o EXCEPT !.c = c, !.pc = "fill", !.first = c]
  PROVE  \E g2 : Consistent(v2, g2, o2)
<1>1. /\ o \in OpType /\ o.what \in Calls /\ o.what \in {"fs_write", "fs_append"}
      /\ Volume(v, g, Torn(o), Resized(o), 0) /\ Torn(o) \subseteq Loc
      /\ OwnChain(g, o.first) /\ NoTag(g, GrowTag)
  BY DataFacts
<1>2. PICK w : w = Target(v, o)
  OBVIOUS
<1>3. PICK s : s = o.d.size + o.written
  OBVIOUS
<1>4. /\ Alive(v, g, 0, o.loc) /\ ~EntryAt(v, o.loc).isdir
      /\ o.d.name \in Names /\ ~o.d.isdir
      /\ o.what = "fs_append" => o.d = EntryAt(v, o.loc)
      /\ o.what = "fs_write" => o.d.size = 0
      /\ o.written <= Len(o.arg) /\ o.res = 0
      /\ Whole(s) /\ s = 0 /\ w = NewTag
  BY <1>2, <1>3, DataParts, ClusterNumbers
<1>5. PICK g2 : g2 = [own |-> [g.own EXCEPT ![c] = NewTag], pos |-> [g.pos EXCEPT ![c] = 0],
                      lvl |-> g.lvl]
  OBVIOUS
<1>6. /\ g2.own = [g.own EXCEPT ![c] = NewTag] /\ g2.pos = [g.pos EXCEPT ![c] = 0]
      /\ g2.lvl = g.lvl
  BY <1>5
<1>7. PICK t : t = Torn(o)
  OBVIOUS
<1>8. PICK z : z = Resized(o)
  OBVIOUS
<1>9. NoTag(g, NewTag)
  <2>1. PICK h : h = o.first
    OBVIOUS
  <2>2. Volume(v, g, t, z, 0) /\ OwnChain(g, h) /\ h \notin DataClusters
    BY <1>1, <1>7, <1>8, <2>1, MarkNumbers
  <2> QED  BY <2>2, NoOwn
<1>10. Volume(v2, g2, t, z, 0)
  <2>1. Takes(v, g, v2, g2, c, NewTag)
    BY <1>6, <1>9 DEF Takes, NoTag
  <2>2. Volume(v, g, t, z, 0) /\ t \subseteq Loc
    BY <1>1, <1>7, <1>8
  <2> QED  BY <2>1, <2>2, Take
<1>11. /\ g2.own[c] = NewTag /\ g2.pos[c] = 0
       /\ \A d \in DataClusters : d # c => g2.own[d] = g.own[d] /\ g2.pos[d] = g.pos[d]
       /\ g.own[c] = Nobody
  BY <1>1, <1>6 DEF Volume, Owners, Linked
<1>12. OwnChain(g2, c) /\ NoTag(g2, GrowTag) /\ EndsAt(v2, g2, NewTag, 0)
  BY <1>1, <1>9, <1>11, Tags DEF OwnChain, NoTag, EndsAt
<1>13. Alive(v2, g2, 0, o.loc) /\ EntryAt(v2, o.loc) = EntryAt(v, o.loc)
  <2>1. v2.root = v.root /\ v2.data = v.data
    BY DEF FatSet
  <2>2. \A d \in DataClusters : g.own[d] \in Loc =>
          g2.own[d] = g.own[d] /\ g2.pos[d] = g.pos[d]
    BY <1>11, Tags
  <2>3. PICK l : l = o.loc
    OBVIOUS
  <2>4. Alive(v, g, 0, l)
    BY <1>4, <2>3
  <2>5. EntryAt(v2, l) = EntryAt(v, l)
    BY <2>1, <2>2, FatKept
  <2>6. Alive(v2, g2, 0, l)
    BY <2>1, <2>2, <2>4, FatKept
  <2> QED  BY <2>3, <2>5, <2>6
<1>14. o2 \in OpType
  BY <1>1, ClusterNumbers DEF OpType, Labels
<1>15. /\ o2.what = o.what /\ o2.pc = "fill" /\ o2.loc = o.loc /\ o2.d = o.d
       /\ o2.c = c /\ o2.first = c /\ o2.res = o.res /\ o2.written = o.written
       /\ o2.arg = o.arg
  BY <1>1 DEF OpType
<1>16. Target(v2, o2) = NewTag
  BY <1>2, <1>4, <1>13, <1>15 DEF Target
<1>17. AtData(v2, g2, o2)
  <2>1. v2.fat[c] = EOC
    BY DEF FatSet
  <2>2. s \div BPS = 0
    BY <1>4, NoSectors
  <2> QED  BY <1>1, <1>3, <1>4, <1>11, <1>12, <1>13, <1>15, <1>16, <2>1, <2>2 DEF AtData
<1>18. Torn(o2) = t /\ Resized(o2) = z /\ Raw(o2) = 0
  BY <1>1, <1>7, <1>8, <1>15, ByLabel
<1>19. OwnChain(g2, HeadOf(o2)) /\ Unlinked(v2, g2, GrowOf(o2))
  <2>1. HeadOf(o2) = c /\ GrowOf(o2) = 0
    BY <1>15, HeadByLabel
  <2> QED  BY <1>12, <2>1, GrowFree
<1>20. Progress(v2, g2, o2)
  BY <1>1, <1>14, <1>15, <1>17, <1>19, OtherLabels DEF Progress
<1> QED  BY <1>10, <1>18, <1>20 DEF Consistent

(* One more cluster, not yet linked.                                       *)
LEMMA AllocMore ==
  ASSUME NEW v, NEW g, NEW o, Consistent(v, g, o), o.pc = "alloc",
         o.written < Len(o.arg), o.first # 0,
         NEW v2, NEW c \in DataClusters, v.fat[c] = FREE, FatSet(v, v2, c, EOC),
         NEW o2, o2 = [o EXCEPT !.c = c, !.pc = "link"]
  PROVE  \E g2 : Consistent(v2, g2, o2)
<1>1. /\ o \in OpType /\ o.what \in Calls /\ o.what \in {"fs_write", "fs_append"}
      /\ Volume(v, g, Torn(o), Resized(o), 0) /\ Torn(o) \subseteq Loc
      /\ OwnChain(g, o.first) /\ NoTag(g, GrowTag)
  BY DataFacts
<1>2. PICK w : w = Target(v, o)
  OBVIOUS
<1>3. PICK s : s = o.d.size + o.written
  OBVIOUS
<1>4. /\ Alive(v, g, 0, o.loc) /\ ~EntryAt(v, o.loc).isdir
      /\ o.d.name \in Names /\ ~o.d.isdir
      /\ o.what = "fs_append" => o.d = EntryAt(v, o.loc)
      /\ o.what = "fs_write" => o.d.size = 0
      /\ o.written <= Len(o.arg) /\ o.res = 0
      /\ Whole(s) /\ s # 0
      /\ o.first \in DataClusters /\ g.own[o.first] = w /\ g.pos[o.first] = 0
      /\ o.prev \in DataClusters /\ g.own[o.prev] = w /\ v.fat[o.prev] = EOC
      /\ EndsAt(v, g, w, LastPos(s))
      /\ w # GrowTag /\ w # Nobody
  BY <1>2, <1>3, DataParts
<1>5. PICK g2 : g2 = [own |-> [g.own EXCEPT ![c] = GrowTag], pos |-> [g.pos EXCEPT ![c] = 0],
                      lvl |-> g.lvl]
  OBVIOUS
<1>6. /\ g2.own = [g.own EXCEPT ![c] = GrowTag] /\ g2.pos = [g.pos EXCEPT ![c] = 0]
      /\ g2.lvl = g.lvl
  BY <1>5
<1>7. PICK t : t = Torn(o)
  OBVIOUS
<1>8. PICK z : z = Resized(o)
  OBVIOUS
<1>10. Volume(v2, g2, t, z, 0)
  <2>1. Takes(v, g, v2, g2, c, GrowTag)
    BY <1>1, <1>6 DEF Takes, NoTag
  <2>2. Volume(v, g, t, z, 0) /\ t \subseteq Loc
    BY <1>1, <1>7, <1>8
  <2> QED  BY <2>1, <2>2, Take
<1>11. /\ g2.own[c] = GrowTag /\ g2.pos[c] = 0
       /\ \A d \in DataClusters : d # c => g2.own[d] = g.own[d] /\ g2.pos[d] = g.pos[d]
       /\ g.own[c] = Nobody
  BY <1>1, <1>6 DEF Volume, Owners, Linked
<1>12. /\ v2.fat[c] = EOC /\ \A d \in DataClusters : d # c => v2.fat[d] = v.fat[d]
       /\ v2.root = v.root /\ v2.data = v.data
  BY DEF FatSet
<1>13. OwnChain(g2, o.first) /\ Unlinked(v2, g2, c) /\ EndsAt(v2, g2, w, LastPos(s))
  BY <1>1, <1>4, <1>11, <1>12, Tags DEF OwnChain, NoTag, Unlinked, EndsAt
<1>14. Alive(v2, g2, 0, o.loc) /\ EntryAt(v2, o.loc) = EntryAt(v, o.loc)
  <2>2. \A d \in DataClusters : g.own[d] \in Loc =>
          g2.own[d] = g.own[d] /\ g2.pos[d] = g.pos[d]
    BY <1>11, Tags
  <2>3. v2.root = v.root /\ v2.data = v.data
    BY <1>12
  <2>4. /\ \A l : EntryAt(v2, l) = EntryAt(v, l)
        /\ \A l : Alive(v, g, 0, l) => Alive(v2, g2, 0, l)
    BY <2>2, <2>3, FatKept
  <2> QED  BY <1>4, <2>4
<1>15. o2 \in OpType
  BY <1>1, ClusterNumbers DEF OpType, Labels
<1>16. /\ o2.what = o.what /\ o2.pc = "link" /\ o2.loc = o.loc /\ o2.d = o.d
       /\ o2.c = c /\ o2.first = o.first /\ o2.prev = o.prev /\ o2.res = o.res
       /\ o2.written = o.written /\ o2.arg = o.arg
  BY <1>1 DEF OpType
<1>17. Target(v2, o2) = w
  BY <1>2, <1>14, <1>16 DEF Target
<1>18. AtData(v2, g2, o2)
  <2>1. /\ g2.own[o.first] = w /\ g2.pos[o.first] = 0
        /\ g2.own[o.prev] = w /\ v2.fat[o.prev] = EOC
    BY <1>4, <1>11, <1>12
  <2> QED  BY <1>1, <1>3, <1>4, <1>11, <1>13, <1>14, <1>16, <1>17, <2>1 DEF AtData
<1>19. Torn(o2) = t /\ Resized(o2) = z /\ Raw(o2) = 0
  BY <1>1, <1>7, <1>8, <1>16, ByLabel
<1>20. OwnChain(g2, HeadOf(o2)) /\ Unlinked(v2, g2, GrowOf(o2))
  <2>1. HeadOf(o2) = o.first /\ GrowOf(o2) = c
    BY <1>16, HeadByLabel
  <2> QED  BY <1>13, <2>1
<1>21. Progress(v2, g2, o2)
  BY <1>1, <1>15, <1>16, <1>18, <1>20, OtherLabels DEF Progress
<1> QED  BY <1>10, <1>19, <1>21 DEF Consistent

(* The cluster is linked behind the last one.                              *)
LEMMA LinkStep ==
  ASSUME NEW v, NEW g, NEW o, Consistent(v, g, o), o.pc = "link",
         NEW v2, FatSet(v, v2, o.prev, o.c),
         NEW o2, o2 = [o EXCEPT !.pc = "fill"]
  PROVE  \E g2 : Consistent(v2, g2, o2)
<1>1. /\ o \in OpType /\ o.what \in Calls /\ o.what \in {"fs_write", "fs_append"}
      /\ Volume(v, g, Torn(o), Resized(o), 0) /\ Torn(o) \subseteq Loc
      /\ Resized(o) = {o.loc} /\ o.loc \in Loc
      /\ o.what = "fs_append" => Torn(o) = {}
      /\ OwnChain(g, o.first) /\ Unlinked(v, g, o.c)
  BY DataFacts
<1>2. PICK w : w = Target(v, o)
  OBVIOUS
<1>3. PICK s : s = o.d.size + o.written
  OBVIOUS
<1>4. /\ Alive(v, g, 0, o.loc) /\ ~EntryAt(v, o.loc).isdir
      /\ o.d.name \in Names /\ ~o.d.isdir
      /\ o.what = "fs_append" => o.d = EntryAt(v, o.loc)
      /\ o.what = "fs_write" => o.d.size = 0
      /\ o.written < Len(o.arg) /\ o.written <= Len(o.arg) /\ o.res = 0
      /\ Whole(s) /\ s # 0 /\ s \in Nat
      /\ o.first \in DataClusters /\ g.own[o.first] = w /\ g.pos[o.first] = 0
      /\ o.prev \in DataClusters /\ g.own[o.prev] = w /\ v.fat[o.prev] = EOC
      /\ EndsAt(v, g, w, LastPos(s))
      /\ o.c \in DataClusters /\ g.own[o.c] = GrowTag
      /\ w # GrowTag /\ w # Nobody
      /\ w = NewTag \/ (w = o.loc /\ o.what = "fs_append")
  <2>1. o.first # 0
    BY <1>2, <1>3, DataParts, ClusterNumbers
  <2> QED  BY <1>2, <1>3, <2>1, DataParts
<1>5. PICK p : p = o.prev
  OBVIOUS
<1>6. PICK c : c = o.c
  OBVIOUS
<1>7. PICK g2 : g2 = [own |-> [g.own EXCEPT ![c] = g.own[p]],
                      pos |-> [g.pos EXCEPT ![c] = g.pos[p] + 1],
                      lvl |-> [g.lvl EXCEPT ![c] = g.lvl[p]]]
  OBVIOUS
<1>8. v.fat[c] = EOC /\ \A d \in DataClusters : g.own[d] = GrowTag => d = c
  BY <1>1, <1>4, <1>6 DEF Unlinked
<1>9. Joins(v, g, v2, g2, p, c)
  BY <1>4, <1>5, <1>6, <1>7, <1>8 DEF Joins
<1>10. PICK t : t = Torn(o)
  OBVIOUS
<1>11. PICK z : z = Resized(o)
  OBVIOUS
<1>12. Volume(v2, g2, t, z, 0)
  <2>1. Volume(v, g, t, z, 0) /\ t \subseteq Loc
    BY <1>1, <1>10, <1>11
  <2>2. CASE w = NewTag
    <3>1. g.own[p] = NewTag
      BY <1>4, <1>5, <2>2
    <3> QED  BY <1>9, <2>1, <3>1, JoinNew
  <2>3. CASE w = o.loc /\ o.what = "fs_append"
    <3>1. g.own[p] \in Loc /\ ~EntryAt(v, g.own[p]).isdir /\ g.own[p] \in z
      BY <1>1, <1>4, <1>5, <1>11, <2>3
    <3>2. t = {}
      BY <1>1, <1>10, <2>3
    <3>3. Volume(v, g, {}, z, 0)
      BY <2>1, <3>2
    <3>4. Volume(v2, g2, {}, z, 0)
      BY <1>9, <3>1, <3>3, JoinEntry
    <3> QED  BY <3>2, <3>4
  <2> QED  BY <1>4, <2>2, <2>3
<1>13. /\ p # c
       /\ g2.own[c] = w /\ g2.pos[c] = g.pos[p] + 1
       /\ \A d \in DataClusters : d # c => g2.own[d] = g.own[d] /\ g2.pos[d] = g.pos[d]
       /\ v2.fat[c] = EOC
  BY <1>1, <1>4, <1>5, <1>9, JoinFacts DEF Volume
<1>14. EndsAt(v2, g2, w, s \div BPS)
  <2>1. PICK n : n = LastPos(s)
    OBVIOUS
  <2>2. EndsAt(v, g, g.own[p], n)
    BY <1>4, <1>5, <2>1
  <2>3. EndsAt(v2, g2, g.own[p], n + 1)
    BY <1>1, <1>9, <2>2, JoinEnds DEF Volume
  <2>4. n + 1 = s \div BPS
    BY <1>4, <2>1, NextSector
  <2> QED  BY <1>4, <1>5, <2>3, <2>4
<1>15. v2.root = v.root /\ v2.data = v.data
  BY DEF FatSet
<1>16. Alive(v2, g2, 0, o.loc) /\ EntryAt(v2, o.loc) = EntryAt(v, o.loc)
  <2>1. \A d \in DataClusters : g.own[d] \in Loc =>
          g2.own[d] = g.own[d] /\ g2.pos[d] = g.pos[d]
    BY <1>4, <1>6, <1>13, Tags
  <2>3. PICK l : l = o.loc
    OBVIOUS
  <2>4. Alive(v, g, 0, l)
    BY <1>4, <2>3
  <2>5. EntryAt(v2, l) = EntryAt(v, l)
    BY <1>15, <2>1, FatKept
  <2>6. Alive(v2, g2, 0, l)
    BY <1>15, <2>1, <2>4, FatKept
  <2> QED  BY <2>3, <2>5, <2>6
<1>17. /\ g2.own[o.first] = w /\ g2.pos[o.first] = 0
  BY <1>4, <1>6, <1>13
<1>18. OwnChain(g2, o.first) /\ NoTag(g2, GrowTag)
  <2>1. g.pos[p] \in Nat /\ g.pos[p] + 1 # 0
    BY <1>1, <1>4, <1>5 DEF Volume, Owners
  <2> QED  BY <1>1, <1>4, <1>8, <1>13, <2>1 DEF OwnChain, NoTag
<1>19. o2 \in OpType
  BY <1>1 DEF OpType, Labels
<1>20. /\ o2.what = o.what /\ o2.pc = "fill" /\ o2.loc = o.loc /\ o2.d = o.d
       /\ o2.c = c /\ o2.first = o.first /\ o2.res = o.res
       /\ o2.written = o.written /\ o2.arg = o.arg
  BY <1>1, <1>6 DEF OpType
<1>21. Target(v2, o2) = w
  BY <1>2, <1>16, <1>20 DEF Target
<1>22. AtData(v2, g2, o2)
  BY <1>1, <1>3, <1>4, <1>6, <1>13, <1>14, <1>16, <1>17, <1>20, <1>21 DEF AtData
<1>23. Torn(o2) = t /\ Resized(o2) = z /\ Raw(o2) = 0
  BY <1>1, <1>10, <1>11, <1>20, ByLabel
<1>24. OwnChain(g2, HeadOf(o2)) /\ Unlinked(v2, g2, GrowOf(o2))
  <2>1. HeadOf(o2) = o.first /\ GrowOf(o2) = 0
    BY <1>20, HeadByLabel
  <2> QED  BY <1>18, <2>1, GrowFree
<1>25. Progress(v2, g2, o2)
  BY <1>1, <1>19, <1>20, <1>22, <1>24, OtherLabels DEF Progress
<1> QED  BY <1>12, <1>23, <1>25 DEF Consistent

(* A cluster is filled with the next bytes.                                *)
LEMMA FillStep ==
  ASSUME NEW v, NEW g, NEW o, Consistent(v, g, o), o.pc = "fill",
         NEW v2, NEW b, 0 \notin DOMAIN b, DataSet(v, v2, o.c, b),
         NEW k, k = LesserOf(Len(o.arg) - o.written, BPS),
         NEW o2, o2 = [o EXCEPT !.prev = o.c, !.written = o.written + k, !.pc = "alloc"]
  PROVE  Consistent(v2, g, o2)
<1>1. /\ o \in OpType /\ o.what \in Calls /\ o.what \in {"fs_write", "fs_append"}
      /\ Volume(v, g, Torn(o), Resized(o), 0) /\ Torn(o) \subseteq Loc
      /\ OwnChain(g, o.first) /\ NoTag(g, GrowTag)
      /\ o.d.size \in Nat /\ o.written \in Nat /\ Len(o.arg) \in Nat
  BY DataFacts
<1>2. PICK w : w = Target(v, o)
  OBVIOUS
<1>3. PICK s : s = o.d.size + o.written
  OBVIOUS
<1>4. /\ Alive(v, g, 0, o.loc) /\ ~EntryAt(v, o.loc).isdir
      /\ o.d.name \in Names /\ ~o.d.isdir
      /\ o.what = "fs_append" => o.d = EntryAt(v, o.loc)
      /\ o.what = "fs_write" => o.d.size = 0
      /\ o.written < Len(o.arg) /\ o.res = 0
      /\ Whole(s) /\ s \in Nat
      /\ o.first \in DataClusters /\ g.own[o.first] = w /\ g.pos[o.first] = 0
      /\ o.c \in DataClusters /\ g.own[o.c] = w /\ v.fat[o.c] = EOC
      /\ EndsAt(v, g, w, s \div BPS)
      /\ w = NewTag \/ w = o.loc
  BY <1>2, <1>3, DataParts
<1>5. PICK c \in DataClusters : c = o.c
  BY <1>4
<1>6. k \in Nat /\ 1 <= k /\ k <= BPS /\ o.written + k <= Len(o.arg)
      /\ (o.written + k < Len(o.arg) => k = BPS)
  <2>1. PICK a \in Nat : a = Len(o.arg)
    BY <1>1
  <2>2. PICK n \in Nat : n = o.written
    BY <1>1
  <2>3. n < a /\ BPS \in Nat /\ 1 <= BPS
    BY <1>4, <2>1, <2>2, Measures
  <2>4. k = IF a - n < BPS THEN a - n ELSE BPS
    BY <2>1, <2>2 DEF LesserOf
  <2>5. k \in Nat /\ 1 <= k /\ k <= BPS /\ n + k <= a /\ (n + k < a => k = BPS)
    BY <2>3, <2>4
  <2> QED  BY <2>1, <2>2, <2>5
<1>7. PICK s2 : s2 = s + k
  OBVIOUS
<1>8. LastPos(s2) = s \div BPS /\ (k = BPS => Whole(s2)) /\ s2 # 0 /\ s2 \in Nat
  BY <1>4, <1>6, <1>7, FillSector
<1>9. ~DirCluster(v, g, c)
  BY <1>4, <1>5, Tags DEF DirCluster
<1>10. PICK t : t = Torn(o)
  OBVIOUS
<1>11. PICK z : z = Resized(o)
  OBVIOUS
<1>12. Volume(v, g, t, z, 0) /\ t \subseteq Loc /\ DataSet(v, v2, c, b) /\ NoEntries(b)
  BY <1>1, <1>5, <1>10, <1>11 DEF NoEntries
<1>13. Volume(v2, g, t, z, 0)
  BY <1>9, <1>12, DataWrite
<1>14. Alive(v2, g, 0, o.loc) /\ EntryAt(v2, o.loc) = EntryAt(v, o.loc)
  <2>1. PICK l : l = o.loc
    OBVIOUS
  <2>2. Alive(v, g, 0, l)
    BY <1>4, <2>1
  <2>3. Alive(v2, g, 0, l) /\ EntryAt(v2, l) = EntryAt(v, l)
    BY <1>9, <1>12, <2>2, DataKept
  <2> QED  BY <2>1, <2>3
<1>15. v2.fat = v.fat
  BY DEF DataSet
<1>16. EndsAt(v2, g, w, LastPos(s2))
  BY <1>4, <1>8, <1>15 DEF EndsAt
<1>17. o2 \in OpType
  <2>1. o.c \in Nat /\ o.written + k \in Nat
    BY <1>1, <1>4, <1>6, ClusterNumbers
  <2> QED  BY <1>1, <2>1 DEF OpType, Labels
<1>18. /\ o2.what = o.what /\ o2.pc = "alloc" /\ o2.loc = o.loc /\ o2.d = o.d
       /\ o2.c = c /\ o2.prev = c /\ o2.first = o.first /\ o2.res = o.res
       /\ o2.written = o.written + k /\ o2.arg = o.arg
  BY <1>1, <1>5 DEF OpType
<1>19. Target(v2, o2) = w
  BY <1>2, <1>14, <1>18 DEF Target
<1>20. o2.d.size + o2.written = s2
  BY <1>1, <1>3, <1>6, <1>7, <1>18
<1>21. AtData(v2, g, o2)
  <2>1. o2.written < Len(o2.arg) => Whole(s2)
    BY <1>6, <1>8, <1>18
  <2>2. v2.fat[c] = EOC
    BY <1>4, <1>5, <1>15
  <2> QED  BY <1>1, <1>4, <1>5, <1>6, <1>8, <1>14, <1>16, <1>18, <1>19, <1>20, <2>1, <2>2 DEF AtData
<1>22. Torn(o2) = t /\ Resized(o2) = z /\ Raw(o2) = 0
  BY <1>1, <1>10, <1>11, <1>18, ByLabel
<1>23. OwnChain(g, HeadOf(o2)) /\ Unlinked(v2, g, GrowOf(o2))
  <2>1. HeadOf(o2) = o.first /\ GrowOf(o2) = 0
    BY <1>18, HeadByLabel
  <2> QED  BY <1>1, <2>1, GrowFree
<1>24. Progress(v2, g, o2)
  BY <1>1, <1>17, <1>18, <1>21, <1>23, OtherLabels DEF Progress
<1> QED  BY <1>13, <1>22, <1>24 DEF Consistent

(* A file whose size is about to be written need not fit it exactly.       *)
LEMMA SizeOpen ==
  ASSUME NEW v, NEW g, NEW t, NEW u, Volume(v, g, t, {}, u), NEW z
  PROVE  Volume(v, g, t, z, u)
<1>1. Sized(v, g, t, {}, u)
  BY DEF Volume
<1>2. Sized(v, g, t, z, u)
  BY <1>1 DEF Sized
<1> QED  BY <1>2 DEF Volume

(* fs_append has found the file; p is its last cluster, and k bytes have   *)
(* gone into the rest of it.                                               *)
Appends(v, g, o, l, e, p, k) ==
  /\ Volume(v, g, {}, {}, 0) /\ NoTag(g, NewTag) /\ NoTag(g, GrowTag)
  /\ o \in OpType /\ o.what = "fs_append" /\ o.c = 0 /\ o.res = 0
  /\ l \in Loc /\ Alive(v, g, 0, l) /\ e \in Dirent /\ e = EntryAt(v, l)
  /\ e.name \in Names /\ ~e.isdir
  /\ k \in Nat /\ k <= Len(o.arg) /\ p \in Nat
  /\ k < Len(o.arg) => Whole(e.size + k)
  /\ \/ e.first = 0 /\ p = 0 /\ e.size + k = 0
     \/ /\ e.first \in DataClusters /\ g.own[e.first] = l /\ g.pos[e.first] = 0
        /\ p \in DataClusters /\ g.own[p] = l /\ v.fat[p] = EOC
        /\ e.size + k # 0 /\ EndsAt(v, g, l, LastPos(e.size + k))

(* The local variables at the start of the cluster loop of fs_append.      *)
AppendOp(o, o2, l, e, p, k) ==
  o2 = [o EXCEPT !.loc = l, !.d = e, !.first = e.first, !.pc = "alloc",
                 !.prev = p, !.written = k]

(* fs_append starts its cluster loop behind cluster p with k bytes         *)
(* written.                                                                *)
LEMMA AppendGoesOn ==
  ASSUME NEW v, NEW g, NEW o, NEW l, NEW e, NEW p, NEW k, Appends(v, g, o, l, e, p, k),
         NEW o2, AppendOp(o, o2, l, e, p, k)
  PROVE  Consistent(v, g, o2)
<1>1. /\ Volume(v, g, {}, {}, 0) /\ NoTag(g, NewTag) /\ NoTag(g, GrowTag)
      /\ o \in OpType /\ o.what = "fs_append" /\ o.c = 0 /\ o.res = 0
      /\ l \in Loc /\ Alive(v, g, 0, l) /\ e \in Dirent /\ e = EntryAt(v, l)
      /\ e.name \in Names /\ ~e.isdir
      /\ k \in Nat /\ k <= Len(o.arg) /\ p \in Nat
      /\ k < Len(o.arg) => Whole(e.size + k)
      /\ \/ e.first = 0 /\ p = 0 /\ e.size + k = 0
         \/ /\ e.first \in DataClusters /\ g.own[e.first] = l /\ g.pos[e.first] = 0
            /\ p \in DataClusters /\ g.own[p] = l /\ v.fat[p] = EOC
            /\ e.size + k # 0 /\ EndsAt(v, g, l, LastPos(e.size + k))
  BY DEF Appends
<1>2. o2 \in OpType
  <2>1. e.first \in Nat /\ "alloc" \in Labels
    BY <1>1, FirstNat DEF Labels
  <2> QED  BY <1>1, <2>1 DEF OpType, AppendOp
<1>3. /\ o2.what = o.what /\ o2.pc = "alloc" /\ o2.loc = l /\ o2.d = e
      /\ o2.c = 0 /\ o2.prev = p /\ o2.first = e.first /\ o2.res = 0
      /\ o2.written = k /\ o2.arg = o.arg
  BY <1>1 DEF OpType, AppendOp
<1>4. Target(v, o2) = IF e.first # 0 THEN l ELSE NewTag
  BY <1>1, <1>3 DEF Target
<1>5. AtData(v, g, o2)
  <2>1. ~IsData(o2.c)
    BY <1>3, MarkNumbers
  <2>2. CASE e.first = 0
    BY <1>1, <1>3, <1>4, <2>1, <2>2, ClusterNumbers DEF AtData
  <2>3. CASE e.first # 0
    BY <1>1, <1>3, <1>4, <2>1, <2>3 DEF AtData
  <2> QED  BY <2>2, <2>3
<1>6. Torn(o2) = {} /\ Resized(o2) = {l} /\ Raw(o2) = 0
  BY <1>1, <1>3, ByLabel
<1>7. Volume(v, g, {}, {l}, 0)
  <2>1. PICK z : z = {l}
    OBVIOUS
  <2>2. Volume(v, g, {}, z, 0)
    BY <1>1, SizeOpen
  <2> QED  BY <2>1, <2>2
<1>8. OwnChain(g, HeadOf(o2)) /\ Unlinked(v, g, GrowOf(o2))
  BY <1>1, TagFree
<1>9. o.what \in Calls
  BY <1>1 DEF Calls
<1>10. Progress(v, g, o2)
  BY <1>2, <1>3, <1>5, <1>8, <1>9, OtherLabels DEF Progress
<1> QED  BY <1>6, <1>7, <1>10 DEF Consistent

(* What fs_append finds.                                                   *)
Finds(v, g, o, l, e) ==
  /\ Consistent(v, g, o) /\ o.pc = "start" /\ o.what = "fs_append"
  /\ l \in Loc /\ Alive(v, g, 0, l) /\ e \in Dirent /\ e = EntryAt(v, l)
  /\ e.name \in Names /\ ~e.isdir

(* What fs_append can rely on once it has found the file.                  *)
LEMMA FindsFacts ==
  ASSUME NEW v, NEW g, NEW o, NEW l, NEW e, Finds(v, g, o, l, e)
  PROVE  /\ Volume(v, g, {}, {}, 0) /\ NoTag(g, NewTag) /\ NoTag(g, GrowTag)
         /\ o \in OpType /\ o.what = "fs_append" /\ o.c = 0 /\ o.res = 0
         /\ o.prev = 0 /\ o.written = 0 /\ Len(o.arg) \in Nat
         /\ l \in Loc /\ Alive(v, g, 0, l) /\ e \in Dirent /\ e = EntryAt(v, l)
         /\ e.name \in Names /\ ~e.isdir /\ e.size \in Nat
<1>1. /\ Consistent(v, g, o) /\ o.pc = "start" /\ o.what = "fs_append"
      /\ l \in Loc /\ Alive(v, g, 0, l) /\ e \in Dirent /\ e = EntryAt(v, l)
      /\ e.name \in Names /\ ~e.isdir
  BY DEF Finds
<1>2. o.what \in Calls
  BY <1>1 DEF Calls
<1>3. /\ Volume(v, g, {}, {}, 0) /\ NoTag(g, NewTag) /\ NoTag(g, GrowTag)
      /\ o \in OpType /\ o.c = 0 /\ o.res = 0 /\ o.prev = 0 /\ o.written = 0
  BY <1>1, <1>2, StartFacts
<1>4. Len(o.arg) \in Nat
  BY <1>3 DEF OpType
<1>5. e.size \in Nat
  BY <1>1, FirstNat
<1> QED  BY <1>1, <1>3, <1>4, <1>5

(* fs_append to an empty file begins a chain.                              *)
LEMMA AppendEmpty ==
  ASSUME NEW v, NEW g, NEW o, NEW l, NEW e, Finds(v, g, o, l, e), e.size = 0,
         NEW o2, o2 = [o EXCEPT !.loc = l, !.d = e, !.first = e.first, !.pc = "alloc"]
  PROVE  Consistent(v, g, o2)
<1>1. /\ Volume(v, g, {}, {}, 0) /\ NoTag(g, NewTag) /\ NoTag(g, GrowTag)
      /\ o \in OpType /\ o.what = "fs_append" /\ o.c = 0 /\ o.res = 0
      /\ o.prev = 0 /\ o.written = 0 /\ Len(o.arg) \in Nat
      /\ l \in Loc /\ Alive(v, g, 0, l) /\ e \in Dirent /\ e = EntryAt(v, l)
      /\ e.name \in Names /\ ~e.isdir
  BY FindsFacts
<1>2. e.first = 0
  <2>1. Sized(v, g, {}, {}, 0)
    BY <1>1 DEF Volume
  <2> QED  BY <1>1, <2>1 DEF Sized
<1>3. PICK p : p = 0
  OBVIOUS
<1>4. e.size + p = 0 /\ Whole(e.size + p)
  BY <1>3, NoSectors
<1>5. Appends(v, g, o, l, e, p, p)
  BY <1>1, <1>2, <1>3, <1>4 DEF Appends
<1>6. AppendOp(o, o2, l, e, p, p)
  BY <1>1, <1>3 DEF OpType, AppendOp
<1> QED  BY <1>5, <1>6, AppendGoesOn

(* fs_append to a file that fills its last cluster begins behind it.       *)
LEMMA AppendBehind ==
  ASSUME NEW v, NEW g, NEW o, NEW l, NEW e, Finds(v, g, o, l, e), e.size > 0,
         e.size % BPS = 0,
         NEW p, p = cluster_at_index(v, e.first)[(e.size - 1) \div BPS],
         NEW o2, o2 = [o EXCEPT !.loc = l, !.d = e, !.first = e.first, !.pc = "alloc",
                                !.prev = p]
  PROVE  Consistent(v, g, o2)
<1>1. /\ Volume(v, g, {}, {}, 0) /\ NoTag(g, NewTag) /\ NoTag(g, GrowTag)
      /\ o \in OpType /\ o.what = "fs_append" /\ o.c = 0 /\ o.res = 0
      /\ o.prev = 0 /\ o.written = 0 /\ Len(o.arg) \in Nat
      /\ l \in Loc /\ Alive(v, g, 0, l) /\ e \in Dirent /\ e = EntryAt(v, l)
      /\ e.name \in Names /\ ~e.isdir /\ e.size \in Nat
  BY FindsFacts
<1>2. /\ e.first \in DataClusters /\ g.own[e.first] = l /\ g.pos[e.first] = 0
      /\ p \in DataClusters /\ g.own[p] = l /\ v.fat[p] = EOC
      /\ EndsAt(v, g, l, LastPos(e.size))
  BY <1>1, LastOf
<1>3. PICK k : k = 0
  OBVIOUS
<1>4. e.size + k = e.size /\ Whole(e.size) /\ p \in Nat /\ e.size # 0
  BY <1>1, <1>2, <1>3, ClusterNumbers DEF Whole
<1>5. Appends(v, g, o, l, e, p, k)
  BY <1>1, <1>2, <1>3, <1>4 DEF Appends
<1>6. AppendOp(o, o2, l, e, p, k)
  BY <1>1, <1>3 DEF OpType, AppendOp
<1> QED  BY <1>5, <1>6, AppendGoesOn

(* p is the cluster that the last byte of e is in.                        *)
IsLast(v, e, p) == p = cluster_at_index(v, e.first)[(e.size - 1) \div BPS]

(* Writing into a cluster of a file keeps the volume in order.             *)
LEMMA FileWritten ==
  ASSUME NEW v, NEW g, NEW v2, NEW l, NEW p, NEW b, Volume(v, g, {}, {}, 0),
         Alive(v, g, 0, l), ~EntryAt(v, l).isdir, p \in DataClusters, g.own[p] = l,
         0 \notin DOMAIN b, DataSet(v, v2, p, b)
  PROVE  Volume(v2, g, {}, {}, 0) /\ Alive(v2, g, 0, l) /\ EntryAt(v2, l) = EntryAt(v, l)
<1>1. ~DirCluster(v, g, p) /\ NoEntries(b) /\ {} \subseteq Loc
  BY DEF DirCluster, NoEntries
<1>2. Volume(v2, g, {}, {}, 0)
  BY <1>1, DataWrite
<1>3. Alive(v2, g, 0, l) /\ EntryAt(v2, l) = EntryAt(v, l)
  BY <1>1, DataKept
<1> QED  BY <1>2, <1>3

(* fs_append fills up the last cluster first.                              *)
LEMMA AppendInto ==
  ASSUME NEW v, NEW g, NEW o, NEW l, NEW e, Finds(v, g, o, l, e), e.size > 0,
         e.size % BPS > 0,
         NEW p, IsLast(v, e, p),
         NEW k, k = LesserOf(Len(o.arg), BPS - (e.size % BPS)),
         NEW v2, NEW b, 0 \notin DOMAIN b, DataSet(v, v2, p, b),
         NEW o2, o2 = [o EXCEPT !.loc = l, !.d = e, !.first = e.first, !.pc = "alloc",
                                !.prev = p, !.written = k]
  PROVE  Consistent(v2, g, o2)
<1>1. /\ Volume(v, g, {}, {}, 0) /\ NoTag(g, NewTag) /\ NoTag(g, GrowTag)
      /\ o \in OpType /\ o.what = "fs_append" /\ o.c = 0 /\ o.res = 0
      /\ o.prev = 0 /\ o.written = 0 /\ Len(o.arg) \in Nat
      /\ l \in Loc /\ Alive(v, g, 0, l) /\ e \in Dirent /\ e = EntryAt(v, l)
      /\ e.name \in Names /\ ~e.isdir /\ e.size \in Nat
  BY FindsFacts
<1>2. /\ e.first \in DataClusters /\ g.own[e.first] = l /\ g.pos[e.first] = 0
      /\ p \in DataClusters /\ g.own[p] = l /\ v.fat[p] = EOC
      /\ EndsAt(v, g, l, LastPos(e.size))
  BY <1>1, LastOf DEF IsLast
<1>3. e.size % BPS \in Nat /\ e.size % BPS < BPS /\ BPS \in Nat
  BY <1>1, Measures, Division
<1>4. k \in Nat /\ k <= Len(o.arg) /\ k <= BPS - (e.size % BPS)
      /\ (k < Len(o.arg) => k = BPS - (e.size % BPS))
  BY <1>1, <1>3 DEF LesserOf
<1>5. /\ LastPos(e.size + k) = LastPos(e.size) /\ (k < Len(o.arg) => Whole(e.size + k))
  <2>1. ~Whole(e.size)
    BY <1>3 DEF Whole
  <2> QED  BY <1>1, <1>4, <2>1, FillRest
<1>6. Volume(v2, g, {}, {}, 0) /\ Alive(v2, g, 0, l) /\ EntryAt(v2, l) = EntryAt(v, l)
  BY <1>1, <1>2, FileWritten
<1>8. EntryAt(v2, l) = e
  BY <1>1, <1>6
<1>9. v2.fat = v.fat
  BY DEF DataSet
<1>10. EndsAt(v2, g, l, LastPos(e.size + k))
  BY <1>2, <1>5, <1>9 DEF EndsAt
<1>11. p \in Nat /\ e.size + k # 0
  BY <1>1, <1>2, <1>4, ClusterNumbers
<1>12. Appends(v2, g, o, l, e, p, k)
  BY <1>1, <1>2, <1>4, <1>5, <1>6, <1>8, <1>9, <1>10, <1>11 DEF Appends
<1>13. AppendOp(o, o2, l, e, p, k)
  BY DEF AppendOp
<1> QED  BY <1>12, <1>13, AppendGoesOn

-----------------------------------------------------------------------------
(* fs_init.                                                                *)

(* The same volume, as far as its data clusters go.                        *)
SameVolume(v, v2) ==
  /\ v2.root = v.root /\ v2.data = v.data
  /\ \A c \in DataClusters : v2.fat[c] = v.fat[c]

(* A volume with the same data clusters is in the same order.              *)
LEMMA SameVolumeOK ==
  ASSUME NEW v, NEW g, NEW v2, NEW t, t \subseteq Loc, NEW z, NEW u, Volume(v, g, t, z, u),
         SameVolume(v, v2)
  PROVE  Volume(v2, g, t, z, u)
<1>1. Owners(g) /\ Linked(v, g)
  BY DEF Volume
<1>2. SameOwned(v, g, v2, g)
  BY DEF SameVolume, SameOwned
<1>3. Linked(v2, g)
  BY <1>1 DEF Linked, SameVolume
<1> QED  BY <1>1, <1>2, <1>3, VolumeKept

(* fs_init formats a volume that is empty anyway.                          *)
LEMMA FormatStep ==
  ASSUME NEW v, NEW g, NEW o, Consistent(v, g, o), o.what = "fs_init",
         NEW v2, SameVolume(v, v2),
         NEW o2, o2 \in OpType, o2.what = "fs_init", o2.pc \in FormatPcs
  PROVE  Consistent(v2, g, o2)
<1>1. AtInit(v, o)
  BY DEF Consistent, Progress
<1>2. /\ o.pc \in FormatPcs \cup {"start"}
      /\ \A c \in DataClusters : v.fat[c] = FREE
      /\ \A i \in RootIndex : v.root[i] = FreeEntry
  BY <1>1 DEF AtInit
<1>3. Volume(v, g, {}, {}, 0) /\ NoTag(g, NewTag) /\ NoTag(g, GrowTag)
  BY <1>2, AtRest
<1>4. Volume(v2, g, {}, {}, 0)
  <2>1. {} \subseteq Loc
    OBVIOUS
  <2> QED  BY <1>3, <2>1, SameVolumeOK
<1>5. AtInit(v2, o2)
  BY <1>2 DEF AtInit, SameVolume
<1>6. OwnChain(g, HeadOf(o2)) /\ Unlinked(v2, g, GrowOf(o2))
  BY <1>3, TagFree
<1>7. Torn(o2) = {} /\ Resized(o2) = {} /\ Raw(o2) = 0
  BY ByLabel
<1>8. /\ AtStart(v2, g, o2) /\ AtCreate(v2, g, o2) /\ AtMkdir(v2, g, o2) /\ AtFree(v2, g, o2)
      /\ AtData(v2, g, o2) /\ AtEntry(v2, g, o2) /\ AtIdle(o2)
  BY DEF AtStart, AtCreate, AtMkdir, AtFree, AtData, AtEntry, AtIdle, FormatPcs
<1>9. Progress(v2, g, o2)
  BY <1>5, <1>6, <1>8 DEF Progress
<1> QED  BY <1>4, <1>7, <1>9 DEF Consistent

(* fs_init is done, with an empty volume.                                  *)
LEMMA FormatDone ==
  ASSUME NEW v, NEW g, NEW o, Consistent(v, g, o), o.what = "fs_init",
         NEW v2, v2.data = v.data, v2.fat = v.fat,
         v2.root = v.root \/ v2.root = [i \in RootIndex |-> FreeEntry]
  PROVE  Consistent(v2, g, Idle)
<1>1. AtInit(v, o)
  BY DEF Consistent, Progress
<1>2. /\ o.pc \in FormatPcs \cup {"start"}
      /\ \A i \in RootIndex : v.root[i] = FreeEntry
  BY <1>1 DEF AtInit
<1>3. Volume(v, g, {}, {}, 0) /\ NoTag(g, NewTag) /\ NoTag(g, GrowTag)
  BY <1>2, AtRest
<1>4. v.root = [i \in RootIndex |-> FreeEntry]
  <2>1. v.root \in [RootIndex -> Dirent]
    BY <1>3 DEF Volume, Blocks
  <2> QED  BY <1>2, <2>1
<1>5. SameVolume(v, v2)
  BY <1>4 DEF SameVolume
<1>6. Volume(v2, g, {}, {}, 0)
  <2>1. {} \subseteq Loc
    OBVIOUS
  <2> QED  BY <1>3, <1>5, <2>1, SameVolumeOK
<1> QED  BY <1>3, <1>6, IdleOK

(* The disk image that the machine starts with.                            *)
LEMMA FreshVolume ==
  ASSUME NEW v, \A c \in DataClusters : v.fat[c] = FREE,
         v.root = [i \in RootIndex |-> FreeEntry],
         \A c \in DataClusters : 0 \notin DOMAIN v.data[c],
         NEW o, o = [Idle EXCEPT !.what = "fs_init", !.pc = "start"]
  PROVE  \E g : Consistent(v, g, o)
<1>1. PICK g : g = [own |-> [c \in DataClusters |-> Nobody], pos |-> [c \in DataClusters |-> 0],
                    lvl |-> [c \in DataClusters |-> 0]]
  OBVIOUS
<1>2. /\ Owners(g) /\ \A c \in DataClusters : g.own[c] = Nobody
  BY <1>1 DEF Owners, Tag
<1>3. Nobody \notin Loc /\ NoTag(g, NewTag) /\ NoTag(g, GrowTag)
  BY <1>2, Tags DEF NoTag
<1>4. \A c \in DataClusters : ~DirCluster(v, g, c)
  BY <1>2, <1>3 DEF DirCluster
<1>5. \A l : ~Alive(v, g, 0, l)
  <2>1. SUFFICES ASSUME NEW l, Alive(v, g, 0, l)  PROVE FALSE
    OBVIOUS
  <2>2. l \in Loc /\ Slot(v, g, 0, l) /\ Used(EntryAt(v, l))
    BY <2>1 DEF Alive
  <2>3. l.c = ROOT /\ l.i \in RootIndex
    BY <1>4, <2>2, Locations DEF Slot
  <2>4. EntryAt(v, l) = FreeEntry
    BY <2>3 DEF EntryAt
  <2> QED  BY <2>2, <2>4, ZeroDirBlock
<1>6. Linked(v, g)
  BY <1>2, Tags DEF Linked
<1>7. Blocks(v, g, 0)
  <2>1. \A c \in DataClusters : v.data[c] \notin DirBlock
    BY Measures DEF DirBlock, DirIndex
  <2>2. v.root \in [RootIndex -> Dirent]
    BY ZeroDirBlock
  <2> QED  BY <1>4, <2>1, <2>2 DEF Blocks
<1>8. Volume(v, g, {}, {}, 0)
  <2>1. Owned(v, g, {}, 0)
    BY <1>2, <1>3 DEF Owned
  <2>2. Heads(v, g, {}, 0)
    BY <1>5 DEF Heads
  <2>3. Dots(v, g, {}, 0)
    BY <1>5 DEF Dots
  <2>4. GivenUp(v, g, {}, 0)
    BY DEF GivenUp
  <2>5. Sized(v, g, {}, {}, 0)
    BY <1>5 DEF Sized
  <2> QED  BY <1>2, <1>6, <1>7, <2>1, <2>2, <2>3, <2>4, <2>5 DEF Volume
<1>9. o \in OpType /\ o.what = "fs_init" /\ o.pc = "start"
  BY IdleType DEF OpType, Labels
<1>10. AtInit(v, o)
  BY <1>9 DEF AtInit
<1>11. OwnChain(g, HeadOf(o)) /\ Unlinked(v, g, GrowOf(o))
  BY <1>3, TagFree
<1>12. Torn(o) = {} /\ Resized(o) = {} /\ Raw(o) = 0
  BY <1>9, ByLabel
<1>13. /\ AtStart(v, g, o) /\ AtCreate(v, g, o) /\ AtMkdir(v, g, o) /\ AtFree(v, g, o)
       /\ AtData(v, g, o) /\ AtEntry(v, g, o) /\ AtIdle(o)
  BY <1>9 DEF AtStart, AtCreate, AtMkdir, AtFree, AtData, AtEntry, AtIdle
<1>14. Progress(v, g, o)
  BY <1>9, <1>10, <1>11, <1>13 DEF Progress
<1> QED  BY <1>8, <1>12, <1>14 DEF Consistent

-----------------------------------------------------------------------------
(* The actions: each one is one of the steps above.                        *)

(* A step from volume v and call o to v2 and o2.                           *)
Run(v, g, o, v2, o2) ==
  /\ FatShape /\ DataShape /\ root = rootDisk
  /\ v = OnDisk /\ v2 = OnDisk' /\ o = op /\ o2 = op'
  /\ Consistent(v, g, o)

(* The state after a step is in order.                                     *)
Good(v2, o2) == root' = rootDisk' /\ DataShape' /\ \E g2 : Consistent(v2, g2, o2)

(* The state behind a run's volume and call.                               *)
LEMMA RunFacts ==
  ASSUME NEW v, NEW g, NEW o, NEW v2, NEW o2, Run(v, g, o, v2, o2)
  PROVE  /\ Consistent(v, g, o) /\ Kernel = v /\ o = op /\ o2 = op' /\ root = rootDisk
         /\ v.fat = fat1 /\ v.data = data /\ v.root = root
         /\ v2.fat = fat1' /\ v2.data = data' /\ v2.root = rootDisk'
         /\ DataShape /\ FatShape
BY DEF Run, Kernel, OnDisk

(* A step without a write.                                                 *)
LEMMA NothingWritten ==
  ASSUME NEW v, NEW g, NEW o, NEW v2, NEW o2, Run(v, g, o, v2, o2), NoWrite
  PROVE  v2 = v /\ root' = rootDisk' /\ DataShape'
BY DEF Run, OnDisk, NoWrite, DataShape

(* A step that writes one FAT entry.                                       *)
LEMMA FatWritten ==
  ASSUME NEW v, NEW g, NEW o, NEW v2, NEW o2, Run(v, g, o, v2, o2),
         NEW c \in FatIndex, NEW x, fat1' = [fat1 EXCEPT ![c] = x], FatOnly
  PROVE  FatSet(v, v2, c, x) /\ root' = rootDisk' /\ DataShape'
<1>1. /\ v.fat = fat1 /\ v.data = data /\ v.root = root /\ root = rootDisk
      /\ v2.fat = fat1' /\ v2.data = data' /\ v2.root = rootDisk'
      /\ DataShape /\ FatShape
  BY RunFacts
<1>2. root' = rootDisk' /\ DataShape'
  BY <1>1 DEF FatOnly, DataShape
<1>3. v2.root = v.root /\ v2.data = v.data
  BY <1>1 DEF FatOnly
<1>4. v2.fat[c] = x /\ \A d \in DataClusters : d # c => v2.fat[d] = v.fat[d]
  BY <1>1, ClusterNumbers DEF FatShape
<1> QED  BY <1>2, <1>3, <1>4 DEF FatSet

(* A step that writes one data cluster.                                    *)
LEMMA DataWritten ==
  ASSUME NEW v, NEW g, NEW o, NEW v2, NEW o2, Run(v, g, o, v2, o2),
         NEW c \in DataClusters, NEW b, data' = [data EXCEPT ![c] = b], DataOnly
  PROVE  DataSet(v, v2, c, b) /\ root' = rootDisk' /\ DataShape'
<1>1. /\ v.fat = fat1 /\ v.data = data /\ v.root = root /\ root = rootDisk
      /\ v2.fat = fat1' /\ v2.data = data' /\ v2.root = rootDisk'
      /\ DataShape
  BY RunFacts
<1>2. root' = rootDisk'
  BY <1>1 DEF DataOnly
<1>3. v2.root = v.root /\ v2.fat = v.fat
  BY <1>1 DEF DataOnly
<1>4. v2.data[c] = b /\ \A d \in DataClusters : d # c => v2.data[d] = v.data[d]
  BY <1>1 DEF DataShape
<1>5. DataShape'
  BY <1>1 DEF DataShape
<1> QED  BY <1>2, <1>3, <1>4, <1>5 DEF DataSet

(* A step that writes one directory entry.                                 *)
LEMMA EntryWritten ==
  ASSUME NEW v, NEW g, NEW o, NEW v2, NEW o2, Run(v, g, o, v2, o2),
         NEW l \in Loc, NEW e, dir_write_entry(l, e), fat1' = fat1
  PROVE  EntrySet(v, v2, l, e) /\ root' = rootDisk' /\ DataShape'
<1>1. /\ v.fat = fat1 /\ v.data = data /\ v.root = root /\ root = rootDisk
      /\ v2.fat = fat1' /\ v2.data = data' /\ v2.root = rootDisk'
      /\ DataShape
  BY RunFacts
<1>2. CASE l.c = ROOT
  <2>1. root' = [root EXCEPT ![l.i] = e] /\ rootDisk' = root' /\ data' = data
    BY <1>2 DEF dir_write_entry, root_save
  <2>2. DataShape'
    BY <1>1, <2>1 DEF DataShape
  <2> QED  BY <1>1, <1>2, <2>1, <2>2 DEF EntrySet
<1>3. CASE l.c # ROOT
  <2>1. data' = [data EXCEPT ![l.c][l.i] = e] /\ root' = root /\ rootDisk' = rootDisk
    BY <1>3 DEF dir_write_entry
  <2>2. l.c \in DataClusters
    BY <1>3, Locations
  <2>3. DataShape'
    BY <1>1, <2>1 DEF DataShape
  <2>4. /\ v2.data[l.c] = [v.data[l.c] EXCEPT ![l.i] = e]
        /\ \A d \in DataClusters : d # l.c => v2.data[d] = v.data[d]
    BY <1>1, <2>1, <2>2 DEF DataShape
  <2> QED  BY <1>1, <1>3, <2>1, <2>3, <2>4 DEF EntrySet
<1> QED  BY <1>2, <1>3

(* The dots go to slots of the new directory's cluster.                    *)
LEMMA DotSet ==
  ASSUME NEW v, NEW g, NEW o, NEW v2, NEW o2, Run(v, g, o, v2, o2),
         NEW c \in DataClusters, NEW i \in DirIndex, NEW e,
         dir_write_entry([c |-> c, i |-> i], e), fat1' = fat1
  PROVE  /\ DataSet(v, v2, c, [v.data[c] EXCEPT ![i] = e])
         /\ root' = rootDisk' /\ DataShape'
<1>1. PICK l : l = [c |-> c, i |-> i]
  OBVIOUS
<1>2. l \in Loc /\ l.c = c /\ l.i = i /\ l.c # ROOT
  BY <1>1, ClusterNumbers DEF Loc
<1>3. dir_write_entry(l, e)
  BY <1>1
<1>4. EntrySet(v, v2, l, e) /\ root' = rootDisk' /\ DataShape'
  BY <1>2, <1>3, EntryWritten
<1> QED  BY <1>2, <1>4 DEF EntrySet, DataSet

(* fs_init, step by step.                                                  *)
LEMMA RunInit ==
  ASSUME NEW v, NEW g, NEW o, NEW v2, NEW o2, Run(v, g, o, v2, o2), fs_init
  PROVE  Good(v2, o2)
<1>1. /\ Consistent(v, g, o) /\ o = op /\ o2 = op' /\ root = rootDisk
      /\ v.fat = fat1 /\ v.data = data /\ v.root = root
      /\ v2.fat = fat1' /\ v2.data = data' /\ v2.root = rootDisk'
      /\ DataShape /\ FatShape
  BY RunFacts
<1>2. op.what = "fs_init"
  BY DEF fs_init, Mount, FormatBoot, FormatFat, FormatReserved, FormatRoot, At
<1>3. o \in OpType /\ AtInit(v, o)
  BY <1>1 DEF Consistent, Progress
<1>4. \A c \in DataClusters : v.fat[c] = FREE
  BY <1>1, <1>2, <1>3 DEF AtInit
<1>5. CASE Mount
  <2>1. op' = Idle /\ root' = rootDisk' /\ fat1' = fat1 /\ data' = data /\ rootDisk' = rootDisk
    BY <1>5 DEF Mount
  <2>2. o.what = "fs_init" /\ o2 = Idle /\ v2.data = v.data /\ v2.fat = v.fat /\ v2.root = v.root
    BY <1>1, <1>2, <2>1
  <2>3. Consistent(v2, g, Idle)
    BY <1>1, <2>2, FormatDone
  <2>4. DataShape'
    BY <1>1, <2>1 DEF DataShape
  <2> QED  BY <2>1, <2>2, <2>3, <2>4 DEF Good
<1>6. CASE FormatBoot
  <2>1. /\ op' = [op EXCEPT !.pc = "format_fat"]
        /\ root' = root /\ fat1' = fat1 /\ data' = data /\ rootDisk' = rootDisk
    BY <1>6 DEF FormatBoot
  <2>2. SameVolume(v, v2)
    BY <1>1, <2>1 DEF SameVolume
  <2>3. o2 = [o EXCEPT !.pc = "format_fat"] /\ o.what = "fs_init"
    BY <1>1, <1>2, <2>1
  <2>4. o2 \in OpType /\ o2.what = "fs_init" /\ o2.pc \in FormatPcs
    BY <1>3, <2>3 DEF OpType, Labels, FormatPcs
  <2>5. Consistent(v2, g, o2)
    BY <1>1, <2>2, <2>3, <2>4, FormatStep
  <2>6. DataShape'
    BY <1>1, <2>1 DEF DataShape
  <2> QED  BY <1>1, <2>1, <2>5, <2>6 DEF Good
<1>7. CASE FormatFat
  <2>1. /\ fat1' = [c \in FatIndex |-> IF c \div FPS = op.c THEN FREE ELSE fat1[c]]
        /\ op' = [op EXCEPT !.c = @ + 1,
                    !.pc = IF (op.c + 1) * FPS > NCLUSTERS + 1 THEN "format_0" ELSE @]
        /\ op.pc = "format_fat"
        /\ root' = root /\ data' = data /\ rootDisk' = rootDisk
    BY <1>7 DEF FormatFat, FatOnly, At
  <2>2. SameVolume(v, v2)
    <3>1. \A c \in DataClusters : v2.fat[c] = v.fat[c]
      BY <1>1, <1>4, <2>1, ClusterNumbers
    <3> QED  BY <1>1, <2>1, <3>1 DEF SameVolume
  <2>3. PICK p : p = IF (op.c + 1) * FPS > NCLUSTERS + 1 THEN "format_0" ELSE "format_fat"
    OBVIOUS
  <2>4. p \in {"format_0", "format_fat"}
    BY <2>3
  <2>5. o2 = [o EXCEPT !.c = o.c + 1, !.pc = p] /\ o.what = "fs_init"
    BY <1>1, <1>2, <2>1, <2>3
  <2>6. o2 \in OpType /\ o2.what = "fs_init" /\ o2.pc \in FormatPcs
    <3>1. o.c + 1 \in Nat
      BY <1>3 DEF OpType
    <3> QED  BY <1>3, <2>4, <2>5, <3>1 DEF OpType, Labels, FormatPcs
  <2>7. Consistent(v2, g, o2)
    BY <1>1, <2>2, <2>5, <2>6, FormatStep
  <2>8. DataShape'
    BY <1>1, <2>1 DEF DataShape
  <2> QED  BY <1>1, <2>1, <2>7, <2>8 DEF Good
<1>8. CASE FormatReserved
  <2>1. FatOnly
    BY <1>8 DEF FormatReserved
  <2>2. PICK c \in {0, 1} : \E x : fat1' = [fat1 EXCEPT ![c] = x]
    BY <1>8 DEF FormatReserved, fat_write
  <2>3. PICK x : fat1' = [fat1 EXCEPT ![c] = x]
    BY <2>2
  <2>4. c \in FatIndex /\ c \notin DataClusters
    BY <2>2, Measures DEF FatIndex, DataClusters
  <2>5. FatSet(v, v2, c, x) /\ root' = rootDisk' /\ DataShape'
    BY <2>1, <2>3, <2>4, FatWritten
  <2>6. SameVolume(v, v2)
    BY <2>4, <2>5 DEF FatSet, SameVolume
  <2>7. PICK p \in {"format_1", "format_root"} : op' = [op EXCEPT !.pc = p]
    BY <1>8 DEF FormatReserved
  <2>8. o2 = [o EXCEPT !.pc = p] /\ o.what = "fs_init"
    BY <1>1, <1>2, <2>7
  <2>9. o2 \in OpType /\ o2.what = "fs_init" /\ o2.pc \in FormatPcs
    BY <1>3, <2>7, <2>8 DEF OpType, Labels, FormatPcs
  <2>10. Consistent(v2, g, o2)
    BY <1>1, <2>6, <2>8, <2>9, FormatStep
  <2> QED  BY <2>5, <2>10 DEF Good
<1>9. CASE FormatRoot
  <2>1. /\ op' = Idle /\ root' = [i \in RootIndex |-> FreeEntry] /\ rootDisk' = root'
        /\ fat1' = fat1 /\ data' = data
    BY <1>9 DEF FormatRoot, root_save
  <2>2. /\ o.what = "fs_init" /\ o2 = Idle /\ v2.data = v.data /\ v2.fat = v.fat
        /\ v2.root = [i \in RootIndex |-> FreeEntry]
    BY <1>1, <1>2, <2>1
  <2>3. Consistent(v2, g, Idle)
    BY <1>1, <2>2, FormatDone
  <2>4. DataShape'
    BY <1>1, <2>1 DEF DataShape
  <2> QED  BY <2>1, <2>2, <2>3, <2>4 DEF Good
<1> QED  BY <1>5, <1>6, <1>7, <1>8, <1>9 DEF fs_init

(* dir_find_free.                                                          *)
LEMMA RunFindFree ==
  ASSUME NEW v, NEW g, NEW o, NEW v2, NEW o2, Run(v, g, o, v2, o2), FindFree
  PROVE  Good(v2, o2)
<1>1. /\ Consistent(v, g, o) /\ Kernel = v /\ o = op /\ o2 = op' /\ v.fat = fat1
  BY RunFacts
<1>2. PICK s : s = dir_iter(v, o.dir)
  OBVIOUS
<1>3. PICK p : p = FirstFree(v, o.dir)
  OBVIOUS
<1>4. PICK c : c = fat_alloc_cluster
  OBVIOUS
<1>5. SelectInSeq(dir_iter(Kernel, op.dir), LAMBDA l : ~Used(EntryAt(Kernel, l))) = p
  BY <1>1, <1>3 DEF FirstFree
<1>6. dir_iter(Kernel, op.dir) = s /\ op.pc = "find_free"
  BY <1>1, <1>2 DEF FindFree
<1>7. \/ /\ p # 0
         /\ op' = [op EXCEPT !.loc = s[p], !.pc = "create"]
         /\ NoWrite
      \/ /\ IF op.what = "fs_mkdir"
            THEN op' = [op EXCEPT !.c = op.d.first, !.pc = "free"]
            ELSE op' = Idle
         /\ NoWrite
      \/ /\ op.dir # ROOT /\ c # 0
         /\ fat1' = [fat1 EXCEPT ![c] = EOC]
         /\ op' = [op EXCEPT !.prev = s[Len(s)].c, !.c = c, !.pc = "grow_link"]
         /\ FatOnly
  BY <1>4, <1>5, <1>6 DEF FindFree, Return, fat_write
<1>8. CASE p # 0 /\ op' = [op EXCEPT !.loc = s[p], !.pc = "create"] /\ NoWrite
  <2>1. v2 = v /\ root' = rootDisk' /\ DataShape'
    BY <1>8, NothingWritten
  <2>2. /\ o.pc = "find_free" /\ FirstFree(v, o.dir) # 0
        /\ o2 = [o EXCEPT !.loc = dir_iter(v, o.dir)[FirstFree(v, o.dir)], !.pc = "create"]
    BY <1>1, <1>2, <1>3, <1>6, <1>8
  <2>3. Consistent(v, g, o2)
    BY <1>1, <2>2, FindFreeSlot
  <2> QED  BY <2>1, <2>3 DEF Good
<1>9. CASE /\ IF op.what = "fs_mkdir"
              THEN op' = [op EXCEPT !.c = op.d.first, !.pc = "free"]
              ELSE op' = Idle
           /\ NoWrite
  <2>1. v2 = v /\ root' = rootDisk' /\ DataShape'
    BY <1>9, NothingWritten
  <2>2. o.pc = "find_free"
    BY <1>1, <1>6
  <2>3. /\ o.what # "fs_mkdir" => Consistent(v, g, Idle)
        /\ o.what = "fs_mkdir" => Consistent(v, g, [o EXCEPT !.c = o.d.first, !.pc = "free"])
    BY <1>1, <2>2, FindFreeFails
  <2>4. Consistent(v, g, o2)
    BY <1>1, <1>9, <2>3
  <2> QED  BY <2>1, <2>4 DEF Good
<1>10. CASE /\ op.dir # ROOT /\ c # 0
            /\ fat1' = [fat1 EXCEPT ![c] = EOC]
            /\ op' = [op EXCEPT !.prev = s[Len(s)].c, !.c = c, !.pc = "grow_link"]
            /\ FatOnly
  <2>1. c \in DataClusters /\ fat1[c] = FREE
    BY <1>4, <1>10, AllocFree
  <2>2. c \in FatIndex
    BY <2>1, ClusterNumbers
  <2>3. FatSet(v, v2, c, EOC) /\ root' = rootDisk' /\ DataShape'
    BY <1>10, <2>2, FatWritten
  <2>4. /\ o.pc = "find_free" /\ o.dir # ROOT /\ v.fat[c] = FREE
    BY <1>1, <1>6, <1>10, <2>1
  <2>5. GrowOp(v, o, o2, c)
    BY <1>1, <1>2, <1>10 DEF GrowOp
  <2>6. Consistent(v, g, o)
    BY <1>1
  <2>7. \E g2 : Consistent(v2, g2, o2)
    BY <2>1, <2>3, <2>4, <2>5, <2>6, FindFreeGrows
  <2> QED  BY <2>3, <2>7 DEF Good
<1> QED  BY <1>7, <1>8, <1>9, <1>10

(* The cluster that a directory gets is linked, then zeroed.               *)
LEMMA RunGrow ==
  ASSUME NEW v, NEW g, NEW o, NEW v2, NEW o2, Run(v, g, o, v2, o2), GrowLink \/ GrowZero
  PROVE  Good(v2, o2)
<1>1. /\ Consistent(v, g, o) /\ o = op /\ o2 = op'
  BY RunFacts
<1>2. AtCreate(v, g, o)
  BY <1>1 DEF Consistent, Progress
<1>3. CASE GrowLink
  <2>1. /\ op.pc = "grow_link" /\ fat1' = [fat1 EXCEPT ![op.prev] = op.c] /\ FatOnly
        /\ op' = [op EXCEPT !.pc = "grow_zero"]
    BY <1>3 DEF GrowLink, fat_write
  <2>2. o.prev \in DataClusters /\ o.c \in DataClusters /\ o.prev \in FatIndex
    BY <1>1, <1>2, <2>1, ClusterNumbers DEF AtCreate
  <2>3. PICK p \in FatIndex : p = o.prev
    BY <2>2
  <2>4. PICK c : c = o.c
    OBVIOUS
  <2>5. fat1' = [fat1 EXCEPT ![p] = c]
    BY <1>1, <2>1, <2>3, <2>4
  <2>6. FatSet(v, v2, p, c) /\ root' = rootDisk' /\ DataShape'
    BY <2>1, <2>5, FatWritten
  <2>7. FatSet(v, v2, o.prev, o.c) /\ o.pc = "grow_link" /\ o2 = [o EXCEPT !.pc = "grow_zero"]
    BY <1>1, <2>1, <2>3, <2>4, <2>6
  <2>8. \E g2 : Consistent(v2, g2, o2)
    BY <1>1, <2>7, GrowLinkStep
  <2> QED  BY <2>6, <2>8 DEF Good
<1>4. CASE GrowZero
  <2>1. /\ op.pc = "grow_zero" /\ data' = [data EXCEPT ![op.c] = ZeroDir] /\ DataOnly
        /\ op' = [op EXCEPT !.loc = [c |-> op.c, i |-> 0], !.pc = "create"]
    BY <1>4 DEF GrowZero
  <2>2. o.c \in DataClusters
    BY <1>1, <1>2, <2>1 DEF AtCreate
  <2>3. PICK c \in DataClusters : c = o.c
    BY <2>2
  <2>4. PICK b : b = ZeroDir
    OBVIOUS
  <2>5. data' = [data EXCEPT ![c] = b]
    BY <1>1, <2>1, <2>3, <2>4
  <2>6. DataSet(v, v2, c, b) /\ root' = rootDisk' /\ DataShape'
    BY <2>1, <2>5, DataWritten
  <2>7. /\ DataSet(v, v2, o.c, ZeroDir) /\ o.pc = "grow_zero"
        /\ o2 = [o EXCEPT !.loc = [c |-> o.c, i |-> 0], !.pc = "create"]
    BY <1>1, <2>1, <2>3, <2>4, <2>6
  <2>8. Consistent(v2, g, o2)
    BY <1>1, <2>7, GrowZeroStep
  <2> QED  BY <2>6, <2>8 DEF Good
<1> QED  BY <1>3, <1>4

(* The entry of a new file or directory, and the last write of a call.     *)
LEMMA RunEntry ==
  ASSUME NEW v, NEW g, NEW o, NEW v2, NEW o2, Run(v, g, o, v2, o2), CreateEntry \/ WriteBack
  PROVE  Good(v2, o2)
<1>1. /\ Consistent(v, g, o) /\ o = op /\ o2 = op'
  BY RunFacts
<1>2. o.loc \in Loc
  BY <1>1 DEF Consistent, Progress, OpType
<1>3. PICK l \in Loc : l = o.loc
  BY <1>2
<1>4. PICK e : e = o.d
  OBVIOUS
<1>5. fat1' = fat1 /\ dir_write_entry(op.loc, op.d)
  BY DEF CreateEntry, WriteBack
<1>6. dir_write_entry(l, e)
  <2>1. op.loc = l /\ op.d = e
    BY <1>1, <1>3, <1>4
  <2> QED  BY <1>5, <2>1
<1>7. EntrySet(v, v2, l, e) /\ root' = rootDisk' /\ DataShape'
  BY <1>5, <1>6, EntryWritten
<1>8. EntrySet(v, v2, o.loc, o.d)
  BY <1>3, <1>4, <1>7
<1>9. CASE CreateEntry
  <2>1. /\ o.pc = "create"
        /\ \/ o2 = Idle
           \/ /\ o.what \in {"fs_write", "fs_append"}
              /\ o2 = [o EXCEPT !.pc = "start", !.prev = 0, !.c = 0]
    BY <1>1, <1>9 DEF CreateEntry, Return
  <2>2. \E g2 : Consistent(v2, g2, o2)
    BY <1>1, <1>8, <2>1, CreateStep
  <2> QED  BY <1>7, <2>2 DEF Good
<1>10. CASE WriteBack
  <2>1. o.pc = "entry" /\ o2 = Idle
    BY <1>1, <1>10 DEF WriteBack, Return
  <2>2. \E g2 : Consistent(v2, g2, Idle)
    BY <1>1, <1>8, <2>1, WriteBackStep
  <2> QED  BY <1>7, <2>1, <2>2 DEF Good
<1> QED  BY <1>9, <1>10

(* fat_free_chain.                                                         *)
LEMMA RunFree ==
  ASSUME NEW v, NEW g, NEW o, NEW v2, NEW o2, Run(v, g, o, v2, o2), FreeNext \/ FreeDone
  PROVE  Good(v2, o2)
<1>1. /\ Consistent(v, g, o) /\ o = op /\ o2 = op' /\ v.fat = fat1
  BY RunFacts
<1>2. o.pc = "free" /\ AtFree(v, g, o)
  BY <1>1 DEF Consistent, Progress, FreeNext, FreeDone
<1>3. CASE FreeNext
  <2>1. /\ IsData(op.c) /\ fat1' = [fat1 EXCEPT ![op.c] = FREE] /\ FatOnly
        /\ op' = [op EXCEPT !.c = fat1[op.c]]
    BY <1>3 DEF FreeNext, fat_write, NextToFree
  <2>2. IsData(o.c) /\ o2 = [o EXCEPT !.c = v.fat[o.c]]
    BY <1>1, <2>1
  <2>3. o.c \in DataClusters /\ o.c \in FatIndex
    BY <1>2, <2>2, ClusterNumbers DEF AtFree, HeadOrEnd, NewHead
  <2>4. PICK c \in FatIndex : c = o.c
    BY <2>3
  <2>5. fat1' = [fat1 EXCEPT ![c] = FREE]
    BY <1>1, <2>1, <2>4
  <2>6. FatSet(v, v2, c, FREE) /\ root' = rootDisk' /\ DataShape'
    BY <2>1, <2>5, FatWritten
  <2>7. FatSet(v, v2, o.c, FREE)
    BY <2>4, <2>6
  <2>8. \E g2 : Consistent(v2, g2, o2)
    BY <1>1, <1>2, <2>2, <2>7, FreeNextStep
  <2> QED  BY <2>6, <2>8 DEF Good
<1>4. CASE FreeDone
  <2>1. NoWrite /\ ~IsData(o.c)
    BY <1>1, <1>4 DEF FreeDone
  <2>2. v2 = v /\ root' = rootDisk' /\ DataShape'
    BY <2>1, NothingWritten
  <2>3. CASE o.what = "fs_mkdir"
    <3>1. o2 = Idle
      BY <1>1, <1>4, <2>3 DEF FreeDone, Return
    <3>2. Consistent(v, g, Idle)
      BY <1>1, <1>2, <2>1, <2>3, MkdirGivesUp
    <3> QED  BY <2>2, <3>1, <3>2 DEF Good
  <2>4. CASE o.what \in {"fs_delete", "fs_rmdir"}
    <3>1. o2 = [o EXCEPT !.d.name = "deleted", !.d.first = 0, !.d.size = 0, !.pc = "entry"]
      BY <1>1, <1>4, <2>4 DEF FreeDone
    <3>2. Consistent(v, g, o2)
      BY <1>1, <1>2, <2>1, <2>4, <3>1, DeleteGoesOn
    <3> QED  BY <2>2, <3>2 DEF Good
  <2>5. CASE o.what = "fs_write"
    <3>1. o2 = [o EXCEPT !.d.first = 0, !.d.size = 0,
                         !.pc = IF o.res = -1 \/ o.arg = <<>> THEN "entry" ELSE "alloc"]
      BY <1>1, <1>4, <2>5 DEF FreeDone
    <3>2. Consistent(v, g, o2)
      BY <1>1, <1>2, <2>1, <2>5, <3>1, WriteGoesOn
    <3> QED  BY <2>2, <3>2 DEF Good
  <2> QED  BY <1>2, <2>3, <2>4, <2>5 DEF AtFree
<1> QED  BY <1>3, <1>4

(* The end of the cluster loop.                                            *)
LEMMA RunLoopEnds ==
  ASSUME NEW v, NEW g, NEW o, NEW v2, NEW o2, Run(v, g, o, v2, o2), AllocDone \/ DiskFull
  PROVE  Good(v2, o2)
<1>1. /\ Consistent(v, g, o) /\ o = op /\ o2 = op'
  BY RunFacts
<1>2. o.pc = "alloc" /\ NoWrite
  BY <1>1 DEF AllocDone, DiskFull
<1>3. v2 = v /\ root' = rootDisk' /\ DataShape'
  BY <1>2, NothingWritten
<1>4. o \in OpType /\ o.res = 0 /\ o.what \in {"fs_write", "fs_append"}
  BY <1>1, <1>2 DEF Consistent, Progress, AtData
<1>5. \/ /\ o.what = "fs_write"
         /\ o2 = [o EXCEPT !.c = o.first, !.res = -1, !.pc = "free"]
      \/ \E r \in {0, -1} :
           o2 = [o EXCEPT !.d.first = o.first, !.d.size = o.d.size + o.written,
                          !.res = r, !.pc = "entry"]
  <2>1. CASE AllocDone
    <3>1. o2 = [o EXCEPT !.d.first = o.first, !.d.size = o.d.size + o.written, !.pc = "entry"]
      BY <1>1, <2>1 DEF AllocDone, NewSize
    <3>2. o2 = [o EXCEPT !.d.first = o.first, !.d.size = o.d.size + o.written,
                         !.res = 0, !.pc = "entry"]
      BY <1>4, <3>1 DEF OpType
    <3> QED  BY <3>2
  <2>2. CASE DiskFull
    BY <1>1, <2>2 DEF DiskFull, NewSize
  <2> QED  BY <2>1, <2>2
<1>6. CASE /\ o.what = "fs_write"
           /\ o2 = [o EXCEPT !.c = o.first, !.res = -1, !.pc = "free"]
  <2>1. Consistent(v, g, o2)
    BY <1>1, <1>2, <1>6, WriteGivesUp
  <2> QED  BY <1>3, <2>1 DEF Good
<1>7. CASE \E r \in {0, -1} :
             o2 = [o EXCEPT !.d.first = o.first, !.d.size = o.d.size + o.written,
                            !.res = r, !.pc = "entry"]
  <2>1. Consistent(v, g, o2)
    BY <1>1, <1>2, <1>7, DataEnds
  <2> QED  BY <1>3, <2>1 DEF Good
<1> QED  BY <1>5, <1>6, <1>7

(* One more cluster is taken.                                              *)
LEMMA RunAlloc ==
  ASSUME NEW v, NEW g, NEW o, NEW v2, NEW o2, Run(v, g, o, v2, o2), Alloc
  PROVE  Good(v2, o2)
<1>1. /\ Consistent(v, g, o) /\ o = op /\ o2 = op' /\ v.fat = fat1
  BY RunFacts
<1>2. PICK c : c = fat_alloc_cluster
  OBVIOUS
<1>3. /\ op.pc = "alloc" /\ op.written < Len(op.arg) /\ c # 0
      /\ fat1' = [fat1 EXCEPT ![c] = EOC] /\ FatOnly
      /\ op' = [op EXCEPT !.c = c,
                      !.pc = IF op.first # 0 /\ op.prev # 0 THEN "link" ELSE "fill",
                      !.first = IF @ = 0 THEN c ELSE @]
  BY <1>2 DEF Alloc, fat_write
<1>4. c \in DataClusters /\ fat1[c] = FREE
  BY <1>2, <1>3, AllocFree
<1>5. c \in FatIndex
  BY <1>4, ClusterNumbers
<1>6. FatSet(v, v2, c, EOC) /\ root' = rootDisk' /\ DataShape'
  BY <1>3, <1>5, FatWritten
<1>7. o \in OpType /\ AtData(v, g, o)
  BY <1>1 DEF Consistent, Progress
<1>8. /\ o.pc = "alloc" /\ o.written < Len(o.arg) /\ v.fat[c] = FREE
      /\ o2 = [o EXCEPT !.c = c,
                      !.pc = IF o.first # 0 /\ o.prev # 0 THEN "link" ELSE "fill",
                      !.first = IF o.first = 0 THEN c ELSE o.first]
  BY <1>1, <1>3, <1>4
<1>81. /\ Consistent(v, g, o) /\ o.pc = "alloc" /\ o.written < Len(o.arg) /\ v.fat[c] = FREE
       /\ c \in DataClusters /\ FatSet(v, v2, c, EOC)
  BY <1>1, <1>4, <1>6, <1>8
<1>9. CASE o.first = 0
  <2>1. o2 = [o EXCEPT !.c = c, !.pc = "fill", !.first = c]
    BY <1>8, <1>9
  <2>2. \E g2 : Consistent(v2, g2, o2)
    BY <1>81, <1>9, <2>1, AllocFirst
  <2> QED  BY <1>6, <2>2 DEF Good
<1>10. CASE o.first # 0
  <2>1. o.prev # 0
    <3>1. o.prev \in DataClusters
      BY <1>7, <1>8, <1>10 DEF AtData
    <3> QED  BY <3>1, ClusterNumbers
  <2>2. o2 = [o EXCEPT !.c = c, !.pc = "link"]
    BY <1>7, <1>8, <1>10, <2>1 DEF OpType
  <2>3. \E g2 : Consistent(v2, g2, o2)
    BY <1>81, <1>10, <2>2, AllocMore
  <2> QED  BY <1>6, <2>3 DEF Good
<1> QED  BY <1>9, <1>10

(* The cluster is linked, then filled.                                     *)
LEMMA RunFill ==
  ASSUME NEW v, NEW g, NEW o, NEW v2, NEW o2, Run(v, g, o, v2, o2), Link \/ Fill
  PROVE  Good(v2, o2)
<1>1. /\ Consistent(v, g, o) /\ o = op /\ o2 = op'
  BY RunFacts
<1>2. AtData(v, g, o) /\ o \in OpType
  BY <1>1 DEF Consistent, Progress
<1>3. CASE Link
  <2>1. /\ op.pc = "link" /\ fat1' = [fat1 EXCEPT ![op.prev] = op.c] /\ FatOnly
        /\ op' = [op EXCEPT !.pc = "fill"]
    BY <1>3 DEF Link, fat_write, LinkFrom
  <2>2. o.pc = "link" /\ o.prev \in DataClusters
    BY <1>1, <1>2, <2>1 DEF AtData
  <2>3. PICK p \in FatIndex : p = o.prev
    BY <2>2, ClusterNumbers
  <2>4. PICK c : c = o.c
    OBVIOUS
  <2>5. fat1' = [fat1 EXCEPT ![p] = c]
    BY <1>1, <2>1, <2>3, <2>4
  <2>6. FatSet(v, v2, p, c) /\ root' = rootDisk' /\ DataShape'
    BY <2>1, <2>5, FatWritten
  <2>7. FatSet(v, v2, o.prev, o.c) /\ o2 = [o EXCEPT !.pc = "fill"]
    BY <1>1, <2>1, <2>3, <2>4, <2>6
  <2>8. \E g2 : Consistent(v2, g2, o2)
    BY <1>1, <2>2, <2>7, LinkStep
  <2> QED  BY <2>6, <2>8 DEF Good
<1>4. CASE Fill
  <2>1. PICK k : k = LesserOf(Len(op.arg) - op.written, BPS)
    OBVIOUS
  <2>2. PICK b : b = SectorBuf(k)
    OBVIOUS
  <2>3. /\ op.pc = "fill" /\ data' = [data EXCEPT ![op.c] = b] /\ DataOnly
        /\ op' = [op EXCEPT !.prev = op.c, !.written = @ + k, !.pc = "alloc"]
    BY <1>4, <2>1, <2>2 DEF Fill
  <2>4. o.pc = "fill" /\ o.c \in DataClusters
    BY <1>1, <1>2, <2>3 DEF AtData
  <2>5. PICK c \in DataClusters : c = o.c
    BY <2>4
  <2>6. data' = [data EXCEPT ![c] = b]
    BY <1>1, <2>3, <2>5
  <2>7. DataSet(v, v2, c, b) /\ root' = rootDisk' /\ DataShape'
    BY <2>3, <2>6, DataWritten
  <2>8. 0 \notin DOMAIN b
    BY <2>2, Measures DEF SectorBuf
  <2>9. /\ DataSet(v, v2, o.c, b) /\ k = LesserOf(Len(o.arg) - o.written, BPS)
        /\ o2 = [o EXCEPT !.prev = o.c, !.written = o.written + k, !.pc = "alloc"]
    BY <1>1, <2>1, <2>3, <2>5, <2>7
  <2>10. Consistent(v, g, o)
    BY <1>1
  <2>11. Consistent(v2, g, o2)
    BY <2>4, <2>8, <2>9, <2>10, FillStep
  <2> QED  BY <2>7, <2>11 DEF Good
<1> QED  BY <1>3, <1>4

-----------------------------------------------------------------------------
(* The directory tree as walk_path sees it.                                *)

(* Walking the directory tree, one level further each time.                *)
NextDirs(v, R) == UNION {{d} \cup Subdirs(v, d) : d \in R}
Reaching(f, v, n) ==
  f = [k \in 0 .. n |-> IF k = 0 THEN {ROOT} ELSE NextDirs(v, f[k - 1])]

(* The function that Dirs defines exists: it is built level by level.      *)
LEMMA ReachingExists ==
  ASSUME NEW v, NEW N \in Nat
  PROVE  \E f : Reaching(f, v, N)
<1> DEFINE T == {n \in 0 .. N : ~\E f : Reaching(f, v, n)}
<1>1. ASSUME T # {}  PROVE FALSE
  <2>1. PICK n \in T : \A y \in T : n <= y
    <3>1. T \subseteq Nat  OBVIOUS
    <3> HIDE DEF T
    <3> QED  BY <1>1, <3>1, LeastNat
  <2>2. n \in 0 .. N /\ ~\E f : Reaching(f, v, n)
    BY <2>1
  <2>3. n # 0
    <3>1. Reaching([k \in 0 .. 0 |-> {ROOT}], v, 0)
      BY DEF Reaching
    <3> QED  BY <2>2, <3>1
  <2>4. n - 1 \in 0 .. N /\ n - 1 \notin T
    <3> HIDE DEF T
    <3> QED  BY <2>1, <2>2, <2>3
  <2>5. PICK f : Reaching(f, v, n - 1)
    BY <2>4
  <2> DEFINE h == [i \in 0 .. n |-> IF i < n THEN f[i] ELSE NextDirs(v, f[n - 1])]
  <2>6. ASSUME NEW i \in 0 .. n
        PROVE  h[i] = IF i = 0 THEN {ROOT} ELSE NextDirs(v, h[i - 1])
    <3>1. \A j \in 0 .. n - 1 : f[j] = IF j = 0 THEN {ROOT} ELSE NextDirs(v, f[j - 1])
      BY <2>5 DEF Reaching
    <3>2. CASE i = 0
      BY <3>1, <3>2, <2>3, <2>2
    <3>3. CASE i # 0 /\ i < n
      BY <3>1, <3>3, <2>3, <2>2
    <3>4. CASE i = n
      BY <3>1, <3>4, <2>3, <2>2
    <3> QED  BY <3>2, <3>3, <3>4
  <2>7. h = [i \in 0 .. n |-> h[i]]
    OBVIOUS
  <2> HIDE DEF h
  <2>8. Reaching(h, v, n)
    BY <2>6, <2>7 DEF Reaching
  <2> QED  BY <2>2, <2>8
<1>2. N \in 0 .. N
  OBVIOUS
<1> QED  BY <1>1, <1>2

(* The levels of the walk that gives Dirs.                                 *)
Levels(f, v) ==
  /\ f[0] = {ROOT}
  /\ \A k \in 1 .. NCLUSTERS : f[k] = NextDirs(v, f[k - 1])
  /\ Dirs(v) = f[NCLUSTERS]

(* Dirs is the last level of that walk.                                    *)
LEMMA DirsByLevel ==
  ASSUME NEW v
  PROVE  \E f : Levels(f, v)
<1>1. NCLUSTERS \in Nat
  BY Measures
<1>2. \E f : f = [k \in 0 .. NCLUSTERS |->
                    IF k = 0 THEN {ROOT} ELSE UNION {{d} \cup Subdirs(v, d) : d \in f[k - 1]}]
  <2>1. PICK f : Reaching(f, v, NCLUSTERS)
    BY <1>1, ReachingExists
  <2> QED  BY <2>1 DEF Reaching, NextDirs
<1> DEFINE reach[k \in 0 .. NCLUSTERS] ==
             IF k = 0 THEN {ROOT} ELSE UNION {{d} \cup Subdirs(v, d) : d \in reach[k - 1]}
<1>3. Dirs(v) = reach[NCLUSTERS]
  BY DEF Dirs
<1>4. reach = [k \in 0 .. NCLUSTERS |->
                 IF k = 0 THEN {ROOT} ELSE UNION {{d} \cup Subdirs(v, d) : d \in reach[k - 1]}]
  BY <1>2
<1> HIDE DEF reach
<1>5. \A k \in 0 .. NCLUSTERS : reach[k] =
        IF k = 0 THEN {ROOT} ELSE UNION {{d} \cup Subdirs(v, d) : d \in reach[k - 1]}
  BY <1>4
<1>6. 0 \in 0 .. NCLUSTERS /\ \A i \in 1 .. NCLUSTERS : i \in 0 .. NCLUSTERS /\ i # 0
  BY <1>1
<1>7. Levels(reach, v)
  BY <1>3, <1>5, <1>6 DEF Levels, NextDirs
<1> QED  BY <1>7

(* Every level has the one before it.                                      *)
LEMMA LevelsGrow ==
  ASSUME NEW v, NEW f, Levels(f, v), NEW k \in 0 .. NCLUSTERS
  PROVE  f[k] \subseteq Dirs(v)
<1>1. NCLUSTERS \in Nat
  BY Measures
<1>2. \A i \in 1 .. NCLUSTERS : f[i - 1] \subseteq f[i]
  BY DEF Levels, NextDirs
<1> DEFINE T == {n \in 0 .. NCLUSTERS : k <= n /\ ~(f[k] \subseteq f[n])}
<1>3. ASSUME T # {}  PROVE FALSE
  <2>1. PICK n \in T : \A y \in T : n <= y
    <3>1. T \subseteq Nat  OBVIOUS
    <3> HIDE DEF T
    <3> QED  BY <1>3, <3>1, LeastNat
  <2>2. n \in 0 .. NCLUSTERS /\ k <= n /\ ~(f[k] \subseteq f[n])
    BY <2>1
  <2>3. n # k
    BY <2>2
  <2>4. n - 1 \in 0 .. NCLUSTERS /\ n - 1 \notin T /\ n \in 1 .. NCLUSTERS /\ k <= n - 1
    <3> HIDE DEF T
    <3> QED  BY <1>1, <2>1, <2>2, <2>3
  <2>5. f[k] \subseteq f[n - 1]
    BY <2>4
  <2> QED  BY <1>2, <2>2, <2>4, <2>5
<1>4. f[k] \subseteq f[NCLUSTERS]
  BY <1>1, <1>3
<1> QED  BY <1>4 DEF Levels

(* A property of the root that passes to subdirectories holds for Dirs.    *)
LEMMA DirsWithin ==
  ASSUME NEW v, NEW S, ROOT \in S, \A d \in S : Subdirs(v, d) \subseteq S
  PROVE  Dirs(v) \subseteq S
<1>1. PICK f : Levels(f, v)
  BY DirsByLevel
<1> DEFINE T == {n \in 0 .. NCLUSTERS : ~(f[n] \subseteq S)}
<1>2. ASSUME T # {}  PROVE FALSE
  <2>1. PICK n \in T : \A y \in T : n <= y
    <3>1. T \subseteq Nat  OBVIOUS
    <3> HIDE DEF T
    <3> QED  BY <1>2, <3>1, LeastNat
  <2>2. n \in 0 .. NCLUSTERS /\ ~(f[n] \subseteq S)
    BY <2>1
  <2>3. n # 0
    BY <1>1, <2>2 DEF Levels
  <2>4. n - 1 \in 0 .. NCLUSTERS /\ n - 1 \notin T /\ n \in 1 .. NCLUSTERS
    <3> HIDE DEF T
    <3> QED  BY <2>1, <2>2, <2>3, Measures
  <2>5. f[n - 1] \subseteq S
    BY <2>4
  <2>6. f[n] = NextDirs(v, f[n - 1])
    BY <1>1, <2>4 DEF Levels
  <2> QED  BY <2>2, <2>5, <2>6 DEF NextDirs
<1>3. f[NCLUSTERS] \subseteq S
  BY <1>2, Measures
<1> QED  BY <1>1, <1>3 DEF Levels

-----------------------------------------------------------------------------
(* The live entries of a directory are entries of the volume.              *)

(* A live entry of a directory in order is alive and at home there.        *)
LEMMA LiveIs ==
  ASSUME NEW v, NEW g, NEW t, NEW z, NEW u, Volume(v, g, t, z, u),
         NEW d, DirOK(v, g, d), NEW l \in Live(v, d)
  PROVE  l \in Loc /\ Alive(v, g, u, l) /\ Home(v, g, l) = d
<1>1. /\ l \in ToSet(dir_iter(v, d)) /\ (l.c = ROOT \/ 0 \in DOMAIN v.data[l.c])
      /\ Used(EntryAt(v, l)) /\ ~IsDot(EntryAt(v, l))
  BY DEF Live
<1>2. Owners(g) /\ Linked(v, g) /\ Blocks(v, g, u) /\ Owned(v, g, t, u)
  BY DEF Volume
<1>3. CASE d = ROOT
  <2>1. l \in Loc /\ l.c = ROOT
    BY <1>1, <1>3, RootSlots
  <2> QED  BY <1>1, <1>3, <2>1 DEF Alive, Slot, Home
<1>4. CASE d # ROOT
  <2>1. d \in DataClusters /\ g.own[d] \in Loc /\ EntryAt(v, g.own[d]).isdir /\ g.pos[d] = 0
    BY <1>4 DEF DirOK, DirCluster
  <2>2. l = [c |-> l.c, i |-> l.i] /\ l.c \in ChainSet(v, d) /\ l.i \in DirIndex
    BY <1>1, <1>4, DirSlots
  <2>3. l.c \in DataClusters /\ g.own[l.c] = g.own[d]
    <3>1. PICK c : c = l.c
      OBVIOUS
    <3>2. c \in ChainSet(v, d) /\ g.own[d] # Nobody
      BY <2>1, <2>2, <3>1, Tags
    <3>3. c \in DataClusters /\ g.own[c] = g.own[d]
      BY <1>2, <2>1, <3>2, ChainSetOwned
    <3> QED  BY <3>1, <3>3
  <2>4. l \in Loc /\ l.c # ROOT
    BY <2>2, <2>3, ClusterNumbers DEF Loc
  <2>5. DirCluster(v, g, l.c)
    BY <2>1, <2>3 DEF DirCluster
  <2>6. EntryAt(v, l) = v.data[l.c][l.i]
    BY <2>4 DEF EntryAt
  <2>7. l.c # u
    BY <1>1, <1>2, <2>2, <2>3, <2>4, <2>6 DEF Blocks
  <2>8. Alive(v, g, u, l)
    BY <1>1, <2>4, <2>5, <2>7 DEF Alive, Slot
  <2>9. EntryAt(v, g.own[d]).first = d
    BY <1>2, <2>1 DEF Owned
  <2> QED  BY <2>3, <2>4, <2>8, <2>9 DEF Home
<1> QED  BY <1>3, <1>4

(* What fs_rmdir is about to remove, or has begun to free, holds nothing.  *)
LEMMA LiveTorn ==
  ASSUME NEW v, NEW g, NEW t, NEW z, NEW u, Volume(v, g, t, z, u),
         NEW d \in DataClusters, g.own[d] \notin Loc
  PROVE  Live(v, d) = {}
<1>1. SUFFICES ASSUME NEW l \in Live(v, d)  PROVE FALSE
  OBVIOUS
<1>2. /\ l \in ToSet(dir_iter(v, d)) /\ (l.c = ROOT \/ 0 \in DOMAIN v.data[l.c])
      /\ Used(EntryAt(v, l)) /\ ~IsDot(EntryAt(v, l))
  BY DEF Live
<1>3. Owners(g) /\ Linked(v, g) /\ Blocks(v, g, u)
  BY DEF Volume
<1>4. d # ROOT
  BY ClusterNumbers
<1>5. l = [c |-> l.c, i |-> l.i] /\ l.c \in ChainSet(v, d) /\ l.i \in DirIndex
  BY <1>2, <1>4, DirSlots
<1>6. l.c \in DataClusters /\ g.own[l.c] \notin Loc
  <2>1. PICK c : c = l.c
    OBVIOUS
  <2>2. c \in ChainSet(v, d)
    BY <1>5, <2>1
  <2>3. CASE g.own[d] = Nobody
    <3>1. v.fat[d] = FREE
      BY <1>3, <2>3 DEF Linked
    <3>2. ChainSet(v, d) \subseteq {d}
      BY <3>1, ChainSetOfFree
    <3> QED  BY <2>1, <2>2, <3>2
  <2>4. CASE g.own[d] # Nobody
    <3>1. c \in DataClusters /\ g.own[c] = g.own[d]
      BY <1>3, <2>2, <2>4, ChainSetOwned
    <3> QED  BY <2>1, <3>1
  <2> QED  BY <2>3, <2>4
<1>7. ~DirCluster(v, g, l.c) /\ l.c # ROOT
  BY <1>6, ClusterNumbers DEF DirCluster
<1>8. EntryAt(v, l) = v.data[l.c][l.i]
  BY <1>7 DEF EntryAt
<1> QED  BY <1>2, <1>3, <1>5, <1>6, <1>7, <1>8 DEF Blocks

(* A directory in order, or one whose chain fs_rmdir has given up.         *)
Known(v, g, d) == DirOK(v, g, d) \/ (d \in DataClusters /\ g.own[d] \notin Loc)

(* The subdirectories of a known directory are known, and in order unless  *)
(* a call has given one up.                                                *)
LEMMA SubdirsKnown ==
  ASSUME NEW v, NEW g, NEW t, NEW z, NEW u, Volume(v, g, t, z, u),
         NEW d, Known(v, g, d), NEW s \in Subdirs(v, d)
  PROVE  Known(v, g, s) /\ (t = {} => DirOK(v, g, s)) /\ s \in {ROOT} \cup DataClusters
<1>1. PICK l \in Live(v, d) : EntryAt(v, l).isdir /\ s = EntryAt(v, l).first
  BY DEF Subdirs
<1>2. DirOK(v, g, d)
  BY <1>1, LiveTorn DEF Known
<1>3. l \in Loc /\ Alive(v, g, u, l)
  BY <1>2, LiveIs
<1>4. Blocks(v, g, u) /\ Heads(v, g, t, u) /\ GivenUp(v, g, t, u)
  BY DEF Volume
<1>5. EntryAt(v, l) \in Dirent
  BY <1>3, <1>4, SlotEntry DEF Alive
<1>6. s = 0 \/ s \in DataClusters
  BY <1>1, <1>5 DEF Dirent
<1>7. CASE l \notin t
  <2>1. s \in DataClusters /\ g.own[s] = l /\ g.pos[s] = 0
    BY <1>1, <1>3, <1>4, <1>7 DEF Heads
  <2>2. DirOK(v, g, s)
    BY <1>1, <1>3, <2>1 DEF DirOK, DirCluster
  <2> QED  BY <1>6, <2>2 DEF Known, ROOT
<1>8. CASE l \in t
  <2>1. s \in DataClusters => g.own[s] \notin Loc
    BY <1>1, <1>4, <1>8 DEF GivenUp
  <2>2. s = 0 => DirOK(v, g, s)
    BY DEF DirOK, ROOT
  <2> QED  BY <1>6, <1>8, <2>1, <2>2 DEF Known, ROOT
<1> QED  BY <1>7, <1>8

(* The directories that walk_path reaches are known.                       *)
LEMMA DirsKnown ==
  ASSUME NEW v, NEW g, NEW t, NEW z, NEW u, Volume(v, g, t, z, u)
  PROVE  \A d \in Dirs(v) : Known(v, g, d) /\ d \in {ROOT} \cup DataClusters
<1>1. PICK S : S = {d \in {ROOT} \cup DataClusters : Known(v, g, d)}
  OBVIOUS
<1>2. ROOT \in S
  BY <1>1 DEF Known, DirOK
<1>3. \A d \in S : Subdirs(v, d) \subseteq S
  BY <1>1, SubdirsKnown
<1>4. Dirs(v) \subseteq S
  BY <1>2, <1>3, DirsWithin
<1> QED  BY <1>1, <1>4

(* While no call has given up a chain they are all in order.               *)
LEMMA DirsOK ==
  ASSUME NEW v, NEW g, NEW z, NEW u, Volume(v, g, {}, z, u)
  PROVE  \A d \in Dirs(v) : DirOK(v, g, d) /\ d \in {ROOT} \cup DataClusters
<1>1. PICK S : S = {d \in {ROOT} \cup DataClusters : DirOK(v, g, d)}
  OBVIOUS
<1>2. ROOT \in S
  BY <1>1 DEF DirOK
<1>3. \A d \in S : Subdirs(v, d) \subseteq S
  <2> SUFFICES ASSUME NEW d \in S, NEW s \in Subdirs(v, d)  PROVE s \in S
    OBVIOUS
  <2>1. Known(v, g, d)
    BY <1>1 DEF Known
  <2> QED  BY <1>1, <2>1, SubdirsKnown
<1>4. Dirs(v) \subseteq S
  BY <1>2, <1>3, DirsWithin
<1> QED  BY <1>1, <1>4

(* The files of the volume: live entries of directories in order.          *)
LEMMA FilesAlive ==
  ASSUME NEW v, NEW g, NEW t, NEW z, NEW u, Volume(v, g, t, z, u),
         NEW d \in Dirs(v), NEW l \in Live(v, d)
  PROVE  l \in Loc /\ Alive(v, g, u, l) /\ Home(v, g, l) = d /\ DirOK(v, g, d)
<1>1. Known(v, g, d)
  BY DirsKnown
<1>2. DirOK(v, g, d)
  BY <1>1, LiveTorn DEF Known
<1> QED  BY <1>2, LiveIs

-----------------------------------------------------------------------------
(* The calls up to their first write.                                      *)

(* The entry that a call finds at its start.                               *)
IsFound(v, g, o, l, e) ==
  /\ l \in Loc /\ Alive(v, g, 0, l) /\ e \in Dirent /\ e = EntryAt(v, l)
  /\ e.name \in Names

(* What dir_scan finds for the call in progress.                           *)
LEMMA RunFinds ==
  ASSUME NEW v, NEW g, NEW o, NEW v2, NEW o2, Run(v, g, o, v2, o2),
         op.pc = "start", op.what \in Calls, Found
  PROVE  \E l, e : l = FoundLoc /\ e = FoundEntry /\ IsFound(v, g, o, l, e)
<1>1. Consistent(v, g, o) /\ Kernel = v /\ o = op
  BY RunFacts
<1>2. o.pc = "start" /\ o.what \in Calls
  BY <1>1
<1>3. Volume(v, g, {}, {}, 0) /\ DirOK(v, g, o.dir) /\ o.leaf \in Names
  BY <1>1, <1>2, StartFacts
<1>4. PICK n \in Names : n = o.leaf
  BY <1>3
<1>5. PICK d : d = o.dir
  OBVIOUS
<1>6. PICK l : l = dir_iter(v, d)[dir_scan(v, d, n)]
  OBVIOUS
<1>7. dir_scan(v, d, n) # 0
  BY <1>1, <1>4, <1>5 DEF Found
<1>8. DirOK(v, g, d)
  BY <1>3, <1>5
<1>9. l \in Loc /\ Alive(v, g, 0, l) /\ EntryAt(v, l) \in Dirent /\ EntryAt(v, l).name = n
  BY <1>3, <1>6, <1>7, <1>8, FoundIs
<1>10. l = FoundLoc
  BY <1>1, <1>4, <1>5, <1>6 DEF FoundLoc
<1>11. EntryAt(v, l) = FoundEntry
  BY <1>1, <1>10 DEF FoundEntry
<1>12. PICK e : e = EntryAt(v, l)
  OBVIOUS
<1>13. IsFound(v, g, o, l, e)
  BY <1>9, <1>12 DEF IsFound
<1> QED  BY <1>10, <1>11, <1>12, <1>13

(* A call that fails at its start, or has nothing to do.                   *)
LEMMA RunReturns ==
  ASSUME NEW v, NEW g, NEW o, NEW v2, NEW o2, Run(v, g, o, v2, o2),
         op.pc = "start", op' = Idle, NoWrite
  PROVE  Good(v2, o2)
<1>1. Consistent(v, g, o) /\ o = op /\ o2 = op'
  BY RunFacts
<1>2. v2 = v /\ root' = rootDisk' /\ DataShape'
  BY NothingWritten
<1>3. Consistent(v, g, Idle)
  BY <1>1, StartFails
<1> QED  BY <1>1, <1>2, <1>3 DEF Good

(* fs_create, and fs_write or fs_append where they call it.                *)
LEMMA RunCreate ==
  ASSUME NEW v, NEW g, NEW o, NEW v2, NEW o2, Run(v, g, o, v2, o2),
         fs_create \/ fs_create_exists
  PROVE  Good(v2, o2)
<1>1. Consistent(v, g, o) /\ o = op /\ o2 = op'
  BY RunFacts
<1>2. CASE fs_create
  <2>1. /\ o.what \in {"fs_create", "fs_write", "fs_append"} /\ o.pc = "start" /\ NoWrite
        /\ o2 = [o EXCEPT !.d = NewEntry(o.leaf, FALSE, 0), !.pc = "find_free"]
    BY <1>1, <1>2 DEF fs_create
  <2>2. v2 = v /\ root' = rootDisk' /\ DataShape'
    BY <2>1, NothingWritten
  <2>3. Consistent(v, g, o2)
    BY <1>1, <2>1, CreateStarts
  <2> QED  BY <2>2, <2>3 DEF Good
<1>3. CASE fs_create_exists
  <2>1. op.pc = "start" /\ op' = Idle /\ NoWrite
    BY <1>3 DEF fs_create_exists, At, Fail, Return
  <2> QED  BY <2>1, RunReturns
<1> QED  BY <1>2, <1>3

(* The calls that free the chain of an entry.                              *)
LEMMA RunFreeStarts ==
  ASSUME NEW v, NEW g, NEW o, NEW v2, NEW o2, Run(v, g, o, v2, o2),
         fs_write \/ fs_delete \/ fs_rmdir
  PROVE  Good(v2, o2)
<1>1. Consistent(v, g, o) /\ o = op /\ o2 = op' /\ Kernel = v
  BY RunFacts
<1>2. op.pc = "start" /\ op.what \in {"fs_write", "fs_delete", "fs_rmdir"}
  BY DEF fs_write, fs_delete, fs_rmdir, At
<1>3. \/ op' = Idle /\ NoWrite
      \/ /\ Found /\ (op.what # "fs_rmdir" => ~FoundEntry.isdir)
         /\ op.what = "fs_rmdir" => Empty(FoundEntry.first)
         /\ op' = [op EXCEPT !.loc = FoundLoc, !.d = FoundEntry,
                             !.c = FoundEntry.first, !.pc = "free"]
         /\ NoWrite
  BY <1>2 DEF fs_write, fs_delete, fs_rmdir, At, Fail, Return, Removable
<1>4. CASE op' = Idle /\ NoWrite
  BY <1>2, <1>4, RunReturns
<1>5. CASE /\ Found /\ (op.what # "fs_rmdir" => ~FoundEntry.isdir)
           /\ op.what = "fs_rmdir" => Empty(FoundEntry.first)
           /\ op' = [op EXCEPT !.loc = FoundLoc, !.d = FoundEntry,
                               !.c = FoundEntry.first, !.pc = "free"]
           /\ NoWrite
  <2>1. op.what \in Calls
    BY <1>2 DEF Calls
  <2>2. PICK l, e : l = FoundLoc /\ e = FoundEntry /\ IsFound(v, g, o, l, e)
    BY <1>2, <1>5, <2>1, RunFinds
  <2>3. /\ l \in Loc /\ Alive(v, g, 0, l) /\ e \in Dirent /\ e = EntryAt(v, l)
        /\ e.name \in Names
    BY <2>2 DEF IsFound
  <2>4. v2 = v /\ root' = rootDisk' /\ DataShape'
    BY <1>5, NothingWritten
  <2>5. /\ o2 = [o EXCEPT !.loc = l, !.d = e, !.c = e.first, !.pc = "free"]
        /\ o.pc = "start" /\ o.what \in {"fs_write", "fs_delete", "fs_rmdir"}
        /\ o.what # "fs_rmdir" => ~e.isdir
    BY <1>1, <1>2, <1>5, <2>2
  <2>6. e.isdir => \A m \in ToSet(dir_iter(v, e.first)) :
                     Used(EntryAt(v, m)) => IsDot(EntryAt(v, m))
    BY <1>1, <1>5, <2>2, <2>5 DEF Empty
  <2>7. Consistent(v, g, o)
    BY <1>1
  <2>8. \E g2 : Consistent(v, g2, o2)
    BY <2>3, <2>5, <2>6, <2>7, FreeStarts
  <2> QED  BY <2>4, <2>8 DEF Good
<1> QED  BY <1>3, <1>4, <1>5

(* fs_rename.                                                              *)
LEMMA RunRename ==
  ASSUME NEW v, NEW g, NEW o, NEW v2, NEW o2, Run(v, g, o, v2, o2), fs_rename
  PROVE  Good(v2, o2)
<1>1. Consistent(v, g, o) /\ o = op /\ o2 = op'
  BY RunFacts
<1>2. op.pc = "start" /\ op.what = "fs_rename"
  BY DEF fs_rename, At
<1>3. CASE op' = Idle /\ NoWrite
  BY <1>2, <1>3, RunReturns
<1>4. CASE /\ Found /\ NoWrite
           /\ op' = [op EXCEPT !.loc = FoundLoc, !.d = [FoundEntry EXCEPT !.name = op.to],
                               !.pc = "entry"]
  <2>1. op.what \in Calls
    BY <1>2 DEF Calls
  <2>2. PICK l, e : l = FoundLoc /\ e = FoundEntry /\ IsFound(v, g, o, l, e)
    BY <1>2, <1>4, <2>1, RunFinds
  <2>3. l \in Loc /\ Alive(v, g, 0, l) /\ e \in Dirent /\ e = EntryAt(v, l)
    BY <2>2 DEF IsFound
  <2>4. v2 = v /\ root' = rootDisk' /\ DataShape'
    BY <1>4, NothingWritten
  <2>5. /\ o2 = [o EXCEPT !.loc = l, !.d = [e EXCEPT !.name = o.to], !.pc = "entry"]
        /\ o.pc = "start" /\ o.what = "fs_rename"
    BY <1>1, <1>2, <1>4, <2>2
  <2>6. Consistent(v, g, o)
    BY <1>1
  <2>7. Consistent(v, g, o2)
    BY <2>3, <2>5, <2>6, RenameStarts
  <2> QED  BY <2>4, <2>7 DEF Good
<1> QED  BY <1>3, <1>4 DEF fs_rename, Fail, Return, Renamable

(* fs_mkdir up to its first write.                                         *)
LEMMA RunMkdir ==
  ASSUME NEW v, NEW g, NEW o, NEW v2, NEW o2, Run(v, g, o, v2, o2), fs_mkdir
  PROVE  Good(v2, o2)
<1>1. Consistent(v, g, o) /\ o = op /\ o2 = op' /\ v.fat = fat1
  BY RunFacts
<1>2. op.pc = "start" /\ op.what = "fs_mkdir"
  BY DEF fs_mkdir, At
<1>3. PICK c : c = fat_alloc_cluster
  OBVIOUS
<1>4. CASE op' = Idle /\ NoWrite
  BY <1>2, <1>4, RunReturns
<1>5. CASE /\ c # 0 /\ fat1' = [fat1 EXCEPT ![c] = EOC] /\ FatOnly
           /\ op' = [op EXCEPT !.c = c, !.pc = "mkdir_zero"]
  <2>1. c \in DataClusters /\ fat1[c] = FREE
    BY <1>3, <1>5, AllocFree
  <2>2. c \in FatIndex
    BY <2>1, ClusterNumbers
  <2>3. FatSet(v, v2, c, EOC) /\ root' = rootDisk' /\ DataShape'
    BY <1>5, <2>2, FatWritten
  <2>4. /\ o.pc = "start" /\ o.what = "fs_mkdir" /\ v.fat[c] = FREE
        /\ o2 = [o EXCEPT !.c = c, !.pc = "mkdir_zero"]
    BY <1>1, <1>2, <1>5, <2>1
  <2>5. Consistent(v, g, o)
    BY <1>1
  <2>6. \E g2 : Consistent(v2, g2, o2)
    BY <2>1, <2>3, <2>4, <2>5, MkdirStarts
  <2> QED  BY <2>3, <2>6 DEF Good
<1> QED  BY <1>3, <1>4, <1>5 DEF fs_mkdir, Fail, Return, fat_write

(* The new directory's cluster: zeros, then the dots.                      *)
LEMMA RunDots ==
  ASSUME NEW v, NEW g, NEW o, NEW v2, NEW o2, Run(v, g, o, v2, o2),
         MkdirZero \/ MkdirDot \/ MkdirDotDot
  PROVE  Good(v2, o2)
<1>1. Consistent(v, g, o) /\ o = op /\ o2 = op' /\ v.data = data
  BY RunFacts
<1>2. o.pc \in {"mkdir_zero", "mkdir_dot", "mkdir_dotdot"}
  BY <1>1 DEF MkdirZero, MkdirDot, MkdirDotDot, At
<1>3. o.c \in DataClusters
  BY <1>1, <1>2, MkdirFacts
<1>4. PICK c \in DataClusters : c = o.c
  BY <1>3
<1>5. CASE MkdirZero
  <2>1. /\ o.pc = "mkdir_zero" /\ data' = [data EXCEPT ![c] = ZeroDir] /\ DataOnly
        /\ o2 = [o EXCEPT !.pc = "mkdir_dot"]
    BY <1>1, <1>4, <1>5 DEF MkdirZero, At
  <2>2. DataSet(v, v2, c, ZeroDir) /\ root' = rootDisk' /\ DataShape'
    BY <2>1, DataWritten
  <2>3. DataSet(v, v2, o.c, ZeroDir)
    BY <1>4, <2>2
  <2>4. Consistent(v2, g, o2)
    BY <1>1, <2>1, <2>3, MkdirZeroStep
  <2> QED  BY <2>2, <2>4 DEF Good
<1>6. CASE MkdirDot
  <2>1. PICK e : e = NewEntry(".", TRUE, c)
    OBVIOUS
  <2>2. PICK i \in DirIndex : i = 0
    BY Measures DEF DirIndex
  <2>3. /\ o.pc = "mkdir_dot" /\ fat1' = fat1
        /\ dir_write_entry([c |-> op.c, i |-> 0], NewEntry(".", TRUE, op.c))
        /\ o2 = [o EXCEPT !.pc = "mkdir_dotdot"]
    BY <1>1, <1>6 DEF MkdirDot, At
  <2>4. dir_write_entry([c |-> c, i |-> i], e)
    BY <1>1, <1>4, <2>1, <2>2, <2>3
  <2>5. /\ DataSet(v, v2, c, [v.data[c] EXCEPT ![i] = e])
        /\ root' = rootDisk' /\ DataShape'
    BY <2>3, <2>4, DotSet
  <2>6. PICK b : b = [v.data[o.c] EXCEPT ![0] = NewEntry(".", TRUE, o.c)]
    OBVIOUS
  <2>7. DataSet(v, v2, o.c, b)
    BY <1>4, <2>1, <2>2, <2>5, <2>6
  <2>8. Consistent(v2, g, o2)
    BY <1>1, <2>3, <2>6, <2>7, MkdirDotStep
  <2> QED  BY <2>5, <2>8 DEF Good
<1>7. CASE MkdirDotDot
  <2>1. PICK e : e = NewEntry("..", TRUE, o.dir)
    OBVIOUS
  <2>2. PICK i \in DirIndex : i = 1
    BY Measures DEF DirIndex
  <2>3. /\ o.pc = "mkdir_dotdot" /\ fat1' = fat1
        /\ dir_write_entry([c |-> op.c, i |-> 1], NewEntry("..", TRUE, op.dir))
        /\ o2 = [o EXCEPT !.d = NewEntry(o.leaf, TRUE, o.c), !.pc = "find_free"]
    BY <1>1, <1>7 DEF MkdirDotDot, At, DotDotCluster
  <2>4. dir_write_entry([c |-> c, i |-> i], e)
    BY <1>1, <1>4, <2>1, <2>2, <2>3
  <2>5. /\ DataSet(v, v2, c, [v.data[c] EXCEPT ![i] = e])
        /\ root' = rootDisk' /\ DataShape'
    BY <2>3, <2>4, DotSet
  <2>6. PICK b : b = [v.data[o.c] EXCEPT ![1] = NewEntry("..", TRUE, o.dir)]
    OBVIOUS
  <2>7. DataSet(v, v2, o.c, b)
    BY <1>4, <2>1, <2>2, <2>5, <2>6
  <2>8. Consistent(v2, g, o2)
    BY <1>1, <2>3, <2>6, <2>7, MkdirDotDotStep
  <2> QED  BY <2>5, <2>8 DEF Good
<1> QED  BY <1>5, <1>6, <1>7

(* fs_append, up to its cluster loop.                                      *)
LEMMA RunAppend ==
  ASSUME NEW v, NEW g, NEW o, NEW v2, NEW o2, Run(v, g, o, v2, o2), fs_append
  PROVE  Good(v2, o2)
<1>1. Consistent(v, g, o) /\ o = op /\ o2 = op' /\ Kernel = v /\ v.data = data
  BY RunFacts
<1>2. op.pc = "start" /\ op.what = "fs_append" /\ Found
  BY DEF fs_append, At
<1>3. op.what \in Calls
  BY <1>2 DEF Calls
<1>4. PICK l, e : l = FoundLoc /\ e = FoundEntry /\ IsFound(v, g, o, l, e)
  BY <1>2, <1>3, RunFinds
<1>5. PICK p : p = cluster_at_index(v, e.first)[(e.size - 1) \div BPS]
  OBVIOUS
<1>6. PICK k : k = LesserOf(Len(o.arg), BPS - (e.size % BPS))
  OBVIOUS
<1>7. PICK n : n = [o EXCEPT !.loc = l, !.d = e, !.first = e.first, !.pc = "alloc"]
  OBVIOUS
<1>8. \/ op' = Idle /\ NoWrite
      \/ ~e.isdir /\ e.size = 0 /\ op' = n /\ NoWrite
      \/ /\ ~e.isdir /\ e.size > 0 /\ e.size % BPS = 0
         /\ op' = [n EXCEPT !.prev = p] /\ NoWrite
      \/ /\ ~e.isdir /\ e.size > 0 /\ e.size % BPS > 0 /\ DataOnly
         /\ \E b : data' = [data EXCEPT ![p] = b] /\ 0 \notin DOMAIN b
         /\ op' = [n EXCEPT !.prev = p, !.written = k]
  <2>1. /\ FoundEntry = e /\ FoundLoc = l
        /\ cluster_at_index(Kernel, e.first)[(e.size - 1) \div BPS] = p
        /\ LesserOf(Len(op.arg), BPS - (e.size % BPS)) = k
        /\ [op EXCEPT !.loc = l, !.d = e, !.first = e.first, !.pc = "alloc"] = n
    BY <1>1, <1>4, <1>5, <1>6, <1>7
  <2>2. \/ op' = Idle /\ NoWrite
        \/ ~e.isdir /\ e.size = 0 /\ op' = n /\ NoWrite
        \/ /\ ~e.isdir /\ e.size > 0 /\ e.size % BPS = 0
           /\ op' = [n EXCEPT !.prev = p] /\ NoWrite
        \/ /\ ~e.isdir /\ e.size > 0 /\ e.size % BPS > 0 /\ DataOnly
           /\ data' = [data EXCEPT ![p] = [b \in 1 .. BPS |->
                  IF b > e.size % BPS /\ b <= (e.size % BPS) + k
                  THEN op.arg[b - (e.size % BPS)] ELSE data[p][b]]]
           /\ op' = [n EXCEPT !.prev = p, !.written = k]
    BY <2>1 DEF fs_append, Fail, Return
  <2>3. \A x : 0 \notin DOMAIN [b \in 1 .. BPS |->
                  IF b > e.size % BPS /\ b <= (e.size % BPS) + k
                  THEN op.arg[b - (e.size % BPS)] ELSE data[p][b]]
    BY Measures
  <2> QED  BY <2>2, <2>3
<1>9. CASE op' = Idle /\ NoWrite
  BY <1>2, <1>9, RunReturns
<1>10. o \in OpType
  BY <1>1 DEF Consistent, Progress
<1>11. ~e.isdir => Finds(v, g, o, l, e)
  BY <1>1, <1>2, <1>4 DEF Finds, IsFound
<1>12. CASE ~e.isdir /\ e.size = 0 /\ op' = n /\ NoWrite
  <2>1. v2 = v /\ root' = rootDisk' /\ DataShape'
    BY <1>12, NothingWritten
  <2>2. o2 = [o EXCEPT !.loc = l, !.d = e, !.first = e.first, !.pc = "alloc"]
    BY <1>1, <1>7, <1>12
  <2>3. Consistent(v, g, o2)
    BY <1>11, <1>12, <2>2, AppendEmpty
  <2> QED  BY <2>1, <2>3 DEF Good
<1>13. CASE /\ ~e.isdir /\ e.size > 0 /\ e.size % BPS = 0
            /\ op' = [n EXCEPT !.prev = p] /\ NoWrite
  <2>1. v2 = v /\ root' = rootDisk' /\ DataShape'
    BY <1>13, NothingWritten
  <2>2. o2 = [o EXCEPT !.loc = l, !.d = e, !.first = e.first, !.pc = "alloc", !.prev = p]
    BY <1>1, <1>7, <1>13
  <2>3. Consistent(v, g, o2)
    BY <1>5, <1>11, <1>13, <2>2, AppendBehind
  <2> QED  BY <2>1, <2>3 DEF Good
<1>14. CASE /\ ~e.isdir /\ e.size > 0 /\ e.size % BPS > 0 /\ DataOnly
            /\ \E b : data' = [data EXCEPT ![p] = b] /\ 0 \notin DOMAIN b
            /\ op' = [n EXCEPT !.prev = p, !.written = k]
  <2>1. PICK b : data' = [data EXCEPT ![p] = b] /\ 0 \notin DOMAIN b
    BY <1>14
  <2>2. IsLast(v, e, p)
    BY <1>5 DEF IsLast
  <2>3. p \in DataClusters
    <3>1. /\ Volume(v, g, {}, {}, 0) /\ Alive(v, g, 0, l) /\ ~EntryAt(v, l).isdir
          /\ EntryAt(v, l) = e /\ e.size # 0
      BY <1>11, <1>14, FindsFacts
    <3>2. EntryAt(v, l).size # 0
      BY <3>1
    <3>3. cluster_at_index(v, EntryAt(v, l).first)[(EntryAt(v, l).size - 1) \div BPS]
            \in DataClusters
      BY <3>1, <3>2, LastOf
    <3> QED  BY <1>5, <3>1, <3>3
  <2>4. DataSet(v, v2, p, b) /\ root' = rootDisk' /\ DataShape'
    BY <1>14, <2>1, <2>3, DataWritten
  <2>5. o2 = [o EXCEPT !.loc = l, !.d = e, !.first = e.first, !.pc = "alloc",
                       !.prev = p, !.written = k]
    BY <1>1, <1>7, <1>14
  <2>6. Finds(v, g, o, l, e) /\ e.size > 0 /\ e.size % BPS > 0 /\ 0 \notin DOMAIN b
    BY <1>11, <1>14, <2>1
  <2>7. Consistent(v2, g, o2)
    BY <1>6, <2>2, <2>4, <2>5, <2>6, AppendInto
  <2> QED  BY <2>4, <2>7 DEF Good
<1> QED  BY <1>8, <1>9, <1>12, <1>13, <1>14

(* A call of the shell.                                                    *)
LEMMA RunCall ==
  ASSUME NEW v, NEW g, NEW o, NEW v2, NEW o2, Run(v, g, o, v2, o2), Call
  PROVE  Good(v2, o2)
<1>1. Consistent(v, g, o) /\ o = op /\ o2 = op' /\ Kernel = v
  BY RunFacts
<1>2. op = Idle /\ NoWrite
  BY DEF Call, NoWrite
<1>3. PICK what \in Ops \ {"fs_chdir"}, dir \in Dirs(v), leaf \in Names :
        \E arg \in IF what \in {"fs_write", "fs_append"} THEN Payloads ELSE {<<>>},
           to  \in IF what = "fs_rename" THEN Names ELSE {"free"} :
          op' = [Idle EXCEPT !.what = what, !.pc = "start", !.dir = dir,
                             !.leaf = leaf, !.arg = arg, !.to = to]
  BY <1>1 DEF Call
<1>4. PICK arg \in IF what \in {"fs_write", "fs_append"} THEN Payloads ELSE {<<>>},
           to  \in IF what = "fs_rename" THEN Names ELSE {"free"} :
          op' = [Idle EXCEPT !.what = what, !.pc = "start", !.dir = dir,
                             !.leaf = leaf, !.arg = arg, !.to = to]
  BY <1>3
<1>5. what \in Calls
  BY VolumeAssumption DEF Calls
<1>6. arg \in Seq(Nat) /\ to \in Names \cup {"free"} /\ (what = "fs_rename" => to \in Names)
  <2>1. arg \in Payloads \/ arg = <<>>
    BY <1>4
  <2>2. \A s \in Payloads : s \in Seq(Nat)
    BY VolumeAssumption
  <2>3. <<>> \in Seq(Nat)
    OBVIOUS
  <2>4. arg \in Seq(Nat)
    BY <2>1, <2>2, <2>3
  <2> QED  BY <1>4, <2>4
<1>7. o = Idle /\ Consistent(v, g, Idle)
  BY <1>1, <1>2
<1>8. Volume(v, g, {}, {}, 0)
  <2>1. Idle.pc = "idle"
    BY IdleType
  <2>2. PICK i : i = Idle
    OBVIOUS
  <2>3. Consistent(v, g, i) /\ i.pc \in {"idle", "start"} \cup FormatPcs
    BY <1>7, <2>1, <2>2
  <2> QED  BY <2>3, AtRest
<1>9. DirOK(v, g, dir) /\ dir \in {ROOT} \cup DataClusters
  BY <1>8, DirsOK
<1>10. o2 = [Idle EXCEPT !.what = what, !.pc = "start", !.dir = dir,
                         !.leaf = leaf, !.arg = arg, !.to = to]
  BY <1>1, <1>4
<1>11. Consistent(v, g, o2)
  BY <1>5, <1>6, <1>7, <1>9, <1>10, CallStarts
<1>12. v2 = v /\ root' = rootDisk' /\ DataShape'
  BY <1>2, NothingWritten
<1> QED  BY <1>11, <1>12 DEF Good

(* Steps that leave disk and call alone.                                   *)
LEMMA RunStays ==
  ASSUME NEW v, NEW g, NEW o, NEW v2, NEW o2, Run(v, g, o, v2, o2),
         Mirror \/ fs_chdir \/ UNCHANGED vars
  PROVE  Good(v2, o2)
<1>1. /\ fat1' = fat1 /\ rootDisk' = rootDisk /\ data' = data /\ root' = root /\ op' = op
  BY DEF Mirror, fs_chdir, vars
<1>2. /\ Consistent(v, g, o) /\ o = op /\ o2 = op' /\ root = rootDisk /\ DataShape
      /\ v = OnDisk /\ v2 = OnDisk'
  BY DEF Run
<1>3. v2 = v /\ o2 = o /\ DataShape'
  BY <1>1, <1>2 DEF OnDisk, DataShape
<1> QED  BY <1>1, <1>2, <1>3 DEF Good

(* Every step of the volume, put together.                                 *)
LEMMA RunAny ==
  ASSUME NEW v, NEW g, NEW o, NEW v2, NEW o2, Run(v, g, o, v2, o2),
         Call \/ fs_chdir \/ Step \/ UNCHANGED vars
  PROVE  Good(v2, o2)
<1>1. CASE Mirror \/ fs_chdir \/ UNCHANGED vars
  BY <1>1, RunStays
<1>2. CASE Call
  BY <1>2, RunCall
<1>3. CASE fs_init
  BY <1>3, RunInit
<1>4. CASE FindFree
  BY <1>4, RunFindFree
<1>5. CASE GrowLink \/ GrowZero
  BY <1>5, RunGrow
<1>6. CASE CreateEntry \/ WriteBack
  BY <1>6, RunEntry
<1>7. CASE FreeNext \/ FreeDone
  BY <1>7, RunFree
<1>8. CASE AllocDone \/ DiskFull
  BY <1>8, RunLoopEnds
<1>9. CASE Alloc
  BY <1>9, RunAlloc
<1>10. CASE Link \/ Fill
  BY <1>10, RunFill
<1>11. CASE fs_create \/ fs_create_exists
  BY <1>11, RunCreate
<1>12. CASE fs_write \/ fs_delete \/ fs_rmdir
  BY <1>12, RunFreeStarts
<1>13. CASE fs_append
  BY <1>13, RunAppend
<1>14. CASE fs_rename
  BY <1>14, RunRename
<1>15. CASE fs_mkdir
  BY <1>15, RunMkdir
<1>16. CASE MkdirZero \/ MkdirDot \/ MkdirDotDot
  BY <1>16, RunDots
<1> QED  BY <1>1, <1>2, <1>3, <1>4, <1>5, <1>6, <1>7, <1>8, <1>9, <1>10, <1>11, <1>12,
            <1>13, <1>14, <1>15, <1>16 DEF Step

-----------------------------------------------------------------------------
(* The invariant.                                                          *)

(* The machine starts with a volume in order.                              *)
LEMMA InitVInv == Init => VInv
<1> SUFFICES ASSUME Init  PROVE InOrder
  BY DEF VInv
<1>1. /\ fat1 = [c \in FatIndex |-> FREE]
      /\ rootDisk = [i \in RootIndex |-> FreeEntry] /\ root = rootDisk
      /\ data = [c \in DataClusters |-> ZeroFile]
      /\ op = [Idle EXCEPT !.what = "fs_init", !.pc = "start"]
  BY DEF Init
<1>2. PICK v : v = OnDisk
  OBVIOUS
<1>3. PICK o : o = op
  OBVIOUS
<1>4. /\ \A c \in DataClusters : v.fat[c] = FREE
      /\ v.root = [i \in RootIndex |-> FreeEntry]
  BY <1>1, <1>2, ClusterNumbers DEF OnDisk
<1>5. \A c \in DataClusters : 0 \notin DOMAIN v.data[c]
  BY <1>1, <1>2, Measures DEF OnDisk, ZeroFile
<1>6. o = [Idle EXCEPT !.what = "fs_init", !.pc = "start"]
  BY <1>1, <1>3
<1>7. \E g : Consistent(v, g, o)
  BY <1>4, <1>5, <1>6, FreshVolume
<1>8. \E g : Consistent(OnDisk, g, op)
  BY <1>2, <1>3, <1>7
<1>9. DataShape
  BY <1>1 DEF DataShape
<1> QED  BY <1>1, <1>8, <1>9 DEF InOrder

(* Every step but a power failure leaves it in order.                      *)
LEMMA OrderKept ==
  ASSUME FatShape, InOrder, Call \/ fs_chdir \/ Step \/ UNCHANGED vars
  PROVE  InOrder'
<1>1. DataShape /\ root = rootDisk
  BY DEF InOrder
<1>2. PICK v : v = OnDisk
  OBVIOUS
<1>3. PICK o : o = op
  OBVIOUS
<1>4. PICK v2 : v2 = OnDisk'
  OBVIOUS
<1>5. PICK o2 : o2 = op'
  OBVIOUS
<1>6. PICK g : Consistent(v, g, o)
  BY <1>2, <1>3 DEF InOrder
<1>7. Run(v, g, o, v2, o2)
  BY <1>1, <1>2, <1>3, <1>4, <1>5, <1>6 DEF Run
<1>8. Good(v2, o2)
  BY <1>7, RunAny
<1>9. root' = rootDisk' /\ DataShape' /\ \E g2 : Consistent(v2, g2, o2)
  BY <1>8 DEF Good
<1>10. \E g2 : Consistent(OnDisk', g2, op')
  BY <1>4, <1>5, <1>9
<1> QED  BY <1>9, <1>10 DEF InOrder

(* Every step keeps the invariant; a power failure ends its reach.         *)
LEMMA NextVInv == IInv /\ VInv /\ [Next]_vars => VInv'
<1> SUFFICES ASSUME IInv, VInv, [Next]_vars, crashes' = 0  PROVE InOrder'
  BY DEF VInv
<1>1. FatShape /\ crashes \in Nat
  BY DEF IInv
<1>2. ~Crash
  BY <1>1 DEF Crash
<1>3. crashes = 0
  BY <1>1, <1>2, Effects
<1>4. Call \/ fs_chdir \/ Step \/ UNCHANGED vars
  BY <1>2 DEF Next
<1> QED  BY <1>1, <1>3, <1>4, OrderKept DEF VInv

(* The volume is in order in every state before the first power failure.   *)
THEOREM VolumeInvariant == Spec => []VInv
<1>1. Init => VInv
  BY InitVInv
<1>2. IInv /\ VInv /\ [Next]_vars => VInv'
  BY NextVInv
<1> QED  BY <1>1, <1>2, FatInvariant, PTL DEF Spec

-----------------------------------------------------------------------------
(* What the invariant says of entries and chains.                          *)

(* The chain of an entry: its own clusters, or what it has given up.       *)
LEMMA ChainOfEntry ==
  ASSUME NEW v, NEW g, NEW t, NEW z, NEW u, Volume(v, g, t, z, u),
         NEW l, Alive(v, g, u, l), NEW c \in ChainSet(v, EntryAt(v, l).first)
  PROVE  /\ c \in DataClusters
         /\ l \notin t => g.own[c] = l
         /\ l \in t => g.own[c] \notin Loc
<1>1. Owners(g) /\ Linked(v, g) /\ Blocks(v, g, u) /\ Heads(v, g, t, u) /\ GivenUp(v, g, t, u)
  BY DEF Volume
<1>2. l \in Loc /\ Slot(v, g, u, l)
  BY DEF Alive
<1>3. EntryAt(v, l) \in Dirent
  BY <1>1, <1>2, SlotEntry
<1>4. PICK f : f = EntryAt(v, l).first
  OBVIOUS
<1>5. c \in ChainSet(v, f) /\ (f = 0 \/ f \in DataClusters)
  BY <1>3, <1>4 DEF Dirent
<1>6. f # 0
  <2>1. ASSUME f = 0  PROVE FALSE
    <3>1. PICK i \in 0 .. NCLUSTERS :
            c = cluster_at_index(v, f)[i] /\ IsData(cluster_at_index(v, f)[i])
      BY <1>5, ChainSetAt
    <3>2. ~IsData(f)
      BY <2>1, MarkNumbers
    <3> QED  BY <3>1, <3>2, NoChain
  <2> QED  BY <2>1
<1>7. f \in DataClusters
  BY <1>5, <1>6
<1>8. CASE g.own[f] = Nobody
  <2>1. v.fat[f] = FREE
    BY <1>1, <1>7, <1>8 DEF Linked
  <2>2. c = f
    BY <1>5, <1>7, <2>1, ChainSetOfFree
  <2>3. l \in t
    BY <1>1, <1>2, <1>4, <1>6, <1>8, Tags DEF Heads
  <2> QED  BY <1>7, <1>8, <2>2, <2>3, Tags
<1>9. CASE g.own[f] # Nobody
  <2>1. c \in DataClusters /\ g.own[c] = g.own[f]
    BY <1>1, <1>5, <1>7, <1>9, ChainSetOwned
  <2>2. l \notin t => g.own[f] = l
    BY <1>1, <1>2, <1>4, <1>6 DEF Heads
  <2>3. l \in t => g.own[f] \notin Loc
    BY <1>1, <1>4, <1>7 DEF GivenUp
  <2> QED  BY <2>1, <2>2, <2>3
<1> QED  BY <1>8, <1>9

(* How long the chain of a file is.                                        *)
LEMMA ChainLength ==
  ASSUME NEW v, NEW g, NEW t, NEW z, NEW u, Volume(v, g, t, z, u),
         NEW l, Alive(v, g, u, l), l \notin t, ~EntryAt(v, l).isdir
  PROVE  LET e == EntryAt(v, l)
             n == Len(Chain(v, e.first))
         IN  /\ n \in Nat /\ e.size \in Nat
             /\ e.size <= BPS * n
             /\ l \notin z => n = (e.size + BPS - 1) \div BPS
<1>1. Owners(g) /\ Linked(v, g) /\ Blocks(v, g, u) /\ Heads(v, g, t, u) /\ Sized(v, g, t, z, u)
  BY DEF Volume
<1>2. l \in Loc /\ Slot(v, g, u, l)
  BY DEF Alive
<1>3. PICK e : e = EntryAt(v, l)
  OBVIOUS
<1>4. e \in Dirent
  BY <1>1, <1>2, <1>3, SlotEntry
<1>5. e.size \in Nat /\ BPS \in Nat
  BY <1>4, FirstNat, Measures
<1>6. /\ e.first = 0 => e.size = 0
      /\ \A c \in DataClusters :
           g.own[c] = l /\ v.fat[c] = EOC => e.size <= BPS * (g.pos[c] + 1)
      /\ l \notin z => (e.size = 0 => e.first = 0) /\ EndsAt(v, g, l, LastPos(e.size))
  BY <1>1, <1>2, <1>3 DEF Sized
<1>7. CASE e.first = 0
  <2>1. PICK m \in 0 .. NCLUSTERS + 1 :
          /\ Chain(v, e.first) = [i \in 1 .. m |-> cluster_at_index(v, e.first)[i - 1]]
          /\ \A k \in 0 .. NCLUSTERS : IsData(cluster_at_index(v, e.first)[k]) <=> k < m
    BY ChainShape
  <2>2. ~IsData(cluster_at_index(v, e.first)[0])
    BY <1>7, Follows, MarkNumbers
  <2>3. m = 0
    BY <2>1, <2>2, Measures
  <2>4. Len(Chain(v, e.first)) = 0
    BY <2>1, <2>3
  <2>5. e.size = 0
    BY <1>6, <1>7
  <2>6. 0 <= BPS * 0
    BY <1>5
  <2> QED  BY <1>3, <1>5, <2>4, <2>5, <2>6, NoSectors
<1>8. CASE e.first # 0
  <2>1. e.first \in DataClusters /\ g.own[e.first] = l /\ g.pos[e.first] = 0
    BY <1>1, <1>2, <1>3, <1>8 DEF Heads
  <2>2. l # Nobody
    BY <1>2, Tags
  <2>3. PICK n \in 1 .. NCLUSTERS : IsChain(v, g, e.first, n)
    BY <1>1, <2>1, <2>2, ChainWhole
  <2>4. Len(Chain(v, e.first)) = n /\ n \in Nat
    BY <2>3, ChainIs
  <2>5. PICK c : c = cluster_at_index(v, e.first)[n - 1]
    OBVIOUS
  <2>6. c \in DataClusters /\ g.own[c] = l /\ g.pos[c] = n - 1 /\ v.fat[c] = EOC
    <3>1. n - 1 \in 0 .. n - 1
      BY <2>3
    <3> QED  BY <2>1, <2>3, <2>5, <3>1 DEF IsChain
  <2>7. e.size <= BPS * n
    <3>1. e.size <= BPS * (g.pos[c] + 1)
      BY <1>6, <2>6
    <3>2. g.pos[c] + 1 = n
      BY <2>4, <2>6
    <3> QED  BY <3>1, <3>2
  <2>8. l \notin z => n = (e.size + BPS - 1) \div BPS
    <3>1. SUFFICES ASSUME l \notin z  PROVE n = (e.size + BPS - 1) \div BPS
      OBVIOUS
    <3>2. e.size # 0 /\ g.pos[c] = LastPos(e.size)
      BY <1>6, <1>8, <2>6, <3>1 DEF EndsAt
    <3>3. (e.size + BPS - 1) \div BPS = LastPos(e.size) + 1
      BY <1>5, <3>2, SectorsOf
    <3> QED  BY <2>4, <2>6, <3>2, <3>3
  <2> QED  BY <1>3, <1>5, <2>4, <2>7, <2>8
<1> QED  BY <1>7, <1>8

(* fs_read gives the whole file when the chain is long enough.             *)
LEMMA ReadsWhole ==
  ASSUME NEW v, NEW e, e.size \in Nat, Len(Chain(v, e.first)) \in Nat,
         e.size <= BPS * Len(Chain(v, e.first))
  PROVE  Len(fs_read(v, e, e.size)) = e.size
<1>1. PICK n \in Nat : n = Len(Chain(v, e.first))
  OBVIOUS
<1>2. PICK m \in Nat : m = BPS * n
  BY Measures
<1>3. LesserOf(LesserOf(e.size, e.size), m) = e.size
  BY <1>1, <1>2 DEF LesserOf
<1>4. PICK F : fs_read(v, e, e.size) = [b \in 1 .. e.size |-> F[b]]
  <2>1. PICK F : F = [b \in 1 .. e.size |->
          v.data[Chain(v, e.first)[((b - 1) \div BPS) + 1]][((b - 1) % BPS) + 1]]
    OBVIOUS
  <2>2. fs_read(v, e, e.size) = F
    BY <1>1, <1>2, <1>3, <2>1 DEF fs_read
  <2> QED  BY <2>1, <2>2
<1> QED  BY <1>4

-----------------------------------------------------------------------------
(* Between two calls every entry of the volume can be reached.             *)

(* An entry that is alive is a live entry of its directory.                *)
LEMMA LiveHas ==
  ASSUME NEW v, NEW g, NEW t, NEW z, NEW u, Volume(v, g, t, z, u),
         NEW l, Alive(v, g, u, l)
  PROVE  l \in Live(v, Home(v, g, l))
<1>1. Owners(g) /\ Linked(v, g) /\ Blocks(v, g, u) /\ Owned(v, g, t, u) /\ Heads(v, g, t, u)
  BY DEF Volume
<1>2. l \in Loc /\ Slot(v, g, u, l) /\ Used(EntryAt(v, l)) /\ ~IsDot(EntryAt(v, l))
  BY DEF Alive
<1>3. CASE l.c = ROOT
  BY <1>2, <1>3, RootSlots DEF Live, Home
<1>4. CASE l.c # ROOT
  <2>1. /\ l = [c |-> l.c, i |-> l.i] /\ l.c \in DataClusters /\ l.i \in DirIndex
        /\ DirCluster(v, g, l.c) /\ l.c # u
    BY <1>2, <1>4, Locations DEF Slot
  <2>2. PICK m : m = g.own[l.c]
    OBVIOUS
  <2>3. m \in Loc /\ EntryAt(v, m).isdir
    BY <2>1, <2>2 DEF DirCluster
  <2>4. Alive(v, g, u, m) /\ m \notin t
    BY <1>1, <2>1, <2>2, <2>3 DEF Owned
  <2>5. PICK d : d = EntryAt(v, m).first
    OBVIOUS
  <2>6. d \in DataClusters /\ g.own[d] = m /\ g.pos[d] = 0
    BY <1>1, <2>3, <2>4, <2>5 DEF Heads
  <2>7. Home(v, g, l) = d
    BY <1>4, <2>2, <2>5 DEF Home
  <2>8. m # Nobody
    BY <2>3, Tags
  <2>9. [c |-> l.c, i |-> l.i] \in ToSet(dir_iter(v, d))
    BY <1>1, <2>1, <2>2, <2>6, <2>8, DirScan
  <2>10. 0 \in DOMAIN v.data[l.c]
    <3>1. v.data[l.c] \in DirBlock
      BY <1>1, <2>1 DEF Blocks
    <3> QED  BY <3>1, Measures DEF DirBlock, DirIndex
  <2>11. l \in ToSet(dir_iter(v, d))
    BY <2>1, <2>9
  <2> QED  BY <1>2, <2>7, <2>10, <2>11 DEF Live
<1> QED  BY <1>3, <1>4

(* The owner of a cluster, the directory that holds it, and their depths.  *)
LEMMA ParentOf ==
  ASSUME NEW v, NEW g, NEW z, NEW u, Volume(v, g, {}, z, u),
         NEW c \in DataClusters, g.own[c] \in Loc
  PROVE  /\ g.lvl[c] \in Nat /\ g.lvl[c] # 0
         /\ \/ g.own[c].c = ROOT /\ g.lvl[c] = 1 /\ Home(v, g, g.own[c]) = ROOT
            \/ \E d \in DataClusters :
                 /\ g.own[d] \in Loc /\ g.lvl[c] = g.lvl[d] + 1
                 /\ DirOK(v, g, d) /\ d = Home(v, g, g.own[c])
<1>1. Owners(g) /\ Owned(v, g, {}, u) /\ Heads(v, g, {}, u)
  BY DEF Volume
<1>2. PICK l : l = g.own[c]
  OBVIOUS
<1>3. l \in Loc /\ Alive(v, g, u, l) /\ g.lvl[c] = Depth(g, l) /\ g.lvl[c] \in Nat
  BY <1>1, <1>2 DEF Owned, Owners
<1>4. CASE l.c = ROOT
  BY <1>2, <1>3, <1>4 DEF Depth, Home
<1>5. CASE l.c # ROOT
  <2>1. l.c \in DataClusters /\ DirCluster(v, g, l.c)
    BY <1>3, <1>5, Locations DEF Alive, Slot
  <2>2. PICK m : m = g.own[l.c]
    OBVIOUS
  <2>3. m \in Loc /\ EntryAt(v, m).isdir
    BY <2>1, <2>2 DEF DirCluster
  <2>4. Alive(v, g, u, m) /\ g.lvl[l.c] = Depth(g, m)
    BY <1>1, <2>1, <2>2, <2>3 DEF Owned
  <2>5. PICK d : d = EntryAt(v, m).first
    OBVIOUS
  <2>6. d \in DataClusters /\ g.own[d] = m /\ g.pos[d] = 0
    BY <1>1, <2>3, <2>4, <2>5 DEF Heads
  <2>7. g.lvl[d] = Depth(g, m)
    BY <1>1, <2>3, <2>6 DEF Owned
  <2>8. g.lvl[c] = g.lvl[d] + 1 /\ g.lvl[d] \in Nat
    BY <1>1, <1>3, <1>5, <2>4, <2>6, <2>7 DEF Depth, Owners
  <2>9. DirOK(v, g, d)
    BY <2>3, <2>6 DEF DirOK, DirCluster
  <2>10. d = Home(v, g, l)
    BY <1>5, <2>2, <2>5 DEF Home
  <2> QED  BY <1>2, <1>3, <2>3, <2>6, <2>8, <2>9, <2>10
<1> QED  BY <1>4, <1>5

(* Above a cluster at some depth there is one at every smaller depth.      *)
LEMMA DepthsFull ==
  ASSUME NEW v, NEW g, NEW z, NEW u, Volume(v, g, {}, z, u),
         NEW c \in DataClusters, g.own[c] \in Loc,
         NEW k \in Nat, k # 0, k <= g.lvl[c]
  PROVE  \E d \in DataClusters : g.own[d] \in Loc /\ g.lvl[d] = k
<1> DEFINE T == {n \in Nat : k <= n /\ \E d \in DataClusters : g.own[d] \in Loc /\ g.lvl[d] = n}
<1>1. T \subseteq Nat
  OBVIOUS
<1>2. g.lvl[c] \in T
  BY ParentOf
<1>3. PICK n \in T : \A y \in T : n <= y
  <2> HIDE DEF T
  <2> QED  BY <1>1, <1>2, LeastNat
<1>4. PICK d \in DataClusters : g.own[d] \in Loc /\ g.lvl[d] = n
  OBVIOUS
<1>5. n \in Nat /\ k <= n
  OBVIOUS
<1>6. CASE n = k
  BY <1>4, <1>6
<1>7. CASE n # k
  <2>1. g.lvl[d] # 1
    BY <1>4, <1>5, <1>7
  <2>2. PICK e \in DataClusters : g.own[e] \in Loc /\ g.lvl[d] = g.lvl[e] + 1
    BY <1>4, <2>1, ParentOf
  <2>3. g.lvl[e] \in Nat
    BY <2>2, ParentOf
  <2>4. g.lvl[e] \in T
    BY <1>4, <1>5, <1>7, <2>2, <2>3
  <2> HIDE DEF T
  <2>5. n <= g.lvl[e]
    BY <1>3, <2>4
  <2> QED  BY <1>4, <1>5, <2>2, <2>3, <2>5
<1> QED  BY <1>6, <1>7

(* So no directory is deeper than the volume has clusters.                 *)
LEMMA DepthBound ==
  ASSUME NEW v, NEW g, NEW z, NEW u, Volume(v, g, {}, z, u),
         NEW c \in DataClusters, g.own[c] \in Loc
  PROVE  g.lvl[c] \in 1 .. NCLUSTERS
<1>1. g.lvl[c] \in Nat /\ g.lvl[c] # 0 /\ NCLUSTERS \in Nat
  BY ParentOf, Measures
<1>2. ASSUME ~(g.lvl[c] <= NCLUSTERS)  PROVE FALSE
  <2>1. \A i \in 0 .. NCLUSTERS : \E d \in DataClusters : g.own[d] \in Loc /\ g.lvl[d] = i + 1
    <3> TAKE i \in 0 .. NCLUSTERS
    <3>1. i + 1 \in Nat /\ i + 1 # 0 /\ i + 1 <= g.lvl[c]
      BY <1>1, <1>2
    <3> QED  BY <3>1, DepthsFull
  <2>2. PICK f : f = [i \in 0 .. NCLUSTERS |-> CHOOSE d \in DataClusters : g.own[d] \in Loc /\ g.lvl[d] = i + 1]
    OBVIOUS
  <2>3. \A i \in 0 .. NCLUSTERS : f[i] \in DataClusters /\ g.lvl[f[i]] = i + 1
    BY <2>1, <2>2
  <2>4. \A i, j \in 0 .. NCLUSTERS : f[i] = f[j] => i = j
    BY <1>1, <2>3
  <2> QED  BY <2>3, <2>4, NoRoom
<1> QED  BY <1>1, <1>2

(* The walk reaches a directory after as many levels as it is deep.        *)
LEMMA DirReached ==
  ASSUME NEW v, NEW g, NEW z, NEW u, Volume(v, g, {}, z, u),
         NEW c \in DataClusters, DirOK(v, g, c)
  PROVE  c \in Dirs(v)
<1>1. PICK f : Levels(f, v)
  BY DirsByLevel
<1> DEFINE P(b) == b \in DataClusters /\ g.own[b] \in Loc /\ DirOK(v, g, b)
           T == {n \in Nat : \E b : P(b) /\ g.lvl[b] = n /\ b \notin f[n]}
<1>2. P(c)
  BY ClusterNumbers DEF DirOK, DirCluster
<1>3. ASSUME T # {}  PROVE FALSE
  <2>1. PICK n \in T : \A y \in T : n <= y
    <3>1. T \subseteq Nat  OBVIOUS
    <3> HIDE DEF T
    <3> QED  BY <1>3, <3>1, LeastNat
  <2>2. PICK b : P(b) /\ g.lvl[b] = n /\ b \notin f[n]
    OBVIOUS
  <2>3. n \in 1 .. NCLUSTERS
    BY <2>2, DepthBound
  <2>4. PICK l : l = g.own[b]
    OBVIOUS
  <2>5. Alive(v, g, u, l) /\ EntryAt(v, l).first = b /\ EntryAt(v, l).isdir
    BY <2>2, <2>4, ClusterNumbers DEF Volume, Owned, DirOK, DirCluster
  <2>6. l \in Live(v, Home(v, g, l))
    BY <2>5, LiveHas
  <2>7. b \in Subdirs(v, Home(v, g, l))
    BY <2>5, <2>6 DEF Subdirs
  <2>8. Home(v, g, l) \notin f[n - 1]
    <3>1. f[n] = NextDirs(v, f[n - 1])
      BY <1>1, <2>3 DEF Levels
    <3> QED  BY <2>2, <2>7, <3>1 DEF NextDirs
  <2>9. CASE Home(v, g, l) = ROOT /\ n = 1
    BY <1>1, <2>8, <2>9 DEF Levels
  <2>10. CASE \E d \in DataClusters :
                /\ g.own[d] \in Loc /\ g.lvl[b] = g.lvl[d] + 1
                /\ DirOK(v, g, d) /\ d = Home(v, g, l)
    <3>1. PICK d : P(d) /\ g.lvl[b] = g.lvl[d] + 1 /\ d = Home(v, g, l)
      BY <2>10
    <3>2. g.lvl[d] \in Nat
      BY <3>1, ParentOf
    <3>3. n - 1 = g.lvl[d]
      BY <2>2, <2>3, <3>1, <3>2
    <3>4. g.lvl[d] \in T
      BY <2>8, <3>1, <3>2, <3>3
    <3> HIDE DEF T
    <3> QED  BY <2>1, <2>3, <3>2, <3>3, <3>4
  <2>11. \/ Home(v, g, l) = ROOT /\ g.lvl[b] = 1
         \/ \E d \in DataClusters :
                /\ g.own[d] \in Loc /\ g.lvl[b] = g.lvl[d] + 1
                /\ DirOK(v, g, d) /\ d = Home(v, g, l)
    <3> HIDE DEF T
    <3> QED  BY <2>2, <2>4, ParentOf
  <2> QED  BY <2>2, <2>9, <2>10, <2>11
<1>4. g.lvl[c] \in 1 .. NCLUSTERS
  BY <1>2, DepthBound
<1>5. c \in f[g.lvl[c]]
  BY <1>2, <1>3, <1>4
<1>6. g.lvl[c] \in 0 .. NCLUSTERS
  BY <1>4
<1> QED  BY <1>1, <1>5, <1>6, LevelsGrow

(* Between two calls every entry of the volume is a live entry of a        *)
(* directory that walk_path can reach.                                     *)
LEMMA EntryReached ==
  ASSUME NEW v, NEW g, NEW z, NEW u, Volume(v, g, {}, z, u),
         NEW l, Alive(v, g, u, l)
  PROVE  Home(v, g, l) \in Dirs(v) /\ l \in Live(v, Home(v, g, l))
<1>1. l \in Live(v, Home(v, g, l))
  BY LiveHas
<1>2. CASE l.c = ROOT
  <2>1. PICK f : Levels(f, v)
    BY DirsByLevel
  <2>2. 0 \in 0 .. NCLUSTERS
    BY Measures
  <2>3. f[0] \subseteq Dirs(v)
    BY <2>1, <2>2, LevelsGrow
  <2> QED  BY <1>1, <1>2, <2>1, <2>3 DEF Levels, Home
<1>3. CASE l.c # ROOT
  <2>1. l.c \in DataClusters /\ DirCluster(v, g, l.c)
    BY <1>3, Locations DEF Alive, Slot
  <2>2. PICK m : m = g.own[l.c]
    OBVIOUS
  <2>3. m \in Loc /\ EntryAt(v, m).isdir
    BY <2>1, <2>2 DEF DirCluster
  <2>4. Owned(v, g, {}, u) /\ Heads(v, g, {}, u)
    BY DEF Volume
  <2>5. Alive(v, g, u, m)
    BY <2>1, <2>2, <2>3, <2>4 DEF Owned
  <2>6. PICK d : d = EntryAt(v, m).first
    OBVIOUS
  <2>7. d \in DataClusters /\ g.own[d] = m /\ g.pos[d] = 0
    BY <2>3, <2>4, <2>5, <2>6 DEF Heads
  <2>8. DirOK(v, g, d)
    BY <2>3, <2>7 DEF DirOK, DirCluster
  <2>9. d \in Dirs(v)
    BY <2>7, <2>8, DirReached
  <2> QED  BY <1>1, <1>3, <2>2, <2>6, <2>9 DEF Home
<1> QED  BY <1>2, <1>3

-----------------------------------------------------------------------------
(* The files of the volume.                                                *)

(* The files of a volume, by location.                                     *)
FilesOf(v) == UNION {Live(v, d) : d \in Dirs(v)}

(* They are entries of directories in order, and a call has given up the   *)
(* chain of at most one of them.                                           *)
LEMMA FileFacts ==
  ASSUME NEW v, NEW g, NEW o, Consistent(v, g, o), NEW l \in FilesOf(v)
  PROVE  /\ l \in Loc /\ Alive(v, g, Raw(o), l)
         /\ Volume(v, g, Torn(o), Resized(o), Raw(o))
         /\ Torn(o) \subseteq {o.loc}
<1>1. Volume(v, g, Torn(o), Resized(o), Raw(o))
  BY DEF Consistent
<1>2. PICK d \in Dirs(v) : l \in Live(v, d)
  BY DEF FilesOf
<1>3. l \in Loc /\ Alive(v, g, Raw(o), l)
  BY <1>1, <1>2, FilesAlive
<1>4. Torn(o) \subseteq {o.loc}
  BY DEF Torn
<1> QED  BY <1>1, <1>3, <1>4

(* No cluster is in the chains of two files.                               *)
LEMMA FilesApart ==
  ASSUME NEW v, NEW g, NEW o, Consistent(v, g, o),
         NEW k \in FilesOf(v), NEW l \in FilesOf(v), k # l,
         NEW c \in ChainSet(v, EntryAt(v, k).first), c \in ChainSet(v, EntryAt(v, l).first)
  PROVE  FALSE
<1>1. /\ k \in Loc /\ Alive(v, g, Raw(o), k) /\ l \in Loc /\ Alive(v, g, Raw(o), l)
      /\ Volume(v, g, Torn(o), Resized(o), Raw(o)) /\ Torn(o) \subseteq {o.loc}
  BY FileFacts
<1>2. (k \notin Torn(o) => g.own[c] = k) /\ (k \in Torn(o) => g.own[c] \notin Loc)
  BY <1>1, ChainOfEntry
<1>3. (l \notin Torn(o) => g.own[c] = l) /\ (l \in Torn(o) => g.own[c] \notin Loc)
  BY <1>1, ChainOfEntry
<1> QED  BY <1>1, <1>2, <1>3

(* Nor is one in the chain that fs_write or fs_append is building.         *)
LEMMA NewChainApart ==
  ASSUME NEW v, NEW g, NEW o, Consistent(v, g, o), o.pc \in {"link", "fill", "alloc"},
         NEW k \in FilesOf(v), k # o.loc, NEW c \in ChainSet(v, EntryAt(v, k).first)
  PROVE  c \notin ChainSet(v, o.first) /\ c # o.c
<1>1. /\ k \in Loc /\ Alive(v, g, Raw(o), k)
      /\ Volume(v, g, Torn(o), Resized(o), Raw(o)) /\ Torn(o) \subseteq {o.loc}
  BY FileFacts
<1>2. c \in DataClusters /\ g.own[c] = k
  BY <1>1, ChainOfEntry
<1>3. PICK w : w = Target(v, o)
  OBVIOUS
<1>4. PICK s : s = o.d.size + o.written
  OBVIOUS
<1>5. o.pc \in {"alloc", "link", "fill"}
  OBVIOUS
<1>6. /\ o.first = 0 \/ (o.first \in DataClusters /\ g.own[o.first] = w)
      /\ o.pc = "link" => g.own[o.c] = GrowTag
      /\ o.pc = "fill" => g.own[o.c] = w
      /\ w = NewTag \/ w = o.loc
      /\ w # Nobody
  BY <1>3, <1>4, <1>5, DataParts
<1>7. o.pc = "alloc" /\ IsData(o.c) => g.own[o.c] = w
  <2>1. AtData(v, g, o)
    BY DEF Consistent, Progress
  <2> QED  BY <1>3, <1>5, <2>1 DEF AtData
<1>8. k # w /\ k # GrowTag
  BY <1>1, <1>6, Tags
<1>9. c # o.c
  BY <1>2, <1>5, <1>6, <1>7, <1>8, ClusterNumbers
<1>10. ASSUME c \in ChainSet(v, o.first)  PROVE FALSE
  <2>1. CASE o.first = 0
    <3>1. PICK i \in 0 .. NCLUSTERS :
            c = cluster_at_index(v, o.first)[i] /\ IsData(cluster_at_index(v, o.first)[i])
      BY <1>10, ChainSetAt
    <3>2. ~IsData(o.first)
      BY <2>1, MarkNumbers
    <3> QED  BY <3>1, <3>2, NoChain
  <2>2. CASE o.first \in DataClusters /\ g.own[o.first] = w
    <3>1. Owners(g) /\ Linked(v, g)
      BY <1>1 DEF Volume
    <3>2. g.own[c] = w
      BY <1>6, <1>10, <2>2, <3>1, ChainSetOwned
    <3> QED  BY <1>2, <1>8, <3>2
  <2> QED  BY <1>6, <2>1, <2>2
<1> QED  BY <1>9, <1>10

(* What InOrder says about the files' chains.                              *)
LEMMA OrderDisjoint == InOrder => ChainsDisjoint
<1> SUFFICES ASSUME InOrder  PROVE ChainsDisjoint  OBVIOUS
<1>1. PICK v : v = OnDisk
  OBVIOUS
<1>2. PICK o : o = op
  OBVIOUS
<1>3. PICK g : Consistent(v, g, o)
  BY <1>1, <1>2 DEF InOrder
<1>4. \A k, l \in FilesOf(v) : k # l =>
        ChainSet(v, EntryAt(v, k).first) \cap ChainSet(v, EntryAt(v, l).first) = {}
  BY <1>3, FilesApart
<1>5. \A k \in FilesOf(v) : o.pc \in {"link", "fill", "alloc"} /\ k # o.loc =>
        ChainSet(v, EntryAt(v, k).first) \cap (ChainSet(v, o.first) \cup {o.c}) = {}
  BY <1>3, NewChainApart
<1>6. Files = FilesOf(OnDisk)
  BY DEF Files, FilesOf
<1>7. \A k, l \in Files : k # l =>
        ChainSet(OnDisk, Entry(k).first) \cap ChainSet(OnDisk, Entry(l).first) = {}
  BY <1>1, <1>4, <1>6 DEF Entry
<1>8. \A k \in Files : op.pc \in {"link", "fill", "alloc"} /\ k # op.loc =>
        ChainSet(OnDisk, Entry(k).first) \cap (ChainSet(OnDisk, op.first) \cup {op.c}) = {}
  BY <1>1, <1>2, <1>5, <1>6 DEF Entry
<1> QED  BY <1>7, <1>8 DEF ChainsDisjoint

(* Between two calls: no call in progress, nothing given up.               *)
LEMMA QuietVolume ==
  ASSUME NEW v, NEW g, NEW o, Consistent(v, g, o), o = Idle
  PROVE  /\ Volume(v, g, {}, {}, 0)
         /\ \A c \in DataClusters : g.own[c] # Nobody => g.own[c] \in Loc
<1>1. o.pc \in {"idle", "start"} \cup FormatPcs
  BY DEF Idle
<1>2. Volume(v, g, {}, {}, 0) /\ NoTag(g, NewTag) /\ NoTag(g, GrowTag)
  BY <1>1, AtRest
<1>3. Owners(g)
  BY <1>2 DEF Volume
<1> QED  BY <1>2, <1>3 DEF NoTag, Owners, Tag

(* The live entries of a quiet volume.                                     *)
LEMMA QuietFile ==
  ASSUME NEW v, NEW g, Volume(v, g, {}, {}, 0), NEW l \in FilesOf(v)
  PROVE  /\ l \in Loc /\ Alive(v, g, 0, l)
         /\ \A c \in ChainSet(v, EntryAt(v, l).first) : c \in DataClusters /\ v.fat[c] # FREE
<1>1. PICK t : t = {}
  OBVIOUS
<1>2. PICK u : u = 0
  OBVIOUS
<1>3. Volume(v, g, t, t, u)
  BY <1>1, <1>2
<1>4. PICK d \in Dirs(v) : l \in Live(v, d)
  BY DEF FilesOf
<1>5. l \in Loc /\ Alive(v, g, u, l)
  BY <1>3, <1>4, FilesAlive
<1>6. \A c \in ChainSet(v, EntryAt(v, l).first) : c \in DataClusters /\ (l \notin t => g.own[c] = l)
  BY <1>3, <1>5, ChainOfEntry
<1>7. \A c \in DataClusters : g.own[c] \in Loc => v.fat[c] # FREE
  BY <1>3, Tags DEF Volume, Linked
<1> QED  BY <1>1, <1>2, <1>5, <1>6, <1>7

(* Every taken cluster of a quiet volume is in the chain of a file.        *)
LEMMA QuietCluster ==
  ASSUME NEW v, NEW g, Volume(v, g, {}, {}, 0),
         \A c \in DataClusters : g.own[c] # Nobody => g.own[c] \in Loc,
         NEW c \in DataClusters, v.fat[c] # FREE
  PROVE  \E l \in FilesOf(v) : c \in ChainSet(v, EntryAt(v, l).first)
<1>1. PICK t : t = {}
  OBVIOUS
<1>2. PICK u : u = 0
  OBVIOUS
<1>3. Volume(v, g, t, t, u) /\ Volume(v, g, {}, t, u)
  BY <1>1, <1>2
<1>4. Owners(g) /\ Linked(v, g) /\ Owned(v, g, t, u) /\ Heads(v, g, t, u)
  BY <1>3 DEF Volume
<1>5. PICK l : l = g.own[c]
  OBVIOUS
<1>6. l \in Loc
  BY <1>4, <1>5 DEF Linked
<1>7. Alive(v, g, u, l) /\ l \notin t
  BY <1>4, <1>5, <1>6 DEF Owned
<1>8. l \in FilesOf(v)
  <2>1. Home(v, g, l) \in Dirs(v) /\ l \in Live(v, Home(v, g, l))
    BY <1>3, <1>7, EntryReached
  <2> QED  BY <2>1 DEF FilesOf
<1>9. PICK h \in DataClusters : g.own[h] = l /\ g.pos[h] = 0
  BY <1>4, <1>5, <1>6, Tags, HeadExists
<1>10. EntryAt(v, l).first = h
  BY <1>4, <1>6, <1>9 DEF Owned
<1>11. ChainSet(v, h) = {b \in DataClusters : g.own[b] = g.own[h]}
  BY <1>4, <1>6, <1>9, Tags, ChainSetIs
<1> QED  BY <1>5, <1>8, <1>9, <1>10, <1>11

(* What InOrder says about the FAT between two calls.                      *)
LEMMA OrderLeaksNothing == InOrder => NothingLeaks
<1> SUFFICES ASSUME InOrder, Quiet
             PROVE  /\ {c \in DataClusters : fat1[c] # FREE} =
                         UNION {ChainSet(OnDisk, Entry(l).first) : l \in Files}
                    /\ \A l \in Files : \A c \in ChainSet(OnDisk, Entry(l).first) : fat1[c] # FREE
  BY DEF NothingLeaks
<1>1. PICK v : v = OnDisk
  OBVIOUS
<1>2. PICK o : o = op
  OBVIOUS
<1>3. PICK g : Consistent(v, g, o)
  BY <1>1, <1>2 DEF InOrder
<1>4. o = Idle
  BY <1>2 DEF Quiet
<1>5. /\ Volume(v, g, {}, {}, 0)
      /\ \A c \in DataClusters : g.own[c] # Nobody => g.own[c] \in Loc
  BY <1>3, <1>4, QuietVolume
<1>6. \A l \in FilesOf(v) : \A c \in ChainSet(v, EntryAt(v, l).first) :
        c \in DataClusters /\ v.fat[c] # FREE
  BY <1>5, QuietFile
<1>7. \A c \in DataClusters : v.fat[c] # FREE =>
        \E l \in FilesOf(v) : c \in ChainSet(v, EntryAt(v, l).first)
  BY <1>5, QuietCluster
<1>8. Files = FilesOf(v) /\ (\A l : Entry(l) = EntryAt(v, l)) /\ v.fat = fat1
  BY <1>1 DEF Files, FilesOf, Entry, OnDisk
<1>9. \A l \in Files : \A c \in ChainSet(OnDisk, Entry(l).first) : c \in DataClusters /\ fat1[c] # FREE
  BY <1>1, <1>6, <1>8
<1>10. \A c \in DataClusters : fat1[c] # FREE =>
        \E l \in Files : c \in ChainSet(OnDisk, Entry(l).first)
  BY <1>1, <1>7, <1>8
<1> HIDE DEF DataClusters
<1> QED  BY <1>9, <1>10, Zenon

(* A file of a quiet volume has the clusters that its size needs.          *)
LEMMA QuietSize ==
  ASSUME NEW v, NEW g, Volume(v, g, {}, {}, 0), NEW l \in FilesOf(v), ~EntryAt(v, l).isdir
  PROVE  /\ Len(Chain(v, EntryAt(v, l).first)) = (EntryAt(v, l).size + BPS - 1) \div BPS
         /\ Len(fs_read(v, EntryAt(v, l), EntryAt(v, l).size)) = EntryAt(v, l).size
<1>1. PICK t : t = {}
  OBVIOUS
<1>2. PICK u : u = 0
  OBVIOUS
<1>3. Volume(v, g, t, t, u) /\ l \notin t
  BY <1>1, <1>2
<1>4. Alive(v, g, u, l)
  BY <1>2, QuietFile
<1>5. PICK e : e = EntryAt(v, l)
  OBVIOUS
<1>6. /\ Len(Chain(v, e.first)) \in Nat /\ e.size \in Nat
      /\ e.size <= BPS * Len(Chain(v, e.first))
      /\ Len(Chain(v, e.first)) = (e.size + BPS - 1) \div BPS
  BY <1>3, <1>4, <1>5, ChainLength
<1>7. Len(fs_read(v, e, e.size)) = e.size
  BY <1>6, ReadsWhole
<1> QED  BY <1>5, <1>6, <1>7

(* What InOrder says about sizes between two calls.                        *)
LEMMA OrderSizes == InOrder => SizesMatchChains
<1> SUFFICES ASSUME InOrder, Quiet, NEW l \in Files, ~Entry(l).isdir
             PROVE  /\ Len(Chain(OnDisk, Entry(l).first)) = (Entry(l).size + BPS - 1) \div BPS
                    /\ Len(fs_read(OnDisk, Entry(l), Entry(l).size)) = Entry(l).size
  BY DEF SizesMatchChains
<1>1. PICK v : v = OnDisk
  OBVIOUS
<1>2. PICK o : o = op
  OBVIOUS
<1>3. PICK g : Consistent(v, g, o)
  BY <1>1, <1>2 DEF InOrder
<1>4. o = Idle
  BY <1>2 DEF Quiet
<1>5. Volume(v, g, {}, {}, 0)
  BY <1>3, <1>4, QuietVolume
<1>6. l \in FilesOf(v) /\ Entry(l) = EntryAt(v, l)
  BY <1>1 DEF Files, FilesOf, Entry
<1>7. ~EntryAt(v, l).isdir
  BY <1>6
<1>8. /\ Len(Chain(v, EntryAt(v, l).first)) = (EntryAt(v, l).size + BPS - 1) \div BPS
      /\ Len(fs_read(v, EntryAt(v, l), EntryAt(v, l).size)) = EntryAt(v, l).size
  BY <1>5, <1>6, <1>7, QuietSize
<1> QED  BY <1>1, <1>6, <1>8

(* What InOrder says about "." and "..".                                   *)
LEMMA OrderDots == InOrder => DotsPointHome
<1> SUFFICES ASSUME InOrder, NEW d \in Dirs(OnDisk), NEW l \in Live(OnDisk, d),
                    Entry(l).isdir, Quiet \/ l # op.loc
             PROVE  /\ data[Entry(l).first][0] = NewEntry(".", TRUE, Entry(l).first)
                    /\ data[Entry(l).first][1] = NewEntry("..", TRUE, d)
  BY DEF DotsPointHome
<1>1. PICK v : v = OnDisk
  OBVIOUS
<1>2. PICK o : o = op
  OBVIOUS
<1>3. PICK g : Consistent(v, g, o)
  BY <1>1, <1>2 DEF InOrder
<1>4. Volume(v, g, Torn(o), Resized(o), Raw(o))
  BY <1>3 DEF Consistent
<1>5. d \in Dirs(v) /\ l \in Live(v, d)
  BY <1>1
<1>6. l \in Loc /\ Alive(v, g, Raw(o), l) /\ Home(v, g, l) = d
  BY <1>4, <1>5, FilesAlive
<1>7. l \notin Torn(o)
  <2>1. CASE Quiet
    BY <1>2, <2>1 DEF Quiet, Idle, Torn, Freeing
  <2>2. CASE l # op.loc
    BY <1>2, <2>2 DEF Torn
  <2> QED  BY <2>1, <2>2
<1>8. Entry(l) = EntryAt(v, l) /\ v.data = data
  BY <1>1 DEF Entry, OnDisk
<1>9. /\ v.data[EntryAt(v, l).first][0] = NewEntry(".", TRUE, EntryAt(v, l).first)
      /\ v.data[EntryAt(v, l).first][1] = NewEntry("..", TRUE, Home(v, g, l))
  BY <1>4, <1>6, <1>7, <1>8 DEF Volume, Dots
<1> QED  BY <1>6, <1>8, <1>9

(* What InOrder says about dangling: only the entry of the chain that a    *)
(* call has given up may dangle.                                           *)
LEMMA OrderDangles ==
  ASSUME InOrder, Torn(op) = {}
  PROVE  NothingDangles
<1> SUFFICES ASSUME NEW l \in Files
             PROVE  /\ \A c \in ChainSet(OnDisk, Entry(l).first) : fat1[c] # FREE
                    /\ ~Entry(l).isdir => Len(fs_read(OnDisk, Entry(l), Entry(l).size)) = Entry(l).size
  BY DEF NothingDangles
<1>1. PICK v : v = OnDisk
  OBVIOUS
<1>2. PICK o : o = op
  OBVIOUS
<1>3. PICK g : Consistent(v, g, o)
  BY <1>1, <1>2 DEF InOrder
<1>4. l \in FilesOf(v) /\ Entry(l) = EntryAt(v, l) /\ v.fat = fat1
  BY <1>1 DEF Files, FilesOf, Entry, OnDisk
<1>5. /\ l \in Loc /\ Alive(v, g, Raw(o), l) /\ l \notin Torn(o)
      /\ Volume(v, g, Torn(o), Resized(o), Raw(o))
  BY <1>2, <1>3, <1>4, FileFacts
<1>6. \A c \in ChainSet(v, EntryAt(v, l).first) : c \in DataClusters /\ g.own[c] = l
  BY <1>5, ChainOfEntry
<1>7. \A c \in ChainSet(v, EntryAt(v, l).first) : v.fat[c] # FREE
  BY <1>5, <1>6, Tags DEF Volume, Linked
<1>8. PICK e : e = EntryAt(v, l)
  OBVIOUS
<1>9. ASSUME ~e.isdir  PROVE Len(fs_read(v, e, e.size)) = e.size
  <2>1. /\ Len(Chain(v, e.first)) \in Nat /\ e.size \in Nat
        /\ e.size <= BPS * Len(Chain(v, e.first))
    BY <1>5, <1>8, <1>9, ChainLength
  <2> QED  BY <2>1, ReadsWhole
<1> QED  BY <1>1, <1>4, <1>7, <1>8, <1>9

(* A call stays the call it is until it returns.                           *)
LEMMA CallStays ==
  ASSUME op \in OpType, Step,
         op.pc = "free" => op.what \in {"fs_mkdir", "fs_delete", "fs_rmdir", "fs_write"}
  PROVE  op'.what = op.what \/ op' = Idle
<1>1. CASE Mirror \/ fs_init
  BY <1>1 DEF Mirror, fs_init, Mount, FormatBoot, FormatFat, FormatReserved, FormatRoot, OpType
<1>2. CASE FindFree
  BY <1>2 DEF FindFree, Return, OpType
<1>3. CASE GrowLink \/ GrowZero \/ CreateEntry \/ WriteBack
  BY <1>3 DEF GrowLink, GrowZero, CreateEntry, WriteBack, Return, OpType
<1>4. CASE FreeNext
  BY <1>4 DEF FreeNext, OpType
<1>5. CASE FreeDone
  <2>1. CASE op.what = "fs_mkdir"
    BY <1>5, <2>1 DEF FreeDone, Return
  <2>2. CASE op.what \in {"fs_delete", "fs_rmdir"}
    BY <1>5, <2>2 DEF FreeDone, OpType
  <2>3. CASE op.what = "fs_write"
    BY <1>5, <2>3 DEF FreeDone, OpType
  <2> QED  BY <1>5, <2>1, <2>2, <2>3 DEF FreeDone
<1>6. CASE AllocDone \/ DiskFull \/ Alloc
  BY <1>6 DEF AllocDone, DiskFull, Alloc, OpType
<1>7. CASE Link \/ Fill
  BY <1>7 DEF Link, Fill, OpType
<1>8. CASE fs_create \/ fs_create_exists \/ fs_write \/ fs_delete \/ fs_rename
  BY <1>8 DEF fs_create, fs_create_exists, fs_write, fs_delete, fs_rename, Fail, Return, OpType
<1>9. CASE fs_append
  BY <1>9 DEF fs_append, Fail, Return, OpType
<1>10. CASE fs_mkdir \/ MkdirZero \/ MkdirDot \/ MkdirDotDot \/ fs_rmdir
  BY <1>10 DEF fs_mkdir, MkdirZero, MkdirDot, MkdirDotDot, fs_rmdir, Fail, Return, OpType
<1> QED  BY <1>1, <1>2, <1>3, <1>4, <1>5, <1>6, <1>7, <1>8, <1>9, <1>10 DEF Step

(* A call that frees no chain has given none up.                           *)
LEMMA NothingTorn ==
  ASSUME NEW o, o.what \notin {"fs_write", "fs_delete", "fs_rmdir"}
  PROVE  Torn(o) = {}
BY DEF Torn, Freeing

-----------------------------------------------------------------------------
(* The properties of the volume, for every instance.  A power failure may  *)
(* fall between a freed chain and its entry, so they are about what        *)
(* happens before the first one.                                           *)

(* ChainsDisjoint (fat_alloc_cluster, fs_write, fs_append): no cluster     *)
(* ever belongs to two files or directories, nor to a file and the chain   *)
(* a call is building, whatever calls succeeded or failed before.          *)
THEOREM ChainsNeverCross == Spec => [](crashes = 0 => ChainsDisjoint)
<1>1. VInv => (crashes = 0 => ChainsDisjoint)
  BY OrderDisjoint DEF VInv
<1> QED  BY <1>1, VolumeInvariant, PTL

(* NothingLeaks (fat_free_chain and the error paths of every call):        *)
(* between two calls the taken clusters are exactly those of the files and *)
(* directories that walk_path can reach.                                   *)
THEOREM NoClusterLeaks == Spec => [](crashes = 0 => NothingLeaks)
<1>1. VInv => (crashes = 0 => NothingLeaks)
  BY OrderLeaksNothing DEF VInv
<1> QED  BY <1>1, VolumeInvariant, PTL

(* SizesMatchChains (fs_write, fs_append, fs_read): between two calls a    *)
(* file has exactly the clusters its size needs and fs_read copies all of  *)
(* it.                                                                     *)
THEOREM SizesAlwaysMatch == Spec => [](crashes = 0 => SizesMatchChains)
<1>1. VInv => (crashes = 0 => SizesMatchChains)
  BY OrderSizes DEF VInv
<1> QED  BY <1>1, VolumeInvariant, PTL

(* DotsPointHome (fs_mkdir): the first two entries of every directory are  *)
(* itself and the directory that holds its entry.                          *)
THEOREM DotsAlwaysPointHome == Spec => [](crashes = 0 => DotsPointHome)
<1>1. VInv => (crashes = 0 => DotsPointHome)
  BY OrderDots DEF VInv
<1> QED  BY <1>1, VolumeInvariant, PTL

(* No entry dangles while no call has given up a chain: after every write  *)
(* of fs_create, fs_append, fs_rename, fs_mkdir and the format.            *)
THEOREM NothingDanglesUnlessTorn ==
  Spec => [](crashes = 0 /\ op.what \notin {"fs_write", "fs_delete", "fs_rmdir"} => NothingDangles)
<1>1. VInv => (crashes = 0 /\ op.what \notin {"fs_write", "fs_delete", "fs_rmdir"} => NothingDangles)
  BY OrderDangles, NothingTorn DEF VInv
<1> QED  BY <1>1, VolumeInvariant, PTL

(* DanglesOnlyByFreeing: in a run without a power failure only fs_write,   *)
(* fs_delete and fs_rmdir write a sector after which an entry dangles.     *)
THEOREM OnlyFreeingDangles == Spec /\ [](crashes = 0) => DanglesOnlyByFreeing
<1>1. /\ VInv /\ VInv' /\ crashes = 0 /\ (crashes = 0)' /\ [Next]_vars
      => [op.what \notin {"fs_write", "fs_delete", "fs_rmdir"} /\ disk' # disk /\ NothingDangles
            => NothingDangles']_vars
  <2> SUFFICES ASSUME VInv, VInv', crashes = 0, crashes' = 0, [Next]_vars,
                      op.what \notin {"fs_write", "fs_delete", "fs_rmdir"}, disk' # disk
               PROVE  NothingDangles'
    OBVIOUS
  <2>1. InOrder /\ InOrder'
    BY DEF VInv
  <2>2. /\ op \in OpType
        /\ op.pc = "free" => op.what \in {"fs_mkdir", "fs_delete", "fs_rmdir", "fs_write"}
    BY <2>1 DEF InOrder, Consistent, Progress, AtFree
  <2>3. Step
    BY DEF Next, Call, fs_chdir, Crash, vars, disk
  <2>4. op'.what \notin {"fs_write", "fs_delete", "fs_rmdir"}
    BY <2>2, <2>3, CallStays DEF Idle
  <2>5. Torn(op') = {}
    BY <2>4, NothingTorn
  <2>6. (InOrder /\ Torn(op) = {} => NothingDangles)'
    BY OrderDangles, PTL
  <2> QED  BY <2>1, <2>5, <2>6
<1> QED  BY <1>1, VolumeInvariant, PTL DEF Spec, DanglesOnlyByFreeing
=============================================================================
