-------------------------------- MODULE FsBoot --------------------------------
(***************************************************************************)
(* The volume at boot.  The kernel task creates the shell and then runs    *)
(* fs_init; from the first tick on the shell runs too, and nothing makes   *)
(* it wait.  Two tasks are then inside kernel/fs.c, each with a call and   *)
(* locals of its own (one FatVolume each), on one disk, one cached root    *)
(* and one current directory.  A tick may fall between any two sector      *)
(* writes.                                                                 *)
(***************************************************************************)
EXTENDS Integers

CONSTANTS NCLUSTERS, ROOT_ENTRIES, EPC, BPS, FPS, Names, Payloads, Ops, MaxCrashes

VARIABLES
  marker, fat1, fat2, rootDisk, data,  \* the disk
  root, cwd,                           \* static variables of fs.c
  crashes,
  kmirror, kop, kret,                  \* the kernel task's call: fs_init
  smirror, sop, sret                   \* the shell's call

shared == <<marker, fat1, fat2, rootDisk, data, root, cwd, crashes>>
kcall  == <<kmirror, kop, kret>>
scall  == <<smirror, sop, sret>>
vars   == <<shared, kcall, scall>>

K == INSTANCE FatVolume WITH mirror <- kmirror, op <- kop, ret <- kret
S == INSTANCE FatVolume WITH mirror <- smirror, op <- sop, ret <- sret

(* The image's disk, not formatted yet; the shell has no call in progress. *)
Init == K!Init /\ smirror = S!NoMirror /\ sop = S!Idle /\ sret = 0

(* The kernel task: fs_init, and then it only halts.                       *)
kernel == (K!fs_init \/ K!Mirror) /\ UNCHANGED scall

(* The shell: a file command is begun, or the one in progress goes on.     *)
shell_task == (S!Call \/ S!Step) /\ UNCHANGED kcall

(* The power fails or the shell reboots.                                   *)
Crash ==
  /\ K!Crash
  /\ smirror' = S!NoMirror /\ sop' = S!Idle /\ sret' = 0

Next == kernel \/ shell_task \/ Crash

Spec == Init /\ [][Next]_vars

-----------------------------------------------------------------------------
(* "FAT copy #2 always mirrors FAT copy #1 exactly - ... they can never    *)
(* drift apart" (fs.c, above fat_read), here once both tasks are done.     *)
FatsMirroredAfterBoot == K!Quiet /\ S!Quiet => fat1 = fat2
=============================================================================
