# A TLA+ model of RinkOS

RinkOS is a small 32-bit x86 kernel: a boot sector, a freestanding C kernel
with a heap, preemptive round-robin tasks, a keyboard and a VGA console, an ATA
driver, a FAT16-style filesystem and a shell. This directory holds TLA+ modules
of its core, the TLC configurations that check them on small instances, and
TLAPS proofs. Paths below are relative to the repository.

To check: `tlc -config MCHeap.cfg MCHeap` (and so on for each run below);
`tlapm HeapProofs.tla` (and so on for each `*Proofs` module).

## Inventory

| Part | State | Operations | Talks to |
|---|---|---|---|
| Heap, `kernel/mm.c` | list of block headers from `_bss_end` | `kmalloc`, `kfree`, `coalesce`, `kmalloc_stats` | tasks (stacks), shell (line buffer) |
| Filesystem, `kernel/fs.c` | boot sector, two FATs, root area and clusters on disk; cached root, cwd in RAM | `fs_init`, `fs_create`, `fs_write`, `fs_append`, `fs_read`, `fs_delete`, `fs_rename`, `fs_mkdir`, `fs_rmdir`, `fs_chdir`, `fs_stat`, `fs_list` | ATA driver; called by the shell and (once) the kernel task |
| Scheduler, `kernel/task.c`, `timer.c`, `interrupts.asm` | task table, `current_task`, `task_count` | `schedule` on each tick, `task_create_named`, `task_kill` | heap; every task |
| Keyboard, `kernel/keyboard.c` | ring buffer, shift and caps flags | `keyboard_handler` (IRQ 1), `keyboard_getchar` | shell |
| Shell, `kernel/shell.c` | line buffer, history | read a line, run a command | all of the above |
| Console, `kernel/kernel.c` | screen, software and hardware cursor | `vga_putchar`, `vga_clear`, scroll | the shell prints; so does boot |
| Timer, `kernel/timer.c` | `ticks` | `timer_handler`, `timer_get_seconds` | scheduler, `uptime` |
| ATA driver, `kernel/disk.c` | controller registers | read and write a sector | filesystem |
| Interrupts, `idt.c`, `pic.c`, `interrupts.asm` | IDT, PIC masks and in-service bits | setup, stubs, EOI | timer, keyboard |
| Boot loader, `boot/boot.asm` | registers, memory map at 0x9000 | `disk_load`, `detect_memory`, mode switch | kernel image, heap end |
| Kernel entry, `kernel_entry.asm`; GDT | - | straight-line setup | kernel |

What is hard in this system:

* **Preemption without locks.** Interrupts are on almost everywhere, so a tick
  may fall between any two stores of task creation, kill, `keyboard_getchar`,
  `fs_init` and the ATA driver. The kernel task creates the shell before it
  mounts the volume, so two tasks can be in the filesystem at boot.
* **Interrupt state across context switches.** A task's first run starts by a
  plain `ret` with interrupts off; later runs resume through `iretd`.
* **Multi-sector updates.** Every filesystem call is a sequence of sector
  writes; a full disk or a power failure can end it after any of them.
* **Arithmetic at boundaries**: block splitting, ring indices, appends at a
  cluster boundary, 16- and 32-bit addresses while booting, and text buffers of
  five different lengths that a path goes through.
* **State kept twice**: the root directory and its cache, two FATs, `cwd_cluster`
  and `cwd_path`, the software and the hardware cursor, the line and its image
  on the screen.

What makes each part correct: the heap's blocks tile it and callers' memory is
disjoint; on the volume chains are disjoint, nothing leaks, sizes match chains
and each call changes only its target; the scheduler only resumes live tasks
with a context and a stack of their own and starves nobody; the keyboard is a
FIFO queue; a path leads where the tree says; a written sector is whole and
durable; no interrupt is lost, misdirected or left in service; the screen shows
what enter will run; the kernel is loaded where it is linked and the heap is
real memory. `PROJECT.json` lists the hazards line by line.

## Modules

| Module | Models |
|---|---|
| `Heap` | `mm.c`: `kmalloc` and `coalesce` one loop iteration per step |
| `MCHeap` | TLC instance |
| `HeapProofs` | proofs about `Heap` |
| `FatVolume` | `fs.c`: one sector write per step, with crashes |
| `FatProofs` | proofs about `FatVolume` |
| `FileStore` | abstract: a tree of files changed by one call at a time |
| `FatStore` | the refinement mapping from `FatVolume` to `FileStore` |
| `MCFatVolume` | TLC instances |
| `Tasks`, `MCTasks` | `task.c`, the timer interrupt, and the tasks' life cycle |
| `TasksProofs` | proofs about `Tasks` |
| `CharQueue` | abstract: a bounded FIFO queue |
| `Keyboard`, `MCKeyboard` | `keyboard.c`; implements `CharQueue` |
| `KeyboardProofs` | proofs about `Keyboard`, its refinement included |
| `FsBoot`, `MCFsBoot` | two `FatVolume` instances on one disk: the kernel task in `fs_init` and the shell |
| `Paths`, `MCPaths` | `fs.c`: `walk_path`, `resolve_parent`, `cwd_path` over a tree |
| `PathsProofs` | proofs about `Paths` |
| `SectorStore` | abstract: whole, durable sectors |
| `AtaDisk`, `MCAtaDisk` | `disk.c` one port access per step; implements `SectorStore` |
| `AtaProofs` | proofs about `AtaDisk`, its refinement included |
| `Interrupts` | `idt.c`, `pic.c`, the stubs and EOIs, from boot to task switches |
| `Console` | `kernel.c`: `vga_*` and `kprint` as operators on a screen |
| `Shell`, `MCShell` | `shell.c`: line editor, history, dispatch, argument parsing |
| `ShellProofs` | proofs about `Shell` and `Console` |
| `BootLoad` | `boot.asm`: `load_kernel`, `disk_load` |
| `MemoryMap` | `boot.asm`: `detect_memory`; `mm.c`: `find_heap_end` |
| `Boot`, `MCBoot` | composes `MemoryMap`, `BootLoad` and `Interrupts` in the order of `boot.asm` and `kernel_main` |
| `BootProofs` | proofs about `Boot` and the three modules it composes |

How they fit together: `FatVolume` takes a sector write for one durable step,
which is what `AtaDisk` is shown to provide to a single caller
(`ImplementsSectorStore`); `Paths` says which directory a call of `FatVolume`
works in; `Tasks` assumes that the timer interrupt keeps coming, which
`Boot` checks (`TicksGoOn`); `Heap` takes the `HEAP_END` that `MemoryMap`
computes; `Shell` takes the characters that `Keyboard` delivers in order and
prints through `Console`; `FsBoot` composes two callers of the filesystem; `Boot`
composes what happens between power-on and the first task.

Definitions whose comment starts with *Variant* are deliberately wrong versions
of the definition after them. Nothing uses them; replacing the definition by
its variant makes a property fail, which shows that the property depends on it.

### Heap

`hdr` maps the address of each header on the list to its fields; `curr` is the
loops' cursor. `live` is history: the pointers handed out and the sizes asked
for. `kmalloc(n)` starts a search; `SearchNext`, `SearchFit` and `SearchFail`
are the three outcomes of an iteration; `kfree(p)` marks the block and starts
`CoalesceMerge`, `CoalesceNext`, `CoalesceDone`. One call is in progress at a
time: `kernel_main` allocates before interrupts are on, the kernel task before
the shell exists, and afterwards only the shell allocates and frees.
`find_heap_end` is the constant `HEAP_END`.

### Filesystem

`fat1`, `fat2`, `rootDisk`, `data` and `marker` are the disk; `root` and `cwd`
are RAM; `op` holds the call in progress with its C locals and a label. Each
step of a call performs at most one write. `fat_write` is two: FAT1, then the
pending step `Mirror`. `root_save` rewrites all sectors of the root area but
only one entry differs, so one step has the effect of any prefix that contains
that sector. Reads are operators of a volume record: `Kernel` (what the code
sees) and `OnDisk` (what a reboot would find).

Abstractions: a name is an 8.3 name after `split_name`; the parent directory of
a call is any directory that `resolve_parent` can reach (`Dirs`); a path that
does not resolve has no effect (`Paths` has the text). A cluster holds either
`BPS` bytes or `EPC` directory entries. `fs_list`, `fs_stat` and
`fs_debug_stats` change nothing and are left out. In `FatVolume` one call runs
at a time, which is so once `fs_init` has returned, for only the shell calls the
filesystem. `FsBoot` is the time before: the kernel task's `fs_init` and the
shell's calls are two instances of `FatVolume` with their own call state (`op`,
`mirror`, `ret`) on a shared disk, root cache and current directory.

`FileStore` says what callers are promised. Its only intermediate state is
`Torn`: `fs_write`, `fs_delete` and `fs_rmdir` free the clusters of their target
before its entry changes. A `Crash` may change the target of such a call only.
`FatStore` adds the auxiliary variable `tree`, always
the tree that the scans and `fs_read` find on the disk, and checks that every
sector write is a step of `FileStore` or a stutter.

### Paths

`entries` is the set of directory entries and `dotdot` the cluster each `..`
entry holds; `cwd` is `cwd_is_root` and `cwd_cluster`, which stays stale when
the current directory becomes the root, as in the code. A component of a path is
a range of characters of a word, so that cutting it to a buffer is arithmetic;
all five buffer lengths are constants. A call is one action; it fails as a whole
when the path does not resolve. Left out: extensions, upper-casing, repeated
slashes, and the free slots of a directory, which `FatVolume` has. `Meaning` is
the reference that `walk_path` is compared with: it knows only the tree.

### Scheduler

A thread is what lies on a stack: `frame[b]` is the code, position and locals
on the stack at base `b`, and `sp` is the stack the CPU is on. A saved `esp`
is a base and a kind: `entry` (the five words of `task_create_named`; `ret`
leaves IF clear) or `saved` (`iretd` sets it). `task_create_named` and
`task_kill` take one step per store that the timer handler can see. `Tick` is
the timer interrupt; `ScheduleSkip`, `ScheduleSame` and `ScheduleSwitch` are the
iterations and outcomes of `schedule`, with interrupts off. `schedule`'s early
return for an empty table cannot be reached and would show as a deadlock. The
heap appears as the set of stack-sized blocks `kmalloc` can still hand out.

### Keyboard

`keyboard_handler` is one action (interrupts are off); `keyboard_getchar` is
split at each access and at `hlt`, with `hlt` (about to be executed) and
`halted` apart, so that an interrupt between the test and the `hlt` is a lost
wakeup. The keyboard itself is external: `held` are the shift keys that are
down and `wire` the scancodes under way. It is assumed that every scancode
reaches the handler; the boot-time loops in `kernel.c` that drain the
controller are not modelled.

### ATA driver

Each client (task in the driver) has a position, its arguments and its buffer;
every port access is a step. The drive is external: LBA registers, a status that
is busy for a while after each command, a buffer that moves word by word, and a
write cache that only a flush, or the drive's own initiative, empties onto the
platter. A power failure can come at any step. Only the LBA-low and LBA-mid
registers vary: the volume ends below LBA 65536. The drive reports no errors,
since the driver does not look at the error bit.

### Interrupts

`Interrupts` starts with interrupts off and the BIOS's vectors, takes one step
each for `idt_init`, `pic_remap` and `sti`, and then lets devices raise lines
and the PICs (external: priority, masks, in-service bits, non-specific EOI)
deliver them through the gates. `schedule` may pick any task: one that has not
run yet enters with interrupts off and `sti`, one that was switched away from
returns from its own timer interrupt. `kernel_main` never comes back.

### Console and shell

A screen is a record of cells, software cursor and hardware cursor; the
`vga_*` functions are operators on it. `Shell` takes one action per character
that `keyboard_getchar` returns: `TypeChar`, `EraseChar`, and `run_command` for
enter, which prints the newline, records the line, dispatches on the first word,
makes the call and prints the prompt. A command word is one character; what
commands print that the user has not typed is one of a few texts, with and
without a final newline. Once tasks run only the shell prints, so printing needs
no interleaving.

### Boot

`BootLoad` has the registers with their widths (the LBA shares EAX with the BIOS
function number), one action per BIOS call, and the real sizes. In `MemoryMap`
the BIOS may report any of the maps in a set, end by a zero continuation value
or by a carry, and include empty entries; `find_heap_end` looks at one entry per
step with 32-bit truncation (`WRAP`). `Boot` runs `detect_memory`, `load_kernel`
(which a BIOS error stops for good), `kmalloc_init`, and then `Interrupts`. A
chunk that crossed 64 KB would wrap inside the BIOS call (`Linear`).

## Runs

| Run | Configuration | States | Checks |
|---|---|---|---|
| `heap` | `MCHeap.cfg` | 22 378 | types, tiling, memory safety, complete coalescing, termination |
| `fat_files` | `MCFatFiles.cfg` | 340 748 | chains, leaks, sizes, termination, refinement of `FileStore` |
| `fat_dirs` | `MCFatDirs.cfg` | 209 452 | leaks, `.`/`..`, refinement of `FileStore` with directories and cwd |
| `fat_crash` | `MCFatCrash.cfg` | 275 256 | what a power failure inside any call can harm; how the FATs can come to differ |
| `tasks` | `MCTasks.cfg` | 302 582 | contexts, stacks, no starvation |
| `tasks_slots` | `MCTasksSlots.cfg` | violation | refused although slots are unused |
| `keyboard` | `MCKeyboard.cfg` | 714 252 | FIFO refinement, delivery, shift |
| `fs_boot` | `MCFsBoot.cfg` | violation | the shell writes while `fs_init` formats |
| `paths` | `MCPaths.cfg` | 9 224 | paths, `..` and the parent agree with the tree; what makes pwd's text wrong |
| `ata` | `MCAtaDisk.cfg` | 14 229 | protocol, refinement of `SectorStore`, termination |
| `boot` | `MCBoot.cfg` | 51 350 | kernel in place, heap is RAM, gates, EOI order, keys and ticks go on |
| `shell` | `MCShell.cfg` | 623 512 | the screen shows the line and the cursor; history; the words of `write`, `append` and `mv` |

**Bounds.** `heap`: 87 bytes with the real 12-byte header and three request
sizes hold up to five blocks, enough for exact fits, remainders just too small
to split, exhaustion, and free runs of every shape around a used block.
FAT runs: two-byte clusters, so that a three-byte payload needs two of them,
appends start inside and at the end of a cluster, and the disk fills up in the
middle of calls. `fat_files` has three clusters and two root entries;
`fat_dirs` has one root entry and three entries to a directory cluster (`.`,
`..` and one more), so that directories grow, nest, and fill up. `fat_crash` has
two clusters, directories that need not grow, and one power failure at any
point, the format included; it follows the failure up to the end of the next
`fs_init` (`UntilMounted`). Its two names are model values and interchangeable:
nothing in the module compares names but for equality.
`tasks`: four slots and four stacks: the kernel, the shell and two counter
tasks, so that a stack is freed and reused and the table fills up; `tasks_slots`
needs three. `keyboard`: a ring of three cells that fills and wraps, one letter,
one other key, one key without a character, both shift keys and caps lock.
`paths`: names of at most two characters, one that is cut to the same name as
another, three directory clusters, so that directories nest, go and come back,
trees of three directories or of two entries with a file (`SmallTree`), and eight
paths that are absolute, relative, dotted or end in a slash. The buffers are in the order
they have in the code. Components and directory parts fit theirs; `cwd_path` has
six characters and `pwd` five, so that `/aa/b` fits both, `/aa/aa` the first only
and `/aa/aa/b` neither.
`ata`: one caller, sectors of two words, LBA bytes with two values, sector
contents that share words. `boot`: the real sizes, with no sector, counts just
above one chunk and just above 64 KB, and the largest count; maps of up to three
entries in room for two, empty ones among them, in KB with the real heap limit and
wrap, with regions that end below that limit, at 639 KB as on a PC, and at and
across 4 GB, and a reserved one over the heap's start; timer, keyboard and a masked
disk line; `kernel_main` and two tasks. `shell`: a screen of three rows of five cells that a prompt and a line fill and scroll, a
history of two, and a buffer for names of two characters. Any line of up to four
characters may be typed and run, and as the first one any line of up to six that
begins with `write`, `append` or `mv`, in which a name can fill its buffer, or not
fit it, and be followed by nothing, by spaces, or by a content with spaces. The
shell is followed further only after `clear`, `history` and one `write` (`AfterRepeatedLines`, `LongLinesFirst`).

**Fairness.** `heap` and `fat_files`: a step of the call in progress is
eventually executed; the code has no wait inside these calls and the scheduler
gives the calling task the CPU (`EveryTaskRuns`). For the volume, weak fairness of
`Step` is written with "a call is in progress" for `ENABLED Step`: TLC checks that
there are no deadlocks, so these are the same, and the former is cheaper to test. `tasks`: the timer interrupt
is eventually taken while enabled, since the PIT runs from power-on, and the CPU executes
what it is pointed at; nothing is assumed of the user. `keyboard`: the shell's
steps, and the timer interrupt while it is halted. `CharactersArrive` fails
without the latter: only the tick repairs the lost wakeup. `ata`: a busy drive
finishes its command and the task in the driver gets the CPU; nothing is assumed
of requests. `boot`: BIOS calls return and the CPU executes (weak), the PIT ticks
and a request that can be delivered again and again is delivered (strong: between
a handler's end and the next tick, milliseconds later, there is time for the
keyboard's).

**What was found.** Two runs refute a statement in the sources; `findings` in
`PROJECT.json` quotes them.

* The two FAT copies "can never drift apart" (`fs.c:101`). They do when the shell
  writes while `fs_init` formats (`fs_boot`).
* Slots of killed tasks are never reused, so that spawn is refused with unused
  slots (`tasks_slots`; `task.h:20`).

The model shows more places where the code does less than its comments say. They
have no run of their own; where a run comes past them, its property names the
exception:

* A power failure between the two writes of one `fat_write` leaves copies that
  differ, and `fs_init` mounts them so (`fs.c:101`, `126`). Only FAT1 is ever read,
  so a later call does not notice. `DriftOnlyInsideFatWrite` says that nothing
  else in a single caller's run does this.
* `pwd` should "show current directory" (`Command.md:29`). It does not after a
  directory on the way has been renamed; nor after a path that outgrows `cwd_path`:
  `path_append` stops at its end (`fs.c:364`), and each `cd ..` takes a component
  off the text that may never have got into it; nor when the text is longer than
  the buffer of `cmd_pwd` (`shell.c:50`). `PwdStaleOnlyByRenameOrLength` says that
  nothing else makes it wrong.
* A directory part that overflows its buffer is cut, and the call works in another
  directory (`fs.c:434`, `454`). A component that overflows its buffer is cut to one
  name by `resolve_parent` and taken for several by `walk_path` (`fs.c:382`, `401`).
  `ParentIsNamed` and `CdGoesThere` are checked and proved for those that fit.
* The heap stays "safely below the 0x90000 stack" (`mm.c:39`; `mm.c:12`: "well
  clear"), but 0x90000 is the top of that stack (`boot.asm:218`), so on a PC the
  heap contains it. `HeapIsRam` gives the bound 0x90000 and no more. Once tasks run
  nobody returns to the boot stack.
* A file name of 64 characters or more is split in the middle, and its end becomes
  content, or the new name of `mv` (`shell.c:133`, `136`). `ShortWordsKept` is about
  names that fit.
* A failed `kmalloc` is used as a stack (`task.c:62`), a rename within the root can
  be refused after `cd ..` (`fs.c:411`), and two tasks can be in the ATA driver at
  boot (`disk.c:32`).

**Crashes while clusters are freed.** `fs_write`, `fs_delete` and `fs_rmdir` free
a chain before they change the entry. `fat_crash` shows that a power failure
inside them harms their target only, and that the other calls lose nothing: an
entry refers to a free cluster only after one of these three freed it
(`DanglesOnlyByFreeing`). But after the reboot later calls can hand that cluster
to another file; no document promises otherwise, so the run ends when the volume
is mounted again.

## Proofs

Every theorem is about the specification that the run of its component checks,
for all values of the constants that satisfy the module's `ASSUME`, and follows
from an inductive invariant: one lemma says that it holds initially, one lemma
per action (or group of actions) that a step keeps it. `PROJECT.json` lists the
results under `theorems`.

**Heap** (`HeapProofs`). For every heap, header size and set of positive request
sizes: `TypeCorrect`, `TilingHolds`, `MemorySafety` and `CoalesceIsComplete`, the
invariants of the run `heap`; and `FragmentationHeals`: once every pointer has
been freed the heap is a single free block again. `MemorySafe` is not inductive:
that two callers' blocks are disjoint follows from the blocks tiling the heap
(`Tiling`) and each pointer owning a used block of its size (`LiveBlocksHeld`,
`UsedBlocksOwned`). `FullyCoalesced` speaks of the time between calls; in the
middle of a pass `IInv` says that free neighbours remain only from `coalesce`'s
cursor on.

**Scheduler** (`TasksProofs`). For every size of the table and every heap with a
stack per slot: `RunningTaskIsCurrent`, `TasksResumable`, `StacksNeverShared` and
`StacksReclaimed`. The hypothesis `EnoughStacks` is needed: `task_create_named`
goes on with NULL when `kmalloc` fails, and two tasks created so do share a stack
(`task.c:62`). None of the four is inductive by itself, for each depends on where
every interrupted thread stands. The invariant follows the three threads that
change the table, `kernel_main`, the kernel task and the shell (`MainInv`,
`KernelInv`, `ShellInv`): what each may assume of the others at each of its
stores, and hence that at most one creation is ever between its `kmalloc` and its
store to `used`, and that only it knows its stack (`NewStackInv`). `StackInv` and
`Accounted` follow the blocks. `StacksNeverShared` has an exception that the code
makes: `task_kill` gives a stack back before it clears `used` (`task.c:109`), so
for these two stores the killed task's stack, and no other live one, is free.

**Keyboard** (`KeyboardProofs`). `RingIsQueue`: for every ring size and every
interleaving of the handler with the loads and stores of `keyboard_getchar`, the
ring is a bounded queue (`CharQueue`) that drops the newest character when it is
full; `ShiftReleased`. The refinement maps the cells from the read to the write
index to a sequence; the step lemmas are about arithmetic modulo the ring size.
`GetcharInv` says that what `keyboard_getchar` loaded stays true until it uses it
(the handler only adds), and `ShiftInv` that the flag is what the held keys and
the scancodes under way will make it.

**Boot** (`BootProofs`). `GatesAreHandled` and `EoiBeforeTasks` for every set of
lines and tasks; `HeapIsUsable` for every BIOS memory map of any length, with
empty entries and more entries than are kept (it bounds the heap by 0x90000, the
top of the boot stack, and does not keep it clear of that stack);
`KernelLoaded` for every kernel length, with the real sector and chunk sizes
(`RealSizes`, 512 bytes and 32 sectors: the statement that no chunk crosses 64 KB
is about these numbers). Each of the three parts has its invariant: `IntInv`;
`MapInv` (what has been stored of what was reported, and where the entry count
points); `LoadInv` (the registers are functions of the sectors read so far, and
these are each in place once). A step of `Boot` is a step or a stutter of each
part (`BootIntStep`, `BootMapStep`, `BootLoadStep`), so the parts are proved apart.

**ATA driver** (`AtaProofs`). For every sector size, LBA base and set of sectors,
with power failures at any step: `NeverOutOfTurn`, and `DriverIsStore`, the
refinement of `SectorStore`. The hypothesis `OneClient` is the situation after
`fs_init` has returned, when only the shell is in the driver; with two clients
both are false (`disk.c:32`). `ClientInv` says for each label of the driver what
the registers, the drive's status, its transfer and its cache hold. The step
that takes effect in the store is the drive's completion of a flush, or its
earlier initiative to empty its cache (`DestageRefines`), or the end of a read.

**Filesystem** (`FatProofs`). For every volume size, without a power failure the
two FAT copies agree between any two `fat_write`s (`CopiesMirrored`), and a power
failure makes them differ only when it comes between the two sector writes of one
`fat_write` (`FatsDriftInOneWay`). `FatsMirrored` is not inductive:
`Synced` adds that the pending write carries the whole of FAT1 and that the copies
differ in its sector at most.

The volume itself, for every size, every set of names and payloads and every
sequence of calls before the first power failure: no cluster ever belongs to two
files (`ChainsNeverCross`), none leaks between calls (`NoClusterLeaks`), sizes
and chains agree (`SizesAlwaysMatch`), the directories form a tree
(`DotsAlwaysPointHome`), no entry dangles outside `fs_write`, `fs_delete` and
`fs_rmdir` (`NothingDanglesUnlessTorn`), and `DanglesOnlyByFreeing` holds of
behaviours without a power failure (`OnlyFreeingDangles`). The restriction is
needed: after a reboot a cluster that a torn call freed can be handed out again
while an entry still names it. The runs `fat_files` and `fat_dirs` are the same
theorems on small volumes without power failures. All of them follow from
`VolumeInvariant`:

* *Owners.* For some ghost `g`, each data cluster has an owner (nobody, the
  location of a directory entry, or the call in progress), a position in the
  owner's chain and a depth in the tree. `Linked` says that a FAT link stays
  with its owner and adds one to the position, `Heads` and `Owned` that entries
  and chains name each other, `Dots` what a directory begins with, `Sized` where
  a file's chain ends. `GivenUp` and the parameters of `Volume` are the
  exceptions that the call in progress makes: the entry whose chain it frees
  (`Torn`), the entry whose size is not written yet (`Resized`), and the linked
  cluster that `dir_find_free` has not zeroed (`Raw`).
* *The call.* `Progress` says at each label what `op.first`, `op.prev`, `op.c`
  and `op.written` mean: `NewTag` owns the chain that the call builds or frees,
  `GrowTag` the one cluster it has taken and not linked.
* *Why a ghost.* The properties speak of walks along chains and down the tree. A
  walk has no inductive meaning in the middle of a call; who owns a cluster
  has, and every sector write changes it at one cluster or hands over one chain
  (`Take`, `Release`, `JoinEntry`, `Detach`, `PutEntry`). `ChainSetIs` and
  `ChainWhole` lead from owners back to chains: positions make a chain acyclic,
  and there are no more of them than clusters (`NoRoom`). `DirReached` does the
  same for the tree: the depth of a directory is at most the number of clusters,
  so the walk of `Dirs`, which takes that many levels, finds it.
* *The steps.* The lemmas from `CreateStarts` to `FormatDone` show that each step
  of a call leads from a volume and a call that fit to ones that fit, for owners
  that they name; the `Run` lemmas show that the actions are these steps.

TLC checked the invariant, with the owners computed from the entries and from
`op`, on volumes of three clusters before it was proved.

**Paths** (`PathsProofs`). For every volume size, set of typed paths and all buffer
lengths in the code's order: `CwdStaysAttached`; and `CdFollowsTheTree` and
`ParentFollowsTheTree`, that `walk_path` and `resolve_parent`, which know clusters
and `..` entries only, go where the names say. The last two have the hypotheses
`ComponentsFit` and (for the parent) `DirPartsFit`: a longer component or directory
part is taken apart or cut and leads elsewhere (`fs.c:401`, `454`). `TreeInv` relates
entries, clusters and `..` entries, and `CwdInv` says that the current directory is
one of them. They would allow a ring of directories that name each other as
parents, so `Ordered` adds a numbering of the directories in which parents come
first: `fs_mkdir` adds the last, `fs_rmdir` takes one out and moves the later ones
up. `walk_path` and `Meaning` are then compared one component at a time (`Agree`).

**Shell** (`ShellProofs`). For every screen, buffer and history size and whatever
the commands print: `LineIsShown`, `HistoryIsShown`, `TypeCorrect` (no write
outside the VGA buffer, room for the terminator) and `FittingWordsKept`: for every
name of at most `FS_NAME_LEN - 1` characters the calls get the line as typed
(`ShortWordsKept`; `WordsKept` is false for longer names).
`FittingWordEnds` is the step that needs care: a word that stops because its
buffer is full stops at a space too when the name fits (`NameFits`). `ScreenInv`
strengthens `LineShown` by what erasing and scrolling rely on: everything behind
the cursor is blank, and the prompt and the line fill the cells before it, also
where they wrap. `HistoryInv` relates the array to the lines entered so far.

`kprint`, `FlattenSeq`, `walk_path`, `Meaning`, `Offsets` and the way up in
`CwdAttached` are recursive functions. What they compute is proved by taking a
smallest counterexample (`LeastNat`, from the well-foundedness of `<` on the
naturals), so no induction theorem with an operator as its parameter is needed; that the recursive functions exist is proved the same way
(`PrintingExists`, `WalkingExists` and so on). So are `cluster_at_index` and the
levels of `Dirs` in the volume (`FollowingExists`, `ReachingExists`).

The constants' assumptions say what the proofs need of them and no run had to
change: the heap lies above address 0 and has room for one header; keys without a
character are not letters or symbols (`KeyboardAssumption`); maps are sequences
(`BootAssumption`); sectors are functions from word numbers (`AtaAssumption`); the
texts the shell prints consist of characters (`ShellAssumption`); components that
users type have at least one character (`PathsAssumption`); cluster numbers are
below the marks of a 16-bit FAT (`VolumeAssumption`; the disk of `fs.h` has 15,949
clusters).

Only model-checked:

* all liveness (`CallsReturn`, `EveryTaskRuns`, `CharactersArrive`, `KeysServed`,
  `TicksGoOn`), which the prover does not treat;
* the refinement of `FileStore` by the volume, which is about the contents of
  files and their names as well as about their chains, and `DanglesOnlyByFreeing`
  from a first power failure on;
* `PwdStaleOnlyByRenameOrLength` of the paths, which compares the text with the
  tree one component at a time and needs the length of every prefix;
* the two runs with a violation, which need no proof.

## Not modelled

* The mode switch, GDT, `kernel_entry.asm`, `print_string` and port I/O:
  straight-line code executed once, or single instructions; the state they
  change is the CPU's mode, which no later step depends on in more than one way.
* Read-only calls (`fs_list`, `fs_stat`, `fs_debug_stats`, `kmalloc_stats`,
  `task_list`, `mmap_dump`) and the text that commands print.
* The tick counter and `timer_get_seconds`, which only `uptime` reads.
* Errors of the drive: `disk.c` does not look at the error bit, and a refused
  command makes `ata_wait_drq` spin for ever.
* File bytes read as directory entries, which can happen when power fails
  between `dir_find_free`'s link of a new cluster and its zeroing (`fs.c:334`);
  `fat_crash` has directories that do not grow.
* Exceptions: their gates are present with address 0, and what executes there is
  outside the model.

## Plan

What is left to prove: that the volume implements `FileStore`, from
`VolumeInvariant` and an invariant on which clusters hold the bytes of a file
already; and `PwdStaleOnlyByRenameOrLength`.
