-------------------------------- MODULE Tasks --------------------------------
(***************************************************************************)
(* The preemptive round-robin scheduler: kernel/task.c, the timer handler  *)
(* of kernel/timer.c, timer_stub and task_switch of interrupts.asm, and    *)
(* the code that runs on top of them: kernel_main, the kernel task, the    *)
(* shell's spawn and kill, and counter_task.                               *)
(*                                                                         *)
(* A thread of control is what lies on a stack: frame[b] is the code whose *)
(* activation is on the stack at base b, where it stands and its locals.   *)
(* sp is the stack the CPU's esp register points into.  task_create_named  *)
(* and task_kill are split at every store that the timer handler can see,  *)
(* for a tick may arrive between any two of them.  A handler runs with     *)
(* interrupts off (an interrupt gate clears IF), so schedule's loop is     *)
(* interleaved with nothing, but takes a step per iteration.               *)
(***************************************************************************)
EXTENDS Integers

CONSTANTS
  MAX_TASKS,  \* size of the task table
  Blocks,     \* the stacks of TASK_STACK_SIZE bytes that kmalloc has room for
  NULL,       \* what kmalloc returns when it has no room left
  BootStack   \* the stack at 0x90000 on which kernel_main runs

(* kernel_main and the kernel task create two tasks without looking at the *)
(* result, so the table has room for them.                                 *)
ASSUME TasksAssumption ==
  /\ MAX_TASKS \in Nat /\ MAX_TASKS >= 2
  /\ NULL \notin Blocks
  /\ BootStack \notin Blocks
  /\ BootStack # NULL

VARIABLES
  tasks,         \* the task table: slot -> [esp, used, stack_base]
  current_task,  \* -1 until the first tick
  task_count,    \* slots handed out so far
  freelist,      \* the blocks kmalloc can still hand out
  frame,         \* the activation on each stack
  sp,            \* the stack the CPU is on
  IF_,           \* the CPU's interrupt flag
  mode,          \* "run": a thread executes; "schedule": the timer handler
  next           \* schedule's local

vars == <<tasks, current_task, task_count, freelist, frame, sp, IF_, mode,
          next>>

Slots == 0 .. MAX_TASKS - 1
Bases == Blocks \cup {NULL, BootStack}

(* What task_switch finds at a saved esp: nothing yet, the five words that *)
(* task_create_named builds (ret enters the task with IF still clear), or  *)
(* the frame of an interrupted thread (iretd restores IF).                 *)
Kinds == {"none", "entry", "saved"}

Task == [esp : [base : Bases, kind : Kinds], used : BOOLEAN, stack_base : Bases]

Codes == {"kernel_main", "kernel", "shell", "counter_task", "none"}

(* Where a thread stands: about to execute sti, in fs_init, waiting at hlt, *)
(* or in front of a store of task_create_named or task_kill.               *)
Places == {"sti", "fs_init", "hlt",
           "create", "alloc", "count", "esp", "used", "stack_base",
           "kill", "kfree", "unused"}

Frame == [code : Codes, at : Places, stack : Bases, slot : -1 .. MAX_TASKS]

NoTask == [esp |-> [base |-> NULL, kind |-> "none"], used |-> FALSE,
           stack_base |-> NULL]

Fresh(code) == [code |-> code, at |-> "sti", stack |-> NULL, slot |-> -1]

(* The activation that is executing.                                       *)
Here == frame[sp]

-----------------------------------------------------------------------------
(* kernel_main up to its task_create_named(kernel): kmalloc_init and       *)
(* tasks_init have run, interrupts have been off since the boot loader.    *)
Init ==
  /\ tasks = [s \in Slots |-> NoTask]
  /\ current_task = -1
  /\ task_count = 0
  /\ freelist = Blocks
  /\ frame = [b \in Bases |->
                IF b = BootStack THEN [Fresh("kernel_main") EXCEPT !.at = "create"]
                                 ELSE Fresh("none")]
  /\ sp = BootStack
  /\ IF_ = FALSE
  /\ mode = "run"
  /\ next = -1

(* The executing thread stands at p.                                       *)
At(p) == mode = "run" /\ Here.at = p

GoTo(p) == frame' = [frame EXCEPT ![sp].at = p]

-----------------------------------------------------------------------------
(* task_create_named(entry, name), store by store.                         *)

(* Which task the caller creates.                                          *)
Created(code) == CASE code = "kernel_main" -> "kernel"
                   [] code = "kernel"      -> "shell"
                   [] OTHER                -> "counter_task"

(* Where the caller goes on.                                               *)
AfterCreate(code) == CASE code = "kernel_main" -> "sti"
                       [] code = "kernel"      -> "fs_init"
                       [] OTHER                -> "hlt"

(* The table is full.                                                      *)
CreateRefused ==
  /\ At("create")
  /\ task_count >= MAX_TASKS
  /\ GoTo(AfterCreate(Here.code))
  /\ UNCHANGED <<tasks, current_task, task_count, freelist, sp, IF_, mode, next>>

CreateEnter ==
  /\ At("create")
  /\ task_count < MAX_TASKS
  /\ GoTo("alloc")
  /\ UNCHANGED <<tasks, current_task, task_count, freelist, sp, IF_, mode, next>>

(* kmalloc(TASK_STACK_SIZE), whose result is not tested, and the five      *)
(* words of the new task's first frame.  With NULL they land at the top of *)
(* the lowest 16 KB of memory.                                             *)
CreateAlloc ==
  /\ At("alloc")
  /\ \E b \in IF freelist = {} THEN {NULL} ELSE freelist :
       /\ freelist' = freelist \ {b}
       /\ frame' = [frame EXCEPT ![sp].at = "count", ![sp].stack = b,
                                 ![b] = Fresh(Created(Here.code))]
  /\ UNCHANGED <<tasks, current_task, task_count, sp, IF_, mode, next>>

(* int slot = task_count++                                                 *)
CreateCount ==
  /\ At("count")
  /\ task_count' = task_count + 1
  /\ frame' = [frame EXCEPT ![sp].at = "esp", ![sp].slot = task_count]
  /\ UNCHANGED <<tasks, current_task, freelist, sp, IF_, mode, next>>

(* Variant: the slot is published before its esp is stored.                *)
CreateEsp_UsedFirst ==
  /\ At("esp")
  /\ tasks' = [tasks EXCEPT ![Here.slot].used = TRUE]
  /\ GoTo("used")
  /\ UNCHANGED <<current_task, task_count, freelist, sp, IF_, mode, next>>

CreateEsp ==
  /\ At("esp")
  /\ tasks' = [tasks EXCEPT ![Here.slot].esp = [base |-> Here.stack, kind |-> "entry"]]
  /\ GoTo("used")
  /\ UNCHANGED <<current_task, task_count, freelist, sp, IF_, mode, next>>

CreateUsed ==
  /\ At("used")
  /\ tasks' = [tasks EXCEPT ![Here.slot].used = TRUE]
  /\ GoTo("stack_base")
  /\ UNCHANGED <<current_task, task_count, freelist, sp, IF_, mode, next>>

CreateStackBase ==
  /\ At("stack_base")
  /\ tasks' = [tasks EXCEPT ![Here.slot].stack_base = Here.stack]
  /\ GoTo(AfterCreate(Here.code))
  /\ UNCHANGED <<current_task, task_count, freelist, sp, IF_, mode, next>>

-----------------------------------------------------------------------------
(* task_kill(id), store by store.                                          *)

(* Variant: a task may kill itself.                                        *)
Killable_Self(id) ==
  /\ id >= 0 /\ id < task_count
  /\ tasks[id].used
  /\ id # 0

Killable(id) ==
  /\ id >= 0 /\ id < task_count
  /\ tasks[id].used
  /\ id # current_task
  /\ id # 0

KillRefused ==
  /\ At("kill")
  /\ ~Killable(Here.slot)
  /\ GoTo("hlt")
  /\ UNCHANGED <<tasks, current_task, task_count, freelist, sp, IF_, mode, next>>

KillEnter ==
  /\ At("kill")
  /\ Killable(Here.slot)
  /\ GoTo("kfree")
  /\ UNCHANGED <<tasks, current_task, task_count, freelist, sp, IF_, mode, next>>

(* Variant: the stack is not given back.                                   *)
KillFree_Skipped ==
  /\ At("kfree")
  /\ GoTo("unused")
  /\ UNCHANGED <<tasks, current_task, task_count, freelist, sp, IF_, mode, next>>

(* kfree(stack_base); kfree(NULL) does nothing.                            *)
KillFree ==
  /\ At("kfree")
  /\ freelist' = freelist \cup ({tasks[Here.slot].stack_base} \ {NULL})
  /\ GoTo("unused")
  /\ UNCHANGED <<tasks, current_task, task_count, sp, IF_, mode, next>>

(* Variant: the slot stays marked used.                                    *)
KillUnused_Kept ==
  /\ At("unused")
  /\ GoTo("hlt")
  /\ UNCHANGED <<tasks, current_task, task_count, freelist, sp, IF_, mode, next>>

KillUnused ==
  /\ At("unused")
  /\ tasks' = [tasks EXCEPT ![Here.slot].used = FALSE]
  /\ GoTo("hlt")
  /\ UNCHANGED <<current_task, task_count, freelist, sp, IF_, mode, next>>

-----------------------------------------------------------------------------
(* The threads.                                                            *)

(* sti: at the end of kernel_main, and first thing in every task.          *)
Sti ==
  /\ At("sti")
  /\ IF_' = TRUE
  /\ GoTo(IF Here.code = "kernel" THEN "create" ELSE "hlt")
  /\ UNCHANGED <<tasks, current_task, task_count, freelist, sp, mode, next>>

(* The rest of the kernel task: fs_init, the keyboard drain, sti.          *)
KernelSettles ==
  /\ At("fs_init")
  /\ IF_' = TRUE
  /\ GoTo("hlt")
  /\ UNCHANGED <<tasks, current_task, task_count, freelist, sp, mode, next>>

(* The shell reads a line (it waits at hlt in keyboard_getchar): spawn.    *)
Spawn ==
  /\ At("hlt") /\ Here.code = "shell"
  /\ GoTo("create")
  /\ UNCHANGED <<tasks, current_task, task_count, freelist, sp, IF_, mode, next>>

(* kill <id>, for any id; MAX_TASKS stands for every larger one and -1 for *)
(* what an overflowing number may become.                                  *)
Kill ==
  /\ At("hlt") /\ Here.code = "shell"
  /\ \E id \in -1 .. MAX_TASKS :
       frame' = [frame EXCEPT ![sp].at = "kill", ![sp].slot = id]
  /\ UNCHANGED <<tasks, current_task, task_count, freelist, sp, IF_, mode, next>>

-----------------------------------------------------------------------------
(* The timer interrupt: timer_stub, timer_handler and schedule.            *)
Tick ==
  /\ mode = "run" /\ IF_
  /\ mode' = "schedule"
  /\ IF_' = FALSE
  /\ next' = current_task
  /\ UNCHANGED <<tasks, current_task, task_count, freelist, frame, sp>>

(* Variant: the search always starts from slot 0.                          *)
Candidate_FromZero == IF next = current_task THEN 0 ELSE (next + 1) % task_count

(* The slot that the do-while loop looks at next.  Its early return for    *)
(* an empty table is never taken (the first tick comes after the creation  *)
(* of the kernel task): it would show as a deadlock here.                  *)
Candidate == (next + 1) % task_count

(* The loop goes on: this slot is not in use.                              *)
ScheduleSkip ==
  /\ mode = "schedule"
  /\ ~tasks[Candidate].used
  /\ next' = Candidate
  /\ UNCHANGED <<tasks, current_task, task_count, freelist, frame, sp, IF_, mode>>

(* Only the current task can run: return to it.                            *)
ScheduleSame ==
  /\ mode = "schedule"
  /\ tasks[Candidate].used
  /\ Candidate = current_task
  /\ next' = Candidate
  /\ mode' = "run" /\ IF_' = TRUE
  /\ UNCHANGED <<tasks, current_task, task_count, freelist, frame, sp>>

(* task_switch stores esp in the slot that is left; the boot context's esp *)
(* goes to a local of schedule that nobody reads again.                    *)
SavedTasks ==
  IF current_task = -1
  THEN tasks
  ELSE [tasks EXCEPT ![current_task].esp = [base |-> sp, kind |-> "saved"]]

(* Switch to the task found: its stack becomes the CPU's, and IF depends   *)
(* on whether iretd or a plain ret ends the switch.                        *)
ScheduleSwitch ==
  /\ mode = "schedule"
  /\ tasks[Candidate].used
  /\ Candidate # current_task
  /\ tasks' = SavedTasks
  /\ current_task' = Candidate
  /\ next' = Candidate
  /\ sp' = tasks[Candidate].esp.base
  /\ IF_' = (tasks[Candidate].esp.kind = "saved")
  /\ mode' = "run"
  /\ UNCHANGED <<task_count, freelist, frame>>

-----------------------------------------------------------------------------
Create == CreateRefused \/ CreateEnter \/ CreateAlloc \/ CreateCount
            \/ CreateEsp \/ CreateUsed \/ CreateStackBase

TaskKill == KillRefused \/ KillEnter \/ KillFree \/ KillUnused

Schedule == ScheduleSkip \/ ScheduleSame \/ ScheduleSwitch

Next == Create \/ TaskKill \/ Sti \/ KernelSettles \/ Spawn \/ Kill
          \/ Tick \/ Schedule

Spec == Init /\ [][Next]_vars

(* The timer never stops, and the CPU executes what it is pointed at.  No  *)
(* fairness for Spawn and Kill: the user need not type anything.           *)
Fairness ==
  /\ WF_vars(Tick)
  /\ WF_vars(Schedule)
  /\ WF_vars(Create \/ TaskKill \/ Sti \/ KernelSettles)

FairSpec == Spec /\ Fairness

-----------------------------------------------------------------------------
(* The table, the count and the stacks are within their bounds.            *)
TypeOK ==
  /\ tasks \in [Slots -> Task]
  /\ current_task \in -1 .. MAX_TASKS - 1
  /\ task_count \in 0 .. MAX_TASKS
  /\ freelist \subseteq Blocks
  /\ frame \in [Bases -> Frame]
  /\ sp \in Bases
  /\ IF_ \in BOOLEAN
  /\ mode \in {"run", "schedule"}
  /\ next \in -1 .. MAX_TASKS - 1

(* The task that current_task names is alive and the CPU is on its stack,  *)
(* which is what task_kill's refusal of the caller relies on; before the   *)
(* first tick that stack is the boot loader's.                             *)
CurrentRuns ==
  IF current_task = -1
  THEN sp = BootStack
  ELSE /\ tasks[current_task].used
       /\ sp = tasks[current_task].esp.base

(* Whatever the moment of a tick, each slot that schedule may pick holds   *)
(* the esp of a stack with that task's code on it.                         *)
Resumable ==
  \A s \in Slots : tasks[s].used =>
    /\ s < task_count
    /\ tasks[s].esp.kind # "none"
    /\ frame[tasks[s].esp.base].code # "none"

(* Each task that can run has a stack of its own.                          *)
NotShared ==
  \A s, t \in Slots : s # t /\ tasks[s].used /\ tasks[t].used
    => tasks[s].esp.base # tasks[t].esp.base

(* No two tasks that can run share a stack, and kmalloc can hand out the   *)
(* stack of a task that can run only while task_kill, which gives it back  *)
(* first, is about to mark that very task unused.                          *)
StacksDisjoint ==
  /\ NotShared
  /\ \A s \in Slots : tasks[s].used /\ tasks[s].esp.base \in freelist
       => \E b \in Bases : frame[b].at = "unused" /\ frame[b].slot = s

(* The blocks that somebody still has to give back: stacks of live tasks   *)
(* and the one a task_create_named in progress has allocated.              *)
InUse ==
  {tasks[s].esp.base : s \in {t \in Slots : tasks[t].used}}
    \cup {frame[b].stack : b \in {c \in Bases : frame[c].at \in {"count", "esp", "used"}}}

(* No stack is lost: what kmalloc cannot hand out belongs to a live task   *)
(* or to a creation in progress.                                           *)
NoStackLost == Blocks \subseteq freelist \cup InUse

(* Each task that stays alive is given the CPU again and again.            *)
EveryTaskRuns ==
  \A s \in Slots : []<>(~tasks[s].used \/ (mode = "run" /\ current_task = s))

(* task.h: task_create_named returns "-1 if MAX_TASKS is reached", which   *)
(* the shell reports as "too many tasks".                                  *)
RefusedOnlyWhenFull ==
  [][At("create") /\ frame'[sp].at = AfterCreate(Here.code)
       => \A s \in Slots : tasks[s].used]_vars
=============================================================================
