----------------------------- MODULE TasksProofs -----------------------------
(***************************************************************************)
(* Proofs about Tasks for every size of the task table and every set of    *)
(* stacks, provided that the heap has a stack for each slot: a creation    *)
(* that finds no block goes on with NULL as its stack, and two tasks with  *)
(* that stack do share it.                                                 *)
(*                                                                         *)
(* The inductive invariant IInv follows the three threads that create or   *)
(* kill: kernel_main on the boot stack, the kernel task in slot 0 and the  *)
(* shell in slot 1.  It says where each may stand while the others exist,  *)
(* and hence that at most one task_create_named is between its kmalloc and *)
(* its store to used.                                                      *)
(***************************************************************************)
EXTENDS Tasks, FiniteSetTheorems, TLAPS

(* The heap has a stack for every slot of the table.                       *)
EnoughStacks == IsFiniteSet(Blocks) /\ Cardinality(Blocks) >= MAX_TASKS

Live(s) == tasks[s].used
Base(s) == tasks[s].esp.base

(* The code that the task in slot s runs.                                  *)
CodeOf(s) == CASE s = 0 -> "kernel" [] s = 1 -> "shell" [] OTHER -> "counter_task"

(* The three threads that change the table.                                *)
Main == frame[BootStack]
Kernel == frame[Base(0)]
Shell == frame[Base(1)]

(* A live slot holds the esp of a stack with its own code on it, and only  *)
(* the three threads are ever inside task_create_named or task_kill.       *)
ThreadInv ==
  /\ Main.code = "kernel_main"
  /\ \A s \in Slots : Live(s) =>
       /\ s < task_count
       /\ Base(s) \in Blocks
       /\ tasks[s].esp.kind # "none"
       /\ frame[Base(s)].code = CodeOf(s)
       /\ s # 0 => Live(0)
       /\ s >= 2 => Live(1)
  /\ \A b \in Bases : frame[b].at \notin {"sti", "hlt"} =>
       \/ b = BootStack
       \/ Live(0) /\ b = Base(0)
       \/ Live(1) /\ b = Base(1)

(* kernel_main creates slot 0 with interrupts off.                         *)
MainInv ==
  /\ Main.at \in {"create", "alloc", "count", "esp", "used", "stack_base",
                  "sti", "hlt"}
  /\ Main.at # "hlt" => current_task = -1 /\ mode = "run" /\ ~IF_
  /\ Main.at \in {"create", "alloc", "count"} => task_count = 0
  /\ Main.at \in {"esp", "used"} => task_count = 1 /\ ~Live(0)
  /\ Main.at \in {"esp", "used", "stack_base"} => Main.slot = 0
  /\ Main.at \in {"stack_base", "sti", "hlt"} => Live(0)
  /\ current_task = -1 => task_count <= 1 /\ (Live(0) => Kernel.at = "sti")

(* The kernel task creates slot 1.                                         *)
KernelInv == Live(0) =>
  /\ Kernel.at \in {"sti", "create", "alloc", "count", "esp", "used",
                    "stack_base", "fs_init", "hlt"}
  /\ Kernel.at \in {"sti", "create", "alloc", "count"} => task_count = 1
  /\ Kernel.at \in {"esp", "used"} => task_count = 2 /\ ~Live(1)
  /\ Kernel.at \in {"esp", "used", "stack_base"} => Kernel.slot = 1
  /\ Kernel.at \in {"stack_base", "fs_init", "hlt"} => Live(1)

(* The shell creates and kills the slots from 2 on.                        *)
ShellInv == Live(1) =>
  /\ Shell.at # "fs_init"
  /\ Shell.at \in {"alloc", "count"} => task_count < MAX_TASKS
  /\ Shell.at \in {"esp", "used"} => Shell.slot = task_count - 1 /\ ~Live(Shell.slot)
  /\ Shell.at \in {"esp", "used", "stack_base", "kfree", "unused"} =>
       Shell.slot \in 2 .. task_count - 1
  /\ Shell.at \in {"stack_base", "kfree", "unused"} => Live(Shell.slot)
  /\ Shell.at = "stack_base" => Base(Shell.slot) = Shell.stack
  /\ Shell.at = "unused" => Base(Shell.slot) \in freelist

Fresh3 == {"count", "esp", "used"}

(* From its kmalloc to its store to used, task_create_named alone knows    *)
(* the new stack.                                                          *)
NewStackInv ==
  \A b \in Bases : frame[b].at \in Fresh3 =>
    /\ frame[b].stack \in Blocks \ freelist
    /\ frame[b].stack # b
    /\ frame[frame[b].stack].code = Created(frame[b].code)
    /\ frame[frame[b].stack].at = "sti"
    /\ \A s \in Slots : Live(s) => Base(s) # frame[b].stack
    /\ frame[b].at = "used" =>
         tasks[frame[b].slot].esp = [base |-> frame[b].stack, kind |-> "entry"]

(* A live task's stack is not free, except that of a victim whose used     *)
(* flag task_kill is about to clear; stack_base names it, except that of a *)
(* task whose stack_base is about to be stored.                            *)
StackInv ==
  \A s \in Slots : Live(s) =>
    /\ Base(s) \notin freelist \/ (Live(1) /\ Shell.at = "unused" /\ Shell.slot = s)
    /\ s >= 2 => \/ tasks[s].stack_base = Base(s)
                 \/ Shell.at = "stack_base" /\ Shell.slot = s

(* NoStackLost, block by block.                                            *)
Accounted ==
  \A b \in Blocks :
    \/ b \in freelist
    \/ \E s \in Slots : Live(s) /\ Base(s) = b
    \/ \E a \in Bases : frame[a].at \in Fresh3 /\ frame[a].stack = b

IInv ==
  /\ TypeOK /\ ThreadInv /\ MainInv /\ KernelInv /\ ShellInv
  /\ NewStackInv /\ StackInv /\ Accounted /\ NotShared /\ CurrentRuns

-----------------------------------------------------------------------------
(* NoStackLost is Accounted.                                               *)
LEMMA AccountedIsNoStackLost == Accounted <=> NoStackLost
BY DEF Accounted, NoStackLost, InUse, Fresh3, Live, Base

(* What a step of the executing thread does to the activations.            *)
LEMMA GoToLemma ==
  ASSUME TypeOK, NEW p \in Places, GoTo(p)
  PROVE  /\ frame' \in [Bases -> Frame]
         /\ frame'[sp].at = p
         /\ frame'[sp].code = frame[sp].code
         /\ frame'[sp].stack = frame[sp].stack
         /\ frame'[sp].slot = frame[sp].slot
         /\ \A b \in Bases : b # sp => frame'[b] = frame[b]
BY DEF TypeOK, GoTo, Frame

(* Which thread the CPU executes.                                          *)
LEMMA Runner ==
  ASSUME IInv
  PROVE  /\ current_task = -1 => sp = BootStack /\ Here.code = "kernel_main"
         /\ current_task # -1 =>
              /\ current_task \in Slots /\ Live(current_task)
              /\ sp = Base(current_task) /\ sp # BootStack /\ sp \in Blocks
              /\ Here.code = CodeOf(current_task)
BY TasksAssumption DEF IInv, TypeOK, ThreadInv, CurrentRuns, Here, Main, Slots, Live, Base

(* kernel_main runs on the boot stack and there is no task yet.            *)
LEMMA InitIInv == Init => IInv
<1> SUFFICES ASSUME Init PROVE IInv
  OBVIOUS
<1> USE TasksAssumption
<1>1. /\ frame \in [Bases -> Frame] /\ frame[BootStack].at = "create"
      /\ frame[BootStack].code = "kernel_main"
      /\ \A b \in Bases : b # BootStack => frame[b].at = "sti" /\ frame[b].code = "none"
  BY DEF Init, Bases, Frame, Fresh, Codes, Places
<1>2. /\ tasks \in [Slots -> Task]
      /\ \A s \in Slots : tasks[s].used = FALSE
  BY DEF Init, NoTask, Task, Bases, Kinds
<1>3. 0 \in Slots /\ 1 \in Slots /\ BootStack \in Bases
  BY DEF Slots, Bases
<1>4. TypeOK
  <2>1. /\ current_task \in -1 .. MAX_TASKS - 1 /\ task_count \in 0 .. MAX_TASKS
        /\ next \in -1 .. MAX_TASKS - 1
    BY DEF Init
  <2>2. freelist \subseteq Blocks /\ sp \in Bases /\ IF_ \in BOOLEAN
        /\ mode \in {"run", "schedule"}
    BY <1>3 DEF Init
  <2> QED BY <1>1, <1>2, <2>1, <2>2 DEF TypeOK
<1>5. ThreadInv /\ MainInv /\ KernelInv /\ ShellInv
  BY <1>1, <1>2, <1>3 DEF Init, ThreadInv, MainInv, KernelInv, ShellInv, Live, Main
<1>6. NewStackInv /\ StackInv /\ Accounted /\ NotShared /\ CurrentRuns
  BY <1>1, <1>2 DEF Init, NewStackInv, StackInv, Accounted, NotShared,
     CurrentRuns, Live, Fresh3
<1> QED BY <1>4, <1>5, <1>6 DEF IInv

(* Outside sti and hlt, the executing thread is one of the three.          *)
LEMMA ThreeThreads ==
  ASSUME IInv, Here.at \notin {"sti", "hlt"}
  PROVE  \/ current_task = -1 /\ sp = BootStack /\ Here.code = "kernel_main"
         \/ current_task = 0 /\ sp = Base(0) /\ Here.code = "kernel"
         \/ current_task = 1 /\ sp = Base(1) /\ Here.code = "shell"
BY Runner, TasksAssumption DEF IInv, Here, ThreadInv, CodeOf, TypeOK, NotShared,
   Live, Base, Slots

(* The stacks of the executing thread and of the three are where they are  *)
(* expected, and apart.                                                    *)
LEMMA Apart ==
  ASSUME IInv
  PROVE  /\ 0 \in Slots /\ 1 \in Slots
         /\ BootStack \in Bases /\ sp \in Bases
         /\ \A s \in Slots : Live(s) => Base(s) \in Bases /\ Base(s) # BootStack
         /\ \A s \in Slots : Live(s) /\ s # current_task => sp # Base(s)
         /\ Live(1) => Live(0) /\ Base(0) # Base(1) /\ 1 < task_count
         /\ Live(0) => 0 < task_count
BY Runner, TasksAssumption DEF IInv, TypeOK, ThreadInv, NotShared, CurrentRuns,
   Slots, Bases, Live, Base

(* A step that only moves the executing thread, away from no place where   *)
(* it has something in hand, keeps what is said of the stacks.             *)
LEMMA MoveLemma ==
  ASSUME IInv, mode = "run",
         UNCHANGED <<tasks, current_task, task_count, freelist, sp, mode, next>>,
         IF_' \in BOOLEAN,
         frame' \in [Bases -> Frame],
         frame'[sp].code = frame[sp].code,
         \A b \in Bases : b # sp => frame'[b] = frame[b],
         frame[sp].at \notin {"count", "esp", "used", "stack_base", "unused"},
         frame'[sp].at \notin {"count", "esp", "used", "stack_base", "unused"},
         \/ frame'[sp].at \in {"sti", "hlt"}
         \/ current_task \in {-1, 0, 1},
         MainInv', KernelInv', ShellInv'
  PROVE  IInv'
<1>1. TypeOK'
  BY DEF IInv, TypeOK
<1>2. ThreadInv'
  BY Runner, Apart DEF IInv, ThreadInv, TypeOK, Main, Live, Base, Here
<1>3. NewStackInv'
  <2> SUFFICES ASSUME NEW b \in Bases, frame'[b].at \in Fresh3
               PROVE  /\ b # sp /\ frame'[b] = frame[b]
                      /\ frame[b].stack \in Bases /\ frame[b].stack # sp
    BY DEF IInv, NewStackInv, Live, Base
  <2>1. b # sp /\ frame'[b] = frame[b]
    BY DEF Fresh3
  <2>2. /\ frame[b].stack \in Blocks
        /\ \A s \in Slots : Live(s) => Base(s) # frame[b].stack
    BY <2>1 DEF IInv, NewStackInv
  <2> QED BY <2>1, <2>2, Runner, TasksAssumption DEF Bases
<1>4. StackInv'
  <2>1. Live(1) => /\ Shell'.at \in {"stack_base", "unused"} <=> Shell.at \in {"stack_base", "unused"}
                   /\ Shell.at \in {"stack_base", "unused"} => Shell' = Shell
    BY Apart DEF Shell, Base
  <2>2. \A s \in Slots : Live(s) /\ s >= 2 => Live(1)
    BY DEF IInv, ThreadInv
  <2> QED BY <2>1, <2>2 DEF IInv, StackInv, Live, Base
<1>5. Accounted'
  BY DEF IInv, Accounted, Live, Base, Fresh3
<1>6. NotShared' /\ CurrentRuns'
  BY DEF IInv, NotShared, CurrentRuns
<1> QED BY <1>1, <1>2, <1>3, <1>4, <1>5, <1>6 DEF IInv

(* task_create_named returns at once when every slot has been used.        *)
LEMMA CreateRefusedStep ==
  ASSUME IInv, CreateRefused
  PROVE  IInv'
<1>1. current_task = 1 /\ sp = Base(1) /\ Here.code = "shell"
  BY ThreeThreads, Apart, TasksAssumption DEF IInv, CreateRefused, At, Here, MainInv, KernelInv,
     Main, Kernel, TypeOK, Live, Base
<1>2. GoTo("hlt") /\ Here.at = "create" /\ mode = "run"
  BY <1>1 DEF AfterCreate, CreateRefused, At
<1>3. MainInv' /\ KernelInv' /\ ShellInv'
  BY <1>1, <1>2, Runner, Apart, GoToLemma DEF CreateRefused, IInv, MainInv, KernelInv,
     ShellInv, Main, Kernel, Shell, Live, Base, Places
<1> QED BY <1>1, <1>2, <1>3, GoToLemma, MoveLemma DEF CreateRefused, IInv, TypeOK, Places, Here

(* task_create_named finds that there is a slot left.                      *)
LEMMA CreateEnterStep ==
  ASSUME IInv, CreateEnter
  PROVE  IInv'
<1>1. GoTo("alloc") /\ Here.at = "create" /\ mode = "run"
  BY DEF CreateEnter, At
<1>2. MainInv' /\ KernelInv' /\ ShellInv'
  <2>1. MainInv'
    BY <1>1, ThreeThreads, Runner, Apart, GoToLemma DEF CreateEnter, IInv, MainInv,
       Main, Live, Base, Places, Here
  <2>2. KernelInv'
    BY <1>1, ThreeThreads, Runner, Apart, GoToLemma DEF CreateEnter, IInv, MainInv, KernelInv,
       Main, Kernel, Live, Base, Places, Here
  <2>3. ShellInv'
    BY <1>1, ThreeThreads, Runner, Apart, GoToLemma DEF CreateEnter, IInv, ShellInv, KernelInv,
       Kernel, Shell, Live, Base, Places, Here
  <2> QED BY <2>1, <2>2, <2>3
<1> QED BY <1>1, <1>2, ThreeThreads, GoToLemma, MoveLemma DEF CreateEnter, IInv, TypeOK, Places, Here

(* task_kill refuses task 0, the caller and slots that are not used.       *)
LEMMA KillRefusedStep ==
  ASSUME IInv, KillRefused
  PROVE  IInv'
<1>1. GoTo("hlt") /\ Here.at = "kill" /\ mode = "run"
  BY DEF KillRefused, At
<1>2. MainInv' /\ KernelInv' /\ ShellInv'
  BY <1>1, ThreeThreads, Runner, Apart, GoToLemma DEF KillRefused, IInv, MainInv, KernelInv,
     ShellInv, Main, Kernel, Shell, Live, Base, Places, Here
<1> QED BY <1>1, <1>2, ThreeThreads, GoToLemma, MoveLemma DEF KillRefused, IInv, TypeOK, Places, Here

(* task_kill passes its checks.                                            *)
LEMMA KillEnterStep ==
  ASSUME IInv, KillEnter
  PROVE  IInv'
<1>1. GoTo("kfree") /\ Here.at = "kill" /\ mode = "run"
  BY DEF KillEnter, At
<1>2. current_task = 1 /\ sp = Base(1)
  BY <1>1, ThreeThreads, Apart, Runner DEF IInv, MainInv, KernelInv, Main, Kernel, Here, Live
<1>3. Here.slot \in 2 .. task_count - 1 /\ Live(Here.slot)
  BY <1>2 DEF KillEnter, Killable, IInv, TypeOK, Live, Frame, Here
<1>4. MainInv' /\ KernelInv' /\ ShellInv'
  BY <1>1, <1>2, <1>3, Runner, Apart, GoToLemma DEF KillEnter, IInv, MainInv, KernelInv,
     ShellInv, Main, Kernel, Shell, Live, Base, Places, Here
<1> QED BY <1>1, <1>2, <1>4, GoToLemma, MoveLemma DEF KillEnter, IInv, TypeOK, Places, Here

(* A task enables interrupts.                                              *)
LEMMA StiStep ==
  ASSUME IInv, Sti
  PROVE  IInv'
<1> DEFINE p == IF Here.code = "kernel" THEN "create" ELSE "hlt"
<1>1. GoTo(p) /\ Here.at = "sti" /\ mode = "run" /\ p \in Places
  BY DEF Sti, At, Places
<1>2. p = "create" <=> current_task = 0
  BY Runner DEF CodeOf
<1> HIDE DEF p
<1>3. /\ frame' \in [Bases -> Frame]
      /\ frame'[sp].at = IF current_task = 0 THEN "create" ELSE "hlt"
      /\ frame'[sp].code = frame[sp].code
      /\ \A b \in Bases : b # sp => frame'[b] = frame[b]
  BY <1>1, <1>2, GoToLemma DEF IInv, p
<1>4. /\ UNCHANGED <<tasks, current_task, task_count, freelist, sp, mode, next>>
      /\ IF_' = TRUE
  BY DEF Sti
<1>5. current_task # -1 => Main' = Main /\ Main.at = "hlt"
  BY <1>3, Runner, Apart DEF Main, IInv, MainInv
<1>6. MainInv'
  BY <1>1, <1>3, <1>4, <1>5, Runner, Apart DEF IInv, MainInv, Main, Kernel, Live, Base, Here
<1>7. KernelInv'
  BY <1>1, <1>3, <1>4, Runner, Apart DEF IInv, KernelInv, Kernel, Live, Base, Here
<1>8. ShellInv'
  BY <1>1, <1>3, <1>4, Runner, Apart DEF IInv, ShellInv, Shell, Live, Base, Here
<1> QED BY <1>1, <1>3, <1>4, <1>6, <1>7, <1>8, MoveLemma DEF Here

(* The kernel task reaches its idle loop.                                  *)
LEMMA KernelSettlesStep ==
  ASSUME IInv, KernelSettles
  PROVE  IInv'
<1>1. GoTo("hlt") /\ Here.at = "fs_init" /\ mode = "run"
  BY DEF KernelSettles, At
<1>2. current_task = 0 /\ sp = Base(0)
  BY <1>1, ThreeThreads, Apart, Runner DEF IInv, MainInv, ShellInv, Main, Shell, Here, Live
<1>3. MainInv' /\ KernelInv' /\ ShellInv'
  BY <1>1, <1>2, Runner, Apart, GoToLemma DEF KernelSettles, IInv, MainInv, KernelInv,
     ShellInv, Main, Kernel, Shell, Live, Base, Here, Places
<1> QED BY <1>1, <1>3, GoToLemma, MoveLemma DEF KernelSettles, IInv, TypeOK, Here, Places

(* The shell runs in slot 1 and nowhere else.                              *)
LEMMA ShellRuns ==
  ASSUME IInv, Here.code = "shell"
  PROVE  current_task = 1 /\ sp = Base(1) /\ Live(1)
BY Runner DEF CodeOf, Slots

(* The shell asks for a task.                                              *)
LEMMA SpawnStep ==
  ASSUME IInv, Spawn
  PROVE  IInv'
<1>1. GoTo("create") /\ Here.at = "hlt" /\ mode = "run"
  BY DEF Spawn, At
<1>2. current_task = 1 /\ sp = Base(1) /\ Live(1)
  BY ShellRuns DEF Spawn
<1>3. MainInv' /\ KernelInv' /\ ShellInv'
  BY <1>1, <1>2, Runner, Apart, GoToLemma DEF Spawn, IInv, MainInv, KernelInv,
     ShellInv, Main, Kernel, Shell, Live, Base, Here, Places
<1> QED BY <1>1, <1>2, <1>3, GoToLemma, MoveLemma DEF Spawn, IInv, TypeOK, Here, Places

(* The shell asks for a task to be killed.                                 *)
LEMMA KillStep ==
  ASSUME IInv, Kill
  PROVE  IInv'
<1>1. Here.at = "hlt" /\ mode = "run"
  BY DEF Kill, At
<1>2. current_task = 1 /\ sp = Base(1) /\ Live(1)
  BY ShellRuns DEF Kill
<1>3. PICK id \in -1 .. MAX_TASKS :
        frame' = [frame EXCEPT ![sp].at = "kill", ![sp].slot = id]
  BY DEF Kill
<1>4. /\ frame' \in [Bases -> Frame]
      /\ frame'[sp].at = "kill" /\ frame'[sp].code = frame[sp].code
      /\ \A b \in Bases : b # sp => frame'[b] = frame[b]
  <2> DEFINE f == [frame[sp] EXCEPT !.at = "kill", !.slot = id]
  <2>1. sp \in Bases /\ frame[sp] \in Frame /\ frame \in [Bases -> Frame]
    BY DEF IInv, TypeOK
  <2>2. f \in Frame /\ f.at = "kill" /\ f.code = frame[sp].code
    BY <2>1 DEF Frame, Places
  <2>3. frame' = [frame EXCEPT ![sp] = f]
    BY <1>3, <2>1
  <2> HIDE DEF f
  <2> QED BY <2>1, <2>2, <2>3
<1>5. MainInv' /\ KernelInv' /\ ShellInv'
  <2>1. UNCHANGED <<tasks, current_task, task_count, freelist, sp, IF_, mode, next>>
    BY DEF Kill
  <2> QED BY <1>1, <1>2, <1>4, <2>1, Runner, Apart DEF IInv, MainInv, KernelInv,
     ShellInv, Main, Kernel, Shell, Live, Base, Here
<1> QED BY <1>1, <1>2, <1>4, <1>5, MoveLemma DEF Kill, IInv, TypeOK, Here

-----------------------------------------------------------------------------
(* Only the three threads stand elsewhere than at sti or hlt.              *)
LEMMA ThreadsAt ==
  ASSUME IInv, NEW a \in Bases, frame[a].at \notin {"sti", "hlt"}
  PROVE  a = BootStack \/ (Live(0) /\ a = Base(0)) \/ (Live(1) /\ a = Base(1))
<1>1. ThreadInv
  BY DEF IInv
<1> QED BY <1>1, Zenon DEF ThreadInv

(* While a thread is inside task_create_named, before its store to used,   *)
(* no other thread is.                                                     *)
LEMMA OneCreation ==
  ASSUME IInv, Here.at \in {"alloc", "count", "esp", "used"},
         NEW a \in Bases, a # sp
  PROVE  frame[a].at \notin Fresh3
<1> SUFFICES ASSUME frame[a].at \in Fresh3 PROVE FALSE
  OBVIOUS
<1>1. frame[a].at \notin {"sti", "hlt"}
  BY DEF Fresh3
<1>2. a = BootStack \/ (Live(0) /\ a = Base(0)) \/ (Live(1) /\ a = Base(1))
  BY <1>1, ThreadsAt
<1> QED BY <1>2, ThreeThreads, Runner, Apart DEF IInv, MainInv, KernelInv, ShellInv,
       Main, Kernel, Shell, Here, Fresh3

(* The test of task_count at the start of a creation still holds when the  *)
(* creation counts its slot.                                               *)
LEMMA RoomLemma ==
  ASSUME IInv, Here.at \in {"alloc", "count"}
  PROVE  task_count < MAX_TASKS /\ task_count \in Nat
<1>1. task_count \in Nat
  BY TasksAssumption DEF IInv, TypeOK
<1>2. CASE current_task = -1
  BY <1>1, <1>2, Runner, TasksAssumption DEF IInv, Here, MainInv, Main
<1>3. CASE current_task = 0
  BY <1>1, <1>3, Runner, Apart, TasksAssumption DEF IInv, Here, KernelInv, Kernel
<1>4. CASE current_task = 1
  BY <1>1, <1>4, Runner, Apart DEF IInv, Here, ShellInv, Shell
<1> QED BY <1>1, <1>2, <1>3, <1>4, ThreeThreads

(* When a creation asks for a stack, no other creation is in progress, and *)
(* fewer tasks live than there are stacks: kmalloc finds one.              *)
LEMMA StackAvailable ==
  ASSUME EnoughStacks, IInv, At("alloc")
  PROVE  freelist # {}
<1>1. task_count < MAX_TASKS /\ task_count \in Nat
  BY RoomLemma DEF At
<1>2. \A a \in Bases : frame[a].at \notin Fresh3
  BY OneCreation DEF At, Here, Fresh3
<1> SUFFICES ASSUME freelist = {} PROVE FALSE
  OBVIOUS
<1> DEFINE n == task_count
           Img == {Base(s) : s \in 0 .. n - 1}
<1>3. Blocks \subseteq Img
  <2> SUFFICES ASSUME NEW b \in Blocks PROVE b \in Img
    OBVIOUS
  <2>1. PICK s \in Slots : Live(s) /\ Base(s) = b
    BY <1>2 DEF IInv, Accounted
  <2>2. s \in 0 .. n - 1
    BY <2>1, <1>1, TasksAssumption DEF IInv, ThreadInv, Slots
  <2> QED BY <2>1, <2>2
<1>4. IsFiniteSet(0 .. n - 1) /\ Cardinality(0 .. n - 1) = n
  <2>1. 0 \in Int /\ n - 1 \in Int /\ (0 > n - 1 <=> n = 0) /\ n - 1 - 0 + 1 = n
    BY <1>1
  <2> HIDE DEF n
  <2> QED BY <2>1, FS_Interval
<1>5. IsFiniteSet(Img) /\ Cardinality(Img) <= n
  <2> DEFINE f == [s \in 0 .. n - 1 |-> Base(s)]
  <2>1. f \in Surjection(0 .. n - 1, Img)
    BY DEF Surjection
  <2> HIDE DEF f, Img
  <2> QED BY <1>4, <2>1, FS_Surjection
<1>6. Cardinality(Blocks) <= Cardinality(Img)
  BY <1>3, <1>5, FS_Subset
<1> QED BY <1>1, <1>5, <1>6, FS_CardinalityType, TasksAssumption DEF EnoughStacks

(* The new task's stack comes from the heap, and its first frame is built. *)
LEMMA CreateAllocStep ==
  ASSUME EnoughStacks, IInv, CreateAlloc
  PROVE  IInv'
<1> USE TasksAssumption
<1>1. PICK b \in freelist :
        /\ freelist' = freelist \ {b}
        /\ frame' = [frame EXCEPT ![sp].at = "count", ![sp].stack = b,
                                  ![b] = Fresh(Created(Here.code))]
  BY StackAvailable DEF CreateAlloc
<1>2. /\ UNCHANGED <<tasks, current_task, task_count, sp, IF_, mode, next>>
      /\ Here.at = "alloc" /\ frame[sp].at = "alloc"
  BY DEF CreateAlloc, At, Here
<1>3. b \in Blocks /\ b # BootStack /\ b \in Bases /\ sp \in Bases
  BY DEF IInv, TypeOK, Bases
<1>a. ~(Live(1) /\ Shell.at = "unused")
  BY <1>2, ThreeThreads, Runner, Apart DEF IInv, MainInv, KernelInv, Main, Kernel, Shell, Here
<1>4. \A s \in Slots : Live(s) => Base(s) # b
  BY <1>a DEF IInv, StackInv
<1>5. b # sp
  BY <1>3, <1>4, Runner DEF IInv
<1>6. /\ frame' \in [Bases -> Frame]
      /\ frame'[sp].at = "count" /\ frame'[sp].stack = b
      /\ frame'[sp].code = frame[sp].code
      /\ frame'[b].code = Created(frame[sp].code) /\ frame'[b].at = "sti"
      /\ \A a \in Bases : a # sp /\ a # b => frame'[a] = frame[a]
  <2> DEFINE f == [frame[sp] EXCEPT !.at = "count", !.stack = b]
             g == Fresh(Created(frame[sp].code))
  <2>1. frame[sp] \in Frame /\ frame \in [Bases -> Frame]
    BY <1>3 DEF IInv, TypeOK
  <2>2. f \in Frame /\ f.at = "count" /\ f.stack = b /\ f.code = frame[sp].code
    BY <2>1, <1>3 DEF Frame, Places
  <2>3. g \in Frame /\ g.code = Created(frame[sp].code) /\ g.at = "sti"
    BY DEF Fresh, Frame, Created, Places, Codes, Bases
  <2>4. frame' = [frame EXCEPT ![sp] = f, ![b] = g]
    BY <1>1, <1>5, <2>1, <1>3 DEF Here
  <2> HIDE DEF f, g
  <2> QED BY <2>1, <2>2, <2>3, <2>4, <1>3, <1>5
<1>7. TypeOK'
  BY <1>1, <1>2, <1>6 DEF IInv, TypeOK
<1>8. \A s \in Slots : Live(s) => frame'[Base(s)].code = frame[Base(s)].code
                              /\ (Base(s) # sp => frame'[Base(s)] = frame[Base(s)])
  BY <1>4, <1>6, Apart
<1>9. Main'.code = Main.code /\ (sp # BootStack => Main' = Main)
  BY <1>3, <1>6, Apart DEF Main
<1>10. ThreadInv'
  <2>1. frame[b].at \in {"sti", "hlt"}
    BY <1>3, <1>4, Apart DEF IInv, ThreadInv
  <2>2. ASSUME NEW a \in Bases, frame'[a].at \notin {"sti", "hlt"}
        PROVE  \/ a = BootStack
               \/ Live(0) /\ a = Base(0)
               \/ Live(1) /\ a = Base(1)
    BY <1>2, <1>6, <2>2, ThreadsAt
  <2> QED BY <1>2, <1>8, <1>9, <2>2 DEF IInv, ThreadInv, Live, Base
<1>11. MainInv' /\ KernelInv' /\ ShellInv'
  <2>1. MainInv'
    BY <1>2, <1>6, <1>8, <1>9, ThreeThreads, Runner, Apart DEF IInv, MainInv, Main,
       Kernel, Live, Base
  <2>2. KernelInv'
    BY <1>2, <1>6, <1>8, ThreeThreads, Apart DEF IInv, KernelInv, Kernel, Live, Base
  <2>3. ShellInv'
    BY <1>2, <1>6, <1>8, <1>a, ThreeThreads, Apart DEF IInv, ShellInv, Shell, Live, Base
  <2> QED BY <2>1, <2>2, <2>3
<1>12. NewStackInv'
  <2>1. \A a \in Bases : a # sp => frame'[a].at \notin Fresh3
    BY <1>2, <1>6, OneCreation DEF Fresh3, At
  <2> QED BY <2>1, <1>1, <1>2, <1>3, <1>4, <1>5, <1>6 DEF NewStackInv, Live, Base, Fresh3
<1>13. StackInv'
  <2>1. Live(1) => /\ Shell'.at \in {"stack_base", "unused"} <=> Shell.at \in {"stack_base", "unused"}
                   /\ Shell.at \in {"stack_base", "unused"} => Shell' = Shell
    BY <1>2, <1>6, <1>8, Apart DEF Shell, Base
  <2>2. \A s \in Slots : Live(s) /\ s >= 2 => Live(1)
    BY DEF IInv, ThreadInv
  <2> QED BY <1>1, <1>2, <2>1, <2>2 DEF IInv, StackInv, Live, Base
<1>14. Accounted'
  BY <1>1, <1>2, <1>6, OneCreation, <1>3 DEF IInv, Accounted, Live, Base, Fresh3, At
<1>15. NotShared' /\ CurrentRuns'
  BY <1>2 DEF IInv, NotShared, CurrentRuns
<1> QED BY <1>7, <1>10, <1>11, <1>12, <1>13, <1>14, <1>15 DEF IInv

(* task_count grows before the slot is published.                          *)
LEMMA CreateCountStep ==
  ASSUME IInv, CreateCount
  PROVE  IInv'
<1> USE TasksAssumption
<1>1. /\ task_count' = task_count + 1
      /\ UNCHANGED <<tasks, current_task, freelist, sp, IF_, mode, next>>
      /\ Here.at = "count" /\ frame[sp].at = "count"
  BY DEF CreateCount, At, Here
<1>2. task_count < MAX_TASKS /\ task_count \in Nat
  BY <1>1, RoomLemma
<1>3. /\ frame' \in [Bases -> Frame]
      /\ frame'[sp].at = "esp" /\ frame'[sp].slot = task_count
      /\ frame'[sp].code = frame[sp].code /\ frame'[sp].stack = frame[sp].stack
      /\ \A a \in Bases : a # sp => frame'[a] = frame[a]
  <2> DEFINE f == [frame[sp] EXCEPT !.at = "esp", !.slot = task_count]
  <2>1. sp \in Bases /\ frame[sp] \in Frame /\ frame \in [Bases -> Frame]
    BY DEF IInv, TypeOK
  <2>2. /\ f \in Frame /\ f.at = "esp" /\ f.slot = task_count
        /\ f.code = frame[sp].code /\ f.stack = frame[sp].stack
    <3>1. task_count \in -1 .. MAX_TASKS /\ "esp" \in Places
      BY <1>2 DEF Places
    <3> QED BY <2>1, <3>1 DEF Frame
  <2>3. frame' = [frame EXCEPT ![sp] = f]
    BY <2>1 DEF CreateCount
  <2> HIDE DEF f
  <2> QED BY <2>1, <2>2, <2>3
<1>4. TypeOK'
  BY <1>1, <1>2, <1>3 DEF IInv, TypeOK
<1>5. \A s \in Slots : Live(s) => s < task_count
  BY DEF IInv, ThreadInv
<1>6. ThreadInv'
  <2>1. ASSUME NEW a \in Bases, frame'[a].at \notin {"sti", "hlt"}
        PROVE  \/ a = BootStack
               \/ Live(0) /\ a = Base(0)
               \/ Live(1) /\ a = Base(1)
    BY <1>1, <1>3, <2>1, ThreadsAt
  <2> QED BY <1>1, <1>2, <1>3, <1>5, <2>1, Apart DEF IInv, ThreadInv, Live, Base, Main, Slots
<1>7. MainInv'
  BY <1>1, <1>2, <1>3, <1>5, ThreeThreads, Runner, Apart DEF IInv, MainInv, Main, Kernel, Live, Base
<1>8. KernelInv'
  <2>1. MainInv /\ KernelInv
    BY DEF IInv
  <2> QED BY <1>1, <1>2, <1>3, <1>5, <2>1, ThreeThreads, Runner, Apart
          DEF MainInv, Main, KernelInv, Kernel, Live, Base
<1>9. ShellInv'
  <2>1. CASE current_task = 1
    <3>1. /\ Shell'.at = "esp" /\ Shell'.slot = task_count
          /\ task_count \in 2 .. task_count' - 1 /\ task_count = task_count' - 1
      BY <2>1, <1>1, <1>2, <1>3, Runner, Apart DEF Shell, Base
    <3>2. ~tasks'[task_count].used
      BY <1>1, <1>2, <1>5 DEF Live, Slots
    <3> QED BY <3>1, <3>2 DEF ShellInv, Live
  <2>2. CASE current_task # 1
    BY <2>2, <1>1, <1>2, <1>3, ThreeThreads, Apart DEF IInv, MainInv, Main, KernelInv, Kernel, Live, ShellInv
  <2> QED BY <2>1, <2>2
<1>10. NewStackInv'
  <2>1. \A a \in Bases : a # sp => frame'[a].at \notin Fresh3
    BY <1>1, <1>3, OneCreation
  <2>2. frame[sp].stack \in Bases /\ frame[sp].stack # sp /\ sp \in Bases
    BY <1>1, Apart DEF IInv, NewStackInv, Fresh3, Bases
  <2> QED BY <2>1, <2>2, <1>1, <1>3 DEF IInv, NewStackInv, Live, Base, Fresh3
<1>11. StackInv'
  <2>1. Live(1) => /\ Shell'.at \in {"stack_base", "unused"} <=> Shell.at \in {"stack_base", "unused"}
                   /\ Shell.at \in {"stack_base", "unused"} => Shell' = Shell
    BY <1>1, <1>3, Apart DEF Shell, Base
  <2>2. \A s \in Slots : Live(s) /\ s >= 2 => Live(1)
    BY DEF IInv, ThreadInv
  <2> QED BY <1>1, <2>1, <2>2 DEF IInv, StackInv, Live, Base
<1>12. Accounted'
  BY <1>1, <1>3 DEF IInv, Accounted, Live, Base, Fresh3
<1>13. NotShared' /\ CurrentRuns'
  BY <1>1 DEF IInv, NotShared, CurrentRuns
<1> QED BY <1>4, <1>6, <1>7, <1>8, <1>9, <1>10, <1>11, <1>12, <1>13 DEF IInv

(* The slot that a creation is filling is in the table and not live yet.   *)
LEMMA NewSlot ==
  ASSUME IInv, Here.at \in {"esp", "used"}
  PROVE  /\ Here.slot \in Slots /\ ~Live(Here.slot) /\ Here.slot < task_count
         /\ Here.slot = 0 <=> current_task = -1
         /\ Here.slot = 1 <=> current_task = 0
         /\ Here.slot >= 2 <=> current_task = 1
<1> USE TasksAssumption
<1>1. CASE current_task = -1
  BY <1>1, Runner DEF IInv, Here, MainInv, Main, Slots
<1>2. CASE current_task = 0
  BY <1>2, Runner, Apart DEF IInv, Here, KernelInv, Kernel, Slots
<1>3. CASE current_task = 1
  BY <1>3, Runner, Apart DEF IInv, TypeOK, Here, ShellInv, Shell, Slots
<1> QED BY <1>1, <1>2, <1>3, ThreeThreads

(* The slot of any creation that is about to publish it, likewise.         *)
LEMMA SlotInTable ==
  ASSUME IInv, NEW a \in Bases, frame[a].at = "used"
  PROVE  frame[a].slot \in Slots /\ ~Live(frame[a].slot)
<1>1. a = BootStack \/ (Live(0) /\ a = Base(0)) \/ (Live(1) /\ a = Base(1))
  BY ThreadsAt
<1>2. CASE a = BootStack
  BY <1>2, Apart DEF IInv, MainInv, Main
<1>3. CASE Live(0) /\ a = Base(0)
  BY <1>3, Apart DEF IInv, KernelInv, Kernel
<1>4. CASE Live(1) /\ a = Base(1)
  BY <1>4, TasksAssumption DEF IInv, TypeOK, ShellInv, Shell, Slots
<1> QED BY <1>1, <1>2, <1>3, <1>4

(* The stack pointer of the new task is stored in its slot.                *)
LEMMA CreateEspStep ==
  ASSUME IInv, CreateEsp
  PROVE  IInv'
<1> USE TasksAssumption
<1>1. /\ UNCHANGED <<current_task, task_count, freelist, sp, IF_, mode, next>>
      /\ Here.at = "esp" /\ frame[sp].at = "esp" /\ GoTo("used")
  BY DEF CreateEsp, At, Here
<1>2. /\ frame' \in [Bases -> Frame]
      /\ frame'[sp].at = "used" /\ frame'[sp].slot = frame[sp].slot
      /\ frame'[sp].code = frame[sp].code /\ frame'[sp].stack = frame[sp].stack
      /\ \A a \in Bases : a # sp => frame'[a] = frame[a]
  BY <1>1, GoToLemma DEF IInv, Places
<1>3. /\ tasks' \in [Slots -> Task]
      /\ \A s \in Slots : tasks'[s].used = tasks[s].used
      /\ \A s \in Slots : Live(s) => tasks'[s] = tasks[s]
      /\ tasks'[Here.slot].esp = [base |-> Here.stack, kind |-> "entry"]
  <2> DEFINE e == [base |-> Here.stack, kind |-> "entry"]
             t == [tasks[Here.slot] EXCEPT !.esp = e]
  <2>1. /\ Here.slot \in Slots /\ tasks[Here.slot] \in Task /\ ~Live(Here.slot)
        /\ tasks \in [Slots -> Task] /\ Here.stack \in Bases
    BY <1>1, NewSlot DEF IInv, TypeOK, Here, Frame
  <2>2. e \in [base : Bases, kind : Kinds]
    BY <2>1 DEF Kinds
  <2>3. t \in Task /\ t.esp = e /\ t.used = tasks[Here.slot].used
    BY <2>1, <2>2 DEF Task
  <2>4. tasks' = [tasks EXCEPT ![Here.slot] = t]
    BY <2>1 DEF CreateEsp
  <2> HIDE DEF t, e
  <2> QED BY <2>1, <2>3, <2>4 DEF Live, e
<1>4. TypeOK'
  BY <1>1, <1>2, <1>3 DEF IInv, TypeOK
<1>5. \A s \in Slots : Live(s)' = Live(s) /\ (Live(s) => Base(s)' = Base(s))
  BY <1>3 DEF Live, Base
<1>6. ThreadInv'
  <2>1. ASSUME NEW a \in Bases, frame'[a].at \notin {"sti", "hlt"}
        PROVE  \/ a = BootStack
               \/ Live(0) /\ a = Base(0)
               \/ Live(1) /\ a = Base(1)
    BY <1>1, <1>2, <2>1, ThreadsAt
  <2> QED BY <1>1, <1>2, <1>3, <1>5, <2>1, Apart DEF IInv, ThreadInv, Main
<1>7. MainInv'
  BY <1>1, <1>2, <1>5, ThreeThreads, Runner, Apart DEF IInv, MainInv, Main, Kernel
<1>8. KernelInv'
  BY <1>1, <1>2, <1>5, ThreeThreads, Runner, Apart DEF IInv, KernelInv, Kernel
<1>9. ShellInv'
  BY <1>1, <1>2, <1>5, ThreeThreads, Runner, Apart, NewSlot DEF IInv, ShellInv, Shell, Slots, TypeOK, Here
<1>10. NewStackInv'
  <2>1. \A a \in Bases : a # sp => frame'[a].at \notin Fresh3
    BY <1>1, <1>2, OneCreation
  <2>2. frame[sp].stack \in Bases /\ frame[sp].stack # sp /\ sp \in Bases
    BY <1>1, Apart DEF IInv, NewStackInv, Fresh3, Bases
  <2>3. /\ frame[sp].stack \in Blocks \ freelist
        /\ frame[frame[sp].stack].code = Created(frame[sp].code)
        /\ frame[frame[sp].stack].at = "sti"
        /\ \A s \in Slots : Live(s) => Base(s) # frame[sp].stack
    BY <1>1, <2>2 DEF IInv, NewStackInv, Fresh3
  <2> QED BY <2>1, <2>2, <2>3, <1>1, <1>2, <1>3, <1>5 DEF NewStackInv, Here
<1>11. StackInv'
  <2>1. Live(1) => /\ Shell'.at \in {"stack_base", "unused"} <=> Shell.at \in {"stack_base", "unused"}
                   /\ Shell.at \in {"stack_base", "unused"} => Shell' = Shell
    BY <1>1, <1>2, <1>5, Apart DEF Shell
  <2>2. \A s \in Slots : Live(s) /\ s >= 2 => Live(1)
    BY DEF IInv, ThreadInv
  <2> QED BY <1>1, <1>3, <1>5, <2>1, <2>2, Apart DEF IInv, StackInv
<1>12. Accounted'
  BY <1>1, <1>2, <1>5 DEF IInv, Accounted, Fresh3
<1>13. NotShared' /\ CurrentRuns'
  BY <1>1, <1>5, Runner DEF IInv, NotShared, CurrentRuns, Live, Base
<1> QED BY <1>4, <1>6, <1>7, <1>8, <1>9, <1>10, <1>11, <1>12, <1>13 DEF IInv

(* The slot is published: from here a tick may switch to it.               *)
LEMMA CreateUsedStep ==
  ASSUME IInv, CreateUsed
  PROVE  IInv'
<1> USE TasksAssumption
<1>0. PICK slot, stack : slot = Here.slot /\ stack = Here.stack
  OBVIOUS
<1>1. /\ UNCHANGED <<current_task, task_count, freelist, sp, IF_, mode, next>>
      /\ Here.at = "used" /\ frame[sp].at = "used" /\ GoTo("stack_base")
      /\ stack = frame[sp].stack /\ slot = frame[sp].slot
  BY <1>0 DEF CreateUsed, At, Here
<1>2. /\ frame' \in [Bases -> Frame]
      /\ frame'[sp].at = "stack_base" /\ frame'[sp].slot = slot
      /\ frame'[sp].code = frame[sp].code /\ frame'[sp].stack = stack
      /\ \A a \in Bases : a # sp => frame'[a] = frame[a]
  BY <1>1, GoToLemma DEF IInv, Places
<1>3. /\ slot \in Slots /\ ~Live(slot) /\ slot < task_count
      /\ slot = 0 <=> current_task = -1
      /\ slot = 1 <=> current_task = 0
      /\ slot >= 2 <=> current_task = 1
  BY <1>0, <1>1, NewSlot
<1>4. /\ stack \in Blocks /\ stack \notin freelist /\ stack # sp /\ stack \in Bases
      /\ frame[stack].code = Created(Here.code) /\ frame[stack].at = "sti"
      /\ \A s \in Slots : Live(s) => Base(s) # stack
      /\ tasks[slot].esp = [base |-> stack, kind |-> "entry"]
  BY <1>0, <1>1, Apart DEF IInv, NewStackInv, Fresh3, Here, Bases
<1>5. /\ tasks' \in [Slots -> Task]
      /\ \A s \in Slots : s # slot => tasks'[s] = tasks[s]
      /\ tasks'[slot].used /\ tasks'[slot].esp = tasks[slot].esp
  <2> DEFINE t == [tasks[slot] EXCEPT !.used = TRUE]
  <2>1. tasks[slot] \in Task /\ tasks \in [Slots -> Task]
    BY <1>3 DEF IInv, TypeOK
  <2>2. t \in Task /\ t.esp = tasks[slot].esp /\ t.used = TRUE
    BY <2>1 DEF Task
  <2>3. tasks' = [tasks EXCEPT ![slot] = t]
    BY <1>0, <1>3, <2>1 DEF CreateUsed
  <2> HIDE DEF t
  <2> QED BY <1>3, <2>1, <2>2, <2>3
<1>6. TypeOK'
  BY <1>1, <1>2, <1>5 DEF IInv, TypeOK
<1>7. /\ \A s \in Slots : Live(s)' <=> Live(s) \/ s = slot
      /\ \A s \in Slots : Live(s) => Base(s)' = Base(s)
      /\ tasks'[slot].esp.base = stack /\ tasks'[slot].esp.kind = "entry"
  BY <1>3, <1>4, <1>5 DEF Live, Base
<1>8. /\ frame'[stack] = frame[stack] /\ stack # BootStack
      /\ frame'[stack].code = CodeOf(slot)
  BY <1>1, <1>2, <1>3, <1>4, ThreeThreads DEF CodeOf, Created, Slots
<1>9. ThreadInv'
  <2>1. ASSUME NEW a \in Bases, frame'[a].at \notin {"sti", "hlt"}
        PROVE  \/ a = BootStack
               \/ Live(0) /\ a = Base(0)
               \/ Live(1) /\ a = Base(1)
    BY <1>1, <1>2, <2>1, ThreadsAt
  <2>2. ASSUME NEW s \in Slots, Live(s)'
        PROVE  /\ s < task_count
               /\ Base(s)' \in Blocks
               /\ tasks'[s].esp.kind # "none"
               /\ frame'[Base(s)'].code = CodeOf(s)
               /\ s # 0 => Live(0)'
               /\ s >= 2 => Live(1)'
    <3>1. CASE s = slot
      BY <3>1, <1>3, <1>4, <1>7, <1>8, Runner, Apart DEF Base, Slots
    <3>2. CASE s # slot
      BY <3>2, <2>2, <1>2, <1>5, <1>7, Apart DEF IInv, ThreadInv, Base
    <3> QED BY <3>1, <3>2
  <2>3. Main'.code = "kernel_main"
    BY <1>2, Apart DEF Main, IInv, ThreadInv
  <2> QED BY <1>1, <1>7, <2>1, <2>2, <2>3, Apart DEF ThreadInv
<1>10. MainInv'
  BY <1>1, <1>2, <1>3, <1>4, <1>7, <1>8, ThreeThreads, Runner, Apart DEF IInv, MainInv, Main, Kernel, Base
<1>11. KernelInv'
  <2>1. CASE current_task = -1
    BY <2>1, <1>1, <1>3, <1>4, <1>7, <1>8, Runner DEF IInv, MainInv, Main, KernelInv, Kernel, Base
  <2>2. CASE current_task = 0
    BY <2>2, <1>1, <1>2, <1>3, <1>7, Runner, Apart DEF IInv, KernelInv, Kernel
  <2>3. CASE current_task = 1
    BY <2>3, <1>1, <1>2, <1>3, <1>7, Runner, Apart DEF IInv, KernelInv, Kernel
  <2> QED BY <1>1, <2>1, <2>2, <2>3, ThreeThreads
<1>12. ShellInv'
  <2>1. CASE current_task = 1
    <3>1. /\ Shell'.at = "stack_base" /\ Shell'.slot = slot /\ Shell'.stack = stack
          /\ slot \in 2 .. task_count' - 1
      BY <2>1, <1>1, <1>2, <1>3, <1>7, Runner, Apart DEF Shell, IInv, TypeOK, Slots
    <3>2. Live(slot)' /\ Base(slot)' = stack
      BY <1>3, <1>7 DEF Base
    <3> QED BY <3>1, <3>2 DEF ShellInv, Live, Base
  <2>2. CASE current_task = 0
    BY <2>2, <1>3, <1>4, <1>7, <1>8 DEF ShellInv, Shell, Base
  <2>3. CASE current_task = -1
    BY <2>3, <1>1, <1>3, <1>7, Apart DEF IInv, MainInv, ShellInv, TypeOK
  <2> QED BY <1>1, <2>1, <2>2, <2>3, ThreeThreads
<1>13. NewStackInv'
  BY <1>1, <1>2, OneCreation DEF NewStackInv, Fresh3
<1>14. StackInv'
  <2>1. Live(1) /\ current_task # 1 => Shell' = Shell
    BY <1>1, <1>2, <1>7, Apart DEF Shell
  <2>2. current_task = 1 => /\ Shell.at = "used" /\ Shell'.at = "stack_base" /\ Shell'.slot = slot
    BY <1>1, <1>2, <1>7, Runner, Apart DEF Shell
  <2>3. \A s \in Slots : Live(s) /\ s >= 2 => Live(1)
    BY DEF IInv, ThreadInv
  <2>4. ASSUME NEW s \in Slots, Live(s)
        PROVE  /\ Base(s)' \notin freelist' \/ (Live(1)' /\ Shell'.at = "unused" /\ Shell'.slot = s)
               /\ s >= 2 => \/ tasks'[s].stack_base = Base(s)'
                            \/ Shell'.at = "stack_base" /\ Shell'.slot = s
    <3>1. /\ Base(s) \notin freelist \/ (Live(1) /\ Shell.at = "unused" /\ Shell.slot = s)
          /\ s >= 2 => \/ tasks[s].stack_base = Base(s)
                       \/ Shell.at = "stack_base" /\ Shell.slot = s
      BY <2>4 DEF IInv, StackInv
    <3>2. tasks'[s] = tasks[s] /\ Base(s)' = Base(s) /\ s # slot
      BY <2>4, <1>3, <1>5, <1>7
    <3>3. freelist' = freelist /\ (Live(1) => Live(1)')
      BY <1>1, <1>7, Apart
    <3>4. CASE current_task = 1
      BY <3>1, <3>2, <3>3, <3>4, <2>2
    <3>5. CASE current_task # 1
      BY <3>1, <3>2, <3>3, <3>5, <2>4, <2>1, <2>3
    <3> QED BY <3>4, <3>5
  <2>5. Base(slot)' \notin freelist' /\ (slot >= 2 => Shell'.at = "stack_base" /\ Shell'.slot = slot)
    BY <1>1, <1>3, <1>4, <1>7, <2>2 DEF Base
  <2> QED BY <1>7, <2>4, <2>5 DEF StackInv
<1>15. Accounted'
  <2>1. ASSUME NEW b \in Blocks, b # stack
        PROVE  \/ b \in freelist'
               \/ \E s \in Slots : Live(s)' /\ Base(s)' = b
    BY <1>1, <1>2, <1>7, <2>1, OneCreation DEF IInv, Accounted, Fresh3
  <2>2. \E s \in Slots : Live(s)' /\ Base(s)' = stack
    BY <1>3, <1>7 DEF Base
  <2> QED BY <2>1, <2>2 DEF Accounted
<1>16. NotShared'
  BY <1>3, <1>4, <1>7 DEF IInv, NotShared, Live, Base
<1>17. CurrentRuns'
  BY <1>1, <1>7, Runner DEF IInv, CurrentRuns, Live, Base
<1> QED BY <1>6, <1>9, <1>10, <1>11, <1>12, <1>13, <1>14, <1>15, <1>16, <1>17 DEF IInv

(* The stack is recorded in the slot, after it is published.               *)
LEMMA CreateStackBaseStep ==
  ASSUME IInv, CreateStackBase
  PROVE  IInv'
<1> USE TasksAssumption
<1>0. PICK slot, stack : slot = Here.slot /\ stack = Here.stack
  OBVIOUS
<1>1. /\ UNCHANGED <<current_task, task_count, freelist, sp, IF_, mode, next>>
      /\ Here.at = "stack_base" /\ frame[sp].at = "stack_base"
      /\ GoTo(AfterCreate(Here.code))
  BY DEF CreateStackBase, At, Here
<1>2. AfterCreate(Here.code) \in {"sti", "fs_init", "hlt"}
      /\ (current_task = -1 => AfterCreate(Here.code) = "sti")
      /\ (current_task = 0 => AfterCreate(Here.code) = "fs_init")
      /\ (current_task = 1 => AfterCreate(Here.code) = "hlt")
  BY <1>1, ThreeThreads DEF AfterCreate
<1>3. /\ frame' \in [Bases -> Frame]
      /\ frame'[sp].at = AfterCreate(Here.code)
      /\ frame'[sp].code = frame[sp].code
      /\ \A a \in Bases : a # sp => frame'[a] = frame[a]
  BY <1>1, <1>2, GoToLemma DEF IInv, Places
<1>4. /\ slot \in Slots /\ Live(slot)
      /\ slot >= 2 <=> current_task = 1
      /\ current_task = 1 => Base(slot) = stack
  <2>1. CASE current_task = -1
    BY <2>1, <1>0, <1>1, Runner, Apart DEF IInv, Here, MainInv, Main
  <2>2. CASE current_task = 0
    BY <2>2, <1>0, <1>1, Runner, Apart DEF IInv, Here, KernelInv, Kernel
  <2>3. CASE current_task = 1
    BY <2>3, <1>0, <1>1, Runner, Apart DEF IInv, Here, ShellInv, Shell, TypeOK, Slots
  <2> QED BY <1>1, <2>1, <2>2, <2>3, ThreeThreads
<1>5. /\ tasks' \in [Slots -> Task]
      /\ \A s \in Slots : /\ tasks'[s].used = tasks[s].used
                          /\ tasks'[s].esp = tasks[s].esp
                          /\ s # slot => tasks'[s] = tasks[s]
      /\ tasks'[slot].stack_base = stack
  <2> DEFINE t == [tasks[slot] EXCEPT !.stack_base = stack]
  <2>1. tasks[slot] \in Task /\ tasks \in [Slots -> Task] /\ stack \in Bases
    BY <1>0, <1>4 DEF IInv, TypeOK, Here, Frame
  <2>2. t \in Task /\ t.esp = tasks[slot].esp /\ t.used = tasks[slot].used /\ t.stack_base = stack
    BY <2>1 DEF Task
  <2>3. tasks' = [tasks EXCEPT ![slot] = t]
    BY <1>0, <1>4, <2>1 DEF CreateStackBase
  <2> HIDE DEF t
  <2> QED BY <1>4, <2>1, <2>2, <2>3
<1>6. TypeOK'
  BY <1>1, <1>3, <1>5 DEF IInv, TypeOK
<1>7. \A s \in Slots : Live(s)' = Live(s) /\ Base(s)' = Base(s)
  BY <1>5 DEF Live, Base
<1>8. ThreadInv'
  <2>1. ASSUME NEW a \in Bases, frame'[a].at \notin {"sti", "hlt"}
        PROVE  \/ a = BootStack
               \/ Live(0) /\ a = Base(0)
               \/ Live(1) /\ a = Base(1)
    BY <1>1, <1>3, <2>1, ThreadsAt
  <2> QED BY <1>1, <1>3, <1>5, <1>7, <2>1, Apart DEF IInv, ThreadInv, Main
<1>9. MainInv' /\ KernelInv' /\ ShellInv'
  <2>1. MainInv'
    BY <1>1, <1>2, <1>3, <1>7, ThreeThreads, Runner, Apart DEF IInv, MainInv, Main, Kernel
  <2>2. KernelInv'
    BY <1>1, <1>2, <1>3, <1>7, ThreeThreads, Runner, Apart DEF IInv, KernelInv, Kernel
  <2>3. ShellInv'
    <3>1. CASE current_task = 1
      BY <3>1, <1>1, <1>2, <1>3, Runner, Apart, <1>7 DEF ShellInv, Shell
    <3>2. CASE current_task # 1
      <4>1. Live(1) => Shell' = Shell
        BY <3>2, <1>3, <1>7, Apart DEF Shell
      <4> QED BY <3>2, <4>1, <1>1, <1>7, Apart DEF IInv, ShellInv, TypeOK, Slots, Live, Base
    <3> QED BY <3>1, <3>2
  <2> QED BY <2>1, <2>2, <2>3
<1>10. NewStackInv'
  <2>1. ASSUME NEW b \in Bases, frame'[b].at \in Fresh3
        PROVE  b # sp /\ frame'[b] = frame[b] /\ frame[b].at \in Fresh3
    BY <2>1, <1>2, <1>3 DEF Fresh3
  <2>2. ASSUME NEW b \in Bases, frame'[b].at \in Fresh3
        PROVE  /\ frame[b].stack # sp /\ frame[b].stack \in Bases
               /\ frame[b].at = "used" => frame[b].slot \in Slots
    <3>1. /\ frame[b].stack \in Blocks
          /\ \A s \in Slots : Live(s) => Base(s) # frame[b].stack
      BY <2>1, <2>2 DEF IInv, NewStackInv
    <3>2. frame[b].at = "used" => frame[b].slot \in Slots
      BY SlotInTable
    <3> QED BY <3>1, <3>2, Runner DEF Bases
  <2>3. ASSUME NEW b \in Bases, frame'[b].at \in Fresh3
        PROVE  /\ frame'[frame[b].stack] = frame[frame[b].stack]
               /\ frame[b].at = "used" => tasks'[frame[b].slot].esp = tasks[frame[b].slot].esp
    BY <2>2, <2>3, <1>3, <1>5
  <2> QED BY <2>1, <2>3, <1>1, <1>7 DEF IInv, NewStackInv
<1>11. StackInv'
  <2>1. current_task = 1 => Shell.at = "stack_base" /\ Shell.slot = slot /\ Shell'.at = "hlt"
    BY <1>0, <1>1, <1>2, <1>3, <1>7, Runner, Apart DEF Shell, Here
  <2>2. Live(1) /\ current_task # 1 => Shell' = Shell
    BY <1>3, <1>7, Apart DEF Shell
  <2>3. ASSUME NEW s \in Slots, Live(s)
        PROVE  /\ Base(s)' \notin freelist' \/ (Live(1)' /\ Shell'.at = "unused" /\ Shell'.slot = s)
               /\ s >= 2 => \/ tasks'[s].stack_base = Base(s)'
                            \/ Shell'.at = "stack_base" /\ Shell'.slot = s
    <3>1. /\ Base(s) \notin freelist \/ (Live(1) /\ Shell.at = "unused" /\ Shell.slot = s)
          /\ s >= 2 => \/ tasks[s].stack_base = Base(s)
                       \/ Shell.at = "stack_base" /\ Shell.slot = s
          /\ s >= 2 => Live(1)
      BY <2>3 DEF IInv, StackInv, ThreadInv
    <3>2. freelist' = freelist /\ Live(1)' = Live(1) /\ Base(s)' = Base(s)
      BY <1>1, <1>7, Apart
    <3>3. CASE current_task = 1
      BY <3>1, <3>2, <3>3, <2>1, <1>4, <1>5
    <3>4. CASE current_task # 1
      BY <3>1, <3>2, <3>4, <2>2, <1>4, <1>5
    <3> QED BY <3>3, <3>4
  <2> QED BY <1>7, <2>3 DEF StackInv
<1>12. Accounted'
  BY <1>1, <1>2, <1>3, <1>7 DEF IInv, Accounted, Fresh3
<1>13. NotShared' /\ CurrentRuns'
  BY <1>1, <1>7, Runner DEF IInv, NotShared, CurrentRuns, Live, Base
<1> QED BY <1>6, <1>8, <1>9, <1>10, <1>11, <1>12, <1>13 DEF IInv

-----------------------------------------------------------------------------
(* Between its test and its last store, task_kill runs in the shell, and   *)
(* its victim is live and neither the kernel task nor the shell.           *)
LEMMA Victim ==
  ASSUME IInv, Here.at \in {"kfree", "unused"}
  PROVE  /\ current_task = 1 /\ sp = Base(1) /\ Live(1) /\ Shell = Here
         /\ Here.slot \in Slots /\ Here.slot >= 2 /\ Live(Here.slot)
         /\ Here.slot < task_count
<1>1. current_task = 1 /\ sp = Base(1)
  BY ThreeThreads, Apart, Runner DEF IInv, MainInv, KernelInv, Main, Kernel, Here, Live
<1> QED BY <1>1, Runner, TasksAssumption DEF IInv, TypeOK, ShellInv, Shell, Here, Slots

(* The stack of the task goes back to the heap while its slot is still in  *)
(* use.                                                                    *)
LEMMA KillFreeStep ==
  ASSUME IInv, KillFree
  PROVE  IInv'
<1> USE TasksAssumption
<1>0. PICK slot : slot = Here.slot
  OBVIOUS
<1>1. /\ UNCHANGED <<tasks, current_task, task_count, sp, IF_, mode, next>>
      /\ Here.at = "kfree" /\ frame[sp].at = "kfree" /\ GoTo("unused")
  BY DEF KillFree, At, Here
<1>2. /\ frame' \in [Bases -> Frame]
      /\ frame'[sp].at = "unused" /\ frame'[sp].slot = slot
      /\ frame'[sp].code = frame[sp].code
      /\ \A a \in Bases : a # sp => frame'[a] = frame[a]
  BY <1>0, <1>1, GoToLemma DEF IInv, Places, Here
<1>3. /\ current_task = 1 /\ sp = Base(1) /\ Live(1) /\ Shell = Here
      /\ slot \in Slots /\ slot >= 2 /\ Live(slot) /\ slot < task_count
  BY <1>0, <1>1, Victim
<1>4. Base(slot) \in Blocks /\ tasks[slot].stack_base = Base(slot)
  BY <1>1, <1>3 DEF IInv, StackInv, ThreadInv
<1>5. freelist' = freelist \cup {Base(slot)}
  BY <1>0, <1>4 DEF KillFree
<1>6. TypeOK'
  BY <1>1, <1>2, <1>4, <1>5 DEF IInv, TypeOK
<1>7. \A s \in Slots : Live(s)' = Live(s) /\ Base(s)' = Base(s)
  BY <1>1 DEF Live, Base
<1>8. ThreadInv'
  <2>1. ASSUME NEW a \in Bases, frame'[a].at \notin {"sti", "hlt"}
        PROVE  \/ a = BootStack
               \/ Live(0) /\ a = Base(0)
               \/ Live(1) /\ a = Base(1)
    BY <1>1, <1>2, <2>1, ThreadsAt
  <2> QED BY <1>1, <1>2, <1>7, <2>1, Apart DEF IInv, ThreadInv, Main
<1>9. MainInv' /\ KernelInv'
  BY <1>1, <1>2, <1>3, <1>7, Runner, Apart DEF IInv, MainInv, KernelInv, Main, Kernel
<1>10. Shell'.at = "unused" /\ Shell'.slot = slot
  BY <1>2, <1>3, <1>7, Apart DEF Shell
<1>11. ShellInv'
  <2>1. slot \in 2 .. task_count' - 1
    BY <1>1, <1>3 DEF IInv, TypeOK, Slots
  <2>2. Base(slot)' \in freelist' /\ Live(slot)'
    BY <1>3, <1>5, <1>7
  <2> QED BY <1>10, <2>1, <2>2 DEF ShellInv, Live, Base
<1>12. NewStackInv'
  <2>1. \A a \in Bases : a # sp => frame[a].at \notin Fresh3
    BY <1>1, <1>3, ThreadsAt, Apart, Runner DEF IInv, MainInv, KernelInv, Main, Kernel, Fresh3
  <2> QED BY <2>1, <1>2 DEF NewStackInv, Fresh3
<1>13. StackInv'
  BY <1>1, <1>3, <1>4, <1>5, <1>7, <1>10, Apart DEF IInv, StackInv, NotShared, Live, Base
<1>14. Accounted'
  BY <1>1, <1>2, <1>5, <1>7 DEF IInv, Accounted, Fresh3
<1>15. NotShared' /\ CurrentRuns'
  BY <1>1 DEF IInv, NotShared, CurrentRuns
<1> QED BY <1>6, <1>8, <1>9, <1>11, <1>12, <1>13, <1>14, <1>15 DEF IInv

(* The slot of the killed task is marked unused.                           *)
LEMMA KillUnusedStep ==
  ASSUME IInv, KillUnused
  PROVE  IInv'
<1> USE TasksAssumption
<1>0. PICK slot : slot = Here.slot
  OBVIOUS
<1>1. /\ UNCHANGED <<current_task, task_count, freelist, sp, IF_, mode, next>>
      /\ Here.at = "unused" /\ frame[sp].at = "unused" /\ GoTo("hlt")
  BY DEF KillUnused, At, Here
<1>2. /\ frame' \in [Bases -> Frame]
      /\ frame'[sp].at = "hlt"
      /\ frame'[sp].code = frame[sp].code
      /\ \A a \in Bases : a # sp => frame'[a] = frame[a]
  BY <1>1, GoToLemma DEF IInv, Places
<1>3. /\ current_task = 1 /\ sp = Base(1) /\ Live(1) /\ Shell = Here
      /\ slot \in Slots /\ slot >= 2 /\ Live(slot) /\ slot < task_count
  BY <1>0, <1>1, Victim
<1>4. /\ tasks' \in [Slots -> Task]
      /\ \A s \in Slots : s # slot => tasks'[s] = tasks[s]
      /\ tasks'[slot].used = FALSE
  <2> DEFINE t == [tasks[slot] EXCEPT !.used = FALSE]
  <2>1. tasks[slot] \in Task /\ tasks \in [Slots -> Task]
    BY <1>3 DEF IInv, TypeOK
  <2>2. t \in Task /\ t.used = FALSE
    BY <2>1 DEF Task
  <2>3. tasks' = [tasks EXCEPT ![slot] = t]
    BY <1>0, <1>3, <2>1 DEF KillUnused
  <2> HIDE DEF t
  <2> QED BY <1>3, <2>1, <2>2, <2>3
<1>5. TypeOK'
  BY <1>1, <1>2, <1>4 DEF IInv, TypeOK
<1>6. \A s \in Slots : /\ Live(s)' <=> Live(s) /\ s # slot
                       /\ s # slot => Base(s)' = Base(s) /\ tasks'[s] = tasks[s]
  BY <1>3, <1>4 DEF Live, Base
<1>7. 0 # slot /\ 1 # slot
  BY <1>3
<1>8. ThreadInv'
  <2>1. ASSUME NEW a \in Bases, frame'[a].at \notin {"sti", "hlt"}
        PROVE  \/ a = BootStack
               \/ Live(0) /\ a = Base(0)
               \/ Live(1) /\ a = Base(1)
    BY <1>1, <1>2, <2>1, ThreadsAt
  <2>2. ASSUME NEW s \in Slots, Live(s), s # slot
        PROVE  frame'[Base(s)].code = frame[Base(s)].code
    BY <2>2, <1>2, Apart
  <2> QED BY <1>1, <1>2, <1>6, <1>7, <2>1, <2>2, Apart DEF IInv, ThreadInv, Main
<1>9. MainInv' /\ KernelInv'
  BY <1>1, <1>2, <1>3, <1>6, <1>7, Runner, Apart DEF IInv, MainInv, KernelInv, Main, Kernel
<1>10. Shell'.at = "hlt"
  BY <1>2, <1>3, <1>6, <1>7, Apart DEF Shell
<1>11. ShellInv'
  BY <1>10 DEF ShellInv
<1>12. NewStackInv'
  <2>1. \A a \in Bases : a # sp => frame[a].at \notin Fresh3
    BY <1>1, <1>3, ThreadsAt, Apart, Runner DEF IInv, MainInv, KernelInv, Main, Kernel, Fresh3
  <2> QED BY <2>1, <1>2 DEF NewStackInv, Fresh3
<1>13. StackInv'
  <2>1. ASSUME NEW s \in Slots, Live(s)'
        PROVE  Base(s)' \notin freelist' /\ (s >= 2 => tasks'[s].stack_base = Base(s)')
    <3>1. Live(s) /\ s # slot /\ Base(s)' = Base(s) /\ tasks'[s] = tasks[s]
      BY <2>1, <1>6
    <3>2. Shell.at = "unused" /\ Shell.slot = slot
      BY <1>0, <1>1, <1>3
    <3> QED BY <1>1, <3>1, <3>2 DEF IInv, StackInv
  <2> QED BY <2>1 DEF StackInv
<1>14. Accounted'
  <2>1. Base(slot) \in freelist
    BY <1>0, <1>1, <1>3 DEF IInv, ShellInv
  <2> QED BY <1>1, <1>2, <1>6, <2>1 DEF IInv, Accounted, Fresh3
<1>15. NotShared' /\ CurrentRuns'
  BY <1>1, <1>3, <1>6, <1>7, Apart DEF IInv, NotShared, CurrentRuns, Live, Base
<1> QED BY <1>5, <1>8, <1>9, <1>11, <1>12, <1>13, <1>14, <1>15 DEF IInv

-----------------------------------------------------------------------------
(* While the timer handler runs there is a task, and every slot it looks   *)
(* at has been handed out.                                                 *)
LEMMA CandidateRange ==
  ASSUME IInv, mode = "schedule"
  PROVE  /\ Candidate \in Slots /\ Candidate < task_count
         /\ Candidate \in -1 .. MAX_TASKS - 1
         /\ Main.at = "hlt" /\ Live(0)
<1>1. Main.at = "hlt" /\ Live(0)
  BY DEF IInv, MainInv
<1>2. task_count \in Nat /\ task_count > 0 /\ task_count <= MAX_TASKS /\ next + 1 \in Nat
  BY <1>1, Apart, TasksAssumption DEF IInv, TypeOK
<1>3. (next + 1) % task_count \in 0 .. task_count - 1
  BY <1>2
<1> QED BY <1>1, <1>2, <1>3, TasksAssumption DEF Candidate, Slots

(* A step that leaves table, heap and threads alone.                       *)
LEMMA NothingMoves ==
  ASSUME IInv, UNCHANGED <<tasks, current_task, task_count, freelist, frame, sp>>,
         TypeOK', Main.at # "hlt" => mode' = "run" /\ ~IF_'
  PROVE  IInv'
<1>1. ThreadInv' /\ KernelInv' /\ ShellInv'
  BY DEF IInv, ThreadInv, KernelInv, ShellInv, Live, Base, Main, Kernel, Shell
<1>2. MainInv'
  BY DEF IInv, MainInv, Live, Base, Main, Kernel
<1>3. NewStackInv' /\ StackInv' /\ Accounted'
  BY DEF IInv, NewStackInv, StackInv, Accounted, Live, Base, Shell
<1>4. NotShared' /\ CurrentRuns'
  BY DEF IInv, NotShared, CurrentRuns
<1> QED BY <1>1, <1>2, <1>3, <1>4 DEF IInv

(* A tick interrupts the running thread.                                   *)
LEMMA TickStep ==
  ASSUME IInv, Tick
  PROVE  IInv'
<1>1. Main.at = "hlt"
  BY DEF Tick, IInv, MainInv
<1>2. TypeOK'
  BY DEF Tick, IInv, TypeOK
<1> QED BY <1>1, <1>2, NothingMoves DEF Tick

(* The tick returns to the thread it interrupted.                          *)
LEMMA ScheduleStaysStep ==
  ASSUME IInv, ScheduleSkip \/ ScheduleSame
  PROVE  IInv'
<1>1. Main.at = "hlt" /\ Candidate \in -1 .. MAX_TASKS - 1
  BY CandidateRange DEF ScheduleSkip, ScheduleSame
<1>2. TypeOK'
  BY <1>1 DEF ScheduleSkip, ScheduleSame, IInv, TypeOK
<1> QED BY <1>1, <1>2, NothingMoves DEF ScheduleSkip, ScheduleSame

(* The tick resumes another task from its saved frame.                     *)
LEMMA ScheduleSwitchStep ==
  ASSUME IInv, ScheduleSwitch
  PROVE  IInv'
<1> USE TasksAssumption
<1>1. /\ UNCHANGED <<task_count, freelist, frame>>
      /\ mode = "schedule" /\ mode' = "run" /\ IF_' \in BOOLEAN
      /\ current_task' = Candidate /\ next' = Candidate
      /\ Live(Candidate) /\ sp' = Base(Candidate)
      /\ tasks' = SavedTasks
  BY DEF ScheduleSwitch, Live, Base
<1>2. /\ Candidate \in Slots /\ Candidate < task_count
      /\ Candidate \in -1 .. MAX_TASKS - 1
      /\ Main.at = "hlt" /\ Live(0)
  BY <1>1, CandidateRange
<1>3. /\ tasks' \in [Slots -> Task]
      /\ \A s \in Slots : /\ tasks'[s].used = tasks[s].used
                          /\ tasks'[s].stack_base = tasks[s].stack_base
                          /\ tasks'[s].esp.base = tasks[s].esp.base
                          /\ tasks[s].esp.kind # "none" => tasks'[s].esp.kind # "none"
                          /\ ~Live(s) => tasks'[s] = tasks[s]
  <2>1. CASE current_task = -1
    BY <2>1, <1>1 DEF SavedTasks, IInv, TypeOK
  <2>2. CASE current_task # -1
    <3> DEFINE e == [base |-> sp, kind |-> "saved"]
               t == [tasks[current_task] EXCEPT !.esp = e]
    <3>1. /\ current_task \in Slots /\ Live(current_task)
          /\ sp = tasks[current_task].esp.base
          /\ tasks[current_task] \in Task /\ tasks \in [Slots -> Task] /\ sp \in Bases
      BY <2>2, Runner DEF Base, IInv, TypeOK
    <3>2. e \in [base : Bases, kind : Kinds] /\ e.base = sp /\ e.kind = "saved"
      BY <3>1 DEF Kinds
    <3> HIDE DEF e
    <3>3. /\ t \in Task /\ t.esp = e /\ t.used = tasks[current_task].used
          /\ t.stack_base = tasks[current_task].stack_base
      BY <3>1, <3>2 DEF Task
    <3>4. tasks' = [tasks EXCEPT ![current_task] = t]
      BY <1>1, <2>2, <3>1 DEF SavedTasks, e
    <3> HIDE DEF t
    <3> QED BY <3>1, <3>2, <3>3, <3>4 DEF Live
  <2> QED BY <2>1, <2>2
<1>4. TypeOK'
  BY <1>1, <1>2, <1>3 DEF IInv, TypeOK, ThreadInv, Live, Base, Bases
<1>5. \A s \in Slots : Live(s)' = Live(s) /\ Base(s)' = Base(s)
  BY <1>3 DEF Live, Base
<1>6. ThreadInv'
  BY <1>1, <1>3, <1>5, Apart DEF IInv, ThreadInv, Main
<1>7. MainInv' /\ KernelInv' /\ ShellInv'
  <2>1. MainInv'
    BY <1>1, <1>2, <1>5, Apart DEF IInv, MainInv, Main, Slots
  <2>2. KernelInv'
    BY <1>1, <1>5, Apart DEF IInv, KernelInv, Kernel
  <2>3. ShellInv'
    <3>1. Live(1) => Shell' = Shell
      BY <1>1, <1>5, Apart DEF Shell
    <3> QED BY <3>1, <1>1, <1>5, Apart DEF IInv, ShellInv, TypeOK, Slots, Live, Base
  <2> QED BY <2>1, <2>2, <2>3
<1>8. NewStackInv'
  BY <1>1, <1>3, <1>5, SlotInTable DEF IInv, NewStackInv
<1>9. StackInv'
  <2>1. Live(1) => Shell' = Shell
    BY <1>1, <1>5, Apart DEF Shell
  <2>2. \A s \in Slots : Live(s) /\ s >= 2 => Live(1)
    BY DEF IInv, ThreadInv
  <2> QED BY <1>1, <1>3, <1>5, <2>1, <2>2, Apart DEF IInv, StackInv
<1>10. Accounted'
  BY <1>1, <1>5 DEF IInv, Accounted
<1>11. NotShared'
  BY <1>5 DEF IInv, NotShared, Live, Base
<1>12. CurrentRuns'
  BY <1>1, <1>2, <1>3 DEF CurrentRuns, Live, Base, Slots
<1> QED BY <1>4, <1>6, <1>7, <1>8, <1>9, <1>10, <1>11, <1>12 DEF IInv

-----------------------------------------------------------------------------
(* IInv is inductive: every store of kernel_main, of the kernel task and   *)
(* of the shell, every tick and every iteration of schedule preserves it.  *)
LEMMA NextIInv ==
  ASSUME EnoughStacks, IInv, [Next]_vars
  PROVE  IInv'
<1>1. CASE Next
  BY <1>1, CreateRefusedStep, CreateEnterStep, CreateAllocStep, CreateCountStep,
     CreateEspStep, CreateUsedStep, CreateStackBaseStep, KillRefusedStep,
     KillEnterStep, KillFreeStep, KillUnusedStep, StiStep, KernelSettlesStep,
     SpawnStep, KillStep, TickStep, ScheduleStaysStep, ScheduleSwitchStep
     DEF Next, Create, TaskKill, Schedule
<1>2. CASE UNCHANGED vars
  BY <1>2, NothingMoves DEF vars, IInv, TypeOK, MainInv
<1> QED BY <1>1, <1>2

(* IInv holds in every reachable state of a heap with enough stacks.       *)
THEOREM TasksInvariant == ASSUME EnoughStacks PROVE Spec => []IInv
<1>1. Init => IInv
  BY InitIInv
<1>2. IInv /\ [Next]_vars => IInv'
  BY NextIInv
<1> QED BY <1>1, <1>2, PTL DEF Spec

(* The table, the count of slots and every local of task_create_named,     *)
(* task_kill and schedule stay within their bounds.                        *)
THEOREM TypeCorrect == ASSUME EnoughStacks PROVE Spec => []TypeOK
BY TasksInvariant, PTL DEF IInv

(* The CPU is always on the stack of the live task that current_task       *)
(* names: task_kill never takes the running task's stack.                  *)
THEOREM RunningTaskIsCurrent == ASSUME EnoughStacks PROVE Spec => []CurrentRuns
BY TasksInvariant, PTL DEF IInv

(* Wherever a tick interrupts task_create_named or task_kill, every slot   *)
(* that schedule may pick can be switched to.                              *)
THEOREM TasksResumable == ASSUME EnoughStacks PROVE Spec => []Resumable
<1>1. IInv => Resumable
  BY TasksAssumption DEF IInv, ThreadInv, Resumable, Live, Base, CodeOf
<1> QED BY <1>1, TasksInvariant, PTL

(* No two live tasks share a stack, and a live task's stack is on the free *)
(* list only between task_kill's kfree of it and its store to used,        *)
(* whatever ticks come in between.                                         *)
THEOREM StacksNeverShared == ASSUME EnoughStacks PROVE Spec => []StacksDisjoint
<1>1. IInv => StacksDisjoint
  <2> SUFFICES ASSUME IInv, NEW s \in Slots, Live(s), Base(s) \in freelist
               PROVE  \E b \in Bases : frame[b].at = "unused" /\ frame[b].slot = s
    BY DEF IInv, StacksDisjoint, Live, Base
  <2>1. Live(1) /\ Shell.at = "unused" /\ Shell.slot = s
    BY DEF IInv, StackInv
  <2>2. Base(1) \in Bases
    BY <2>1, TasksAssumption DEF IInv, ThreadInv, Slots, Bases
  <2> QED BY <2>1, <2>2 DEF Shell
<1> QED BY <1>1, TasksInvariant, PTL

(* Killing gives every stack back: no block is lost to kmalloc.            *)
THEOREM StacksReclaimed == ASSUME EnoughStacks PROVE Spec => []NoStackLost
<1>1. IInv => NoStackLost
  BY AccountedIsNoStackLost DEF IInv
<1> QED BY <1>1, TasksInvariant, PTL
=============================================================================
