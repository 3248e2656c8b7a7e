--------------------------------- MODULE Boot ---------------------------------
(***************************************************************************)
(* From power-on to running tasks: boot/boot.asm detects memory and loads  *)
(* the kernel, kernel_main finds the heap's end in the map, installs the   *)
(* gates, moves the PICs' vectors and lets interrupts in.                  *)
(***************************************************************************)
EXTENDS Integers, Sequences

CONSTANTS
  Counts, SECTOR, CHUNK,                           \* BootLoad
  Maps, CAP, WRAP, HEAP_START, FALLBACK, STACK_TOP, \* MemoryMap
  Lines, Threads                                   \* Interrupts

ASSUME BootAssumption ==
  /\ Counts \subseteq 0 .. 255
  /\ Maps \subseteq Seq([base : Nat, length : Nat, type : Nat, size : Nat])
  /\ {SECTOR, CHUNK, CAP, WRAP, HEAP_START, FALLBACK, STACK_TOP} \subseteq Nat \ {0}
  /\ HEAP_START + FALLBACK <= STACK_TOP /\ STACK_TOP < WRAP
  /\ Lines \subseteq 0 .. 15 /\ {0, 1} \subseteq Lines /\ "main" \in Threads

VARIABLES
  dh, ecx, eax, es, bx, loads, lpc,                  \* BootLoad
  bios, reported, entries, i, best_end, mpc,         \* MemoryMap
  gates, irr, isr, imr, base, intr, ipc, cur, ctx    \* Interrupts

loadVars == <<dh, ecx, eax, es, bx, loads, lpc>>
mapVars  == <<bios, reported, entries, i, best_end, mpc>>
intVars  == <<gates, irr, isr, imr, base, intr, ipc, cur, ctx>>
vars     == <<loadVars, mapVars, intVars>>

L == INSTANCE BootLoad WITH pc <- lpc
M == INSTANCE MemoryMap WITH pc <- mpc
I == INSTANCE Interrupts WITH pc <- ipc

Init == L!Init /\ M!Init /\ I!Init

(* start: call detect_memory, call load_kernel, call switch_to_pm.         *)
detect_memory == (M!E820 \/ M!E820Carry) /\ UNCHANGED <<loadVars, intVars>>

AfterDetect == mpc # "detect_memory" /\ UNCHANGED <<mapVars, intVars>>
load_kernel == AfterDetect /\ (L!ReadChunk \/ L!read_done)
disk_error  == AfterDetect /\ L!disk_error

(* kernel_main: kmalloc_init first, then idt_init, pic_remap and sti.      *)
kmalloc_init == lpc = "done" /\ (M!LookAt \/ M!Found) /\ UNCHANGED <<loadVars, intVars>>

Running == mpc = "kmalloc_init" /\ UNCHANGED <<loadVars, mapVars>>
kernel_main == Running /\ (I!idt_init \/ I!pic_remap \/ I!Sti \/ I!Handlers)
Raise(n)    == Running /\ I!Raise(n)
Deliver(n)  == Running /\ I!Deliver(n)

Next ==
  \/ detect_memory \/ load_kernel \/ disk_error \/ kmalloc_init \/ kernel_main
  \/ \E n \in Lines : Raise(n) \/ Deliver(n)

Spec == Init /\ [][Next]_vars

(* BIOS calls return, the CPU executes and the timer ticks, whatever the   *)
(* CPU does.  A request that is deliverable again and again is delivered:  *)
(* between the end of one handler and the next tick there is time for it.  *)
FairSpec ==
  /\ Spec
  /\ WF_vars(detect_memory) /\ WF_vars(load_kernel) /\ WF_vars(kmalloc_init)
  /\ WF_vars(kernel_main)
  /\ SF_vars(Raise(0)) /\ \A n \in Lines : SF_vars(Deliver(n))

-----------------------------------------------------------------------------
(* Properties.                                                             *)

(* disk_load puts every sector of the kernel where it is linked.           *)
KernelInPlace == L!KernelInPlace

(* The heap that kmalloc_init sets up is usable memory, from whatever map  *)
(* detect_memory was given.                                                *)
HeapIsRam == M!HeapIsRam

(* From the first sti on, no interrupt goes through an empty gate.         *)
OnlyHandledVectors == I!OnlyHandledVectors

(* Tasks never run with an interrupt in service: timer_handler sends its   *)
(* EOI before schedule leaves it.                                          *)
NothingInService == I!NothingInService

(* A key press after pic_remap reaches keyboard_handler, whatever the      *)
(* timer does.                                                             *)
KeysServed ==
  (1 \in irr /\ ipc \notin {"idt_init", "pic_remap"}) ~> ipc = "keyboard_handler"

(* Unless a disk error stops the loader, the machine comes up and the      *)
(* timer interrupt, and with it the scheduler, never stops.                *)
TicksGoOn == <>(lpc = "disk_error") \/ []<>(ipc = "schedule")
=============================================================================
