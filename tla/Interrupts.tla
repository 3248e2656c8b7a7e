------------------------------ MODULE Interrupts ------------------------------
(***************************************************************************)
(* Interrupt delivery: the IDT of kernel/idt.c, the PICs as kernel/pic.c   *)
(* sets them up, the stubs of kernel/interrupts.asm and the EOIs of the    *)
(* handlers, from boot with interrupts off to tasks that are switched from *)
(* inside the timer interrupt.                                             *)
(*                                                                         *)
(* Which task schedule picks and what keyboard_handler does with a key are *)
(* in Tasks and Keyboard; here any task may be picked.  The PICs and the   *)
(* devices are external.                                                   *)
(***************************************************************************)
EXTENDS Integers, FiniteSets

CONSTANTS
  Lines,   \* the interrupt lines that devices of this machine raise
  Threads  \* kernel_main ("main") and the tasks

VARIABLES
  gates,   \* the IDT: handler and present bit of each vector
  irr, isr, imr,  \* the PICs: requested, in service and masked lines
  base,    \* the vectors of line 0 and line 8
  intr,    \* the CPU's interrupt flag
  pc,      \* what the CPU executes
  cur,     \* the thread it executes, or interrupted
  ctx      \* how each thread that is not running goes on

vars == <<gates, irr, isr, imr, base, intr, pc, cur, ctx>>
pics == <<irr, isr, imr, base>>

AllLines == 0 .. 15
Vectors  == 0 .. 255

-----------------------------------------------------------------------------
(* Setting up, by kernel_main with interrupts off.                         *)

(* idt_set_gate: flags are (present << 7) | 0x8E, and 0x8E has bit 7 set.  *)
idt_set_gate(handler, present) ==
  [handler |-> handler, present |-> (present * 128 >= 128) \/ (142 >= 128)]

(* Gates 0 to 255 without a handler, then 33 and 32.                       *)
idt_init ==
  /\ pc = "idt_init"
  /\ gates' = [v \in Vectors |-> CASE v = 32 -> idt_set_gate("timer_handler", 1)
                                   [] v = 33 -> idt_set_gate("keyboard_handler", 1)
                                   [] OTHER -> idt_set_gate("none", 0)]
  /\ pc' = "pic_remap"
  /\ UNCHANGED <<irr, isr, imr, base, intr, cur, ctx>>

(* Variant: every line is let through.                                     *)
MASKED_Nothing == {}

(* outb(0x21,0xFC), outb(0xA1,0xFF).                                       *)
MASKED == 2 .. 15

(* ICW1 clears what is pending, ICW2 gives the vectors, then the masks.    *)
pic_remap ==
  /\ pc = "pic_remap"
  /\ irr' = {} /\ isr' = {} /\ base' = <<32, 40>> /\ imr' = MASKED
  /\ pc' = "sti"
  /\ UNCHANGED <<gates, intr, cur, ctx>>

(* The sti of kernel_main, and the one every task starts with: the first   *)
(* run of a task enters by a ret of task_switch, with interrupts off.      *)
Sti ==
  /\ pc = "sti" /\ intr' = TRUE /\ pc' = "run"
  /\ UNCHANGED <<gates, irr, isr, imr, base, cur, ctx>>

-----------------------------------------------------------------------------
(* The PICs (external).                                                    *)

Rank(n) == IF n >= 8 THEN 2 ELSE n   \* the second PIC is on line 2
Masked(n) == n \in imr \/ (n >= 8 /\ 2 \in imr)
Vector(n) == IF n < 8 THEN base[1] + n ELSE base[2] + n - 8

(* A device raises its line.  A handler is over long before the next tick. *)
Raise(n) ==
  /\ n \notin irr
  /\ n = 0 => pc \in {"idt_init", "pic_remap", "sti", "run"}
  /\ irr' = irr \cup {n}
  /\ UNCHANGED <<gates, isr, imr, base, intr, pc, cur, ctx>>

(* The request of highest rank, if nothing of its rank is in service,      *)
(* interrupts a CPU that lets it.  An interrupt gate clears the flag.      *)
Deliver(n) ==
  /\ intr /\ n \in irr /\ ~Masked(n)
  /\ \A m \in irr : ~Masked(m) => Rank(n) <= Rank(m)
  /\ \A m \in isr : Rank(n) < Rank(m)
  /\ irr' = irr \ {n} /\ isr' = isr \cup {n}
  /\ intr' = FALSE /\ pc' = gates[Vector(n)].handler
  /\ UNCHANGED <<gates, imr, base, cur, ctx>>

(* outb(0x20, 0x20): the highest interrupt in service is over.             *)
EOI == isr' = isr \ {n \in isr : \A m \in isr : Rank(n) <= Rank(m)}

-----------------------------------------------------------------------------
(* The handlers.                                                           *)

(* Variant: the EOI is missing on a path out of the handler.               *)
keyboard_handler_NoEoi ==
  /\ pc = "keyboard_handler" /\ pc' = "iretd"
  /\ UNCHANGED <<gates, irr, isr, imr, base, intr, cur, ctx>>

(* Every path out of keyboard_handler ends with EOI.                       *)
keyboard_handler ==
  /\ pc = "keyboard_handler" /\ EOI /\ pc' = "iretd"
  /\ UNCHANGED <<gates, irr, imr, base, intr, cur, ctx>>

(* Variant: the EOI is left for after schedule.                            *)
timer_handler_EoiLast ==
  /\ pc = "timer_handler" /\ pc' = "schedule"
  /\ UNCHANGED <<gates, irr, isr, imr, base, intr, cur, ctx>>

(* EOI, then schedule.                                                     *)
timer_handler ==
  /\ pc = "timer_handler" /\ EOI /\ pc' = "schedule"
  /\ UNCHANGED <<gates, irr, imr, base, intr, cur, ctx>>

(* task_switch to task t, or no switch: one that was switched away from    *)
(* inside its own timer interrupt returns from it; a new one starts.       *)
(* kernel_main is no task: it is left at the first tick, never to return.  *)
schedule(t) ==
  /\ pc = "schedule" /\ t # "main"
  /\ cur' = t
  /\ pc' = IF t # cur /\ ctx[t] = "fresh" THEN "sti" ELSE "iretd"
  /\ ctx' = [ctx EXCEPT ![cur] = "in timer_handler"]
  /\ UNCHANGED <<gates, irr, isr, imr, base, intr>>

(* popa, iretd: the interrupted code goes on with its flags.               *)
Iretd ==
  /\ pc = "iretd" /\ intr' = TRUE /\ pc' = "run"
  /\ UNCHANGED <<gates, irr, isr, imr, base, cur, ctx>>

-----------------------------------------------------------------------------
(* The BIOS leaves line 0 at vector 8 and lines let through; boot.asm has  *)
(* executed cli.                                                           *)
Init ==
  /\ gates = [v \in Vectors |-> [handler |-> "none", present |-> FALSE]]
  /\ irr = {} /\ isr = {} /\ imr = {} /\ base = <<8, 112>>
  /\ intr = FALSE /\ pc = "idt_init"
  /\ cur = "main" /\ ctx = [t \in Threads |-> "fresh"]

Handlers == keyboard_handler \/ timer_handler \/ (\E t \in Threads : schedule(t)) \/ Iretd

Next ==
  \/ idt_init \/ pic_remap \/ Sti \/ Handlers
  \/ \E n \in Lines : Raise(n) \/ Deliver(n)

Spec == Init /\ [][Next]_vars

-----------------------------------------------------------------------------
(* Properties.                                                             *)

(* The CPU is in code that exists; the PICs have the lines they have.      *)
TypeOK ==
  /\ DOMAIN gates = Vectors
  /\ irr \subseteq AllLines /\ isr \subseteq AllLines /\ imr \subseteq AllLines
  /\ pc \in {"idt_init", "pic_remap", "sti", "run", "keyboard_handler", "timer_handler",
             "schedule", "iretd"}
  /\ cur \in Threads /\ ctx \in [Threads -> {"fresh", "in timer_handler"}]

(* No interrupt comes before, or at a vector other than, a handler that    *)
(* idt_init has installed: the CPU never jumps through an empty gate.      *)
OnlyHandledVectors == pc # "none"

(* Tasks never run with an interrupt in service, whether the switch came   *)
(* to a new task, which leaves timer_handler behind for good, or to one    *)
(* that returns from its own interrupt: the EOI comes before schedule.     *)
NothingInService == pc \in {"sti", "run"} => isr = {}
===============================================================================
