------------------------------ MODULE MemoryMap ------------------------------
(***************************************************************************)
(* From the BIOS memory map to the end of the heap: detect_memory of       *)
(* boot/boot.asm, one E820 call per step, and find_heap_end of kernel/mm.c *)
(* one entry per step.  Addresses are in a unit the constants choose; a    *)
(* uint32_t wraps at WRAP.                                                 *)
(***************************************************************************)
EXTENDS Integers, Sequences

CONSTANTS
  Maps,        \* the maps a BIOS (external) may report, entry by entry
  CAP,         \* entries the boot loader has room for (64)
  WRAP,        \* 2^32
  HEAP_START,  \* _bss_end
  FALLBACK,    \* 0x10000
  STACK_TOP    \* 0x90000, the boot stack grows down from it

VARIABLES
  bios,      \* what the BIOS has still to report
  reported,  \* the whole map of the BIOS
  entries,   \* the map at MEMORY_MAP_ADDR, and its count
  i,         \* find_heap_end: entries looked at
  best_end,  \* find_heap_end: the end found so far
  pc

vars == <<bios, reported, entries, i, best_end, pc>>

Init ==
  /\ reported \in Maps /\ bios = reported
  /\ entries = <<>> /\ i = 0 /\ best_end = 0
  /\ pc = "detect_memory"

(* The continuation value is 0 after the last entry; a BIOS may also tell  *)
(* the end, or that there is no map, by a carry on the call that follows.  *)
Done == pc' = "find_heap_end" /\ best_end' = HEAP_START + FALLBACK

(* cmp bp, 64; jl .loop.                                                   *)
Room(n) == n < CAP

(* Variant: an empty answer is stored like any other.                      *)
Stored_Empty(e) == Append(entries, e)

(* test ecx, ecx; je .skip.                                                *)
Stored(e) == IF e.size = 0 THEN entries ELSE Append(entries, e)

E820 ==
  /\ pc = "detect_memory" /\ bios # <<>>
  /\ entries' = Stored(Head(bios)) /\ bios' = Tail(bios)
  /\ \/ Room(Len(entries')) /\ UNCHANGED <<pc, best_end>>
     \/ (bios' = <<>> \/ ~Room(Len(entries'))) /\ Done
  /\ UNCHANGED <<reported, i>>

E820Carry ==
  /\ pc = "detect_memory" /\ bios = <<>> /\ Done
  /\ UNCHANGED <<bios, reported, entries, i>>

-----------------------------------------------------------------------------
(* The 32-bit region of an entry.                                          *)
region_start(e) == e.base % WRAP

region_end(e) == (e.base + e.length) % WRAP

Usable(e) == e.type = 1 /\ e.base < WRAP

HoldsHeap(e) == region_start(e) <= HEAP_START /\ region_end(e) > HEAP_START

LookAt ==
  /\ pc = "find_heap_end" /\ i < Len(entries)
  /\ i' = i + 1
  /\ LET e == entries[i + 1]
     IN  best_end' = IF Usable(e) /\ HoldsHeap(e) /\ region_end(e) > best_end
                     THEN region_end(e) ELSE best_end
  /\ UNCHANGED <<bios, reported, entries, pc>>

Clipped(end) == IF end > STACK_TOP THEN STACK_TOP ELSE end

Found ==
  /\ pc = "find_heap_end" /\ i = Len(entries)
  /\ best_end' = Clipped(best_end) /\ pc' = "kmalloc_init"
  /\ UNCHANGED <<bios, reported, entries, i>>

Next == E820 \/ E820Carry \/ LookAt \/ Found

Spec == Init /\ [][Next]_vars

-----------------------------------------------------------------------------
(* Properties.                                                             *)

(* An entry of the BIOS's map, not an empty one, says that there is usable *)
(* memory from the heap's start or below it up to end.                     *)
Reaches(end) ==
  \E j \in 1 .. Len(reported) :
    /\ reported[j].size # 0
    /\ reported[j].type = 1 /\ reported[j].base <= HEAP_START
    /\ reported[j].base + reported[j].length >= end

(* The heap is not empty, is clipped at 0x90000 and, on a machine with     *)
(* memory for the fallback, is usable memory throughout, however many      *)
(* entries the BIOS reports, empty ones and regions that end at or cross   *)
(* the 32-bit limit or lie above it included (detect_memory,               *)
(* find_heap_end).  It is not clear of the boot stack: 0x90000 is that     *)
(* stack's top, and a heap clipped there contains the stack, contrary to   *)
(* the comments at HEAP_END and in find_heap_end.                          *)
HeapIsRam ==
  pc = "kmalloc_init" =>
    /\ best_end \in HEAP_START + 1 .. STACK_TOP
    /\ Reaches(HEAP_START + FALLBACK) => Reaches(best_end)
=============================================================================
