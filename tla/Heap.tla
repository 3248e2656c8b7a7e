-------------------------------- MODULE Heap --------------------------------
(***************************************************************************)
(* The kernel heap of kernel/mm.c: a singly linked list of block headers   *)
(* that tiles the memory between HEAP_START and the end that               *)
(* find_heap_end returns.  kmalloc is first fit with splitting, kfree      *)
(* marks a block free and runs coalesce over the whole list.               *)
(*                                                                         *)
(* The loops of kmalloc and coalesce are modelled one iteration per step,  *)
(* with the C variable curr as a variable of the model.  Every caller runs *)
(* in one task at a time (kernel_main, then the kernel task before the     *)
(* shell exists, then the shell), so one call is in progress at a time.    *)
(***************************************************************************)
EXTENDS Integers

CONSTANTS
  HEAP_START,  \* address of the linker symbol _bss_end
  HEAP_END,    \* what find_heap_end(HEAP_START) returned
  HDR,         \* sizeof(block_header_t), 12 with -m32
  Requests     \* sizes the callers of kmalloc ask for

NULL == 0

(* The heap holds at least one header and no address in it is NULL.  A      *)
(* request is positive; kmalloc(0) returns NULL at once and changes        *)
(* nothing.                                                                *)
ASSUME HeapAssumption ==
  /\ HEAP_START \in Nat \ {0}
  /\ HDR \in Nat \ {0}
  /\ HEAP_END \in Nat
  /\ HEAP_START + HDR <= HEAP_END
  /\ Requests \subseteq Nat \ {0}

VARIABLES
  hdr,    \* the headers linked from heap_start: address -> header
  pc,     \* "idle", "search" (kmalloc's loop) or "coalesce" (kfree's loop)
  curr,   \* the loops' cursor
  asked,  \* the argument of the kmalloc in progress
  live    \* history: pointers the callers hold -> bytes they asked for

vars == <<hdr, pc, curr, asked, live>>

Header == [size : Nat, free : BOOLEAN, next : Nat]

(* size = (size + 3) & ~3: rounded up to a multiple of 4.                  *)
Align(n) == n + 3 - ((n + 3) % 4)

(* The address just behind block a of the header map h.                    *)
EndOf(h, a) == a + HDR + h[a].size

(* f without the keys in S, and f with key k set to v.                     *)
Without(f, S) == [x \in DOMAIN f \ S |-> f[x]]
With(f, k, v) == [x \in DOMAIN f \cup {k} |-> IF x = k THEN v ELSE f[x]]

-----------------------------------------------------------------------------
(* kmalloc_init: one free block spans the heap.                            *)
Init ==
  /\ hdr = [a \in {HEAP_START} |->
              [size |-> HEAP_END - HEAP_START - HDR, free |-> TRUE, next |-> NULL]]
  /\ pc = "idle"
  /\ curr = NULL
  /\ asked = 0
  /\ live = [p \in {} |-> 0]

(* A call of kmalloc up to its loop.                                       *)
kmalloc(n) ==
  /\ pc = "idle"
  /\ pc' = "search"
  /\ curr' = HEAP_START
  /\ asked' = n
  /\ UNCHANGED <<hdr, live>>

Fits(a) == hdr[a].free /\ hdr[a].size >= Align(asked)

(* kmalloc's loop: this block does not fit.                                *)
SearchNext ==
  /\ pc = "search" /\ curr # NULL
  /\ ~Fits(curr)
  /\ curr' = hdr[curr].next
  /\ UNCHANGED <<hdr, pc, asked, live>>

(* Variant: the remainder keeps the bytes its own header occupies.         *)
split_block_HeaderNotCounted(a, size) ==
  LET new == a + HDR + size
      old == hdr[a]
  IN  IF old.size >= size + HDR + 4
      THEN With(With(hdr, new, [size |-> old.size - size,
                                free |-> TRUE, next |-> old.next]),
                a, [size |-> size, free |-> FALSE, next |-> new])
      ELSE With(hdr, a, [size |-> old.size, free |-> FALSE, next |-> old.next])

(* Variant: the remainder is linked to nothing, as if next were not copied. *)
split_block_TailLost(a, size) ==
  LET new == a + HDR + size
      old == hdr[a]
  IN  IF old.size >= size + HDR + 4
      THEN With(With(hdr, new, [size |-> old.size - size - HDR,
                                free |-> TRUE, next |-> NULL]),
                a, [size |-> size, free |-> FALSE, next |-> new])
      ELSE With(hdr, a, [size |-> old.size, free |-> FALSE, next |-> old.next])

(* split_block(block, size): cut off the remainder when it can hold a      *)
(* header and four bytes; the block itself is then marked used.            *)
split_block(a, size) ==
  LET new == a + HDR + size
      old == hdr[a]
  IN  IF old.size >= size + HDR + 4
      THEN With(With(hdr, new, [size |-> old.size - size - HDR,
                                free |-> TRUE, next |-> old.next]),
                a, [size |-> size, free |-> FALSE, next |-> new])
      ELSE With(hdr, a, [size |-> old.size, free |-> FALSE, next |-> old.next])

(* kmalloc's loop: take this block and return the address after its header. *)
SearchFit ==
  /\ pc = "search" /\ curr # NULL
  /\ Fits(curr)
  /\ hdr' = split_block(curr, Align(asked))
  /\ live' = With(live, curr + HDR, asked)
  /\ pc' = "idle" /\ curr' = NULL /\ asked' = 0

(* The list is exhausted: kmalloc returns NULL.                            *)
SearchFail ==
  /\ pc = "search" /\ curr = NULL
  /\ pc' = "idle" /\ asked' = 0
  /\ UNCHANGED <<hdr, curr, live>>

(* kfree(ptr) for a pointer the caller holds (task_kill passes the         *)
(* stack_base of a live task, once).  kfree(NULL) changes nothing.         *)
kfree(p) ==
  /\ pc = "idle"
  /\ hdr' = [hdr EXCEPT ![p - HDR].free = TRUE]
  /\ live' = Without(live, {p})
  /\ pc' = "coalesce" /\ curr' = HEAP_START
  /\ UNCHANGED asked

(* Variant: the cursor moves on after a merge, as in a for loop.           *)
CoalesceMerge_Advance ==
  /\ pc = "coalesce" /\ curr # NULL /\ hdr[curr].next # NULL
  /\ LET n == hdr[curr].next IN
       /\ hdr[curr].free /\ hdr[n].free
       /\ hdr' = With(Without(hdr, {n}), curr,
                       [size |-> hdr[curr].size + HDR + hdr[n].size,
                        free |-> hdr[curr].free, next |-> hdr[n].next])
       /\ curr' = hdr[n].next
  /\ UNCHANGED <<pc, asked, live>>

(* coalesce's loop: curr and its successor are free, absorb the successor; *)
(* curr stays, so a run of free blocks collapses into one.                 *)
CoalesceMerge ==
  /\ pc = "coalesce" /\ curr # NULL /\ hdr[curr].next # NULL
  /\ LET n == hdr[curr].next IN
       /\ hdr[curr].free /\ hdr[n].free
       /\ hdr' = With(Without(hdr, {n}), curr,
                       [size |-> hdr[curr].size + HDR + hdr[n].size,
                        free |-> hdr[curr].free, next |-> hdr[n].next])
  /\ UNCHANGED <<pc, curr, asked, live>>

(* Variant: the cursor does not move past a used block.                    *)
CoalesceNext_Stuck ==
  /\ pc = "coalesce" /\ curr # NULL /\ hdr[curr].next # NULL
  /\ ~(hdr[curr].free /\ hdr[hdr[curr].next].free)
  /\ UNCHANGED vars

CoalesceNext ==
  /\ pc = "coalesce" /\ curr # NULL /\ hdr[curr].next # NULL
  /\ ~(hdr[curr].free /\ hdr[hdr[curr].next].free)
  /\ curr' = hdr[curr].next
  /\ UNCHANGED <<hdr, pc, asked, live>>

CoalesceDone ==
  /\ pc = "coalesce"
  /\ curr # NULL => hdr[curr].next = NULL
  /\ pc' = "idle" /\ curr' = NULL
  /\ UNCHANGED <<hdr, asked, live>>

(* One iteration of the loop in progress.                                  *)
Loop == \/ SearchNext \/ SearchFit \/ SearchFail
        \/ CoalesceMerge \/ CoalesceNext \/ CoalesceDone

Next == \/ \E n \in Requests : kmalloc(n)
        \/ \E p \in DOMAIN live : kfree(p)
        \/ Loop

Spec == Init /\ [][Next]_vars

(* A call that has started is executed to its end.                         *)
FairSpec == Spec /\ WF_vars(Loop)

-----------------------------------------------------------------------------
(* Types.  A pointer is the address just after a header.                   *)
TypeOK ==
  /\ DOMAIN hdr \subseteq HEAP_START .. (HEAP_END - HDR)
  /\ hdr \in [DOMAIN hdr -> Header]
  /\ pc \in {"idle", "search", "coalesce"}
  /\ curr \in DOMAIN hdr \cup {NULL}
  /\ asked \in Nat
  /\ DOMAIN live \subseteq Nat
  /\ live \in [DOMAIN live -> Nat \ {0}]

(* The headers tile the heap: each block ends where its successor's header *)
(* starts, the last one at HEAP_END, and no header lies inside a block, so *)
(* following next visits every byte of the heap once (split_block and      *)
(* coalesce keep the arithmetic of sizes and next pointers in step).       *)
Tiling ==
  /\ HEAP_START \in DOMAIN hdr
  /\ \A a \in DOMAIN hdr :
       \/ hdr[a].next \in DOMAIN hdr /\ hdr[a].next = EndOf(hdr, a)
       \/ hdr[a].next = NULL /\ EndOf(hdr, a) = HEAP_END
  /\ \A a, b \in DOMAIN hdr : a < b => EndOf(hdr, a) <= b

(* What the callers of kmalloc rely on: every pointer they hold is the     *)
(* start of a used block that is as long as they asked for.                *)
LiveBlocksHeld ==
  \A p \in DOMAIN live :
    /\ p - HDR \in DOMAIN hdr
    /\ ~hdr[p - HDR].free
    /\ hdr[p - HDR].size >= live[p]

(* No used block is without an owner: what kfree is given is what kmalloc  *)
(* handed out, so memory cannot be lost to both sides.                     *)
UsedBlocksOwned ==
  \A a \in DOMAIN hdr : ~hdr[a].free => a + HDR \in DOMAIN live

(* The memory of two callers is disjoint, inside the heap, and clear of    *)
(* every header: writing a whole task stack damages no other stack and no  *)
(* block header.                                                           *)
MemorySafe ==
  \A p \in DOMAIN live :
    /\ HEAP_START + HDR <= p /\ p + live[p] <= HEAP_END
    /\ \A a \in DOMAIN hdr : a + HDR <= p \/ p + live[p] <= a
    /\ \A q \in DOMAIN live : q = p \/ q + live[q] <= p \/ p + live[p] <= q

(* When no call is in progress, no two neighbours are free: one pass of    *)
(* coalesce after each kfree is enough.                                    *)
FullyCoalesced ==
  pc # "coalesce" =>
    \A a \in DOMAIN hdr :
      hdr[a].free /\ hdr[a].next # NULL => ~hdr[hdr[a].next].free

(* Once everything has been freed the heap is one block again, so killing  *)
(* tasks cannot fragment it for good.                                      *)
NoFragmentationLeft ==
  pc = "idle" /\ DOMAIN live = {} => DOMAIN hdr = {HEAP_START}

(* Every kmalloc and kfree returns: their loops run along an acyclic list. *)
CallsReturn == pc # "idle" ~> pc = "idle"
=============================================================================
