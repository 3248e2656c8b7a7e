----------------------------- MODULE BootProofs -----------------------------
(***************************************************************************)
(* Proofs about Boot: for every number of sectors, every memory map, every *)
(* set of devices and every set of threads.  Each of the three parts has   *)
(* its own inductive invariant; a step of Boot is a step of one part and   *)
(* leaves the other two alone.                                             *)
(***************************************************************************)
EXTENDS Boot, FiniteSetTheorems, TLAPS

(* The instance's Cardinality is Cardinality.                              *)
LEMMA SameCardinality ==
  ASSUME NEW S
  PROVE  L!Cardinality(S) = Cardinality(S)
BY DEF L!Cardinality, Cardinality

-----------------------------------------------------------------------------
(* Interrupts.                                                             *)

(* The gates of the two handlers are installed.                            *)
GatesSet ==
  /\ DOMAIN gates = 0 .. 255
  /\ gates[32].handler = "timer_handler"
  /\ gates[33].handler = "keyboard_handler"

(* Before the first sti nothing is in service; from then on the PICs are   *)
(* set up, interrupts are on only in a task, and what is in service is the *)
(* line whose handler has not sent its EOI.                                *)
IntInv ==
  /\ ipc \in {"idt_init", "pic_remap", "sti", "run", "keyboard_handler",
              "timer_handler", "schedule", "iretd"}
  /\ ipc # "idt_init" => GatesSet
  /\ ipc \notin {"idt_init", "pic_remap"} => imr = 2 .. 15 /\ base = <<32, 40>>
  /\ intr \in BOOLEAN /\ (intr => ipc = "run")
  /\ isr = CASE ipc = "timer_handler" -> {0}
             [] ipc = "keyboard_handler" -> {1}
             [] OTHER -> {}

(* No gate is set and no interrupt is in service when idt_init starts.     *)
LEMMA IntInit == I!Init => IntInv
BY DEF I!Init, IntInv

(* Every step of the set-up and of the interrupts keeps the invariant.     *)
LEMMA IntStep ==
  ASSUME IntInv, [I!Next]_intVars
  PROVE  IntInv'
<1>1. CASE I!idt_init
  BY <1>1 DEF I!idt_init, I!idt_set_gate, I!Vectors, IntInv, GatesSet
<1>2. CASE I!pic_remap
  BY <1>2 DEF I!pic_remap, I!MASKED, IntInv, GatesSet
<1>3. CASE I!Sti
  BY <1>3 DEF I!Sti, IntInv, GatesSet
<1>4. ASSUME NEW n \in Lines, I!Raise(n) PROVE IntInv'
  BY <1>4 DEF I!Raise, IntInv, GatesSet
<1>5. ASSUME NEW n \in Lines, I!Deliver(n) PROVE IntInv'
  <2>1. ipc = "run" /\ isr = {} /\ imr = 2 .. 15 /\ base = <<32, 40>> /\ GatesSet
    BY <1>5 DEF I!Deliver, IntInv
  <2>2. n \in {0, 1}
    BY <1>5, <2>1, BootAssumption DEF I!Deliver, I!Masked
  <2>3. I!Vector(n) = 32 + n
    BY <2>1, <2>2 DEF I!Vector
  <2>4. /\ isr' = {n} /\ intr' = FALSE /\ UNCHANGED <<gates, imr, base>>
        /\ ipc' = gates[32 + n].handler
    BY <1>5, <2>1, <2>3 DEF I!Deliver
  <2>5. ipc' = IF n = 0 THEN "timer_handler" ELSE "keyboard_handler"
    BY <2>1, <2>2, <2>4 DEF GatesSet
  <2> QED BY <2>1, <2>2, <2>4, <2>5 DEF IntInv, GatesSet
<1>6. CASE I!Handlers
  <2>1. ASSUME NEW n \in {0, 1}, isr = {n}, I!EOI PROVE isr' = {}
    BY <2>1 DEF I!EOI, I!Rank
  <2>2. CASE I!keyboard_handler
    BY <2>1, <2>2 DEF I!keyboard_handler, IntInv, GatesSet
  <2>3. CASE I!timer_handler
    BY <2>1, <2>3 DEF I!timer_handler, IntInv, GatesSet
  <2>4. ASSUME NEW t \in Threads, I!schedule(t) PROVE IntInv'
    BY <2>4 DEF I!schedule, IntInv, GatesSet
  <2>5. CASE I!Iretd
    BY <2>5 DEF I!Iretd, IntInv, GatesSet
  <2> QED BY <1>6, <2>2, <2>3, <2>4, <2>5 DEF I!Handlers
<1>7. CASE UNCHANGED intVars
  BY <1>7 DEF intVars, IntInv, GatesSet
<1> QED BY <1>1, <1>2, <1>3, <1>4, <1>5, <1>6, <1>7 DEF I!Next

(* A step of Boot is a step of the interrupt system, or does not touch it. *)
LEMMA BootIntStep == [Next]_vars => [I!Next]_intVars
BY DEF Next, vars, detect_memory, load_kernel, disk_error, kmalloc_init, kernel_main,
   Raise, Deliver, Running, AfterDetect, I!Next

(* IntInv holds in every reachable state.                                  *)
THEOREM InterruptInvariant == Spec => []IntInv
<1>1. Init => IntInv
  BY IntInit DEF Init
<1>2. IntInv /\ [Next]_vars => IntInv'
  BY IntStep, BootIntStep
<1> QED BY <1>1, <1>2, PTL DEF Spec

(* From the first sti on the CPU never jumps through an empty gate,        *)
(* whatever lines the devices raise and when.                              *)
THEOREM GatesAreHandled == Spec => []OnlyHandledVectors
<1>1. IntInv => OnlyHandledVectors
  BY DEF IntInv, OnlyHandledVectors, I!OnlyHandledVectors
<1> QED BY <1>1, InterruptInvariant, PTL

(* No task runs with an interrupt in service.                              *)
THEOREM EoiBeforeTasks == Spec => []NothingInService
<1>1. IntInv => NothingInService
  BY DEF IntInv, NothingInService, I!NothingInService
<1> QED BY <1>1, InterruptInvariant, PTL

-----------------------------------------------------------------------------
(* MemoryMap.                                                              *)

Entry == [base : Nat, length : Nat, type : Nat, size : Nat]

(* detect_memory has still to see the last part of the map, and counts     *)
(* what it has stored.                                                     *)
MapProgress ==
  /\ mpc \in {"detect_memory", "find_heap_end", "kmalloc_init"}
  /\ reported \in Seq(Entry) /\ bios \in Seq(Entry) /\ entries \in Seq(Entry)
  /\ Len(bios) <= Len(reported)
  /\ \A k \in 1 .. Len(bios) : bios[k] = reported[Len(reported) - Len(bios) + k]
  /\ i \in 0 .. Len(entries)

(* Every entry it has stored is one of the BIOS's map, and not empty.      *)
MapStored ==
  \A k \in 1 .. Len(entries) :
    \E j \in 1 .. Len(reported) : reported[j].size # 0 /\ entries[k] = reported[j]

(* The end found so far is the fallback or that of one of those entries.   *)
MapEnd ==
  mpc # "detect_memory" =>
    /\ best_end \in Nat /\ best_end >= HEAP_START + FALLBACK
    /\ best_end = HEAP_START + FALLBACK \/ M!Reaches(best_end)
    /\ mpc = "kmalloc_init" => best_end <= STACK_TOP

MapInv == MapProgress /\ MapStored /\ MapEnd

(* detect_memory starts with an empty list.                                *)
LEMMA MapInit == M!Init => MapInv
<1> SUFFICES ASSUME M!Init PROVE MapInv
  OBVIOUS
<1>1. reported \in Seq(Entry) /\ bios = reported /\ Len(reported) \in Nat /\ entries = <<>>
  BY BootAssumption DEF M!Init, Entry
<1>2. Len(entries) = 0 /\ entries \in Seq(Entry)
  BY <1>1
<1>3. \A k \in 1 .. Len(bios) : bios[k] = reported[Len(reported) - Len(bios) + k]
  BY <1>1
<1>4. mpc = "detect_memory" /\ i = 0
  BY DEF M!Init
<1>5. Len(bios) <= Len(reported) /\ i \in 0 .. Len(entries)
  BY <1>1, <1>2, <1>4
<1>6. MapProgress
  BY <1>1, <1>2, <1>3, <1>4, <1>5 DEF MapProgress
<1>7. MapStored /\ MapEnd
  BY <1>2, <1>4 DEF MapStored, MapEnd
<1> QED BY <1>6, <1>7 DEF MapInv

(* detect_memory stores the next entry of the map.                         *)
LEMMA StoredLemma ==
  ASSUME MapInv, M!E820
  PROVE  /\ reported' = reported /\ i' = i /\ bios' \in Seq(Entry) /\ entries' \in Seq(Entry)
         /\ Len(bios') = Len(bios) - 1 /\ Len(bios) > 0
         /\ \A k \in 1 .. Len(bios') : bios'[k] = reported[Len(reported) - Len(bios') + k]
         /\ \A k \in 1 .. Len(entries') : \E j \in 1 .. Len(reported) :
              reported[j].size # 0 /\ entries'[k] = reported[j]
         /\ Len(entries') \in Nat /\ Len(entries) <= Len(entries')
         /\ Len(entries) \in Nat
<1> DEFINE n == Len(reported) - Len(bios)
           e == Head(bios)
<1>1. /\ mpc = "detect_memory" /\ bios # <<>> /\ entries' = M!Stored(e) /\ bios' = Tail(bios)
      /\ UNCHANGED <<reported, i>>
  BY DEF M!E820
<1>2. /\ bios \in Seq(Entry) /\ reported \in Seq(Entry) /\ entries \in Seq(Entry)
      /\ Len(bios) <= Len(reported)
  BY DEF MapInv, MapProgress
<1>3. /\ Len(bios) \in Nat /\ Len(bios) > 0 /\ Len(bios') = Len(bios) - 1
      /\ bios' \in Seq(Entry) /\ e \in Entry /\ e = bios[1] /\ Len(reported) \in Nat
      /\ \A k \in 1 .. Len(bios') : bios'[k] = bios[k + 1]
  BY <1>1, <1>2
<1>4. n + 1 \in 1 .. Len(reported)
  BY <1>2, <1>3
<1>5. e = reported[n + 1]
  BY <1>3 DEF MapInv, MapProgress
<1>6. \A k \in 1 .. Len(bios') : bios'[k] = reported[Len(reported) - Len(bios') + k]
  <2> SUFFICES ASSUME NEW k \in 1 .. Len(bios')
               PROVE  bios'[k] = reported[Len(reported) - Len(bios') + k]
    OBVIOUS
  <2>1. k + 1 \in 1 .. Len(bios) /\ n + (k + 1) = Len(reported) - Len(bios') + k
    BY <1>3
  <2> QED BY <2>1, <1>3 DEF MapInv, MapProgress
<1>7. CASE e.size = 0
  <2>1. entries' = entries
    BY <1>1, <1>7 DEF M!Stored
  <2> QED BY <1>1, <1>2, <1>3, <1>6, <2>1 DEF MapInv, MapStored
<1>8. CASE e.size # 0
  <2>1. entries' = Append(entries, e)
    BY <1>1, <1>8 DEF M!Stored
  <2>2. /\ entries' \in Seq(Entry) /\ Len(entries') = Len(entries) + 1 /\ Len(entries) \in Nat
        /\ entries'[Len(entries) + 1] = e
        /\ \A k \in 1 .. Len(entries) : entries'[k] = entries[k]
    BY <1>2, <1>3, <2>1
  <2>3. \A k \in 1 .. Len(entries') : \E j \in 1 .. Len(reported) :
          reported[j].size # 0 /\ entries'[k] = reported[j]
    <3> SUFFICES ASSUME NEW k \in 1 .. Len(entries')
                 PROVE  \E j \in 1 .. Len(reported) :
                          reported[j].size # 0 /\ entries'[k] = reported[j]
      OBVIOUS
    <3>1. CASE k = Len(entries) + 1
      BY <3>1, <2>2, <1>4, <1>5, <1>8
    <3>2. CASE k # Len(entries) + 1
      <4>1. k \in 1 .. Len(entries)
        BY <3>2, <2>2
      <4> QED BY <4>1, <2>2 DEF MapInv, MapStored
    <3> QED BY <3>1, <3>2
  <2>4. Len(entries') \in Nat /\ Len(entries) <= Len(entries')
    BY <2>2
  <2> QED BY <1>1, <1>3, <1>6, <2>2, <2>3, <2>4
<1> QED BY <1>7, <1>8

(* Reducing to 32 bits never enlarges, and keeps what is below the limit.  *)
LEMMA WrapLemma ==
  ASSUME NEW a \in Nat
  PROVE  a % WRAP \in Nat /\ a % WRAP <= a /\ (a < WRAP => a % WRAP = a)
<1>1. WRAP \in Nat /\ WRAP > 0
  BY BootAssumption
<1> QED BY <1>1

(* How far an entry reaches depends on the map alone, which never changes. *)
LEMMA MapFixed ==
  ASSUME UNCHANGED reported
  PROVE  M!Reaches(best_end)' = M!Reaches(best_end')
BY DEF M!Reaches

(* The types of one entry of a map.                                        *)
LEMMA EntryLemma ==
  ASSUME NEW e \in Entry
  PROVE  e.base \in Nat /\ e.length \in Nat /\ e.base + e.length \in Nat
BY DEF Entry

(* A region that reaches a also reaches anything below.                    *)
LEMMA ReachesLess ==
  ASSUME MapInv, NEW a \in Nat, NEW b \in Nat, b <= a, M!Reaches(a)
  PROVE  M!Reaches(b)
<1>1. PICK j \in 1 .. Len(reported) :
        /\ reported[j].size # 0
        /\ reported[j].type = 1 /\ reported[j].base <= HEAP_START
        /\ reported[j].base + reported[j].length >= a
  BY DEF M!Reaches
<1>2. reported[j] \in Entry
  BY DEF MapInv, MapProgress
<1>3. reported[j].base + reported[j].length >= b
  BY <1>1, <1>2, EntryLemma
<1> QED BY <1>1, <1>3 DEF M!Reaches

(* Every step of detect_memory and of find_heap_end keeps the invariant.   *)
LEMMA MapStep ==
  ASSUME MapInv, [M!Next]_mapVars
  PROVE  MapInv'
<1>0. HEAP_START \in Nat /\ FALLBACK \in Nat /\ STACK_TOP \in Nat
  BY BootAssumption
<1>1. CASE M!E820
  <2>1. \/ mpc' = "detect_memory"
        \/ mpc' = "find_heap_end" /\ best_end' = HEAP_START + FALLBACK
    BY <1>1 DEF M!E820, M!Done
  <2>2. MapProgress'
    <3>1. i' \in 0 .. Len(entries') /\ Len(bios') <= Len(reported')
      BY <1>1, StoredLemma DEF MapInv, MapProgress
    <3> QED BY <1>1, <2>1, <3>1, StoredLemma DEF MapInv, MapProgress
  <2>3. MapStored'
    BY <1>1, StoredLemma DEF MapStored
  <2>4. MapEnd'
    BY <1>0, <2>1 DEF MapEnd
  <2> QED BY <2>2, <2>3, <2>4 DEF MapInv
<1>2. CASE M!E820Carry
  <2>1. MapProgress' /\ MapStored'
    BY <1>2 DEF M!E820Carry, M!Done, MapInv, MapProgress, MapStored
  <2>2. MapEnd'
    BY <1>0, <1>2 DEF M!E820Carry, M!Done, MapEnd
  <2> QED BY <2>1, <2>2 DEF MapInv
<1>3. CASE M!LookAt
  <2>1. /\ mpc = "find_heap_end" /\ i < Len(entries) /\ i' = i + 1
        /\ UNCHANGED <<bios, reported, entries, mpc>>
    BY <1>3 DEF M!LookAt
  <2>2. Len(entries) \in Nat /\ i + 1 \in 1 .. Len(entries)
    BY <2>1 DEF MapInv, MapProgress
  <2>3. MapProgress' /\ MapStored'
    BY <2>1, <2>2 DEF MapInv, MapProgress, MapStored
  <2>4. PICK e : e = entries[i + 1]
    OBVIOUS
  <2>5. e \in Entry
    BY <2>2, <2>4 DEF MapInv, MapProgress
  <2>6. PICK j \in 1 .. Len(reported) : reported[j].size # 0 /\ e = reported[j]
    BY <2>2, <2>4 DEF MapInv, MapStored
  <2>7. CASE best_end' = best_end
    <3>1. MapEnd'
      BY <2>1, <2>7, MapFixed DEF MapInv, MapEnd
    <3> QED BY <2>3, <3>1 DEF MapInv
  <2>8. CASE best_end' # best_end
    <3>1. /\ M!Usable(e) /\ M!HoldsHeap(e) /\ M!region_end(e) > best_end
          /\ best_end' = M!region_end(e)
      BY <1>3, <2>4, <2>8 DEF M!LookAt
    <3>2. e.type = 1 /\ e.base <= HEAP_START /\ best_end' <= e.base + e.length /\ best_end' \in Nat
      BY <2>5, <3>1, WrapLemma, EntryLemma DEF M!Usable, M!HoldsHeap, M!region_start, M!region_end
    <3>3. M!Reaches(best_end')
      BY <2>5, <2>6, <3>2, EntryLemma DEF M!Reaches
    <3>4. best_end \in Nat /\ best_end >= HEAP_START + FALLBACK
      BY <2>1 DEF MapInv, MapEnd
    <3>5. best_end' >= HEAP_START + FALLBACK
      BY <1>0, <3>1, <3>2, <3>4
    <3>6. MapEnd'
      BY <2>1, <3>2, <3>3, <3>5, MapFixed DEF MapEnd
    <3> QED BY <2>3, <3>6 DEF MapInv
  <2> QED BY <2>7, <2>8
<1>4. CASE M!Found
  <2>1. /\ mpc = "find_heap_end" /\ mpc' = "kmalloc_init" /\ best_end' = M!Clipped(best_end)
        /\ UNCHANGED <<bios, reported, entries, i>>
    BY <1>4 DEF M!Found
  <2>2. MapProgress' /\ MapStored'
    BY <2>1 DEF MapInv, MapProgress, MapStored
  <2>3. /\ best_end \in Nat /\ best_end >= HEAP_START + FALLBACK
        /\ best_end = HEAP_START + FALLBACK \/ M!Reaches(best_end)
    BY <2>1 DEF MapInv, MapEnd
  <2>4. /\ best_end' \in Nat /\ best_end' >= HEAP_START + FALLBACK
        /\ best_end' <= STACK_TOP /\ best_end' <= best_end
        /\ best_end = HEAP_START + FALLBACK => best_end' = best_end
    BY <1>0, <2>1, <2>3, BootAssumption DEF M!Clipped
  <2>5. M!Reaches(best_end) => M!Reaches(best_end')
    BY <2>3, <2>4, ReachesLess
  <2>6. MapEnd'
    BY <2>1, <2>3, <2>4, <2>5, MapFixed DEF MapEnd
  <2> QED BY <2>2, <2>6 DEF MapInv
<1>5. CASE UNCHANGED mapVars
  BY <1>5, MapFixed DEF mapVars, MapInv, MapProgress, MapStored, MapEnd
<1> QED BY <1>1, <1>2, <1>3, <1>4, <1>5 DEF M!Next

(* A step of Boot is a step of memory detection, or does not touch it.     *)
LEMMA BootMapStep == [Next]_vars => [M!Next]_mapVars
BY DEF Next, vars, detect_memory, load_kernel, disk_error, kmalloc_init, kernel_main,
   Raise, Deliver, Running, AfterDetect, M!Next

(* MapInv holds in every reachable state.                                  *)
THEOREM MemoryMapInvariant == Spec => []MapInv
<1>1. Init => MapInv
  BY MapInit DEF Init
<1>2. MapInv /\ [Next]_vars => MapInv'
  BY MapStep, BootMapStep
<1> QED BY <1>1, <1>2, PTL DEF Spec

(* Whatever map the BIOS reports, the heap that kmalloc_init sets up is    *)
(* not empty, ends at 0x90000 at the latest and is usable memory wherever  *)
(* the fallback is.  0x90000 is the top of the boot stack, so the heap may *)
(* contain that stack.                                                     *)
THEOREM HeapIsUsable == Spec => []HeapIsRam
<1>1. MapInv => HeapIsRam
  <2> SUFFICES ASSUME MapInv, mpc = "kmalloc_init"
               PROVE  /\ best_end \in HEAP_START + 1 .. STACK_TOP
                      /\ M!Reaches(HEAP_START + FALLBACK) => M!Reaches(best_end)
    BY DEF HeapIsRam, M!HeapIsRam
  <2> QED BY BootAssumption DEF MapInv, MapEnd
<1> QED BY <1>1, MemoryMapInvariant, PTL

-----------------------------------------------------------------------------
(* BootLoad, with the sizes of boot.asm.                                   *)
RealSizes == SECTOR = 512 /\ CHUNK = 32

(* Where the chunk that starts behind 128 * q + 32 * r sectors goes: into  *)
(* the r-th quarter of the q-th 64 KB segment.                             *)
ChunkAt(q, r, lba, seg, off) ==
  /\ lba = 128 * q + 32 * r + 1
  /\ seg = 8192 + 4096 * q
  /\ off = 16384 * r

(* Sectors read so far.                                                    *)
Read == dh - ecx

(* Sector s was read by l.                                                 *)
Covers(l, s) == l.lba <= s /\ s <= l.lba + l.count - 1

(* While sectors are left, the registers stand at a chunk boundary.        *)
LoadRegs ==
  /\ dh \in 0 .. 255 /\ ecx \in 0 .. dh
  /\ lpc \in {"read_loop", "disk_error", "done"}
  /\ lpc = "done" => ecx = 0
  /\ ecx # 0 => /\ eax = Read + 1
                /\ \E q \in 0 .. 1, r \in 0 .. 3 : ChunkAt(q, r, eax, es, bx)

(* Each chunk read is at its place and has the sectors up to the next.     *)
LoadPlaces ==
  \A l \in loads :
    /\ l.count \in 1 .. 32 /\ l.lba \in Nat /\ l.lba + l.count - 1 <= Read
    /\ \E q \in 0 .. 1, r \in 0 .. 3 : ChunkAt(q, r, l.lba, l.seg, l.off)

(* Every sector up to Read is in one chunk, and in no other.               *)
LoadCovers ==
  /\ \A s \in 1 .. Read : \E l \in loads : Covers(l, s)
  /\ \A l, m \in loads : \A s \in 1 .. Read : Covers(l, s) /\ Covers(m, s) => l = m

LoadInv == LoadRegs /\ LoadPlaces /\ LoadCovers

(* The boot sector starts with the whole kernel to load.                   *)
LEMMA LoadInit == L!Init => LoadInv
<1> SUFFICES ASSUME L!Init PROVE LoadInv
  OBVIOUS
<1>1. dh \in 0 .. 255 /\ ecx = dh /\ Read = 0 /\ loads = {} /\ lpc = "read_loop"
  BY BootAssumption DEF L!Init, Read
<1>2. ChunkAt(0, 0, eax, es, bx) /\ eax = 1
  BY DEF ChunkAt, L!Init, L!KERNEL_LOAD_SEGMENT
<1> QED BY <1>1, <1>2 DEF LoadInv, LoadRegs, LoadPlaces, LoadCovers

(* A whole chunk takes the registers to the next boundary; a shorter one   *)
(* is the last.                                                            *)
LEMMA ReadChunkStep ==
  ASSUME RealSizes, LoadInv, L!ReadChunk
  PROVE  LoadInv'
<1>1. PICK n, new :
        /\ n = L!ChunkSize
        /\ new = [lba |-> eax, count |-> n, seg |-> es, off |-> bx]
  OBVIOUS
<1>2. /\ lpc = "read_loop" /\ ecx # 0 /\ UNCHANGED <<dh, lpc>>
      /\ loads' = loads \cup {new}
      /\ eax' = L!AfterBios(eax) + n
      /\ L!Advance(n * 512)
      /\ ecx' = ecx - n
  BY <1>1 DEF L!ReadChunk, RealSizes
<1>3. PICK q \in 0 .. 1, r \in 0 .. 3 : ChunkAt(q, r, eax, es, bx)
  BY <1>2 DEF LoadInv, LoadRegs
<1>4. dh \in 0 .. 255 /\ ecx \in 1 .. dh /\ eax = Read + 1 /\ Read \in 0 .. 254
  BY <1>2 DEF LoadInv, LoadRegs, Read
<1>5. n \in 1 .. 32 /\ n <= ecx /\ (n < 32 => n = ecx)
  BY <1>1, <1>4 DEF L!ChunkSize, RealSizes
<1>6. Read' = Read + n /\ ecx' \in 0 .. dh'
  BY <1>2, <1>4, <1>5 DEF Read
<1>7. eax' = Read' + 1
  <2>1. eax \in 1 .. 255
    BY <1>4
  <2>2. L!AfterBios(eax) = eax
    BY <2>1 DEF L!AfterBios
  <2> QED BY <1>2, <1>4, <1>5, <1>6, <2>2
<1>8. /\ new.lba = eax /\ new.count = n /\ new.seg = es /\ new.off = bx
  BY <1>1
<1>9. LoadRegs'
  <2>1. CASE ecx' = 0
    BY <1>2, <1>4, <1>6, <2>1 DEF LoadRegs, LoadInv
  <2>2. CASE ecx' # 0
    <3>1. n = 32 /\ n * 512 = 16384
      BY <1>2, <1>4, <1>5, <2>2
    <3>2. /\ bx' = (16384 * r + 16384) % 65536
          /\ es' = IF 16384 * r + 16384 > 65535 THEN (es + 4096) % 65536 ELSE es
      BY <1>2, <1>3, <3>1 DEF L!Advance, ChunkAt
    <3>3. CASE r = 3
      <4>1. bx' = 0 /\ es' = 8192 + 4096 * (q + 1)
        BY <1>3, <3>2, <3>3 DEF ChunkAt
      <4>2. q = 0
        BY <1>2, <1>3, <1>4, <3>1, <3>3, <2>2, <1>6 DEF ChunkAt, Read
      <4>3. ChunkAt(1, 0, eax', es', bx')
        BY <1>3, <1>4, <1>6, <1>7, <3>1, <3>3, <4>1, <4>2 DEF ChunkAt
      <4> QED BY <1>2, <1>4, <1>6, <1>7, <4>3 DEF LoadInv, LoadRegs
    <3>4. CASE r # 3
      <4>1. ChunkAt(q, r + 1, eax', es', bx') /\ r + 1 \in 0 .. 3
        BY <1>3, <1>4, <1>6, <1>7, <3>1, <3>2, <3>4 DEF ChunkAt
      <4> QED BY <1>2, <1>4, <1>6, <1>7, <4>1 DEF LoadInv, LoadRegs
    <3> QED BY <3>3, <3>4
  <2> QED BY <2>1, <2>2
<1>10. LoadPlaces'
  <2>1. \A l \in loads : l.lba + l.count - 1 <= Read'
    BY <1>4, <1>5, <1>6 DEF LoadInv, LoadPlaces
  <2>2. ChunkAt(q, r, new.lba, new.seg, new.off)
    BY <1>3, <1>8
  <2>3. new.count \in 1 .. 32 /\ new.lba \in Nat /\ new.lba + new.count - 1 <= Read'
    BY <1>4, <1>5, <1>6, <1>8
  <2> QED BY <1>2, <2>1, <2>2, <2>3 DEF LoadInv, LoadPlaces
<1>11. LoadCovers'
  <2>1. \A s \in 1 .. Read' : Covers(new, s) <=> s \notin 1 .. Read
    BY <1>4, <1>5, <1>6, <1>8 DEF Covers
  <2>2. \A l \in loads : \A s \in 1 .. Read' : Covers(l, s) => s \in 1 .. Read
    BY <1>4, <1>5, <1>6 DEF LoadInv, LoadPlaces, Covers
  <2> QED BY <1>2, <2>1, <2>2 DEF LoadInv, LoadCovers
<1> QED BY <1>9, <1>10, <1>11 DEF LoadInv

(* A step of Boot is a step of the loader, or does not touch it.           *)
LEMMA BootLoadStep == [Next]_vars => [L!Next]_loadVars
BY DEF Next, vars, detect_memory, load_kernel, disk_error, kmalloc_init, kernel_main,
   Raise, Deliver, Running, AfterDetect, L!Next

(* Every step of the loading loop keeps the invariant.                     *)
LEMMA LoadStep ==
  ASSUME RealSizes, LoadInv, [L!Next]_loadVars
  PROVE  LoadInv'
<1>1. CASE L!disk_error \/ L!read_done \/ UNCHANGED loadVars
  BY <1>1 DEF L!disk_error, L!read_done, loadVars, LoadInv, LoadRegs, LoadPlaces, LoadCovers, Read
<1> QED BY <1>1, ReadChunkStep DEF L!Next

(* LoadInv holds in every reachable state.                                 *)
THEOREM LoadInvariant == ASSUME RealSizes PROVE Spec => []LoadInv
<1>1. Init => LoadInv
  BY LoadInit DEF Init
<1>2. LoadInv /\ [Next]_vars => LoadInv'
  BY LoadStep, BootLoadStep
<1> QED BY <1>1, <1>2, PTL DEF Spec

(* For every DH, disk_load puts each sector where the kernel is linked,    *)
(* and reads it once.                                                      *)
THEOREM KernelLoaded == ASSUME RealSizes PROVE Spec => []KernelInPlace
<1>1. LoadInv => KernelInPlace
  <2> SUFFICES ASSUME LoadInv, lpc = "done", NEW s \in 1 .. dh
               PROVE  LET with == {l \in loads : s \in l.lba .. l.lba + l.count - 1}
                      IN  /\ L!Cardinality(with) = 1
                          /\ \A l \in with : L!Linear(l.seg, l.off, (s - l.lba) * SECTOR)
                                             = L!KERNEL_OFFSET + (s - 1) * SECTOR
    BY DEF KernelInPlace, L!KernelInPlace
  <2> DEFINE with == {l \in loads : s \in l.lba .. l.lba + l.count - 1}
  <2>1. Read = dh /\ dh \in Nat /\ s \in 1 .. Read
    BY DEF LoadInv, LoadRegs, Read
  <2>2. \A l \in loads : l.count \in Nat /\ l.lba \in Nat
    BY DEF LoadInv, LoadPlaces
  <2>3. \A l \in loads : l \in with <=> Covers(l, s)
    BY <2>1, <2>2 DEF Covers
  <2>4. PICK l \in loads : Covers(l, s)
    BY <2>1 DEF LoadInv, LoadCovers
  <2>5. with = {l}
    BY <2>1, <2>3, <2>4 DEF LoadInv, LoadCovers
  <2>6. L!Cardinality(with) = 1
    BY <2>5, FS_Singleton, SameCardinality
  <2>7. L!Linear(l.seg, l.off, (s - l.lba) * SECTOR) = L!KERNEL_OFFSET + (s - 1) * SECTOR
    <3>1. PICK q \in 0 .. 1, r \in 0 .. 3 : ChunkAt(q, r, l.lba, l.seg, l.off)
      BY DEF LoadInv, LoadPlaces
    <3>2. PICK k : k = s - l.lba
      OBVIOUS
    <3>3. k \in 0 .. 31 /\ s - 1 = 128 * q + 32 * r + k
      BY <2>1, <2>2, <2>4, <3>1, <3>2 DEF Covers, ChunkAt, LoadInv, LoadPlaces
    <3>4. 16384 * r + k * 512 < 65536
      BY <3>1, <3>3
    <3>5. (16384 * r + k * 512) % 65536 = 16384 * r + k * 512
      <4>1. 16384 * r + k * 512 \in Nat
        BY <3>1, <3>3
      <4>2. ASSUME NEW a \in Nat, a < 65536 PROVE a % 65536 = a
        BY <4>2
      <4> QED BY <3>4, <4>1, <4>2
    <3>6. L!Linear(l.seg, l.off, k * 512) = (8192 + 4096 * q) * 16 + (16384 * r + k * 512)
      BY <3>1, <3>5 DEF L!Linear, ChunkAt
    <3> QED BY <3>2, <3>3, <3>6 DEF L!KERNEL_OFFSET, RealSizes
  <2> QED BY <2>5, <2>6, <2>7
<1> QED BY <1>1, LoadInvariant, PTL
=============================================================================
