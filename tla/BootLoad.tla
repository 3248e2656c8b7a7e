------------------------------- MODULE BootLoad -------------------------------
(***************************************************************************)
(* load_kernel and disk_load of boot/boot.asm: DH sectors from LBA 1 to    *)
(* segment ES, in chunks of one BIOS call each.  Registers have their real *)
(* widths; one action per chunk.                                           *)
(***************************************************************************)
EXTENDS Integers, FiniteSets

CONSTANTS
  Counts,         \* sectors to read: DH, a byte
  SECTOR,         \* bytes in a sector, a shift by 9 in the code
  CHUNK           \* sectors of the largest chunk

KERNEL_OFFSET == 131072         \* 0x20000
KERNEL_LOAD_SEGMENT == 8192     \* 0x2000

VARIABLES
  dh,      \* sectors asked for
  ecx,     \* sectors left
  eax,     \* the next LBA; AH is also the BIOS function and its status
  es, bx,  \* where the next chunk goes
  loads,   \* the chunks read: first sector, sectors, segment and offset
  pc

vars == <<dh, ecx, eax, es, bx, loads, pc>>

(* Where byte n of a transfer to seg:off goes: the BIOS counts the offset  *)
(* in 16 bits.                                                             *)
Linear(seg, off, n) == seg * 16 + ((off + n) % 65536)

Init ==
  /\ dh \in Counts /\ ecx = dh /\ eax = 1
  /\ es = KERNEL_LOAD_SEGMENT /\ bx = 0
  /\ loads = {} /\ pc = "read_loop"

(* Variant: the last, shorter chunk is forgotten.                          *)
ChunkSize_WholeOnly == IF ecx < CHUNK THEN 0 ELSE CHUNK

(* Variant: a chunk may have one sector more.                              *)
ChunkSize_OneMore == IF ecx <= CHUNK + 1 THEN ecx ELSE CHUNK + 1

ChunkSize == IF ecx <= CHUNK THEN ecx ELSE CHUNK

(* INT 13h, AH = 0x42 over bits 8 to 15 of the LBA; on success the BIOS    *)
(* leaves its status 0 there.                                              *)
AfterBios(r) == ((r \div 65536) * 65536) + (r % 256)

(* add bx, cx; on carry ES moves 64 KB up.                                 *)
Advance(bytes) ==
  /\ bx' = (bx + bytes) % 65536
  /\ es' = IF bx + bytes > 65535 THEN (es + 4096) % 65536 ELSE es

ReadChunk ==
  /\ pc = "read_loop" /\ ecx # 0
  /\ LET n == ChunkSize
     IN  /\ loads' = loads \cup {[lba |-> eax, count |-> n, seg |-> es, off |-> bx]}
         /\ eax' = AfterBios(eax) + n
         /\ Advance(n * SECTOR)
         /\ ecx' = ecx - n
  /\ UNCHANGED <<dh, pc>>

(* The BIOS reports an error: the message, then jmp $.                     *)
disk_error ==
  /\ pc = "read_loop" /\ ecx # 0
  /\ pc' = "disk_error"
  /\ UNCHANGED <<dh, ecx, eax, es, bx, loads>>

read_done ==
  /\ pc = "read_loop" /\ ecx = 0
  /\ pc' = "done"
  /\ UNCHANGED <<dh, ecx, eax, es, bx, loads>>

Next == ReadChunk \/ disk_error \/ read_done

Spec == Init /\ [][Next]_vars

-----------------------------------------------------------------------------
(* Properties.                                                             *)

(* The registers keep within what the loop is made for: the LBA in EAX     *)
(* comes through the BIOS calls, which use AH, without being changed.      *)
TypeOK ==
  /\ ecx \in 0 .. 255 /\ eax \in 1 .. 256
  /\ es \in 0 .. 65535 /\ bx \in 0 .. 65535
  /\ pc \in {"read_loop", "disk_error", "done"}

(* When disk_load returns, sector s is at KERNEL_OFFSET + (s - 1) * SECTOR *)
(* for each of the DH sectors behind the boot sector, and was read once.   *)
(* "we don't have to reason about the transfer crossing a 64KB real-mode   *)
(* segment boundary" (disk_load): one that did would wrap to its start.    *)
KernelInPlace ==
  pc = "done" =>
    \A s \in 1 .. dh :
      LET with == {l \in loads : s \in l.lba .. l.lba + l.count - 1}
      IN  /\ Cardinality(with) = 1
          /\ \A l \in with : Linear(l.seg, l.off, (s - l.lba) * SECTOR)
                             = KERNEL_OFFSET + (s - 1) * SECTOR
=============================================================================
