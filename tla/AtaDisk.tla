------------------------------- MODULE AtaDisk -------------------------------
(***************************************************************************)
(* disk_read_sector and disk_write_sector of kernel/disk.c, one port       *)
(* access per step, and the ATA drive they talk to.                        *)
(*                                                                         *)
(* Every sector of the volume is below LBA 65536, so the drive/head, count *)
(* and LBA-high registers always get the same bytes; only LBA-low and      *)
(* LBA-mid are state.  The drive is external: it is busy for a while after *)
(* each command, moves a sector through the data port word by word, and    *)
(* keeps a written sector in a cache that a power failure empties.         *)
(***************************************************************************)
EXTENDS Integers, FiniteSets

CONSTANTS
  Clients,  \* the tasks that call the driver
  BASE,     \* values of an LBA byte (256 in the code)
  WORDS,    \* words of a sector (256 in the code)
  Sectors,  \* the sector contents clients write
  Own       \* the sectors each client works on

Lbas  == 0 .. BASE * BASE - 1
Words == {s[w] : s \in Sectors, w \in 1 .. WORDS}

ASSUME AtaAssumption ==
  /\ BASE \in Nat \ {0} /\ WORDS \in Nat \ {0}
  /\ Sectors # {} /\ \A s \in Sectors : s \in [1 .. WORDS -> Words]
  /\ Own \in [Clients -> SUBSET Lbas]

VARIABLES
  media,  \* drive: the sectors on the platter
  cache,  \* drive: sectors written and not yet on the platter
  drive,  \* drive: LBA registers, status, command, sector buffer, next word
  cl      \* per client: where it is, its arguments and its buffer

vars == <<media, cache, drive, cl>>

Kept == [c \in {} |-> 0]   \* an empty cache

RegLba == drive.mid * BASE + drive.low

(* A client steps from label l to label n.                                 *)
Goto(c, l, n) == cl[c].pc = l /\ cl' = [cl EXCEPT ![c].pc = n]

-----------------------------------------------------------------------------
(* Calls.                                                                  *)

disk_read_sector(c, l) ==
  /\ cl[c].pc = "idle"
  /\ cl' = [cl EXCEPT ![c] = [@ EXCEPT !.pc = "wait", !.what = "read", !.lba = l, !.i = 1]]
  /\ UNCHANGED <<media, cache, drive>>

disk_write_sector(c, l, s) ==
  /\ cl[c].pc = "idle"
  /\ cl' = [cl EXCEPT ![c] = [pc |-> "wait", what |-> "write", lba |-> l, buf |-> s, i |-> 1]]
  /\ UNCHANGED <<media, cache, drive>>

NotBusy == drive.status # "busy"
HasDrq  == drive.status = "drq"

(* Variant: nobody waits until the written sector is stored.               *)
ata_wait_ready_Early(c) ==
  /\ \/ NotBusy /\ (\/ Goto(c, "wait", "low") \/ Goto(c, "accepted", "drq")
                    \/ Goto(c, "flushed", "idle"))
     \/ Goto(c, "written", "flush")
  /\ UNCHANGED <<media, cache, drive>>

(* Variant: DRQ is awaited after the last word.                            *)
ata_wait_ready_Drq(c) ==
  /\ \/ NotBusy /\ (\/ Goto(c, "wait", "low") \/ Goto(c, "accepted", "drq")
                    \/ Goto(c, "flushed", "idle"))
     \/ HasDrq /\ Goto(c, "written", "flush")
  /\ UNCHANGED <<media, cache, drive>>

(* ata_wait_ready, at the four places that call it, and ata_wait_drq.      *)
ata_wait_ready(c) ==
  /\ NotBusy
  /\ \/ Goto(c, "wait", "low")
     \/ Goto(c, "accepted", "drq")
     \/ Goto(c, "written", "flush")
     \/ Goto(c, "flushed", "idle")
  /\ UNCHANGED <<media, cache, drive>>

ata_wait_drq(c) ==
  /\ HasDrq /\ Goto(c, "drq", "data")
  /\ UNCHANGED <<media, cache, drive>>

(* Variant: the bytes go to each other's registers.                        *)
SetRegisters_Swapped(c) ==
  /\ \/ Goto(c, "low", "mid") /\ drive' = [drive EXCEPT !.low = cl[c].lba \div BASE]
     \/ Goto(c, "mid", "command") /\ drive' = [drive EXCEPT !.mid = cl[c].lba % BASE]
  /\ UNCHANGED <<media, cache>>

(* outb to ATA_LBA_LOW, then to ATA_LBA_MID.                               *)
SetRegisters(c) ==
  /\ \/ Goto(c, "low", "mid") /\ drive' = [drive EXCEPT !.low = cl[c].lba % BASE]
     \/ Goto(c, "mid", "command") /\ drive' = [drive EXCEPT !.mid = cl[c].lba \div BASE]
  /\ UNCHANGED <<media, cache>>

(* The drive takes a command: it is busy, its buffer at the first word.    *)
Accept(cmd) == drive' = [drive EXCEPT !.status = "busy", !.cmd = cmd, !.w = 0, !.at = RegLba]

Command(c) ==
  /\ Goto(c, "command", "accepted") /\ Accept(cl[c].what)
  /\ UNCHANGED <<media, cache>>

Flush(c) ==
  /\ Goto(c, "flush", "flushed") /\ Accept("flush")
  /\ UNCHANGED <<media, cache>>

LastWord == WORDS

(* Word i of the loops over the data port.  After the last one the drive   *)
(* is done with a read, and busy storing a write.  A word for a drive that *)
(* has no data to move is lost, and reading one then yields anything.      *)
Moved(d) ==
  [d EXCEPT !.w = @ + 1,
            !.status = IF d.w + 1 < WORDS THEN "drq"
                       ELSE IF d.cmd = "write" THEN "busy" ELSE "ready"]

NextWord(c, n) ==
  cl' = [cl EXCEPT ![c] =
           IF n.i < LastWord THEN [n EXCEPT !.i = @ + 1]
           ELSE [n EXCEPT !.i = 1, !.pc = IF n.what = "read" THEN "idle" ELSE "written"]]

ReadWord(c) ==
  /\ cl[c].pc = "data" /\ cl[c].what = "read"
  /\ \E x \in IF HasDrq THEN {drive.buf[drive.w + 1]} ELSE Words :
       NextWord(c, [cl[c] EXCEPT !.buf[cl[c].i] = x])
  /\ drive' = IF HasDrq THEN Moved(drive) ELSE drive
  /\ UNCHANGED <<media, cache>>

WriteWord(c) ==
  /\ cl[c].pc = "data" /\ cl[c].what = "write"
  /\ NextWord(c, cl[c])
  /\ drive' = IF HasDrq THEN Moved([drive EXCEPT !.buf[drive.w + 1] = cl[c].buf[cl[c].i]])
              ELSE drive
  /\ UNCHANGED <<media, cache>>

Client(c) ==
  \/ ata_wait_ready(c) \/ ata_wait_drq(c) \/ SetRegisters(c) \/ Command(c)
  \/ Flush(c) \/ ReadWord(c) \/ WriteWord(c)

-----------------------------------------------------------------------------
(* The drive (external).                                                   *)

Content(l) == IF l \in DOMAIN cache THEN cache[l] ELSE media[l]

(* The drive stops being busy: a read sector is in its buffer; a write     *)
(* waits for words and, once it has them, sits in the cache; a flush is    *)
(* done when the cache is on the platter.                                  *)
DriveWorks ==
  /\ drive.status = "busy"
  /\ CASE drive.cmd = "read" ->
            /\ drive' = [drive EXCEPT !.status = "drq", !.buf = Content(drive.at)]
            /\ UNCHANGED <<media, cache>>
       [] drive.cmd = "write" /\ drive.w < WORDS ->
            /\ drive' = [drive EXCEPT !.status = "drq"]
            /\ UNCHANGED <<media, cache>>
       [] drive.cmd = "write" /\ drive.w = WORDS ->
            /\ drive' = [drive EXCEPT !.status = "ready"]
            /\ cache' = [l \in DOMAIN cache \cup {drive.at} |->
                           IF l = drive.at THEN drive.buf ELSE cache[l]]
            /\ UNCHANGED media
       [] drive.cmd = "flush" ->
            /\ drive' = [drive EXCEPT !.status = "ready"]
            /\ media' = [l \in Lbas |-> Content(l)] /\ cache' = Kept
  /\ UNCHANGED cl

(* The drive writes a cached sector to the platter of its own accord.      *)
Destage ==
  /\ \E l \in DOMAIN cache :
       /\ media' = [media EXCEPT ![l] = cache[l]]
       /\ cache' = [k \in DOMAIN cache \ {l} |-> cache[k]]
  /\ UNCHANGED <<drive, cl>>

Blank == CHOOSE s \in Sectors : TRUE
NewDrive == [low |-> 0, mid |-> 0, status |-> "ready", cmd |-> "none", at |-> 0,
             w |-> 0, buf |-> Blank]
NewClients == [c \in Clients |-> [pc |-> "idle", what |-> "none", lba |-> 0,
                                 buf |-> Blank, i |-> 1]]

(* Power fails: what was only in the cache is gone.                        *)
Crash == UNCHANGED media /\ cache' = Kept /\ drive' = NewDrive /\ cl' = NewClients

-----------------------------------------------------------------------------
Init == media = [l \in Lbas |-> Blank] /\ cache = Kept /\ drive = NewDrive /\ cl = NewClients

Request(c) ==
  \E l \in Own[c] : \/ disk_read_sector(c, l)
                    \/ \E s \in Sectors : disk_write_sector(c, l, s)

Next == Crash \/ DriveWorks \/ Destage \/ \E c \in Clients : Request(c) \/ Client(c)

Spec == Init /\ [][Next]_vars

(* A busy drive gets its command done, and a task in the driver runs.      *)
FairSpec == Spec /\ WF_vars(DriveWorks) /\ \A c \in Clients : WF_vars(Client(c))

-----------------------------------------------------------------------------
(* Properties.                                                             *)

(* The registers hold bytes and the buffers whole sectors.                 *)
TypeOK ==
  /\ media \in [Lbas -> [1 .. WORDS -> Words]]
  /\ \A l \in DOMAIN cache : l \in Lbas /\ cache[l] \in [1 .. WORDS -> Words]
  /\ drive.low \in 0 .. BASE - 1 /\ drive.mid \in 0 .. BASE - 1
  /\ drive.status \in {"ready", "busy", "drq"} /\ drive.w \in 0 .. WORDS
  /\ \A c \in Clients : /\ cl[c].lba \in Lbas /\ cl[c].i \in 1 .. WORDS
                         /\ cl[c].buf \in [1 .. WORDS -> Words]

(* The drive is never asked for a command, nor given or asked for words,   *)
(* in a state that has no answer for it: every outb to the command port    *)
(* finds it ready and every word finds DRQ.                                *)
ProtocolKept ==
  \A c \in Clients :
    /\ cl[c].pc \in {"low", "mid", "command", "flush"} => drive.status = "ready"
    /\ cl[c].pc = "data" => HasDrq /\ drive.cmd = cl[c].what /\ drive.w = cl[c].i - 1

(* A write that is on the platter and has not returned.                    *)
AppliedTo(c) ==
  /\ cl[c].what = "write" /\ cl[c].pc \in {"written", "flush", "flushed"}
  /\ cache = Kept /\ ~(drive.status = "busy" /\ drive.cmd = "write")

Store == INSTANCE SectorStore WITH
  store  <- media,
  call   <- [c \in Clients |->
               IF cl[c].pc = "idle" THEN [what |-> "idle"]
               ELSE IF cl[c].what = "read" THEN [what |-> "read", lba |-> cl[c].lba]
               ELSE IF AppliedTo(c) THEN [what |-> "applied"]
               ELSE [what |-> "write", lba |-> cl[c].lba, data |-> cl[c].buf]],
  result <- [c \in Clients |-> IF cl[c].pc = "idle" THEN cl[c].buf ELSE Blank]

(* disk_read_sector and disk_write_sector, with one caller, are a store of *)
(* whole, durable sectors: what fs.c, and FatVolume, take them for.  What  *)
(* a write that has returned put there survives a power failure: "flush    *)
(* the drive's write cache so the write is actually durable".              *)
ImplementsSectorStore == Store!Spec

(* Every call returns: no wait loop of the driver waits for a state that   *)
(* the drive does not come to.                                             *)
CallsReturn == \A c \in Clients : cl[c].pc # "idle" ~> cl[c].pc = "idle"
=============================================================================
