------------------------------ MODULE AtaProofs ------------------------------
(***************************************************************************)
(* Proofs about AtaDisk, for every size of a sector and of an LBA byte and *)
(* every content of the sectors: with one task in the driver, the drive is *)
(* never spoken to out of turn, and the driver and the drive together are  *)
(* the store of whole, durable sectors that kernel/fs.c takes them for.    *)
(*                                                                         *)
(* The invariant follows a call through disk_read_sector and               *)
(* disk_write_sector: what the drive's registers, status, buffer and cache *)
(* hold at each label.                                                     *)
(***************************************************************************)
EXTENDS AtaDisk, TLAPS

(* One task calls the driver.  Once fs_init has returned in the kernel     *)
(* task, the shell is the only one that does; before that both may be in   *)
(* it, which is the hazard at disk.c:32 and outside this module.           *)
OneClient == \E c : Clients = {c}

Labels == {"idle", "wait", "low", "mid", "command", "accepted", "drq", "data",
           "written", "flush", "flushed"}
Sector == [1 .. WORDS -> Words]
DriveState == [low : 0 .. BASE - 1, mid : 0 .. BASE - 1,
               status : {"ready", "busy", "drq"},
               cmd : {"none", "read", "write", "flush"}, at : Int,
               w : 0 .. WORDS, buf : Sector]
ClientState == [pc : Labels, what : {"none", "read", "write"}, lba : Lbas,
                buf : Sector, i : 1 .. WORDS]

Types ==
  /\ media \in [Lbas -> Sectors]
  /\ drive \in DriveState
  /\ cl \in [Clients -> ClientState]

(* Nothing is going on in the drive.                                       *)
Quiet == drive.status = "ready" /\ cache = Kept

(* The drive has c's command and the address c meant.                      *)
AtWork(c) == cache = Kept /\ drive.cmd = cl[c].what /\ drive.at = cl[c].lba

(* The sector c writes is in the cache or already on the platter.          *)
OnTheWay(c) ==
  \/ cache = Kept /\ media[cl[c].lba] = cl[c].buf
  \/ cache = [l \in {cl[c].lba} |-> cl[c].buf]

CallInv(c) ==
  /\ cl[c].pc # "idle" => cl[c].what \in {"read", "write"}
  /\ cl[c].what = "write" \/ cl[c].pc = "idle" => cl[c].buf \in Sectors
  /\ cl[c].pc # "data" => cl[c].i = 1
  /\ cl[c].pc \in {"written", "flush", "flushed"} => cl[c].what = "write"

SetupInv(c) ==
  /\ cl[c].pc \in {"idle", "wait", "low", "mid", "command"} => Quiet
  /\ cl[c].pc \in {"mid", "command"} => drive.low = cl[c].lba % BASE
  /\ cl[c].pc = "command" => drive.mid = cl[c].lba \div BASE

CommandInv(c) ==
  /\ cl[c].pc \in {"accepted", "drq"} =>
       AtWork(c) /\ drive.w = 0 /\ drive.status \in {"busy", "drq"}
  /\ cl[c].pc = "drq" => drive.status = "drq"
  /\ cl[c].pc \in {"accepted", "drq"} /\ cl[c].what = "read" /\ drive.status = "drq" =>
       drive.buf = media[cl[c].lba]

DataInv(c) ==
  cl[c].pc = "data" =>
    /\ AtWork(c) /\ drive.status = "drq" /\ drive.w = cl[c].i - 1
    /\ cl[c].what = "read" =>
         /\ drive.buf = media[cl[c].lba]
         /\ \A j \in 1 .. WORDS : j < cl[c].i => cl[c].buf[j] = media[cl[c].lba][j]
    /\ cl[c].what = "write" =>
         \A j \in 1 .. WORDS : j < cl[c].i => drive.buf[j] = cl[c].buf[j]

StoreInv(c) ==
  /\ cl[c].pc = "written" =>
       \/ drive.status = "busy" /\ AtWork(c) /\ drive.w = WORDS /\ drive.buf = cl[c].buf
       \/ drive.status = "ready" /\ OnTheWay(c)
  /\ cl[c].pc = "flush" => drive.status = "ready" /\ OnTheWay(c)
  /\ cl[c].pc = "flushed" =>
       \/ drive.status = "busy" /\ drive.cmd = "flush" /\ OnTheWay(c)
       \/ drive.status = "ready" /\ cache = Kept /\ media[cl[c].lba] = cl[c].buf

ClientInv(c) == CallInv(c) /\ SetupInv(c) /\ CommandInv(c) /\ DataInv(c) /\ StoreInv(c)

IInv == Types /\ \A c \in Clients : ClientInv(c)

-----------------------------------------------------------------------------
(* Division by a byte's base: what is left, and a quotient that is a byte. *)
LEMMA DivMod ==
  ASSUME NEW b \in Nat, b > 0, NEW a \in 0 .. b * b - 1
  PROVE  a % b \in 0 .. b - 1 /\ a \div b \in 0 .. b - 1 /\ (a \div b) * b + (a % b) = a
<1>1. a % b \in 0 .. b - 1
  OBVIOUS
<1>2. a \div b \in Nat
  OBVIOUS
<1>3. a \div b <= b - 1
  OBVIOUS
<1>4. a = (a \div b) * b + (a % b)
  OBVIOUS
<1> QED  BY <1>1, <1>2, <1>3, <1>4

(* The LBA the driver means is the one that its two bytes make.            *)
LEMMA LbaBytes ==
  ASSUME NEW l \in Lbas
  PROVE  /\ l % BASE \in 0 .. BASE - 1
         /\ l \div BASE \in 0 .. BASE - 1
         /\ (l \div BASE) * BASE + (l % BASE) = l
BY AtaAssumption, DivMod DEF Lbas

(* A sector of zeros is a sector.                                          *)
LEMMA BlankSector == Blank \in Sectors
BY AtaAssumption DEF Blank

(* A sector is a function from word numbers to words.                      *)
LEMMA SectorType == \A s \in Sectors : s \in Sector
BY AtaAssumption DEF Sector

(* Two sectors with the same words are the same.                           *)
LEMMA SameWords ==
  ASSUME NEW s \in Sector, NEW t \in Sector, \A j \in 1 .. WORDS : s[j] = t[j]
  PROVE  s = t
<1>1. s = [j \in 1 .. WORDS |-> s[j]] /\ t = [j \in 1 .. WORDS |-> t[j]]
  BY DEF Sector
<1>2. [j \in 1 .. WORDS |-> s[j]] = [j \in 1 .. WORDS |-> t[j]]
  OBVIOUS
<1> QED  BY <1>1, <1>2

(* The bases of the arithmetic are positive.                               *)
LEMMA Sizes == BASE \in Nat /\ BASE > 0 /\ WORDS \in Nat /\ WORDS > 0
BY AtaAssumption

(* The machine starts with an idle driver and a quiet drive.               *)
LEMMA FreshInv ==
  ASSUME media \in [Lbas -> Sectors], cache = Kept, drive = NewDrive, cl = NewClients
  PROVE  IInv
<1>1. Types
  BY BlankSector, SectorType, Sizes DEF Types, NewDrive, NewClients, DriveState, ClientState,
     Labels, Lbas
<1>2. ASSUME NEW c \in Clients  PROVE ClientInv(c)
  <2>1. /\ cl[c].pc = "idle" /\ cl[c].what = "none" /\ cl[c].i = 1 /\ cl[c].buf = Blank
        /\ drive.status = "ready" /\ cache = Kept
    BY DEF NewClients, NewDrive
  <2> QED  BY <2>1, BlankSector DEF ClientInv, CallInv, SetupInv, CommandInv, DataInv, StoreInv,
           Quiet
<1> QED  BY <1>1, <1>2 DEF IInv

(* The machine starts with an idle driver and a quiet drive.               *)
LEMMA InitIInv == Init => IInv
<1> SUFFICES ASSUME Init  PROVE IInv  OBVIOUS
<1>1. media \in [Lbas -> Sectors]
  BY BlankSector DEF Init
<1> QED  BY <1>1, FreshInv DEF Init

(* Every other client is the same client.                                  *)
LEMMA Alone == OneClient => \A c, d \in Clients : c = d
BY DEF OneClient

(* The last step of most cases: the client that moved is the only one.     *)
LEMMA OneSuffices ==
  ASSUME OneClient, NEW c \in Clients, Types', ClientInv(c)'
  PROVE  IInv'
<1>1. ASSUME NEW d \in Clients  PROVE ClientInv(d)'
  <2>1. d = c  BY Alone
  <2> QED  BY <2>1
<1> QED  BY <1>1 DEF IInv

(* A step from label to label leaves the rest of the client alone.         *)
LEMMA GotoFacts ==
  ASSUME Types, NEW c \in Clients, NEW l, NEW n \in Labels, Goto(c, l, n)
  PROVE  /\ cl[c].pc = l
         /\ cl' \in [Clients -> ClientState]
         /\ cl'[c].pc = n /\ cl'[c].what = cl[c].what /\ cl'[c].lba = cl[c].lba
         /\ cl'[c].buf = cl[c].buf /\ cl'[c].i = cl[c].i
BY DEF Goto, Types, ClientState

(* A call starts: the arguments are in place and the drive is quiet.       *)
LEMMA RequestStep ==
  ASSUME OneClient, IInv, NEW c \in Clients, Request(c)
  PROVE  IInv'
<1>1. PICK l \in Own[c] : \/ disk_read_sector(c, l)
                          \/ \E s \in Sectors : disk_write_sector(c, l, s)
  BY DEF Request
<1>2. l \in Lbas
  BY <1>1, AtaAssumption
<1>3. ClientInv(c) /\ Types /\ cl[c] \in ClientState
  BY DEF IInv, Types
<1>4. /\ cl[c].pc = "idle" /\ UNCHANGED <<media, cache, drive>>
      /\ cl' \in [Clients -> ClientState]
      /\ cl'[c].pc = "wait" /\ cl'[c].what \in {"read", "write"} /\ cl'[c].i = 1
      /\ cl'[c].what = "write" => cl'[c].buf \in Sectors
  <2>1. CASE disk_read_sector(c, l)
    <3>1. cl' = [cl EXCEPT ![c] = [cl[c] EXCEPT !.pc = "wait", !.what = "read", !.lba = l, !.i = 1]]
      BY <2>1 DEF disk_read_sector
    <3>2. "wait" \in Labels /\ 1 \in 1 .. WORDS
      BY Sizes DEF Labels
    <3>3. [cl[c] EXCEPT !.pc = "wait", !.what = "read", !.lba = l, !.i = 1] \in ClientState
      BY <1>2, <1>3, <3>2 DEF ClientState
    <3> QED  BY <2>1, <3>1, <3>3, <1>3 DEF disk_read_sector, Types, ClientState
  <2>2. CASE \E s \in Sectors : disk_write_sector(c, l, s)
    <3>1. PICK s \in Sectors : disk_write_sector(c, l, s)
      BY <2>2
    <3>2. [pc |-> "wait", what |-> "write", lba |-> l, buf |-> s, i |-> 1] \in ClientState
      BY <1>2, SectorType, Sizes DEF ClientState, Labels
    <3> QED  BY <3>1, <3>2, <1>3 DEF disk_write_sector, Types
  <2> QED  BY <1>1, <2>1, <2>2
<1>5. Types'
  BY <1>3, <1>4 DEF Types
<1>6. ClientInv(c)'
  BY <1>3, <1>4 DEF ClientInv, CallInv, SetupInv, CommandInv, DataInv, StoreInv, Quiet
<1> QED  BY <1>5, <1>6, OneSuffices

(* A wait loop ends: the status says what the next access needs.           *)
LEMMA WaitStep ==
  ASSUME OneClient, IInv, NEW c \in Clients, ata_wait_ready(c) \/ ata_wait_drq(c)
  PROVE  IInv'
<1>1. ClientInv(c) /\ Types /\ cl[c] \in ClientState
  BY DEF IInv, Types
<1>2. UNCHANGED <<media, cache, drive>>
  BY DEF ata_wait_ready, ata_wait_drq
<1>3. PICK l \in Labels, n \in Labels :
        /\ Goto(c, l, n)
        /\ \/ NotBusy /\ <<l, n>> \in {<<"wait", "low">>, <<"accepted", "drq">>,
                                       <<"written", "flush">>, <<"flushed", "idle">>}
           \/ HasDrq /\ l = "drq" /\ n = "data"
  BY DEF ata_wait_ready, ata_wait_drq, Labels
<1>4. /\ cl[c].pc = l /\ cl' \in [Clients -> ClientState]
      /\ cl'[c].pc = n /\ cl'[c].what = cl[c].what /\ cl'[c].lba = cl[c].lba
      /\ cl'[c].buf = cl[c].buf /\ cl'[c].i = cl[c].i
  BY <1>1, <1>3, GotoFacts
<1>5. Types'
  BY <1>1, <1>2, <1>4 DEF Types
<1>6. ClientInv(c)'
  <2>1. drive.status \in {"ready", "busy", "drq"} /\ drive.w \in 0 .. WORDS /\ cl[c].i \in 1 .. WORDS
    BY <1>1 DEF Types, DriveState, ClientState
  <2>2. CASE l = "wait" /\ n = "low"
    BY <1>1, <1>2, <1>4, <2>2
       DEF ClientInv, CallInv, SetupInv, CommandInv, DataInv, StoreInv, Quiet
  <2>3. CASE l = "accepted" /\ n = "drq" /\ NotBusy
    BY <1>1, <1>2, <1>4, <2>1, <2>3
       DEF ClientInv, CallInv, SetupInv, CommandInv, DataInv, StoreInv, AtWork, NotBusy
  <2>4. CASE l = "written" /\ n = "flush" /\ NotBusy
    BY <1>1, <1>2, <1>4, <2>1, <2>4
       DEF ClientInv, CallInv, SetupInv, CommandInv, DataInv, StoreInv, OnTheWay, NotBusy
  <2>5. CASE l = "flushed" /\ n = "idle" /\ NotBusy
    BY <1>1, <1>2, <1>4, <2>1, <2>5
       DEF ClientInv, CallInv, SetupInv, CommandInv, DataInv, StoreInv, Quiet, NotBusy
  <2>6. CASE l = "drq" /\ n = "data" /\ HasDrq
    BY <1>1, <1>2, <1>4, <2>1, <2>6, Sizes
       DEF ClientInv, CallInv, SetupInv, CommandInv, DataInv, StoreInv, AtWork, HasDrq
  <2> QED  BY <1>3, <2>2, <2>3, <2>4, <2>5, <2>6
<1> QED  BY <1>5, <1>6, OneSuffices

(* The LBA bytes reach their registers one after the other.                *)
LEMMA RegistersStep ==
  ASSUME OneClient, IInv, NEW c \in Clients, SetRegisters(c)
  PROVE  IInv'
<1>1. ClientInv(c) /\ Types /\ cl[c] \in ClientState /\ drive \in DriveState
  BY DEF IInv, Types
<1>2. cl[c].lba \in Lbas
  BY <1>1 DEF ClientState
<1>3. UNCHANGED <<media, cache>>
  BY DEF SetRegisters
<1>4. CASE Goto(c, "low", "mid") /\ drive' = [drive EXCEPT !.low = cl[c].lba % BASE]
  <2>1. /\ cl[c].pc = "low" /\ cl' \in [Clients -> ClientState]
        /\ cl'[c].pc = "mid" /\ cl'[c].what = cl[c].what /\ cl'[c].lba = cl[c].lba
        /\ cl'[c].buf = cl[c].buf /\ cl'[c].i = cl[c].i
    BY <1>1, <1>4, GotoFacts DEF Labels
  <2>2. drive' \in DriveState /\ drive'.low = cl[c].lba % BASE /\ drive'.status = drive.status
    BY <1>1, <1>2, <1>4, LbaBytes DEF DriveState
  <2>3. Types'
    BY <1>1, <1>3, <2>1, <2>2 DEF Types
  <2>4. ClientInv(c)'
    BY <1>1, <1>3, <2>1, <2>2
       DEF ClientInv, CallInv, SetupInv, CommandInv, DataInv, StoreInv, Quiet
  <2> QED  BY <2>3, <2>4, OneSuffices
<1>5. CASE Goto(c, "mid", "command") /\ drive' = [drive EXCEPT !.mid = cl[c].lba \div BASE]
  <2>1. /\ cl[c].pc = "mid" /\ cl' \in [Clients -> ClientState]
        /\ cl'[c].pc = "command" /\ cl'[c].what = cl[c].what /\ cl'[c].lba = cl[c].lba
        /\ cl'[c].buf = cl[c].buf /\ cl'[c].i = cl[c].i
    BY <1>1, <1>5, GotoFacts DEF Labels
  <2>2. /\ drive' \in DriveState /\ drive'.mid = cl[c].lba \div BASE
        /\ drive'.low = drive.low /\ drive'.status = drive.status
    BY <1>1, <1>2, <1>5, LbaBytes DEF DriveState
  <2>3. Types'
    BY <1>1, <1>3, <2>1, <2>2 DEF Types
  <2>4. ClientInv(c)'
    BY <1>1, <1>3, <2>1, <2>2
       DEF ClientInv, CallInv, SetupInv, CommandInv, DataInv, StoreInv, Quiet
  <2> QED  BY <2>3, <2>4, OneSuffices
<1> QED  BY <1>4, <1>5 DEF SetRegisters

(* The drive gets a command: a read or write for the address in its two    *)
(* registers, or a flush.                                                  *)
LEMMA CommandStep ==
  ASSUME OneClient, IInv, NEW c \in Clients, Command(c) \/ Flush(c)
  PROVE  IInv'
<1>1. ClientInv(c) /\ Types /\ cl[c] \in ClientState /\ drive \in DriveState
  BY DEF IInv, Types
<1>2. cl[c].lba \in Lbas /\ RegLba \in Int
  BY <1>1, Sizes DEF ClientState, DriveState, RegLba
<1>3. UNCHANGED <<media, cache>>
  BY DEF Command, Flush
<1>4. ASSUME NEW cmd \in {"none", "read", "write", "flush"}, Accept(cmd)
      PROVE  /\ drive' \in DriveState
             /\ drive'.status = "busy" /\ drive'.cmd = cmd /\ drive'.w = 0 /\ drive'.at = RegLba
  <2>1. drive' = [low |-> drive.low, mid |-> drive.mid, status |-> "busy", cmd |-> cmd,
                  at |-> RegLba, w |-> 0, buf |-> drive.buf]
    BY <1>1, <1>4 DEF Accept, DriveState
  <2>2. /\ drive.low \in 0 .. BASE - 1 /\ drive.mid \in 0 .. BASE - 1
        /\ drive.buf \in Sector /\ 0 \in 0 .. WORDS
    BY <1>1, Sizes DEF DriveState
  <2> QED  BY <1>2, <2>1, <2>2 DEF DriveState
<1>5. CASE Command(c)
  <2>1. /\ cl[c].pc = "command" /\ cl' \in [Clients -> ClientState]
        /\ cl'[c].pc = "accepted" /\ cl'[c].what = cl[c].what /\ cl'[c].lba = cl[c].lba
        /\ cl'[c].buf = cl[c].buf /\ cl'[c].i = cl[c].i
    BY <1>1, <1>5, GotoFacts DEF Labels, Command
  <2>2. cl[c].what \in {"none", "read", "write"}
    BY <1>1 DEF ClientState
  <2>3. /\ drive' \in DriveState /\ drive'.status = "busy"
        /\ drive'.cmd = cl[c].what /\ drive'.w = 0 /\ drive'.at = RegLba
    BY <1>4, <1>5, <2>2 DEF Command
  <2>4. RegLba = cl[c].lba
    <3>1. drive.low = cl[c].lba % BASE /\ drive.mid = cl[c].lba \div BASE
      BY <1>1, <2>1 DEF ClientInv, SetupInv
    <3>2. (cl[c].lba \div BASE) * BASE + (cl[c].lba % BASE) = cl[c].lba
      BY <1>2, LbaBytes
    <3> QED  BY <3>1, <3>2 DEF RegLba
  <2>5. Types'
    BY <1>1, <1>3, <2>1, <2>3 DEF Types
  <2>6. ClientInv(c)'
    BY <1>1, <1>3, <2>1, <2>3, <2>4
       DEF ClientInv, CallInv, SetupInv, CommandInv, DataInv, StoreInv, Quiet, AtWork
  <2> QED  BY <2>5, <2>6, OneSuffices
<1>6. CASE Flush(c)
  <2>1. /\ cl[c].pc = "flush" /\ cl' \in [Clients -> ClientState]
        /\ cl'[c].pc = "flushed" /\ cl'[c].what = cl[c].what /\ cl'[c].lba = cl[c].lba
        /\ cl'[c].buf = cl[c].buf /\ cl'[c].i = cl[c].i
    BY <1>1, <1>6, GotoFacts DEF Labels, Flush
  <2>2. drive' \in DriveState /\ drive'.status = "busy" /\ drive'.cmd = "flush"
    BY <1>4, <1>6 DEF Flush
  <2>3. Types'
    BY <1>1, <1>3, <2>1, <2>2 DEF Types
  <2>4. ClientInv(c)'
    BY <1>1, <1>3, <2>1, <2>2
       DEF ClientInv, CallInv, SetupInv, CommandInv, DataInv, StoreInv, OnTheWay
  <2> QED  BY <2>3, <2>4, OneSuffices
<1> QED  BY <1>5, <1>6

(* A word comes in: it is the next word of the sector on the platter; with *)
(* the last one the buffer is that sector and the drive is quiet again.    *)
LEMMA ReadWordStep ==
  ASSUME OneClient, IInv, NEW c \in Clients, ReadWord(c)
  PROVE  /\ IInv'
         /\ cl[c].what = "read" /\ cl'[c].what = "read" /\ cl'[c].lba = cl[c].lba
         /\ \/ cl'[c].pc = "data"
            \/ cl'[c].pc = "idle" /\ cl'[c].buf = media[cl[c].lba]
<1>1. ClientInv(c) /\ Types /\ cl[c] \in ClientState /\ drive \in DriveState
  BY DEF IInv, Types
<1>2. /\ cl[c].pc = "data" /\ cl[c].what = "read" /\ UNCHANGED <<media, cache>>
  BY DEF ReadWord
<1>3. /\ cache = Kept /\ drive.cmd = "read" /\ drive.at = cl[c].lba
      /\ drive.status = "drq" /\ drive.w = cl[c].i - 1
      /\ drive.buf = media[cl[c].lba]
      /\ \A j \in 1 .. WORDS : j < cl[c].i => cl[c].buf[j] = media[cl[c].lba][j]
  BY <1>1, <1>2 DEF ClientInv, DataInv, AtWork
<1>4. /\ cl[c].i \in 1 .. WORDS /\ cl[c].lba \in Lbas /\ cl[c].buf \in Sector
      /\ media[cl[c].lba] \in Sectors /\ media[cl[c].lba] \in Sector
  BY <1>1, SectorType DEF Types, ClientState
<1>5. PICK x : x = media[cl[c].lba][cl[c].i]
  OBVIOUS
<1>6. PICK n : n = [cl[c] EXCEPT !.buf[cl[c].i] = x]
  OBVIOUS
<1>7. x \in Words
  BY <1>4, <1>5 DEF Sector
<1>8. /\ n \in ClientState
      /\ n.pc = "data" /\ n.what = "read" /\ n.lba = cl[c].lba /\ n.i = cl[c].i
      /\ n.buf = [cl[c].buf EXCEPT ![cl[c].i] = x]
  <2>1. [cl[c].buf EXCEPT ![cl[c].i] = x] \in Sector
    BY <1>4, <1>7 DEF Sector
  <2>2. PICK b : b = [cl[c].buf EXCEPT ![cl[c].i] = x]
    OBVIOUS
  <2>3. n = [cl[c] EXCEPT !.buf = b]
    BY <1>6, <2>2
  <2> QED  BY <1>1, <1>2, <2>1, <2>2, <2>3 DEF ClientState
<1>9. NextWord(c, n)
  <2>1. HasDrq /\ drive.buf[drive.w + 1] = x
    BY <1>3, <1>4, <1>5 DEF HasDrq
  <2> QED  BY <1>6, <2>1 DEF ReadWord
<1>10. drive' = Moved(drive)
  BY <1>3 DEF ReadWord, HasDrq
<1>11. /\ drive' \in DriveState /\ drive'.cmd = "read" /\ drive'.at = drive.at
       /\ drive'.buf = drive.buf /\ drive'.w = cl[c].i
       /\ drive'.status = IF cl[c].i < WORDS THEN "drq" ELSE "ready"
  <2>1. drive.w + 1 = cl[c].i /\ cl[c].i \in 0 .. WORDS
    BY <1>3, <1>4
  <2>2. drive' = [drive EXCEPT !.w = cl[c].i,
                               !.status = IF cl[c].i < WORDS THEN "drq" ELSE "ready"]
    BY <1>1, <1>3, <1>10, <2>1 DEF Moved
  <2> QED  BY <1>1, <1>3, <2>1, <2>2 DEF DriveState
<1>12. \A j \in 1 .. WORDS : j < cl[c].i + 1 => n.buf[j] = media[cl[c].lba][j]
  <2> SUFFICES ASSUME NEW j \in 1 .. WORDS, j < cl[c].i + 1
               PROVE  [cl[c].buf EXCEPT ![cl[c].i] = x][j] = media[cl[c].lba][j]
    BY <1>8
  <2>1. CASE j = cl[c].i
    BY <1>4, <1>5, <2>1 DEF Sector
  <2>2. CASE j # cl[c].i
    <3>1. j < cl[c].i  BY <1>4, <2>2
    <3> QED  BY <1>3, <1>4, <2>2, <3>1 DEF Sector
  <2> QED  BY <2>1, <2>2
<1>13. CASE cl[c].i < WORDS
  <2>1. cl' = [cl EXCEPT ![c] = [n EXCEPT !.i = cl[c].i + 1]]
    BY <1>8, <1>9, <1>13 DEF NextWord, LastWord
  <2>2. cl[c].i + 1 \in 1 .. WORDS
    BY <1>4, <1>13, Sizes
  <2>3. /\ cl' \in [Clients -> ClientState]
        /\ cl'[c].pc = "data" /\ cl'[c].what = "read" /\ cl'[c].lba = cl[c].lba
        /\ cl'[c].i = cl[c].i + 1 /\ cl'[c].buf = n.buf
    BY <1>1, <1>8, <2>1, <2>2 DEF Types, ClientState
  <2>4. Types'
    BY <1>1, <1>2, <1>11, <2>3 DEF Types
  <2>5. cl'[c].i - 1 = cl[c].i
    BY <1>4, <2>3
  <2>6. DataInv(c)'
    BY <1>2, <1>3, <1>11, <1>12, <1>13, <2>3, <2>5 DEF DataInv, AtWork
  <2>7. ClientInv(c)'
    BY <1>1, <2>3, <2>6 DEF ClientInv, CallInv, SetupInv, CommandInv, StoreInv
  <2> QED  BY <1>2, <2>3, <2>4, <2>7, OneSuffices
<1>14. CASE ~(cl[c].i < WORDS)
  <2>1. cl' = [cl EXCEPT ![c] = [n EXCEPT !.i = 1, !.pc = "idle"]]
    BY <1>8, <1>9, <1>14 DEF NextWord, LastWord
  <2>2. "idle" \in Labels /\ 1 \in 1 .. WORDS
    BY Sizes DEF Labels
  <2>3. /\ cl' \in [Clients -> ClientState]
        /\ cl'[c].pc = "idle" /\ cl'[c].what = "read" /\ cl'[c].lba = cl[c].lba
        /\ cl'[c].i = 1 /\ cl'[c].buf = n.buf
    BY <1>1, <1>8, <2>1, <2>2 DEF Types, ClientState
  <2>4. n.buf = media[cl[c].lba]
    <3>1. \A j \in 1 .. WORDS : n.buf[j] = media[cl[c].lba][j]
      BY <1>4, <1>12, <1>14, Sizes
    <3>2. n.buf \in Sector
      BY <1>8 DEF ClientState
    <3> QED  BY <1>4, <3>1, <3>2, SameWords
  <2>5. Types'
    BY <1>1, <1>2, <1>11, <2>3 DEF Types
  <2>6. ClientInv(c)'
    BY <1>2, <1>3, <1>4, <1>11, <1>14, <2>3, <2>4
       DEF ClientInv, CallInv, SetupInv, CommandInv, DataInv, StoreInv, Quiet
  <2> QED  BY <1>2, <2>3, <2>4, <2>5, <2>6, OneSuffices
<1> QED  BY <1>13, <1>14

(* A word goes out; with the last one the drive has the whole sector and   *)
(* is busy storing it.                                                     *)
LEMMA WriteWordStep ==
  ASSUME OneClient, IInv, NEW c \in Clients, WriteWord(c)
  PROVE  /\ IInv'
         /\ cl[c].what = "write" /\ cl'[c].what = "write" /\ cl'[c].lba = cl[c].lba
         /\ cl'[c].buf = cl[c].buf
         /\ \/ cl'[c].pc = "data"
            \/ cl'[c].pc = "written" /\ drive'.status = "busy" /\ drive'.cmd = "write"
<1>1. ClientInv(c) /\ Types /\ cl[c] \in ClientState /\ drive \in DriveState
  BY DEF IInv, Types
<1>2. /\ cl[c].pc = "data" /\ cl[c].what = "write" /\ UNCHANGED <<media, cache>>
      /\ NextWord(c, cl[c])
  BY DEF WriteWord
<1>3. /\ cache = Kept /\ drive.cmd = "write" /\ drive.at = cl[c].lba
      /\ drive.status = "drq" /\ drive.w = cl[c].i - 1
      /\ cl[c].buf \in Sectors
      /\ \A j \in 1 .. WORDS : j < cl[c].i => drive.buf[j] = cl[c].buf[j]
  BY <1>1, <1>2 DEF ClientInv, DataInv, AtWork, CallInv
<1>4. /\ cl[c].i \in 1 .. WORDS /\ cl[c].buf \in Sector /\ drive.buf \in Sector
      /\ drive.w + 1 = cl[c].i /\ cl[c].i \in 0 .. WORDS
  BY <1>1, <1>3 DEF ClientState, DriveState
<1>5. PICK b : b = [drive.buf EXCEPT ![cl[c].i] = cl[c].buf[cl[c].i]]
  OBVIOUS
<1>6. b \in Sector
  BY <1>4, <1>5 DEF Sector
<1>7. \A j \in 1 .. WORDS : j < cl[c].i + 1 => b[j] = cl[c].buf[j]
  <2> SUFFICES ASSUME NEW j \in 1 .. WORDS, j < cl[c].i + 1
               PROVE  [drive.buf EXCEPT ![cl[c].i] = cl[c].buf[cl[c].i]][j] = cl[c].buf[j]
    BY <1>5
  <2>1. CASE j = cl[c].i
    BY <1>4, <2>1 DEF Sector
  <2>2. CASE j # cl[c].i
    <3>1. j < cl[c].i  BY <1>4, <2>2
    <3> QED  BY <1>3, <1>4, <2>2, <3>1 DEF Sector
  <2> QED  BY <2>1, <2>2
<1>8. /\ drive' \in DriveState /\ drive'.cmd = "write" /\ drive'.at = drive.at
      /\ drive'.buf = b /\ drive'.w = cl[c].i
      /\ drive'.status = IF cl[c].i < WORDS THEN "drq" ELSE "busy"
  <2>1. PICK d : d = [drive EXCEPT !.buf = b]
    OBVIOUS
  <2>2. /\ d \in DriveState /\ d.cmd = "write" /\ d.at = drive.at /\ d.buf = b
        /\ d.w + 1 = cl[c].i
    BY <1>1, <1>3, <1>4, <1>6, <2>1 DEF DriveState
  <2>3. [drive EXCEPT !.buf[drive.w + 1] = cl[c].buf[cl[c].i]] = d
    BY <1>4, <1>5, <2>1
  <2>4. drive' = Moved(d)
    BY <1>3, <2>3 DEF WriteWord, HasDrq
  <2>5. drive' = [d EXCEPT !.w = cl[c].i,
                           !.status = IF cl[c].i < WORDS THEN "drq" ELSE "busy"]
    BY <2>2, <2>4 DEF Moved
  <2> QED  BY <1>4, <2>2, <2>5 DEF DriveState
<1>9. CASE cl[c].i < WORDS
  <2>1. cl' = [cl EXCEPT ![c] = [cl[c] EXCEPT !.i = cl[c].i + 1]]
    BY <1>2, <1>9 DEF NextWord, LastWord
  <2>2. cl[c].i + 1 \in 1 .. WORDS
    BY <1>4, <1>9, Sizes
  <2>3. /\ cl' \in [Clients -> ClientState]
        /\ cl'[c].pc = "data" /\ cl'[c].what = "write" /\ cl'[c].lba = cl[c].lba
        /\ cl'[c].i = cl[c].i + 1 /\ cl'[c].buf = cl[c].buf
    BY <1>1, <1>2, <2>1, <2>2 DEF Types, ClientState
  <2>4. Types'
    BY <1>1, <1>2, <1>8, <2>3 DEF Types
  <2>5. cl'[c].i - 1 = cl[c].i
    BY <1>4, <2>3
  <2>6. DataInv(c)'
    BY <1>2, <1>3, <1>7, <1>8, <1>9, <2>3, <2>5 DEF DataInv, AtWork
  <2>7. ClientInv(c)'
    BY <1>1, <1>3, <2>3, <2>6 DEF ClientInv, CallInv, SetupInv, CommandInv, StoreInv
  <2> QED  BY <1>2, <2>3, <2>4, <2>7, OneSuffices
<1>10. CASE ~(cl[c].i < WORDS)
  <2>1. cl' = [cl EXCEPT ![c] = [cl[c] EXCEPT !.i = 1, !.pc = "written"]]
    BY <1>2, <1>10 DEF NextWord, LastWord
  <2>2. "written" \in Labels /\ 1 \in 1 .. WORDS
    BY Sizes DEF Labels
  <2>3. /\ cl' \in [Clients -> ClientState]
        /\ cl'[c].pc = "written" /\ cl'[c].what = "write" /\ cl'[c].lba = cl[c].lba
        /\ cl'[c].i = 1 /\ cl'[c].buf = cl[c].buf
    BY <1>1, <1>2, <2>1, <2>2 DEF Types, ClientState
  <2>4. cl[c].i = WORDS
    BY <1>4, <1>10, Sizes
  <2>5. b = cl[c].buf
    <3>1. \A j \in 1 .. WORDS : b[j] = cl[c].buf[j]
      BY <1>7, <2>4, Sizes
    <3> QED  BY <1>4, <1>6, <3>1, SameWords
  <2>6. Types'
    BY <1>1, <1>2, <1>8, <2>3 DEF Types
  <2>7. ClientInv(c)'
    BY <1>2, <1>3, <1>8, <1>10, <2>3, <2>4, <2>5
       DEF ClientInv, CallInv, SetupInv, CommandInv, DataInv, StoreInv, AtWork
  <2> QED  BY <1>2, <1>8, <1>10, <2>3, <2>6, <2>7, OneSuffices
<1> QED  BY <1>9, <1>10

(* The drive finishes what it was doing.                                   *)
LEMMA DriveStep ==
  ASSUME OneClient, IInv, DriveWorks
  PROVE  IInv'
<1>1. PICK c \in Clients : TRUE
  BY DEF OneClient
<1>2. ClientInv(c) /\ Types /\ cl[c] \in ClientState /\ drive \in DriveState
  BY DEF IInv, Types
<1>3. drive.status = "busy" /\ cl' = cl
  BY DEF DriveWorks
<1>4. cl[c].pc \in {"accepted", "written", "flushed"}
  BY <1>2, <1>3 DEF ClientInv, SetupInv, CommandInv, DataInv, StoreInv, Quiet, ClientState, Labels
<1>5. cl[c].lba \in Lbas /\ cl[c].buf \in Sector /\ media[cl[c].lba] \in Sectors
  BY <1>2 DEF ClientState, Types
<1>6. CASE cl[c].pc = "accepted"
  <2>1. /\ cl[c].what \in {"read", "write"} /\ cache = Kept /\ drive.cmd = cl[c].what
        /\ drive.at = cl[c].lba /\ drive.w = 0
    BY <1>2, <1>6 DEF ClientInv, CallInv, CommandInv, AtWork
  <2>2. CASE cl[c].what = "read"
    <3>1. drive' = [drive EXCEPT !.status = "drq", !.buf = Content(drive.at)]
          /\ UNCHANGED <<media, cache>>
      BY <2>1, <2>2 DEF DriveWorks
    <3>2. Content(drive.at) = media[cl[c].lba]
      BY <2>1 DEF Content, Kept
    <3>3. /\ drive' \in DriveState /\ drive'.status = "drq" /\ drive'.buf = media[cl[c].lba]
          /\ drive'.w = 0 /\ drive'.cmd = drive.cmd /\ drive'.at = drive.at
      BY <1>2, <1>5, <2>1, <3>1, <3>2, SectorType DEF DriveState
    <3>4. Types'
      BY <1>2, <1>3, <3>1, <3>3 DEF Types
    <3>5. ClientInv(c)'
      BY <1>2, <1>3, <1>6, <2>1, <3>1, <3>3
         DEF ClientInv, CallInv, SetupInv, CommandInv, DataInv, StoreInv, AtWork
    <3> QED  BY <3>4, <3>5, OneSuffices
  <2>3. CASE cl[c].what = "write"
    <3>1. drive' = [drive EXCEPT !.status = "drq"] /\ UNCHANGED <<media, cache>>
      <4>1. drive.cmd = "write" /\ drive.w < WORDS
        BY <2>1, <2>3, Sizes
      <4>2. drive.cmd # "read" /\ drive.cmd # "flush" /\ drive.w # WORDS
        BY <4>1, <2>1, Sizes
      <4> QED  BY <4>1, <4>2 DEF DriveWorks
    <3>2. /\ drive' \in DriveState /\ drive'.status = "drq"
          /\ drive'.w = 0 /\ drive'.cmd = drive.cmd /\ drive'.at = drive.at
      BY <1>2, <2>1, <3>1 DEF DriveState
    <3>3. Types'
      BY <1>2, <1>3, <3>1, <3>2 DEF Types
    <3>4. ClientInv(c)'
      BY <1>2, <1>3, <1>6, <2>1, <2>3, <3>1, <3>2
         DEF ClientInv, CallInv, SetupInv, CommandInv, DataInv, StoreInv, AtWork
    <3> QED  BY <3>3, <3>4, OneSuffices
  <2> QED  BY <2>1, <2>2, <2>3
<1>7. CASE cl[c].pc = "written"
  <2>1. /\ cl[c].what = "write" /\ cl[c].buf \in Sectors /\ cache = Kept /\ drive.cmd = "write"
        /\ drive.at = cl[c].lba /\ drive.w = WORDS /\ drive.buf = cl[c].buf
    BY <1>2, <1>3, <1>7 DEF ClientInv, CallInv, StoreInv, AtWork
  <2>2. /\ drive' = [drive EXCEPT !.status = "ready"] /\ UNCHANGED media
        /\ cache' = [l \in DOMAIN cache \cup {drive.at} |->
                       IF l = drive.at THEN drive.buf ELSE cache[l]]
    BY <2>1, Sizes DEF DriveWorks
  <2>3. cache' = [l \in {cl[c].lba} |-> cl[c].buf]
    BY <2>1, <2>2 DEF Kept
  <2>4. drive' \in DriveState /\ drive'.status = "ready"
    BY <1>2, <2>2 DEF DriveState
  <2>5. Types'
    BY <1>2, <1>3, <2>2, <2>4 DEF Types
  <2>6. ClientInv(c)'
    BY <1>2, <1>3, <1>7, <2>1, <2>3, <2>4
       DEF ClientInv, CallInv, SetupInv, CommandInv, DataInv, StoreInv, OnTheWay
  <2> QED  BY <2>5, <2>6, OneSuffices
<1>8. CASE cl[c].pc = "flushed"
  <2>1. cl[c].what = "write" /\ cl[c].buf \in Sectors /\ drive.cmd = "flush" /\ OnTheWay(c)
    BY <1>2, <1>3, <1>8 DEF ClientInv, CallInv, StoreInv
  <2>2. /\ drive' = [drive EXCEPT !.status = "ready"]
        /\ media' = [l \in Lbas |-> Content(l)] /\ cache' = Kept
    BY <2>1 DEF DriveWorks
  <2>3. /\ Content(cl[c].lba) = cl[c].buf
        /\ \A l \in Lbas : Content(l) = media[l] \/ l = cl[c].lba
    BY <2>1 DEF OnTheWay, Content, Kept
  <2>4. media' \in [Lbas -> Sectors] /\ media'[cl[c].lba] = cl[c].buf
    BY <1>2, <1>5, <2>1, <2>2, <2>3 DEF Types
  <2>5. drive' \in DriveState /\ drive'.status = "ready"
    BY <1>2, <2>2 DEF DriveState
  <2>6. Types'
    BY <1>2, <1>3, <2>4, <2>5 DEF Types
  <2>7. ClientInv(c)'
    BY <1>2, <1>3, <1>8, <2>1, <2>2, <2>4, <2>5
       DEF ClientInv, CallInv, SetupInv, CommandInv, DataInv, StoreInv
  <2> QED  BY <2>6, <2>7, OneSuffices
<1> QED  BY <1>4, <1>6, <1>7, <1>8

(* The only cached sector is the one the call in progress writes, and      *)
(* storing it early keeps it on the way.                                   *)
LEMMA DestageStep ==
  ASSUME OneClient, IInv, Destage
  PROVE  IInv'
<1>1. PICK c \in Clients : TRUE
  BY DEF OneClient
<1>2. ClientInv(c) /\ Types /\ cl[c] \in ClientState /\ drive \in DriveState
  BY DEF IInv, Types
<1>3. PICK l \in DOMAIN cache : /\ media' = [media EXCEPT ![l] = cache[l]]
                                /\ cache' = [k \in DOMAIN cache \ {l} |-> cache[k]]
  BY DEF Destage
<1>4. cache # Kept /\ UNCHANGED <<drive, cl>>
  BY <1>3 DEF Destage, Kept
<1>5. /\ cl[c].pc \in {"written", "flush", "flushed"} /\ OnTheWay(c)
      /\ \/ drive.status = "ready"
         \/ drive.status = "busy" /\ drive.cmd = "flush" /\ cl[c].pc = "flushed"
  <2>1. cl[c].pc \in Labels
    BY <1>2 DEF ClientState
  <2>2. cl[c].pc \in {"written", "flush", "flushed"}
    BY <1>2, <1>4, <2>1 DEF ClientInv, SetupInv, CommandInv, DataInv, Quiet, AtWork, Labels
  <2>3. CASE cl[c].pc = "written"
    BY <1>2, <1>4, <2>3 DEF ClientInv, StoreInv, AtWork
  <2>4. CASE cl[c].pc = "flush"
    BY <1>2, <1>4, <2>4 DEF ClientInv, StoreInv, AtWork
  <2>5. CASE cl[c].pc = "flushed"
    BY <1>2, <1>4, <2>5 DEF ClientInv, StoreInv, AtWork
  <2> QED  BY <2>2, <2>3, <2>4, <2>5
<1>6. cache = [k \in {cl[c].lba} |-> cl[c].buf] /\ l = cl[c].lba /\ cache[l] = cl[c].buf
  BY <1>3, <1>4, <1>5 DEF OnTheWay
<1>7. cl[c].lba \in Lbas /\ cl[c].buf \in Sectors
  BY <1>2, <1>5 DEF ClientInv, CallInv, ClientState
<1>8. cache' = Kept
  BY <1>3, <1>6 DEF Kept
<1>9. media' \in [Lbas -> Sectors] /\ media'[cl[c].lba] = cl[c].buf
  BY <1>2, <1>3, <1>6, <1>7 DEF Types
<1>10. Types'
  BY <1>2, <1>4, <1>9 DEF Types
<1>11. ClientInv(c)'
  BY <1>2, <1>4, <1>5, <1>8, <1>9
     DEF ClientInv, CallInv, SetupInv, CommandInv, DataInv, StoreInv, OnTheWay
<1> QED  BY <1>10, <1>11, OneSuffices

(* After a power failure the machine is as it started, but for the platter. *)
LEMMA CrashStep == IInv /\ Crash => IInv'
<1> SUFFICES ASSUME IInv, Crash  PROVE IInv'  OBVIOUS
<1>1. /\ media' \in [Lbas -> Sectors] /\ cache' = Kept
      /\ drive' = NewDrive /\ cl' = NewClients
  BY DEF Crash, IInv, Types
<1>2. Types'
  BY <1>1, BlankSector, SectorType, Sizes DEF Types, NewDrive, NewClients, DriveState,
     ClientState, Labels, Lbas
<1>3. ASSUME NEW c \in Clients  PROVE ClientInv(c)'
  <2>1. /\ cl'[c].pc = "idle" /\ cl'[c].what = "none" /\ cl'[c].i = 1 /\ cl'[c].buf = Blank
        /\ drive'.status = "ready" /\ cache' = Kept
    BY <1>1 DEF NewClients, NewDrive
  <2> QED  BY <2>1, BlankSector DEF ClientInv, CallInv, SetupInv, CommandInv, DataInv, StoreInv,
           Quiet
<1> QED  BY <1>2, <1>3 DEF IInv

(* A step that changes nothing.                                            *)
LEMMA StutterStep == IInv /\ UNCHANGED vars => IInv'
<1> SUFFICES ASSUME IInv, UNCHANGED vars  PROVE IInv'  OBVIOUS
<1>1. media' = media /\ cache' = cache /\ drive' = drive /\ cl' = cl
  BY DEF vars
<1>2. Types'
  BY <1>1 DEF IInv, Types
<1>3. ASSUME NEW c \in Clients  PROVE ClientInv(c)'
  <2>1. ClientInv(c)  BY DEF IInv
  <2>2. CallInv(c)' /\ SetupInv(c)'
    BY <1>1, <2>1 DEF ClientInv, CallInv, SetupInv, Quiet
  <2>3. CommandInv(c)' /\ DataInv(c)'
    BY <1>1, <2>1 DEF ClientInv, CommandInv, DataInv, AtWork
  <2>4. StoreInv(c)'
    BY <1>1, <2>1 DEF ClientInv, StoreInv, AtWork, OnTheWay
  <2> QED  BY <2>2, <2>3, <2>4 DEF ClientInv
<1> QED  BY <1>2, <1>3 DEF IInv

(* Every step of the driver and of the drive keeps the invariant.          *)
LEMMA NextIInv ==
  ASSUME OneClient, IInv, [Next]_vars
  PROVE  IInv'
<1>1. CASE Crash  BY <1>1, CrashStep
<1>2. CASE DriveWorks  BY <1>2, DriveStep
<1>3. CASE Destage  BY <1>3, DestageStep
<1>4. ASSUME NEW c \in Clients, Request(c)  PROVE IInv'
  BY <1>4, RequestStep
<1>5. ASSUME NEW c \in Clients, Client(c)  PROVE IInv'
  BY <1>5, WaitStep, RegistersStep, CommandStep, ReadWordStep, WriteWordStep DEF Client
<1>6. CASE UNCHANGED vars  BY <1>6, StutterStep
<1> QED  BY <1>1, <1>2, <1>3, <1>4, <1>5, <1>6 DEF Next

(* The inductive invariant holds in every reachable state.                 *)
THEOREM DriverInvariant == OneClient /\ Spec => []IInv
<1> SUFFICES ASSUME OneClient  PROVE Spec => []IInv
  OBVIOUS
<1>1. Init => IInv
  BY InitIInv
<1>2. IInv /\ [Next]_vars => IInv'
  BY NextIInv
<1> QED  BY <1>1, <1>2, PTL DEF Spec

(* The registers hold bytes and the buffers whole sectors, always.         *)
THEOREM TypeCorrect == OneClient /\ Spec => []TypeOK
<1> SUFFICES ASSUME OneClient  PROVE Spec => []TypeOK
  OBVIOUS
<1>1. IInv => TypeOK
  <2> SUFFICES ASSUME IInv  PROVE TypeOK  OBVIOUS
  <2>1. Types  BY DEF IInv
  <2>2. media \in [Lbas -> [1 .. WORDS -> Words]]
    BY <2>1, SectorType DEF Types, Sector
  <2>3. \A l \in DOMAIN cache : l \in Lbas /\ cache[l] \in [1 .. WORDS -> Words]
    <3>1. PICK c \in Clients : TRUE
      BY DEF OneClient
    <3>2. cl[c].lba \in Lbas /\ cl[c].buf \in Sector /\ cl[c].pc \in Labels
      BY <2>1 DEF Types, ClientState
    <3>3. cache = Kept \/ cache = [l \in {cl[c].lba} |-> cl[c].buf]
      BY <3>2 DEF IInv, ClientInv, SetupInv, CommandInv, DataInv, StoreInv, Quiet, AtWork,
         OnTheWay, Labels
    <3> QED  BY <3>2, <3>3 DEF Kept, Sector
  <2> QED  BY <2>1, <2>2, <2>3 DEF TypeOK, Types, DriveState, ClientState, Sector
<1> QED  BY <1>1, DriverInvariant, PTL

(* Every outb to the command port finds the drive ready, and every word of *)
(* the loops over the data port finds DRQ and the command it belongs to.   *)
THEOREM NeverOutOfTurn == OneClient /\ Spec => []ProtocolKept
<1>1. IInv => ProtocolKept
  <2> SUFFICES ASSUME IInv, NEW c \in Clients
               PROVE  /\ cl[c].pc \in {"low", "mid", "command", "flush"} => drive.status = "ready"
                      /\ cl[c].pc = "data" => HasDrq /\ drive.cmd = cl[c].what /\ drive.w = cl[c].i - 1
    BY DEF ProtocolKept
  <2> QED  BY DEF IInv, ClientInv, SetupInv, DataInv, StoreInv, Quiet, AtWork, HasDrq
<1> QED  BY <1>1, DriverInvariant, PTL

-----------------------------------------------------------------------------
(* The refinement.                                                         *)

(* The call and the result that Store sees for a client.                   *)
CallOf(c) ==
  IF cl[c].pc = "idle" THEN [what |-> "idle"]
  ELSE IF cl[c].what = "read" THEN [what |-> "read", lba |-> cl[c].lba]
  ELSE IF AppliedTo(c) THEN [what |-> "applied"]
  ELSE [what |-> "write", lba |-> cl[c].lba, data |-> cl[c].buf]
ResultOf(c) == IF cl[c].pc = "idle" THEN cl[c].buf ELSE Blank

Calls   == [c \in Clients |-> CallOf(c)]
Results == [c \in Clients |-> ResultOf(c)]

(* Store's steps in these terms.                                           *)
LEMMA StoreVars ==
  /\ Store!vars = <<media, Calls, Results>>
  /\ UNCHANGED Store!vars <=> media' = media /\ Calls' = Calls /\ Results' = Results
<1>1. Store!vars = <<media, Calls, Results>>
  BY DEF Store!vars, Calls, CallOf, Results, ResultOf
<1>2. Store!vars' = <<media', Calls', Results'>>
  BY DEF Store!vars, Calls, CallOf, Results, ResultOf
<1> QED  BY <1>1, <1>2

(* A request of the store, in terms of the mapping.                        *)
LEMMA StoreRequest ==
  ASSUME NEW c \in Clients
  PROVE  Store!Request(c) <=>
           /\ Calls[c] = [what |-> "idle"]
           /\ \E l \in Lbas :
                \/ Calls' = [Calls EXCEPT ![c] = [what |-> "read", lba |-> l]]
                \/ \E s \in Sectors :
                     Calls' = [Calls EXCEPT ![c] = [what |-> "write", lba |-> l, data |-> s]]
           /\ \E s \in Sectors : Results' = [Results EXCEPT ![c] = s]
           /\ UNCHANGED media
BY DEF Store!Request, Store!NoCall, Store!ReadOf, Store!WriteOf, Store!Scribble,
   Calls, Results, CallOf, ResultOf

(* A write reaching the store, in terms of the mapping.                    *)
LEMMA StoreApply ==
  ASSUME NEW c \in Clients
  PROVE  Store!Apply(c) <=>
           /\ Calls[c].what = "write"
           /\ media' = [media EXCEPT ![Calls[c].lba] = Calls[c].data]
           /\ Calls' = [Calls EXCEPT ![c] = [what |-> "applied"]]
           /\ UNCHANGED Results
BY DEF Store!Apply, Store!Applied, Calls, Results, CallOf, ResultOf

(* A call of the store that returns, in terms of the mapping.              *)
LEMMA StoreReturn ==
  ASSUME NEW c \in Clients
  PROVE  Store!Return(c) <=>
           /\ \/ /\ Calls[c].what = "read"
                 /\ Results' = [Results EXCEPT ![c] = media[Calls[c].lba]]
              \/ /\ Calls[c] = [what |-> "applied"]
                 /\ \E s \in Sectors : Results' = [Results EXCEPT ![c] = s]
           /\ Calls' = [Calls EXCEPT ![c] = [what |-> "idle"]]
           /\ UNCHANGED media
BY DEF Store!Return, Store!Applied, Store!NoCall, Store!Scribble, Calls, Results, CallOf, ResultOf

(* A power failure of the store, in terms of the mapping.                  *)
LEMMA StoreCrash ==
  Store!Crash <=> /\ Calls' = [c \in Clients |-> [what |-> "idle"]]
                  /\ Results' \in [Clients -> Sectors]
                  /\ UNCHANGED media
BY DEF Store!Crash, Store!NoCall, Calls, Results, CallOf, ResultOf

(* With one client, its call and its result are all there is.              *)
LEMMA OneCall ==
  ASSUME OneClient, NEW c \in Clients
  PROVE  /\ Calls' = [Calls EXCEPT ![c] = CallOf(c)']
         /\ Results' = [Results EXCEPT ![c] = ResultOf(c)']
         /\ Calls[c] = CallOf(c) /\ Results[c] = ResultOf(c)
<1>1. \A d \in Clients : d = c
  BY Alone
<1>2. Calls[c] = CallOf(c) /\ Results[c] = ResultOf(c)
  BY DEF Calls, Results
<1>3. PICK x, y : x = CallOf(c)' /\ y = ResultOf(c)'
  OBVIOUS
<1>4. Calls' = [d \in Clients |-> x] /\ Results' = [d \in Clients |-> y]
  <2>1. \A d \in Clients : CallOf(d)' = x /\ ResultOf(d)' = y
    BY <1>1, <1>3
  <2> QED  BY <2>1 DEF Calls, Results
<1>5. [Calls EXCEPT ![c] = x] = [d \in Clients |-> x]
  BY <1>1 DEF Calls
<1>6. [Results EXCEPT ![c] = y] = [d \in Clients |-> y]
  BY <1>1 DEF Results
<1> QED  BY <1>2, <1>3, <1>4, <1>5, <1>6

(* The kinds of step the store takes, by what happens to the one call.     *)
LEMMA StoreStutters ==
  ASSUME OneClient, NEW c \in Clients, media' = media,
         CallOf(c)' = CallOf(c), ResultOf(c)' = ResultOf(c)
  PROVE  UNCHANGED Store!vars
<1>1. Calls' = Calls /\ Results' = Results
  BY OneCall DEF Calls, Results
<1> QED  BY <1>1, StoreVars

(* The one client calls.                                                   *)
LEMMA StoreRequests ==
  ASSUME OneClient, NEW c \in Clients, media' = media, CallOf(c) = [what |-> "idle"],
         NEW l \in Lbas, ResultOf(c)' \in Sectors,
         \/ CallOf(c)' = [what |-> "read", lba |-> l]
         \/ \E s \in Sectors : CallOf(c)' = [what |-> "write", lba |-> l, data |-> s]
  PROVE  Store!Next
<1>1. Store!Request(c)
  BY OneCall, StoreRequest
<1> QED  BY <1>1 DEF Store!Next

(* The write of the one client reaches the store.                          *)
LEMMA StoreApplies ==
  ASSUME OneClient, NEW c \in Clients, NEW l, NEW s,
         CallOf(c) = [what |-> "write", lba |-> l, data |-> s],
         CallOf(c)' = [what |-> "applied"],
         media' = [media EXCEPT ![l] = s], ResultOf(c)' = ResultOf(c)
  PROVE  Store!Next
<1>1. Results' = Results
  BY OneCall DEF Results
<1>2. Calls[c].what = "write" /\ Calls[c].lba = l /\ Calls[c].data = s
  <2>1. Calls[c] = CallOf(c)
    BY OneCall
  <2> QED  BY <2>1
<1>3. Calls' = [Calls EXCEPT ![c] = [what |-> "applied"]]
  BY OneCall
<1>4. Store!Apply(c)
  BY <1>1, <1>2, <1>3, StoreApply
<1> QED  BY <1>4 DEF Store!Next

(* The call of the one client returns.                                     *)
LEMMA StoreReturns ==
  ASSUME OneClient, NEW c \in Clients, media' = media, CallOf(c)' = [what |-> "idle"],
         \/ \E l \in Lbas : /\ CallOf(c) = [what |-> "read", lba |-> l]
                            /\ ResultOf(c)' = media[l]
         \/ CallOf(c) = [what |-> "applied"] /\ ResultOf(c)' \in Sectors
  PROVE  Store!Next
<1>1. Store!Return(c)
  BY OneCall, StoreReturn
<1> QED  BY <1>1 DEF Store!Next

(* A call of the driver is a call of the store.                            *)
LEMMA RequestRefines ==
  ASSUME OneClient, IInv, NEW c \in Clients, Request(c)
  PROVE  Store!Next
<1>1. PICK l \in Own[c] : \/ disk_read_sector(c, l)
                          \/ \E s \in Sectors : disk_write_sector(c, l, s)
  BY DEF Request
<1>2. l \in Lbas /\ media' = media /\ cl[c].pc = "idle" /\ cl \in [Clients -> ClientState]
  BY <1>1, AtaAssumption DEF disk_read_sector, disk_write_sector, IInv, Types
<1>3. CallOf(c) = [what |-> "idle"]
  BY <1>2 DEF CallOf
<1>4. CASE disk_read_sector(c, l)
  <2>1. cl'[c].pc = "wait" /\ cl'[c].what = "read" /\ cl'[c].lba = l
    BY <1>2, <1>4 DEF disk_read_sector, ClientState
  <2>2. CallOf(c)' = [what |-> "read", lba |-> l] /\ ResultOf(c)' = Blank
    BY <2>1 DEF CallOf, ResultOf
  <2> QED  BY <1>2, <1>3, <2>2, BlankSector, StoreRequests
<1>5. CASE \E s \in Sectors : disk_write_sector(c, l, s)
  <2>1. PICK s \in Sectors : disk_write_sector(c, l, s)
    BY <1>5
  <2>2. cl'[c].pc = "wait" /\ cl'[c].what = "write" /\ cl'[c].lba = l /\ cl'[c].buf = s
    BY <1>2, <2>1 DEF disk_write_sector, ClientState
  <2>3. CallOf(c)' = [what |-> "write", lba |-> l, data |-> s] /\ ResultOf(c)' = Blank
    BY <2>2 DEF CallOf, ResultOf, AppliedTo
  <2> QED  BY <1>2, <1>3, <2>3, BlankSector, StoreRequests
<1> QED  BY <1>1, <1>4, <1>5

(* Waiting, registers and commands do not show, but for the end of a       *)
(* write's flush: there the call returns.                                  *)
LEMMA GotoRefines ==
  ASSUME OneClient, IInv, NEW c \in Clients,
         \/ ata_wait_ready(c) \/ ata_wait_drq(c) \/ SetRegisters(c) \/ Command(c) \/ Flush(c)
  PROVE  [Store!Next]_Store!vars
<1>1. ClientInv(c) /\ Types /\ cl[c] \in ClientState /\ drive \in DriveState
  BY DEF IInv, Types
<1>2. media' = media /\ cache' = cache
  BY DEF ata_wait_ready, ata_wait_drq, SetRegisters, Command, Flush
<1>3. PICK l \in Labels, n \in Labels :
        /\ Goto(c, l, n)
        /\ \/ <<l, n>> \in {<<"wait", "low">>, <<"accepted", "drq">>, <<"drq", "data">>,
                            <<"low", "mid">>, <<"mid", "command">>, <<"command", "accepted">>}
           \/ l = "written" /\ n = "flush" /\ NotBusy /\ drive' = drive
           \/ l = "flush" /\ n = "flushed" /\ Accept("flush")
           \/ l = "flushed" /\ n = "idle" /\ NotBusy /\ drive' = drive
  BY DEF ata_wait_ready, ata_wait_drq, SetRegisters, Command, Flush, Labels
<1>4. /\ cl[c].pc = l /\ cl'[c].pc = n /\ cl'[c].what = cl[c].what /\ cl'[c].lba = cl[c].lba
      /\ cl'[c].buf = cl[c].buf
  BY <1>1, <1>3, GotoFacts
<1>5. CASE {l, n} \cap {"idle", "written", "flush", "flushed"} = {}
  <2>1. CallOf(c)' = CallOf(c) /\ ResultOf(c)' = ResultOf(c)
    <3>1. l \notin {"idle", "written", "flush", "flushed"} /\ n \notin {"idle", "written", "flush", "flushed"}
      BY <1>5
    <3> QED  BY <1>4, <3>1 DEF CallOf, ResultOf, AppliedTo
  <2> QED  BY <1>2, <2>1, StoreStutters
<1>6. CASE l = "written" /\ n = "flush" /\ NotBusy /\ drive' = drive
  <2>1. CallOf(c)' = CallOf(c) /\ ResultOf(c)' = ResultOf(c)
    BY <1>2, <1>4, <1>6 DEF CallOf, ResultOf, AppliedTo, NotBusy
  <2> QED  BY <1>2, <2>1, StoreStutters
<1>7. CASE l = "flush" /\ n = "flushed" /\ Accept("flush")
  <2>1. drive.status = "ready" /\ drive'.cmd = "flush"
    BY <1>1, <1>4, <1>7 DEF ClientInv, StoreInv, Accept, DriveState
  <2>2. CallOf(c)' = CallOf(c) /\ ResultOf(c)' = ResultOf(c)
    BY <1>2, <1>4, <1>7, <2>1 DEF CallOf, ResultOf, AppliedTo
  <2> QED  BY <1>2, <2>2, StoreStutters
<1>8. CASE l = "flushed" /\ n = "idle" /\ NotBusy /\ drive' = drive
  <2>1. /\ cl[c].what = "write" /\ cl[c].buf \in Sectors
        /\ drive.status = "ready" /\ cache = Kept
    BY <1>1, <1>4, <1>8 DEF ClientInv, CallInv, StoreInv, NotBusy
  <2>2. CallOf(c) = [what |-> "applied"]
    BY <1>4, <1>8, <2>1 DEF CallOf, AppliedTo
  <2>3. CallOf(c)' = [what |-> "idle"] /\ ResultOf(c)' = cl[c].buf
    BY <1>4, <1>8 DEF CallOf, ResultOf
  <2> QED  BY <1>2, <2>1, <2>2, <2>3, StoreReturns
<1> QED  BY <1>3, <1>5, <1>6, <1>7, <1>8

(* A read returns with its last word: the sector as it is on the platter.  *)
LEMMA WordRefines ==
  ASSUME OneClient, IInv, NEW c \in Clients, ReadWord(c) \/ WriteWord(c)
  PROVE  [Store!Next]_Store!vars
<1>1. media' = media /\ cl[c].pc = "data" /\ cl[c] \in ClientState
  BY DEF ReadWord, WriteWord, IInv, Types
<1>2. CASE ReadWord(c)
  <2>1. /\ cl[c].what = "read" /\ cl'[c].what = "read" /\ cl'[c].lba = cl[c].lba
        /\ \/ cl'[c].pc = "data"
           \/ cl'[c].pc = "idle" /\ cl'[c].buf = media[cl[c].lba]
    BY <1>2, ReadWordStep
  <2>2. CallOf(c) = [what |-> "read", lba |-> cl[c].lba] /\ ResultOf(c) = Blank
    BY <1>1, <2>1 DEF CallOf, ResultOf
  <2>3. CASE cl'[c].pc = "data"
    <3>1. CallOf(c)' = [what |-> "read", lba |-> cl[c].lba] /\ ResultOf(c)' = Blank
      BY <2>1, <2>3 DEF CallOf, ResultOf
    <3> QED  BY <1>1, <2>2, <3>1, StoreStutters
  <2>4. CASE cl'[c].pc = "idle" /\ cl'[c].buf = media[cl[c].lba]
    <3>1. CallOf(c)' = [what |-> "idle"] /\ ResultOf(c)' = media[cl[c].lba]
      BY <2>4 DEF CallOf, ResultOf
    <3>2. cl[c].lba \in Lbas
      BY <1>1 DEF ClientState
    <3> QED  BY <1>1, <2>2, <3>1, <3>2, StoreReturns
  <2> QED  BY <2>1, <2>3, <2>4
<1>3. CASE WriteWord(c)
  <2>1. /\ cl[c].what = "write" /\ cl'[c].what = "write" /\ cl'[c].lba = cl[c].lba
        /\ cl'[c].buf = cl[c].buf
        /\ \/ cl'[c].pc = "data"
           \/ cl'[c].pc = "written" /\ drive'.status = "busy" /\ drive'.cmd = "write"
    BY <1>3, WriteWordStep
  <2>2. /\ CallOf(c) = [what |-> "write", lba |-> cl[c].lba, data |-> cl[c].buf]
        /\ ResultOf(c) = Blank
    BY <1>1, <2>1 DEF CallOf, ResultOf, AppliedTo
  <2>3. /\ CallOf(c)' = [what |-> "write", lba |-> cl[c].lba, data |-> cl[c].buf]
        /\ ResultOf(c)' = Blank
    BY <2>1 DEF CallOf, ResultOf, AppliedTo
  <2> QED  BY <1>1, <2>2, <2>3, StoreStutters
<1> QED  BY <1>2, <1>3

(* A written sector reaches the store when it reaches the platter.         *)
LEMMA DriveRefines ==
  ASSUME OneClient, IInv, DriveWorks
  PROVE  [Store!Next]_Store!vars
<1>1. PICK c \in Clients : TRUE
  BY DEF OneClient
<1>2. ClientInv(c) /\ Types /\ cl[c] \in ClientState /\ drive \in DriveState
  BY DEF IInv, Types
<1>3. drive.status = "busy" /\ cl' = cl
  BY DEF DriveWorks
<1>4. cl[c].pc \in {"accepted", "written", "flushed"}
  BY <1>2, <1>3 DEF ClientInv, SetupInv, CommandInv, DataInv, StoreInv, Quiet, ClientState, Labels
<1>5. ResultOf(c) = Blank /\ ResultOf(c)' = Blank
  BY <1>3, <1>4 DEF ResultOf
<1>6. CASE cl[c].pc = "accepted"
  <2>1. drive.cmd \in {"read", "write"} /\ drive.w = 0
    BY <1>2, <1>6 DEF ClientInv, CallInv, CommandInv, AtWork
  <2>2. media' = media
    <3>1. drive.w # WORDS /\ drive.cmd # "flush"
      BY <2>1, Sizes
    <3> QED  BY <2>1, <3>1, Sizes DEF DriveWorks
  <2>3. CallOf(c)' = CallOf(c)
    BY <1>3, <1>6 DEF CallOf, AppliedTo
  <2> QED  BY <1>5, <2>2, <2>3, StoreStutters
<1>7. CASE cl[c].pc = "written"
  <2>1. /\ cl[c].what = "write" /\ cache = Kept /\ drive.cmd = "write"
        /\ drive.at = cl[c].lba /\ drive.w = WORDS
    BY <1>2, <1>3, <1>7 DEF ClientInv, CallInv, StoreInv, AtWork
  <2>2. /\ media' = media
        /\ cache' = [l \in DOMAIN cache \cup {drive.at} |->
                       IF l = drive.at THEN drive.buf ELSE cache[l]]
    BY <2>1, Sizes DEF DriveWorks
  <2>3. cache' # Kept
    BY <2>2 DEF Kept
  <2>4. CallOf(c)' = CallOf(c)
    BY <1>3, <1>7, <2>1, <2>3 DEF CallOf, AppliedTo
  <2> QED  BY <1>5, <2>2, <2>4, StoreStutters
<1>8. CASE cl[c].pc = "flushed"
  <2>1. cl[c].what = "write" /\ drive.cmd = "flush" /\ OnTheWay(c) /\ cl[c].lba \in Lbas
    BY <1>2, <1>3, <1>8 DEF ClientInv, CallInv, StoreInv, ClientState
  <2>2. /\ drive' = [drive EXCEPT !.status = "ready"]
        /\ media' = [l \in Lbas |-> Content(l)] /\ cache' = Kept
    BY <2>1 DEF DriveWorks
  <2>3. drive'.status = "ready"
    BY <1>2, <2>2 DEF DriveState
  <2>4. CallOf(c)' = [what |-> "applied"]
    BY <1>3, <1>8, <2>1, <2>2, <2>3 DEF CallOf, AppliedTo
  <2>5. CASE cache = Kept
    <3>1. CallOf(c) = [what |-> "applied"]
      BY <1>8, <2>1, <2>5 DEF CallOf, AppliedTo
    <3>2. media' = media
      BY <1>2, <2>2, <2>5 DEF Content, Kept, Types
    <3> QED  BY <1>5, <2>4, <3>1, <3>2, StoreStutters
  <2>6. CASE cache # Kept
    <3>1. CallOf(c) = [what |-> "write", lba |-> cl[c].lba, data |-> cl[c].buf]
      BY <1>8, <2>1, <2>6 DEF CallOf, AppliedTo
    <3>2. cache = [l \in {cl[c].lba} |-> cl[c].buf]
      BY <2>1, <2>6 DEF OnTheWay
    <3>3. \A l \in Lbas : Content(l) = IF l = cl[c].lba THEN cl[c].buf ELSE media[l]
      BY <3>2 DEF Content
    <3>4. media' = [media EXCEPT ![cl[c].lba] = cl[c].buf]
      BY <1>2, <2>2, <3>3 DEF Types
    <3> QED  BY <1>5, <2>4, <3>1, <3>4, StoreApplies
  <2> QED  BY <2>5, <2>6
<1> QED  BY <1>4, <1>6, <1>7, <1>8

(* The drive writing its cache out is the write reaching the store.        *)
LEMMA DestageRefines ==
  ASSUME OneClient, IInv, Destage
  PROVE  Store!Next
<1>1. PICK c \in Clients : TRUE
  BY DEF OneClient
<1>2. ClientInv(c) /\ cl[c] \in ClientState
  BY DEF IInv, Types
<1>3. PICK l \in DOMAIN cache : /\ media' = [media EXCEPT ![l] = cache[l]]
                                /\ cache' = [k \in DOMAIN cache \ {l} |-> cache[k]]
  BY DEF Destage
<1>4. cache # Kept /\ drive' = drive /\ cl' = cl
  BY <1>3 DEF Destage, Kept
<1>5. cl[c].pc \in {"written", "flush", "flushed"}
  BY <1>2, <1>4 DEF ClientInv, SetupInv, CommandInv, DataInv, Quiet, AtWork, ClientState, Labels
<1>6. /\ cl[c].what = "write" /\ OnTheWay(c)
      /\ ~(drive.status = "busy" /\ drive.cmd = "write")
  <2>1. CASE cl[c].pc = "written"
    BY <1>2, <1>4, <2>1 DEF ClientInv, CallInv, StoreInv, AtWork
  <2>2. CASE cl[c].pc = "flush"
    BY <1>2, <1>4, <2>2 DEF ClientInv, CallInv, StoreInv, AtWork
  <2>3. CASE cl[c].pc = "flushed"
    BY <1>2, <1>4, <2>3 DEF ClientInv, CallInv, StoreInv, AtWork
  <2> QED  BY <1>5, <2>1, <2>2, <2>3
<1>7. cache = [k \in {cl[c].lba} |-> cl[c].buf] /\ l = cl[c].lba /\ cache[l] = cl[c].buf
  BY <1>3, <1>4, <1>6 DEF OnTheWay
<1>8. cache' = Kept
  BY <1>3, <1>7 DEF Kept
<1>9. CallOf(c) = [what |-> "write", lba |-> cl[c].lba, data |-> cl[c].buf]
  BY <1>4, <1>5, <1>6 DEF CallOf, AppliedTo
<1>10. CallOf(c)' = [what |-> "applied"]
  BY <1>4, <1>5, <1>6, <1>8 DEF CallOf, AppliedTo
<1>11. ResultOf(c)' = ResultOf(c)
  BY <1>4 DEF ResultOf
<1>12. media' = [media EXCEPT ![cl[c].lba] = cl[c].buf]
  BY <1>3, <1>7
<1> QED  BY <1>9, <1>10, <1>11, <1>12, StoreApplies

(* A power failure takes the calls and leaves the sectors.                 *)
LEMMA CrashRefines == Crash => Store!Next
<1> SUFFICES ASSUME Crash  PROVE Store!Next  OBVIOUS
<1>1. media' = media /\ cl' = NewClients
  BY DEF Crash
<1>2. \A c \in Clients : CallOf(c)' = [what |-> "idle"] /\ ResultOf(c)' = Blank
  BY <1>1 DEF CallOf, ResultOf, NewClients
<1>3. /\ Calls' = [c \in Clients |-> [what |-> "idle"]]
      /\ Results' \in [Clients -> Sectors]
  BY <1>2, BlankSector DEF Calls, Results
<1> QED  BY <1>1, <1>3, StoreCrash DEF Store!Next

(* The driver and the drive implement the store of whole, durable sectors  *)
(* that kernel/fs.c expects: a sector is written as a whole at one moment  *)
(* of disk_write_sector, has survived every power failure once the call    *)
(* returned, and disk_read_sector returns the sector that is there.        *)
THEOREM DriverIsStore == OneClient /\ Spec => ImplementsSectorStore
<1> SUFFICES ASSUME OneClient  PROVE Spec => ImplementsSectorStore
  OBVIOUS
<1>1. Init => Store!Init
  <2> SUFFICES ASSUME Init  PROVE Store!Init  OBVIOUS
  <2>1. \A c \in Clients : cl[c].pc = "idle" /\ cl[c].buf = Blank
    BY DEF Init, NewClients
  <2>2. media \in [Lbas -> Sectors]
    BY BlankSector DEF Init
  <2> QED  BY <2>1, <2>2, BlankSector DEF Store!Init, Store!NoCall
<1>2. IInv /\ [Next]_vars => [Store!Next]_Store!vars
  <2> SUFFICES ASSUME IInv, [Next]_vars  PROVE [Store!Next]_Store!vars
    OBVIOUS
  <2>1. CASE Crash  BY <2>1, CrashRefines
  <2>2. CASE DriveWorks  BY <2>2, DriveRefines
  <2>3. CASE Destage  BY <2>3, DestageRefines
  <2>4. ASSUME NEW c \in Clients, Request(c)  PROVE [Store!Next]_Store!vars
    BY <2>4, RequestRefines
  <2>5. ASSUME NEW c \in Clients, Client(c)  PROVE [Store!Next]_Store!vars
    BY <2>5, GotoRefines, WordRefines DEF Client
  <2>6. CASE UNCHANGED vars
    <3>1. media' = media /\ cache' = cache /\ drive' = drive /\ cl' = cl
      BY <2>6 DEF vars
    <3>2. Calls' = Calls /\ Results' = Results
      BY <3>1 DEF Calls, Results, CallOf, ResultOf, AppliedTo
    <3> QED  BY <3>1, <3>2, StoreVars
  <2> QED  BY <2>1, <2>2, <2>3, <2>4, <2>5, <2>6 DEF Next
<1> QED  BY <1>1, <1>2, DriverInvariant, PTL DEF Spec, ImplementsSectorStore, Store!Spec
=============================================================================
