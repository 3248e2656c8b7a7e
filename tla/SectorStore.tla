----------------------------- MODULE SectorStore -----------------------------
(***************************************************************************)
(* What kernel/fs.c expects of kernel/disk.c: a sector is written as a     *)
(* whole at one moment of the call and stays written, through power        *)
(* failures too; reading returns the sector as it is.                      *)
(***************************************************************************)
CONSTANTS Clients, Lbas, Sectors

VARIABLES store, call, result

vars == <<store, call, result>>

NoCall == [what |-> "idle"]
ReadOf(l) == [what |-> "read", lba |-> l]
WriteOf(l, s) == [what |-> "write", lba |-> l, data |-> s]
Applied == [what |-> "applied"]

Init ==
  /\ store \in [Lbas -> Sectors]
  /\ call = [c \in Clients |-> NoCall]
  /\ result \in [Clients -> Sectors]

(* What is in the buffer of a call that is not a finished read.            *)
Scribble(c) == \E s \in Sectors : result' = [result EXCEPT ![c] = s]

Request(c) ==
  /\ call[c] = NoCall
  /\ \E l \in Lbas : \/ call' = [call EXCEPT ![c] = ReadOf(l)]
                     \/ \E s \in Sectors : call' = [call EXCEPT ![c] = WriteOf(l, s)]
  /\ Scribble(c) /\ UNCHANGED store

Apply(c) ==
  /\ call[c].what = "write"
  /\ store' = [store EXCEPT ![call[c].lba] = call[c].data]
  /\ call' = [call EXCEPT ![c] = Applied]
  /\ UNCHANGED result

Return(c) ==
  /\ \/ call[c].what = "read" /\ result' = [result EXCEPT ![c] = store[call[c].lba]]
     \/ call[c] = Applied /\ Scribble(c)
  /\ call' = [call EXCEPT ![c] = NoCall]
  /\ UNCHANGED store

(* Power fails: the calls are gone, the sectors are not.                   *)
Crash ==
  /\ call' = [c \in Clients |-> NoCall]
  /\ result' \in [Clients -> Sectors]
  /\ UNCHANGED store

Next == Crash \/ \E c \in Clients : Request(c) \/ Apply(c) \/ Return(c)

Spec == Init /\ [][Next]_vars
=============================================================================
