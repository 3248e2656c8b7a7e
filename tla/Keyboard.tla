------------------------------ MODULE Keyboard ------------------------------
(***************************************************************************)
(* The keyboard driver of kernel/keyboard.c: the interrupt handler turns   *)
(* scancodes into characters and pushes them into a ring buffer, from      *)
(* which the shell takes them in keyboard_getchar.                         *)
(*                                                                         *)
(* The handler runs with interrupts off and is one action.  The shell can  *)
(* be interrupted between any two of the accesses of keyboard_getchar, in  *)
(* particular between its test of the buffer and its hlt.  The keyboard    *)
(* itself (which keys are down, the scancodes on their way) is external.   *)
(***************************************************************************)
EXTENDS Integers, Sequences

CONSTANTS
  KEYBOARD_BUFFER_SIZE,
  Letters,    \* keys for which is_letter holds
  Symbols,    \* keys with a character that is no letter
  Dead,       \* keys that both maps translate to 0
  NoChar,     \* what an unused buffer cell holds
  MaxWire     \* bound on the scancodes the controller holds back

(* An entry of keyboard_map is a character or 0, not both.                 *)
ASSUME KeyboardAssumption ==
  /\ KEYBOARD_BUFFER_SIZE \in Nat /\ KEYBOARD_BUFFER_SIZE >= 2
  /\ MaxWire \in Nat
  /\ Dead \cap (Letters \cup Symbols) = {}

VARIABLES
  keyboard_buffer, buffer_read, buffer_write,
  shift_pressed, capslock_on,
  pc,    \* where keyboard_getchar stands
  c,     \* its local
  got,   \* history: what its last call returned
  lost,  \* history: keyboard_push has dropped a character
  held,  \* the shift keys that are down
  wire   \* scancodes that the handler has not read yet

ring == <<keyboard_buffer, buffer_read, buffer_write>>
vars == <<ring, shift_pressed, capslock_on, pc, c, got, lost, held, wire>>

N == KEYBOARD_BUFFER_SIZE
Keys == Letters \cup Symbols \cup Dead
Shifts == {"LSHIFT", "RSHIFT"}

(* A scancode: a key goes down or up.                                      *)
Scancode == [key : Keys \cup Shifts \cup {"CAPSLOCK"}, up : BOOLEAN]

(* The two tables: keyboard_map[k] and keyboard_map_shift[k].              *)
Chars == [key : Letters \cup Symbols, shifted : BOOLEAN]
keyboard_map(k, shifted) ==
  IF k \in Dead THEN NoChar ELSE [key |-> k, shifted |-> shifted]

-----------------------------------------------------------------------------
Init ==
  /\ keyboard_buffer = [i \in 0 .. N - 1 |-> NoChar]
  /\ buffer_read = 0 /\ buffer_write = 0
  /\ shift_pressed = FALSE /\ capslock_on = FALSE
  /\ pc = "test" /\ c = NoChar
  /\ got = NoChar /\ lost = FALSE
  /\ held = {} /\ wire = <<>>

(* The user presses or releases a key (external).                          *)
Type ==
  /\ Len(wire) < MaxWire
  /\ \E s \in Scancode :
       /\ s.key \in Shifts => (s.up <=> s.key \in held)
       /\ held' = IF s.key \notin Shifts THEN held
                  ELSE IF s.up THEN held \ {s.key} ELSE held \cup {s.key}
       /\ wire' = Append(wire, s)
  /\ UNCHANGED <<ring, shift_pressed, capslock_on, pc, c, got, lost>>

(* Any interrupt ends the hlt that the shell is in.                        *)
Woken == IF pc = "halted" THEN "test" ELSE pc

-----------------------------------------------------------------------------
(* keyboard_handler.                                                       *)

(* The head of wire has been read; EOI lets the next one through.          *)
Read(s) == wire # <<>> /\ s = Head(wire) /\ wire' = Tail(wire) /\ pc' = Woken

ShiftDown(s) ==
  /\ s.key \in Shifts /\ ~s.up
  /\ shift_pressed' = TRUE
  /\ UNCHANGED <<ring, capslock_on, lost>>

(* Variant: the release of the right shift key is not recognised.          *)
ShiftUp_LeftOnly(s) ==
  /\ s.key \in Shifts /\ s.up
  /\ shift_pressed' = (shift_pressed /\ s.key # "LSHIFT")
  /\ UNCHANGED <<ring, capslock_on, lost>>

ShiftUp(s) ==
  /\ s.key \in Shifts /\ s.up
  /\ shift_pressed' = FALSE
  /\ UNCHANGED <<ring, capslock_on, lost>>

CapsLock(s) ==
  /\ s.key = "CAPSLOCK" /\ ~s.up
  /\ capslock_on' = ~capslock_on
  /\ UNCHANGED <<ring, shift_pressed, lost>>

KeyUp(s) ==
  /\ s.key \notin Shifts /\ s.up
  /\ UNCHANGED <<ring, shift_pressed, capslock_on, lost>>

(* Capslock inverts shift for letters, and for letters only.               *)
Translate(k) ==
  keyboard_map(k, IF capslock_on /\ k \in Letters THEN ~shift_pressed
                                                  ELSE shift_pressed)

(* Variant: no cell is kept free to tell a full buffer from an empty one.  *)
keyboard_push_Overruns(ch) ==
  /\ keyboard_buffer' = [keyboard_buffer EXCEPT ![buffer_write] = ch]
  /\ buffer_write' = (buffer_write + 1) % N
  /\ UNCHANGED <<buffer_read, lost>>

keyboard_push(ch) ==
  LET after == (buffer_write + 1) % N IN
  IF after # buffer_read
  THEN /\ keyboard_buffer' = [keyboard_buffer EXCEPT ![buffer_write] = ch]
       /\ buffer_write' = after
       /\ UNCHANGED <<buffer_read, lost>>
  ELSE lost' = TRUE /\ UNCHANGED ring

KeyDown(s) ==
  /\ s.key \in Letters \cup Symbols /\ ~s.up
  /\ keyboard_push(Translate(s.key))
  /\ UNCHANGED <<shift_pressed, capslock_on>>

KeyDownDead(s) ==
  /\ s.key \in Dead /\ ~s.up
  /\ UNCHANGED <<ring, shift_pressed, capslock_on, lost>>

keyboard_handler ==
  \E s \in Scancode :
    /\ Read(s)
    /\ \/ ShiftDown(s) \/ ShiftUp(s) \/ CapsLock(s) \/ KeyUp(s)
       \/ KeyDown(s) \/ KeyDownDead(s)
    /\ UNCHANGED <<c, got, held>>

(* Variant: no timer interrupt reaches a halted shell.                     *)
Tick_Masked == FALSE

(* The timer interrupt, as far as keyboard_getchar sees it.                *)
Tick ==
  /\ pc = "halted"
  /\ pc' = "test"
  /\ UNCHANGED <<ring, shift_pressed, capslock_on, c, got, lost, held, wire>>

-----------------------------------------------------------------------------
(* keyboard_getchar, access by access.                                     *)
Others == <<shift_pressed, capslock_on, lost, held, wire>>

TestEmpty ==
  /\ pc = "test" /\ buffer_read = buffer_write
  /\ pc' = "hlt"
  /\ UNCHANGED <<ring, c, got, Others>>

Hlt ==
  /\ pc = "hlt"
  /\ pc' = "halted"
  /\ UNCHANGED <<ring, c, got, Others>>

TestReady ==
  /\ pc = "test" /\ buffer_read # buffer_write
  /\ pc' = "fetch"
  /\ UNCHANGED <<ring, c, got, Others>>

Fetch ==
  /\ pc = "fetch"
  /\ c' = keyboard_buffer[buffer_read]
  /\ pc' = "advance"
  /\ UNCHANGED <<ring, got, Others>>

(* buffer_read moves on and the shell calls again for the next character.  *)
Advance ==
  /\ pc = "advance"
  /\ buffer_read' = (buffer_read + 1) % N
  /\ got' = c /\ c' = NoChar
  /\ pc' = "test"
  /\ UNCHANGED <<keyboard_buffer, buffer_write, Others>>

keyboard_getchar == TestEmpty \/ Hlt \/ TestReady \/ Fetch \/ Advance

Next == Type \/ keyboard_handler \/ Tick \/ keyboard_getchar

Spec == Init /\ [][Next]_vars

(* The shell is scheduled again and again (EveryTaskRuns of Tasks) and the *)
(* timer keeps ticking; nothing is assumed of the user.                    *)
FairSpec == Spec /\ WF_vars(Tick) /\ WF_vars(keyboard_getchar)

-----------------------------------------------------------------------------
(* The indices stay in the ring and the flags are flags.                   *)
TypeOK ==
  /\ keyboard_buffer \in [0 .. N - 1 -> Chars \cup {NoChar}]
  /\ buffer_read \in 0 .. N - 1 /\ buffer_write \in 0 .. N - 1
  /\ shift_pressed \in BOOLEAN /\ capslock_on \in BOOLEAN
  /\ pc \in {"test", "hlt", "halted", "fetch", "advance"}
  /\ c \in Chars \cup {NoChar} /\ got \in Chars \cup {NoChar}
  /\ lost \in BOOLEAN
  /\ held \subseteq Shifts
  /\ wire \in Seq(Scancode) /\ Len(wire) <= MaxWire

(* The characters in the buffer, oldest first.                             *)
Waiting ==
  [i \in 1 .. (buffer_write - buffer_read + N) % N |->
     keyboard_buffer[(buffer_read + i - 1) % N]]

CQ == INSTANCE CharQueue WITH Capacity <- N - 1, queue <- Waiting

(* The ring buffer, pushed to by the handler between any two accesses of   *)
(* keyboard_getchar, is a first-in first-out queue that holds N - 1        *)
(* characters and drops one only when it is full.                          *)
ImplementsCharQueue == CQ!Spec

(* Once no shift key is down and the handler has seen every scancode,      *)
(* shift is off, whichever of the two keys were down together before.      *)
ShiftNotStuck == held = {} /\ wire = <<>> => ~shift_pressed

(* A character in the buffer reaches the shell, also when the interrupt    *)
(* that brought it came between the test of the buffer and hlt.            *)
CharactersArrive == (buffer_read # buffer_write) ~> (pc = "advance")
=============================================================================
