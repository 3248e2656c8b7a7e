------------------------------ MODULE CharQueue ------------------------------
(* What the keyboard driver promises the shell: a bounded first-in         *)
(* first-out queue of characters, which loses a character only when it is  *)
(* full.                                                                   *)
EXTENDS Naturals, Sequences

CONSTANTS
  Chars,     \* the characters
  NoChar,    \* no character has been returned yet
  Capacity   \* how many characters may wait

VARIABLES
  queue,  \* the characters that wait, oldest first
  got,    \* the character that the last call of keyboard_getchar returned
  lost    \* a character has been dropped

Init == queue = <<>> /\ got = NoChar /\ lost = FALSE

Put == \E c \in Chars :
  /\ Len(queue) < Capacity
  /\ queue' = Append(queue, c)
  /\ UNCHANGED <<got, lost>>

Drop ==
  /\ Len(queue) = Capacity
  /\ lost' = TRUE
  /\ UNCHANGED <<queue, got>>

Get ==
  /\ queue # <<>>
  /\ got' = Head(queue)
  /\ queue' = Tail(queue)
  /\ UNCHANGED lost

Spec == Init /\ [][Put \/ Drop \/ Get]_<<queue, got, lost>>
=============================================================================
