------------------------------ MODULE MCKeyboard ------------------------------
(* An instance of Keyboard for TLC: one key of each kind.                  *)
EXTENDS Keyboard
=============================================================================
