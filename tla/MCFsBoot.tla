------------------------------- MODULE MCFsBoot -------------------------------
(* TLC instance of FsBoot: one payload that fits in a sector.              *)
EXTENDS FsBoot

OneByte == {<<1>>}
=============================================================================
