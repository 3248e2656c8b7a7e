------------------------------ MODULE MCAtaDisk ------------------------------
(* Two-word sectors, some of which share a word.                           *)
EXTENDS AtaDisk

TwoWords == {<<0, 0>>, <<1, 0>>, <<1, 1>>}
AllSectors == [c \in Clients |-> {0, 1, 2}]
=============================================================================
