-------------------------------- MODULE MCBoot --------------------------------
(* The real sizes for loading, with counts around the chunk and the 64 KB  *)
(* boundary; maps, in KB, with entries below and around the heap, up to    *)
(* and across the 32-bit limit, above it, and an answer of size 0, in any  *)
(* order, and with more entries than there is room for.                    *)
EXTENDS Boot, SequencesExt

SomeCounts == {0, 33, 129, 255}

Region(b, l, t) == [base |-> b, length |-> l, type |-> t, size |-> 24]
FourGB == 4194304
Small == Region(0, 330, 1)
Large == Region(0, 639, 1)
Empty == [Large EXCEPT !.size = 0]
Regions == {Small, Region(1, FourGB - 1, 1), Region(1, FourGB + 399, 1), Region(256, 400, 2),
            Region(FourGB + 100, 300, 1), Empty}
SomeMaps == SeqOf(Regions, 2) \cup {<<Small, Small, Large>>, <<Empty, Small, Large>>}
=============================================================================
