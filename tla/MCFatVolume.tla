----------------------------- MODULE MCFatVolume -----------------------------
(* TLC instances of FatVolume and FatStore.  With two bytes to a sector    *)
(* the payloads are nothing, part of a sector, and more than a sector.     *)
EXTENDS FatStore

FilePayloads == {<<>>, <<1>>, <<1, 2, 1>>}
DirPayloads  == {<<1, 2, 1>>}

NamesAlike == Permutations(Names)

(* Up to the mount that follows a power failure, and no further.           *)
UntilMounted == crashes > 0 => op # Idle
=============================================================================
