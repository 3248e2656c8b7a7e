------------------------------- MODULE MCHeap -------------------------------
(* TLC instance of Heap: a heap a few blocks long with the real header     *)
(* size and alignment, and requests that split, fill and exhaust it.       *)
EXTENDS Heap
=============================================================================
