---------------------------- MODULE MCHeapBlocks ----------------------------
(***************************************************************************)
(* HeapBlocks on a heap of 30 bytes.                                       *)
(***************************************************************************)
EXTENDS HeapBlocks

MCRequests == {2, 3, 5, 8}
=============================================================================
