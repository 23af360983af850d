------------------------------- MODULE MCHeap -------------------------------
(***************************************************************************)
(* Heap in a memory of 64 bytes: bytes hold 0..7, words 0..63.             *)
(***************************************************************************)
EXTENDS Heap, TLC

CONSTANTS o1, o2

MCOwners == {o1, o2}
MCMark == o1 :> 5 @@ o2 :> 6
MCMemory == [a \in 0 .. 63 |-> (3 * a + a \div 8 + 2) % 8]

\* Lengths the runtime's own callers ask for.
MCRequests == {2, 3, 6}
\* With a block of a single byte, which calloc.asm provides for.
MCRequestsFromOne == {1, 2, 6}

\* Between calls nothing depends on the bytes of a free block behind its two
\* header words, nor on those of a held block behind what its owner stored:
\* states that differ only there are explored once.
View ==
  IF pc # "idle" THEN <<mem, registers, callers>>
  ELSE <<ListedBlocks,
         [o \in Owners |-> IF ptr[o] = 0 THEN <<>>
                           ELSE [i \in 0 .. intact[o] + 1 |-> mem[ptr[o] - 2 + i]]],
         callers>>
=============================================================================
