----------------------------- MODULE HeapBlocks -----------------------------
(***************************************************************************)
(* The heap of the ZX BASIC runtime at the level of blocks: an             *)
(* address-ordered list of free blocks, first fit, allocation from the     *)
(* tail of the block found, and joining of neighbours on release           *)
(* (heapinit.asm, alloc.asm, free.asm).  One action per routine: the walk  *)
(* over the list and the bytes it touches are in Heap, which implements    *)
(* this module; this module implements Allocator.                          *)
(***************************************************************************)
EXTENDS Integers

CONSTANTS HeapStart,   \* ZXBASIC_MEM_HEAP
          HeapSize,    \* ZXBASIC_HEAP_SIZE, the 4-byte dummy header included
          Requests,    \* the lengths callers ask for (register BC)
          NoRequest    \* no call of MEM_ALLOC is in progress

\* The dummy header takes 4 bytes and the first block has a header of 4.  The
\* runtime's callers ask for 2 bytes at least: a string carries its length.
ASSUME HeapAssumption ==
  /\ HeapStart \in Nat
  /\ HeapSize \in Nat /\ HeapSize >= 8
  /\ Requests \subseteq Nat
  /\ \A n \in Requests : n >= 2
  /\ NoRequest \notin Nat

VARIABLES free,        \* the blocks of the free list, the dummy header left out
          used,        \* the blocks handed out
          want         \* the length asked for by the call in progress

vars == <<free, used, want>>

Arena == HeapStart + 4 .. HeapStart + HeapSize - 1
Block == [at : Nat, size : Nat]
Bytes(b) == b.at .. b.at + b.size - 1
End(b) == b.at + b.size
Need == want + 2
ThreeBytes == 3                                             \* mutant of MinBlock
MinBlock == 4          \* a free block holds its length and the next pointer

-----------------------------------------------------------------------------
\* __MEM_INIT2: a single free block behind the dummy header.
Init ==
  /\ free = {[at |-> HeapStart + 4, size |-> HeapSize - 4]}
  /\ used = {}
  /\ want = NoRequest

Ask(n) ==
  /\ want = NoRequest
  /\ want' = n
  /\ UNCHANGED <<free, used>>

\* __MEM_LOOP stops at b: the first block of the list with FREE >= BC.
FirstFit(b) ==
  /\ b \in free
  /\ b.size >= Need
  /\ \A c \in free : c.size >= Need => b.at <= c.at

TakeTrimmed(b) ==                                           \* mutant of TakeWhole
  /\ FirstFit(b)
  /\ b.size - Need < MinBlock
  /\ free' = free \ {b}
  /\ used' = used \cup {[at |-> b.at, size |-> Need]}

\* Less than 4 bytes would remain: the whole block is unlinked.
TakeWhole(b) ==
  /\ FirstFit(b)
  /\ b.size - Need < MinBlock
  /\ free' = free \ {b}
  /\ used' = used \cup {b}

TakeUnshrunk(b) ==                                          \* mutant of TakeTail
  /\ FirstFit(b)
  /\ b.size - Need >= MinBlock
  /\ free' = free
  /\ used' = used \cup {[at |-> End(b) - Need, size |-> Need]}

TakeSwapped(b) ==                                           \* mutant of TakeTail
  /\ FirstFit(b)
  /\ b.size - Need >= MinBlock
  /\ free' = (free \ {b}) \cup {[at |-> b.at, size |-> Need - b.size]}
  /\ used' = used \cup {[at |-> End(b) - Need, size |-> Need]}

\* __MEM_SUBTRACT: the block found shrinks and its tail is handed out.
TakeTail(b) ==
  /\ FirstFit(b)
  /\ b.size - Need >= MinBlock
  /\ free' = (free \ {b}) \cup {[at |-> b.at, size |-> b.size - Need]}
  /\ used' = used \cup {[at |-> End(b) - Need, size |-> Need]}

Allocate ==
  /\ want # NoRequest
  /\ \E b \in free : TakeWhole(b) \/ TakeTail(b)
  /\ want' = NoRequest

\* The end of the list was reached: NULL.
OutOfMemory ==
  /\ want # NoRequest
  /\ \A b \in free : b.size < Need
  /\ want' = NoRequest
  /\ UNCHANGED <<free, used>>

NoneBeside(b) == {}                                \* mutant of Before and of After

\* __MEM_JOIN_TEST: the free neighbours that b touches.
Before(b) == {c \in free : End(c) = b.at}
After(b) == {c \in free : c.at = End(b)}

\* The test runs on the block first and then on its predecessor.
JoinNext(b) ==
  IF After(b) = {} THEN b
  ELSE [at |-> b.at, size |-> b.size + (CHOOSE c \in After(b) : TRUE).size]
JoinPrevious(b, joined) ==
  IF Before(b) = {} THEN joined
  ELSE LET p == CHOOSE c \in Before(b) : TRUE
       IN [at |-> p.at, size |-> p.size + joined.size]

Release(b) ==
  /\ want = NoRequest
  /\ b \in used
  /\ used' = used \ {b}
  /\ free' = (free \ (Before(b) \cup After(b))) \cup {JoinPrevious(b, JoinNext(b))}
  /\ UNCHANGED want

Next ==
  \/ \E n \in Requests : Ask(n)
  \/ Allocate
  \/ OutOfMemory
  \/ \E b \in used : Release(b)

Spec == Init /\ [][Next]_vars

-----------------------------------------------------------------------------
\* Types: what alloc.asm splits and free.asm joins are blocks of the arena.
TypeOK ==
  /\ free \subseteq Block
  /\ used \subseteq Block
  /\ want \in Requests \cup {NoRequest}

\* Every block, free or handed out, lies in the arena and has room for the two
\* words a free block needs: whatever is released can be linked.
Sized ==
  \A b \in free \cup used :
    /\ b.size >= 4
    /\ b.at >= HeapStart + 4
    /\ End(b) <= HeapStart + HeapSize

Apart(b, c) == End(b) <= c.at \/ End(c) <= b.at

\* No byte belongs to two blocks: two callers never share memory, and the free
\* list never runs through a block somebody holds.
Disjoint ==
  /\ free \cap used = {}
  /\ \A b, c \in free \cup used : b # c => Apart(b, c)

\* Every byte of the arena belongs to a block: no sequence of allocations and
\* releases loses memory.
NoLeak == \A a \in Arena : \E b \in free \cup used : a \in Bytes(b)

\* No two free blocks touch: the list is fully joined after every release.
Coalesced == \A b, c \in free : End(b) # c.at

Promise == INSTANCE Allocator WITH live <- used

\* The block list keeps the promise of Allocator: in particular MEM_ALLOC
\* answers NULL only when no run of free bytes in the arena is long enough.
KeepsPromise == Promise!Spec
=============================================================================
