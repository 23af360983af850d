----------------------------- MODULE Allocator -----------------------------
(***************************************************************************)
(* What the heap of the ZX BASIC runtime promises to its callers, whatever *)
(* its data structures: the contract written in the headers of alloc.asm,  *)
(* free.asm and heapinit.asm.  A request is answered by a block nobody     *)
(* else holds, or by NULL, and NULL only when the arena has no run of free *)
(* bytes long enough.  There is no free list here: HeapBlocks has it.      *)
(***************************************************************************)
EXTENDS Integers

CONSTANTS HeapStart,   \* ZXBASIC_MEM_HEAP
          HeapSize,    \* ZXBASIC_HEAP_SIZE, the 4-byte dummy header included
          Requests,    \* the lengths callers ask for (register BC)
          NoRequest    \* no call of MEM_ALLOC is in progress

VARIABLES live,        \* the blocks handed out and not yet released
          want         \* the length asked for by the call in progress

vars == <<live, want>>

\* The bytes the allocator may hand out: all but the dummy header block.
Arena == HeapStart + 4 .. HeapStart + HeapSize - 1

Block == [at : Nat, size : Nat]

Bytes(b) == b.at .. b.at + b.size - 1

\* A block carries a hidden 2-byte length word in front of what was asked for.
Need == want + 2

Held == UNION {Bytes(b) : b \in live}

\* a .. a + n - 1 is a run of bytes that nobody holds.
FreeRun(a, n) ==
  /\ a \in Arena
  /\ a + n - 1 \in Arena
  /\ \A b \in live : Bytes(b) \cap (a .. a + n - 1) = {}

Init ==
  /\ live = {}
  /\ want = NoRequest

Ask(n) ==
  /\ want = NoRequest
  /\ want' = n
  /\ UNCHANGED live

\* The block may be up to 3 bytes longer than asked for: what would remain is
\* too short to be a block.
Grant ==
  /\ want # NoRequest
  /\ \E a \in Arena, slack \in 0 .. 3 :
       /\ FreeRun(a, Need + slack)
       /\ live' = live \cup {[at |-> a, size |-> Need + slack]}
  /\ want' = NoRequest

Refuse ==
  /\ want # NoRequest
  /\ ~ \E a \in Arena : FreeRun(a, Need)
  /\ want' = NoRequest
  /\ UNCHANGED live

Release(b) ==
  /\ want = NoRequest
  /\ b \in live
  /\ live' = live \ {b}
  /\ UNCHANGED want

Next ==
  \/ \E n \in Requests : Ask(n)
  \/ Grant
  \/ Refuse
  \/ \E b \in live : Release(b)

Spec == Init /\ [][Next]_vars
=============================================================================
