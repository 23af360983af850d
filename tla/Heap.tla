-------------------------------- MODULE Heap --------------------------------
(***************************************************************************)
(* The heap of the ZX BASIC runtime as the Z80 executes it: heapinit.asm,  *)
(* alloc.asm, free.asm, realloc.asm and calloc.asm over a byte memory.     *)
(* Each pass of a loop is a step, each straight run of instructions to the *)
(* next loop or RET is one step.  The registers that live across steps are *)
(* variables named as in the code; the callers are Owners, each with one   *)
(* handle (a BASIC string variable).                                       *)
(*                                                                         *)
(* Words are two bytes, low byte first, and addresses wrap: Radix is 256   *)
(* on the machine and small in the instances, where memory is still all of *)
(* the address space, so wrapping and overlapping copies are exact.        *)
(***************************************************************************)
EXTENDS Integers

CONSTANTS Radix,       \* values of a byte
          HeapStart,   \* ZXBASIC_MEM_HEAP
          HeapSize,    \* ZXBASIC_HEAP_SIZE
          Owners,      \* the callers
          Memory,      \* what memory holds when the program starts
          Mark,        \* the byte each caller fills its block with
          Requests,    \* lengths asked for
          NoOne        \* no call is in progress

Word == Radix * Radix
Addr == 0 .. Word - 1

ASSUME HeapAssumption ==
  /\ Radix \in Nat \ {0, 1}
  /\ HeapStart \in 1 .. Word - 1
  /\ HeapSize \in Nat /\ HeapSize >= 8 /\ HeapStart + HeapSize <= Word
  /\ Memory \in [Addr -> 0 .. Radix - 1]
  /\ Mark \in [Owners -> 0 .. Radix - 1]
  /\ Requests \subseteq 0 .. Word - 1
  /\ NoOne \notin Owners /\ NoOne \notin Nat

VARIABLES
  mem,        \* the 64K of the Z80
  pc,         \* label about to be executed; "idle" is the caller's own code
  call,       \* the routine called: "alloc", "calloc", "free", "realloc"
  owner,      \* who called it
  length,     \* BC at the call
  hl, bc,     \* registers
  temp,       \* TEMP: &(previous->next), kept in the operand of TEMP0
  first2,     \* the word __REALLOC keeps on the stack
  from,       \* DE': where __REALLOC copies the rest of the block from
  ptr, len,   \* each caller's handle (0 is NULL) and the length it asked for
  intact,     \* how many leading bytes of the block hold the caller's mark
  moved       \* the last __REALLOC put the block inside its old place

registers == <<pc, call, owner, length, hl, bc, temp, first2, from>>
callers == <<ptr, len, intact, moved>>
vars == <<mem, registers, callers>>

PokeWhole(m, a, v) == [m EXCEPT ![a % Word] = v]                   \* mutant of Poke

Peek(m, a) == m[a % Word] + Radix * m[(a + 1) % Word]
Poke(m, a, v) ==
  [m EXCEPT ![a % Word] = v % Radix, ![(a + 1) % Word] = v \div Radix]

\* LDIR copies upwards one byte at a time: where the destination overlaps the
\* bytes still to be read, the ones already written are read again.
Ldir(m, src, dst, n) ==
  LET distance == (dst - src) % Word
      Source(i) == (src + (IF distance = 0 THEN i ELSE i % distance)) % Word
  IN [a \in Addr |-> LET i == (a - dst) % Word
                     IN IF i < n THEN m[Source(i)] ELSE m[a]]

Lesser(i, j) == IF i < j THEN i ELSE j
-----------------------------------------------------------------------------
Init ==
  /\ mem = Memory
  /\ pc = "MEM_INIT"
  /\ call = "init" /\ owner = NoOne /\ length = 0
  /\ hl = 0 /\ bc = 0 /\ temp = 0 /\ first2 = 0 /\ from = 0
  /\ ptr = [o \in Owners |-> 0]
  /\ len = [o \in Owners |-> 0]
  /\ intact = [o \in Owners |-> 0]
  /\ moved = [o \in Owners |-> FALSE]

\* The registers are dead once a routine returns.
Return ==
  /\ pc' = "idle" /\ call' = "none" /\ owner' = NoOne /\ length' = 0
  /\ hl' = 0 /\ bc' = 0 /\ temp' = 0 /\ first2' = 0 /\ from' = 0

\* __MEM_INIT2; the RET poked over __MEM_INIT lets it run once.
MemInit ==
  /\ pc = "MEM_INIT"
  /\ LET header == Poke(Poke(mem, HeapStart, 0), HeapStart + 2, HeapStart + 4)
     IN mem' = Poke(Poke(header, HeapStart + 4, HeapSize - 4), HeapStart + 6, 0)
  /\ Return
  /\ UNCHANGED callers

-----------------------------------------------------------------------------
(* The callers.                                                            *)

Call(routine, o, n) ==
  /\ pc = "idle"
  /\ call' = routine /\ owner' = o /\ length' = n

\* Entry of __MEM_ALLOC: BC = BC + 2, HL = heap start.
EnterAlloc(n) ==
  /\ pc' = "MEM_LOOP"
  /\ bc' = (n + 2) % Word
  /\ hl' = HeapStart
  /\ temp' = 0

\* Entry of __MEM_FREE, past the test for NULL.
EnterFree(p) ==
  /\ pc' = "MEM_LOOP2"
  /\ bc' = (p - 2) % Word
  /\ hl' = HeapStart
  /\ UNCHANGED temp

CallAlloc(o, n) ==
  /\ ptr[o] = 0
  /\ \E routine \in {"alloc", "calloc"} : Call(routine, o, n)
  /\ EnterAlloc(n)
  /\ UNCHANGED <<mem, first2, from, callers>>

CallFree(o) ==
  /\ ptr[o] # 0
  /\ Call("free", o, 0)
  /\ EnterFree(ptr[o])
  /\ UNCHANGED <<mem, first2, from, callers>>

\* __REALLOC of NULL is __MEM_ALLOC; otherwise the first word of the block,
\* which __MEM_FREE is going to overwrite, is kept.
CallRealloc(o, n) ==
  /\ Call(IF ptr[o] = 0 THEN "alloc" ELSE "realloc", o, n)
  /\ IF ptr[o] = 0
     THEN /\ EnterAlloc(n)
          /\ UNCHANGED <<first2, from>>
     ELSE /\ first2' = Peek(mem, ptr[o])
          /\ from' = (ptr[o] + 2) % Word
          /\ EnterFree(ptr[o])
  /\ UNCHANGED <<mem, callers>>

\* The caller stores its data in its block.
Fill(o) ==
  /\ pc = "idle"
  /\ ptr[o] # 0
  /\ intact[o] # len[o] \/ moved[o]
  /\ mem' = [a \in Addr |-> IF a \in ptr[o] .. ptr[o] + len[o] - 1 THEN Mark[o] ELSE mem[a]]
  /\ intact' = [intact EXCEPT ![o] = len[o]]
  /\ moved' = [moved EXCEPT ![o] = FALSE]
  /\ UNCHANGED <<registers, ptr, len>>

-----------------------------------------------------------------------------
(* __MEM_ALLOC.                                                            *)

\* HL = 0: the list is exhausted and the answer is NULL.
ListExhausted ==
  /\ pc = "MEM_LOOP"
  /\ hl = 0
  /\ pc' = "MEM_RET"
  /\ UNCHANGED <<mem, call, owner, length, hl, bc, temp, first2, from, callers>>

TooShortAgain ==                                               \* mutant of TooShort
  /\ pc = "MEM_LOOP"
  /\ hl # 0
  /\ Peek(mem, hl) < bc
  /\ hl' = HeapStart
  /\ UNCHANGED <<mem, pc, call, owner, length, bc, temp, first2, from, callers>>

TooShort ==
  /\ pc = "MEM_LOOP"
  /\ hl # 0
  /\ Peek(mem, hl) < bc
  /\ temp' = (hl + 2) % Word
  /\ hl' = Peek(mem, hl + 2)
  /\ UNCHANGED <<mem, pc, call, owner, length, bc, first2, from, callers>>

Found(rest) ==
  /\ pc = "MEM_LOOP"
  /\ hl # 0
  /\ Peek(mem, hl) >= bc
  /\ rest = Peek(mem, hl) - bc
  /\ pc' = "MEM_RET"
  /\ UNCHANGED <<call, owner, length, bc, temp, first2, from, callers>>

\* Fewer than 4 bytes would remain: (TEMP) <- next, the block is unlinked.
TakeWhole ==
  \E rest \in 0 .. 3 :
    /\ Found(rest)
    /\ mem' = Poke(mem, temp, Peek(mem, hl + 2))
    /\ hl' = (hl + 2) % Word

\* __MEM_SUBTRACT: the length left is stored and the tail is handed out.
TakeTail ==
  \E rest \in 4 .. Word - 1 :
    /\ Found(rest)
    /\ mem' = Poke(Poke(mem, hl, rest), hl + rest, bc)
    /\ hl' = (hl + rest + 2) % Word

-----------------------------------------------------------------------------
(* __MEM_FREE.                                                             *)

NextIsBefore ==
  /\ pc = "MEM_LOOP2"
  /\ LET next == Peek(mem, hl + 2)
     IN /\ next # 0
        /\ next < bc
        /\ hl' = next
  /\ UNCHANGED <<mem, pc, call, owner, length, bc, temp, first2, from, callers>>

JoinLength(m, a) ==                                          \* mutant of JoinTest
  LET next == Peek(m, a + 2)
  IN IF (a + Peek(m, a)) % Word = next
     THEN Poke(m, a, (Peek(m, a) + Peek(m, next)) % Word)
     ELSE m

\* __MEM_JOIN_TEST: a block that ends where the next one of the list begins
\* takes over its length and its next pointer.
JoinTest(m, a) ==
  LET next == Peek(m, a + 2)
  IN IF (a + Peek(m, a)) % Word = next
     THEN Poke(Poke(m, a, (Peek(m, a) + Peek(m, next)) % Word), a + 2, Peek(m, next + 2))
     ELSE m

\* __MEM_LINK_PREV: BC goes between HL and its successor; then the join test
\* runs on the block and on its predecessor.
LinkPrev ==
  /\ pc = "MEM_LOOP2"
  /\ LET next == Peek(mem, hl + 2)
         linked == Poke(Poke(mem, hl + 2, bc), bc + 2, next)
     IN /\ next = 0 \/ next >= bc
        /\ mem' = JoinTest(JoinTest(linked, bc), hl)
  /\ ptr' = [ptr EXCEPT ![owner] = 0]
  /\ UNCHANGED moved
  /\ IF call = "free"
     THEN /\ Return
          /\ len' = [len EXCEPT ![owner] = 0]
          /\ intact' = [intact EXCEPT ![owner] = 0]
     ELSE /\ pc' = "REALLOC_ALLOC"
          /\ UNCHANGED <<call, owner, length, hl, bc, temp, first2, from, len, intact>>

-----------------------------------------------------------------------------
(* __REALLOC and the returns of __MEM_ALLOC to its callers.                *)

\* Back from __MEM_FREE, __REALLOC calls __MEM_ALLOC.
ReallocAllocate ==
  /\ pc = "REALLOC_ALLOC"
  /\ EnterAlloc(length)
  /\ UNCHANGED <<mem, call, owner, length, first2, from, callers>>

ClearedPast(m) ==                                              \* mutant of Cleared
  Ldir([m EXCEPT ![hl] = 0], hl, hl + 1, length)
CopiedHeadless(m) ==                                            \* mutant of Copied
  LET n == (length - 2) % Word
  IN IF n = 0 THEN m ELSE Ldir(m, from, hl + 2, n)

\* What each routine leaves in the block before it returns it.
Cleared(m) == IF length = 1 THEN [m EXCEPT ![hl] = 0]
              ELSE Ldir([m EXCEPT ![hl] = 0], hl, hl + 1, (length - 1) % Word)
Copied(m) ==
  LET head == Poke(m, hl, first2)
      n == (length - 2) % Word
  IN IF n = 0 THEN head ELSE Ldir(head, from, hl + 2, n)

\* The old block was at from - 2.  The copy goes wrong when the new block, its
\* length word included, starts inside what is still to be copied.
Overtakes == from - 2 < hl /\ hl - 2 < from - 2 + intact[owner]

Hand(p, n) ==
  /\ ptr' = [ptr EXCEPT ![owner] = p]
  /\ len' = [len EXCEPT ![owner] = n]

AnswerNull ==
  /\ pc = "MEM_RET"
  /\ hl = 0
  /\ Hand(0, 0)
  /\ intact' = [intact EXCEPT ![owner] = 0]
  /\ moved' = [moved EXCEPT ![owner] = FALSE]
  /\ Return
  /\ UNCHANGED mem

AnswerBlock ==
  /\ pc = "MEM_RET"
  /\ hl # 0
  /\ mem' = CASE call = "alloc"   -> mem
              [] call = "calloc"  -> Cleared(mem)
              [] call = "realloc" -> Copied(mem)
  /\ Hand(hl, length)
  /\ intact' = [intact EXCEPT ![owner] =
                  IF call = "realloc" THEN Lesser(@, length) ELSE 0]
  /\ moved' = [moved EXCEPT ![owner] = call = "realloc" /\ (@ \/ Overtakes)]
  /\ Return

-----------------------------------------------------------------------------
Callers ==
  \E o \in Owners :
    \/ \E n \in Requests : CallAlloc(o, n) \/ CallRealloc(o, n)
    \/ CallFree(o)
    \/ Fill(o)

Runtime ==
  \/ MemInit
  \/ ListExhausted \/ TooShort \/ TakeWhole \/ TakeTail
  \/ NextIsBefore \/ LinkPrev
  \/ ReallocAllocate \/ AnswerNull \/ AnswerBlock

Next == Callers \/ Runtime

\* Once called, the runtime is the only code running: the Z80 keeps executing.
Spec == Init /\ [][Next]_vars /\ WF_vars(Runtime)

-----------------------------------------------------------------------------
\* Types: bytes and words keep their width through every addition of the
\* runtime, and every pointer handed out is an address.
TypeOK ==
  /\ mem \in [Addr -> 0 .. Radix - 1]
  /\ pc \in {"MEM_INIT", "idle", "MEM_LOOP", "MEM_LOOP2", "MEM_RET", "REALLOC_ALLOC"}
  /\ {hl, bc, temp, from, first2} \subseteq Addr
  /\ ptr \in [Owners -> Addr]
  /\ moved \in [Owners -> BOOLEAN]

Holds(o, n) == \A i \in 0 .. n - 1 : mem[ptr[o] + i] = Mark[o]

\* Whatever the runtime does for other callers, and wherever it is in doing
\* it, a block keeps what its owner stored in it; __REALLOC keeps it too unless
\* the new block starts inside the old one.
ContentsKept ==
  \A o \in Owners :
    ptr[o] # 0 /\ ~moved[o] /\ ~(call \in {"free", "realloc"} /\ owner = o)
      => Holds(o, intact[o])

\* realloc.asm: "the content of the original block is copied to the new one".
ReallocCopies ==
  \A o \in Owners : pc = "idle" /\ ptr[o] # 0 => Holds(o, intact[o])

\* The length word in front of a block holds at least the length asked for.
LengthWord ==
  \A o \in Owners : ptr[o] # 0 => Peek(mem, ptr[o] - 2) \in len[o] + 2 .. len[o] + 5

\* Every call returns: no sequence of calls ties the free list into a loop.
CallsReturn == pc # "idle" ~> pc = "idle"

-----------------------------------------------------------------------------
(* The implementation of HeapBlocks.                                       *)

\* The k-th block of the free list after the dummy header; 0 past its end.
Listed[k \in 0 .. HeapSize \div 4] ==
  IF k = 0 THEN Peek(mem, HeapStart + 2)
  ELSE LET previous == Listed[k - 1]
       IN IF previous = 0 THEN 0 ELSE Peek(mem, previous + 2)

BlockAt(a) == [at |-> a, size |-> Peek(mem, a)]

ListedBlocks ==
  LET starts == {Listed[k] : k \in 0 .. HeapSize \div 4} \ {0}
  IN {BlockAt(a) : a \in starts}

\* A block found but not yet returned is in HL.
HandedOut ==
  {BlockAt(ptr[o] - 2) : o \in {x \in Owners : ptr[x] # 0}}
    \cup (IF pc = "MEM_RET" /\ hl # 0 THEN {BlockAt(hl - 2)} ELSE {})

Blocks == INSTANCE HeapBlocks WITH
  free <- IF pc = "MEM_INIT" THEN {[at |-> HeapStart + 4, size |-> HeapSize - 4]}
          ELSE ListedBlocks,
  used <- HandedOut,
  want <- IF pc = "MEM_LOOP" THEN length ELSE NoOne,
  NoRequest <- NoOne

\* The bytes of the free list implement the block list: every routine performs
\* exactly one step of HeapBlocks, at the step that relinks the list.
ImplementsBlocks == Blocks!Spec
=============================================================================
