-------------------------- MODULE HeapBlocksProofs --------------------------
(***************************************************************************)
(* Theorems of HeapBlocks, for every heap of at least 8 bytes and every    *)
(* set of requests of at least 2 bytes: no byte belongs to two blocks or   *)
(* to none, the free list is always fully joined, and therefore            *)
(* MEM_ALLOC keeps the promise of Allocator.                               *)
(***************************************************************************)
EXTENDS HeapBlocks, TLAPS

\* The inductive invariant.  Coalesced needs Disjoint (two blocks that end at
\* the same byte are the same block) and Disjoint needs Sized (a block is not
\* empty, so a neighbour cannot hide inside the joined block).
IInv == TypeOK /\ Sized /\ Disjoint /\ NoLeak /\ Coalesced

\* Init establishes the invariant: one free block covers the arena.
LEMMA InitInv == Init => IInv
  <1> SUFFICES ASSUME Init PROVE IInv
    OBVIOUS
  <1> USE HeapAssumption
  <1>1. TypeOK
    BY DEF Init, TypeOK, Block
  <1>2. Sized
    BY DEF Init, Sized, End
  <1>3. Disjoint
    BY DEF Init, Disjoint
  <1>4. NoLeak
    BY DEF Init, NoLeak, Arena, Bytes
  <1>5. Coalesced
    BY DEF Init, Coalesced, End
  <1> QED
    BY <1>1, <1>2, <1>3, <1>4, <1>5 DEF IInv

\* The call of MEM_ALLOC and its failure leave the blocks alone.
LEMMA SameBlocksInv ==
  ASSUME IInv, UNCHANGED <<free, used>>, want' \in Requests \cup {NoRequest}
  PROVE  IInv'
  BY DEF IInv, TypeOK, Sized, Disjoint, NoLeak, Coalesced, End, Apart, Bytes, Arena

\* Unlinking a block whole moves it from the list to the blocks handed out.
LEMMA TakeWholeInv ==
  ASSUME IInv, NEW b \in free, TakeWhole(b), want' = NoRequest
  PROVE  IInv'
  <1>1. /\ free' = free \ {b}
        /\ used' = used \cup {b}
    BY DEF TakeWhole
  <1>2. free' \cup used' = free \cup used
    BY <1>1
  <1>3. TypeOK'
    BY <1>1 DEF IInv, TypeOK
  <1>4. Sized'
    BY <1>2 DEF IInv, Sized, End
  <1>5. Disjoint'
    BY <1>1, <1>2 DEF IInv, Disjoint, Apart, End
  <1>6. NoLeak'
    BY <1>2 DEF IInv, NoLeak, Arena, Bytes
  <1>7. Coalesced'
    BY <1>1 DEF IInv, Coalesced, End
  <1> QED
    BY <1>3, <1>4, <1>5, <1>6, <1>7 DEF IInv

\* Splitting a block leaves a head of 4 bytes at least on the list.
LEMMA TakeTailInv ==
  ASSUME IInv, NEW b \in free, TakeTail(b), want \in Requests, want' = NoRequest
  PROVE  IInv'
  <1> DEFINE head == [at |-> b.at, size |-> b.size - Need]
             tail == [at |-> End(b) - Need, size |-> Need]
  <1>1. /\ free' = (free \ {b}) \cup {head}
        /\ used' = used \cup {tail}
        /\ b.size - Need >= 4
    BY DEF TakeTail, MinBlock
  <1>2. /\ b \in Block /\ b.at \in Nat /\ b.size \in Nat
        /\ Need \in Nat /\ Need >= 4
        /\ HeapStart \in Nat
    BY HeapAssumption DEF IInv, TypeOK, Block, Need
  <1>3. /\ head \in Block /\ head.at = b.at /\ End(head) = tail.at
        /\ tail \in Block /\ End(tail) = End(b)
        /\ head.size >= 4 /\ tail.size >= 4
        /\ head.size \in Nat /\ tail.size \in Nat /\ tail.at \in Nat
    BY <1>1, <1>2 DEF Block, End
  <1> HIDE DEF head, tail
  <1>4. TypeOK'
    BY <1>1, <1>3 DEF IInv, TypeOK
  <1>5. Sized'
    <2> SUFFICES ASSUME NEW c \in free' \cup used'
                 PROVE  c.size >= 4 /\ c.at >= HeapStart + 4 /\ End(c) <= HeapStart + HeapSize
      BY DEF Sized, End
    <2>1. b.at >= HeapStart + 4 /\ End(b) <= HeapStart + HeapSize
      BY DEF IInv, Sized
    <2>2. CASE c \in free \cup used
      BY <2>2 DEF IInv, Sized
    <2>3. CASE c = head
      BY <2>3, <2>1, <1>2, <1>3, HeapAssumption DEF End
    <2>4. CASE c = tail
      BY <2>4, <2>1, <1>2, <1>3, HeapAssumption DEF End
    <2> QED
      BY <2>2, <2>3, <2>4, <1>1
  <1>6. ASSUME NEW c \in (free \cup used) \ {b}
        PROVE  Apart(c, head) /\ Apart(c, tail) /\ Apart(head, c) /\ Apart(tail, c)
               /\ c # head /\ c # tail
    <2>1. c \in Block /\ c.at \in Nat /\ c.size \in Nat /\ c.size >= 4 /\ Apart(c, b)
      BY DEF IInv, TypeOK, Sized, Disjoint, Block
    <2> QED
      BY <2>1, <1>2, <1>3 DEF Apart, End
  <1>7. head # tail /\ Apart(head, tail) /\ Apart(tail, head)
    BY <1>3, <1>2 DEF Apart, End
  <1>8. b \notin used
    BY DEF IInv, Disjoint
  <1>9. Disjoint'
    <2>1. free' \cap used' = {}
      BY <1>1, <1>6, <1>7, <1>8 DEF IInv, Disjoint
    <2>2. free' \cup used' = ((free \cup used) \ {b}) \cup {head, tail}
      BY <1>1, <1>8
    <2>3. ASSUME NEW c \in free' \cup used', NEW d \in free' \cup used', c # d
          PROVE  Apart(c, d)
      BY <2>2, <2>3, <1>6, <1>7 DEF IInv, Disjoint
    <2> QED
      BY <2>1, <2>3 DEF Disjoint, Apart, End
  <1>10. NoLeak'
    <2> SUFFICES ASSUME NEW a \in Arena
                 PROVE  \E c \in free' \cup used' : a \in Bytes(c)
      BY DEF NoLeak, Arena, Bytes
    <2>1. PICK c \in free \cup used : a \in Bytes(c)
      BY DEF IInv, NoLeak
    <2>2. CASE c # b
      BY <2>1, <2>2, <1>1
    <2>3. CASE c = b
      <3>1. a \in Int
        BY HeapAssumption DEF Arena
      <3>2. a \in Bytes(head) \/ a \in Bytes(tail)
        BY <2>1, <2>3, <3>1, <1>2, <1>3 DEF Bytes, End
      <3> QED
        BY <3>2, <1>1
    <2> QED
      BY <2>2, <2>3
  <1>11. Coalesced'
    <2> SUFFICES ASSUME NEW c \in free', NEW d \in free'
                 PROVE  End(c) # d.at
      BY DEF Coalesced, End
    <2>1. CASE c # head /\ d # head
      BY <2>1, <1>1 DEF IInv, Coalesced
    <2>2. CASE c = head
      \* The tail handed out lies between the head and whatever follows.
      <3>1. CASE d = head
        BY <2>2, <3>1, <1>2, <1>3 DEF End
      <3>2. CASE d # head
        <4>1. d \in free \ {b} /\ d \in Block
          BY <3>2, <1>1 DEF IInv, TypeOK
        <4>2. Apart(d, tail) /\ d.at \in Nat /\ d.size \in Nat /\ d.size >= 4
          BY <4>1, <1>6 DEF IInv, Sized, Block
        <4> QED
          BY <2>2, <4>2, <1>2, <1>3 DEF Apart, End
      <3> QED
        BY <3>1, <3>2
    <2>3. CASE c # head /\ d = head
      BY <2>3, <1>1, <1>3 DEF IInv, Coalesced
    <2> QED
      BY <2>1, <2>2, <2>3
  <1> QED
    BY <1>4, <1>5, <1>9, <1>10, <1>11 DEF IInv

-----------------------------------------------------------------------------
(* Release.                                                                *)

\* At most one free block ends, and at most one begins, where b does; what
\* the two join tests build spans exactly those neighbours and b.
LEMMA JoinedBlock ==
  ASSUME IInv, NEW b \in used
  PROVE  LET j == JoinPrevious(b, JoinNext(b))
             parts == Before(b) \cup {b} \cup After(b)
         IN /\ j \in Block
            /\ \A c \in parts : j.at <= c.at /\ End(c) <= End(j)
            /\ \E c \in parts : j.at = c.at /\ (c = b => Before(b) = {})
            /\ \E c \in parts : End(j) = End(c) /\ (c = b => After(b) = {})
            /\ \A a \in Int : a \in Bytes(j) => \E c \in parts : a \in Bytes(c)
  <1> DEFINE j == JoinPrevious(b, JoinNext(b))
             n == JoinNext(b)
             p == CHOOSE c \in Before(b) : TRUE
             q == CHOOSE c \in After(b) : TRUE
  <1>1. \A c \in free \cup used : c \in Block /\ c.at \in Nat /\ c.size \in Nat /\ c.size >= 4
    BY DEF IInv, TypeOK, Sized, Block
  <1>2. \A c \in Before(b) : c \in free /\ End(c) = b.at
    BY DEF Before
  <1>3. \A c \in After(b) : c \in free /\ c.at = End(b)
    BY DEF After
  <1>4. ASSUME NEW c \in Before(b), NEW d \in Before(b) PROVE c = d
    BY <1>1, <1>2 DEF IInv, Disjoint, Apart, End
  <1>5. ASSUME NEW c \in After(b), NEW d \in After(b) PROVE c = d
    BY <1>1, <1>3 DEF IInv, Disjoint, Apart, End
  <1>6. Before(b) # {} => p \in Before(b)
    OBVIOUS
  <1>7. After(b) # {} => q \in After(b)
    OBVIOUS
  <1>8. /\ n \in Block /\ n.at = b.at
        /\ After(b) = {} => End(n) = End(b)
        /\ After(b) # {} => End(n) = End(q)
        /\ End(n) >= End(b)
    <2>1. CASE After(b) = {}
      BY <2>1, <1>1 DEF JoinNext, End
    <2>2. CASE After(b) # {}
      <3>1. q.at = b.at + b.size /\ q.size \in Nat /\ q.at \in Nat
        BY <2>2, <1>1, <1>3, <1>7 DEF End
      <3>2. n = [at |-> b.at, size |-> b.size + q.size]
        BY <2>2 DEF JoinNext
      <3> QED
        BY <2>2, <3>1, <3>2, <1>1 DEF End, Block
    <2> QED
      BY <2>1, <2>2
  <1>9. /\ j \in Block /\ End(j) = End(n)
        /\ Before(b) = {} => j.at = b.at
        /\ Before(b) # {} => j.at = p.at
        /\ j.at <= b.at
    <2>1. CASE Before(b) = {}
      BY <2>1, <1>1, <1>8 DEF JoinPrevious
    <2>2. CASE Before(b) # {}
      <3>1. b.at = p.at + p.size /\ p.size \in Nat /\ p.at \in Nat
        BY <2>2, <1>1, <1>2, <1>6 DEF End
      <3>2. j = [at |-> p.at, size |-> p.size + n.size]
        BY <2>2 DEF JoinPrevious
      <3>3. n.size \in Nat /\ n.at \in Nat
        BY <1>8 DEF Block
      <3> QED
        BY <2>2, <3>1, <3>2, <3>3, <1>1, <1>8 DEF End, Block
    <2> QED
      BY <2>1, <2>2
  <1> HIDE DEF j, n, p, q
  <1>10. /\ \A c \in Before(b) : c = p
         /\ \A c \in After(b) : c = q
    BY <1>4, <1>5, <1>6, <1>7
  <1>11. ASSUME NEW c \in Before(b) \cup {b} \cup After(b)
         PROVE  j.at <= c.at /\ End(c) <= End(j)
    <2>1. j.at \in Nat /\ j.size \in Nat /\ n.at \in Nat /\ n.size \in Nat
      BY <1>8, <1>9 DEF Block
    <2>2. CASE c = b
      BY <2>2, <2>1, <1>1, <1>8, <1>9 DEF End
    <2>3. CASE c \in Before(b)
      <3>1. c = p /\ j.at = p.at /\ End(c) = b.at /\ c.at \in Nat
        BY <2>3, <1>1, <1>2, <1>9, <1>10
      <3> QED
        BY <3>1, <2>1, <1>1, <1>8, <1>9 DEF End
    <2>4. CASE c \in After(b)
      <3>1. c = q /\ End(j) = End(q) /\ c.at = End(b) /\ c.at \in Nat /\ c.size \in Nat
        BY <2>4, <1>1, <1>3, <1>8, <1>9, <1>10
      <3> QED
        BY <3>1, <2>1, <1>1, <1>8, <1>9 DEF End
    <2> QED
      BY <2>2, <2>3, <2>4
  <1>12. \E c \in Before(b) \cup {b} \cup After(b) : j.at = c.at /\ (c = b => Before(b) = {})
    <2>1. CASE Before(b) = {}
      BY <2>1, <1>9
    <2>2. CASE Before(b) # {}
      <3>1. p \in Before(b) /\ j.at = p.at /\ p # b
        BY <2>2, <1>1, <1>2, <1>6, <1>9 DEF IInv, Disjoint
      <3> QED
        BY <3>1
    <2> QED
      BY <2>1, <2>2
  <1>13. \E c \in Before(b) \cup {b} \cup After(b) : End(j) = End(c) /\ (c = b => After(b) = {})
    <2>1. CASE After(b) = {}
      BY <2>1, <1>8, <1>9
    <2>2. CASE After(b) # {}
      <3>1. q \in After(b) /\ End(j) = End(q) /\ q # b
        BY <2>2, <1>3, <1>7, <1>8, <1>9 DEF IInv, Disjoint
      <3> QED
        BY <3>1
    <2> QED
      BY <2>1, <2>2
  <1>14. ASSUME NEW a \in Int, a \in Bytes(j)
         PROVE  \E c \in Before(b) \cup {b} \cup After(b) : a \in Bytes(c)
    <2>1. a >= j.at /\ a < End(j) /\ j.at \in Nat /\ j.size \in Nat
      BY <1>14, <1>9 DEF Bytes, End, Block
    <2>2. CASE a < b.at
      <3>1. Before(b) # {}
        BY <2>1, <2>2, <1>1, <1>9
      <3>2. p \in Before(b) /\ p.at = j.at /\ End(p) = b.at /\ p.at \in Nat /\ p.size \in Nat
        BY <3>1, <1>1, <1>2, <1>6, <1>9
      <3>3. a \in Bytes(p)
        BY <3>2, <2>1, <2>2, <1>1 DEF Bytes, End
      <3> QED
        BY <3>2, <3>3
    <2>3. CASE a >= b.at /\ a < End(b)
      <3>1. a \in Bytes(b)
        BY <2>3, <1>1 DEF Bytes, End
      <3> QED
        BY <3>1
    <2>4. CASE a >= End(b)
      <3>1. After(b) # {}
        BY <2>1, <2>4, <1>1, <1>8, <1>9 DEF End
      <3>2. q \in After(b) /\ q.at = End(b) /\ End(q) = End(j) /\ q.at \in Nat /\ q.size \in Nat
        BY <3>1, <1>1, <1>3, <1>7, <1>8, <1>9
      <3>3. a \in Bytes(q)
        BY <3>2, <2>1, <2>4 DEF Bytes, End
      <3> QED
        BY <3>2, <3>3
    <2>5. b.at \in Nat /\ b.size \in Nat
      BY <1>1
    <2> QED
      BY <2>2, <2>3, <2>4, <2>5 DEF End
  <1> QED
    BY <1>9, <1>11, <1>12, <1>13, <1>14 DEF j

\* Releasing a block joins it with both neighbours and disturbs nothing else.
LEMMA ReleaseInv ==
  ASSUME IInv, NEW b \in used, Release(b)
  PROVE  IInv'
  <1> DEFINE j == JoinPrevious(b, JoinNext(b))
             parts == Before(b) \cup {b} \cup After(b)
             rest == (free \cup used) \ parts
  <1>1. /\ used' = used \ {b}
        /\ free' = (free \ (Before(b) \cup After(b))) \cup {j}
        /\ want' = want
    BY DEF Release
  <1>2. /\ j \in Block
        /\ \A c \in parts : j.at <= c.at /\ End(c) <= End(j)
        /\ \E c \in parts : j.at = c.at /\ (c = b => Before(b) = {})
        /\ \E c \in parts : End(j) = End(c) /\ (c = b => After(b) = {})
        /\ \A a \in Int : a \in Bytes(j) => \E c \in parts : a \in Bytes(c)
    BY JoinedBlock
  <1> HIDE DEF j
  <1>3. \A c \in free \cup used : c \in Block /\ c.at \in Nat /\ c.size \in Nat /\ c.size >= 4
    BY DEF IInv, TypeOK, Sized, Block
  <1>4. parts \subseteq free \cup used /\ Before(b) \subseteq free /\ After(b) \subseteq free
    BY DEF Before, After
  <1>5. b \notin free /\ free \cap used = {}
    BY DEF IInv, Disjoint
  <1>6. free' \cup used' = rest \cup {j}
    BY <1>1, <1>4, <1>5
  <1>7. j.at \in Nat /\ j.size \in Nat
    BY <1>2 DEF Block
  <1>8. j.size >= 4
    BY <1>2, <1>3, <1>7 DEF End
  <1>9. ASSUME NEW c \in rest
        PROVE  Apart(c, j) /\ Apart(j, c) /\ c # j
    \* A byte of both would belong to c and to one of the joined parts.
    <2>1. c.at \in Nat /\ c.size \in Nat /\ c.size >= 4
      BY <1>3
    <2>2. ASSUME NEW a \in Int, a \in Bytes(c), a \in Bytes(j) PROVE FALSE
      <3>1. PICK d \in parts : a \in Bytes(d)
        BY <1>2, <2>2
      <3>2. Apart(c, d) /\ d.at \in Nat /\ d.size \in Nat
        BY <1>3, <1>4 DEF IInv, Disjoint
      <3> QED
        BY <3>1, <3>2, <2>1, <2>2 DEF Apart, End, Bytes
    <2>3. c.at \notin Bytes(j) /\ j.at \notin Bytes(c)
      BY <2>1, <2>2, <1>7, <1>8 DEF Bytes
    <2> QED
      BY <2>1, <2>3, <1>7, <1>8 DEF Apart, End, Bytes
  <1>10. TypeOK'
    BY <1>1, <1>2 DEF IInv, TypeOK
  <1>11. Sized'
    <2> SUFFICES ASSUME NEW c \in free' \cup used'
                 PROVE  c.size >= 4 /\ c.at >= HeapStart + 4 /\ End(c) <= HeapStart + HeapSize
      BY DEF Sized, End
    <2>1. CASE c \in rest
      BY <2>1 DEF IInv, Sized
    <2>2. CASE c = j
      BY <2>2, <1>2, <1>4, <1>8 DEF IInv, Sized
    <2> QED
      BY <2>1, <2>2, <1>6
  <1>12. Disjoint'
    <2>1. free' \cap used' = {}
      BY <1>1, <1>4, <1>5, <1>9
    <2>2. ASSUME NEW c \in free' \cup used', NEW d \in free' \cup used', c # d
          PROVE  Apart(c, d)
      BY <2>2, <1>6, <1>9 DEF IInv, Disjoint
    <2> QED
      BY <2>1, <2>2 DEF Disjoint, Apart, End
  <1>13. NoLeak'
    <2> SUFFICES ASSUME NEW a \in Arena
                 PROVE  \E c \in free' \cup used' : a \in Bytes(c)
      BY DEF NoLeak, Arena, Bytes
    <2>1. PICK c \in free \cup used : a \in Bytes(c)
      BY DEF IInv, NoLeak
    <2>2. CASE c \in rest
      BY <2>1, <2>2, <1>6
    <2>3. CASE c \in parts
      <3>1. a \in Int /\ c.at \in Nat /\ c.size \in Nat
        BY <1>3, HeapAssumption DEF Arena
      <3>2. a \in Bytes(j)
        BY <3>1, <2>1, <2>3, <1>2, <1>7 DEF Bytes, End
      <3> QED
        BY <3>2, <1>6
    <2> QED
      BY <2>2, <2>3
  <1>14. Coalesced'
    <2> SUFFICES ASSUME NEW c \in free', NEW d \in free'
                 PROVE  End(c) # d.at
      BY DEF Coalesced, End
    <2>1. CASE c # j /\ d # j
      BY <2>1, <1>1 DEF IInv, Coalesced
    <2>2. CASE c = j /\ d = j
      BY <2>2, <1>7, <1>8 DEF End
    <2>3. CASE c = j /\ d # j
      <3>1. d \in free /\ d \notin After(b)
        BY <2>3, <1>1
      <3>2. PICK e \in parts : End(j) = End(e) /\ (e = b => After(b) = {})
        BY <1>2
      <3>3. CASE e = b
        BY <3>1, <3>2, <3>3, <2>3 DEF After
      <3>4. CASE e # b
        BY <3>1, <3>2, <3>4, <2>3, <1>4 DEF IInv, Coalesced
      <3> QED
        BY <3>3, <3>4
    <2>4. CASE c # j /\ d = j
      <3>1. c \in free /\ c \notin Before(b)
        BY <2>4, <1>1
      <3>2. PICK e \in parts : j.at = e.at /\ (e = b => Before(b) = {})
        BY <1>2
      <3>3. CASE e = b
        BY <3>1, <3>2, <3>3, <2>4 DEF Before
      <3>4. CASE e # b
        BY <3>1, <3>2, <3>4, <2>4, <1>4 DEF IInv, Coalesced
      <3> QED
        BY <3>3, <3>4
    <2> QED
      BY <2>1, <2>2, <2>3, <2>4
  <1> QED
    BY <1>10, <1>11, <1>12, <1>13, <1>14 DEF IInv

-----------------------------------------------------------------------------
\* Every step of the heap preserves the invariant.
LEMMA NextInv == IInv /\ [Next]_vars => IInv'
  <1> SUFFICES ASSUME IInv, [Next]_vars PROVE IInv'
    OBVIOUS
  <1>1. ASSUME NEW n \in Requests, Ask(n) PROVE IInv'
    BY <1>1, SameBlocksInv DEF Ask
  <1>2. CASE Allocate
    <2>1. want \in Requests
      BY <1>2 DEF Allocate, IInv, TypeOK
    <2>2. PICK b \in free : TakeWhole(b) \/ TakeTail(b)
      BY <1>2 DEF Allocate
    <2>3. want' = NoRequest
      BY <1>2 DEF Allocate
    <2> QED
      BY <2>1, <2>2, <2>3, TakeWholeInv, TakeTailInv
  <1>3. CASE OutOfMemory
    BY <1>3, SameBlocksInv DEF OutOfMemory
  <1>4. ASSUME NEW b \in used, Release(b) PROVE IInv'
    BY <1>4, ReleaseInv
  <1>5. CASE UNCHANGED vars
    BY <1>5, SameBlocksInv DEF vars, IInv, TypeOK
  <1> QED
    BY <1>1, <1>2, <1>3, <1>4, <1>5 DEF Next

\* The inductive invariant holds of the heap, whatever its size and whatever is
\* asked of it.
THEOREM HeapInvariant == Spec => []IInv
  BY InitInv, NextInv, PTL DEF Spec

\* heapinit.asm, alloc.asm, free.asm: blocks handed out and free blocks stay
\* in the arena and are of the right kind.
THEOREM HeapTypeCorrect == Spec => []TypeOK
  <1>1. IInv => TypeOK
    BY DEF IInv
  <1> QED
    BY <1>1, HeapInvariant, PTL

\* alloc.asm and free.asm: no byte is ever in two blocks.
THEOREM HeapDisjoint == Spec => []Disjoint
  <1>1. IInv => Disjoint
    BY DEF IInv
  <1> QED
    BY <1>1, HeapInvariant, PTL

\* alloc.asm and free.asm: no byte of the arena is ever lost.
THEOREM HeapNoLeak == Spec => []NoLeak
  <1>1. IInv => NoLeak
    BY DEF IInv
  <1> QED
    BY <1>1, HeapInvariant, PTL

\* free.asm, "we can defragment the heap": no two free blocks ever touch.
THEOREM HeapCoalesced == Spec => []Coalesced
  <1>1. IInv => Coalesced
    BY DEF IInv
  <1> QED
    BY <1>1, HeapInvariant, PTL

\* free.asm writes two words into whatever it releases, and alloc.asm splits a
\* block only if the head keeps room for them: every block has 4 bytes at least.
THEOREM HeapSized == Spec => []Sized
  <1>1. IInv => Sized
    BY DEF IInv
  <1> QED
    BY <1>1, HeapInvariant, PTL

-----------------------------------------------------------------------------
(* HeapBlocks implements Allocator.                                        *)

\* A stretch of a free block is a run of bytes nobody holds.
LEMMA FreeBlockIsFreeRun ==
  ASSUME IInv, NEW b \in free, NEW a \in Nat, NEW n \in Nat,
         n >= 1, b.at <= a, a + n <= End(b)
  PROVE  Promise!FreeRun(a, n)
  <1>1. \A c \in free \cup used : c.at \in Nat /\ c.size \in Nat
    BY DEF IInv, TypeOK, Block
  <1>2. b.at >= HeapStart + 4 /\ End(b) <= HeapStart + HeapSize
    BY DEF IInv, Sized
  <1>3. a \in Promise!Arena /\ a + n - 1 \in Promise!Arena
    BY <1>1, <1>2, HeapAssumption DEF Promise!Arena, End
  <1>4. ASSUME NEW c \in used PROVE Promise!Bytes(c) \cap (a .. a + n - 1) = {}
    <2>1. Apart(b, c)
      BY DEF IInv, Disjoint
    <2> QED
      BY <2>1, <1>1 DEF Apart, End, Promise!Bytes
  <1> QED
    BY <1>3, <1>4 DEF Promise!FreeRun

\* A run of bytes nobody holds lies in one free block: where a free block ended
\* inside the run another would begin, and free blocks never touch.
LEMMA FreeRunIsInFreeBlock ==
  ASSUME IInv, NEW a \in Nat, NEW n \in Nat, n >= 1, Promise!FreeRun(a, n)
  PROVE  \E b \in free : b.at <= a /\ a + n <= End(b)
  <1>1. \A c \in free \cup used : c.at \in Nat /\ c.size \in Nat /\ c.size >= 4
    BY DEF IInv, TypeOK, Sized, Block
  <1>2. a \in Arena /\ a + n - 1 \in Arena
    BY DEF Promise!FreeRun, Promise!Arena, Arena
  <1>3. ASSUME NEW x \in a .. a + n - 1
        PROVE  \E c \in free : x \in Bytes(c)
    <2>1. x \in Arena
      BY <1>2, HeapAssumption DEF Arena
    <2>2. PICK c \in free \cup used : x \in Bytes(c)
      BY <2>1 DEF IInv, NoLeak
    <2>3. c \notin used
      BY <2>2 DEF Promise!FreeRun, Promise!Bytes, Bytes
    <2> QED
      BY <2>2, <2>3
  <1>4. a \in a .. a + n - 1
    OBVIOUS
  <1>5. PICK b \in free : a \in Bytes(b)
    BY <1>3, <1>4
  <1>6. ASSUME End(b) < a + n PROVE FALSE
    <2>1. End(b) \in a .. a + n - 1
      BY <1>1, <1>5, <1>6 DEF Bytes, End
    <2>2. PICK c \in free : End(b) \in Bytes(c)
      BY <2>1, <1>3
    <2>3. c # b /\ Apart(b, c)
      BY <2>2, <1>1 DEF IInv, Disjoint, Bytes, End
    <2>4. End(b) # c.at
      BY DEF IInv, Coalesced
    <2> QED
      BY <2>2, <2>3, <2>4, <1>1 DEF Apart, Bytes, End
  <1> QED
    BY <1>1, <1>5, <1>6 DEF Bytes, End

\* Every step of the heap is a step of Allocator or changes nothing it sees.
LEMMA StepKeepsPromise == IInv /\ [Next]_vars => [Promise!Next]_(Promise!vars)
  <1> SUFFICES ASSUME IInv, [Next]_vars PROVE [Promise!Next]_(Promise!vars)
    OBVIOUS
  <1>1. \A c \in free \cup used :
          c = [at |-> c.at, size |-> c.size] /\ c.at \in Nat /\ c.size \in Nat /\ c.size >= 4
    BY DEF IInv, TypeOK, Sized, Block
  <1>2. ASSUME NEW n \in Requests, Ask(n) PROVE Promise!Next
    BY <1>2 DEF Ask, Promise!Next, Promise!Ask
  <1>3. CASE Allocate
    <2>1. /\ want # NoRequest /\ want' = NoRequest /\ want \in Requests
          /\ want \in Nat /\ want >= 2 /\ Need = want + 2 /\ Promise!Need = want + 2
      BY <1>3, HeapAssumption DEF Allocate, IInv, TypeOK, Need, Promise!Need
    <2>2. PICK b \in free : TakeWhole(b) \/ TakeTail(b)
      BY <1>3 DEF Allocate
    <2>3. b.size >= Need /\ b.at \in Nat /\ b.size \in Nat /\ End(b) = b.at + b.size
      BY <2>2, <1>1 DEF TakeWhole, TakeTail, FirstFit, End
    <2>4. b.at >= HeapStart + 4 /\ End(b) <= HeapStart + HeapSize
      BY DEF IInv, Sized
    <2>5. CASE TakeWhole(b)
      <3> DEFINE slack == b.size - Need
      <3>1. slack \in 0 .. 3 /\ Need + slack = b.size
        BY <2>1, <2>3, <2>5 DEF TakeWhole, MinBlock
      <3>2. Promise!FreeRun(b.at, Need + slack)
        BY <2>1, <2>3, <3>1, FreeBlockIsFreeRun
      <3>3. used' = used \cup {[at |-> b.at, size |-> Need + slack]}
        BY <1>1, <2>5, <3>1 DEF TakeWhole
      <3>4. b.at \in Promise!Arena
        BY <3>2 DEF Promise!FreeRun
      <3> QED
        BY <2>1, <3>1, <3>2, <3>3, <3>4 DEF Promise!Next, Promise!Grant
    <2>6. CASE TakeTail(b)
      <3> DEFINE a == End(b) - Need
      <3>1. a \in Nat /\ a >= b.at /\ a + Need = End(b)
        BY <2>1, <2>3
      <3>2. Promise!FreeRun(a, Need + 0)
        BY <2>1, <3>1, FreeBlockIsFreeRun
      <3>3. used' = used \cup {[at |-> a, size |-> Need + 0]}
        BY <2>1, <2>6 DEF TakeTail
      <3>4. a \in Promise!Arena /\ 0 \in 0 .. 3
        BY <3>2 DEF Promise!FreeRun
      <3> QED
        BY <2>1, <3>2, <3>3, <3>4 DEF Promise!Next, Promise!Grant
    <2> QED
      BY <2>2, <2>5, <2>6
  <1>4. CASE OutOfMemory
    <2>1. /\ want # NoRequest /\ want' = NoRequest /\ used' = used
          /\ want \in Nat /\ want >= 2 /\ Need = want + 2 /\ Promise!Need = want + 2
          /\ \A b \in free : b.size < Need
      BY <1>4, HeapAssumption DEF OutOfMemory, IInv, TypeOK, Need, Promise!Need
    <2>2. ASSUME NEW a \in Promise!Arena, Promise!FreeRun(a, Promise!Need) PROVE FALSE
      <3>1. a \in Nat
        BY HeapAssumption DEF Promise!Arena
      <3>2. PICK b \in free : b.at <= a /\ a + Need <= End(b)
        BY <2>1, <2>2, <3>1, FreeRunIsInFreeBlock
      <3> QED
        BY <2>1, <3>1, <3>2, <1>1 DEF End
    <2> QED
      BY <2>1, <2>2 DEF Promise!Next, Promise!Refuse
  <1>5. ASSUME NEW b \in used, Release(b) PROVE Promise!Next
    BY <1>5 DEF Release, Promise!Next, Promise!Release
  <1>6. CASE UNCHANGED vars
    BY <1>6 DEF vars, Promise!vars
  <1> QED
    BY <1>2, <1>3, <1>4, <1>5, <1>6 DEF Next

\* alloc.asm and free.asm keep their headers' promise, on every heap: a block
\* granted was a run of bytes nobody held, at most 3 bytes longer than asked
\* for, and NULL is answered only when there is no such run.
THEOREM HeapKeepsPromise == Spec => KeepsPromise
  <1>1. Init => Promise!Init
    BY DEF Init, Promise!Init
  <1> QED
    BY <1>1, HeapInvariant, StepKeepsPromise, PTL DEF Spec, KeepsPromise, Promise!Spec
=============================================================================
