----------------------------- MODULE HeapProofs -----------------------------
(***************************************************************************)
(* Theorems of Heap, for every heap that ends below the last address, every *)
(* content of memory and every set of callers and requests, and that its   *)
(* bytes implement the blocks of HeapBlocks.                               *)
(***************************************************************************)
EXTENDS Heap, WellFoundedInduction, TLAPS

\* A heap that ends with the last byte of memory is left out: __MEM_JOIN_TEST
\* then takes the NULL at the end of the list for the address behind the heap.
EndsBelowTop == HeapStart + HeapSize < Word

\* Lengths that leave room for a free block's header when released, and for the
\* 2 that MEM_ALLOC adds in a word.
Askable == \A n \in Requests : n \in 2 .. Word - 3

\* The contents memory can have, and where the heap ends.
Memories == [Addr -> 0 .. Radix - 1]
Last == HeapStart + HeapSize

-----------------------------------------------------------------------------
(* Words in memory.                                                        *)

\* A word holds at least 0 .. 3.
LEMMA WordType == Word \in Nat /\ Word > 3
  BY HeapAssumption DEF Word

\* Remainders of addresses.
LEMMA Remainder == ASSUME NEW W \in Nat, W > 0, NEW x \in Int PROVE x % W \in 0 .. W - 1
  OBVIOUS

LEMMA SmallRemainder == ASSUME NEW W \in Nat, W > 0, NEW x \in 0 .. W - 1 PROVE x % W = x
  OBVIOUS

\* An address is not changed by wrapping, and wrapping gives an address.
LEMMA Unwrapped ==
  /\ \A x \in Addr : x % Word = x
  /\ \A x \in Int : x % Word \in Addr
  BY Remainder, SmallRemainder, WordType DEF Addr

\* A word and its two bytes determine each other.
LEMMA Digits ==
  /\ \A v \in Addr : /\ v % Radix \in 0 .. Radix - 1
                     /\ v \div Radix \in 0 .. Radix - 1
                     /\ (v % Radix) + Radix * (v \div Radix) = v
  /\ \A a, b \in 0 .. Radix - 1 : /\ a + Radix * b \in Addr
                                  /\ (a + Radix * b) % Radix = a
                                  /\ (a + Radix * b) \div Radix = b
  <1>1. Radix \in Nat /\ Radix > 1
    BY HeapAssumption
  <1>2. ASSUME NEW R \in Nat, R > 1, NEW v \in 0 .. R * R - 1
        PROVE  v % R \in 0 .. R - 1 /\ v \div R \in 0 .. R - 1 /\ (v % R) + R * (v \div R) = v
    OBVIOUS
  <1>3. ASSUME NEW R \in Nat, R > 1, NEW a \in 0 .. R - 1, NEW b \in 0 .. R - 1
        PROVE  a + R * b \in 0 .. R * R - 1
    OBVIOUS
  <1>4. ASSUME NEW R \in Nat, R > 1, NEW a \in 0 .. R - 1, NEW b \in 0 .. R - 1
        PROVE  (a + R * b) % R = a /\ (a + R * b) \div R = b
    OBVIOUS
  <1> QED
    BY <1>1, <1>2, <1>3, <1>4 DEF Addr, Word

\* A word is read from, and written to, two neighbouring bytes.
LEMMA PeekValue ==
  ASSUME NEW m \in Memories, NEW a \in Addr, a + 1 \in Addr
  PROVE  Peek(m, a) = m[a] + Radix * m[a + 1] /\ Peek(m, a) \in Addr
  <1>1. Peek(m, a) = m[a] + Radix * m[a + 1]
    BY Unwrapped DEF Peek
  <1>2. m[a] \in 0 .. Radix - 1 /\ m[a + 1] \in 0 .. Radix - 1
    BY DEF Memories
  <1> QED
    BY <1>1, <1>2, Digits

\* What __poke leaves: the word where it was written, every other byte as it was.
LEMMA PokeValue ==
  ASSUME NEW m \in Memories, NEW a \in Addr, a + 1 \in Addr, NEW v \in Addr
  PROVE  /\ Poke(m, a, v) \in Memories
         /\ Poke(m, a, v)[a] = v % Radix /\ Poke(m, a, v)[a + 1] = v \div Radix
         /\ Peek(Poke(m, a, v), a) = v
         /\ \A x \in Addr : x # a /\ x # a + 1 => Poke(m, a, v)[x] = m[x]
  <1>1. Poke(m, a, v) = [m EXCEPT ![a] = v % Radix, ![a + 1] = v \div Radix]
    BY Unwrapped DEF Poke
  <1>2. v % Radix \in 0 .. Radix - 1 /\ v \div Radix \in 0 .. Radix - 1
    BY Digits
  <1>3. a # a + 1 /\ a \in Int
    BY DEF Addr
  <1> DEFINE M == Poke(m, a, v)
  <1>4. M \in Memories
    BY <1>1, <1>2 DEF Memories
  <1>5. M[a] = v % Radix /\ M[a + 1] = v \div Radix
    BY <1>1, <1>3 DEF Memories
  <1>6. \A x \in Addr : x # a /\ x # a + 1 => M[x] = m[x]
    BY <1>1, <1>3 DEF Memories
  <1> HIDE DEF M
  <1>7. Peek(M, a) = M[a] + Radix * M[a + 1]
    BY <1>4, PeekValue
  <1>8. Peek(M, a) = v
    BY <1>7, <1>5, Digits
  <1> QED
    BY <1>4, <1>5, <1>6, <1>8 DEF M

\* A word is what its two bytes are.
LEMMA PeekSame ==
  ASSUME NEW m \in Memories, NEW n \in Memories, NEW a \in Addr, a + 1 \in Addr,
         m[a] = n[a], m[a + 1] = n[a + 1]
  PROVE  Peek(m, a) = Peek(n, a)
  BY PeekValue

\* Writing a word leaves the words beside it.
LEMMA PokeApart ==
  ASSUME NEW m \in Memories, NEW a \in Addr, a + 1 \in Addr, NEW v \in Addr,
         NEW b \in Addr, b + 1 \in Addr, a + 2 <= b \/ b + 2 <= a
  PROVE  Peek(Poke(m, a, v), b) = Peek(m, b)
  <1>1. /\ Poke(m, a, v) \in Memories
        /\ \A x \in Addr : x # a /\ x # a + 1 => Poke(m, a, v)[x] = m[x]
    BY PokeValue
  <1>2. b # a /\ b # a + 1 /\ b + 1 # a /\ b + 1 # a + 1
    BY DEF Addr
  <1> QED
    BY <1>1, <1>2, PeekSame

-----------------------------------------------------------------------------
(* The heap in the bytes: F holds the starts of the free blocks, U those of *)
(* the blocks handed out.                                                   *)

\* n is the first start of F behind a, or 0 when there is none.
Follows(F, a, n) ==
  /\ n \in F \cup {0}
  /\ n # 0 => a < n
  /\ \A c \in F : a < c => n # 0 /\ n <= c

\* The list runs through F in the order of addresses, from the dummy header on.
Chain(m, F) ==
  /\ Peek(m, HeapStart) = 0
  /\ \A a \in F \cup {HeapStart} : Follows(F, a, Peek(m, a + 2))

\* Blocks have room for a header, lie in the arena and do not overlap.
Laid(m, B) ==
  /\ \A a \in B : a >= HeapStart + 4 /\ Peek(m, a) >= 4 /\ a + Peek(m, a) <= Last
  /\ \A a, b \in B : a < b => a + Peek(m, a) <= b

\* Every byte of the arena is in a block.
Covered(m, B) ==
  \A x \in HeapStart + 4 .. Last - 1 : \E a \in B : a <= x /\ x < a + Peek(m, a)

\* No free block outside X touches the next one.
JoinedBut(m, F, X) == \A a \in F \ X : a + Peek(m, a) \notin F

\* Memory m holds a heap.
Whole(m, F, U) ==
  /\ m \in Memories /\ F \subseteq Addr /\ U \subseteq Addr
  /\ F \cap U = {}
  /\ Chain(m, F)
  /\ Laid(m, F \cup U)
  /\ Covered(m, F \cup U)

\* Headers fit in memory and lie apart from each other.
LEMMA Headers ==
  ASSUME EndsBelowTop, NEW m, NEW F, NEW U, Whole(m, F, U),
         NEW a \in F \cup U \cup {HeapStart}
  PROVE  /\ a \in Int /\ 0 < a /\ HeapStart <= a /\ a + 3 < Last
         /\ {a, a + 1, a + 2, a + 3} \subseteq Addr
         /\ Peek(m, a) \in Addr /\ Peek(m, a + 2) \in Addr
         /\ a = HeapStart \/ HeapStart + 4 <= a
         /\ \A b \in F \cup U : a < b => a + 4 <= b
         /\ \A b \in F \cup U : b # a => a + 4 <= b \/ b + 4 <= a
  <1>1. /\ HeapStart \in Int /\ HeapSize \in Int /\ HeapStart >= 1 /\ HeapSize >= 8
        /\ HeapStart + HeapSize < Word /\ Last = HeapStart + HeapSize /\ Word \in Int
    BY HeapAssumption, WordType DEF EndsBelowTop, Last
  <1>2. \A b \in F \cup U : /\ b \in Int /\ b >= HeapStart + 4 /\ Peek(m, b) >= 4
                            /\ b + Peek(m, b) <= Last /\ b \in Addr
    BY <1>1 DEF Whole, Laid, Addr
  <1>3. \A b \in F \cup U : b + 1 \in Addr
    <2> SUFFICES ASSUME NEW b \in F \cup U PROVE b + 1 \in Addr
      OBVIOUS
    <2>1. Peek(m, b) = m[b % Word] + Radix * m[(b + 1) % Word]
      BY DEF Peek
    <2>2. m[b % Word] \in 0 .. Radix - 1 /\ m[(b + 1) % Word] \in 0 .. Radix - 1
      BY <1>2, Unwrapped DEF Whole, Memories
    <2>3. Peek(m, b) \in Addr
      BY <2>1, <2>2, Digits
    <2> QED
      BY <2>3, <1>1, <1>2 DEF Addr
  <1>4. m \in Memories
    BY DEF Whole
  <1>5. \A b \in F \cup U : Peek(m, b) \in Int
    BY <1>2, <1>3, <1>4, PeekValue DEF Addr
  <1>6. /\ a \in Int /\ HeapStart <= a /\ a + 3 < Last
        /\ a = HeapStart \/ HeapStart + 4 <= a
    <2>1. CASE a = HeapStart
      BY <2>1, <1>1
    <2>2. CASE a \in F \cup U
      BY <2>2, <1>1, <1>2, <1>5
    <2> QED
      BY <2>1, <2>2
  <1>7. {a, a + 1, a + 2, a + 3} \subseteq Addr
    BY <1>1, <1>6 DEF Addr
  <1>8. Peek(m, a) \in Addr /\ Peek(m, a + 2) \in Addr
    BY <1>4, <1>7, <1>6, PeekValue
  <1>9. \A b \in F \cup U : a < b => a + 4 <= b
    <2>1. CASE a = HeapStart
      BY <2>1, <1>2
    <2>2. CASE a \in F \cup U
      BY <2>2, <1>1, <1>2, <1>5 DEF Whole, Laid
    <2> QED
      BY <2>1, <2>2
  <1>10. \A b \in F \cup U : b < a => b + 4 <= a
    <2>1. CASE a = HeapStart
      BY <2>1, <1>1, <1>2
    <2>2. CASE a \in F \cup U
      BY <2>2, <1>1, <1>2, <1>5 DEF Whole, Laid
    <2> QED
      BY <2>1, <2>2
  <1>11. \A b \in F \cup U : b # a => a + 4 <= b \/ b + 4 <= a
    BY <1>2, <1>6, <1>9, <1>10
  <1> QED
    BY <1>1, <1>6, <1>7, <1>8, <1>9, <1>11

\* The same of every block at once.
LEMMA AllHeaders ==
  ASSUME EndsBelowTop, NEW m, NEW F, NEW U, Whole(m, F, U)
  PROVE  \A c \in F \cup U \cup {HeapStart} :
           /\ c \in Int /\ 0 < c /\ HeapStart <= c /\ c + 3 < Last
           /\ c \in Addr /\ c + 1 \in Addr /\ c + 2 \in Addr /\ c + 3 \in Addr
           /\ (c + 2) + 1 = c + 3
           /\ Peek(m, c) \in Addr /\ Peek(m, c + 2) \in Addr
           /\ Peek(m, c) \in Int /\ Peek(m, c + 2) \in Int
           /\ c = HeapStart \/ HeapStart + 4 <= c
           /\ \A d \in F \cup U : d # c => c + 4 <= d \/ d + 4 <= c
  <1> SUFFICES ASSUME NEW c \in F \cup U \cup {HeapStart}
               PROVE  /\ c \in Int /\ 0 < c /\ HeapStart <= c /\ c + 3 < Last
                      /\ c \in Addr /\ c + 1 \in Addr /\ c + 2 \in Addr /\ c + 3 \in Addr
                      /\ (c + 2) + 1 = c + 3
                      /\ Peek(m, c) \in Addr /\ Peek(m, c + 2) \in Addr
                      /\ Peek(m, c) \in Int /\ Peek(m, c + 2) \in Int
                      /\ c = HeapStart \/ HeapStart + 4 <= c
                      /\ \A d \in F \cup U : d # c => c + 4 <= d \/ d + 4 <= c
    OBVIOUS
  <1>1. /\ c \in Int /\ 0 < c /\ HeapStart <= c /\ c + 3 < Last
        /\ {c, c + 1, c + 2, c + 3} \subseteq Addr
        /\ Peek(m, c) \in Addr /\ Peek(m, c + 2) \in Addr
        /\ c = HeapStart \/ HeapStart + 4 <= c
    BY Headers
  <1>2. \A d \in F \cup U : d # c => c + 4 <= d \/ d + 4 <= c
    BY Headers
  <1>3. Peek(m, c) \in Int /\ Peek(m, c + 2) \in Int
    BY <1>1 DEF Addr
  <1> QED
    BY <1>1, <1>2, <1>3

\* The structure is in the lengths and the pointers: a memory that agrees on
\* them holds the same blocks.
LEMMA SameHeaders ==
  ASSUME NEW m, NEW n \in Memories, NEW F, NEW U, Whole(m, F, U),
         Peek(n, HeapStart) = 0,
         \A a \in F \cup U : Peek(n, a) = Peek(m, a),
         \A a \in F \cup {HeapStart} : Peek(n, a + 2) = Peek(m, a + 2)
  PROVE  Whole(n, F, U) /\ \A X : JoinedBut(m, F, X) => JoinedBut(n, F, X)
  <1>1. Chain(n, F)
    BY DEF Whole, Chain
  <1>2. Laid(n, F \cup U)
    BY DEF Whole, Laid
  <1>3. Covered(n, F \cup U)
    BY DEF Whole, Covered
  <1>4. \A X : JoinedBut(m, F, X) => JoinedBut(n, F, X)
    BY DEF JoinedBut
  <1> QED
    BY <1>1, <1>2, <1>3, <1>4 DEF Whole

\* Leaving x out of the list, behind its predecessor.
LEMMA FollowsWithout ==
  ASSUME NEW F \in SUBSET Nat, NEW a \in Nat, NEW x \in F, x # 0, NEW k \in Nat,
         Follows(F, a, x), Follows(F, x, k)
  PROVE  Follows(F \ {x}, a, k)
  <1>1. a < x /\ a \in Int /\ x \in Int /\ k \in Int
    BY DEF Follows
  <1>2. k \in (F \ {x}) \cup {0}
    BY <1>1 DEF Follows
  <1>3. k # 0 => a < k
    BY <1>1 DEF Follows
  <1>4. ASSUME NEW c \in F \ {x}, a < c PROVE k # 0 /\ k <= c
    <2>1. c \in Int /\ x <= c
      BY <1>4 DEF Follows
    <2>2. x < c
      BY <1>1, <2>1
    <2> QED
      BY <2>2 DEF Follows
  <1> QED
    BY <1>2, <1>3, <1>4 DEF Follows

\* Only one block of the list comes before x.
LEMMA OnePredecessor ==
  ASSUME NEW F \in SUBSET Nat, NEW h \in Nat, \A c \in F : h < c
  PROVE  \A a, c \in F \cup {h} : \A x \in F : Follows(F, a, x) /\ Follows(F, c, x) => a = c
  <1> SUFFICES ASSUME NEW a \in F \cup {h}, NEW c \in F \cup {h}, NEW x \in F,
                      Follows(F, a, x), Follows(F, c, x)
               PROVE  a = c
    OBVIOUS
  <1>1. a \in Nat /\ c \in Nat /\ x \in Nat
    OBVIOUS
  <1>2. x # 0
    OBVIOUS
  <1>3. ASSUME a < c PROVE FALSE
    <2>1. c \in F
      BY <1>1, <1>3
    <2>2. x <= c /\ c < x
      BY <2>1, <1>2, <1>3 DEF Follows
    <2> QED
      BY <2>2, <1>1
  <1>4. ASSUME c < a PROVE FALSE
    <2>1. a \in F
      BY <1>1, <1>4
    <2>2. x <= a /\ a < x
      BY <2>1, <1>2, <1>4 DEF Follows
    <2> QED
      BY <2>2, <1>1
  <1> QED
    BY <1>1, <1>3, <1>4

\* The same for the pointers in memory: one block points to the next.
LEMMA OneBefore ==
  ASSUME EndsBelowTop, NEW m, NEW F, NEW U, Whole(m, F, U)
  PROVE  \A a, c \in F \cup {HeapStart} :
           Peek(m, a + 2) \in F /\ Peek(m, a + 2) = Peek(m, c + 2) => a = c
  <1>1. F \in SUBSET Nat /\ HeapStart \in Nat
    BY HeapAssumption DEF Addr, Whole
  <1>2. \A d \in F : HeapStart < d
    <2>1. \A d \in F : d >= HeapStart + 4 /\ d \in Int
      BY AllHeaders DEF Whole, Laid
    <2> QED
      BY <2>1, <1>1
  <1>3. \A a \in F \cup {HeapStart} : Follows(F, a, Peek(m, a + 2))
    BY DEF Whole, Chain
  <1>4. \A a, c \in F \cup {HeapStart} : \A x \in F : Follows(F, a, x) /\ Follows(F, c, x) => a = c
    BY <1>1, <1>2, OnePredecessor
  <1> QED
    BY <1>3, <1>4

-----------------------------------------------------------------------------
(* What the routines do to the list.                                       *)

\* __MEM_LINK_PREV: b goes into the list behind p.
Linked(m, p, b) == Poke(Poke(m, p + 2, b), b + 2, Peek(m, p + 2))

\* What linking leaves: p and b are not yet tested for joining.
LinkedWell(M, m, F, U, p, b) ==
  /\ Whole(M, F \cup {b}, U \ {b})
  /\ JoinedBut(M, F \cup {b}, {p, b})
  /\ Peek(M, p + 2) = b /\ Peek(M, b + 2) = Peek(m, p + 2)
  /\ \A a \in F \cup U : Peek(M, a) = Peek(m, a)
  /\ \A x \in Addr : x \notin {p + 2, p + 3, b + 2, b + 3} => M[x] = m[x]

\* Linking keeps the heap whole, but b and p may touch their successors.
LEMMA Linking ==
  ASSUME EndsBelowTop, NEW m, NEW F, NEW U, Whole(m, F, U), JoinedBut(m, F, {}),
         NEW b \in U, NEW p \in F \cup {HeapStart}, p < b,
         Peek(m, p + 2) = 0 \/ Peek(m, p + 2) >= b
  PROVE  LinkedWell(Linked(m, p, b), m, F, U, p, b)
  <1> DEFINE next == Peek(m, p + 2)
             P == Poke(m, p + 2, b)
             M == Linked(m, p, b)
             G == F \cup {b}
  <1>1. /\ m \in Memories /\ F \subseteq Addr /\ U \subseteq Addr /\ F \cap U = {}
        /\ Chain(m, F) /\ Laid(m, F \cup U) /\ Covered(m, F \cup U)
    BY DEF Whole
  <1>2. ASSUME NEW a \in F \cup U \cup {HeapStart}
        PROVE  /\ a \in Int /\ HeapStart <= a
               /\ {a, a + 1, a + 2, a + 3} \subseteq Addr
               /\ (a + 2) + 1 = a + 3
               /\ Peek(m, a) \in Addr /\ Peek(m, a + 2) \in Addr
               /\ \A d \in F \cup U : d # a => a + 4 <= d \/ d + 4 <= a
    BY AllHeaders
  <1>3. /\ p \in Int /\ b \in Int /\ {p, p + 1, p + 2, p + 3} \subseteq Addr
        /\ {b, b + 1, b + 2, b + 3} \subseteq Addr /\ p + 4 <= b
        /\ (p + 2) + 1 = p + 3 /\ (b + 2) + 1 = b + 3
        /\ next \in Addr /\ b # HeapStart /\ b # p /\ 0 < p /\ 0 < b
    BY <1>2, Headers
  <1>4. /\ P \in Memories /\ Peek(P, p + 2) = b
        /\ \A x \in Addr : x # p + 2 /\ x # p + 3 => P[x] = m[x]
    BY <1>1, <1>3, PokeValue
  <1> HIDE DEF next, P
  <1>5. /\ M \in Memories /\ Peek(M, b + 2) = next
        /\ \A x \in Addr : x # b + 2 /\ x # b + 3 => M[x] = P[x]
    <2>1. M = Poke(P, b + 2, next)
      BY DEF Linked, P, next
    <2>2. P \in Memories /\ b + 2 \in Addr /\ (b + 2) + 1 \in Addr /\ next \in Addr
      BY <1>3, <1>4
    <2>3. /\ Poke(P, b + 2, next) \in Memories /\ Peek(Poke(P, b + 2, next), b + 2) = next
          /\ \A x \in Addr : x # b + 2 /\ x # (b + 2) + 1 => Poke(P, b + 2, next)[x] = P[x]
      BY <2>2, PokeValue
    <2> QED
      BY <2>1, <2>3, <1>3
  <1> HIDE DEF M
  <1>6. \A x \in Addr : x \notin {p + 2, p + 3, b + 2, b + 3} => M[x] = m[x]
    BY <1>4, <1>5
  <1>7. ASSUME NEW a \in F \cup U \cup {HeapStart} PROVE Peek(M, a) = Peek(m, a)
    <2>1. /\ a # p + 2 /\ a # p + 3 /\ a # b + 2 /\ a # b + 3
          /\ a + 1 # p + 2 /\ a + 1 # p + 3 /\ a + 1 # b + 2 /\ a + 1 # b + 3
      BY <1>2, <1>3
    <2>2. M[a] = m[a] /\ M[a + 1] = m[a + 1]
      BY <2>1, <1>2, <1>6
    <2> QED
      BY <2>2, <1>1, <1>2, <1>5, PeekSame
  <1>8. ASSUME NEW a \in F \cup U \cup {HeapStart}, a # p, a # b PROVE Peek(M, a + 2) = Peek(m, a + 2)
    <2>1. /\ a + 2 # p + 2 /\ a + 2 # p + 3 /\ a + 2 # b + 2 /\ a + 2 # b + 3
          /\ a + 3 # p + 2 /\ a + 3 # p + 3 /\ a + 3 # b + 2 /\ a + 3 # b + 3
      BY <1>2, <1>3, <1>8
    <2>2. M[a + 2] = m[a + 2] /\ M[a + 3] = m[a + 3]
      BY <2>1, <1>2, <1>6
    <2> QED
      BY <2>2, <1>1, <1>2, <1>5, PeekSame
  <1>9. Peek(M, p + 2) = b
    <2>1. /\ p + 2 # b + 2 /\ p + 2 # b + 3 /\ p + 3 # b + 2 /\ p + 3 # b + 3
      BY <1>3
    <2>2. M[p + 2] = P[p + 2] /\ M[p + 3] = P[p + 3]
      BY <2>1, <1>3, <1>5
    <2> QED
      BY <2>2, <1>3, <1>4, <1>5, PeekSame
  <1>10. Follows(F, p, next) /\ (next = 0 \/ next >= b) /\ next \in Int
    BY <1>1, <1>3 DEF Chain, Addr, next
  <1>11. next # b /\ (next = 0 \/ next > b)
    <2>1. next \in F \cup {0} /\ b \notin F
      BY <1>1, <1>10 DEF Follows
    <2> QED
      BY <2>1, <1>3, <1>10
  <1>12. Chain(M, G)
    <2>1. Peek(M, HeapStart) = 0
      BY <1>1, <1>7 DEF Chain
    <2>2. Follows(G, p, b)
      <3>1. \A c \in F : p < c => b <= c
        BY <1>2, <1>3, <1>10 DEF Follows
      <3> QED
        BY <3>1, <1>3 DEF Follows
    <2>3. Follows(G, b, next)
      <3>1. \A c \in F : b < c => next # 0 /\ next <= c
        BY <1>2, <1>3, <1>10 DEF Follows
      <3>2. next \in G \cup {0}
        BY <1>10 DEF Follows
      <3> QED
        BY <3>1, <3>2, <1>11, <1>3 DEF Follows
    <2>4. ASSUME NEW a \in F \cup {HeapStart}, a # p PROVE Follows(G, a, Peek(m, a + 2))
      <3>1. Follows(F, a, Peek(m, a + 2)) /\ a \in Int /\ Peek(m, a + 2) \in Int
        BY <1>1, <1>2 DEF Chain, Addr
      <3>2. CASE a < p
        <4>1. p \in F
          BY <1>2, <1>3, <2>4, <3>2
        <4>2. Peek(m, a + 2) # 0 /\ Peek(m, a + 2) <= p
          BY <4>1, <3>1, <3>2 DEF Follows
        <4>3. Peek(m, a + 2) <= b
          BY <4>2, <3>1, <1>3
        <4> QED
          BY <4>2, <4>3, <3>1 DEF Follows
      <3>3. CASE p < a
        <4>1. a \in F
          BY <1>2, <1>3, <2>4, <3>3
        <4>2. next # 0 /\ next <= a
          BY <4>1, <3>3, <1>10 DEF Follows
        <4>3. b < a
          BY <4>2, <1>11, <1>10, <3>1, <1>3
        <4> QED
          BY <4>3, <3>1, <1>3 DEF Follows
      <3> QED
        BY <3>1, <3>2, <3>3, <2>4, <1>3
    <2>5. ASSUME NEW a \in F \cup {b} \cup {HeapStart} PROVE Follows(G, a, Peek(M, a + 2))
      <3>1. CASE a = p
        BY <3>1, <2>2, <1>9
      <3>2. CASE a = b
        BY <3>2, <2>3, <1>5
      <3>3. CASE a # p /\ a # b
        BY <3>3, <2>4, <1>8
      <3> QED
        BY <3>1, <3>2, <3>3
    <2> QED
      BY <2>1, <2>5 DEF Chain
  <1>13. G \cup (U \ {b}) = F \cup U
    OBVIOUS
  <1>14. \A a \in F \cup U : Peek(M, a) = Peek(m, a)
    BY <1>7
  <1>15. Laid(M, F \cup U) /\ Covered(M, F \cup U)
    BY <1>1, <1>14 DEF Laid, Covered
  <1>16. Whole(M, G, U \ {b})
    BY <1>1, <1>3, <1>5, <1>12, <1>13, <1>15 DEF Whole
  <1>17. JoinedBut(M, G, {p, b})
    <2> SUFFICES ASSUME NEW a \in G \ {p, b} PROVE a + Peek(M, a) \notin G
      BY DEF JoinedBut
    <2>1. a \in F /\ a \in F \cup U /\ a # p /\ a \in Int
      BY <1>2
    <2>2. a + Peek(M, a) \notin F
      BY <2>1, <1>14 DEF JoinedBut
    <2>3. a + Peek(m, a) # b
      <3>1. CASE a < p
        \* The block ends before its successor p begins.
        <4>1. p \in F \cup U
          BY <2>1, <3>1, <1>2
        <4>2. a + Peek(m, a) <= p /\ Peek(m, a) \in Int
          BY <4>1, <2>1, <3>1, <1>1, <1>2 DEF Laid, Addr
        <4> QED
          BY <4>2, <2>1, <1>3
      <3>2. CASE p < a
        <4>1. next # 0 /\ next <= a
          BY <2>1, <3>2, <1>10 DEF Follows
        <4>2. Peek(m, a) >= 4 /\ Peek(m, a) \in Int
          BY <2>1, <1>1, <1>2 DEF Laid, Addr
        <4> QED
          BY <4>1, <4>2, <1>10, <1>3, <2>1
      <3> QED
        BY <3>1, <3>2, <2>1, <1>3
    <2> QED
      BY <2>1, <2>2, <2>3, <1>14
  <1> QED
    BY <1>5, <1>6, <1>9, <1>14, <1>16, <1>17 DEF M, next, LinkedWell

\* __MEM_JOIN_TEST on the block at a, or on the dummy header: a block that
\* touches its successor takes it over, and no other block changes.
Rest(m, F, a) == IF a \in F /\ a + Peek(m, a) = Peek(m, a + 2)
                 THEN F \ {Peek(m, a + 2)} ELSE F

\* What the test leaves, with X the blocks not yet tested.
JoinedWell(M, G, m, F, U, a, X) ==
  /\ Whole(M, G, U) /\ JoinedBut(M, G, X \ {a})
  /\ \A c \in (G \cup U) \ {a} : Peek(M, c) = Peek(m, c)
  /\ G # F => Peek(M, a) = Peek(m, a) + Peek(m, Peek(m, a + 2))
  /\ G = F => M = m
  /\ \A x \in Addr : (a \in F /\ x \in a .. a + 3) \/ M[x] = m[x]

\* A join test keeps the heap whole, and afterwards a touches no free block.
LEMMA Joining ==
  ASSUME EndsBelowTop, NEW m, NEW F, NEW U, Whole(m, F, U),
         NEW a \in F \cup {HeapStart}, NEW X, JoinedBut(m, F, X),
         a \in F => Peek(m, a + 2) \notin X
  PROVE  JoinedWell(JoinTest(m, a), Rest(m, F, a), m, F, U, a, X)
  <1> DEFINE size == Peek(m, a)
             next == Peek(m, a + 2)
             more == Peek(m, next)
             after == Peek(m, next + 2)
             P == Poke(m, a, size + more)
             M == JoinTest(m, a)
             G == Rest(m, F, a)
  <1>1. /\ m \in Memories /\ F \subseteq Addr /\ U \subseteq Addr /\ F \cap U = {}
        /\ Chain(m, F) /\ Laid(m, F \cup U) /\ Covered(m, F \cup U)
    BY DEF Whole
  <1>2. ASSUME NEW c \in F \cup U \cup {HeapStart}
        PROVE  /\ c \in Int /\ 0 < c /\ HeapStart <= c /\ c + 3 < Last
               /\ {c, c + 1, c + 2, c + 3} \subseteq Addr
               /\ (c + 2) + 1 = c + 3
               /\ Peek(m, c) \in Addr /\ Peek(m, c + 2) \in Addr
               /\ Peek(m, c) \in Int /\ Peek(m, c + 2) \in Int
               /\ c = HeapStart \/ HeapStart + 4 <= c
               /\ \A d \in F \cup U : d # c => c + 4 <= d \/ d + 4 <= c
    BY AllHeaders
  <1>3. /\ Word \in Int /\ Last \in Int /\ Last < Word /\ HeapStart \in Int /\ HeapStart > 0
    BY HeapAssumption, WordType DEF EndsBelowTop, Last
  <1>4. Follows(F, a, next)
    BY <1>1 DEF Chain
  <1>5. a \in Int /\ size \in Int /\ next \in Int /\ size \in Addr /\ next \in Addr
    BY <1>2
  <1>6. a \in F => size >= 4 /\ a + size <= Last /\ a > HeapStart
    BY <1>1, <1>2, <1>3, <1>5 DEF Laid
  <1>7. a \notin F => size = 0 /\ a = HeapStart
    BY <1>1 DEF Chain
  <1>8. (a + size) % Word = a + size
    <2>1. a + size \in Addr
      BY <1>2, <1>3, <1>5, <1>6, <1>7 DEF Addr
    <2> QED
      BY <2>1, Unwrapped
  <1>9. CASE ~(a \in F /\ a + size = next)
    <2>1. a + size # next
      <3>1. CASE a \in F
        BY <3>1, <1>9
      <3>2. CASE a \notin F
        <4>1. next = 0 \/ a < next
          BY <1>4 DEF Follows
        <4> QED
          BY <4>1, <3>2, <1>3, <1>5, <1>7
      <3> QED
        BY <3>1, <3>2
    <2>2. M = m
      BY <2>1, <1>8 DEF JoinTest
    <2>3. G = F
      BY <1>9 DEF Rest
    <2>4. JoinedBut(m, F, X \ {a})
      <3> SUFFICES ASSUME NEW c \in F \ (X \ {a}) PROVE c + Peek(m, c) \notin F
        BY DEF JoinedBut
      <3>1. CASE c # a
        BY <3>1 DEF JoinedBut
      <3>2. CASE c = a
        <4>1. a \in F /\ a + size # next
          BY <3>2, <2>1
        <4>2. ASSUME a + size \in F PROVE FALSE
          \* The successor would be the block between a and its own end.
          <5>1. next # 0 /\ next <= a + size /\ a < next /\ next \in F
            BY <4>1, <4>2, <1>4, <1>5, <1>6 DEF Follows
          <5>2. a + size <= next
            BY <5>1, <4>1, <1>1 DEF Laid
          <5> QED
            BY <5>1, <5>2, <4>1, <1>5
        <4> QED
          BY <4>2, <3>2
      <3> QED
        BY <3>1, <3>2
    <2> HIDE DEF M, G
    <2>5. Whole(M, G, U) /\ JoinedBut(M, G, X \ {a}) /\ M = m /\ G = F
      BY <2>2, <2>3, <2>4
    <2> QED
      BY <2>5 DEF M, G, JoinedWell
  <1>10. CASE a \in F /\ a + size = next
    <2>1. next \in F /\ next # 0 /\ a < next /\ next # a
      <3>1. a < next /\ 0 < next
        <4> HIDE DEF size, next
        <4> QED
          BY <1>5, <1>6, <1>10, <1>3
      <3>2. next \in F \cup {0}
        BY <1>4 DEF Follows
      <3> QED
        BY <3>1, <3>2, <1>5
    <2>2. more \in Int /\ more \in Addr /\ after \in Int /\ after \in Addr /\ more >= 4
          /\ next + more <= Last
      BY <2>1, <1>1, <1>2 DEF Laid
    <2>3. size + more \in Addr /\ size + more \in Int
      BY <2>2, <1>3, <1>5, <1>6, <1>10 DEF Addr
    <2>4. Follows(F, next, after)
      BY <2>1, <1>1 DEF Chain
    <2>5. /\ {a, a + 1, a + 2, a + 3} \subseteq Addr /\ (a + 2) + 1 = a + 3
          /\ a + 4 <= next
      BY <1>2, <1>5, <1>6, <1>10
    <2>6. M = Poke(P, a + 2, after) /\ G = F \ {next}
      <3>1. (size + more) % Word = size + more
        BY <2>3, Unwrapped
      <3>2. M = Poke(Poke(m, a, (size + more) % Word), a + 2, after)
        BY <1>8, <1>10 DEF JoinTest
      <3>3. G = F \ {next}
        BY <1>10 DEF Rest
      <3> QED
        BY <3>1, <3>2, <3>3
    <2>7. /\ P \in Memories /\ Peek(P, a) = size + more
          /\ \A x \in Addr : x # a /\ x # a + 1 => P[x] = m[x]
      <3>1. a \in Addr /\ a + 1 \in Addr
        BY <2>5
      <3> HIDE DEF size, more
      <3> QED
        BY <3>1, <1>1, <2>3, PokeValue
    <2> HIDE DEF P, M, G, size, next, more, after
    <2>8. a + 2 \in Addr /\ (a + 2) + 1 \in Addr /\ a + 1 \in Addr /\ a \in Addr
      BY <2>5
    <2>9. /\ M \in Memories /\ Peek(M, a + 2) = after
          /\ \A x \in Addr : x # a + 2 /\ x # a + 3 => M[x] = P[x]
      <3>1. /\ Poke(P, a + 2, after) \in Memories /\ Peek(Poke(P, a + 2, after), a + 2) = after
            /\ \A x \in Addr : x # a + 2 /\ x # (a + 2) + 1 => Poke(P, a + 2, after)[x] = P[x]
        BY <2>7, <2>8, <2>2, PokeValue
      <3> QED
        BY <3>1, <2>6, <2>5
    <2>10. \A x \in Addr : x \notin {a, a + 1, a + 2, a + 3} => M[x] = m[x]
      BY <2>7, <2>9
    <2>11. Peek(M, a) = size + more
      <3>1. M[a] = P[a] /\ M[a + 1] = P[a + 1]
        BY <2>8, <2>9, <1>5
      <3> QED
        BY <3>1, <2>7, <2>8, <2>9, PeekSame
    <2>12. ASSUME NEW c \in F \cup U \cup {HeapStart}, c # a
           PROVE  Peek(M, c) = Peek(m, c) /\ Peek(M, c + 2) = Peek(m, c + 2)
      <3>1. a + 4 <= c \/ c + 4 <= a
        BY <2>12, <1>2, <1>5, <1>10
      <3>2. /\ c \in Int /\ c \in Addr /\ c + 1 \in Addr /\ c + 2 \in Addr /\ c + 3 \in Addr
            /\ (c + 2) + 1 = c + 3
        BY <1>2
      <3>3. M[c] = m[c] /\ M[c + 1] = m[c + 1] /\ M[c + 2] = m[c + 2] /\ M[c + 3] = m[c + 3]
        BY <3>1, <3>2, <2>10, <1>5
      <3> QED
        BY <3>2, <3>3, <1>1, <2>9, PeekSame
    <2>13. Chain(M, G)
      <3>1. Peek(M, HeapStart) = 0
        BY <2>12, <1>1, <1>6, <1>10, <1>3, <1>5 DEF Chain
      <3>2. Follows(G, a, after)
        <4>1. F \in SUBSET Nat /\ a \in Nat /\ after \in Nat
          BY <1>1, <1>10, <2>2 DEF Addr
        <4> QED
          BY <4>1, <2>1, <2>4, <2>6, <1>4, FollowsWithout
      <3>3. ASSUME NEW c \in G \cup {HeapStart}, c # a
            PROVE  Follows(G, c, Peek(M, c + 2))
        <4>1. c \in F \cup {HeapStart} /\ Follows(F, c, Peek(m, c + 2)) /\ c # next
          <5>1. next # HeapStart
            BY <2>1, <1>6, <1>10, <1>3, <1>5
          <5> QED
            BY <5>1, <2>6, <1>1 DEF Chain
        <4>2. Peek(m, c + 2) # next
          <5>1. next = Peek(m, a + 2)
            BY DEF next
          <5> QED
            BY <5>1, <4>1, <2>1, <1>10, <3>3, OneBefore
        <4>3. Follows(G, c, Peek(m, c + 2))
          BY <4>1, <4>2, <2>6 DEF Follows
        <4> QED
          BY <4>3, <4>1, <3>3, <2>12
      <3> QED
        BY <3>1, <3>2, <3>3, <2>9 DEF Chain
    <2>14. ASSUME NEW c \in G \cup U
           PROVE  /\ c \in F \cup U /\ c # next /\ c \in Int /\ Peek(m, c) \in Int
                  /\ c = a => Peek(M, c) = size + more
                  /\ c # a => Peek(M, c) = Peek(m, c)
                  /\ Peek(M, c) \in Int
                  /\ c >= HeapStart + 4 /\ Peek(m, c) >= 4 /\ c + Peek(m, c) <= Last
                  /\ Peek(m, a) = size
      <3>1. c \in F \cup U /\ c # next
        BY <2>1, <2>6, <1>1
      <3>2. /\ c \in Int /\ Peek(m, c) \in Int
            /\ c >= HeapStart + 4 /\ Peek(m, c) >= 4 /\ c + Peek(m, c) <= Last
        BY <3>1, <1>1, <1>2 DEF Laid
      <3>3. /\ c = a => Peek(M, c) = size + more
            /\ c # a => Peek(M, c) = Peek(m, c)
        BY <3>1, <2>11, <2>12
      <3>4. Peek(m, a) = size
        BY DEF size
      <3> QED
        BY <3>1, <3>2, <3>3, <3>4, <2>3
    <2>15. Laid(M, G \cup U)
      <3>1. ASSUME NEW c \in G \cup U
            PROVE  c >= HeapStart + 4 /\ Peek(M, c) >= 4 /\ c + Peek(M, c) <= Last
        <4>1. CASE c = a
          BY <4>1, <2>14, <2>2, <1>5, <1>6, <1>10, <1>3
        <4>2. CASE c # a
          BY <4>2, <2>14
        <4> QED
          BY <4>1, <4>2
      <3>2. ASSUME NEW c \in G \cup U, NEW d \in G \cup U, c < d
            PROVE  c + Peek(M, c) <= d
        <4>1. CASE c = a
          <5>1. a < next /\ a < d /\ d # next /\ d \in F \cup U /\ d \in Int
            BY <4>1, <3>2, <2>1, <2>14
          <5>2. next <= d
            <6>1. a + Peek(m, a) <= d
              BY <5>1, <1>1, <1>10 DEF Laid
            <6> QED
              BY <6>1, <2>14, <1>10
          <5>3. next < d
            BY <5>1, <5>2, <1>5
          <5>4. next + Peek(m, next) <= d
            BY <5>1, <5>3, <2>1, <1>1 DEF Laid
          <5>5. next + more <= d
            BY <5>4 DEF more
          <5> QED
            BY <5>5, <4>1, <2>14, <2>2, <1>5, <1>10
        <4>2. CASE c # a
          BY <4>2, <3>2, <2>14, <1>1 DEF Laid
        <4> QED
          BY <4>1, <4>2
      <3> QED
        BY <3>1, <3>2 DEF Laid
    <2>16. Covered(M, G \cup U)
      <3> SUFFICES ASSUME NEW x \in HeapStart + 4 .. Last - 1
                   PROVE  \E c \in G \cup U : c <= x /\ x < c + Peek(M, c)
        BY DEF Covered
      <3>1. PICK c \in F \cup U : c <= x /\ x < c + Peek(m, c)
        BY <1>1 DEF Covered
      <3>2. a \in G
        BY <2>1, <2>6, <1>10
      <3>3. CASE c = a \/ c = next
        <4>1. Peek(m, a) = size /\ Peek(m, next) = more /\ x \in Int
          BY <1>3 DEF size, more
        <4>2. a <= x /\ x < a + (size + more)
          BY <4>1, <3>1, <3>3, <2>1, <2>2, <1>5, <1>10
        <4> QED
          BY <4>2, <3>2, <2>11
      <3>4. CASE c # a /\ c # next
        <4>1. c \in G \cup U
          BY <3>4, <2>6
        <4> QED
          BY <4>1, <3>1, <3>4, <2>14
      <3> QED
        BY <3>3, <3>4
    <2>17. Whole(M, G, U)
      BY <1>1, <2>6, <2>9, <2>13, <2>15, <2>16 DEF Whole
    <2>18. JoinedBut(M, G, X \ {a})
      <3> SUFFICES ASSUME NEW c \in G \ (X \ {a}) PROVE c + Peek(M, c) \notin G
        BY DEF JoinedBut
      <3>1. CASE c = a
        <4>1. next \notin X
          BY <1>10 DEF next
        <4>2. next + Peek(m, next) \notin F
          BY <4>1, <2>1 DEF JoinedBut
        <4>3. a + (size + more) = next + more
          BY <1>5, <1>10, <2>2
        <4> QED
          BY <4>2, <4>3, <3>1, <2>6, <2>11 DEF more
      <3>2. CASE c # a
        <4>1. c \in F \ X /\ Peek(M, c) = Peek(m, c)
          BY <3>2, <2>6, <2>14
        <4> QED
          BY <4>1, <2>6 DEF JoinedBut
      <3> QED
        BY <3>1, <3>2
    <2>19. \A c \in (G \cup U) \ {a} : Peek(M, c) = Peek(m, c)
      BY <2>14
    <2>20. \A x \in Addr : x \in a .. a + 3 \/ M[x] = m[x]
      <3> SUFFICES ASSUME NEW x \in Addr, x \notin a .. a + 3 PROVE M[x] = m[x]
        OBVIOUS
      <3>1. x \notin {a, a + 1, a + 2, a + 3}
        BY <1>5
      <3> QED
        BY <3>1, <2>10
    <2>21. G # F /\ Peek(M, a) = size + more
      BY <2>1, <2>6, <2>11
    <2> QED
      BY <1>10, <2>17, <2>18, <2>19, <2>20, <2>21 DEF M, G, size, next, more, JoinedWell
  <1> QED
    BY <1>9, <1>10

\* LinkPrev: linking and the two join tests together.  The block released ends
\* up in the block j, which spans it and the free neighbours it touches.
ReleasedWell(M, G, m, F, U, p, b, j, size) ==
  /\ Whole(M, G, U \ {b}) /\ JoinedBut(M, G, {}) /\ j \in G
  /\ Peek(M, j) = size
  /\ \A c \in (G \cup U) \ {b, j} : Peek(M, c) = Peek(m, c)
  /\ \A x \in Addr : x \in p .. p + 3 \/ x \in b .. b + 3 \/ M[x] = m[x]

\* The two tests join b to the neighbours it touches and nothing else changes.
LEMMA Releasing ==
  ASSUME EndsBelowTop, NEW m, NEW F, NEW U, Whole(m, F, U), JoinedBut(m, F, {}),
         NEW b \in U, NEW p \in F \cup {HeapStart}, p < b,
         NEW n, n = Peek(m, p + 2), n = 0 \/ n >= b,
         NEW touchesNext \in BOOLEAN, touchesNext <=> b + Peek(m, b) = n,
         NEW touchesPrevious \in BOOLEAN, touchesPrevious <=> p \in F /\ p + Peek(m, p) = b,
         NEW j, j = (IF touchesPrevious THEN p ELSE b),
         NEW G, G = (F \ (IF touchesNext THEN {n} ELSE {})) \cup (IF touchesPrevious THEN {} ELSE {b}),
         NEW size, size = (IF touchesPrevious THEN Peek(m, p) ELSE 0)
                            + (Peek(m, b) + (IF touchesNext THEN Peek(m, n) ELSE 0))
  PROVE  ReleasedWell(JoinTest(JoinTest(Linked(m, p, b), b), p), G, m, F, U, p, b, j, size)
  <1>1. /\ m \in Memories /\ F \subseteq Addr /\ U \subseteq Addr /\ F \cap U = {}
        /\ Chain(m, F) /\ Laid(m, F \cup U)
    BY DEF Whole
  <1>2. \A c \in F \cup U \cup {HeapStart} :
          /\ c \in Int /\ 0 < c /\ c \in Addr /\ c + 1 \in Addr /\ c + 2 \in Addr /\ c + 3 \in Addr
          /\ (c + 2) + 1 = c + 3 /\ Peek(m, c) \in Int /\ Peek(m, c + 2) \in Int
          /\ \A d \in F \cup U : d # c => c + 4 <= d \/ d + 4 <= c
    BY AllHeaders
  <1>3. /\ b \in Int /\ p \in Int /\ n \in Int /\ 0 < b /\ 0 < p /\ p + 4 <= b /\ b # p /\ b \notin F
        /\ Peek(m, b) \in Int /\ Peek(m, p) \in Int
    BY <1>1, <1>2
  <1>4. Follows(F, p, n)
    BY <1>1 DEF Chain
  <1>5. n \in F \cup {0} /\ n # p /\ n # b /\ (n = 0 \/ b < n)
    BY <1>3, <1>4 DEF Follows
  <1>6. Peek(m, b) >= 4 /\ (touchesNext => n \in F)
    <2>1. Peek(m, b) >= 4
      BY <1>1 DEF Laid
    <2>2. n # 0 => n \in F
      BY <1>5
    <2>3. b + Peek(m, b) = n => n # 0
      BY <2>1, <1>3
    <2> QED
      BY <2>1, <2>2, <2>3
  \* Linking.
  <1>7. PICK L : L = Linked(m, p, b)
    OBVIOUS
  <1>8. PICK F1, U1 : F1 = F \cup {b} /\ U1 = U \ {b}
    OBVIOUS
  <1>9. /\ Whole(L, F1, U1) /\ JoinedBut(L, F1, {p, b})
        /\ Peek(L, p + 2) = b /\ Peek(L, b + 2) = n
        /\ \A a \in F \cup U : Peek(L, a) = Peek(m, a)
        /\ \A x \in Addr : x \notin {p + 2, p + 3, b + 2, b + 3} => L[x] = m[x]
    <2>1. Peek(m, p + 2) = 0 \/ Peek(m, p + 2) >= b
      OBVIOUS
    <2>2. LinkedWell(Linked(m, p, b), m, F, U, p, b)
      BY <2>1, Linking
    <2> QED
      BY <2>2, <1>7, <1>8 DEF LinkedWell
  \* The join test on b.
  <1>10. PICK M1 : M1 = JoinTest(L, b)
    OBVIOUS
  <1>11. PICK G1 : G1 = F1 \ (IF touchesNext THEN {n} ELSE {})
    OBVIOUS
  <1>12. /\ Whole(M1, G1, U1) /\ JoinedBut(M1, G1, {p})
         /\ \A c \in (G1 \cup U1) \ {b} : Peek(M1, c) = Peek(L, c)
         /\ Peek(M1, b) = Peek(m, b) + (IF touchesNext THEN Peek(m, n) ELSE 0)
         /\ \A x \in Addr : x \in b .. b + 3 \/ M1[x] = L[x]
    <2>1. b \in F1 /\ Peek(L, b) = Peek(m, b)
      BY <1>8, <1>9
    <2>2. Peek(L, b + 2) \notin {p, b}
      BY <1>5, <1>9
    <2>3. G1 = Rest(L, F1, b)
      BY <2>1, <1>9, <1>11 DEF Rest
    <2>4. /\ Whole(M1, G1, U1) /\ JoinedBut(M1, G1, {p, b} \ {b})
          /\ \A c \in (G1 \cup U1) \ {b} : Peek(M1, c) = Peek(L, c)
          /\ G1 # F1 => Peek(M1, b) = Peek(L, b) + Peek(L, Peek(L, b + 2))
          /\ G1 = F1 => M1 = L
          /\ \A x \in Addr : (b \in F1 /\ x \in b .. b + 3) \/ M1[x] = L[x]
      <3>1. b \in F1 \cup {HeapStart} /\ (b \in F1 => Peek(L, b + 2) \notin {p, b})
        BY <2>1, <2>2
      <3>2. JoinedWell(JoinTest(L, b), Rest(L, F1, b), L, F1, U1, b, {p, b})
        BY <3>1, <1>9, Joining
      <3> QED
        BY <3>2, <2>3, <1>10 DEF JoinedWell
    <2>5. {p, b} \ {b} = {p}
      BY <1>3
    <2>6. Peek(M1, b) = Peek(m, b) + (IF touchesNext THEN Peek(m, n) ELSE 0)
      <3>1. CASE touchesNext
        <4>1. G1 # F1 /\ n \in F
          BY <3>1, <1>6, <1>8, <1>11
        <4> QED
          BY <3>1, <4>1, <2>1, <2>4, <1>9
      <3>2. CASE ~touchesNext
        BY <3>2, <2>1, <2>4, <1>3, <1>11
      <3> QED
        BY <3>1, <3>2
    <2> QED
      BY <2>4, <2>5, <2>6
  \* The join test on its predecessor.
  <1>13. PICK M2 : M2 = JoinTest(M1, p)
    OBVIOUS
  <1>14. Peek(M1, p + 2) = b
    <2>1. /\ p + 2 \in Addr /\ p + 3 \in Addr /\ (p + 2) + 1 = p + 3
      BY <1>2
    <2>2. M1[p + 2] = L[p + 2] /\ M1[p + 3] = L[p + 3]
      BY <2>1, <1>3, <1>12
    <2>3. M1 \in Memories /\ L \in Memories
      BY <1>9, <1>12 DEF Whole
    <2> QED
      BY <2>1, <2>2, <2>3, <1>9, PeekSame
  <1>15. (p \in F <=> p \in G1) /\ b \in G1 /\ p \in G1 \cup {HeapStart}
    BY <1>3, <1>5, <1>8, <1>11
  <1>16. p \in F => Peek(M1, p) = Peek(m, p)
    BY <1>3, <1>9, <1>12, <1>15
  <1>17. G = Rest(M1, G1, p) /\ G = IF touchesPrevious THEN G1 \ {b} ELSE G1
    <2>1. touchesPrevious = (p \in G1 /\ p + Peek(M1, p) = Peek(M1, p + 2))
      BY <1>14, <1>15, <1>16
    <2>2. G = IF touchesPrevious THEN G1 \ {b} ELSE G1
      BY <1>3, <1>5, <1>8, <1>11
    <2> QED
      BY <2>1, <2>2, <1>14 DEF Rest
  <1>18. /\ Whole(M2, G, U1) /\ JoinedBut(M2, G, {p} \ {p})
         /\ \A c \in (G \cup U1) \ {p} : Peek(M2, c) = Peek(M1, c)
         /\ G # G1 => Peek(M2, p) = Peek(M1, p) + Peek(M1, Peek(M1, p + 2))
         /\ G = G1 => M2 = M1
         /\ \A x \in Addr : (p \in G1 /\ x \in p .. p + 3) \/ M2[x] = M1[x]
    <2>1. Peek(M1, p + 2) \notin {p}
      BY <1>3, <1>14
    <2>2. JoinedWell(JoinTest(M1, p), Rest(M1, G1, p), M1, G1, U1, p, {p})
      BY <2>1, <1>12, <1>15, Joining
    <2> QED
      BY <2>2, <1>13, <1>17 DEF JoinedWell
  <1>19. JoinedBut(M2, G, {})
    <2>1. {p} \ {p} = {}
      OBVIOUS
    <2> QED
      BY <2>1, <1>18
  <1>20. j \in G /\ Peek(M2, j) = (IF touchesPrevious THEN Peek(m, p) ELSE 0)
                      + (Peek(m, b) + (IF touchesNext THEN Peek(m, n) ELSE 0))
    <2>1. Peek(M1, b) \in Int
      <3>1. \A c \in G1 : Peek(M1, c) \in Int
        BY <1>12, AllHeaders
      <3> QED
        BY <3>1, <1>15
    <2>2. CASE touchesPrevious
      <3>1. p \in F /\ j = p /\ G1 # G /\ p \in G
        BY <2>2, <1>3, <1>5, <1>15
      <3>2. Peek(M2, p) = Peek(m, p) + Peek(M1, b)
        BY <3>1, <1>14, <1>16, <1>18
      <3> QED
        BY <3>1, <3>2, <2>2, <1>12
    <2>3. CASE ~touchesPrevious
      <3>1. j = b /\ G = G1
        BY <2>3, <1>17
      <3>2. Peek(M2, b) = Peek(M1, b)
        BY <3>1, <1>18
      <3> QED
        BY <3>1, <3>2, <2>1, <2>3, <1>12, <1>15
    <2> QED
      BY <2>2, <2>3
  <1>21. ASSUME NEW c \in (G \cup U) \ {b, j} PROVE Peek(M2, c) = Peek(m, c)
    <2>1. c \in (G1 \cup U1) \ {b} /\ c \in F \cup U /\ c \in G \cup U1
      BY <1>8, <1>11, <1>17
    <2>2. Peek(M1, c) = Peek(m, c)
      BY <2>1, <1>9, <1>12
    <2>3. CASE c # p
      BY <2>1, <2>2, <2>3, <1>18
    <2>4. CASE c = p
      <3>1. ~touchesPrevious
        BY <2>4
      <3>2. G = G1
        BY <3>1, <1>17
      <3> QED
        BY <3>2, <2>2, <1>18
    <2> QED
      BY <2>3, <2>4
  <1>22. ASSUME NEW x \in Addr, x \notin p .. p + 3, x \notin b .. b + 3 PROVE M2[x] = m[x]
    <2>1. x \notin {p + 2, p + 3, b + 2, b + 3}
      BY <1>3, <1>22
    <2> QED
      BY <2>1, <1>9, <1>12, <1>18, <1>22
  <1>23. M2 = JoinTest(JoinTest(Linked(m, p, b), b), p)
    BY <1>7, <1>10, <1>13
  <1> QED
    BY <1>8, <1>18, <1>19, <1>20, <1>21, <1>22, <1>23 DEF ReleasedWell

\* TakeWhole: the block found, x behind p, is left out of the list.
UnlinkedWell(M, m, F, U, p, x) ==
  /\ Whole(M, F \ {x}, U \cup {x})
  /\ \A X : JoinedBut(m, F, X) => JoinedBut(M, F \ {x}, X)
  /\ \A a \in F \cup U : Peek(M, a) = Peek(m, a)
  /\ \A y \in Addr : y \notin {p + 2, p + 3} => M[y] = m[y]

\* The bytes of x are handed out; nobody else's move.
LEMMA Unlinking ==
  ASSUME EndsBelowTop, NEW m, NEW F, NEW U, Whole(m, F, U),
         NEW x \in F, NEW p \in F \cup {HeapStart}, Peek(m, p + 2) = x
  PROVE  UnlinkedWell(Poke(m, p + 2, Peek(m, x + 2)), m, F, U, p, x)
  <1> DEFINE after == Peek(m, x + 2)
             M == Poke(m, p + 2, after)
             G == F \ {x}
  <1>1. /\ m \in Memories /\ F \subseteq Addr /\ U \subseteq Addr /\ F \cap U = {}
        /\ Chain(m, F) /\ Laid(m, F \cup U) /\ Covered(m, F \cup U)
    BY DEF Whole
  <1>2. ASSUME NEW c \in F \cup U \cup {HeapStart}
        PROVE  /\ c \in Int /\ 0 < c /\ HeapStart <= c
               /\ c \in Addr /\ c + 1 \in Addr /\ c + 2 \in Addr /\ c + 3 \in Addr
               /\ (c + 2) + 1 = c + 3
               /\ Peek(m, c + 2) \in Addr /\ Peek(m, c + 2) \in Int
               /\ c = HeapStart \/ HeapStart + 4 <= c
               /\ \A d \in F \cup U : d # c => c + 4 <= d \/ d + 4 <= c
    BY AllHeaders
  <1>3. Follows(F, p, x) /\ Follows(F, x, after)
    BY <1>1 DEF Chain
  <1>4. x # 0 /\ p < x /\ p \in Int /\ x \in Int /\ p # x /\ x # HeapStart
    BY <1>2, <1>3, HeapAssumption DEF Follows
  <1>5. after \in Addr /\ p + 2 \in Addr /\ (p + 2) + 1 \in Addr /\ (p + 2) + 1 = p + 3
        /\ after \in Int
    BY <1>2
  <1> HIDE DEF after
  <1>6. /\ M \in Memories /\ Peek(M, p + 2) = after
        /\ \A y \in Addr : y # p + 2 /\ y # (p + 2) + 1 => M[y] = m[y]
    BY <1>1, <1>5, PokeValue
  <1> HIDE DEF M
  <1>7. \A y \in Addr : y \notin {p + 2, p + 3} => M[y] = m[y]
    BY <1>5, <1>6
  <1>8. ASSUME NEW c \in F \cup U \cup {HeapStart} PROVE Peek(M, c) = Peek(m, c)
    <2>1. c # p + 2 /\ c # p + 3 /\ c + 1 # p + 2 /\ c + 1 # p + 3
      <3>1. CASE c = p
        BY <3>1, <1>4
      <3>2. CASE c = HeapStart /\ c # p
        BY <3>2, <1>2
      <3>3. CASE c \in F \cup U /\ c # p
        <4>1. p + 4 <= c \/ c + 4 <= p
          BY <3>3, <1>2
        <4> QED
          BY <4>1, <1>2, <1>4
      <3> QED
        BY <3>1, <3>2, <3>3
    <2>2. M[c] = m[c] /\ M[c + 1] = m[c + 1]
      BY <2>1, <1>2, <1>7
    <2> QED
      BY <2>2, <1>1, <1>2, <1>6, PeekSame
  <1>9. ASSUME NEW c \in F \cup {HeapStart}, c # p PROVE Peek(M, c + 2) = Peek(m, c + 2)
    <2>1. p + 4 <= c \/ c + 4 <= p
      BY <1>2, <1>9
    <2>2. c + 2 # p + 2 /\ c + 2 # p + 3 /\ c + 3 # p + 2 /\ c + 3 # p + 3
      BY <2>1, <1>2, <1>4
    <2>3. M[c + 2] = m[c + 2] /\ M[c + 3] = m[c + 3]
      BY <2>2, <1>2, <1>7
    <2> QED
      BY <2>3, <1>1, <1>2, <1>6, PeekSame
  <1>10. Chain(M, G)
    <2>1. Peek(M, HeapStart) = 0
      BY <1>1, <1>8 DEF Chain
    <2>2. Follows(G, p, after)
      <3>1. F \in SUBSET Nat /\ p \in Nat /\ after \in Nat
        BY <1>1, <1>2, <1>5 DEF Addr
      <3> QED
        BY <3>1, <1>3, <1>4, FollowsWithout
    <2>3. ASSUME NEW c \in G \cup {HeapStart}, c # p PROVE Follows(G, c, Peek(M, c + 2))
      <3>1. Follows(F, c, Peek(m, c + 2)) /\ c \in F \cup {HeapStart} /\ c # x
        BY <1>1, <1>4 DEF Chain
      <3>2. ASSUME Peek(m, c + 2) = x PROVE FALSE
        <4>1. p = c
          BY <3>1, <3>2, OneBefore
        <4> QED
          BY <4>1, <2>3
      <3>3. Follows(G, c, Peek(m, c + 2))
        BY <3>1, <3>2 DEF Follows
      <3> QED
        BY <3>1, <3>3, <2>3, <1>9
    <2> QED
      BY <2>1, <2>2, <2>3, <1>6 DEF Chain
  <1>11. G \cup (U \cup {x}) = F \cup U
    OBVIOUS
  <1>12. \A a \in F \cup U : Peek(M, a) = Peek(m, a)
    BY <1>8
  <1>13. Laid(M, F \cup U) /\ Covered(M, F \cup U)
    BY <1>1, <1>12 DEF Laid, Covered
  <1>14. Whole(M, G, U \cup {x})
    BY <1>1, <1>2, <1>6, <1>10, <1>11, <1>13 DEF Whole
  <1>15. \A X : JoinedBut(m, F, X) => JoinedBut(M, F \ {x}, X)
    BY <1>12 DEF JoinedBut
  <1> QED
    BY <1>7, <1>12, <1>14, <1>15 DEF M, after, UnlinkedWell

\* TakeTail: x keeps rest bytes and the need bytes behind them are handed out.
SplitWell(M, m, F, U, x, rest, need) ==
  /\ x + rest \notin F \cup U
  /\ Whole(M, F, U \cup {x + rest})
  /\ JoinedBut(m, F, {}) => JoinedBut(M, F, {})
  /\ Peek(M, x) = rest /\ Peek(M, x + rest) = need
  /\ \A a \in (F \cup U) \ {x} : Peek(M, a) = Peek(m, a)
  /\ \A y \in Addr : y \notin {x, x + 1, x + rest, x + rest + 1} => M[y] = m[y]

\* The two pieces lie where x was.
LEMMA Splitting ==
  ASSUME EndsBelowTop, NEW m, NEW F, NEW U, Whole(m, F, U),
         NEW x \in F, NEW rest \in Addr, NEW need \in Addr,
         rest >= 4, need >= 4, rest + need = Peek(m, x)
  PROVE  SplitWell(Poke(Poke(m, x, rest), x + rest, need), m, F, U, x, rest, need)
  <1> DEFINE t == x + rest
             P == Poke(m, x, rest)
             M == Poke(P, t, need)
  <1>1. /\ m \in Memories /\ F \subseteq Addr /\ U \subseteq Addr /\ F \cap U = {}
        /\ Chain(m, F) /\ Laid(m, F \cup U) /\ Covered(m, F \cup U)
    BY DEF Whole
  <1>2. ASSUME NEW c \in F \cup U \cup {HeapStart}
        PROVE  /\ c \in Int /\ 0 < c /\ HeapStart <= c
               /\ c \in Addr /\ c + 1 \in Addr /\ c + 2 \in Addr /\ c + 3 \in Addr
               /\ (c + 2) + 1 = c + 3
               /\ Peek(m, c) \in Addr /\ Peek(m, c) \in Int
               /\ Peek(m, c + 2) \in Addr /\ Peek(m, c + 2) \in Int
               /\ c = HeapStart \/ HeapStart + 4 <= c
               /\ \A d \in F \cup U : d # c => c + 4 <= d \/ d + 4 <= c
    BY AllHeaders
  <1>3. /\ Word \in Int /\ Last \in Int /\ Last < Word /\ HeapStart \in Int /\ HeapStart > 0
        /\ rest \in Int /\ need \in Int
    BY HeapAssumption, WordType DEF EndsBelowTop, Last, Addr
  <1>4. \A c \in F \cup U : /\ c >= HeapStart + 4 /\ Peek(m, c) >= 4 /\ c + Peek(m, c) <= Last
                            /\ c \in Int /\ Peek(m, c) \in Int
    BY <1>1, <1>2 DEF Laid
  <1>5. \A c, d \in F \cup U : c < d => c + Peek(m, c) <= d
    BY <1>1 DEF Laid
  <1>6. /\ x \in Int /\ t \in Int /\ x + 4 <= t /\ t + need = x + Peek(m, x) /\ t + need <= Last
        /\ t \in Addr /\ t + 1 \in Addr /\ x \in Addr /\ x + 1 \in Addr /\ HeapStart + 4 <= x
    <2>1. x + Peek(m, x) <= Last /\ x \in Int /\ Peek(m, x) \in Int /\ HeapStart + 4 <= x
      BY <1>4
    <2> QED
      BY <2>1, <1>2, <1>3 DEF Addr
  <1> HIDE DEF t
  <1>7. /\ P \in Memories /\ Peek(P, x) = rest
        /\ \A y \in Addr : y # x /\ y # x + 1 => P[y] = m[y]
    BY <1>1, <1>6, PokeValue
  <1> HIDE DEF P
  <1>8. /\ M \in Memories /\ Peek(M, t) = need
        /\ \A y \in Addr : y # t /\ y # t + 1 => M[y] = P[y]
    BY <1>6, <1>7, PokeValue
  <1> HIDE DEF M
  <1>9. \A y \in Addr : y \notin {x, x + 1, t, t + 1} => M[y] = m[y]
    BY <1>7, <1>8
  <1>10. Peek(M, x) = rest
    <2>1. x # t /\ x # t + 1 /\ x + 1 # t /\ x + 1 # t + 1
      BY <1>6
    <2>2. M[x] = P[x] /\ M[x + 1] = P[x + 1]
      BY <2>1, <1>6, <1>8
    <2> QED
      BY <2>2, <1>6, <1>7, <1>8, PeekSame
  <1>11. ASSUME NEW c \in F \cup U \cup {HeapStart}, c # x
         PROVE  c + 4 <= x \/ t + 4 <= c
    <2>1. CASE c = HeapStart
      BY <2>1, <1>6, <1>3
    <2>2. CASE c \in F \cup U /\ c < x
      <3>1. c + Peek(m, c) <= x
        BY <2>2, <1>5
      <3> QED
        BY <3>1, <2>2, <1>4, <1>6
    <2>3. CASE c \in F \cup U /\ x < c
      <3>1. x + Peek(m, x) <= c
        BY <2>3, <1>5
      <3>2. Peek(m, x) \in Int
        BY <1>4
      <3> QED
        BY <3>1, <3>2, <2>3, <1>4, <1>6, <1>3
    <2> QED
      BY <2>1, <2>2, <2>3, <1>2, <1>6, <1>11
  <1>12. ASSUME NEW c \in F \cup U \cup {HeapStart}
         PROVE  /\ c # x => Peek(M, c) = Peek(m, c)
                /\ c = x \/ c \in F \cup {HeapStart} => Peek(M, c + 2) = Peek(m, c + 2)
    <2>1. c = x \/ c + 4 <= x \/ t + 4 <= c
      BY <1>11
    <2>2. /\ c \in Int /\ c \in Addr /\ c + 1 \in Addr /\ c + 2 \in Addr /\ c + 3 \in Addr
          /\ (c + 2) + 1 = c + 3
      BY <1>2
    <2>3. c # x => M[c] = m[c] /\ M[c + 1] = m[c + 1]
      BY <2>1, <2>2, <1>6, <1>9
    <2>4. M[c + 2] = m[c + 2] /\ M[c + 3] = m[c + 3]
      BY <2>1, <2>2, <1>6, <1>9
    <2> QED
      BY <2>2, <2>3, <2>4, <1>1, <1>8, PeekSame
  <1>13. t \notin F \cup U
    <2>1. SUFFICES ASSUME t \in F \cup U PROVE FALSE
      OBVIOUS
    <2> QED
      BY <2>1, <1>11, <1>6
  <1>14. Chain(M, F)
    BY <1>1, <1>12, <1>2, <1>6, <1>3 DEF Chain
  <1>15. Laid(M, F \cup (U \cup {t}))
    <2>1. ASSUME NEW c \in F \cup (U \cup {t})
          PROVE  c >= HeapStart + 4 /\ Peek(M, c) >= 4 /\ c + Peek(M, c) <= Last
      <3>1. CASE c = t
        BY <3>1, <1>8, <1>6, <1>3
      <3>2. CASE c = x
        BY <3>2, <1>10, <1>6, <1>3
      <3>3. CASE c # t /\ c # x
        BY <3>3, <1>4, <1>12
      <3> QED
        BY <3>1, <3>2, <3>3
    <2>2. ASSUME NEW c \in F \cup (U \cup {t}), NEW d \in F \cup (U \cup {t}), c < d
          PROVE  c + Peek(M, c) <= d
      <3>1. CASE c # t /\ c # x /\ d # t
        BY <3>1, <2>2, <1>5, <1>12
      <3>2. CASE c # t /\ c # x /\ d = t
        <4>1. c \in F \cup U /\ c < x
          BY <3>2, <2>2, <1>4, <1>6, <1>11
        <4>2. c + Peek(m, c) <= x
          BY <4>1, <1>5
        <4> QED
          BY <4>1, <4>2, <3>2, <1>4, <1>6, <1>12
      <3>3. CASE c = x
        <4>1. x + rest = t
          BY DEF t
        <4>2. d = t \/ t + 4 <= d
          <5>1. CASE d = t
            BY <5>1
          <5>2. CASE d # t
            <6>1. d \in F \cup U /\ d # x /\ d \in Int
              BY <5>2, <3>3, <2>2, <1>4, <1>6
            <6> QED
              BY <6>1, <1>11, <3>3, <2>2, <1>6
          <5> QED
            BY <5>1, <5>2
        <4>3. d \in Int
          BY <1>4, <1>6
        <4> QED
          BY <4>1, <4>2, <4>3, <3>3, <1>10, <1>6
      <3>4. CASE c = t
        <4>1. d \in F \cup U /\ x < d
          BY <3>4, <2>2, <1>4, <1>6
        <4>2. x + Peek(m, x) <= d
          BY <4>1, <1>5
        <4> QED
          BY <4>2, <3>4, <1>8, <1>6
      <3> QED
        BY <3>1, <3>2, <3>3, <3>4
    <2> QED
      BY <2>1, <2>2 DEF Laid
  <1>16. Covered(M, F \cup (U \cup {t}))
    <2> SUFFICES ASSUME NEW y \in HeapStart + 4 .. Last - 1
                 PROVE  \E c \in F \cup (U \cup {t}) : c <= y /\ y < c + Peek(M, c)
      BY DEF Covered
    <2>1. PICK c \in F \cup U : c <= y /\ y < c + Peek(m, c)
      BY <1>1 DEF Covered
    <2>2. CASE c # x
      BY <2>1, <2>2, <1>12
    <2>3. CASE c = x
      <3>1. y \in Int /\ x + rest = t
        BY <1>3 DEF t
      <3>2. CASE y < t
        <4>1. x <= y /\ y < x + Peek(M, x)
          BY <3>1, <3>2, <2>1, <2>3, <1>10
        <4> QED
          BY <4>1
      <3>3. CASE t <= y
        <4>1. y < t + Peek(M, t)
          BY <3>3, <2>1, <2>3, <1>8, <1>6
        <4> QED
          BY <4>1, <3>3
      <3> QED
        BY <3>1, <3>2, <3>3, <1>6
    <2> QED
      BY <2>2, <2>3
  <1>17. Whole(M, F, U \cup {t})
    BY <1>1, <1>6, <1>8, <1>13, <1>14, <1>15, <1>16 DEF Whole
  <1>18. ASSUME JoinedBut(m, F, {}) PROVE JoinedBut(M, F, {})
    <2> SUFFICES ASSUME NEW c \in F PROVE c + Peek(M, c) \notin F
      BY DEF JoinedBut
    <2>1. CASE c = x
      <3>1. x + rest = t
        BY DEF t
      <3> QED
        BY <2>1, <3>1, <1>10, <1>13
    <2>2. CASE c # x
      BY <2>2, <1>12, <1>18 DEF JoinedBut
    <2> QED
      BY <2>1, <2>2
  <1>19. \A a \in (F \cup U) \ {x} : Peek(M, a) = Peek(m, a)
    BY <1>12
  <1> QED
    BY <1>8, <1>9, <1>10, <1>13, <1>17, <1>18, <1>19 DEF M, P, t, SplitWell

\* The bytes of a block are its own.
LEMMA Body ==
  ASSUME EndsBelowTop, NEW m, NEW F, NEW U, Whole(m, F, U),
         NEW u \in F \cup U, NEW y \in Int, u <= y, y < u + Peek(m, u)
  PROVE  /\ y \in Addr /\ HeapStart + 4 <= y /\ y < Last
         /\ \A c \in F \cup U : c # u => y < c \/ c + Peek(m, c) <= y
         /\ \A c \in F \cup {HeapStart} : c # u => y < c \/ c + 4 <= y
  <1>1. Laid(m, F \cup U)
    BY DEF Whole
  <1>2. \A c \in F \cup U : /\ c \in Int /\ Peek(m, c) \in Int /\ Peek(m, c) >= 4
                            /\ HeapStart + 4 <= c /\ c + Peek(m, c) <= Last
    BY <1>1, AllHeaders DEF Laid
  <1>3. Last < Word /\ Last \in Int /\ HeapStart \in Int /\ HeapStart > 0 /\ Word \in Int
    BY HeapAssumption, WordType DEF EndsBelowTop, Last
  <1>4. HeapStart + 4 <= y /\ y < Last
    BY <1>2, <1>3
  <1>5. y \in Addr
    BY <1>3, <1>4 DEF Addr
  <1>6. ASSUME NEW c \in F \cup U, c # u PROVE y < c \/ c + Peek(m, c) <= y
    <2>1. CASE c < u
      BY <2>1, <1>1, <1>2 DEF Laid
    <2>2. CASE u < c
      BY <2>2, <1>1, <1>2 DEF Laid
    <2> QED
      BY <2>1, <2>2, <1>2, <1>6
  <1>7. ASSUME NEW c \in F \cup {HeapStart}, c # u PROVE y < c \/ c + 4 <= y
    <2>1. CASE c = HeapStart
      BY <2>1, <1>4
    <2>2. CASE c \in F
      BY <2>2, <1>6, <1>7, <1>2
    <2> QED
      BY <2>1, <2>2
  <1> QED
    BY <1>4, <1>5, <1>6, <1>7

\* What is written behind the length word of a block handed out leaves the heap
\* as it was.
LEMMA Inside ==
  ASSUME EndsBelowTop, NEW m, NEW F, NEW U, Whole(m, F, U), NEW n \in Memories, NEW u \in U,
         \A y \in Addr : y \in u + 2 .. u + Peek(m, u) - 1 \/ n[y] = m[y]
  PROVE  /\ Whole(n, F, U) /\ \A X : JoinedBut(m, F, X) => JoinedBut(n, F, X)
         /\ \A a \in F \cup U : Peek(n, a) = Peek(m, a)
         /\ \A c \in F \cup U : c # u =>
              \A y \in Int : c <= y /\ y < c + Peek(m, c) => n[y] = m[y]
  <1>1. /\ m \in Memories /\ F \cap U = {} /\ Chain(m, F) /\ Laid(m, F \cup U)
    BY DEF Whole
  <1>2. \A c \in F \cup U \cup {HeapStart} :
          /\ c \in Int /\ c \in Addr /\ c + 1 \in Addr /\ c + 2 \in Addr /\ c + 3 \in Addr
          /\ (c + 2) + 1 = c + 3 /\ Peek(m, c) \in Int
          /\ c = HeapStart \/ HeapStart + 4 <= c
    BY AllHeaders
  <1>3. u \in F \cup U /\ u \notin F
    BY <1>1
  <1>4. ASSUME NEW y \in Addr, u > y \/ y >= u + Peek(m, u) \/ y = u \/ y = u + 1
        PROVE  n[y] = m[y]
    BY <1>2, <1>3, <1>4 DEF Addr
  <1>5. ASSUME NEW c \in F \cup U, c # u, NEW y \in Int, c <= y, y < c + Peek(m, c)
        PROVE  n[y] = m[y]
    <2>1. y \in Addr /\ (y < u \/ u + Peek(m, u) <= y)
      BY <1>3, <1>5, Body
    <2> QED
      BY <2>1, <1>2, <1>3, <1>4
  <1>6. ASSUME NEW c \in F \cup {HeapStart}
        PROVE  n[c] = m[c] /\ n[c + 1] = m[c + 1] /\ n[c + 2] = m[c + 2] /\ n[c + 3] = m[c + 3]
    <2>1. CASE c = HeapStart
      <3>1. u >= HeapStart + 4 /\ HeapStart \in Int
        BY <1>1, <1>2, <1>3 DEF Laid
      <3> QED
        BY <2>1, <3>1, <1>2, <1>3, <1>4
    <2>2. CASE c \in F
      <3>1. Peek(m, c) >= 4 /\ c # u /\ c \in F \cup U
        BY <2>2, <1>1 DEF Laid
      <3>2. c <= c + 3 /\ c + 3 < c + Peek(m, c)
        BY <3>1, <1>2
      <3> QED
        BY <3>1, <3>2, <1>2, <1>5
    <2> QED
      BY <2>1, <2>2
  <1>7. \A c \in F \cup {HeapStart} : Peek(n, c) = Peek(m, c) /\ Peek(n, c + 2) = Peek(m, c + 2)
    BY <1>1, <1>2, <1>6, PeekSame
  <1>8. ASSUME NEW c \in F \cup U PROVE Peek(n, c) = Peek(m, c)
    <2>1. CASE c = u
      BY <2>1, <1>1, <1>2, <1>3, <1>4, PeekSame
    <2>2. CASE c # u
      <3>1. Peek(m, c) >= 4
        BY <1>1 DEF Laid
      <3>2. n[c] = m[c] /\ n[c + 1] = m[c + 1]
        BY <2>2, <3>1, <1>2, <1>5
      <3> QED
        BY <3>2, <1>1, <1>2, PeekSame
    <2> QED
      BY <2>1, <2>2
  <1>9. Peek(n, HeapStart) = 0
    BY <1>1, <1>7 DEF Chain
  <1> QED
    BY <1>5, <1>7, <1>8, <1>9, SameHeaders

-----------------------------------------------------------------------------
(* What holds at every step.                                               *)

\* The types of the state.
Typing ==
  /\ mem \in Memories
  /\ pc \in {"MEM_INIT", "idle", "MEM_LOOP", "MEM_LOOP2", "MEM_RET", "REALLOC_ALLOC"}
  /\ call \in {"init", "none", "alloc", "calloc", "free", "realloc"}
  /\ owner \in Owners \cup {NoOne}
  /\ length \in Addr
  /\ hl \in Addr /\ bc \in Addr /\ temp \in Addr /\ from \in Addr /\ first2 \in Addr
  /\ ptr \in [Owners -> Addr]
  /\ len \in [Owners -> Nat]
  /\ intact \in [Owners -> Nat]
  /\ moved \in [Owners -> BOOLEAN]

\* Where the blocks handed out start, the one found but not yet returned included.
Held == {ptr[o] - 2 : o \in {x \in Owners : ptr[x] # 0}}
          \cup (IF pc = "MEM_RET" /\ hl # 0 THEN {hl - 2} ELSE {})

\* The block of o is long enough and holds what o stored in it.
Served(o) ==
  /\ Peek(mem, ptr[o] - 2) \in len[o] + 2 .. len[o] + 5
  /\ intact[o] <= len[o]
  /\ ~moved[o] => Holds(o, intact[o])

\* Every owner is served, by a block of its own.
Handles ==
  /\ \A o \in Owners : ptr[o] # 0 => Served(o)
  /\ \A o, p \in Owners : ptr[o] # 0 /\ ptr[o] = ptr[p] => o = p

\* Where each routine is in the list.
Calling ==
  /\ pc = "idle" => call = "none" /\ owner = NoOne
  /\ pc # "idle" => owner \in Owners
  /\ pc = "MEM_LOOP2" => call \in {"free", "realloc"} /\ ptr[owner] # 0
  /\ pc \in {"MEM_LOOP", "MEM_RET", "REALLOC_ALLOC"} =>
       /\ call \in {"alloc", "calloc", "realloc"} /\ ptr[owner] = 0
       /\ length \in Requests
  /\ pc = "MEM_LOOP2" /\ call = "realloc" => length \in Requests
  /\ pc = "REALLOC_ALLOC" => call = "realloc"
  /\ pc = "MEM_RET" /\ hl # 0 =>
       /\ Peek(mem, hl - 2) \in length + 2 .. length + 5
       /\ \A o \in Owners : ptr[o] # hl

\* Where the walks are, and what they have passed.
Walking(F) ==
  /\ pc = "MEM_LOOP2" => bc = ptr[owner] - 2 /\ hl \in F \cup {HeapStart} /\ hl < bc
  /\ pc = "MEM_LOOP" =>
       /\ bc = length + 2
       /\ hl \in F \cup {HeapStart, 0}
       /\ hl # HeapStart => temp - 2 \in F \cup {HeapStart} /\ Peek(mem, temp) = hl
       /\ \A c \in F : hl = 0 \/ c < hl => Peek(mem, c) < bc

\* What __REALLOC is going to copy: two bytes on the stack and the others still
\* where they were, behind the header of a free block or in the block found.
RestHolds == \A i \in 2 .. intact[owner] - 1 : mem[from - 2 + i] = Mark[owner]

\* __REALLOC loses nothing on its way from one call to the next.
Saved(F) ==
  call = "realloc" /\ ~moved[owner] =>
    /\ intact[owner] >= 1 => first2 % Radix = Mark[owner]
    /\ intact[owner] >= 2 => first2 \div Radix = Mark[owner]
    /\ HeapStart + 8 <= from /\ from - 2 + intact[owner] <= Last
    /\ pc = "MEM_LOOP2" => from = ptr[owner] + 2
    /\ pc \in {"REALLOC_ALLOC", "MEM_LOOP"} =>
         /\ RestHolds
         /\ \E f \in F : f + 4 <= from /\ from - 2 + intact[owner] <= f + Peek(mem, f)
    /\ pc = "MEM_RET" /\ hl # 0 /\ ~Overtakes => RestHolds

\* What a step that only writes behind the headers leaves.
Unmoved(F) == Held' = Held /\ \A a \in F \cup Held : Peek(mem', a) = Peek(mem, a)

\* The heap in use: F are the starts of the free blocks.
Running(F) ==
  /\ Whole(mem, F, Held) /\ JoinedBut(mem, F, {})
  /\ Handles /\ Calling /\ Walking(F) /\ Saved(F)

\* Before __MEM_INIT nobody has called.
Fresh == pc = "MEM_INIT" /\ ptr = [o \in Owners |-> 0]

\* From __MEM_INIT on there is a heap.
Started == pc # "MEM_INIT" /\ \E F \in SUBSET Addr : Running(F)

\* The inductive invariant.
IInv == Typing /\ (Fresh \/ Started)

-----------------------------------------------------------------------------
(* The invariant holds at the start and after __MEM_INIT.                  *)

\* What __MEM_INIT2 writes is a heap of one free block.
LEMMA Initialised ==
  ASSUME EndsBelowTop, NEW m \in Memories
  PROVE  LET header == Poke(Poke(m, HeapStart, 0), HeapStart + 2, HeapStart + 4)
             M == Poke(Poke(header, HeapStart + 4, HeapSize - 4), HeapStart + 6, 0)
         IN /\ Whole(M, {HeapStart + 4}, {}) /\ JoinedBut(M, {HeapStart + 4}, {})
            /\ Peek(M, HeapStart + 4) = HeapSize - 4
  <1> DEFINE h == HeapStart
             a == HeapStart + 2
             b == HeapStart + 4
             c == HeapStart + 6
  <1>1. /\ Word \in Int /\ HeapStart \in Int /\ HeapSize \in Int /\ HeapStart > 0 /\ HeapSize >= 8
        /\ HeapStart + HeapSize < Word /\ Last = HeapStart + HeapSize
    BY HeapAssumption, WordType DEF EndsBelowTop, Last
  <1>2. /\ h \in Addr /\ h + 1 \in Addr /\ a \in Addr /\ a + 1 \in Addr
        /\ b \in Addr /\ b + 1 \in Addr /\ c \in Addr /\ c + 1 \in Addr
        /\ HeapSize - 4 \in Addr /\ 0 \in Addr
    BY <1>1 DEF Addr
  <1>3. h + 2 = a /\ a + 2 = b /\ b + 2 = c /\ h \in Int /\ a \in Int /\ b \in Int /\ c \in Int
        /\ b + (HeapSize - 4) = Last /\ h + 4 = b
    BY <1>1
  <1>4. PICK m1 : m1 = Poke(m, h, 0)
    OBVIOUS
  <1>5. PICK m2 : m2 = Poke(m1, a, b)
    OBVIOUS
  <1>6. PICK m3 : m3 = Poke(m2, b, HeapSize - 4)
    OBVIOUS
  <1>7. PICK M : M = Poke(m3, c, 0)
    OBVIOUS
  <1> HIDE DEF h, a, b, c
  <1>8. m1 \in Memories /\ Peek(m1, h) = 0
    BY <1>2, <1>4, PokeValue
  <1>9. m2 \in Memories /\ Peek(m2, a) = b /\ Peek(m2, h) = 0
    BY <1>2, <1>3, <1>5, <1>8, PokeValue, PokeApart
  <1>10. /\ m3 \in Memories /\ Peek(m3, b) = HeapSize - 4
         /\ Peek(m3, a) = b /\ Peek(m3, h) = 0
    <2>1. PICK v \in Addr : v = HeapSize - 4
      BY <1>2
    <2>2. m3 = Poke(m2, b, v)
      BY <2>1, <1>6
    <2>3. b + 2 <= a \/ a + 2 <= b
      BY <1>3
    <2>4. b + 2 <= h \/ h + 2 <= b
      BY <1>3
    <2>5. m3 \in Memories /\ Peek(m3, b) = v
      BY <2>2, <1>2, <1>9, PokeValue
    <2> QED
      BY <2>1, <2>2, <2>3, <2>4, <2>5, <1>2, <1>9, PokeApart
  <1>11. /\ M \in Memories /\ Peek(M, c) = 0 /\ Peek(M, b) = HeapSize - 4
         /\ Peek(M, a) = b /\ Peek(M, h) = 0
    BY <1>2, <1>3, <1>7, <1>10, PokeValue, PokeApart
  <1>12. Chain(M, {b})
    <2>1. Follows({b}, h, b)
      BY <1>1, <1>3 DEF Follows, h, b
    <2>2. Follows({b}, b, 0)
      BY <1>3 DEF Follows
    <2> QED
      BY <2>1, <2>2, <1>3, <1>11 DEF Chain, h
  <1>13. Laid(M, {b}) /\ Covered(M, {b}) /\ JoinedBut(M, {b}, {})
    <2>1. b = HeapStart + 4
      BY DEF b
    <2> QED
      BY <2>1, <1>1, <1>3, <1>11 DEF Laid, Covered, JoinedBut
  <1>14. Whole(M, {b}, {})
    BY <1>2, <1>11, <1>12, <1>13 DEF Whole
  <1> QED
    BY <1>4, <1>5, <1>6, <1>7, <1>11, <1>13, <1>14 DEF h, a, b, c

\* Before __MEM_INIT.
LEMMA InitInv == Init => IInv
  <1> SUFFICES ASSUME Init PROVE IInv
    OBVIOUS
  <1>1. 0 \in Addr
    BY WordType DEF Addr
  <1>2. Typing
    BY <1>1, HeapAssumption DEF Init, Typing, Memories
  <1>3. Fresh
    BY DEF Init, Fresh
  <1> QED
    BY <1>2, <1>3 DEF IInv

\* __MEM_INIT makes the heap, whatever memory held.
LEMMA MemInitInv ==
  ASSUME EndsBelowTop, IInv, MemInit
  PROVE  /\ IInv' /\ pc' # "MEM_INIT" /\ Held' = {} /\ Running({HeapStart + 4})'
         /\ Peek(mem', HeapStart + 4) = HeapSize - 4
  <1> DEFINE F == {HeapStart + 4}
  <1>1. /\ pc' = "idle" /\ call' = "none" /\ owner' = NoOne /\ length' = 0
        /\ hl' = 0 /\ bc' = 0 /\ temp' = 0 /\ first2' = 0 /\ from' = 0
        /\ ptr' = ptr /\ len' = len /\ intact' = intact /\ moved' = moved
    BY DEF MemInit, Return, callers
  <1>2. Typing /\ Fresh
    BY DEF IInv, MemInit, Started
  <1>3. /\ Whole(mem', F, {}) /\ JoinedBut(mem', F, {})
        /\ Peek(mem', HeapStart + 4) = HeapSize - 4
    BY <1>2, Initialised DEF MemInit, Typing
  <1>4. \A o \in Owners : ptr'[o] = 0
    BY <1>1, <1>2 DEF Fresh
  <1>5. Held' = {}
    BY <1>1, <1>4 DEF Held
  <1>6. Typing'
    <2>1. mem' \in Memories /\ 0 \in Addr
      BY <1>3, WordType DEF Whole, Addr
    <2> QED
      BY <2>1, <1>1, <1>2 DEF Typing
  <1>7. Handles'
    BY <1>4 DEF Handles
  <1>8. Calling' /\ Walking(F)' /\ Saved(F)'
    BY <1>1 DEF Calling, Walking, Saved
  <1>9. Running(F)'
    BY <1>3, <1>5, <1>7, <1>8 DEF Running
  <1>10. F \in SUBSET Addr
    BY <1>3 DEF Whole
  <1>11. Started'
    <2> HIDE DEF F
    <2> QED
      BY <1>1, <1>9, <1>10 DEF Started
  <1> QED
    BY <1>1, <1>3, <1>5, <1>6, <1>9, <1>11 DEF IInv

-----------------------------------------------------------------------------
(* Calls and walks leave the memory alone.                                 *)

\* As long as memory, handles and held blocks stay, so does the heap.
LEMMA SameMemory ==
  ASSUME NEW F, Running(F), mem' = mem, callers' = callers, Held' = Held
  PROVE  Whole(mem, F, Held)' /\ JoinedBut(mem, F, {})' /\ Handles'
  <1>1. ptr' = ptr /\ len' = len /\ intact' = intact /\ moved' = moved
    BY DEF callers
  <1>2. Handles'
    BY <1>1 DEF Running, Handles, Served, Holds
  <1>3. Whole(mem', F, Held') /\ JoinedBut(mem', F, {})
    BY DEF Running
  <1> QED
    BY <1>2, <1>3

\* A block handed out lies in the arena and is as long as its length word says.
LEMMA HeldBlock ==
  ASSUME EndsBelowTop, Typing, NEW F, Running(F), NEW o \in Owners, ptr[o] # 0
  PROVE  /\ ptr[o] - 2 \in Held /\ ptr[o] - 2 \in Addr /\ ptr[o] \in Int
         /\ HeapStart + 4 <= ptr[o] - 2
         /\ Peek(mem, ptr[o] - 2) \in Int
         /\ ptr[o] - 2 + Peek(mem, ptr[o] - 2) <= Last
         /\ len[o] \in Nat /\ intact[o] \in Nat /\ Served(o)
         /\ ptr[o] + len[o] <= ptr[o] - 2 + Peek(mem, ptr[o] - 2)
         /\ ptr[o] + intact[o] <= ptr[o] + len[o] /\ ptr[o] + len[o] <= Last
         /\ ptr[o] + intact[o] <= Last
  <1>1. ptr[o] - 2 \in Held
    BY DEF Held
  <1>2. ptr[o] \in Int /\ len[o] \in Nat /\ intact[o] \in Nat
    BY DEF Typing, Addr
  <1>3. Whole(mem, F, Held) /\ Laid(mem, F \cup Held)
    BY DEF Running, Whole
  <1>4. /\ ptr[o] - 2 \in Addr /\ Peek(mem, ptr[o] - 2) \in Int
        /\ HeapStart + 4 <= ptr[o] - 2 /\ ptr[o] - 2 + Peek(mem, ptr[o] - 2) <= Last
    BY <1>1, <1>3, AllHeaders DEF Laid
  <1>5. Served(o)
    BY DEF Running, Handles
  <1>6. /\ Peek(mem, ptr[o] - 2) >= len[o] + 2 /\ intact[o] <= len[o]
    BY <1>5 DEF Served
  <1>7. Last \in Int
    BY HeapAssumption DEF Last
  <1> QED
    BY <1>1, <1>2, <1>4, <1>5, <1>6, <1>7

\* __MEM_ALLOC starts at the dummy header, with BC the length and 2 more.
LEMMA CallAllocInv ==
  ASSUME EndsBelowTop, Askable, Typing, pc = "idle", NEW F, Running(F),
         NEW o \in Owners, NEW n \in Requests, ptr[o] = 0,
         NEW routine \in {"alloc", "calloc"}, Call(routine, o, n), EnterAlloc(n),
         mem' = mem, first2' = first2, from' = from, callers' = callers
  PROVE  Typing' /\ pc' # "MEM_INIT" /\ Running(F)'
  <1>1. /\ pc' = "MEM_LOOP" /\ call' = routine /\ owner' = o /\ length' = n
        /\ bc' = (n + 2) % Word /\ hl' = HeapStart /\ temp' = 0
        /\ ptr' = ptr /\ len' = len /\ intact' = intact /\ moved' = moved
    BY DEF Call, EnterAlloc, callers
  <1>2. n \in Addr /\ n + 2 \in Addr /\ (n + 2) % Word = n + 2
    <2>1. n \in 2 .. Word - 3 /\ Word \in Int
      BY WordType DEF Askable
    <2>2. n \in Addr /\ n + 2 \in Addr
      BY <2>1 DEF Addr
    <2> QED
      BY <2>2, Unwrapped
  <1>3. Typing'
    <2>1. HeapStart \in Addr /\ 0 \in Addr
      BY HeapAssumption, WordType DEF Addr
    <2> QED
      BY <1>1, <1>2, <2>1 DEF Typing
  <1>4. Held' = Held
    BY <1>1 DEF Held
  <1>5. Calling'
    BY <1>1 DEF Calling
  <1>6. Walking(F)'
    <2>1. \A c \in F : ~ (HeapStart = 0 \/ c < HeapStart)
      BY HeapAssumption, AllHeaders DEF Running
    <2> QED
      BY <2>1, <1>1, <1>2 DEF Walking
  <1>7. Saved(F)'
    BY <1>1 DEF Saved
  <1> QED
    BY <1>1, <1>3, <1>4, <1>5, <1>6, <1>7, SameMemory DEF Running

\* __MEM_FREE starts, on its own or for __REALLOC.
LEMMA EnterFreeInv ==
  ASSUME EndsBelowTop, Askable, Typing, pc = "idle", NEW F, Running(F),
         NEW o \in Owners, NEW n \in Requests \cup {0}, ptr[o] # 0,
         NEW routine \in {"free", "realloc"}, Call(routine, o, n), EnterFree(ptr[o]),
         mem' = mem, callers' = callers,
         routine = "free" => first2' = first2 /\ from' = from,
         routine = "realloc" => /\ n \in Requests
                                /\ first2' = Peek(mem, ptr[o]) /\ from' = (ptr[o] + 2) % Word
  PROVE  Typing' /\ pc' # "MEM_INIT" /\ Running(F)'
  <1>1. /\ pc' = "MEM_LOOP2" /\ call' = routine /\ owner' = o /\ length' = n
        /\ bc' = (ptr[o] - 2) % Word /\ hl' = HeapStart /\ temp' = temp
        /\ ptr' = ptr /\ len' = len /\ intact' = intact /\ moved' = moved
    BY DEF Call, EnterFree, callers
  <1>2. n \in Addr
    BY WordType DEF Askable, Addr
  <1>3. /\ ptr[o] - 2 \in Addr /\ HeapStart + 4 <= ptr[o] - 2 /\ ptr[o] \in Int
        /\ ptr[o] - 2 + Peek(mem, ptr[o] - 2) <= Last /\ Peek(mem, ptr[o] - 2) \in Int
        /\ ptr[o] - 2 \in Held /\ intact[o] \in Nat /\ ptr[o] + intact[o] <= Last
        /\ Served(o)
    BY HeldBlock
  <1>4. HeapStart \in Int /\ HeapStart \in Addr /\ Word \in Int /\ Last < Word /\ Last \in Int
    BY HeapAssumption, WordType DEF Addr, EndsBelowTop, Last
  <1>5. Peek(mem, ptr[o] - 2) >= 4
    BY <1>3 DEF Running, Whole, Laid
  <1>6. ptr[o] \in Addr /\ ptr[o] + 1 \in Addr /\ ptr[o] + 2 \in Addr /\ HeapStart + 8 <= ptr[o] + 2
        /\ (ptr[o] + 2) - 2 + intact[o] <= Last
    BY <1>3, <1>4, <1>5 DEF Addr
  <1>7. (ptr[o] - 2) % Word = ptr[o] - 2 /\ (ptr[o] + 2) % Word = ptr[o] + 2
    BY <1>3, <1>6, Unwrapped
  <1>8. mem \in Memories
    BY DEF Typing
  <1>9. Peek(mem, ptr[o]) \in Addr
    BY <1>6, <1>8, PeekValue
  <1>10. Typing'
    BY <1>1, <1>2, <1>3, <1>4, <1>6, <1>7, <1>9 DEF Typing
  <1>11. Held' = Held
    BY <1>1 DEF Held
  <1>12. Calling'
    BY <1>1 DEF Calling
  <1>13. Walking(F)'
    BY <1>1, <1>3, <1>4, <1>7 DEF Walking
  <1>14. Saved(F)'
    <2> SUFFICES ASSUME routine = "realloc", ~moved[o]
                 PROVE  /\ intact[o] >= 1 => first2' % Radix = Mark[o]
                        /\ intact[o] >= 2 => first2' \div Radix = Mark[o]
                        /\ HeapStart + 8 <= from' /\ from' - 2 + intact[o] <= Last
                        /\ from' = ptr[o] + 2
      BY <1>1 DEF Saved
    <2>1. Peek(mem, ptr[o]) = mem[ptr[o]] + Radix * mem[ptr[o] + 1]
      BY <1>6, <1>8, PeekValue
    <2>2. mem[ptr[o]] \in 0 .. Radix - 1 /\ mem[ptr[o] + 1] \in 0 .. Radix - 1
      BY <1>6, <1>8 DEF Memories
    <2>3. first2' % Radix = mem[ptr[o]] /\ first2' \div Radix = mem[ptr[o] + 1]
      BY <2>1, <2>2, Digits
    <2>4. \A i \in 0 .. intact[o] - 1 : mem[ptr[o] + i] = Mark[o]
      BY <1>3 DEF Served, Holds
    <2>5. intact[o] >= 1 => mem[ptr[o]] = Mark[o]
      <3>1. ptr[o] + 0 = ptr[o] /\ (intact[o] >= 1 => 0 \in 0 .. intact[o] - 1)
        BY <1>3
      <3> QED
        BY <3>1, <2>4
    <2>6. intact[o] >= 2 => mem[ptr[o] + 1] = Mark[o]
      <3>1. intact[o] >= 2 => 1 \in 0 .. intact[o] - 1
        BY <1>3
      <3> QED
        BY <3>1, <2>4
    <2> QED
      BY <2>3, <2>5, <2>6, <1>6, <1>7
  <1> QED
    BY <1>1, <1>10, <1>11, <1>12, <1>13, <1>14, SameMemory DEF Running

\* The calls of the three entry points.
LEMMA CallsInv ==
  ASSUME EndsBelowTop, Askable, Typing, pc # "MEM_INIT", NEW F, Running(F),
         NEW o \in Owners, NEW n,
         (n \in Requests /\ (CallAlloc(o, n) \/ CallRealloc(o, n))) \/ CallFree(o)
  PROVE  Typing' /\ pc' # "MEM_INIT" /\ Running(F)'
  <1>1. CASE n \in Requests /\ CallAlloc(o, n)
    <2>1. PICK routine \in {"alloc", "calloc"} : Call(routine, o, n)
      BY <1>1 DEF CallAlloc
    <2>2. /\ ptr[o] = 0 /\ EnterAlloc(n) /\ pc = "idle"
          /\ mem' = mem /\ first2' = first2 /\ from' = from /\ callers' = callers
      BY <1>1, <2>1 DEF CallAlloc, Call
    <2> QED
      BY <2>1, <2>2, <1>1, CallAllocInv
  <1>2. CASE n \in Requests /\ CallRealloc(o, n) /\ ptr[o] = 0
    <2>1. /\ Call("alloc", o, n) /\ EnterAlloc(n) /\ pc = "idle"
          /\ mem' = mem /\ first2' = first2 /\ from' = from /\ callers' = callers
      BY <1>2 DEF CallRealloc, Call
    <2> QED
      BY <2>1, <1>2, CallAllocInv
  <1>3. CASE n \in Requests /\ CallRealloc(o, n) /\ ptr[o] # 0
    <2>1. /\ Call("realloc", o, n) /\ EnterFree(ptr[o]) /\ pc = "idle"
          /\ mem' = mem /\ callers' = callers
          /\ first2' = Peek(mem, ptr[o]) /\ from' = (ptr[o] + 2) % Word
      BY <1>3 DEF CallRealloc, Call
    <2> QED
      BY <2>1, <1>3, EnterFreeInv
  <1>4. CASE CallFree(o)
    <2>1. /\ Call("free", o, 0) /\ EnterFree(ptr[o]) /\ pc = "idle" /\ ptr[o] # 0
          /\ mem' = mem /\ callers' = callers /\ first2' = first2 /\ from' = from
      BY <1>4 DEF CallFree, Call
    <2> QED
      BY <2>1, EnterFreeInv
  <1> QED
    BY <1>1, <1>2, <1>3, <1>4

\* The walk of __MEM_ALLOC: every block passed is too short.
LEMMA TooShortInv ==
  ASSUME EndsBelowTop, Askable, Typing, NEW F, Running(F), TooShort
  PROVE  Typing' /\ pc' # "MEM_INIT" /\ Running(F)'
  <1>1. /\ pc = "MEM_LOOP" /\ hl # 0 /\ Peek(mem, hl) < bc
        /\ temp' = (hl + 2) % Word /\ hl' = Peek(mem, hl + 2)
        /\ mem' = mem /\ pc' = pc /\ call' = call /\ owner' = owner /\ length' = length
        /\ bc' = bc /\ first2' = first2 /\ from' = from
        /\ callers' = callers /\ ptr' = ptr /\ moved' = moved /\ intact' = intact /\ len' = len
    BY DEF TooShort, callers
  <1>2. Walking(F) /\ Calling /\ Saved(F) /\ Whole(mem, F, Held)
    BY DEF Running
  <1>3. hl \in F \cup {HeapStart}
    BY <1>1, <1>2 DEF Walking
  <1>4. /\ hl \in Int /\ hl + 2 \in Addr /\ hl + 2 - 2 = hl /\ Peek(mem, hl + 2) \in Addr
        /\ HeapStart \in Int /\ HeapStart > 0 /\ HeapStart <= hl
        /\ \A c \in F : c \in Int
    BY <1>2, <1>3, AllHeaders, HeapAssumption
  <1>5. temp' = hl + 2
    BY <1>1, <1>4, Unwrapped
  <1>6. Follows(F, hl, Peek(mem, hl + 2))
    BY <1>2, <1>3 DEF Whole, Chain
  <1>7. Typing'
    BY <1>1, <1>4, <1>5 DEF Typing
  <1>8. Held' = Held
    BY <1>1 DEF Held
  <1>9. Calling'
    BY <1>1, <1>2 DEF Calling
  <1>10. hl' # HeapStart /\ hl' \in F \cup {0}
    BY <1>1, <1>4, <1>6 DEF Follows
  <1>11. ASSUME NEW c \in F, hl' = 0 \/ c < hl' PROVE Peek(mem, c) < bc
    <2>1. c <= hl
      BY <1>1, <1>4, <1>6, <1>11 DEF Follows
    <2>2. CASE c = hl
      BY <2>2, <1>1
    <2>3. CASE c < hl
      BY <2>3, <1>1, <1>2 DEF Walking
    <2> QED
      BY <2>1, <2>2, <2>3, <1>4
  <1>12. Walking(F)'
    BY <1>1, <1>2, <1>3, <1>4, <1>5, <1>10, <1>11 DEF Walking
  <1>13. Saved(F)'
    BY <1>1, <1>2 DEF Saved, RestHolds
  <1> QED
    BY <1>1, <1>7, <1>8, <1>9, <1>12, <1>13, SameMemory DEF Running

\* The walk of __MEM_ALLOC ends without a block.
LEMMA ListExhaustedInv ==
  ASSUME EndsBelowTop, Askable, Typing, NEW F, Running(F), ListExhausted
  PROVE  Typing' /\ pc' # "MEM_INIT" /\ Running(F)'
  <1>1. /\ pc = "MEM_LOOP" /\ hl = 0 /\ pc' = "MEM_RET"
        /\ mem' = mem /\ call' = call /\ owner' = owner /\ length' = length
        /\ hl' = hl /\ bc' = bc /\ temp' = temp /\ first2' = first2 /\ from' = from
        /\ callers' = callers /\ ptr' = ptr /\ moved' = moved /\ intact' = intact /\ len' = len
    BY DEF ListExhausted, callers
  <1>2. Calling /\ Saved(F)
    BY DEF Running
  <1>3. Held' = Held /\ Typing'
    BY <1>1 DEF Held, Typing
  <1>4. Calling' /\ Walking(F)'
    BY <1>1, <1>2 DEF Calling, Walking
  <1>5. Saved(F)'
    BY <1>1, <1>2 DEF Saved
  <1> QED
    BY <1>1, <1>3, <1>4, <1>5, SameMemory DEF Running

\* The walk of __MEM_FREE stops at the last block before the one released.
LEMMA NextIsBeforeInv ==
  ASSUME EndsBelowTop, Askable, Typing, NEW F, Running(F), NextIsBefore
  PROVE  Typing' /\ pc' # "MEM_INIT" /\ Running(F)'
  <1>1. /\ pc = "MEM_LOOP2" /\ hl' = Peek(mem, hl + 2)
        /\ Peek(mem, hl + 2) # 0 /\ Peek(mem, hl + 2) < bc
        /\ mem' = mem /\ pc' = pc /\ call' = call /\ owner' = owner /\ length' = length
        /\ bc' = bc /\ temp' = temp /\ first2' = first2 /\ from' = from
        /\ callers' = callers /\ ptr' = ptr /\ moved' = moved /\ intact' = intact /\ len' = len
    BY DEF NextIsBefore, callers
  <1>2. Walking(F) /\ Calling /\ Saved(F) /\ Whole(mem, F, Held)
    BY DEF Running
  <1>3. hl \in F \cup {HeapStart}
    BY <1>1, <1>2 DEF Walking
  <1>4. Peek(mem, hl + 2) \in F /\ Peek(mem, hl + 2) \in Addr
    BY <1>1, <1>2, <1>3, AllHeaders DEF Whole, Chain, Follows
  <1>5. Held' = Held /\ Typing'
    BY <1>1, <1>4 DEF Held, Typing
  <1>6. Calling' /\ Walking(F)'
    BY <1>1, <1>2, <1>4 DEF Calling, Walking
  <1>7. Saved(F)'
    BY <1>1, <1>2 DEF Saved
  <1> QED
    BY <1>1, <1>5, <1>6, <1>7, SameMemory DEF Running

\* Between the two calls of __REALLOC.
LEMMA ReallocAllocateInv ==
  ASSUME EndsBelowTop, Askable, Typing, NEW F, Running(F), ReallocAllocate
  PROVE  Typing' /\ pc' # "MEM_INIT" /\ Running(F)'
  <1>1. /\ pc = "REALLOC_ALLOC" /\ pc' = "MEM_LOOP" /\ bc' = (length + 2) % Word
        /\ hl' = HeapStart /\ temp' = 0
        /\ mem' = mem /\ call' = call /\ owner' = owner /\ length' = length
        /\ first2' = first2 /\ from' = from
        /\ callers' = callers /\ ptr' = ptr /\ moved' = moved /\ intact' = intact /\ len' = len
    BY DEF ReallocAllocate, EnterAlloc, callers
  <1>2. Calling /\ Saved(F) /\ Whole(mem, F, Held)
    BY DEF Running
  <1>3. length \in Requests
    BY <1>1, <1>2 DEF Calling
  <1>4. length + 2 \in Addr /\ (length + 2) % Word = length + 2
    <2>1. length \in 2 .. Word - 3 /\ Word \in Int
      BY <1>3, WordType DEF Askable
    <2>2. length + 2 \in Addr
      BY <2>1 DEF Addr
    <2> QED
      BY <2>2, Unwrapped
  <1>5. Typing'
    <2>1. HeapStart \in Addr /\ 0 \in Addr
      BY HeapAssumption, WordType DEF Addr
    <2> QED
      BY <1>1, <1>4, <2>1 DEF Typing
  <1>6. Held' = Held
    BY <1>1 DEF Held
  <1>7. Calling'
    BY <1>1, <1>2 DEF Calling
  <1>8. Walking(F)'
    <2>1. \A c \in F : ~ (HeapStart = 0 \/ c < HeapStart)
      BY <1>2, HeapAssumption, AllHeaders
    <2> QED
      BY <2>1, <1>1, <1>4 DEF Walking
  <1>9. Saved(F)'
    BY <1>1, <1>2 DEF Saved, RestHolds
  <1> QED
    BY <1>1, <1>5, <1>6, <1>7, <1>8, <1>9, SameMemory DEF Running

\* NULL is returned.
LEMMA AnswerNullInv ==
  ASSUME EndsBelowTop, Askable, Typing, NEW F, Running(F), AnswerNull
  PROVE  Typing' /\ pc' # "MEM_INIT" /\ Running(F)'
  <1>1. /\ pc = "MEM_RET" /\ hl = 0 /\ pc' = "idle" /\ call' = "none" /\ owner' = NoOne
        /\ length' = 0 /\ hl' = 0 /\ bc' = 0 /\ temp' = 0 /\ first2' = 0 /\ from' = 0
        /\ mem' = mem
        /\ ptr' = [ptr EXCEPT ![owner] = 0] /\ len' = [len EXCEPT ![owner] = 0]
        /\ intact' = [intact EXCEPT ![owner] = 0] /\ moved' = [moved EXCEPT ![owner] = FALSE]
    BY DEF AnswerNull, Hand, Return
  <1>2. Calling /\ Whole(mem, F, Held) /\ JoinedBut(mem, F, {}) /\ Handles
    BY DEF Running
  <1>3. owner \in Owners /\ ptr[owner] = 0
    BY <1>1, <1>2 DEF Calling
  <1>4. /\ ptr' = ptr
        /\ \A o \in Owners \ {owner} : len'[o] = len[o] /\ intact'[o] = intact[o] /\ moved'[o] = moved[o]
    BY <1>1, <1>3 DEF Typing
  <1>5. Typing'
    <2>1. 0 \in Addr
      BY WordType DEF Addr
    <2> QED
      BY <2>1, <1>1, <1>4 DEF Typing
  <1>6. Held' = Held
    BY <1>1, <1>4 DEF Held
  <1>7. Handles'
    BY <1>1, <1>2, <1>3, <1>4 DEF Handles, Served, Holds
  <1>8. Calling' /\ Walking(F)' /\ Saved(F)'
    BY <1>1 DEF Calling, Walking, Saved
  <1>9. Whole(mem, F, Held)' /\ JoinedBut(mem, F, {})'
    BY <1>1, <1>2, <1>6
  <1> QED
    BY <1>1, <1>5, <1>7, <1>8, <1>9 DEF Running

-----------------------------------------------------------------------------
(* What is written into a block stays in it.                               *)

\* A block nobody touched still serves its owner.
LEMMA ServedStill ==
  ASSUME EndsBelowTop, Typing, NEW F, Running(F), NEW o \in Owners, ptr[o] # 0,
         mem' \in Memories,
         \A y \in Int : ptr[o] - 2 <= y /\ y < ptr[o] - 2 + Peek(mem, ptr[o] - 2)
                          => mem'[y] = mem[y],
         ptr'[o] = ptr[o], len'[o] = len[o], intact'[o] = intact[o], moved'[o] = moved[o]
  PROVE  Served(o)'
  <1>1. /\ ptr[o] - 2 \in Held /\ ptr[o] - 2 \in Addr /\ ptr[o] \in Int
        /\ Peek(mem, ptr[o] - 2) \in Int
        /\ len[o] \in Nat /\ intact[o] \in Nat /\ Served(o)
        /\ ptr[o] + len[o] <= ptr[o] - 2 + Peek(mem, ptr[o] - 2)
        /\ intact[o] <= len[o]
    BY HeldBlock DEF Served
  <1>2. PICK b : b = ptr[o] - 2
    OBVIOUS
  <1>3. b \in Int /\ b \in Addr /\ b + 1 \in Addr /\ ptr[o] = b + 2
    <2>1. b + 1 \in Addr
      BY <1>1, <1>2, AllHeaders DEF Running
    <2> QED
      BY <2>1, <1>1, <1>2
  <1>4. mem'[b] = mem[b] /\ mem'[b + 1] = mem[b + 1]
    <2>1. \A y \in Int : b <= y /\ y < b + Peek(mem, b) => mem'[y] = mem[y]
      BY <1>2
    <2>2. Peek(mem, b) \in Int /\ b + 2 + len[o] <= b + Peek(mem, b) /\ len[o] \in Nat
      BY <1>1, <1>2, <1>3
    <2> QED
      BY <2>1, <2>2, <1>3
  <1>5. Peek(mem', b) = Peek(mem, b)
    BY <1>3, <1>4, PeekSame DEF Typing
  <1>6. ASSUME ~moved[o] PROVE \A i \in 0 .. intact[o] - 1 : mem'[ptr[o] + i] = Mark[o]
    <2> SUFFICES ASSUME NEW i \in 0 .. intact[o] - 1 PROVE mem'[ptr[o] + i] = Mark[o]
      OBVIOUS
    <2>1. mem[ptr[o] + i] = Mark[o]
      BY <1>1, <1>6 DEF Served, Holds
    <2>2. /\ ptr[o] + i \in Int /\ ptr[o] - 2 <= ptr[o] + i
          /\ ptr[o] + i < ptr[o] - 2 + Peek(mem, ptr[o] - 2)
      BY <1>1
    <2> QED
      BY <2>1, <2>2
  <1> QED
    BY <1>1, <1>2, <1>5, <1>6 DEF Served, Holds

\* What one caller stores reaches nobody else's block and no header.
LEMMA FillInv ==
  ASSUME EndsBelowTop, Askable, Typing, pc # "MEM_INIT", NEW F, Running(F),
         NEW o \in Owners, Fill(o)
  PROVE  Typing' /\ pc' # "MEM_INIT" /\ Running(F)' /\ Unmoved(F)
  <1>1. /\ pc = "idle" /\ ptr[o] # 0
        /\ mem' = [a \in Addr |-> IF a \in ptr[o] .. ptr[o] + len[o] - 1 THEN Mark[o] ELSE mem[a]]
        /\ intact' = [intact EXCEPT ![o] = len[o]] /\ moved' = [moved EXCEPT ![o] = FALSE]
        /\ ptr' = ptr /\ len' = len
        /\ pc' = pc /\ call' = call /\ owner' = owner /\ length' = length /\ hl' = hl
        /\ bc' = bc /\ temp' = temp /\ first2' = first2 /\ from' = from
    BY DEF Fill, registers
  <1>2. /\ Whole(mem, F, Held) /\ JoinedBut(mem, F, {}) /\ Handles /\ Calling
    BY DEF Running
  <1>3. /\ ptr[o] - 2 \in Held /\ ptr[o] - 2 \in Addr /\ ptr[o] \in Int
        /\ HeapStart + 4 <= ptr[o] - 2
        /\ Peek(mem, ptr[o] - 2) \in Int
        /\ len[o] \in Nat /\ Served(o)
        /\ ptr[o] + len[o] <= ptr[o] - 2 + Peek(mem, ptr[o] - 2)
        /\ ptr[o] + len[o] <= Last
    BY <1>1, HeldBlock
  <1>4. mem' \in Memories
    BY <1>1, HeapAssumption DEF Memories, Typing
  <1>5. Typing'
    BY <1>1, <1>3, <1>4 DEF Typing
  <1>6. \A y \in Addr : y \in ptr[o] - 2 + 2 .. ptr[o] - 2 + Peek(mem, ptr[o] - 2) - 1 \/ mem'[y] = mem[y]
    <2> SUFFICES ASSUME NEW y \in Addr, y \in ptr[o] .. ptr[o] + len[o] - 1
                 PROVE  y \in ptr[o] - 2 + 2 .. ptr[o] - 2 + Peek(mem, ptr[o] - 2) - 1
      BY <1>1
    <2> QED
      BY <1>3
  <1>7. /\ Whole(mem', F, Held) /\ JoinedBut(mem', F, {})
        /\ \A a \in F \cup Held : Peek(mem', a) = Peek(mem, a)
        /\ \A c \in F \cup Held : c # ptr[o] - 2 =>
             \A y \in Int : c <= y /\ y < c + Peek(mem, c) => mem'[y] = mem[y]
    BY <1>2, <1>3, <1>4, <1>6, Inside
  <1>8. Held' = Held
    BY <1>1 DEF Held
  <1>9. ASSUME NEW x \in Owners, x # o, ptr[x] # 0 PROVE Served(x)'
    <2>1. ptr[x] - 2 \in Held /\ ptr[x] - 2 # ptr[o] - 2
      BY <1>2, <1>3, <1>9, HeldBlock DEF Handles
    <2>2. \A y \in Int : ptr[x] - 2 <= y /\ y < ptr[x] - 2 + Peek(mem, ptr[x] - 2) => mem'[y] = mem[y]
      BY <2>1, <1>7
    <2>3. ptr'[x] = ptr[x] /\ len'[x] = len[x] /\ intact'[x] = intact[x] /\ moved'[x] = moved[x]
      BY <1>1, <1>9 DEF Typing
    <2> QED
      BY <2>2, <2>3, <1>4, <1>9, ServedStill
  <1>10. Served(o)'
    <2>1. Peek(mem', ptr[o] - 2) = Peek(mem, ptr[o] - 2)
      BY <1>3, <1>7
    <2>2. intact'[o] = len[o]
      BY <1>1 DEF Typing
    <2>3. \A i \in 0 .. len[o] - 1 : mem'[ptr[o] + i] = Mark[o]
      <3> SUFFICES ASSUME NEW i \in 0 .. len[o] - 1 PROVE mem'[ptr[o] + i] = Mark[o]
        OBVIOUS
      <3>1. ptr[o] + i \in Addr
        <4>1. HeapStart \in Nat /\ Word \in Nat /\ Last \in Int /\ Last < Word
          BY HeapAssumption, WordType DEF EndsBelowTop, Last
        <4>2. 0 <= ptr[o] + i /\ ptr[o] + i <= Word - 1 /\ ptr[o] + i \in Int
          BY <4>1, <1>3
        <4> QED
          BY <4>2, <4>1 DEF Addr
      <3>2. ptr[o] + i \in ptr[o] .. ptr[o] + len[o] - 1
        BY <1>3
      <3> QED
        BY <3>1, <3>2, <1>1
    <2> QED
      BY <2>1, <2>2, <2>3, <1>1, <1>3 DEF Served, Holds
  <1>11. Handles'
    BY <1>1, <1>2, <1>9, <1>10 DEF Handles
  <1>12. Calling' /\ Walking(F)' /\ Saved(F)'
    BY <1>1, <1>2 DEF Calling, Walking, Saved
  <1> QED
    BY <1>1, <1>5, <1>7, <1>8, <1>11, <1>12 DEF Running, Unmoved

-----------------------------------------------------------------------------
(* LDIR.                                                                   *)

\* Only the bytes of the destination change.
LEMMA LdirFrame ==
  ASSUME NEW m \in Memories, NEW src \in Addr, NEW dst \in Addr, NEW n \in Nat, dst + n <= Word
  PROVE  /\ Ldir(m, src, dst, n) \in Memories
         /\ \A y \in Addr : y \in dst .. dst + n - 1 \/ Ldir(m, src, dst, n)[y] = m[y]
  <1> DEFINE distance == (dst - src) % Word
             Source(i) == (src + (IF distance = 0 THEN i ELSE i % distance)) % Word
             M == Ldir(m, src, dst, n)
  <1>1. M = [a \in Addr |-> LET i == (a - dst) % Word IN IF i < n THEN m[Source(i)] ELSE m[a]]
    BY DEF Ldir
  <1>2. Word \in Nat /\ Word > 0 /\ src \in Int /\ dst \in Int /\ dst \in 0 .. Word - 1
    BY WordType DEF Addr
  <1>3. \A i \in Nat : Source(i) \in Addr
    <2> SUFFICES ASSUME NEW i \in Nat PROVE Source(i) \in Addr
      OBVIOUS
    <2>1. distance \in Nat
      BY <1>2, Unwrapped DEF Addr
    <2>2. distance # 0 => i % distance \in Int
      BY <2>1, Remainder
    <2>3. src + (IF distance = 0 THEN i ELSE i % distance) \in Int
      BY <2>2, <1>2
    <2> QED
      BY <2>3, Unwrapped
  <1> HIDE DEF Source
  <1>4. \A a \in Addr : (a - dst) % Word \in Nat
    BY <1>2, Unwrapped DEF Addr
  <1>5. M \in Memories
    BY <1>1, <1>3, <1>4 DEF Memories
  <1>6. ASSUME NEW y \in Addr, y \notin dst .. dst + n - 1 PROVE M[y] = m[y]
    <2>1. (y - dst) % Word >= n
      <3>1. CASE dst <= y
        <4>1. y - dst \in Addr /\ y - dst >= n
          BY <3>1, <1>2, <1>6 DEF Addr
        <4> QED
          BY <4>1, Unwrapped
      <3>2. CASE y < dst
        <4>1. (y - dst) % Word = y - dst + Word
          <5>1. ASSUME NEW W \in Nat, W > 0, NEW x \in (0 - W) .. (0 - 1) PROVE x % W = x + W
            OBVIOUS
          <5>2. y - dst \in (0 - Word) .. (0 - 1)
            BY <3>2, <1>2 DEF Addr
          <5> QED
            BY <5>1, <5>2, <1>2
        <4> QED
          BY <4>1, <3>2, <1>2 DEF Addr
      <3> QED
        BY <3>1, <3>2, <1>2 DEF Addr
    <2>2. ~ ((y - dst) % Word < n)
      BY <2>1, <1>4
    <2> QED
      BY <2>2, <1>1
  <1> QED
    BY <1>5, <1>6

\* A byte is copied as it was unless an earlier one of the copy is written over
\* it: the destination starts below the source, or beyond what is read.
LEMMA LdirCopies ==
  ASSUME NEW m \in Memories, NEW src \in Addr, NEW dst \in Addr, NEW n \in Nat, dst + n <= Word,
         NEW i \in Nat, i < n, src + i < Word, dst <= src \/ i < dst - src
  PROVE  Ldir(m, src, dst, n)[dst + i] = m[src + i]
  <1> DEFINE distance == (dst - src) % Word
             Source(k) == (src + (IF distance = 0 THEN k ELSE k % distance)) % Word
             M == Ldir(m, src, dst, n)
  <1>1. M = [a \in Addr |-> LET k == (a - dst) % Word IN IF k < n THEN m[Source(k)] ELSE m[a]]
    BY DEF Ldir
  <1>2. Word \in Nat /\ Word > 0 /\ src \in 0 .. Word - 1 /\ dst \in 0 .. Word - 1
    BY WordType DEF Addr
  <1>3. dst + i \in Addr /\ (dst + i) - dst = i /\ i \in Addr /\ src + i \in Addr
    BY <1>2 DEF Addr
  <1>4. distance = 0 \/ i % distance = i
    <2>1. CASE src = dst
      <3>1. dst - src \in Addr /\ dst - src = 0
        BY <2>1, <1>2 DEF Addr
      <3> QED
        BY <3>1, Unwrapped
    <2>2. CASE src < dst
      <3>1. dst - src \in Addr /\ dst - src > 0 /\ i < dst - src
        BY <2>2, <1>2 DEF Addr
      <3>2. distance = dst - src
        BY <3>1, Unwrapped
      <3>3. i % (dst - src) = i
        <4>1. dst - src \in Nat /\ i \in 0 .. (dst - src) - 1
          BY <3>1, <1>2
        <4> QED
          BY <4>1, <3>1, SmallRemainder
      <3> QED
        BY <3>2, <3>3
    <2>3. CASE dst < src
      <3>1. distance = dst - src + Word
        <4>1. ASSUME NEW W \in Nat, W > 0, NEW x \in (0 - W) .. (0 - 1) PROVE x % W = x + W
          OBVIOUS
        <4>2. dst - src \in (0 - Word) .. (0 - 1)
          BY <2>3, <1>2
        <4> QED
          BY <4>1, <4>2, <1>2
      <3>2. dst - src + Word \in Nat /\ dst - src + Word > 0 /\ i \in 0 .. (dst - src + Word) - 1
        BY <2>3, <1>2
      <3>3. i % (dst - src + Word) = i
        BY <3>2, SmallRemainder
      <3> QED
        BY <3>1, <3>3
    <2> QED
      BY <2>1, <2>2, <2>3, <1>2
  <1>5. Source(i) = src + i
    BY <1>3, <1>4, Unwrapped
  <1> HIDE DEF Source
  <1>6. ((dst + i) - dst) % Word = i
    BY <1>3, Unwrapped
  <1> QED
    BY <1>1, <1>3, <1>5, <1>6

-----------------------------------------------------------------------------
(* __MEM_ALLOC finds a block.                                              *)

\* The block found is a free one, and TEMP is where its predecessor points to
\* it from.
LEMMA FoundBlock ==
  ASSUME EndsBelowTop, Askable, Typing, NEW F, Running(F), NEW rest \in Nat, Found(rest)
  PROVE  /\ hl \in F /\ hl \in Int /\ hl \in Addr /\ hl + 2 \in Addr /\ 0 < hl
         /\ bc \in Int /\ bc >= 4 /\ bc = length + 2 /\ length \in Requests /\ length \in Int
         /\ Peek(mem, hl) = rest + bc /\ Peek(mem, hl) \in Int /\ hl + Peek(mem, hl) <= Last
         /\ \A c \in F : c < hl => Peek(mem, c) < bc
         /\ \E p \in F \cup {HeapStart} : temp = p + 2 /\ Peek(mem, p + 2) = hl
  <1>1. pc = "MEM_LOOP" /\ hl # 0 /\ Peek(mem, hl) >= bc /\ rest = Peek(mem, hl) - bc
    BY DEF Found
  <1>2. Walking(F) /\ Calling /\ Whole(mem, F, Held)
    BY DEF Running
  <1>3. bc = length + 2 /\ length \in Requests /\ hl \in F \cup {HeapStart}
    BY <1>1, <1>2 DEF Walking, Calling
  <1>4. bc \in Int /\ bc >= 4 /\ length \in Int
    BY <1>3, WordType DEF Askable
  <1>5. hl # HeapStart /\ hl \in F
    BY <1>1, <1>2, <1>3, <1>4 DEF Whole, Chain
  <1>6. /\ hl \in Int /\ hl \in Addr /\ hl + 2 \in Addr /\ Peek(mem, hl) \in Int /\ 0 < hl
        /\ hl + Peek(mem, hl) <= Last
    BY <1>2, <1>5, AllHeaders DEF Whole, Laid
  <1>7. temp - 2 \in F \cup {HeapStart} /\ Peek(mem, temp) = hl /\ temp = (temp - 2) + 2
    BY <1>1, <1>2, <1>5 DEF Walking, Typing, Addr
  <1>8. \A c \in F : c < hl => Peek(mem, c) < bc
    BY <1>1, <1>2 DEF Walking
  <1>9. Peek(mem, hl) = rest + bc
    BY <1>1, <1>4, <1>6
  <1>10. \E p \in F \cup {HeapStart} : temp = p + 2 /\ Peek(mem, p + 2) = hl
    <2>1. PICK p : p = temp - 2
      OBVIOUS
    <2>2. temp = p + 2 /\ Peek(mem, p + 2) = hl
      BY <1>7, <2>1
    <2> QED
      BY <1>7, <2>1, <2>2
  <1> QED
    BY <1>1, <1>3, <1>4, <1>5, <1>6, <1>8, <1>9, <1>10

\* A block of the list is nobody's: what is written into its header and into
\* the words behind it leaves every owner's block alone.
LEMMA OthersServed ==
  ASSUME EndsBelowTop, Typing, NEW F, Running(F), mem' \in Memories, callers' = callers,
         \A c \in Held : \A y \in Int : c <= y /\ y < c + Peek(mem, c) => mem'[y] = mem[y]
  PROVE  Handles'
  <1>1. ptr' = ptr /\ len' = len /\ intact' = intact /\ moved' = moved
    BY DEF callers
  <1>2. ASSUME NEW o \in Owners, ptr[o] # 0 PROVE Served(o)'
    <2>1. ptr[o] - 2 \in Held
      BY <1>2, HeldBlock
    <2> QED
      BY <2>1, <1>1, <1>2, ServedStill
  <1> QED
    BY <1>1, <1>2 DEF Running, Handles

\* Where the header of a free block lies.
LEMMA OutsideHeader ==
  ASSUME EndsBelowTop, NEW m, NEW F, NEW U, Whole(m, F, U),
         NEW p \in F \cup {HeapStart}, NEW u \in F \cup U, u # p,
         NEW y \in Int, u <= y, y < u + Peek(m, u)
  PROVE  y \notin p .. p + 3 /\ y \in Addr
  <1>1. y < p \/ p + 4 <= y
    BY Body
  <1>2. y \in Addr /\ p \in Int
    BY Body, AllHeaders
  <1> QED
    BY <1>1, <1>2

\* The block x leaves the list and is handed out as it is.
TakenWhole(F, x) ==
  /\ x = hl /\ Running(F \ {x})'
  /\ Held' = Held \cup {x}
  /\ \A a \in F \cup Held : Peek(mem', a) = Peek(mem, a)

\* The block found is unlinked: its predecessor points past it.
LEMMA TakeWholeInv ==
  ASSUME EndsBelowTop, Askable, Typing, NEW F, Running(F), TakeWhole
  PROVE  Typing' /\ pc' # "MEM_INIT" /\ \E x \in F : TakenWhole(F, x)
  <1>1. PICK rest \in 0 .. 3 : Found(rest)
    BY DEF TakeWhole
  <1>2. /\ mem' = Poke(mem, temp, Peek(mem, hl + 2)) /\ hl' = (hl + 2) % Word
        /\ pc = "MEM_LOOP" /\ pc' = "MEM_RET"
        /\ call' = call /\ owner' = owner /\ length' = length /\ bc' = bc
        /\ temp' = temp /\ first2' = first2 /\ from' = from /\ callers' = callers
        /\ ptr' = ptr /\ len' = len /\ intact' = intact /\ moved' = moved
    BY DEF TakeWhole, Found, callers
  <1>3. rest \in Nat /\ rest \in Int
    OBVIOUS
  <1>4. PICK x : x = hl
    OBVIOUS
  <1>5. /\ x \in F /\ x \in Int /\ x \in Addr /\ x + 2 \in Addr /\ 0 < x
        /\ bc = length + 2 /\ length \in Int /\ Peek(mem, x) = rest + bc
    BY <1>1, <1>3, <1>4, FoundBlock
  <1>6. PICK p \in F \cup {HeapStart} : temp = p + 2 /\ Peek(mem, p + 2) = x
    BY <1>1, <1>3, <1>4, FoundBlock
  <1>7. hl' = x + 2 /\ hl' # 0 /\ hl' - 2 = x
    BY <1>2, <1>4, <1>5, Unwrapped
  <1>8. Whole(mem, F, Held) /\ JoinedBut(mem, F, {}) /\ Calling /\ Saved(F)
    BY DEF Running
  <1>9. UnlinkedWell(mem', mem, F, Held, p, x)
    BY <1>2, <1>4, <1>5, <1>6, <1>8, Unlinking
  <1>10. /\ Whole(mem', F \ {x}, Held \cup {x}) /\ JoinedBut(mem', F \ {x}, {})
         /\ \A a \in F \cup Held : Peek(mem', a) = Peek(mem, a)
         /\ \A y \in Addr : y \notin {p + 2, p + 3} => mem'[y] = mem[y]
    BY <1>5, <1>8, <1>9 DEF UnlinkedWell
  <1>11. Held' = Held \cup {x}
    BY <1>2, <1>7 DEF Held
  <1>12. mem' \in Memories
    BY <1>10 DEF Whole
  <1>13. Typing'
    BY <1>2, <1>5, <1>7, <1>12 DEF Typing
  <1>14. ASSUME NEW u \in F \cup Held, u # p, NEW y \in Int, u <= y, y < u + Peek(mem, u)
         PROVE  mem'[y] = mem[y]
    <2>1. y \notin p .. p + 3 /\ y \in Addr /\ p \in Int
      BY <1>8, <1>14, OutsideHeader, AllHeaders
    <2>2. y \notin {p + 2, p + 3}
      BY <2>1
    <2> QED
      BY <2>1, <2>2, <1>10
  <1>15. Handles'
    <2>1. \A c \in Held : c # p
      BY <1>8, AllHeaders, HeapAssumption DEF Whole, Laid
    <2> QED
      BY <2>1, <1>2, <1>12, <1>14, OthersServed
  <1>16. Calling'
    <2>1. Peek(mem', hl' - 2) \in length + 2 .. length + 5
      BY <1>5, <1>7, <1>10
    <2>2. \A o \in Owners : ptr[o] # hl'
      <3> SUFFICES ASSUME NEW o \in Owners, ptr[o] = hl' PROVE FALSE
        OBVIOUS
      <3>1. x \in Held
        BY <1>7 DEF Held
      <3> QED
        BY <3>1, <1>5, <1>8 DEF Whole
    <2> QED
      BY <2>1, <2>2, <1>2, <1>8 DEF Calling
  <1>17. Walking(F \ {x})'
    BY <1>2 DEF Walking
  <1>18. Saved(F \ {x})'
    <2> SUFFICES ASSUME call = "realloc", ~moved[owner]
                 PROVE  /\ intact[owner] >= 1 => first2 % Radix = Mark[owner]
                        /\ intact[owner] >= 2 => first2 \div Radix = Mark[owner]
                        /\ HeapStart + 8 <= from /\ from - 2 + intact[owner] <= Last
                        /\ \A i \in 2 .. intact[owner] - 1 : mem'[from - 2 + i] = Mark[owner]
      BY <1>2 DEF Saved, RestHolds
    <2>1. /\ intact[owner] >= 1 => first2 % Radix = Mark[owner]
          /\ intact[owner] >= 2 => first2 \div Radix = Mark[owner]
          /\ HeapStart + 8 <= from /\ from - 2 + intact[owner] <= Last
          /\ RestHolds
      BY <1>2, <1>8 DEF Saved
    <2>2. PICK f \in F : f + 4 <= from /\ from - 2 + intact[owner] <= f + Peek(mem, f)
      BY <1>2, <1>8 DEF Saved
    <2>3. f \in Int /\ from \in Int /\ intact[owner] \in Int /\ Peek(mem, f) \in Int /\ p \in Int
      <3>1. owner \in Owners
        BY <1>2, <1>8 DEF Calling
      <3> QED
        BY <3>1, <1>8, AllHeaders DEF Typing, Addr
    <2>4. ASSUME NEW i \in 2 .. intact[owner] - 1 PROVE mem'[from - 2 + i] = Mark[owner]
      <3>1. mem[from - 2 + i] = Mark[owner]
        BY <2>1 DEF RestHolds
      <3>2. /\ from - 2 + i \in Int /\ f <= from - 2 + i /\ from - 2 + i < f + Peek(mem, f)
            /\ f + 4 <= from - 2 + i
        BY <2>2, <2>3
      <3>3. CASE f # p
        BY <3>1, <3>2, <3>3, <1>14
      <3>4. CASE f = p
        <4>1. from - 2 + i \in Addr
          BY <3>2, <1>8, Body
        <4>2. from - 2 + i \notin {p + 2, p + 3}
          BY <3>2, <3>4, <2>3
        <4> QED
          BY <3>1, <4>1, <4>2, <1>10
      <3> QED
        BY <3>3, <3>4
    <2> QED
      BY <2>1, <2>4
  <1> QED
    BY <1>2, <1>4, <1>5, <1>10, <1>11, <1>13, <1>15, <1>16, <1>17, <1>18
    DEF Running, TakenWhole

\* The block x keeps rest bytes, the others are handed out.
TakenTail(F, x, rest) ==
  /\ x = hl /\ rest >= 4 /\ Peek(mem, x) = rest + bc /\ x + rest \notin F \cup Held
  /\ Running(F)'
  /\ Held' = Held \cup {x + rest}
  /\ Peek(mem', x) = rest /\ Peek(mem', x + rest) = bc
  /\ \A a \in (F \cup Held) \ {x} : Peek(mem', a) = Peek(mem, a)

\* The block found shrinks: two length words are written inside it.
LEMMA TakeTailInv ==
  ASSUME EndsBelowTop, Askable, Typing, NEW F, Running(F), TakeTail
  PROVE  Typing' /\ pc' # "MEM_INIT" /\ \E x \in F, rest \in Nat : TakenTail(F, x, rest)
  <1>1. PICK rest \in 4 .. Word - 1 :
          /\ Found(rest)
          /\ mem' = Poke(Poke(mem, hl, rest), hl + rest, bc)
          /\ hl' = (hl + rest + 2) % Word
    BY DEF TakeTail
  <1>2. /\ pc = "MEM_LOOP" /\ pc' = "MEM_RET"
        /\ call' = call /\ owner' = owner /\ length' = length /\ bc' = bc
        /\ temp' = temp /\ first2' = first2 /\ from' = from /\ callers' = callers
        /\ ptr' = ptr /\ len' = len /\ intact' = intact /\ moved' = moved
    BY <1>1 DEF Found, callers
  <1>3. rest \in Nat /\ rest \in Int /\ rest \in Addr /\ rest >= 4
    BY WordType DEF Addr
  <1>4. PICK x : x = hl
    OBVIOUS
  <1>5. /\ x \in F /\ x \in Int /\ x \in Addr /\ 0 < x
        /\ bc \in Int /\ bc >= 4 /\ bc = length + 2 /\ length \in Int
        /\ Peek(mem, x) = rest + bc /\ x + Peek(mem, x) <= Last
    BY <1>1, <1>3, <1>4, FoundBlock
  <1>6. bc \in Addr
    BY DEF Typing
  <1>7. Whole(mem, F, Held) /\ JoinedBut(mem, F, {}) /\ Calling /\ Saved(F)
    BY DEF Running
  <1>8. PICK t : t = x + rest
    OBVIOUS
  <1>9. SplitWell(mem', mem, F, Held, x, rest, bc)
    BY <1>1, <1>3, <1>4, <1>5, <1>6, <1>7, Splitting
  <1>10. /\ t \notin F \cup Held
         /\ Whole(mem', F, Held \cup {t}) /\ JoinedBut(mem', F, {})
         /\ Peek(mem', x) = rest /\ Peek(mem', t) = bc
         /\ \A a \in (F \cup Held) \ {x} : Peek(mem', a) = Peek(mem, a)
         /\ \A y \in Addr : y \notin {x, x + 1, t, t + 1} => mem'[y] = mem[y]
    BY <1>7, <1>8, <1>9 DEF SplitWell
  <1>11. t \in Int /\ x + 4 <= t /\ t + bc = x + Peek(mem, x) /\ t + 2 \in Addr
    <2>1. Last < Word /\ Last \in Int /\ Word \in Int
      BY HeapAssumption, WordType DEF EndsBelowTop, Last
    <2>2. t \in Int /\ x + 4 <= t /\ t + bc = x + Peek(mem, x) /\ t + 2 <= Last
      BY <2>1, <1>3, <1>5, <1>8
    <2> QED
      BY <2>1, <2>2, <1>5 DEF Addr
  <1>12. hl' = t + 2 /\ hl' # 0 /\ hl' - 2 = t
    <2>1. hl + rest + 2 = t + 2
      BY <1>3, <1>4, <1>5, <1>8
    <2> QED
      BY <2>1, <1>1, <1>5, <1>11, Unwrapped
  <1>13. Held' = Held \cup {t}
    BY <1>2, <1>12 DEF Held
  <1>14. mem' \in Memories
    BY <1>10 DEF Whole
  <1>15. Typing'
    BY <1>2, <1>11, <1>12, <1>14 DEF Typing
  <1>16. ASSUME NEW u \in F \cup Held, u # x, NEW y \in Int, u <= y, y < u + Peek(mem, u)
         PROVE  mem'[y] = mem[y]
    <2>1. (y < x \/ x + Peek(mem, x) <= y) /\ y \in Addr
      BY <1>5, <1>7, <1>16, Body
    <2>2. y \notin {x, x + 1, t, t + 1}
      BY <2>1, <1>5, <1>11
    <2> QED
      BY <2>1, <2>2, <1>10
  <1>17. Handles'
    <2>1. \A c \in Held : c # x
      BY <1>5, <1>7 DEF Whole
    <2> QED
      BY <2>1, <1>2, <1>14, <1>16, OthersServed
  <1>18. Calling'
    <2>1. Peek(mem', hl' - 2) \in length + 2 .. length + 5
      BY <1>5, <1>10, <1>12
    <2>2. \A o \in Owners : ptr[o] # hl'
      <3> SUFFICES ASSUME NEW o \in Owners, ptr[o] = hl' PROVE FALSE
        OBVIOUS
      <3>1. t \in Held
        BY <1>12 DEF Held
      <3> QED
        BY <3>1, <1>10
    <2> QED
      BY <2>1, <2>2, <1>2, <1>7 DEF Calling
  <1>19. Walking(F)'
    BY <1>2 DEF Walking
  <1>20. Saved(F)'
    <2> SUFFICES ASSUME call = "realloc", ~moved[owner]
                 PROVE  /\ intact[owner] >= 1 => first2 % Radix = Mark[owner]
                        /\ intact[owner] >= 2 => first2 \div Radix = Mark[owner]
                        /\ HeapStart + 8 <= from /\ from - 2 + intact[owner] <= Last
                        /\ ~(from - 2 < hl' /\ hl' - 2 < from - 2 + intact[owner]) =>
                             \A i \in 2 .. intact[owner] - 1 : mem'[from - 2 + i] = Mark[owner]
      BY <1>2 DEF Saved, RestHolds, Overtakes
    <2>1. /\ intact[owner] >= 1 => first2 % Radix = Mark[owner]
          /\ intact[owner] >= 2 => first2 \div Radix = Mark[owner]
          /\ HeapStart + 8 <= from /\ from - 2 + intact[owner] <= Last
          /\ RestHolds
      BY <1>2, <1>7 DEF Saved
    <2>2. PICK f \in F : f + 4 <= from /\ from - 2 + intact[owner] <= f + Peek(mem, f)
      BY <1>2, <1>7 DEF Saved
    <2>3. f \in Int /\ from \in Int /\ intact[owner] \in Int /\ Peek(mem, f) \in Int
      <3>1. owner \in Owners
        BY <1>2, <1>7 DEF Calling
      <3> QED
        BY <3>1, <1>7, AllHeaders DEF Typing, Addr
    <2>4. ASSUME ~(from - 2 < t + 2 /\ t < from - 2 + intact[owner]),
                 NEW i \in 2 .. intact[owner] - 1
          PROVE  mem'[from - 2 + i] = Mark[owner]
      <3>1. mem[from - 2 + i] = Mark[owner]
        BY <2>1 DEF RestHolds
      <3>2. /\ from - 2 + i \in Int /\ f <= from - 2 + i /\ from - 2 + i < f + Peek(mem, f)
            /\ f + 4 <= from - 2 + i
        BY <2>2, <2>3
      <3>3. CASE f # x
        BY <3>1, <3>2, <3>3, <1>16
      <3>4. CASE f = x
        <4>1. from - 2 + i \in Addr
          BY <3>2, <1>7, Body
        <4>2. from - 2 + i \notin {x, x + 1}
          BY <3>2, <3>4, <2>3
        <4>3. from - 2 + i \notin {t, t + 1}
          BY <2>3, <2>4, <1>11
        <4> QED
          BY <3>1, <4>1, <4>2, <4>3, <1>10
      <3> QED
        BY <3>3, <3>4
    <2> QED
      BY <2>1, <2>4, <1>12
  <1>21. Running(F)'
    BY <1>2, <1>10, <1>13, <1>15, <1>17, <1>18, <1>19, <1>20 DEF Running
  <1>22. TakenTail(F, x, rest)
    BY <1>3, <1>4, <1>5, <1>8, <1>10, <1>13, <1>21 DEF TakenTail
  <1> QED
    BY <1>2, <1>3, <1>5, <1>15, <1>22

-----------------------------------------------------------------------------
(* __MEM_FREE relinks the list.                                            *)

\* The block b goes into the list behind p and joins the free neighbours it
\* touches: G is the list then.
Freed(F, b, p, G) ==
  LET n == Peek(mem, p + 2)
      next == b + Peek(mem, b) = n
      previous == p \in F /\ p + Peek(mem, p) = b
      j == IF previous THEN p ELSE b
  IN /\ b = bc /\ p = hl /\ p < b /\ (n = 0 \/ n >= b)
     /\ Running(G)'
     /\ Held' = Held \ {b}
     /\ G = (F \ (IF next THEN {n} ELSE {})) \cup (IF previous THEN {} ELSE {b})
     /\ Peek(mem', j) = (IF previous THEN Peek(mem, p) ELSE 0)
                          + (Peek(mem, b) + (IF next THEN Peek(mem, n) ELSE 0))
     /\ \A c \in (G \cup Held) \ {b, j} : Peek(mem', c) = Peek(mem, c)

\* The block released joins the free neighbours it touches; every other block
\* is left alone, and what __REALLOC still has to copy lies in a free block
\* behind its header.
LEMMA LinkPrevInv ==
  ASSUME EndsBelowTop, Askable, Typing, NEW F, Running(F), LinkPrev
  PROVE  /\ Typing' /\ pc' # "MEM_INIT"
         /\ \E b \in Held, p \in F \cup {HeapStart}, G \in SUBSET Addr : Freed(F, b, p, G)
  <1>1. /\ pc = "MEM_LOOP2"
        /\ Peek(mem, hl + 2) = 0 \/ Peek(mem, hl + 2) >= bc
        /\ mem' = JoinTest(JoinTest(Linked(mem, hl, bc), bc), hl)
        /\ ptr' = [ptr EXCEPT ![owner] = 0] /\ moved' = moved
    BY DEF LinkPrev, Linked
  <1>2. /\ Whole(mem, F, Held) /\ JoinedBut(mem, F, {}) /\ Handles /\ Calling
        /\ Walking(F) /\ Saved(F)
    BY DEF Running
  <1>3. PICK b, p, n : b = bc /\ p = hl /\ n = Peek(mem, hl + 2)
    OBVIOUS
  <1>4. /\ owner \in Owners /\ call \in {"free", "realloc"} /\ ptr[owner] # 0
        /\ b = ptr[owner] - 2 /\ p \in F \cup {HeapStart} /\ p < b
        /\ n = Peek(mem, p + 2) /\ (n = 0 \/ n >= b)
        /\ call = "realloc" => length \in Requests
    BY <1>1, <1>2, <1>3 DEF Calling, Walking
  <1>5. /\ b \in Held /\ b \in Addr /\ b \in Int /\ ptr[owner] = b + 2 /\ ptr[owner] \in Int
        /\ Peek(mem, b) \in Int
        /\ intact[owner] \in Nat /\ Served(owner)
        /\ ptr[owner] + intact[owner] <= b + Peek(mem, b)
    BY <1>4, HeldBlock DEF Addr
  <1>6. PICK next \in BOOLEAN, previous \in BOOLEAN :
          /\ next <=> b + Peek(mem, b) = n
          /\ previous <=> p \in F /\ p + Peek(mem, p) = b
    OBVIOUS
  <1>7. PICK j, size, G :
          /\ j = (IF previous THEN p ELSE b)
          /\ size = (IF previous THEN Peek(mem, p) ELSE 0)
                      + (Peek(mem, b) + (IF next THEN Peek(mem, n) ELSE 0))
          /\ G = (F \ (IF next THEN {n} ELSE {})) \cup (IF previous THEN {} ELSE {b})
    OBVIOUS
  <1>8. ReleasedWell(mem', G, mem, F, Held, p, b, j, size)
    <2>1. mem' = JoinTest(JoinTest(Linked(mem, p, b), b), p)
      BY <1>1, <1>3
    <2>2. ReleasedWell(JoinTest(JoinTest(Linked(mem, p, b), b), p), G, mem, F, Held, p, b, j, size)
      <3>1. /\ Whole(mem, F, Held) /\ JoinedBut(mem, F, {})
            /\ b \in Held /\ p \in F \cup {HeapStart} /\ p < b
            /\ n = Peek(mem, p + 2) /\ (n = 0 \/ n >= b)
        BY <1>2, <1>4, <1>5
      <3>2. /\ next \in BOOLEAN /\ (next <=> b + Peek(mem, b) = n)
            /\ previous \in BOOLEAN /\ (previous <=> p \in F /\ p + Peek(mem, p) = b)
        BY <1>6
      <3> QED
        BY ONLY EndsBelowTop, <3>1, <3>2, <1>7, Releasing
    <2> QED
      BY <2>1, <2>2
  <1>9. /\ Whole(mem', G, Held \ {b}) /\ JoinedBut(mem', G, {}) /\ j \in G
        /\ Peek(mem', j) = size
        /\ \A c \in (G \cup Held) \ {b, j} : Peek(mem', c) = Peek(mem, c)
        /\ \A x \in Addr : x \in p .. p + 3 \/ x \in b .. b + 3 \/ mem'[x] = mem[x]
    BY <1>8 DEF ReleasedWell
  <1>10. mem' \in Memories /\ G \in SUBSET Addr
    BY <1>9 DEF Whole
  \* The bytes behind the header of a block in use do not change.
  <1>11. ASSUME NEW u \in F \cup Held, u # p, NEW y \in Int, u <= y, y < u + Peek(mem, u),
                u # b \/ b + 4 <= y
         PROVE  mem'[y] = mem[y]
    <2>1. y \notin p .. p + 3 /\ y \in Addr
      BY <1>2, <1>4, <1>11, OutsideHeader
    <2>2. y \notin b .. b + 3
      <3>1. CASE u = b
        BY <3>1, <1>5, <1>11
      <3>2. CASE u # b
        <4>1. y < b \/ b + Peek(mem, b) <= y
          BY <3>2, <1>2, <1>5, <1>11, Body
        <4>2. Peek(mem, b) >= 4
          BY <1>2, <1>5 DEF Whole, Laid
        <4> QED
          BY <4>1, <4>2, <1>5
      <3> QED
        BY <3>1, <3>2
    <2> QED
      BY <2>1, <2>2, <1>9
  <1>12. \A c \in Held : c # p
    BY <1>2, <1>4, AllHeaders, HeapAssumption DEF Whole, Laid
  <1>13. /\ pc' \in {"idle", "REALLOC_ALLOC"}
         /\ ptr'[owner] = 0 /\ \A o \in Owners \ {owner} : ptr'[o] = ptr[o]
    BY <1>1, <1>4 DEF LinkPrev, Return, Typing
  <1>14. Held' = Held \ {b}
    <2>1. Held = {ptr[o] - 2 : o \in {x \in Owners : ptr[x] # 0}}
      BY <1>1 DEF Held
    <2>2. Held' = {ptr'[o] - 2 : o \in {x \in Owners : ptr'[x] # 0}}
      BY <1>13 DEF Held
    <2>3. ASSUME NEW o \in Owners, ptr[o] # 0, o # owner PROVE ptr[o] - 2 # b
      <3>1. ptr[o] # ptr[owner]
        BY <1>2, <1>4, <2>3 DEF Handles
      <3>2. ptr[o] \in Int
        BY DEF Typing, Addr
      <3> QED
        BY <3>1, <3>2, <1>5
    <2>4. Held \ {b} \subseteq Held'
      <3> SUFFICES ASSUME NEW o \in Owners, ptr[o] # 0, ptr[o] - 2 # b PROVE ptr[o] - 2 \in Held'
        BY <2>1
      <3>1. o # owner
        BY <1>4
      <3> QED
        BY <3>1, <2>2, <1>13
    <2>5. Held' \subseteq Held \ {b}
      <3> SUFFICES ASSUME NEW o \in Owners, ptr'[o] # 0 PROVE ptr'[o] - 2 \in Held \ {b}
        BY <2>2
      <3>1. o # owner /\ ptr'[o] = ptr[o]
        BY <1>13
      <3> QED
        BY <3>1, <2>1, <2>3
    <2> QED
      BY <2>4, <2>5
  <1>15. /\ \A o \in Owners \ {owner} : len'[o] = len[o] /\ intact'[o] = intact[o]
         /\ len' \in [Owners -> Nat] /\ intact' \in [Owners -> Nat]
    BY <1>4 DEF LinkPrev, Typing
  <1>16. Typing'
    <2>1. 0 \in Addr
      BY WordType DEF Addr
    <2>2. ptr' \in [Owners -> Addr] /\ moved' \in [Owners -> BOOLEAN]
      BY <2>1, <1>1 DEF Typing
    <2>3. CASE call = "free"
      BY <2>1, <2>2, <2>3, <1>10, <1>15 DEF LinkPrev, Return, Typing
    <2>4. CASE call = "realloc"
      BY <2>2, <2>4, <1>10, <1>15 DEF LinkPrev, Typing
    <2> QED
      BY <2>3, <2>4, <1>4
  <1>17. Handles'
    <2>1. ASSUME NEW o \in Owners, ptr'[o] # 0 PROVE Served(o)'
      <3>1. o # owner /\ ptr'[o] = ptr[o] /\ ptr[o] # 0
        BY <2>1, <1>13
      <3>2. ptr[o] - 2 \in Held /\ ptr[o] - 2 # b
        <4>1. ptr[o] # ptr[owner] /\ ptr[o] \in Int
          BY <3>1, <1>2, <1>4 DEF Handles, Typing, Addr
        <4> QED
          BY <4>1, <3>1, <1>5, HeldBlock
      <3>3. ptr[o] - 2 # p
        BY <3>2, <1>12
      <3>4. \A y \in Int : ptr[o] - 2 <= y /\ y < ptr[o] - 2 + Peek(mem, ptr[o] - 2)
                             => mem'[y] = mem[y]
        BY <3>2, <3>3, <1>11
      <3>5. len'[o] = len[o] /\ intact'[o] = intact[o] /\ moved'[o] = moved[o]
        BY <3>1, <1>1, <1>15
      <3> QED
        BY <3>1, <3>4, <3>5, <1>10, ServedStill
    <2>2. \A o, x \in Owners : ptr'[o] # 0 /\ ptr'[o] = ptr'[x] => o = x
      BY <1>2, <1>13 DEF Handles
    <2> QED
      BY <2>1, <2>2 DEF Handles
  <1>18. Calling'
    <2>1. CASE call = "free"
      BY <2>1 DEF LinkPrev, Return, Calling
    <2>2. CASE call = "realloc"
      BY <2>2, <1>4, <1>13 DEF LinkPrev, Calling
    <2> QED
      BY <2>1, <2>2, <1>4
  <1>19. Walking(G)'
    BY <1>13 DEF Walking
  <1>20. Saved(G)'
    <2>1. CASE call = "free"
      BY <2>1 DEF LinkPrev, Return, Saved
    <2>2. CASE call = "realloc"
      <3>1. /\ pc' = "REALLOC_ALLOC" /\ call' = "realloc" /\ owner' = owner
            /\ first2' = first2 /\ from' = from /\ intact' = intact
        BY <2>2 DEF LinkPrev
      <3> SUFFICES ASSUME ~moved[owner]
                   PROVE  /\ intact[owner] >= 1 => first2 % Radix = Mark[owner]
                          /\ intact[owner] >= 2 => first2 \div Radix = Mark[owner]
                          /\ HeapStart + 8 <= from /\ from - 2 + intact[owner] <= Last
                          /\ \A i \in 2 .. intact[owner] - 1 : mem'[from - 2 + i] = Mark[owner]
                          /\ \E f \in G : /\ f + 4 <= from
                                          /\ from - 2 + intact[owner] <= f + Peek(mem', f)
        BY <3>1, <1>1 DEF Saved, RestHolds
      <3>2. /\ intact[owner] >= 1 => first2 % Radix = Mark[owner]
            /\ intact[owner] >= 2 => first2 \div Radix = Mark[owner]
            /\ HeapStart + 8 <= from /\ from - 2 + intact[owner] <= Last
            /\ from = b + 4
        BY <2>2, <1>1, <1>2, <1>5 DEF Saved
      <3>3. ASSUME NEW i \in 2 .. intact[owner] - 1 PROVE mem'[from - 2 + i] = Mark[owner]
        <4>1. mem[ptr[owner] + i] = Mark[owner]
          BY <1>5 DEF Served, Holds
        <4>2. PICK y : y = from - 2 + i
          OBVIOUS
        <4>3. y = ptr[owner] + i /\ y \in Int /\ b <= y /\ b + 4 <= y /\ y < b + Peek(mem, b)
          BY <4>2, <3>2, <1>5
        <4>4. b \in F \cup Held /\ b # p
          BY <1>5, <1>12
        <4>5. mem'[y] = mem[y]
          BY <4>3, <4>4, <1>11
        <4> QED
          BY <4>1, <4>2, <4>3, <4>5
      <3>4. j + 4 <= from /\ from - 2 + intact[owner] <= j + Peek(mem', j)
        <4>1. PICK s, t, r : s = Peek(mem, b) /\ t = Peek(mem, p) /\ r = Peek(mem, n)
          OBVIOUS
        <4>2. /\ s \in Int /\ t \in Int /\ p \in Int
              /\ (next => r \in Int /\ r >= 0)
          <5>1. next => n \in F
            <6>1. n # 0 => n \in F
              BY <1>2, <1>4 DEF Whole, Chain, Follows
            <6>2. next => n # 0
              <7>1. Peek(mem, b) >= 4 /\ b >= 0
                BY <1>2, <1>5 DEF Whole, Laid, Addr
              <7> QED
                BY <7>1, <1>5, <1>6
            <6> QED
              BY <6>1, <6>2
          <5>2. next => Peek(mem, n) \in Int /\ Peek(mem, n) >= 0
            BY <5>1, <1>2, AllHeaders DEF Whole, Laid
          <5> QED
            BY <5>2, <4>1, <1>2, <1>4, <1>5, AllHeaders
        <4>3. size = (IF previous THEN t ELSE 0) + (s + (IF next THEN r ELSE 0))
          BY <4>1, <1>7
        <4>4. (previous => p + t = b) /\ ptr[owner] + intact[owner] <= b + s
          BY <4>1, <1>5, <1>6
        <4>5. CASE previous
          <5>1. j = p /\ size = t + (s + (IF next THEN r ELSE 0))
            BY <4>3, <4>5, <1>7
          <5> QED
            BY <5>1, <4>2, <4>4, <4>5, <3>2, <1>4, <1>5, <1>9
        <4>6. CASE ~previous
          <5>1. j = b /\ size = 0 + (s + (IF next THEN r ELSE 0))
            BY <4>3, <4>6, <1>7
          <5> QED
            BY <5>1, <4>2, <4>4, <3>2, <1>4, <1>5, <1>9
        <4> QED
          BY <4>5, <4>6
      <3> QED
        BY <3>2, <3>3, <3>4, <1>9
    <2> QED
      BY <2>1, <2>2, <1>4
  <1>21. Running(G)'
    BY <1>9, <1>14, <1>17, <1>18, <1>19, <1>20 DEF Running
  <1>22. Freed(F, b, p, G)
    BY <1>3, <1>4, <1>6, <1>7, <1>9, <1>14, <1>21 DEF Freed
  <1> QED
    BY <1>4, <1>5, <1>10, <1>13, <1>16, <1>22

-----------------------------------------------------------------------------
(* The block found is returned.                                            *)

\* Where the block to be returned lies.
LEMMA AnswerPlace ==
  ASSUME EndsBelowTop, Askable, Typing, NEW F, Running(F), AnswerBlock
  PROVE  /\ owner \in Owners /\ call \in {"alloc", "calloc", "realloc"} /\ ptr[owner] = 0
         /\ length \in Int /\ length >= 2 /\ length \in Addr
         /\ hl \in Int /\ hl \in Addr /\ hl + 1 \in Addr /\ hl # 0 /\ hl > HeapStart
         /\ hl - 2 \in Held /\ hl - 2 \in Int /\ hl - 2 \in Addr
         /\ Peek(mem, hl - 2) \in length + 2 .. length + 5
         /\ hl + length <= hl - 2 + Peek(mem, hl - 2) /\ hl + length <= Last /\ hl + length < Word
         /\ \A o \in Owners : ptr[o] # hl
  <1>1. pc = "MEM_RET" /\ hl # 0
    BY DEF AnswerBlock
  <1>2. Whole(mem, F, Held) /\ Calling
    BY DEF Running
  <1>3. /\ owner \in Owners /\ call \in {"alloc", "calloc", "realloc"} /\ ptr[owner] = 0
        /\ length \in Requests /\ Peek(mem, hl - 2) \in length + 2 .. length + 5
        /\ \A o \in Owners : ptr[o] # hl
    BY <1>1, <1>2 DEF Calling
  <1>4. length \in Int /\ length >= 2 /\ length \in Addr
    BY <1>3, WordType DEF Askable, Typing
  <1>5. hl - 2 \in Held /\ hl \in Int /\ hl \in Addr
    BY <1>1 DEF Held, Typing, Addr
  <1>6. /\ hl - 2 \in Int /\ hl - 2 \in Addr /\ (hl - 2) + 3 \in Addr
        /\ HeapStart + 4 <= hl - 2 /\ hl - 2 + Peek(mem, hl - 2) <= Last
        /\ HeapStart \in Int
    <2>1. PICK u : u = hl - 2
      OBVIOUS
    <2>2. u \in Held
      BY <2>1, <1>5
    <2>3. u \in Int /\ u \in Addr /\ u + 3 \in Addr
      BY <2>2, <1>2, AllHeaders
    <2>4. HeapStart + 4 <= u /\ u + Peek(mem, u) <= Last
      BY <2>2, <1>2 DEF Whole, Laid
    <2> QED
      BY <2>1, <2>3, <2>4, HeapAssumption
  <1>7. Last < Word /\ Last \in Int /\ Word \in Int
    BY HeapAssumption, WordType DEF EndsBelowTop, Last
  <1>8. hl + 1 \in Addr
    <2>1. (hl - 2) + 3 = hl + 1
      BY <1>5
    <2> QED
      BY <2>1, <1>6
  <1>9. hl + length <= hl - 2 + Peek(mem, hl - 2) /\ hl + length <= Last /\ hl + length < Word
    <2>1. PICK s : s = Peek(mem, hl - 2)
      OBVIOUS
    <2>2. s \in Int /\ length + 2 <= s /\ hl - 2 + s <= Last
      BY <2>1, <1>3, <1>4, <1>6
    <2>3. hl + length <= hl - 2 + s /\ hl + length <= Last /\ hl + length < Word
      BY <2>2, <1>4, <1>5, <1>7
    <2> QED
      BY <2>1, <2>3
  <1>10. hl > HeapStart
    BY <1>5, <1>6
  <1> QED
    BY <1>1, <1>3, <1>4, <1>5, <1>6, <1>8, <1>9, <1>10

\* __CALLOC and __REALLOC write into the block they return and nowhere else.
LEMMA AnswerFrame ==
  ASSUME EndsBelowTop, Askable, Typing, NEW F, Running(F), AnswerBlock
  PROVE  /\ mem' \in Memories
         /\ \A y \in Addr : y \in hl .. hl + length - 1 \/ mem'[y] = mem[y]
  <1>1. /\ owner \in Owners /\ call \in {"alloc", "calloc", "realloc"}
        /\ length \in Int /\ length >= 2 /\ length \in Addr
        /\ hl \in Int /\ hl \in Addr /\ hl + 1 \in Addr /\ hl > HeapStart
        /\ hl + length <= Last /\ hl + length < Word
    BY AnswerPlace
  <1>2. mem \in Memories /\ from \in Addr /\ first2 \in Addr
    BY DEF Typing
  <1>3. Word \in Int /\ HeapStart \in Int /\ HeapStart > 0
    BY WordType, HeapAssumption
  <1>4. CASE call = "alloc"
    BY <1>2, <1>4 DEF AnswerBlock
  <1>5. CASE call = "calloc"
    <2>1. mem' = Ldir([mem EXCEPT ![hl] = 0], hl, hl + 1, length - 1)
      <3>1. length - 1 \in Addr /\ length # 1
        BY <1>1, <1>3 DEF Addr
      <3>2. mem' = Cleared(mem)
        BY <1>5 DEF AnswerBlock
      <3> QED
        BY <3>1, <3>2, Unwrapped DEF Cleared
    <2>2. PICK m : m = [mem EXCEPT ![hl] = 0]
      OBVIOUS
    <2>3. m \in Memories /\ \A y \in Addr : y = hl \/ m[y] = mem[y]
      <3>1. 0 \in 0 .. Radix - 1
        BY HeapAssumption
      <3> QED
        BY <3>1, <2>2, <1>1, <1>2 DEF Memories
    <2>4. /\ mem' \in Memories
          /\ \A y \in Addr : y \in hl + 1 .. (hl + 1) + (length - 1) - 1 \/ mem'[y] = m[y]
      <3>1. PICK d, k : d = hl + 1 /\ k = length - 1
        OBVIOUS
      <3>2. k \in Nat /\ d + k <= Word /\ d \in Addr /\ hl \in Addr
        BY <3>1, <1>1, <1>3
      <3>3. /\ Ldir(m, hl, d, k) \in Memories
            /\ \A y \in Addr : y \in d .. d + k - 1 \/ Ldir(m, hl, d, k)[y] = m[y]
        BY <3>2, <2>3, LdirFrame
      <3> QED
        BY <3>1, <3>3, <2>1, <2>2
    <2>5. ASSUME NEW y \in Addr, y \notin hl .. hl + length - 1 PROVE mem'[y] = mem[y]
      <3>1. y # hl /\ y \notin hl + 1 .. (hl + 1) + (length - 1) - 1
        BY <2>5, <1>1 DEF Addr
      <3> QED
        BY <3>1, <2>3, <2>4
    <2> QED
      BY <2>4, <2>5
  <1>6. CASE call = "realloc"
    <2>1. mem' = Copied(mem)
      BY <1>6 DEF AnswerBlock
    <2>2. PICK n, m : n = length - 2 /\ m = Poke(mem, hl, first2)
      OBVIOUS
    <2>3. mem' = IF n = 0 THEN m ELSE Ldir(m, from, hl + 2, n)
      <3>1. length - 2 \in Addr
        BY <1>1, <1>3 DEF Addr
      <3> QED
        BY <3>1, <2>1, <2>2, Unwrapped DEF Copied
    <2>4. m \in Memories /\ \A y \in Addr : y # hl /\ y # hl + 1 => m[y] = mem[y]
      <3>1. hl \in Addr /\ hl + 1 \in Addr /\ first2 \in Addr /\ mem \in Memories
        BY <1>1, <1>2
      <3>2. /\ Poke(mem, hl, first2) \in Memories
            /\ \A y \in Addr : y # hl /\ y # hl + 1 => Poke(mem, hl, first2)[y] = mem[y]
        BY ONLY <3>1, PokeValue
      <3> QED
        BY <3>2, <2>2
    <2>5. n # 0 => /\ mem' \in Memories
                   /\ \A y \in Addr : y \in hl + 2 .. (hl + 2) + n - 1 \/ mem'[y] = m[y]
      <3> SUFFICES ASSUME n # 0
                   PROVE  /\ mem' \in Memories
                          /\ \A y \in Addr : y \in hl + 2 .. (hl + 2) + n - 1 \/ mem'[y] = m[y]
        OBVIOUS
      <3>1. n \in Nat /\ n > 0 /\ (hl + 2) + n <= Word /\ hl + 2 \in Addr
        BY <2>2, <1>1, <1>3 DEF Addr
      <3>2. mem' = Ldir(m, from, hl + 2, n)
        BY <2>3
      <3> QED
        BY <3>1, <3>2, <2>4, <1>2, LdirFrame
    <2>6. mem' \in Memories
      BY <2>3, <2>4, <2>5
    <2>7. ASSUME NEW y \in Addr, y \notin hl .. hl + length - 1 PROVE mem'[y] = mem[y]
      <3>1. y # hl /\ y # hl + 1 /\ y \notin hl + 2 .. (hl + 2) + n - 1
        BY <2>2, <2>7, <1>1 DEF Addr
      <3> QED
        BY <3>1, <2>3, <2>4, <2>5
    <2> QED
      BY <2>6, <2>7
  <1> QED
    BY <1>1, <1>4, <1>5, <1>6

\* Unless the new block starts inside what is left to copy, __REALLOC copies it.
LEMMA AnswerCopies ==
  ASSUME EndsBelowTop, Askable, Typing, NEW F, Running(F), AnswerBlock,
         call = "realloc", ~moved[owner], ~Overtakes,
         NEW i \in Nat, i < intact[owner], i < length
  PROVE  mem'[hl + i] = Mark[owner]
  <1>1. /\ owner \in Owners
        /\ length \in Int /\ length >= 2 /\ length \in Addr
        /\ hl \in Int /\ hl \in Addr /\ hl + 1 \in Addr /\ hl > HeapStart
        /\ hl + length <= Last /\ hl + length < Word
    BY AnswerPlace
  <1>2. mem \in Memories /\ from \in Addr /\ from \in Int /\ first2 \in Addr /\ intact[owner] \in Nat
    BY <1>1 DEF Typing, Addr
  <1>3. Word \in Int /\ HeapStart \in Int /\ HeapStart > 0 /\ Last \in Int /\ Last < Word
    BY WordType, HeapAssumption DEF EndsBelowTop, Last
  <1>4. /\ intact[owner] >= 1 => first2 % Radix = Mark[owner]
        /\ intact[owner] >= 2 => first2 \div Radix = Mark[owner]
        /\ HeapStart + 8 <= from /\ from - 2 + intact[owner] <= Last
        /\ \A k \in 2 .. intact[owner] - 1 : mem[from - 2 + k] = Mark[owner]
    BY DEF Running, Saved, AnswerBlock, RestHolds
  <1>5. from - 2 >= hl \/ hl - 2 >= from - 2 + intact[owner]
    BY <1>1, <1>2 DEF Overtakes
  <1>6. mem' = Copied(mem)
    BY DEF AnswerBlock
  <1>7. PICK n, m : n = length - 2 /\ m = Poke(mem, hl, first2)
    OBVIOUS
  <1>8. mem' = IF n = 0 THEN m ELSE Ldir(m, from, hl + 2, n)
    <2>1. length - 2 \in Addr
      BY <1>1, <1>3 DEF Addr
    <2> QED
      BY <2>1, <1>6, <1>7, Unwrapped DEF Copied
  <1>9. /\ m \in Memories /\ m[hl] = first2 % Radix /\ m[hl + 1] = first2 \div Radix
        /\ \A y \in Addr : y # hl /\ y # hl + 1 => m[y] = mem[y]
    <2>1. hl \in Addr /\ hl + 1 \in Addr /\ first2 \in Addr /\ mem \in Memories
      BY <1>1, <1>2
    <2>2. /\ Poke(mem, hl, first2) \in Memories
          /\ Poke(mem, hl, first2)[hl] = first2 % Radix
          /\ Poke(mem, hl, first2)[hl + 1] = first2 \div Radix
          /\ \A y \in Addr : y # hl /\ y # hl + 1 => Poke(mem, hl, first2)[y] = mem[y]
      BY ONLY <2>1, PokeValue
    <2> QED
      BY <2>2, <1>7
  <1>10. n \in Nat /\ (hl + 2) + n <= Word /\ (n # 0 => hl + 2 \in Addr)
    BY <1>7, <1>1, <1>3 DEF Addr
  <1>11. CASE i < 2
    <2>1. mem'[hl + i] = m[hl + i]
      <3>1. CASE n = 0
        BY <3>1, <1>8
      <3>2. CASE n # 0
        <4>1. \A y \in Addr : y \in hl + 2 .. (hl + 2) + n - 1 \/ mem'[y] = m[y]
          <5>1. PICK d : d = hl + 2
            OBVIOUS
          <5>2. d \in Addr /\ d + n <= Word /\ n \in Nat
            BY <5>1, <3>2, <1>10
          <5>3. \A y \in Addr : y \in d .. d + n - 1 \/ Ldir(m, from, d, n)[y] = m[y]
            BY ONLY <5>2, <1>2, <1>9, LdirFrame
          <5> QED
            BY <5>1, <5>3, <3>2, <1>8
        <4>2. hl + i \in Addr /\ hl + i \notin hl + 2 .. (hl + 2) + n - 1
          BY <1>1, <1>10, <1>11 DEF Addr
        <4> QED
          BY <4>1, <4>2
      <3> QED
        BY <3>1, <3>2
    <2>2. CASE i = 0
      <3>1. hl + i = hl /\ intact[owner] >= 1
        BY <2>2, <1>1, <1>2
      <3> QED
        BY <3>1, <2>1, <1>4, <1>9
    <2>3. CASE i = 1
      <3>1. hl + i = hl + 1 /\ intact[owner] >= 2
        BY <2>3, <1>1, <1>2
      <3> QED
        BY <3>1, <2>1, <1>4, <1>9
    <2> QED
      BY <2>2, <2>3, <1>11
  <1>12. CASE i >= 2
    <2>1. PICK k : k = i - 2
      OBVIOUS
    <2>2. /\ k \in Nat /\ k < n /\ n # 0 /\ hl + i = (hl + 2) + k
          /\ from - 2 + i = from + k /\ i \in 2 .. intact[owner] - 1
      BY <2>1, <1>1, <1>2, <1>7, <1>12
    <2>3. from + k < Word
      BY <2>1, <1>1, <1>2, <1>3, <1>4, <1>5, <1>12
    <2>4. hl + 2 <= from \/ k < (hl + 2) - from
      BY <2>1, <1>1, <1>2, <1>5, <1>12
    <2>5. Ldir(m, from, hl + 2, n)[(hl + 2) + k] = m[from + k]
      <3>1. PICK d : d = hl + 2
        OBVIOUS
      <3>2. d \in Addr /\ d + n <= Word /\ n \in Nat /\ (d <= from \/ k < d - from)
        BY <3>1, <2>2, <2>4, <1>10
      <3>3. Ldir(m, from, d, n)[d + k] = m[from + k]
        BY ONLY <3>2, <2>2, <2>3, <1>2, <1>9, LdirCopies
      <3> QED
        BY <3>1, <3>3
    <2>6. m[from + k] = mem[from + k]
      <3>1. from + k \in Addr /\ from + k # hl /\ from + k # hl + 1
        <4>1. from + k # hl /\ from + k # hl + 1
          BY <2>1, <1>1, <1>2, <1>5, <1>12
        <4> QED
          BY <4>1, <2>2, <2>3, <1>2, <1>3 DEF Addr
      <3> QED
        BY <3>1, <1>9
    <2>7. mem[from + k] = Mark[owner]
      BY <2>2, <1>4
    <2> QED
      BY <2>2, <2>5, <2>6, <2>7, <1>8
  <1> QED
    BY <1>11, <1>12

\* What was stored before is still in the block returned and in all others.
LEMMA AnswerBlockInv ==
  ASSUME EndsBelowTop, Askable, Typing, NEW F, Running(F), AnswerBlock
  PROVE  Typing' /\ pc' # "MEM_INIT" /\ Running(F)' /\ Unmoved(F)
  <1>1. /\ pc = "MEM_RET" /\ hl # 0 /\ pc' = "idle" /\ call' = "none" /\ owner' = NoOne
        /\ length' = 0 /\ hl' = 0 /\ bc' = 0 /\ temp' = 0 /\ first2' = 0 /\ from' = 0
        /\ ptr' = [ptr EXCEPT ![owner] = hl] /\ len' = [len EXCEPT ![owner] = length]
        /\ intact' = [intact EXCEPT ![owner] =
                        IF call = "realloc" THEN Lesser(intact[owner], length) ELSE 0]
        /\ moved' = [moved EXCEPT ![owner] = (call = "realloc" /\ (moved[owner] \/ Overtakes))]
    BY DEF AnswerBlock, Hand, Return
  <1>2. Calling /\ Whole(mem, F, Held) /\ JoinedBut(mem, F, {}) /\ Handles
    BY DEF Running
  <1>3. /\ owner \in Owners /\ call \in {"alloc", "calloc", "realloc"} /\ ptr[owner] = 0
        /\ length \in Int /\ length >= 2 /\ length \in Addr
        /\ hl \in Int /\ hl \in Addr
        /\ hl - 2 \in Held /\ hl - 2 \in Int
        /\ Peek(mem, hl - 2) \in length + 2 .. length + 5
        /\ hl + length <= hl - 2 + Peek(mem, hl - 2)
        /\ \A o \in Owners : ptr[o] # hl
    BY AnswerPlace
  <1>4. /\ mem' \in Memories
        /\ \A y \in Addr : y \in hl .. hl + length - 1 \/ mem'[y] = mem[y]
    BY AnswerFrame
  <1>5. PICK u : u = hl - 2
    OBVIOUS
  <1>6. u \in Held /\ u \in Int /\ hl = u + 2 /\ Peek(mem, u) \in length + 2 .. length + 5
    BY <1>3, <1>5
  <1>7. ASSUME NEW y \in Addr PROVE y \in u + 2 .. u + Peek(mem, u) - 1 \/ mem'[y] = mem[y]
    BY <1>3, <1>4, <1>6 DEF Addr
  <1>8. /\ Whole(mem', F, Held) /\ JoinedBut(mem', F, {})
        /\ \A a \in F \cup Held : Peek(mem', a) = Peek(mem, a)
        /\ \A c \in F \cup Held : c # u =>
             \A y \in Int : c <= y /\ y < c + Peek(mem, c) => mem'[y] = mem[y]
    BY <1>2, <1>4, <1>6, <1>7, Inside
  <1>9. /\ ptr'[owner] = hl /\ len'[owner] = length
        /\ intact'[owner] = (IF call = "realloc" THEN Lesser(intact[owner], length) ELSE 0)
        /\ moved'[owner] = (call = "realloc" /\ (moved[owner] \/ Overtakes))
        /\ \A o \in Owners \ {owner} : /\ ptr'[o] = ptr[o] /\ len'[o] = len[o]
                                       /\ intact'[o] = intact[o] /\ moved'[o] = moved[o]
    BY <1>1, <1>3 DEF Typing
  <1>10. intact[owner] \in Nat /\ length \in Nat /\ intact'[owner] \in Nat
    BY <1>3, <1>9 DEF Typing, Addr, Lesser
  <1>11. Typing'
    <2>1. 0 \in Addr
      BY WordType DEF Addr
    <2>2. ptr' \in [Owners -> Addr] /\ len' \in [Owners -> Nat]
      BY <1>1, <1>3, <1>10 DEF Typing
    <2>3. intact' \in [Owners -> Nat]
      BY <1>1, <1>9, <1>10 DEF Typing
    <2>4. moved' \in [Owners -> BOOLEAN]
      BY <1>1 DEF Typing
    <2> QED
      BY <2>1, <2>2, <2>3, <2>4, <1>1, <1>4 DEF Typing
  <1>12. Held' = Held
    <2>1. Held = {ptr[o] - 2 : o \in {x \in Owners : ptr[x] # 0}} \cup {u}
      BY <1>1, <1>5 DEF Held
    <2>2. Held' = {ptr'[o] - 2 : o \in {x \in Owners : ptr'[x] # 0}}
      BY <1>1 DEF Held
    <2>3. Held \subseteq Held'
      <3>1. u \in Held'
        BY <2>2, <1>1, <1>3, <1>5, <1>9
      <3>2. ASSUME NEW o \in Owners, ptr[o] # 0 PROVE ptr[o] - 2 \in Held'
        <4>1. o # owner
          BY <3>2, <1>3
        <4> QED
          BY <4>1, <3>2, <2>2, <1>9
      <3> QED
        BY <3>1, <3>2, <2>1
    <2>4. Held' \subseteq Held
      <3> SUFFICES ASSUME NEW o \in Owners, ptr'[o] # 0 PROVE ptr'[o] - 2 \in Held
        BY <2>2
      <3>1. CASE o = owner
        BY <3>1, <1>5, <1>6, <1>9
      <3>2. CASE o # owner
        BY <3>2, <2>1, <1>9
      <3> QED
        BY <3>1, <3>2
    <2> QED
      BY <2>3, <2>4
  <1>13. ASSUME NEW o \in Owners, o # owner, ptr[o] # 0 PROVE Served(o)'
    <2>1. ptr[o] - 2 \in Held /\ ptr[o] - 2 # u
      <3>1. ptr[o] \in Int /\ ptr[o] # hl
        BY <1>3 DEF Typing, Addr
      <3> QED
        BY <3>1, <1>6, <1>13, HeldBlock
    <2>2. \A y \in Int : ptr[o] - 2 <= y /\ y < ptr[o] - 2 + Peek(mem, ptr[o] - 2)
                           => mem'[y] = mem[y]
      BY <2>1, <1>8
    <2> QED
      BY <2>2, <1>4, <1>9, <1>13, ServedStill
  <1>14. PICK w : w = owner
    OBVIOUS
  <1>15. Served(w)'
    <2>1. Peek(mem', hl - 2) \in length + 2 .. length + 5
      BY <1>5, <1>6, <1>8
    <2>2. intact'[owner] <= length
      BY <1>9, <1>10 DEF Lesser
    <2>3. ASSUME ~moved'[owner], NEW i \in 0 .. intact'[owner] - 1
          PROVE  mem'[hl + i] = Mark[owner]
      <3>1. call = "realloc"
        <4>1. intact'[owner] # 0
          BY <2>3, <1>10
        <4> QED
          BY <4>1, <1>9
      <3>2. ~moved[owner] /\ ~Overtakes
        BY <3>1, <2>3, <1>9
      <3>3. intact'[owner] <= intact[owner] /\ intact'[owner] <= length
        BY <3>1, <1>9, <1>10 DEF Lesser
      <3>4. i \in Nat /\ i < intact[owner] /\ i < length
        BY <3>3, <2>3, <1>10
      <3> QED
        BY <3>1, <3>2, <3>4, AnswerCopies
    <2> QED
      BY <2>1, <2>2, <2>3, <1>9, <1>14 DEF Served, Holds
  <1>16. Handles'
    <2>1. ASSUME NEW o \in Owners, ptr'[o] # 0 PROVE Served(o)'
      <3>1. CASE o = w
        BY <3>1, <1>15
      <3>2. CASE o # w
        BY <3>2, <2>1, <1>9, <1>13, <1>14
      <3> QED
        BY <3>1, <3>2
    <2>2. \A o, x \in Owners : ptr'[o] # 0 /\ ptr'[o] = ptr'[x] => o = x
      BY <1>2, <1>3, <1>9 DEF Handles
    <2> QED
      BY <2>1, <2>2 DEF Handles
  <1>17. Calling' /\ Walking(F)' /\ Saved(F)'
    BY <1>1 DEF Calling, Walking, Saved
  <1> QED
    BY <1>1, <1>8, <1>11, <1>12, <1>16, <1>17 DEF Running, Unmoved

-----------------------------------------------------------------------------
(* The heap at every step.                                                 *)

\* Every step of a heap in use keeps it.
LEMMA RunningInv ==
  ASSUME EndsBelowTop, Askable, Typing, pc # "MEM_INIT", NEW F \in SUBSET Addr, Running(F), Next
  PROVE  Typing' /\ pc' # "MEM_INIT" /\ \E G \in SUBSET Addr : Running(G)'
  <1>1. CASE Callers
    <2>1. PICK o \in Owners :
            \/ \E n \in Requests : CallAlloc(o, n) \/ CallRealloc(o, n)
            \/ CallFree(o)
            \/ Fill(o)
      BY <1>1 DEF Callers
    <2>2. CASE \E n \in Requests : CallAlloc(o, n) \/ CallRealloc(o, n)
      <3>1. PICK n : n \in Requests /\ (CallAlloc(o, n) \/ CallRealloc(o, n))
        BY <2>2
      <3> QED
        BY <3>1, CallsInv
    <2>3. CASE CallFree(o)
      BY <2>3, CallsInv
    <2>4. CASE Fill(o)
      BY <2>4, FillInv
    <2> QED
      BY <2>1, <2>2, <2>3, <2>4
  <1>2. CASE MemInit
    BY <1>2 DEF MemInit
  <1>3. CASE ListExhausted
    BY <1>3, ListExhaustedInv
  <1>4. CASE TooShort
    BY <1>4, TooShortInv
  <1>5. CASE TakeWhole
    <2>1. Typing' /\ pc' # "MEM_INIT" /\ \E x \in F : TakenWhole(F, x)
      BY <1>5, TakeWholeInv
    <2>2. PICK x \in F : Running(F \ {x})'
      BY <2>1 DEF TakenWhole
    <2>3. F \ {x} \in SUBSET Addr
      OBVIOUS
    <2> QED
      BY <2>1, <2>2, <2>3
  <1>6. CASE TakeTail
    <2>1. Typing' /\ pc' # "MEM_INIT" /\ \E x \in F, rest \in Nat : TakenTail(F, x, rest)
      BY <1>6, TakeTailInv
    <2> QED
      BY <2>1 DEF TakenTail
  <1>7. CASE NextIsBefore
    BY <1>7, NextIsBeforeInv
  <1>8. CASE LinkPrev
    <2>1. /\ Typing' /\ pc' # "MEM_INIT"
          /\ \E b \in Held, p \in F \cup {HeapStart}, G \in SUBSET Addr : Freed(F, b, p, G)
      BY <1>8, LinkPrevInv
    <2> QED
      BY <2>1 DEF Freed
  <1>9. CASE ReallocAllocate
    BY <1>9, ReallocAllocateInv
  <1>10. CASE AnswerNull
    BY <1>10, AnswerNullInv
  <1>11. CASE AnswerBlock
    BY <1>11, AnswerBlockInv
  <1> QED
    BY <1>1, <1>2, <1>3, <1>4, <1>5, <1>6, <1>7, <1>8, <1>9, <1>10, <1>11 DEF Next, Runtime

\* Nothing is called before the heap is initialised.
LEMMA OnlyMemInit == Next /\ Fresh => MemInit
  BY DEF Fresh, Next, Callers, CallAlloc, CallRealloc, CallFree, Call, Fill,
         Runtime, ListExhausted, TooShort, TakeWhole, TakeTail, Found, NextIsBefore,
         LinkPrev, ReallocAllocate, AnswerNull, AnswerBlock

\* IInv is inductive.
LEMMA NextInv ==
  ASSUME EndsBelowTop, Askable, IInv, [Next]_vars
  PROVE  IInv'
  <1>1. CASE Next /\ Started
    <2>1. PICK F \in SUBSET Addr : Running(F)
      BY <1>1 DEF Started
    <2>2. pc # "MEM_INIT" /\ Typing
      BY <1>1 DEF Started, IInv
    <2>3. Typing' /\ pc' # "MEM_INIT" /\ \E G \in SUBSET Addr : Running(G)'
      BY <2>1, <2>2, <1>1, RunningInv
    <2>4. Started'
      BY <2>3 DEF Started
    <2> QED
      BY <2>3, <2>4 DEF IInv
  <1>2. CASE Next /\ Fresh
    <2>1. MemInit
      BY <1>2, OnlyMemInit
    <2> QED
      BY <2>1, MemInitInv
  <1>3. CASE UNCHANGED vars
    <2>1. /\ mem' = mem /\ pc' = pc /\ call' = call /\ owner' = owner /\ length' = length
          /\ hl' = hl /\ bc' = bc /\ temp' = temp /\ first2' = first2 /\ from' = from
          /\ ptr' = ptr /\ len' = len /\ intact' = intact /\ moved' = moved
      BY <1>3 DEF vars, registers, callers
    <2>2. Typing' /\ (Fresh => Fresh')
      BY <2>1 DEF IInv, Typing, Fresh
    <2>3. Held' = Held
      BY <2>1 DEF Held
    <2>4. ASSUME NEW F \in SUBSET Addr, Running(F) PROVE Running(F)'
      <3>1. callers' = callers
        BY <2>1 DEF callers
      <3>2. Whole(mem, F, Held)' /\ JoinedBut(mem, F, {})' /\ Handles'
        BY <3>1, <2>1, <2>3, <2>4, SameMemory
      <3>3. Calling /\ Walking(F) /\ Saved(F)
        BY <2>4 DEF Running
      <3>4. Calling' /\ Walking(F)'
        BY <3>3, <2>1 DEF Calling, Walking
      <3>5. Saved(F)'
        BY <3>3, <2>1 DEF Saved, RestHolds, Overtakes
      <3> QED
        BY <3>2, <3>4, <3>5 DEF Running
    <2>5. Started => Started'
      BY <2>1, <2>4 DEF Started
    <2> QED
      BY <2>2, <2>5 DEF IInv
  <1> QED
    BY <1>1, <1>2, <1>3 DEF IInv

\* From the code's initial memory the invariant holds at every step.
LEMMA AlwaysIInv == ASSUME EndsBelowTop, Askable PROVE Spec => []IInv
  <1>1. Init => IInv
    BY InitInv
  <1>2. IInv /\ [Next]_vars => IInv'
    BY NextInv
  <1> QED
    BY <1>1, <1>2, PTL DEF Spec

-----------------------------------------------------------------------------
(* What follows.                                                           *)

\* Bytes and words keep their width and every pointer handed out is an address,
\* whatever is asked of __MEM_ALLOC, __MEM_FREE, __REALLOC and __CALLOC in
\* whatever order.
THEOREM TypeCorrect == ASSUME EndsBelowTop, Askable PROVE Spec => []TypeOK
  <1>1. IInv => TypeOK
    BY DEF IInv, Typing, TypeOK, Memories
  <1> QED
    BY <1>1, AlwaysIInv, PTL

\* The runtime never loses what a caller stored in its block: not while it
\* relinks the list over released blocks, clears or copies others, nor when
\* __REALLOC moves the block, unless the new block starts inside what __REALLOC
\* still has to copy.
THEOREM Kept == ASSUME EndsBelowTop, Askable PROVE Spec => []ContentsKept
  <1>1. ASSUME IInv PROVE ContentsKept
    <2> SUFFICES ASSUME NEW o \in Owners, ptr[o] # 0, ~moved[o] PROVE Holds(o, intact[o])
      BY DEF ContentsKept
    <2>1. Started
      BY <1>1 DEF IInv, Fresh
    <2> QED
      BY <2>1 DEF Started, Running, Handles, Served
  <1> QED
    BY <1>1, AlwaysIInv, PTL

\* The length word in front of every block handed out covers what was asked for
\* and at most three bytes more: __MEM_FREE always gives back the whole block.
THEOREM WordInFront == ASSUME EndsBelowTop, Askable PROVE Spec => []LengthWord
  <1>1. ASSUME IInv PROVE LengthWord
    <2> SUFFICES ASSUME NEW o \in Owners, ptr[o] # 0
                 PROVE  Peek(mem, ptr[o] - 2) \in len[o] + 2 .. len[o] + 5
      BY DEF LengthWord
    <2>1. Started
      BY <1>1 DEF IInv, Fresh
    <2> QED
      BY <2>1 DEF Started, Running, Handles, Served
  <1> QED
    BY <1>1, AlwaysIInv, PTL
-----------------------------------------------------------------------------
(* The bytes implement the blocks of HeapBlocks.                            *)
-----------------------------------------------------------------------------
(* Induction on the natural numbers.                                       *)

\* A set of naturals with a member has a smallest one.
LEMMA Smallest ==
  ASSUME NEW T \in SUBSET Nat, T # {}
  PROVE  \E n \in T : \A k \in T : n <= k
  <1> DEFINE R == OpToRel(<, Nat)
  <1>1. IsWellFoundedOn(R, Nat)
    BY NatLessThanWellFounded
  <1>2. \A x, y \in Nat : <<x, y>> \in R <=> x < y
    BY DEF OpToRel
  <1> HIDE DEF R
  <1>3. PICK x \in T : \A y \in T : ~ (<<y, x>> \in R)
    BY <1>1, WFMin
  <1>4. ASSUME NEW k \in T PROVE x <= k
    <2>1. ~ (k < x)
      BY <1>2, <1>3
    <2> QED
      BY <2>1
  <1> QED
    BY <1>4

\* A set that holds 0 and every successor of its members holds every natural.
LEMMA Induction ==
  ASSUME NEW S, 0 \in S, \A n \in Nat : n \in S => n + 1 \in S
  PROVE  Nat \subseteq S
  <1> SUFFICES ASSUME NEW T, T = Nat \ S, T # {} PROVE FALSE
    OBVIOUS
  <1>1. PICK n \in T : \A k \in T : n <= k
    BY Smallest
  <1>2. n \in Nat /\ n # 0
    OBVIOUS
  <1>3. n - 1 \in Nat /\ n - 1 \notin T /\ (n - 1) + 1 = n
    BY <1>1, <1>2
  <1> QED
    BY <1>3

-----------------------------------------------------------------------------
(* The list read from memory.                                              *)

\* Positions in the list: no more blocks than fit in the heap.
Ranks == 0 .. HeapSize \div 4

\* f lists the blocks of memory m: the equation of Listed.
Lists(m, f) ==
  f = [k \in Ranks |->
         IF k = 0 THEN Peek(m, HeapStart + 2)
         ELSE LET previous == f[k - 1]
              IN IF previous = 0 THEN 0 ELSE Peek(m, previous + 2)]

\* The list in memory m.
ListIn(m) == CHOOSE f : Lists(m, f)

\* 4 bytes for each rank, and one block more, exceed the heap.
LEMMA RanksType == HeapSize \div 4 \in Nat /\ 4 * (HeapSize \div 4) + 4 > HeapSize
  <1>1. ASSUME NEW s \in Nat PROVE s \div 4 \in Nat /\ 4 * (s \div 4) + 4 > s
    OBVIOUS
  <1> QED
    BY <1>1, HeapAssumption

\* The list of the model is the list of the memory it is in.
LEMMA ListedIn == Listed = ListIn(mem)
  BY DEF Listed, ListIn, Lists, Ranks

\* The same after a step.
LEMMA ListedInPrime == Listed' = ListIn(mem')
  BY DEF Listed, ListIn, Lists, Ranks

\* A function with this equation exists.
LEMMA SomeList == ASSUME NEW m PROVE Lists(m, ListIn(m))
  <1> DEFINE Step(v) == IF v = 0 THEN 0 ELSE Peek(m, v + 2)
             Begun(n, g) ==
               \A k \in 0 .. n : g[k] = IF k = 0 THEN Peek(m, HeapStart + 2) ELSE Step(g[k - 1])
             S == {n \in Nat : \E g : Begun(n, g)}
  <1>1. 0 \in S
    <2>1. PICK g : g = [k \in {0} |-> Peek(m, HeapStart + 2)]
      OBVIOUS
    <2>2. Begun(0, g)
      BY <2>1
    <2> QED
      BY <2>2
  <1>2. ASSUME NEW n \in Nat, n \in S PROVE n + 1 \in S
    <2>1. PICK g : Begun(n, g)
      BY <1>2
    <2>2. PICK e : e = [k \in 0 .. n + 1 |-> IF k = n + 1 THEN Step(g[n]) ELSE g[k]]
      OBVIOUS
    <2>3. ASSUME NEW k \in 0 .. n + 1
          PROVE  e[k] = IF k = 0 THEN Peek(m, HeapStart + 2) ELSE Step(e[k - 1])
      <3>1. CASE k = n + 1
        <4>1. k # 0 /\ k - 1 = n /\ n \in 0 .. n + 1 /\ n # n + 1
          BY <3>1
        <4> QED
          BY <4>1, <3>1, <2>2
      <3>2. CASE k # n + 1
        <4>1. k \in 0 .. n /\ (k # 0 => k - 1 \in 0 .. n + 1 /\ k - 1 # n + 1)
          BY <3>2
        <4>2. g[k] = IF k = 0 THEN Peek(m, HeapStart + 2) ELSE Step(g[k - 1])
          BY <4>1, <2>1
        <4> QED
          BY <4>1, <4>2, <3>2, <2>2
      <3> QED
        BY <3>1, <3>2
    <2>4. Begun(n + 1, e)
      BY <2>3
    <2> QED
      BY <2>4
  <1>3. Nat \subseteq S
    <2> HIDE DEF S
    <2> QED
      BY <1>1, <1>2, Induction
  <1>4. PICK g : Begun(HeapSize \div 4, g)
    BY <1>3, RanksType
  <1>5. PICK f : f = [k \in Ranks |-> g[k]]
    OBVIOUS
  <1>6. ASSUME NEW k \in Ranks
        PROVE  f[k] = IF k = 0 THEN Peek(m, HeapStart + 2) ELSE Step(f[k - 1])
    <2>1. k # 0 => k - 1 \in Ranks
      BY RanksType DEF Ranks
    <2> QED
      BY <2>1, <1>4, <1>5 DEF Ranks
  <1>7. Lists(m, f)
    BY <1>5, <1>6 DEF Lists
  <1> QED
    BY <1>7 DEF ListIn

\* Read from the dummy header on, the list gives every free block.
LEMMA Listing ==
  ASSUME EndsBelowTop, NEW m, NEW F, NEW U, Whole(m, F, U)
  PROVE  {ListIn(m)[k] : k \in Ranks} \ {0} = F
  <1> DEFINE L == ListIn(m)
  <1>1. /\ \A a \in F \cup {HeapStart} : Follows(F, a, Peek(m, a + 2))
        /\ Laid(m, F \cup U)
    BY DEF Whole, Chain
  <1>2. \A c \in F \cup {HeapStart} : /\ c \in Int /\ 0 < c /\ c + 4 <= Last
                                      /\ c = HeapStart \/ HeapStart + 4 <= c
                                      /\ \A d \in F : d # c => c + 4 <= d \/ d + 4 <= c
    <2>1. \A c \in F \cup {HeapStart} : /\ c \in Int /\ 0 < c /\ c + 3 < Last
                                        /\ c = HeapStart \/ HeapStart + 4 <= c
                                        /\ \A d \in F : d # c => c + 4 <= d \/ d + 4 <= c
      BY AllHeaders
    <2>2. Last \in Int
      BY HeapAssumption DEF Last
    <2> QED
      BY <2>1, <2>2
  <1>3. HeapStart \notin F
    BY <1>1, HeapAssumption DEF Laid
  <1>4. \A k \in Ranks : L[k] = IF k = 0 THEN Peek(m, HeapStart + 2)
                                ELSE IF L[k - 1] = 0 THEN 0 ELSE Peek(m, L[k - 1] + 2)
    BY SomeList DEF Lists
  <1> HIDE DEF L
  <1>5. PICK K : K = HeapSize \div 4
    OBVIOUS
  <1>6. K \in Nat /\ 4 * K + 4 > HeapSize /\ Ranks = 0 .. K
    BY <1>5, RanksType DEF Ranks
  <1>7. HeapStart \in Int /\ HeapStart > 0 /\ HeapSize \in Int /\ Last = HeapStart + HeapSize
    BY HeapAssumption DEF Last
  \* The k-th block lies at least 4 * k bytes behind the first place for one.
  <1> DEFINE Far(k) == L[k] = 0 \/ (L[k] \in F /\ L[k] >= HeapStart + 4 + 4 * k)
             S == {k \in Nat : k <= K => Far(k)}
  <1>8. 0 \in S
    <2>1. L[0] = Peek(m, HeapStart + 2) /\ 0 \in Ranks
      BY <1>4, <1>6
    <2>2. L[0] = 0 \/ L[0] \in F
      BY <2>1, <1>1 DEF Follows
    <2>3. L[0] \in F => L[0] >= HeapStart + 4 + 4 * 0
      BY <1>2, <1>3, <1>7
    <2> QED
      BY <2>2, <2>3
  <1>9. ASSUME NEW k \in Nat, k \in S PROVE k + 1 \in S
    <2> SUFFICES ASSUME k + 1 <= K PROVE Far(k + 1)
      OBVIOUS
    <2>1. /\ k \in Ranks /\ k + 1 \in Ranks /\ k + 1 # 0 /\ (k + 1) - 1 = k
          /\ L[k] = 0 \/ (L[k] \in F /\ L[k] >= HeapStart + 4 + 4 * k)
      BY <1>6, <1>9
    <2>2. L[k + 1] = IF L[k] = 0 THEN 0 ELSE Peek(m, L[k] + 2)
      BY <2>1, <1>4
    <2>3. CASE L[k] = 0
      BY <2>2, <2>3
    <2>4. CASE L[k] # 0 /\ L[k + 1] # 0
      <3>1. Follows(F, L[k], L[k + 1]) /\ L[k] \in F
        BY <2>1, <2>2, <2>4, <1>1
      <3>2. L[k + 1] \in F /\ L[k] < L[k + 1]
        BY <3>1, <2>4 DEF Follows
      <3>3. L[k] + 4 <= L[k + 1]
        BY <3>1, <3>2, <1>2
      <3>4. L[k + 1] >= HeapStart + 4 + 4 * (k + 1)
        BY <3>1, <3>2, <3>3, <2>1, <2>4, <1>2, <1>7
      <3> QED
        BY <3>2, <3>4
    <2> QED
      BY <2>3, <2>4
  <1>10. Nat \subseteq S
    <2> HIDE DEF S
    <2> QED
      BY <1>8, <1>9, Induction
  <1>11. \A k \in Ranks : Far(k)
    BY <1>6, <1>10
  <1>12. L[K] = 0
    <2>1. L[K] = 0 \/ (L[K] \in F /\ L[K] >= HeapStart + 4 + 4 * K)
      BY <1>6, <1>11
    <2> QED
      BY <2>1, <1>2, <1>6, <1>7
  \* No block is passed over.
  <1>13. ASSUME NEW c \in F PROVE \E k \in Ranks : L[k] = c
    <2> DEFINE Passed(k) == (\E i \in 0 .. k : L[i] = c) \/ (L[k] # 0 /\ L[k] < c)
               T == {k \in Nat : k <= K => Passed(k)}
    <2>1. 0 \in T
      <3>1. L[0] = Peek(m, HeapStart + 2) /\ HeapStart < c /\ c \in Int
        <4>1. HeapStart < c
          BY <1>2, <1>3, <1>7
        <4> QED
          BY <4>1, <1>2, <1>4, <1>6
      <3>2. L[0] # 0 /\ L[0] <= c /\ L[0] \in F
        BY <3>1, <1>1 DEF Follows
      <3>3. L[0] \in Int /\ c \in Int
        BY <3>1, <3>2, <1>2
      <3>4. L[0] = c \/ L[0] < c
        BY <3>2, <3>3
      <3>5. 0 \in 0 .. 0
        OBVIOUS
      <3> QED
        BY <3>2, <3>4, <3>5
    <2>2. ASSUME NEW k \in Nat, k \in T PROVE k + 1 \in T
      <3> SUFFICES ASSUME k + 1 <= K PROVE Passed(k + 1)
        OBVIOUS
      <3>1. k \in Ranks /\ k + 1 \in Ranks /\ k + 1 # 0 /\ (k + 1) - 1 = k /\ Passed(k)
        BY <1>6, <2>2
      <3>2. L[k + 1] = IF L[k] = 0 THEN 0 ELSE Peek(m, L[k] + 2)
        BY <3>1, <1>4
      <3>3. CASE \E i \in 0 .. k : L[i] = c
        <4>1. PICK i \in 0 .. k : L[i] = c
          BY <3>3
        <4>2. i \in 0 .. k + 1
          OBVIOUS
        <4> QED
          BY <4>1, <4>2
      <3>4. CASE L[k] # 0 /\ L[k] < c
        <4>1. L[k] \in F
          BY <3>1, <3>4, <1>11
        <4>2. Follows(F, L[k], L[k + 1])
          BY <3>2, <3>4, <4>1, <1>1
        <4>3. L[k + 1] # 0 /\ L[k + 1] <= c /\ L[k + 1] \in F
          BY <3>4, <4>2 DEF Follows
        <4>4. L[k + 1] = c \/ L[k + 1] < c
          BY <4>3, <1>2
        <4>5. k + 1 \in 0 .. k + 1
          OBVIOUS
        <4> QED
          BY <4>3, <4>4, <4>5
      <3> QED
        BY <3>1, <3>3, <3>4
    <2>3. Nat \subseteq T
      <3> HIDE DEF T
      <3> QED
        BY <2>1, <2>2, Induction
    <2>4. Passed(K)
      BY <2>3, <1>6
    <2> QED
      BY <2>4, <1>6, <1>12
  <1>14. {L[k] : k \in Ranks} \ {0} = F
    <2>1. \A k \in Ranks : L[k] = 0 \/ L[k] \in F
      BY <1>11
    <2>2. 0 \notin F
      BY <1>2
    <2> HIDE DEF Far
    <2> QED
      BY <2>1, <2>2, <1>13
  <1> QED
    BY <1>14 DEF L

-----------------------------------------------------------------------------
(* What HeapBlocks sees.                                                   *)

\* The blocks of memory m that start in S.
BlocksIn(m, S) == {[at |-> a, size |-> Peek(m, a)] : a \in S}

\* The three variables of HeapBlocks, as Heap gives them.
FreeOnes == IF pc = "MEM_INIT" THEN {[at |-> HeapStart + 4, size |-> HeapSize - 4]}
            ELSE ListedBlocks
Wanted == IF pc = "MEM_LOOP" THEN length ELSE NoOne
Seen == <<FreeOnes, HandedOut, Wanted>>

\* These are the variables.
LEMMA SeenIs == Blocks!vars = Seen
  BY DEF Blocks!vars, Seen, FreeOnes, Wanted

\* And so they are after a step.
LEMMA SeenIsThen == (Blocks!vars)' = Seen'
  BY DEF Blocks!vars, Seen, FreeOnes, Wanted

\* The blocks handed out start where the invariant says.
LEMMA HandedOutIn == HandedOut = BlocksIn(mem, Held)
  <1>1. HandedOut = {BlockAt(a) : a \in Held}
    BY DEF HandedOut, Held
  <1> QED
    BY <1>1 DEF BlocksIn, BlockAt

\* The same after a step.
LEMMA HandedOutInPrime == HandedOut' = BlocksIn(mem', Held')
  <1>1. HandedOut' = {[at |-> a, size |-> Peek(mem', a)] : a \in Held'}
    BY DEF HandedOut, Held, BlockAt
  <1> QED
    BY <1>1 DEF BlocksIn

\* Of a heap in use HeapBlocks sees the blocks of the list and those handed out.
LEMMA Free ==
  ASSUME EndsBelowTop, pc # "MEM_INIT", NEW F, Running(F)
  PROVE  FreeOnes = BlocksIn(mem, F) /\ HandedOut = BlocksIn(mem, Held)
  <1>1. {Listed[k] : k \in Ranks} \ {0} = F
    BY Listing, ListedIn DEF Running
  <1>2. ListedBlocks = BlocksIn(mem, F)
    BY <1>1 DEF ListedBlocks, BlocksIn, BlockAt, Ranks
  <1> QED
    BY <1>2, HandedOutIn DEF FreeOnes

\* The same after a step.
LEMMA FreeThen ==
  ASSUME EndsBelowTop, pc' # "MEM_INIT", NEW F, Running(F)'
  PROVE  FreeOnes' = BlocksIn(mem', F) /\ HandedOut' = BlocksIn(mem', Held')
  <1>1. Whole(mem', F, Held')
    BY DEF Running
  <1>2. {ListIn(mem')[k] : k \in Ranks} \ {0} = F
    BY <1>1, Listing
  <1>3. {Listed'[k] : k \in Ranks} \ {0} = F
    BY <1>2, ListedInPrime
  <1>4. ListedBlocks' = BlocksIn(mem', F)
    BY <1>3 DEF ListedBlocks, BlocksIn, BlockAt, Ranks
  <1> QED
    BY <1>4, HandedOutInPrime DEF FreeOnes

\* A step that leaves the headers alone is not seen, but for what is asked.
LEMMA UnmovedSeen ==
  ASSUME EndsBelowTop, pc # "MEM_INIT", pc' # "MEM_INIT", NEW F, Running(F), Running(F)',
         Unmoved(F)
  PROVE  FreeOnes' = FreeOnes /\ HandedOut' = HandedOut
  <1>1. BlocksIn(mem', F) = BlocksIn(mem, F) /\ BlocksIn(mem', Held) = BlocksIn(mem, Held)
    BY DEF Unmoved, BlocksIn
  <1> QED
    BY <1>1, Free, FreeThen DEF Unmoved

-----------------------------------------------------------------------------
(* The steps of HeapBlocks.                                                *)

\* A call of MEM_ALLOC.
LEMMA AskStep ==
  ASSUME NEW n \in Requests, Wanted = NoOne, Wanted' = n,
         FreeOnes' = FreeOnes, HandedOut' = HandedOut
  PROVE  Blocks!Next
  <1>1. Blocks!Ask(n)
    BY DEF Blocks!Ask, FreeOnes, Wanted
  <1> QED
    BY <1>1 DEF Blocks!Next

\* The answer NULL.
LEMMA RefuseStep ==
  ASSUME Wanted # NoOne, Wanted' = NoOne, \A b \in FreeOnes : b.size < Wanted + 2,
         FreeOnes' = FreeOnes, HandedOut' = HandedOut
  PROVE  Blocks!Next
  <1>1. Blocks!OutOfMemory
    BY DEF Blocks!OutOfMemory, Blocks!Need, FreeOnes, Wanted
  <1> QED
    BY <1>1 DEF Blocks!Next

\* An allocation that unlinks the block found.
LEMMA TakeWholeStep ==
  ASSUME Wanted # NoOne, Wanted' = NoOne, NEW b \in FreeOnes,
         b.size >= Wanted + 2, b.size - (Wanted + 2) < 4,
         \A c \in FreeOnes : c.size >= Wanted + 2 => b.at <= c.at,
         FreeOnes' = FreeOnes \ {b}, HandedOut' = HandedOut \cup {b}
  PROVE  Blocks!Next
  <1>1. Blocks!TakeWhole(b)
    BY DEF Blocks!TakeWhole, Blocks!FirstFit, Blocks!Need, Blocks!MinBlock, FreeOnes, Wanted
  <1>2. Blocks!Allocate
    BY <1>1 DEF Blocks!Allocate, FreeOnes, Wanted
  <1> QED
    BY <1>2 DEF Blocks!Next

\* An allocation from the tail of the block found.
LEMMA TakeTailStep ==
  ASSUME Wanted # NoOne, Wanted' = NoOne, NEW b \in FreeOnes,
         b.size >= Wanted + 2, b.size - (Wanted + 2) >= 4,
         \A c \in FreeOnes : c.size >= Wanted + 2 => b.at <= c.at,
         FreeOnes' = (FreeOnes \ {b}) \cup {[at |-> b.at, size |-> b.size - (Wanted + 2)]},
         HandedOut' = HandedOut \cup
                        {[at |-> (b.at + b.size) - (Wanted + 2), size |-> Wanted + 2]}
  PROVE  Blocks!Next
  <1>1. Blocks!TakeTail(b)
    BY DEF Blocks!TakeTail, Blocks!FirstFit, Blocks!Need, Blocks!MinBlock, Blocks!End,
           FreeOnes, Wanted
  <1>2. Blocks!Allocate
    BY <1>1 DEF Blocks!Allocate, FreeOnes, Wanted
  <1> QED
    BY <1>2 DEF Blocks!Next

\* The free blocks that b touches, at most one on either side, and what they
\* are joined to.
Touching(b, before, after) ==
  \A c \in FreeOnes : /\ c.at + c.size = b.at <=> c \in before
                      /\ c.at = b.at + b.size <=> c \in after
\* The block after b is taken over, if there is one.
JoinedNext(b, after, joined) ==
  \/ after = {} /\ joined = b
  \/ \E c : after = {c} /\ joined = [at |-> b.at, size |-> b.size + c.size]
\* The block before takes all over, if there is one.
JoinedPrevious(joined, before, whole) ==
  \/ before = {} /\ whole = joined
  \/ \E c : before = {c} /\ whole = [at |-> c.at, size |-> c.size + joined.size]

\* A release.
LEMMA ReleaseStep ==
  ASSUME Wanted = NoOne, Wanted' = NoOne, NEW b \in HandedOut,
         NEW before, NEW after, NEW joined, NEW whole,
         before \subseteq FreeOnes, after \subseteq FreeOnes, Touching(b, before, after),
         JoinedNext(b, after, joined), JoinedPrevious(joined, before, whole),
         HandedOut' = HandedOut \ {b},
         FreeOnes' = (FreeOnes \ (before \cup after)) \cup {whole}
  PROVE  Blocks!Next
  <1>1. Blocks!Before(b) = before /\ Blocks!After(b) = after
    BY DEF Touching, Blocks!Before, Blocks!After, Blocks!End, FreeOnes
  <1>2. Blocks!JoinNext(b) = joined
    <2>1. CASE after = {} /\ joined = b
      BY <2>1, <1>1 DEF Blocks!JoinNext
    <2>2. CASE \E c : after = {c} /\ joined = [at |-> b.at, size |-> b.size + c.size]
      <3>1. PICK c : after = {c} /\ joined = [at |-> b.at, size |-> b.size + c.size]
        BY <2>2
      <3>2. (CHOOSE d \in after : TRUE) = c /\ after # {}
        BY <3>1
      <3> QED
        BY <3>1, <3>2, <1>1 DEF Blocks!JoinNext
    <2> QED
      BY <2>1, <2>2 DEF JoinedNext
  <1>3. Blocks!JoinPrevious(b, joined) = whole
    <2>1. CASE before = {} /\ whole = joined
      BY <2>1, <1>1 DEF Blocks!JoinPrevious
    <2>2. CASE \E c : before = {c} /\ whole = [at |-> c.at, size |-> c.size + joined.size]
      <3>1. PICK c : before = {c} /\ whole = [at |-> c.at, size |-> c.size + joined.size]
        BY <2>2
      <3>2. (CHOOSE d \in before : TRUE) = c /\ before # {}
        BY <3>1
      <3> QED
        BY <3>1, <3>2, <1>1 DEF Blocks!JoinPrevious
    <2> QED
      BY <2>1, <2>2 DEF JoinedPrevious
  <1>4. Blocks!Release(b)
    BY <1>1, <1>2, <1>3 DEF Blocks!Release, FreeOnes, Wanted
  <1> QED
    BY <1>4 DEF Blocks!Next

-----------------------------------------------------------------------------
(* Every step of Heap.                                                     *)

\* A length asked for is not the sign that nothing is.
LEMMA RequestType ==
  ASSUME Askable, NEW n \in Requests PROVE n \in Nat /\ n # NoOne
  BY HeapAssumption, WordType DEF Askable

\* The first block is the whole arena.
LEMMA MemInitSeen == ASSUME EndsBelowTop, IInv, MemInit PROVE Seen' = Seen
  <1>1. pc = "MEM_INIT" /\ pc' = "idle"
    BY DEF MemInit, Return
  <1>2. Fresh
    BY <1>1 DEF IInv, Started
  <1>3. PICK F : F = {HeapStart + 4}
    OBVIOUS
  <1>4. Held' = {} /\ Running(F)' /\ Peek(mem', HeapStart + 4) = HeapSize - 4
    BY <1>3, MemInitInv
  <1>5. FreeOnes' = BlocksIn(mem', F) /\ HandedOut' = BlocksIn(mem', Held')
    BY <1>1, <1>4, FreeThen
  <1>6. FreeOnes' = FreeOnes
    BY <1>1, <1>3, <1>4, <1>5 DEF FreeOnes, BlocksIn
  <1>7. HandedOut' = {} /\ HandedOut = {}
    <2>1. Held = {}
      BY <1>1, <1>2 DEF Fresh, Held
    <2> QED
      BY <2>1, <1>4, <1>5, HandedOutIn DEF BlocksIn
  <1> QED
    BY <1>1, <1>6, <1>7 DEF Seen, Wanted

\* MEM_ALLOC is called.
LEMMA AskSeen ==
  ASSUME EndsBelowTop, Askable, pc \in {"idle", "REALLOC_ALLOC"}, pc' = "MEM_LOOP",
         NEW n \in Requests, length' = n,
         mem' = mem, callers' = callers, NEW F, Running(F), Running(F)'
  PROVE  Blocks!Next
  <1>1. Held' = Held
    BY DEF Held, callers
  <1>2. Unmoved(F)
    BY <1>1 DEF Unmoved
  <1>3. FreeOnes' = FreeOnes /\ HandedOut' = HandedOut
    BY <1>2, UnmovedSeen
  <1> QED
    BY <1>3, AskStep DEF Wanted

\* A step of a walk, MEM_FREE called, a block returned: nothing is seen.
LEMMA NothingSeen ==
  ASSUME EndsBelowTop, pc # "MEM_INIT", pc' # "MEM_INIT", NEW F, Running(F), Running(F)',
         Unmoved(F), pc = "MEM_LOOP" <=> pc' = "MEM_LOOP", pc = "MEM_LOOP" => length' = length
  PROVE  Seen' = Seen
  BY UnmovedSeen DEF Seen, Wanted

\* What the callers do.
LEMMA CallsSeen ==
  ASSUME EndsBelowTop, Askable, Typing, pc # "MEM_INIT", NEW F \in SUBSET Addr, Running(F), Callers
  PROVE  Seen' = Seen \/ Blocks!Next
  <1>1. PICK o \in Owners :
          \/ \E n \in Requests : CallAlloc(o, n) \/ CallRealloc(o, n)
          \/ CallFree(o)
          \/ Fill(o)
    BY DEF Callers
  <1>2. CASE \E n \in Requests : CallAlloc(o, n) \/ CallRealloc(o, n)
    <2>1. PICK n \in Requests : CallAlloc(o, n) \/ CallRealloc(o, n)
      BY <1>2
    <2>2. pc' # "MEM_INIT" /\ Running(F)'
      BY <2>1, CallsInv
    <2>3. pc = "idle" /\ mem' = mem /\ callers' = callers /\ length' = n
      BY <2>1 DEF CallAlloc, CallRealloc, Call
    <2>4. CASE pc' = "MEM_LOOP"
      BY <2>2, <2>3, <2>4, AskSeen
    <2>5. CASE pc' = "MEM_LOOP2"
      <3>1. Held' = Held
        BY <2>3, <2>5 DEF Held, callers
      <3>2. Unmoved(F)
        BY <3>1, <2>3 DEF Unmoved
      <3> QED
        BY <3>2, <2>2, <2>3, <2>5, NothingSeen
    <2> QED
      BY <2>1, <2>4, <2>5 DEF CallAlloc, CallRealloc, EnterAlloc, EnterFree
  <1>3. CASE CallFree(o)
    <2>1. pc' # "MEM_INIT" /\ Running(F)'
      BY <1>3, CallsInv
    <2>2. pc = "idle" /\ pc' = "MEM_LOOP2" /\ mem' = mem /\ callers' = callers
      BY <1>3 DEF CallFree, Call, EnterFree
    <2>3. Held' = Held
      BY <2>2 DEF Held, callers
    <2>4. Unmoved(F)
      BY <2>3, <2>2 DEF Unmoved
    <2> QED
      BY <2>1, <2>2, <2>4, NothingSeen
  <1>4. CASE Fill(o)
    <2>1. pc' # "MEM_INIT" /\ Running(F)' /\ Unmoved(F)
      BY <1>4, FillInv
    <2>2. pc = "idle" /\ pc' = "idle"
      BY <1>4 DEF Fill, registers
    <2> QED
      BY <2>1, <2>2, NothingSeen
  <1> QED
    BY <1>1, <1>2, <1>3, <1>4

\* The walks and the returns.
LEMMA WalksSeen ==
  ASSUME EndsBelowTop, Askable, Typing, pc # "MEM_INIT", NEW F \in SUBSET Addr, Running(F),
         TooShort \/ NextIsBefore \/ AnswerNull \/ AnswerBlock
  PROVE  Seen' = Seen
  <1>1. CASE TooShort
    <2>1. /\ pc = "MEM_LOOP" /\ pc' = pc /\ length' = length /\ mem' = mem /\ callers' = callers
      BY <1>1 DEF TooShort
    <2>2. Running(F)' /\ Held' = Held
      BY <2>1, <1>1, TooShortInv DEF Held, callers
    <2>3. Unmoved(F)
      BY <2>1, <2>2 DEF Unmoved
    <2> QED
      BY <2>1, <2>2, <2>3, NothingSeen
  <1>2. CASE NextIsBefore
    <2>1. /\ pc = "MEM_LOOP2" /\ pc' = pc /\ mem' = mem /\ callers' = callers
      BY <1>2 DEF NextIsBefore
    <2>2. Running(F)' /\ Held' = Held
      BY <2>1, <1>2, NextIsBeforeInv DEF Held, callers
    <2>3. Unmoved(F)
      BY <2>1, <2>2 DEF Unmoved
    <2> QED
      BY <2>1, <2>2, <2>3, NothingSeen
  <1>3. CASE AnswerNull
    <2>1. /\ pc = "MEM_RET" /\ hl = 0 /\ pc' = "idle" /\ mem' = mem
          /\ ptr' = [ptr EXCEPT ![owner] = 0]
      BY <1>3 DEF AnswerNull, Hand, Return
    <2>2. Running(F)'
      BY <1>3, AnswerNullInv
    <2>3. Held' = Held
      <3>1. owner \in Owners /\ ptr[owner] = 0
        BY <2>1 DEF Running, Calling
      <3>2. ptr' = ptr
        BY <3>1, <2>1 DEF Typing
      <3> QED
        BY <3>2, <2>1 DEF Held
    <2>4. Unmoved(F)
      BY <2>1, <2>3 DEF Unmoved
    <2> QED
      BY <2>1, <2>2, <2>4, NothingSeen
  <1>4. CASE AnswerBlock
    <2>1. pc = "MEM_RET" /\ pc' = "idle"
      BY <1>4 DEF AnswerBlock, Return
    <2>2. Running(F)' /\ Unmoved(F)
      BY <1>4, AnswerBlockInv
    <2> QED
      BY <2>1, <2>2, NothingSeen
  <1> QED
    BY <1>1, <1>2, <1>3, <1>4

\* MEM_ALLOC answers NULL when every block of the list is too short.
LEMMA ListExhaustedSeen ==
  ASSUME EndsBelowTop, Askable, Typing, pc # "MEM_INIT", NEW F \in SUBSET Addr, Running(F),
         ListExhausted
  PROVE  Blocks!Next
  <1>1. /\ pc = "MEM_LOOP" /\ pc' = "MEM_RET" /\ hl = 0 /\ hl' = hl
        /\ mem' = mem /\ callers' = callers
    BY DEF ListExhausted
  <1>2. Running(F)' /\ Held' = Held
    BY <1>1, ListExhaustedInv DEF Held, callers
  <1>3. FreeOnes' = FreeOnes /\ HandedOut' = HandedOut
    <2>1. Unmoved(F)
      BY <1>1, <1>2 DEF Unmoved
    <2> QED
      BY <2>1, <1>1, <1>2, UnmovedSeen
  <1>4. length \in Requests /\ bc = length + 2 /\ \A c \in F : Peek(mem, c) < bc
    BY <1>1 DEF Running, Calling, Walking
  <1>5. Wanted = length /\ Wanted # NoOne /\ Wanted' = NoOne
    BY <1>1, <1>4, RequestType DEF Wanted
  <1>6. \A b \in FreeOnes : b.size < Wanted + 2
    BY <1>1, <1>4, <1>5, Free DEF BlocksIn
  <1> QED
    BY <1>3, <1>5, <1>6, RefuseStep

\* First fit: the walk stops at the first block of the list that is long enough.
LEMMA FirstFound ==
  ASSUME EndsBelowTop, Askable, Typing, NEW F \in SUBSET Addr, Running(F), NEW rest \in Nat,
         Found(rest)
  PROVE  /\ Wanted = length /\ Wanted # NoOne /\ Wanted' = NoOne
         /\ bc = Wanted + 2 /\ bc \in Int /\ Peek(mem, hl) = rest + bc /\ hl \in F /\ hl \in Int
         /\ FreeOnes = BlocksIn(mem, F) /\ HandedOut = BlocksIn(mem, Held)
         /\ \A c \in FreeOnes : c.size >= Wanted + 2 => hl <= c.at
  <1>1. pc = "MEM_LOOP" /\ pc' = "MEM_RET"
    BY DEF Found
  <1>2. /\ hl \in F /\ hl \in Int /\ bc \in Int /\ bc = length + 2 /\ length \in Requests
        /\ Peek(mem, hl) = rest + bc /\ \A c \in F : c < hl => Peek(mem, c) < bc
    BY FoundBlock
  <1>3. Wanted = length /\ Wanted # NoOne /\ Wanted' = NoOne
    BY <1>1, <1>2, RequestType DEF Wanted
  <1>4. FreeOnes = BlocksIn(mem, F) /\ HandedOut = BlocksIn(mem, Held)
    BY <1>1, Free
  <1>5. ASSUME NEW c \in F, Peek(mem, c) >= bc PROVE hl <= c
    <2>1. c \in Int /\ Peek(mem, c) \in Int
      BY AllHeaders DEF Running
    <2>2. ~ (Peek(mem, c) < bc)
      BY <2>1, <1>2, <1>5
    <2> QED
      BY <2>1, <2>2, <1>2
  <1>6. \A c \in FreeOnes : c.size >= Wanted + 2 => hl <= c.at
    BY <1>2, <1>3, <1>4, <1>5 DEF BlocksIn
  <1> QED
    BY <1>2, <1>3, <1>4, <1>6

\* The block found is handed out whole.
LEMMA TakeWholeSeen ==
  ASSUME EndsBelowTop, Askable, Typing, pc # "MEM_INIT", NEW F \in SUBSET Addr, Running(F),
         TakeWhole
  PROVE  Blocks!Next
  <1>1. PICK rest \in 0 .. 3 : Found(rest)
    BY DEF TakeWhole
  <1>2. PICK x \in F : TakenWhole(F, x)
    BY TakeWholeInv
  <1>3. /\ Wanted = length /\ Wanted # NoOne /\ Wanted' = NoOne
        /\ bc = Wanted + 2 /\ bc \in Int /\ Peek(mem, hl) = rest + bc
        /\ FreeOnes = BlocksIn(mem, F) /\ HandedOut = BlocksIn(mem, Held)
        /\ \A c \in FreeOnes : c.size >= Wanted + 2 => hl <= c.at
    <2>1. rest \in Nat
      OBVIOUS
    <2> QED
      BY <2>1, <1>1, FirstFound
  <1>4. /\ x = hl /\ Running(F \ {x})' /\ Held' = Held \cup {x}
        /\ \A a \in F \cup Held : Peek(mem', a) = Peek(mem, a)
    BY <1>2 DEF TakenWhole
  <1>5. PICK b : b = [at |-> x, size |-> Peek(mem, x)]
    OBVIOUS
  <1>6. b \in FreeOnes /\ b.at = x /\ b.size = rest + bc
    BY <1>3, <1>4, <1>5 DEF BlocksIn
  <1>7. FreeOnes' = BlocksIn(mem', F \ {x}) /\ HandedOut' = BlocksIn(mem', Held')
    <2>1. pc' # "MEM_INIT"
      BY <1>1 DEF Found
    <2> QED
      BY <2>1, <1>4, FreeThen
  <1>8. FreeOnes' = FreeOnes \ {b}
    <2>1. BlocksIn(mem', F \ {x}) = BlocksIn(mem, F \ {x})
      BY <1>4 DEF BlocksIn
    <2>2. BlocksIn(mem, F \ {x}) = BlocksIn(mem, F) \ {b}
      BY <1>5 DEF BlocksIn
    <2> QED
      BY <2>1, <2>2, <1>3, <1>7
  <1>9. HandedOut' = HandedOut \cup {b}
    <2>1. BlocksIn(mem', Held \cup {x}) = BlocksIn(mem, Held \cup {x})
      BY <1>4 DEF BlocksIn
    <2>2. BlocksIn(mem, Held \cup {x}) = BlocksIn(mem, Held) \cup {b}
      BY <1>5 DEF BlocksIn
    <2> QED
      BY <2>1, <2>2, <1>3, <1>4, <1>7
  <1>10. b.size >= Wanted + 2 /\ b.size - (Wanted + 2) < 4
    BY <1>3, <1>6
  <1> QED
    BY <1>3, <1>4, <1>6, <1>8, <1>9, <1>10, TakeWholeStep

\* The block found is split.
LEMMA TakeTailSeen ==
  ASSUME EndsBelowTop, Askable, Typing, pc # "MEM_INIT", NEW F \in SUBSET Addr, Running(F),
         TakeTail
  PROVE  Blocks!Next
  <1>1. PICK k \in 4 .. Word - 1 : Found(k)
    BY DEF TakeTail
  <1>2. PICK x \in F, rest \in Nat : TakenTail(F, x, rest)
    BY TakeTailInv
  <1>3. /\ Wanted = length /\ Wanted # NoOne /\ Wanted' = NoOne
        /\ bc = Wanted + 2 /\ bc \in Int /\ hl \in Int
        /\ FreeOnes = BlocksIn(mem, F) /\ HandedOut = BlocksIn(mem, Held)
        /\ \A c \in FreeOnes : c.size >= Wanted + 2 => hl <= c.at
    <2>1. k \in Nat
      BY WordType
    <2> QED
      BY <2>1, <1>1, FirstFound
  <1>4. /\ x = hl /\ rest >= 4 /\ Peek(mem, x) = rest + bc /\ x + rest \notin F \cup Held
        /\ Running(F)' /\ Held' = Held \cup {x + rest}
        /\ Peek(mem', x) = rest /\ Peek(mem', x + rest) = bc
        /\ \A a \in (F \cup Held) \ {x} : Peek(mem', a) = Peek(mem, a)
    BY <1>2 DEF TakenTail
  <1>5. PICK b, head, t, tail :
          /\ b = [at |-> x, size |-> Peek(mem, x)] /\ head = [at |-> x, size |-> rest]
          /\ t = x + rest /\ tail = [at |-> t, size |-> bc]
    OBVIOUS
  <1>6. b \in FreeOnes /\ b.at = x /\ b.size = rest + bc
    BY <1>3, <1>4, <1>5 DEF BlocksIn
  <1>7. FreeOnes' = BlocksIn(mem', F) /\ HandedOut' = BlocksIn(mem', Held')
    <2>1. pc' # "MEM_INIT"
      BY <1>1 DEF Found
    <2> QED
      BY <2>1, <1>4, FreeThen
  <1>8. FreeOnes' = (FreeOnes \ {b}) \cup {head}
    <2>1. BlocksIn(mem', F \ {x}) = BlocksIn(mem, F \ {x})
      BY <1>4 DEF BlocksIn
    <2>2. BlocksIn(mem, F \ {x}) = BlocksIn(mem, F) \ {b}
      BY <1>5 DEF BlocksIn
    <2>3. BlocksIn(mem', F) = BlocksIn(mem', F \ {x}) \cup {head}
      BY <1>4, <1>5 DEF BlocksIn
    <2> QED
      BY <2>1, <2>2, <2>3, <1>3, <1>7
  <1>9. HandedOut' = HandedOut \cup {tail}
    <2>1. x \notin Held
      BY DEF Running, Whole
    <2>2. BlocksIn(mem', Held) = BlocksIn(mem, Held)
      BY <2>1, <1>4 DEF BlocksIn
    <2>3. BlocksIn(mem', Held \cup {t}) = BlocksIn(mem', Held) \cup {tail}
      BY <1>4, <1>5 DEF BlocksIn
    <2> QED
      BY <2>2, <2>3, <1>3, <1>4, <1>5, <1>7
  <1>10. b.size >= Wanted + 2 /\ b.size - (Wanted + 2) = rest /\ (b.at + b.size) - (Wanted + 2) = t
    BY <1>3, <1>4, <1>5, <1>6
  <1> QED
    BY <1>3, <1>4, <1>5, <1>6, <1>8, <1>9, <1>10, TakeTailStep

\* Only the neighbours in the list touch a block: p is the last one before b, n
\* the first one behind it.
LEMMA Neighbours ==
  ASSUME EndsBelowTop, NEW m, NEW F, NEW U, Whole(m, F, U), NEW b \in U,
         NEW p \in F \cup {HeapStart}, p < b, NEW n, n = Peek(m, p + 2), n = 0 \/ n >= b
  PROVE  /\ n # 0 => n \in F /\ p < n
         /\ \A c \in F : c + Peek(m, c) = b <=> c = p /\ p + Peek(m, p) = b
         /\ \A c \in F : c = b + Peek(m, b) <=> c = n /\ b + Peek(m, b) = n
         /\ b + Peek(m, b) = n => n # 0
  <1>1. /\ \A c \in F \cup U \cup {HeapStart} : /\ c \in Int /\ 0 < c /\ Peek(m, c) \in Int
                                                /\ c = HeapStart \/ HeapStart + 4 <= c
    BY AllHeaders
  <1>2. /\ Laid(m, F \cup U) /\ F \cap U = {} /\ Follows(F, p, n)
    BY DEF Whole, Chain
  <1>3. /\ b \in Int /\ p \in Int /\ Peek(m, b) \in Int /\ Peek(m, b) >= 4 /\ b > 0
        /\ HeapStart \in Int
    BY <1>1, <1>2, HeapAssumption DEF Laid
  <1>4. n # 0 => n \in F /\ p < n /\ n \in Int
    BY <1>1, <1>2 DEF Follows
  <1>5. ASSUME NEW c \in F, c + Peek(m, c) = b PROVE c = p
    <2>1. c \in Int /\ Peek(m, c) \in Int /\ Peek(m, c) >= 4
      BY <1>1, <1>2 DEF Laid
    <2>2. c < b
      BY <2>1, <1>3, <1>5
    <2>3. ~ (p < c)
      <3> SUFFICES ASSUME p < c PROVE FALSE
        OBVIOUS
      <3>1. n # 0 /\ n <= c
        BY <1>2 DEF Follows
      <3> QED
        BY <3>1, <2>1, <2>2, <1>3, <1>4
    <2>4. ~ (c < p)
      <3> SUFFICES ASSUME c < p PROVE FALSE
        OBVIOUS
      <3>1. p \in F
        <4>1. HeapStart + 4 <= c
          BY <1>2 DEF Laid
        <4> QED
          BY <4>1, <2>1, <1>3
      <3>2. c + Peek(m, c) <= p
        BY <3>1, <1>2 DEF Laid
      <3> QED
        BY <3>2, <1>3, <1>5
    <2> QED
      BY <2>1, <2>3, <2>4, <1>3
  <1>6. ASSUME NEW c \in F, c = b + Peek(m, b) PROVE c = n
    <2>1. p < c /\ c \in Int
      BY <1>3, <1>6
    <2>2. n # 0 /\ n <= c
      BY <2>1, <1>2 DEF Follows
    <2>3. n \in F /\ n \in Int /\ n >= b /\ n # b
      BY <2>2, <1>2, <1>4
    <2>4. b < n
      BY <2>3, <1>3
    <2>5. b + Peek(m, b) <= n
      BY <2>3, <2>4, <1>2 DEF Laid
    <2> QED
      BY <2>1, <2>2, <2>3, <2>5, <1>3, <1>6
  <1>7. b + Peek(m, b) = n => n # 0
    BY <1>3
  <1> QED
    BY <1>4, <1>5, <1>6, <1>7

\* MEM_FREE releases the block whole, and joins it to what it touches.
LEMMA LinkPrevSeen ==
  ASSUME EndsBelowTop, Askable, Typing, pc # "MEM_INIT", NEW F \in SUBSET Addr, Running(F),
         LinkPrev
  PROVE  Blocks!Next
  <1>1. PICK b \in Held, p \in F \cup {HeapStart}, G \in SUBSET Addr : Freed(F, b, p, G)
    BY LinkPrevInv
  <1>2. PICK n, s : n = Peek(mem, p + 2) /\ s = Peek(mem, b)
    OBVIOUS
  <1>3. PICK next \in BOOLEAN, previous \in BOOLEAN :
          /\ next <=> b + s = n
          /\ previous <=> p \in F /\ p + Peek(mem, p) = b
    OBVIOUS
  <1>4. PICK j, N, P : /\ j = (IF previous THEN p ELSE b)
                       /\ N = (IF next THEN {n} ELSE {})
                       /\ P = (IF previous THEN {p} ELSE {})
    OBVIOUS
  <1>5. /\ p < b /\ (n = 0 \/ n >= b) /\ Running(G)' /\ Held' = Held \ {b}
        /\ G = (F \ N) \cup (IF previous THEN {} ELSE {b})
        /\ Peek(mem', j) = (IF previous THEN Peek(mem, p) ELSE 0)
                             + (s + (IF next THEN Peek(mem, n) ELSE 0))
        /\ \A c \in (G \cup Held) \ {b, j} : Peek(mem', c) = Peek(mem, c)
    BY <1>1, <1>2, <1>3, <1>4 DEF Freed
  <1>6. /\ Whole(mem, F, Held) /\ F \cap Held = {}
    BY DEF Running, Whole
  <1>7. /\ n # 0 => n \in F /\ p < n
        /\ \A c \in F : c + Peek(mem, c) = b <=> c = p /\ p + Peek(mem, p) = b
        /\ \A c \in F : c = b + s <=> c = n /\ b + s = n
        /\ b + s = n => n # 0
    BY <1>2, <1>5, <1>6, Neighbours
  <1>8. /\ s \in Int /\ b \in Int /\ p \in Int
        /\ \A c \in F : c \in Int /\ Peek(mem, c) \in Int
    BY <1>2, <1>6, AllHeaders
  <1>9. /\ N \subseteq F /\ P \subseteq F
        /\ \A c \in F : c \in N <=> c = b + s
        /\ \A c \in F : c \in P <=> c + Peek(mem, c) = b
    BY <1>3, <1>4, <1>7
  <1>10. PICK B, before, after :
           /\ B = [at |-> b, size |-> s]
           /\ before = BlocksIn(mem, P) /\ after = BlocksIn(mem, N)
    OBVIOUS
  <1>11. pc = "MEM_LOOP2" /\ pc' \in {"idle", "REALLOC_ALLOC"}
    BY DEF LinkPrev, Return
  <1>12. /\ Wanted = NoOne /\ Wanted' = NoOne
         /\ FreeOnes = BlocksIn(mem, F) /\ HandedOut = BlocksIn(mem, Held)
         /\ FreeOnes' = BlocksIn(mem', G) /\ HandedOut' = BlocksIn(mem', Held \ {b})
    <2>1. Wanted = NoOne /\ Wanted' = NoOne
      BY <1>11 DEF Wanted
    <2>2. FreeOnes = BlocksIn(mem, F) /\ HandedOut = BlocksIn(mem, Held)
      BY Free
    <2>3. FreeOnes' = BlocksIn(mem', G) /\ HandedOut' = BlocksIn(mem', Held')
      BY <1>5, <1>11, FreeThen
    <2> QED
      BY <2>1, <2>2, <2>3, <1>5
  <1>13. B \in HandedOut /\ B.at = b /\ B.size = s
    BY <1>2, <1>10, <1>12 DEF BlocksIn
  <1>14. before \subseteq FreeOnes /\ after \subseteq FreeOnes /\ Touching(B, before, after)
    BY <1>9, <1>10, <1>12, <1>13 DEF BlocksIn, Touching
  <1>15. PICK joined : joined = [at |-> b, size |-> s + (IF next THEN Peek(mem, n) ELSE 0)]
    OBVIOUS
  <1>16. PICK whole : whole = [at |-> j, size |-> Peek(mem', j)]
    OBVIOUS
  <1>17. JoinedNext(B, after, joined)
    <2>1. CASE next
      <3>1. PICK c : c = [at |-> n, size |-> Peek(mem, n)]
        OBVIOUS
      <3>2. after = {c}
        BY <3>1, <2>1, <1>4, <1>10 DEF BlocksIn
      <3>3. joined = [at |-> B.at, size |-> B.size + c.size]
        BY <3>1, <2>1, <1>13, <1>15
      <3> QED
        BY <3>2, <3>3 DEF JoinedNext
    <2>2. CASE ~next
      <3>1. after = {}
        BY <2>2, <1>4, <1>10 DEF BlocksIn
      <3>2. s + 0 = s
        BY <1>8
      <3> QED
        BY <3>1, <3>2, <2>2, <1>10, <1>15 DEF JoinedNext
    <2> QED
      BY <2>1, <2>2
  <1>18. JoinedPrevious(joined, before, whole)
    <2>1. PICK k : k = s + (IF next THEN Peek(mem, n) ELSE 0)
      OBVIOUS
    <2>2. k \in Int
      <3>1. next => Peek(mem, n) \in Int
        BY <1>3, <1>7, <1>8
      <3>2. CASE next
        BY <3>1, <3>2, <2>1, <1>8
      <3>3. CASE ~next
        BY <3>3, <2>1, <1>8
      <3> QED
        BY <3>2, <3>3
    <2>3. joined = [at |-> b, size |-> k]
      BY <2>1, <1>15
    <2>4. Peek(mem', j) = (IF previous THEN Peek(mem, p) ELSE 0) + k
      BY <2>1, <1>5
    <2>5. CASE previous
      <3>1. PICK c : c = [at |-> p, size |-> Peek(mem, p)]
        OBVIOUS
      <3>2. before = {c}
        BY <3>1, <2>5, <1>4, <1>10 DEF BlocksIn
      <3>3. whole = [at |-> c.at, size |-> c.size + joined.size]
        BY <3>1, <2>3, <2>4, <2>5, <1>4, <1>16
      <3> QED
        BY <3>2, <3>3 DEF JoinedPrevious
    <2>6. CASE ~previous
      <3>1. before = {}
        BY <2>6, <1>4, <1>10 DEF BlocksIn
      <3>2. 0 + k = k
        BY <2>2
      <3> QED
        BY <3>1, <3>2, <2>3, <2>4, <2>6, <1>4, <1>16 DEF JoinedPrevious
    <2> QED
      BY <2>5, <2>6
  <1>19. HandedOut' = HandedOut \ {B}
    <2>1. \A c \in Held \ {b} : c # j
      BY <1>3, <1>4, <1>6
    <2>2. BlocksIn(mem', Held \ {b}) = BlocksIn(mem, Held \ {b})
      BY <2>1, <1>5 DEF BlocksIn
    <2>3. BlocksIn(mem, Held \ {b}) = BlocksIn(mem, Held) \ {B}
      BY <1>2, <1>10 DEF BlocksIn
    <2> QED
      BY <2>2, <2>3, <1>12
  <1>20. FreeOnes' = (FreeOnes \ (before \cup after)) \cup {whole}
    <2>1. PICK R : R = F \ (N \cup P)
      OBVIOUS
    <2>2. G = R \cup {j} /\ j \notin R /\ b \notin R
      <3>1. b \notin F
        BY <1>6
      <3>2. p \notin N
        <4>1. next => p < n
          BY <1>3, <1>7
        <4>2. next => n \in Int
          BY <1>3, <1>7, <1>8
        <4> QED
          BY <4>1, <4>2, <1>4, <1>8
      <3>3. CASE previous
        BY <3>1, <3>2, <3>3, <2>1, <1>3, <1>4, <1>5
      <3>4. CASE ~previous
        BY <3>1, <3>4, <2>1, <1>4, <1>5
      <3> QED
        BY <3>3, <3>4
    <2>3. \A c \in R : Peek(mem', c) = Peek(mem, c)
      BY <2>2, <1>5
    <2>4. BlocksIn(mem', G) = BlocksIn(mem, R) \cup {whole}
      BY <2>2, <2>3, <1>16 DEF BlocksIn
    <2>5. BlocksIn(mem, R) = BlocksIn(mem, F) \ (before \cup after)
      BY <2>1, <1>9, <1>10 DEF BlocksIn
    <2> QED
      BY <2>4, <2>5, <1>12
  <1> QED
    BY <1>12, <1>13, <1>14, <1>17, <1>18, <1>19, <1>20, ReleaseStep

\* Before __MEM_INIT the whole arena counts as free.
LEMMA InitSeen == Init => Blocks!Init
  <1> SUFFICES ASSUME Init PROVE Blocks!Init
    OBVIOUS
  <1>1. pc = "MEM_INIT" /\ ptr = [o \in Owners |-> 0]
    BY DEF Init
  <1>2. HandedOut = {}
    BY <1>1 DEF HandedOut
  <1> QED
    BY <1>1, <1>2 DEF Blocks!Init

\* Every step is a step of HeapBlocks or is not seen by it.
LEMMA NextSeen ==
  ASSUME EndsBelowTop, Askable, IInv, [Next]_vars
  PROVE  [Blocks!Next]_(Blocks!vars)
  <1> SUFFICES Seen' = Seen \/ Blocks!Next
    BY SeenIs, SeenIsThen
  <1>1. CASE Next /\ Started
    <2>1. PICK F \in SUBSET Addr : Running(F)
      BY <1>1 DEF Started
    <2>2. pc # "MEM_INIT" /\ Typing
      BY <1>1 DEF Started, IInv
    <2>3. CASE Callers
      BY <2>1, <2>2, <2>3, CallsSeen
    <2>4. CASE MemInit
      BY <2>2, <2>4 DEF MemInit
    <2>5. CASE TooShort \/ NextIsBefore \/ AnswerNull \/ AnswerBlock
      BY <2>1, <2>2, <2>5, WalksSeen
    <2>6. CASE ListExhausted
      BY <2>1, <2>2, <2>6, ListExhaustedSeen
    <2>7. CASE TakeWhole
      BY <2>1, <2>2, <2>7, TakeWholeSeen
    <2>8. CASE TakeTail
      BY <2>1, <2>2, <2>8, TakeTailSeen
    <2>9. CASE LinkPrev
      BY <2>1, <2>2, <2>9, LinkPrevSeen
    <2>10. CASE ReallocAllocate
      <3>1. /\ pc = "REALLOC_ALLOC" /\ pc' = "MEM_LOOP" /\ length' = length
            /\ mem' = mem /\ callers' = callers
        BY <2>10 DEF ReallocAllocate, EnterAlloc
      <3>2. length \in Requests
        BY <3>1, <2>1 DEF Running, Calling
      <3>3. Running(F)'
        BY <2>1, <2>2, <2>10, ReallocAllocateInv
      <3> QED
        BY <3>1, <3>2, <3>3, <2>1, AskSeen
    <2> QED
      BY <1>1, <2>3, <2>4, <2>5, <2>6, <2>7, <2>8, <2>9, <2>10 DEF Next, Runtime
  <1>2. CASE Next /\ Fresh
    <2>1. MemInit
      BY <1>2, OnlyMemInit
    <2> QED
      BY <2>1, MemInitSeen
  <1>3. CASE UNCHANGED vars
    <2>1. mem' = mem /\ pc' = pc /\ length' = length /\ hl' = hl /\ ptr' = ptr
      BY <1>3 DEF vars, registers, callers
    <2>2. Listed' = Listed
      BY <2>1, ListedIn, ListedInPrime
    <2> QED
      BY <2>1, <2>2 DEF Seen, FreeOnes, HandedOut, Wanted, ListedBlocks, BlockAt
  <1> QED
    BY <1>1, <1>2, <1>3 DEF IInv

-----------------------------------------------------------------------------
(* What follows.                                                           *)

\* The bytes implement the blocks: the list the runtime keeps in the headers of
\* the free blocks is, after every step of alloc.asm, free.asm, realloc.asm and
\* calloc.asm, the free set of HeapBlocks after at most one step of it, for a
\* heap of any size, any content of memory and any number of callers.
THEOREM BytesImplementBlocks == ASSUME EndsBelowTop, Askable PROVE Spec => ImplementsBlocks
  <1>1. Init => Blocks!Init
    BY InitSeen
  <1>2. IInv /\ [Next]_vars => [Blocks!Next]_(Blocks!vars)
    BY NextSeen
  <1> QED
    BY <1>1, <1>2, AlwaysIInv, PTL DEF Spec, ImplementsBlocks, Blocks!Spec
=============================================================================
