---------------------------- MODULE FlowGraphProofs ----------------------------
(***************************************************************************)
(* What holds of the optimizer of level 3, and of the programs it makes,   *)
(* for every set of programs: the types, that shortening jumps changes no  *)
(* way, that the graph covers every run and that the optimized program     *)
(* reads what the original did.                                            *)
(*                                                                         *)
(* Jumps: a trail is followed through labels and jumps (Go, Trail), a jump *)
(* may be replaced by one that Leads where it led, and code that Threads   *)
(* the program everywhere settles where the program does.  The graph:      *)
(* GraphInv says of every phase which blocks and edges are there, what the *)
(* tracing of calls has still to do, and that a load removed is followed   *)
(* by DeadPlaces only.  The runs: RunInv says that every return address is *)
(* that of a call of the routine the machine is in (Frames), so that every *)
(* return has its edge, and that the original is where the code is or on   *)
(* its way there (OnTheWay).                                               *)
(***************************************************************************)
EXTENDS FlowRun, SequenceTheorems, FiniteSetTheorems, WellFoundedInduction, TLAPS
-----------------------------------------------------------------------------
(* Numbers.                                                                *)

\* A set of naturals with a member has a smallest one.
LEMMA Smallest ==
  ASSUME NEW T \in SUBSET Nat, T # {}
  PROVE  \E n \in T : \A k \in T : n <= k
  <1> DEFINE R == OpToRel(<, Nat)
  <1>1. IsWellFoundedOn(R, Nat)
    BY NatLessThanWellFounded
  <1>2. \A x, y \in Nat : <<x, y>> \in R <=> x < y
    BY DEF OpToRel
  <1> HIDE DEF R
  <1>3. PICK x \in T : \A y \in T : ~ (<<y, x>> \in R)
    BY <1>1, WFMin
  <1>4. ASSUME NEW k \in T PROVE x <= k
    <2>1. ~ (k < x)
      BY <1>2, <1>3
    <2> QED
      BY <2>1
  <1> QED
    BY <1>4

\* What holds of 0 and of each successor holds of every natural.
LEMMA Induction ==
  ASSUME NEW S, 0 \in S, \A n \in Nat : n \in S => n + 1 \in S
  PROVE  Nat \subseteq S
  <1> SUFFICES ASSUME NEW T, T = Nat \ S, T # {} PROVE FALSE
    OBVIOUS
  <1>1. PICK n \in T : \A k \in T : n <= k
    BY Smallest
  <1>2. n - 1 \in Nat /\ n - 1 \notin T /\ (n - 1) + 1 = n
    BY <1>1
  <1> QED
    BY <1>1, <1>2

LEMMA MinIs ==
  ASSUME NEW T \in SUBSET Nat, T # {}
  PROVE  Min(T) \in T /\ \A k \in T : Min(T) <= k
  BY Smallest DEF Min

LEMMA MaxIs ==
  ASSUME NEW T \in SUBSET Nat, T # {}, NEW n \in Nat, \A k \in T : k <= n
  PROVE  Max(T) \in T /\ \A k \in T : k <= Max(T)
  <1> DEFINE U == {n - k : k \in T}
  <1>1. U \in SUBSET Nat /\ U # {}
    <2>1. \A k \in T : n - k \in Nat
      OBVIOUS
    <2> QED
      BY <2>1
  <1>2. PICK u \in U : \A k \in U : u <= k
    BY <1>1, Smallest
  <1>3. PICK m \in T : u = n - m
    BY <1>2
  <1>4. \A k \in T : m >= k
    BY <1>2, <1>3
  <1> QED
    BY <1>3, <1>4 DEF Max

\* The values of a function applied again and again.
Iterates(F, s, x) == x[0] = s /\ \A n \in Nat : x[n + 1] = F[x[n]]

\* g is how they start.
StartOf(S, F, s, n, g) ==
  g \in [0 .. n -> S] /\ g[0] = s /\ \A k \in 0 .. n : k # n => g[k + 1] = F[g[k]]

LEMMA IteratesExist ==
  ASSUME NEW S, NEW F \in [S -> S], NEW s \in S
  PROVE  \E x \in [Nat -> S] : Iterates(F, s, x)
  <1> DEFINE X == {n \in Nat : \E g : StartOf(S, F, s, n, g)}
  <1>1. 0 \in X
    <2>1. PICK g : g = [k \in 0 .. 0 |-> s]
      OBVIOUS
    <2>2. StartOf(S, F, s, 0, g)
      BY <2>1 DEF StartOf
    <2> QED
      BY <2>2
  <1>2. ASSUME NEW n \in Nat, n \in X PROVE n + 1 \in X
    <2>1. PICK g : StartOf(S, F, s, n, g)
      BY <1>2
    <2>2. PICK e : e = [k \in 0 .. n + 1 |-> IF k = n + 1 THEN F[g[n]] ELSE g[k]]
      OBVIOUS
    <2>3. e \in [0 .. n + 1 -> S] /\ e[0] = s
      BY <2>1, <2>2 DEF StartOf
    <2>4. ASSUME NEW k \in 0 .. n + 1, k # n + 1 PROVE e[k + 1] = F[e[k]]
      <3>1. k \in 0 .. n /\ k + 1 \in 0 .. n + 1 /\ e[k] = g[k]
        BY <2>2, <2>4
      <3>2. CASE k = n
        BY <3>1, <3>2, <2>2
      <3>3. CASE k # n
        BY <3>1, <3>3, <2>1, <2>2 DEF StartOf
      <3> QED
        BY <3>2, <3>3
    <2>5. StartOf(S, F, s, n + 1, e)
      BY <2>3, <2>4 DEF StartOf
    <2> QED
      BY <2>5
  <1>3. Nat \subseteq X
    <2> HIDE DEF X
    <2> QED
      BY <1>1, <1>2, Induction
  <1>4. PICK G : G = [n \in Nat |-> CHOOSE g : StartOf(S, F, s, n, g)]
    OBVIOUS
  <1>5. ASSUME NEW n \in Nat PROVE StartOf(S, F, s, n, G[n])
    <2>1. \E g : StartOf(S, F, s, n, g)
      BY <1>3
    <2>2. StartOf(S, F, s, n, CHOOSE g : StartOf(S, F, s, n, g))
      BY <2>1
    <2>3. G[n] = CHOOSE g : StartOf(S, F, s, n, g)
      BY <1>4
    <2> QED
      BY <2>2, <2>3
  <1> DEFINE Agree == {k \in Nat : \A n \in Nat : k <= n => G[n][k] = G[k][k]}
  <1>6. 0 \in Agree
    BY <1>5 DEF StartOf
  <1>7. ASSUME NEW k \in Nat, k \in Agree PROVE k + 1 \in Agree
    <2> SUFFICES ASSUME NEW n \in Nat, k + 1 <= n PROVE G[n][k + 1] = G[k + 1][k + 1]
      OBVIOUS
    <2>1. StartOf(S, F, s, n, G[n]) /\ StartOf(S, F, s, k + 1, G[k + 1])
      BY <1>5
    <2>2. G[n][k] = G[k][k] /\ G[k + 1][k] = G[k][k]
      BY <1>7
    <2>3. G[n][k + 1] = F[G[n][k]] /\ G[k + 1][k + 1] = F[G[k + 1][k]]
      BY <2>1 DEF StartOf
    <2> QED
      BY <2>2, <2>3
  <1>8. Nat \subseteq Agree
    <2> HIDE DEF Agree
    <2> QED
      BY <1>6, <1>7, Induction
  <1>9. PICK x : x = [n \in Nat |-> G[n][n]]
    OBVIOUS
  <1>10. ASSUME NEW n \in Nat PROVE x[n] \in S /\ x[n + 1] = F[x[n]]
    <2>1. StartOf(S, F, s, n, G[n]) /\ StartOf(S, F, s, n + 1, G[n + 1])
      BY <1>5
    <2>2. G[n + 1][n] = G[n][n]
      BY <1>8
    <2>3. x[n] = G[n][n] /\ x[n + 1] = G[n + 1][n + 1]
      BY <1>9
    <2> QED
      BY <2>1, <2>2, <2>3 DEF StartOf
  <1>11. x[0] = s /\ x \in [Nat -> S]
    BY <1>5, <1>9, <1>10 DEF StartOf
  <1> QED
    BY <1>10, <1>11 DEF Iterates
-----------------------------------------------------------------------------
(* Programs, and the machine.                                              *)

IsProgram(p) ==
  /\ p \in Seq(Instruction) /\ p # <<>>
  /\ Last(p).op \in {"jp", "ret"} /\ ~Conditional(Last(p))
  /\ \A i \in DOMAIN p : p[i].op \in {"label", "jp", "call"} => p[i].arg \in Labels

Machine == [pc : Nat, out : Labels \cup {None}, z : BOOLEAN, stack : Seq(Nat), v : Nat]
State(p) == {s \in Machine : IF s.out = None THEN s.pc \in 1 .. Len(p) ELSE s.pc = 0}

LEMMA ProgramIs ==
  ASSUME NEW p, IsProgram(p)
  PROVE  /\ Len(p) \in Nat /\ Len(p) > 0 /\ DOMAIN p = 1 .. Len(p)
         /\ \A i \in 1 .. Len(p) : p[i] \in Instruction
         /\ p[Len(p)].op \in {"jp", "ret"} /\ p[Len(p)].cond = None
  <1>0. p \in Seq(Instruction) /\ p # <<>> /\ Last(p).op \in {"jp", "ret"} /\ ~Conditional(Last(p))
    BY DEF IsProgram
  <1>1. Len(p) \in Nat /\ DOMAIN p = 1 .. Len(p) /\ Len(p) # 0
    BY <1>0, LenProperties, EmptySeq
  <1>2. \A i \in 1 .. Len(p) : p[i] \in Instruction
    BY <1>0, <1>1
  <1>3. p[Len(p)].op \in {"jp", "ret"} /\ p[Len(p)].cond = None
    BY <1>0 DEF Last, Conditional
  <1>4. Len(p) > 0
    BY <1>1
  <1>5. /\ Len(p) \in Nat /\ DOMAIN p = 1 .. Len(p)
        /\ \A i \in 1 .. Len(p) : p[i] \in Instruction
    BY <1>1, <1>2
  <1> QED
    BY <1>3, <1>4, <1>5

LEMMA PositionIs ==
  ASSUME NEW p, IsProgram(p), NEW l \in Defined(p)
  PROVE  /\ Position(p, l) \in Nat /\ Position(p, l) \in 1 .. Len(p) /\ Position(p, l) < Len(p)
         /\ p[Position(p, l)].op = "label" /\ p[Position(p, l)].arg = l
  <1>1. DOMAIN p = 1 .. Len(p) /\ Len(p) \in Nat /\ p[Len(p)].op # "label"
    BY ProgramIs
  <1>2. LabelPlaces(p, l) # {}
    BY DEF Defined, LabelPlaces
  <1>3. Position(p, l) \in DOMAIN p /\ p[Position(p, l)].op = "label" /\ p[Position(p, l)].arg = l
    BY <1>2 DEF Position, LabelPlaces
  <1> QED
    BY <1>1, <1>3

LEMMA ToIs ==
  ASSUME NEW p, IsProgram(p), NEW l \in Labels, NEW z \in BOOLEAN,
         NEW stack \in Seq(Nat), NEW v \in Nat, NEW t, t = To(p, l, z, stack, v)
  PROVE  /\ t \in State(p) /\ t.z = z /\ t.stack = stack /\ t.v = v
         /\ l \in Defined(p) => t.out = None /\ t.pc = Position(p, l)
         /\ l \notin Defined(p) => t.out = l /\ t.pc = 0
  <1>1. CASE l \in Defined(p)
    <2>1. t = [pc |-> Position(p, l), out |-> None, z |-> z, stack |-> stack, v |-> v]
      BY <1>1 DEF To, At
    <2>2. Position(p, l) \in 1 .. Len(p) /\ Position(p, l) \in Nat
      BY <1>1, PositionIs
    <2>3. t \in Machine
      BY <2>1, <2>2 DEF Machine
    <2> QED
      BY <1>1, <2>1, <2>2, <2>3 DEF State
  <1>2. CASE l \notin Defined(p)
    <2>1. t = [pc |-> 0, out |-> l, z |-> z, stack |-> stack, v |-> v]
      BY <1>2 DEF To
    <2>3. t \in Machine
      BY <2>1 DEF Machine
    <2>4. t.out # None
      BY <2>1, Z80FlowAssumption
    <2> QED
      BY <1>2, <2>1, <2>3, <2>4 DEF State
  <1> QED
    BY <1>1, <1>2

Go(p, s) == IF Moving(p, s) THEN CHOOSE t \in Steps(p, s) : TRUE ELSE s

Jumping(p, s) == p[s.pc].op = "jp" /\ Holds(p[s.pc].cond, s.z)

LEMMA MovingSteps ==
  ASSUME NEW p, IsProgram(p), NEW s \in State(p), Moving(p, s)
  PROVE  /\ Jumping(p, s) => Steps(p, s) = {To(p, p[s.pc].arg, s.z, s.stack, s.v)}
         /\ ~Jumping(p, s) => /\ Steps(p, s) = {[s EXCEPT !.pc = s.pc + 1]}
                              /\ s.pc < Len(p)
  <1>1. PICK i : i = s.pc
    OBVIOUS
  <1>2. i \in 1 .. Len(p) /\ s.out = None /\ p[i].op \in {"label", "nop", "jp"}
    BY <1>1 DEF Moving, State
  <1>3. ASSUME Jumping(p, s) PROVE Steps(p, s) = {To(p, p[s.pc].arg, s.z, s.stack, s.v)}
    BY <1>1, <1>2, <1>3 DEF Steps, Jumping
  <1>4. ASSUME ~Jumping(p, s) PROVE Steps(p, s) = {[s EXCEPT !.pc = s.pc + 1]} /\ s.pc < Len(p)
    <2>1. s \in Machine
      BY DEF State
    <2>2. On(s, s.z, s.v) = {[s EXCEPT !.pc = s.pc + 1]}
      <3>1. [s EXCEPT !.pc = s.pc + 1, !.z = s.z, !.v = s.v] = [s EXCEPT !.pc = s.pc + 1]
        BY <2>1 DEF Machine
      <3> QED
        BY <3>1 DEF On
    <2>3. Steps(p, s) = On(s, s.z, s.v)
      BY <1>1, <1>2, <1>4 DEF Steps, Jumping, IsEnder, Enders
    <2>4. i # Len(p)
      <3> SUFFICES ASSUME i = Len(p) PROVE FALSE
        OBVIOUS
      <3>1. p[i].op \in {"jp", "ret"} /\ p[i].cond = None
        BY ProgramIs
      <3> QED
        BY <1>1, <1>2, <1>4, <3>1 DEF Jumping, Holds
    <2>5. s.pc < Len(p)
      <3>1. Len(p) \in Nat
        BY ProgramIs
      <3> QED
        BY ONLY <1>1, <1>2, <2>4, <3>1
    <2> QED
      BY <2>2, <2>3, <2>5
  <1> QED
    BY <1>3, <1>4

LEMMA GoIs ==
  ASSUME NEW p, IsProgram(p), NEW s \in State(p)
  PROVE  /\ Go(p, s) \in State(p) /\ Go(p, s).z = s.z /\ Go(p, s).stack = s.stack /\ Go(p, s).v = s.v
         /\ ~Moving(p, s) => Go(p, s) = s
         /\ Moving(p, s) /\ Jumping(p, s) => Go(p, s) = To(p, p[s.pc].arg, s.z, s.stack, s.v)
         /\ Moving(p, s) /\ ~Jumping(p, s) => Go(p, s) = [s EXCEPT !.pc = s.pc + 1]
         /\ Moving(p, s) => Steps(p, s) = {Go(p, s)}
  <1>1. s \in Machine
    BY DEF State
  <1>2. CASE ~Moving(p, s)
    BY <1>2 DEF Go
  <1>3. CASE Moving(p, s) /\ Jumping(p, s)
    <2>1. PICK t : t = To(p, p[s.pc].arg, s.z, s.stack, s.v)
      OBVIOUS
    <2>2. Go(p, s) = t /\ Steps(p, s) = {t}
      BY <1>3, <2>1, MovingSteps DEF Go
    <2>3. s.pc \in 1 .. Len(p) /\ p[s.pc] \in Instruction /\ s.pc \in DOMAIN p
      BY <1>3, ProgramIs DEF Moving, State
    <2>4. p[s.pc].arg \in Labels
      BY <1>3, <2>3 DEF Jumping, IsProgram, Instruction
    <2>5. t \in State(p) /\ t.z = s.z /\ t.stack = s.stack /\ t.v = s.v
      <3>1. s.z \in BOOLEAN /\ s.stack \in Seq(Nat) /\ s.v \in Nat
        BY <1>1 DEF Machine
      <3> QED
        BY ONLY <2>1, <2>4, <3>1, ToIs, IsProgram(p)
    <2> QED
      BY <1>3, <2>1, <2>2, <2>5
  <1>4. CASE Moving(p, s) /\ ~Jumping(p, s)
    <2>1. PICK t : t = [s EXCEPT !.pc = s.pc + 1]
      OBVIOUS
    <2>2. Go(p, s) = t /\ Steps(p, s) = {t} /\ s.pc < Len(p)
      BY <1>4, <2>1, MovingSteps DEF Go
    <2>3. s.pc \in 1 .. Len(p) /\ s.out = None /\ Len(p) \in Nat
      BY <1>4, ProgramIs DEF Moving, State
    <2>4. t \in State(p) /\ t.z = s.z /\ t.stack = s.stack /\ t.v = s.v
      <3>1. t \in Machine /\ t.pc = s.pc + 1 /\ t.out = None /\ t.z = s.z /\ t.stack = s.stack /\ t.v = s.v
        BY <1>1, <2>1, <2>3 DEF Machine
      <3>2. t.pc \in 1 .. Len(p)
        BY <2>2, <2>3, <3>1
      <3> QED
        BY <3>1, <3>2 DEF State
    <2> QED
      BY <1>4, <2>1, <2>2, <2>4
  <1> QED
    BY <1>2, <1>3, <1>4
-----------------------------------------------------------------------------
(* Where labels and jumps lead.                                            *)

IsTrail(p, s, f) ==
  f = [n \in Nat |->
         IF n = 0 THEN s
         ELSE LET last == f[n - 1]
              IN  IF Moving(p, last) THEN CHOOSE t \in Steps(p, last) : TRUE ELSE last]

LEMMA TrailChosen ==
  ASSUME NEW p, NEW s
  PROVE  Trail(p, s) = CHOOSE f : IsTrail(p, s, f)
  BY DEF Trail, IsTrail

LEMMA TrailIs ==
  ASSUME NEW p, IsProgram(p), NEW s \in State(p)
  PROVE  /\ Trail(p, s) \in [Nat -> State(p)] /\ Trail(p, s)[0] = s
         /\ \A n \in Nat : Trail(p, s)[n + 1] = Go(p, Trail(p, s)[n])
  <1>1. PICK F : F = [t \in State(p) |-> Go(p, t)]
    OBVIOUS
  <1>2. F \in [State(p) -> State(p)]
    BY <1>1, GoIs
  <1>3. PICK x \in [Nat -> State(p)] : Iterates(F, s, x)
    BY <1>2, IteratesExist
  <1>4. x[0] = s /\ \A n \in Nat : x[n + 1] = Go(p, x[n])
    BY <1>1, <1>3 DEF Iterates
  <1>5. IsTrail(p, s, x)
    <2>1. ASSUME NEW n \in Nat
          PROVE  x[n] = IF n = 0 THEN s
                        ELSE LET last == x[n - 1]
                             IN  IF Moving(p, last) THEN CHOOSE t \in Steps(p, last) : TRUE ELSE last
      <3>1. CASE n = 0
        BY <3>1, <1>4
      <3>2. CASE n # 0
        <4>1. n - 1 \in Nat /\ (n - 1) + 1 = n
          BY <3>2
        <4>2. x[n] = Go(p, x[n - 1])
          BY <4>1, <1>4
        <4> QED
          BY <3>2, <4>2 DEF Go
      <3> QED
        BY <3>1, <3>2
    <2> QED
      BY <1>3, <2>1 DEF IsTrail
  <1>6. ASSUME NEW f, IsTrail(p, s, f)
        PROVE  f \in [Nat -> State(p)] /\ f[0] = s /\ \A n \in Nat : f[n + 1] = Go(p, f[n])
    <2>1. f = [n \in Nat |-> f[n]]
      BY <1>6 DEF IsTrail
    <2>2. f[0] = s
      BY <1>6 DEF IsTrail
    <2>3. ASSUME NEW n \in Nat PROVE f[n + 1] = Go(p, f[n])
      <3>1. n + 1 \in Nat /\ n + 1 # 0 /\ (n + 1) - 1 = n
        OBVIOUS
      <3>2. f[n + 1] = LET last == f[(n + 1) - 1]
                       IN  IF Moving(p, last) THEN CHOOSE t \in Steps(p, last) : TRUE ELSE last
        BY <1>6, <3>1 DEF IsTrail
      <3> QED
        BY <3>1, <3>2 DEF Go
    <2> DEFINE X == {n \in Nat : f[n] \in State(p)}
    <2>4. 0 \in X
      BY <2>2
    <2>5. \A n \in Nat : n \in X => n + 1 \in X
      BY <2>3, GoIs
    <2>6. Nat \subseteq X
      <3> HIDE DEF X
      <3> QED
        BY <2>4, <2>5, Induction
    <2> QED
      BY <2>1, <2>2, <2>3, <2>6
  <1>7. IsTrail(p, s, Trail(p, s))
    BY <1>5, TrailChosen
  <1> QED
    BY <1>6, <1>7
-----------------------------------------------------------------------------
(* A trail that is followed from further on, and a trail that ends.         *)

\* The trail of a place on the way is the rest of the trail.
LEMMA TrailShift ==
  ASSUME NEW p, IsProgram(p), NEW s \in State(p), NEW n \in Nat
  PROVE  \A m \in Nat : Trail(p, s)[n + m] = Trail(p, Trail(p, s)[n])[m]
  <1>0. PICK t : t = Trail(p, s)[n]
    OBVIOUS
  <1>1. /\ Trail(p, s) \in [Nat -> State(p)]
        /\ \A k \in Nat : Trail(p, s)[k + 1] = Go(p, Trail(p, s)[k])
    BY TrailIs
  <1>2. t \in State(p)
    BY <1>0, <1>1
  <1>3. Trail(p, t)[0] = t /\ \A k \in Nat : Trail(p, t)[k + 1] = Go(p, Trail(p, t)[k])
    BY ONLY <1>2, IsProgram(p), TrailIs
  <1> DEFINE X == {m \in Nat : Trail(p, s)[n + m] = Trail(p, t)[m]}
  <1>4. 0 \in X
    BY <1>0, <1>3
  <1>5. ASSUME NEW m \in Nat, m \in X PROVE m + 1 \in X
    <2>1. Trail(p, s)[(n + m) + 1] = Go(p, Trail(p, s)[n + m]) /\ n + (m + 1) = (n + m) + 1
      BY <1>1
    <2>2. Trail(p, t)[m + 1] = Go(p, Trail(p, t)[m])
      BY <1>3
    <2> QED
      BY <1>5, <2>1, <2>2
  <1>6. Nat \subseteq X
    <2> HIDE DEF X
    <2> QED
      BY <1>4, <1>5, Induction
  <1> QED
    BY <1>0, <1>6

\* What does not move stays.
LEMMA TrailStays ==
  ASSUME NEW p, IsProgram(p), NEW s \in State(p), ~Moving(p, s)
  PROVE  \A m \in Nat : Trail(p, s)[m] = s
  <1>1. Trail(p, s)[0] = s /\ \A k \in Nat : Trail(p, s)[k + 1] = Go(p, Trail(p, s)[k])
    BY TrailIs
  <1> DEFINE X == {m \in Nat : Trail(p, s)[m] = s}
  <1>2. 0 \in X
    BY <1>1
  <1>3. ASSUME NEW m \in Nat, m \in X PROVE m + 1 \in X
    <2>1. Go(p, s) = s
      BY GoIs
    <2> QED
      BY <1>1, <1>3, <2>1
  <1>4. Nat \subseteq X
    <2> HIDE DEF X
    <2> QED
      BY <1>2, <1>3, Induction
  <1> QED
    BY <1>4

\* Labels and jumps change neither the flag nor the stack nor the register.
LEMMA TrailKeeps ==
  ASSUME NEW p, IsProgram(p), NEW s \in State(p)
  PROVE  \A m \in Nat : LET t == Trail(p, s)[m] IN t.z = s.z /\ t.stack = s.stack /\ t.v = s.v
  <1>1. /\ Trail(p, s)[0] = s /\ Trail(p, s) \in [Nat -> State(p)]
        /\ \A k \in Nat : Trail(p, s)[k + 1] = Go(p, Trail(p, s)[k])
    BY TrailIs
  <1> DEFINE Kept(t) == t.z = s.z /\ t.stack = s.stack /\ t.v = s.v
             X == {m \in Nat : Kept(Trail(p, s)[m])}
  <1>2. 0 \in X
    BY <1>1
  <1>3. ASSUME NEW m \in Nat, m \in X PROVE m + 1 \in X
    <2>1. PICK t \in State(p) : t = Trail(p, s)[m]
      BY <1>1
    <2>2. Trail(p, s)[m + 1] = Go(p, t)
      BY <1>1, <2>1
    <2>3. Go(p, t).z = t.z /\ Go(p, t).stack = t.stack /\ Go(p, t).v = t.v
      BY GoIs
    <2>4. Kept(t)
      BY <1>3, <2>1
    <2> QED
      BY <2>2, <2>3, <2>4
  <1>4. Nat \subseteq X
    <2> HIDE DEF X
    <2> QED
      BY <1>2, <1>3, Induction
  <1> QED
    BY <1>4

\* States of the machine are told apart by their fields.
LEMMA SameState ==
  ASSUME NEW p, NEW s \in State(p), NEW t \in State(p),
         s.pc = t.pc, s.out = t.out, s.z = t.z, s.stack = t.stack, s.v = t.v
  PROVE  s = t
  <1>1. s \in Machine /\ t \in Machine
    BY DEF State
  <1> QED
    BY <1>1 DEF Machine

\* A trail that ends does so before it has more steps than the program places.
LEMMA TrailEnds ==
  ASSUME NEW p, IsProgram(p), NEW s \in State(p), NEW k \in Nat, ~Moving(p, Trail(p, s)[k])
  PROVE  Trail(p, s)[Len(p)] = Trail(p, s)[k]
  <1> DEFINE T == Trail(p, s)
             N == Len(p)
             Still == {n \in Nat : ~Moving(p, T[n])}
  <1>1. T \in [Nat -> State(p)]
    BY TrailIs
  <1>2. N \in Nat
    BY ProgramIs
  <1>3. PICK n \in Still : \A m \in Still : n <= m
    <2>1. Still \in SUBSET Nat /\ Still # {}
      OBVIOUS
    <2> HIDE DEF Still
    <2> QED
      BY <2>1, Smallest
  <1>4. \A m \in Nat : n <= m => T[m] = T[n]
    <2> SUFFICES ASSUME NEW m \in Nat, n <= m PROVE T[m] = T[n]
      OBVIOUS
    <2>1. m - n \in Nat /\ n + (m - n) = m
      BY <1>3
    <2>2. T[n + (m - n)] = Trail(p, T[n])[m - n]
      BY <1>3, <2>1, TrailShift
    <2>3. Trail(p, T[n])[m - n] = T[n]
      BY <1>1, <1>3, <2>1, TrailStays
    <2> QED
      BY <2>1, <2>2, <2>3
  <1>5. n <= N
    <2> SUFFICES ASSUME n > N PROVE FALSE
      BY <1>2, <1>3
    <2>1. \A m \in 0 .. N : T[m] \in State(p) /\ Moving(p, T[m]) /\ T[m].pc \in 1 .. N
      <3> SUFFICES ASSUME NEW m \in 0 .. N PROVE T[m] \in State(p) /\ Moving(p, T[m]) /\ T[m].pc \in 1 .. N
        OBVIOUS
      <3>1. m \in Nat /\ T[m] \in State(p)
        BY <1>1, <1>2
      <3>2. m \notin Still
        BY <1>2, <1>3, <3>1
      <3>3. Moving(p, T[m])
        BY <3>1, <3>2
      <3> HIDE DEF T
      <3> QED
        BY <3>1, <3>3 DEF Moving, State
    <2>2. PICK f : f = [m \in 0 .. N |-> T[m].pc]
      OBVIOUS
    <2>3. f \in [0 .. N -> 1 .. N]
      BY <2>1, <2>2
    <2>4. IsFiniteSet(0 .. N) /\ IsFiniteSet(1 .. N) /\ Cardinality(1 .. N) < Cardinality(0 .. N)
      <3>1. IsFiniteSet(0 .. N) /\ Cardinality(0 .. N) = N + 1
        BY <1>2, FS_Interval
      <3>2. IsFiniteSet(1 .. N) /\ Cardinality(1 .. N) = IF 1 > N THEN 0 ELSE N - 1 + 1
        <4>1. 1 \in Int /\ N \in Int
          BY <1>2
        <4> HIDE DEF N
        <4> QED
          BY ONLY <4>1, FS_Interval
      <3> QED
        BY <1>2, <3>1, <3>2
    <2>5. PICK a \in 0 .. N, b \in 0 .. N : a # b /\ f[a] = f[b]
      BY <2>3, <2>4, FS_PigeonHole
    <2>6. PICK x \in 0 .. N, y \in 0 .. N : x < y /\ f[x] = f[y]
      BY <1>2, <2>5
    <2>7. T[x] = T[y]
      <3>1. T[x] \in State(p) /\ T[y] \in State(p) /\ T[x].pc = T[y].pc
        BY <2>1, <2>2, <2>6
      <3>2. T[x].out = T[y].out
        BY <2>1 DEF Moving
      <3>3. x \in Nat /\ y \in Nat
        BY <1>2
      <3>4. /\ T[x].z = T[y].z /\ T[x].stack = T[y].stack
            /\ T[x].v = T[y].v
        BY <3>3, TrailKeeps
      <3> HIDE DEF T
      <3> QED
        BY <3>1, <3>2, <3>4, SameState
    <2>8. x \in Nat /\ y \in Nat /\ n - y \in Nat /\ y + (n - y) = n /\ x + (n - y) < n
      BY <1>2, <1>3, <2>6
    <2>9. T[y + (n - y)] = Trail(p, T[y])[n - y] /\ T[x + (n - y)] = Trail(p, T[x])[n - y]
      <3>1. PICK j \in Nat : j = n - y
        BY <2>8
      <3>2. \A m \in Nat : T[y + m] = Trail(p, T[y])[m]
        <4>1. y \in Nat
          BY <2>8
        <4> QED
          BY <4>1, TrailShift
      <3>3. \A m \in Nat : T[x + m] = Trail(p, T[x])[m]
        <4>1. x \in Nat
          BY <2>8
        <4> QED
          BY <4>1, TrailShift
      <3> HIDE DEF T
      <3> QED
        BY <3>1, <3>2, <3>3
    <2>10. x + (n - y) \in Still
      BY <1>3, <2>7, <2>8, <2>9
    <2> QED
      BY <1>3, <2>8, <2>10
  <1>6. k \in Still
    OBVIOUS
  <1>7. n <= k
    BY <1>3, <1>6
  <1>8. T[k] = T[n] /\ T[N] = T[n]
    <2> HIDE DEF T
    <2> QED
      BY <1>2, <1>4, <1>5, <1>7
  <1> QED
    BY <1>8
-----------------------------------------------------------------------------
(* Where a trail settles, and programs whose jumps are shortened.           *)

LEMMA SettledIs ==
  ASSUME NEW p, IsProgram(p), NEW s \in State(p)
  PROVE  /\ \A k \in Nat : ~Moving(p, Trail(p, s)[k]) => Settled(p, s) = Trail(p, s)[k]
         /\ (\A k \in Nat : Moving(p, Trail(p, s)[k])) =>
              Settled(p, s) = [pc |-> 0, out |-> None, z |-> s.z, stack |-> s.stack, v |-> s.v]
  <1>1. Len(p) \in Nat
    BY ProgramIs
  <1>2. PICK e : e = Trail(p, s)[Len(p)]
    OBVIOUS
  <1>3. Settled(p, s) = IF Moving(p, e) THEN [e EXCEPT !.pc = 0] ELSE e
    BY <1>2 DEF Settled
  <1>4. ASSUME NEW k \in Nat, ~Moving(p, Trail(p, s)[k])
        PROVE  Settled(p, s) = Trail(p, s)[k]
    <2>1. e = Trail(p, s)[k]
      BY <1>2, <1>4, TrailEnds
    <2> QED
      BY <1>3, <1>4, <2>1
  <1>5. ASSUME \A k \in Nat : Moving(p, Trail(p, s)[k])
        PROVE  Settled(p, s) = [pc |-> 0, out |-> None, z |-> s.z, stack |-> s.stack, v |-> s.v]
    <2>1. Moving(p, e)
      BY <1>1, <1>2, <1>5
    <2>2. e \in State(p)
      BY <1>1, <1>2, TrailIs
    <2>3. e.z = s.z /\ e.stack = s.stack /\ e.v = s.v
      BY <1>1, <1>2, TrailKeeps
    <2>4. e.out = None /\ e \in Machine
      BY <2>1, <2>2 DEF Moving, State
    <2>5. [e EXCEPT !.pc = 0] = [pc |-> 0, out |-> None, z |-> e.z, stack |-> e.stack, v |-> e.v]
      BY <2>4 DEF Machine
    <2> QED
      BY <1>3, <2>1, <2>3, <2>5
  <1> QED
    BY <1>4, <1>5

\* Wherever a trail passes, it settles where it would from there.
LEMMA SettledOnTheWay ==
  ASSUME NEW p, IsProgram(p), NEW s \in State(p), NEW n \in Nat
  PROVE  Settled(p, s) = Settled(p, Trail(p, s)[n])
  <1>1. PICK t : t = Trail(p, s)[n]
    OBVIOUS
  <1>2. t \in State(p) /\ t.z = s.z /\ t.stack = s.stack /\ t.v = s.v
    <2>1. t \in State(p)
      BY <1>1, TrailIs
    <2>2. t.z = s.z /\ t.stack = s.stack /\ t.v = s.v
      BY <1>1, TrailKeeps
    <2> QED
      BY <2>1, <2>2
  <1>3. \A m \in Nat : Trail(p, s)[n + m] = Trail(p, t)[m]
    BY <1>1, TrailShift
  <1>4. CASE \E m \in Nat : ~Moving(p, Trail(p, t)[m])
    <2>1. PICK m \in Nat : ~Moving(p, Trail(p, t)[m])
      BY <1>4
    <2>2. Settled(p, t) = Trail(p, t)[m]
      BY <1>2, <2>1, SettledIs
    <2>3. n + m \in Nat /\ ~Moving(p, Trail(p, s)[n + m])
      BY <1>3, <2>1
    <2>4. Settled(p, s) = Trail(p, s)[n + m]
      BY <2>3, SettledIs
    <2> QED
      BY <1>1, <1>3, <2>2, <2>4
  <1>5. CASE \A m \in Nat : Moving(p, Trail(p, t)[m])
    <2>1. ASSUME NEW k \in Nat, ~Moving(p, Trail(p, s)[k]) PROVE FALSE
      <3>1. \A j \in Nat : Trail(p, s)[k + j] = Trail(p, Trail(p, s)[k])[j]
        BY TrailShift
      <3>2. Trail(p, s)[k] \in State(p)
        BY TrailIs
      <3>3. Trail(p, s)[k + n] = Trail(p, s)[k]
        BY <2>1, <3>1, <3>2, TrailStays
      <3>4. k + n = n + k
        OBVIOUS
      <3> QED
        BY <1>3, <1>5, <2>1, <3>3, <3>4
    <2>2. Settled(p, s) = [pc |-> 0, out |-> None, z |-> s.z, stack |-> s.stack, v |-> s.v]
      BY <2>1, SettledIs
    <2>3. Settled(p, t) = [pc |-> 0, out |-> None, z |-> t.z, stack |-> t.stack, v |-> t.v]
      BY <1>2, <1>5, SettledIs
    <2> QED
      BY <1>1, <1>2, <2>2, <2>3
  <1> QED
    BY <1>4, <1>5
-----------------------------------------------------------------------------
(* A jump may be made to lead where its label leads.                        *)

Leads(p, l, m, z) ==
  \A stack \in Seq(Nat), v \in Nat :
    \E n \in Nat : Trail(p, To(p, l, z, stack, v))[n] = To(p, m, z, stack, v)

\* c has at place i what p has, or a jump or call that leads where that one does.
Threads(p, c, i) ==
  /\ c[i].op = p[i].op /\ c[i].cond = p[i].cond
  /\ IF p[i].op \in {"jp", "call"}
       THEN /\ c[i].arg \in Labels
            /\ \A z \in BOOLEAN : Holds(p[i].cond, z) => Leads(p, p[i].arg, c[i].arg, z)
       ELSE c[i].arg = p[i].arg

Threaded(p, c) ==
  /\ c \in Seq(Instruction) /\ Len(c) = Len(p)
  /\ \A i \in 1 .. Len(p) : Threads(p, c, i)

LEMMA LeadsItself ==
  ASSUME NEW p, IsProgram(p), NEW l \in Labels, NEW z \in BOOLEAN
  PROVE  Leads(p, l, l, z)
  <1> SUFFICES ASSUME NEW stack \in Seq(Nat), NEW v \in Nat
               PROVE  Trail(p, To(p, l, z, stack, v))[0] = To(p, l, z, stack, v)
    BY DEF Leads
  <1>1. To(p, l, z, stack, v) \in State(p)
    BY ToIs
  <1> QED
    BY <1>1, TrailIs

LEMMA LeadsOn ==
  ASSUME NEW p, IsProgram(p), NEW l \in Labels, NEW m \in Labels, NEW k, NEW z \in BOOLEAN,
         Leads(p, l, m, z), Leads(p, m, k, z)
  PROVE  Leads(p, l, k, z)
  <1> SUFFICES ASSUME NEW stack \in Seq(Nat), NEW v \in Nat
               PROVE  \E n \in Nat : Trail(p, To(p, l, z, stack, v))[n] = To(p, k, z, stack, v)
    BY DEF Leads
  <1>1. PICK s : s = To(p, l, z, stack, v)
    OBVIOUS
  <1>2. s \in State(p)
    BY <1>1, ToIs
  <1>3. PICK n \in Nat : Trail(p, s)[n] = To(p, m, z, stack, v)
    BY <1>1 DEF Leads
  <1>4. PICK j \in Nat : Trail(p, Trail(p, s)[n])[j] = To(p, k, z, stack, v)
    BY <1>3 DEF Leads
  <1>5. Trail(p, s)[n + j] = Trail(p, Trail(p, s)[n])[j] /\ n + j \in Nat
    BY <1>2, TrailShift
  <1> QED
    BY <1>1, <1>4, <1>5

\* Programs with their labels at the same places.
SameLabels(p, c) ==
  /\ DOMAIN c = DOMAIN p
  /\ \A i \in DOMAIN p : /\ c[i].op = "label" <=> p[i].op = "label"
                         /\ p[i].op = "label" => c[i].arg = p[i].arg

LEMMA LabelsAlike ==
  ASSUME NEW p, NEW c, SameLabels(p, c)
  PROVE  /\ Defined(c) = Defined(p)
         /\ \A l : Position(c, l) = Position(p, l)
         /\ \A l, z, stack, v : To(c, l, z, stack, v) = To(p, l, z, stack, v)
  <1>1. Defined(c) = Defined(p)
    BY DEF SameLabels, Defined
  <1>2. ASSUME NEW l PROVE Position(c, l) = Position(p, l)
    <2>1. LabelPlaces(c, l) = LabelPlaces(p, l)
      BY DEF SameLabels, LabelPlaces
    <2> QED
      BY <2>1 DEF Position
  <1>3. ASSUME NEW l, NEW z, NEW stack, NEW v PROVE To(c, l, z, stack, v) = To(p, l, z, stack, v)
    BY <1>1, <1>2 DEF To
  <1> QED
    BY <1>1, <1>2, <1>3

LEMMA ThreadedIs ==
  ASSUME NEW p, IsProgram(p), NEW c, Threaded(p, c)
  PROVE  IsProgram(c) /\ State(c) = State(p) /\ SameLabels(p, c)
  <1>1. /\ Len(p) \in Nat /\ Len(p) > 0 /\ DOMAIN p = 1 .. Len(p)
        /\ p[Len(p)].op \in {"jp", "ret"} /\ p[Len(p)].cond = None
    BY ProgramIs
  <1>2. c \in Seq(Instruction) /\ Len(c) = Len(p) /\ \A i \in 1 .. Len(p) : Threads(p, c, i)
    BY DEF Threaded
  <1>3. DOMAIN c = 1 .. Len(p)
    BY <1>2, LenProperties
  <1>4. SameLabels(p, c)
    BY <1>1, <1>2, <1>3 DEF SameLabels, Threads
  <1>5. State(c) = State(p)
    BY <1>2 DEF State
  <1>6. c # <<>>
    BY <1>1, <1>2, EmptySeq
  <1>7. c[Len(c)].op \in {"jp", "ret"} /\ c[Len(c)].cond = None
    <2>1. Len(p) \in 1 .. Len(p)
      BY <1>1
    <2> QED
      BY <1>1, <1>2, <2>1 DEF Threads
  <1>8. ASSUME NEW i \in DOMAIN c, c[i].op \in {"label", "jp", "call"} PROVE c[i].arg \in Labels
    BY <1>1, <1>2, <1>3, <1>8 DEF Threads, IsProgram
  <1>9. IsProgram(c)
    BY <1>2, <1>6, <1>7, <1>8 DEF IsProgram, Last, Conditional
  <1> QED
    BY <1>4, <1>5, <1>9
-----------------------------------------------------------------------------
\* Shortened or not, a jump stands where a jump stood, and moves when it does.
LEMMA ThreadedGo ==
  ASSUME NEW p, IsProgram(p), NEW c, Threaded(p, c), NEW s \in State(p)
  PROVE  /\ Moving(c, s) <=> Moving(p, s)
         /\ ~Moving(p, s) \/ ~Jumping(p, s) => Go(c, s) = Go(p, s)
         /\ Moving(p, s) /\ Jumping(p, s) =>
              /\ p[s.pc].arg \in Labels /\ c[s.pc].arg \in Labels
              /\ Go(p, s) = To(p, p[s.pc].arg, s.z, s.stack, s.v)
              /\ Go(c, s) = To(p, c[s.pc].arg, s.z, s.stack, s.v)
              /\ Leads(p, p[s.pc].arg, c[s.pc].arg, s.z)
  <1>1. IsProgram(c) /\ s \in State(c) /\ SameLabels(p, c)
    BY ThreadedIs
  <1>2. s.out = None => s.pc \in 1 .. Len(p) /\ s.pc \in DOMAIN p /\ Threads(p, c, s.pc)
    <2>1. DOMAIN p = 1 .. Len(p)
      BY ProgramIs
    <2> QED
      BY <2>1 DEF State, Threaded
  <1>3. Moving(c, s) <=> Moving(p, s)
    BY <1>2 DEF Moving, Threads
  <1>4. Moving(p, s) => (Jumping(c, s) <=> Jumping(p, s))
    BY <1>2 DEF Moving, Jumping, Threads
  <1>5. ASSUME ~Moving(p, s) \/ ~Jumping(p, s) PROVE Go(c, s) = Go(p, s)
    <2>1. CASE ~Moving(p, s)
      <3>1. Go(p, s) = s
        BY <2>1, GoIs
      <3>2. Go(c, s) = s
        BY <1>1, <1>3, <2>1, GoIs
      <3> QED
        BY <3>1, <3>2
    <2>2. CASE Moving(p, s) /\ ~Jumping(p, s)
      <3>1. Go(p, s) = [s EXCEPT !.pc = s.pc + 1]
        BY <2>2, GoIs
      <3>2. Go(c, s) = [s EXCEPT !.pc = s.pc + 1]
        BY <1>1, <1>3, <1>4, <2>2, GoIs
      <3> QED
        BY <3>1, <3>2
    <2> QED
      BY <1>5, <2>1, <2>2
  <1>6. ASSUME Moving(p, s), Jumping(p, s)
        PROVE  /\ p[s.pc].arg \in Labels /\ c[s.pc].arg \in Labels
               /\ Go(p, s) = To(p, p[s.pc].arg, s.z, s.stack, s.v)
               /\ Go(c, s) = To(p, c[s.pc].arg, s.z, s.stack, s.v)
               /\ Leads(p, p[s.pc].arg, c[s.pc].arg, s.z)
    <2>1. s.pc \in DOMAIN p /\ Threads(p, c, s.pc) /\ p[s.pc].op = "jp" /\ Holds(p[s.pc].cond, s.z)
      BY <1>2, <1>6 DEF Moving, Jumping
    <2>2. s.z \in BOOLEAN
      BY DEF State, Machine
    <2>3. p[s.pc].arg \in Labels
      BY <2>1 DEF IsProgram
    <2>4. c[s.pc].arg \in Labels /\ Leads(p, p[s.pc].arg, c[s.pc].arg, s.z)
      BY <2>1, <2>2 DEF Threads
    <2>5. Go(p, s) = To(p, p[s.pc].arg, s.z, s.stack, s.v)
      BY <1>6, GoIs
    <2>6. Go(c, s) = To(c, c[s.pc].arg, s.z, s.stack, s.v)
      BY <1>1, <1>3, <1>4, <1>6, GoIs
    <2>7. Go(c, s) = To(p, c[s.pc].arg, s.z, s.stack, s.v)
      BY <1>1, <2>6, LabelsAlike
    <2> QED
      BY <2>3, <2>4, <2>5, <2>7
  <1> QED
    BY <1>3, <1>5, <1>6

\* What is passed with shortened jumps is passed without, perhaps later.
LEMMA ThreadedTrail ==
  ASSUME NEW p, IsProgram(p), NEW c, Threaded(p, c), NEW s \in State(p)
  PROVE  \A n \in Nat : \E m \in Nat : m >= n /\ Trail(c, s)[n] = Trail(p, s)[m]
  <1>1. IsProgram(c) /\ s \in State(c)
    BY ThreadedIs
  <1>2. /\ Trail(p, s) \in [Nat -> State(p)] /\ Trail(p, s)[0] = s
        /\ \A n \in Nat : Trail(p, s)[n + 1] = Go(p, Trail(p, s)[n])
    BY TrailIs
  <1>3. Trail(c, s)[0] = s /\ \A n \in Nat : Trail(c, s)[n + 1] = Go(c, Trail(c, s)[n])
    BY <1>1, TrailIs
  <1> DEFINE X == {n \in Nat : \E m \in Nat : m >= n /\ Trail(c, s)[n] = Trail(p, s)[m]}
  <1>4. 0 \in X
    BY <1>2, <1>3
  <1>5. ASSUME NEW n \in Nat, n \in X PROVE n + 1 \in X
    <2>1. PICK m \in Nat : m >= n /\ Trail(c, s)[n] = Trail(p, s)[m]
      BY <1>5
    <2>2. PICK t : t = Trail(p, s)[m]
      OBVIOUS
    <2>3. t \in State(p) /\ Trail(p, s)[m + 1] = Go(p, t) /\ Trail(c, s)[n + 1] = Go(c, t)
      BY <1>2, <1>3, <2>1, <2>2
    <2>4. CASE ~Moving(p, t) \/ ~Jumping(p, t)
      <3>1. Go(c, t) = Go(p, t)
        BY <2>3, <2>4, ThreadedGo
      <3>2. m + 1 \in Nat /\ m + 1 >= n + 1 /\ Trail(c, s)[n + 1] = Trail(p, s)[m + 1]
        BY <2>1, <2>3, <3>1
      <3> QED
        BY <3>2
    <2>5. CASE Moving(p, t) /\ Jumping(p, t)
      <3>1. PICK u : u = To(p, p[t.pc].arg, t.z, t.stack, t.v)
        OBVIOUS
      <3>2. /\ Go(p, t) = u /\ Go(c, t) = To(p, c[t.pc].arg, t.z, t.stack, t.v)
            /\ Leads(p, p[t.pc].arg, c[t.pc].arg, t.z)
        BY <2>3, <2>5, <3>1, ThreadedGo
      <3>3. t.stack \in Seq(Nat) /\ t.v \in Nat
        BY <2>3 DEF State, Machine
      <3>4. PICK k \in Nat : Trail(p, u)[k] = Go(c, t)
        <4>1. PICK l, r, q, v : l = p[t.pc].arg /\ r = c[t.pc].arg /\ q = t.stack /\ v = t.v
          OBVIOUS
        <4>2. Leads(p, l, r, t.z) /\ q \in Seq(Nat) /\ v \in Nat /\ u = To(p, l, t.z, q, v) /\ Go(c, t) = To(p, r, t.z, q, v)
          BY <3>1, <3>2, <3>3, <4>1
        <4>3. \E d \in Nat : Trail(p, To(p, l, t.z, q, v))[d] = To(p, r, t.z, q, v)
          BY <4>2 DEF Leads
        <4> QED
          BY <4>2, <4>3
      <3>5. m + 1 \in Nat /\ Trail(p, s)[m + 1] = u
        BY <2>1, <2>3, <3>2
      <3>6. Trail(p, s)[(m + 1) + k] = Trail(p, u)[k]
        BY <3>5, TrailShift
      <3>7. (m + 1) + k \in Nat /\ (m + 1) + k >= n + 1 /\ Trail(c, s)[n + 1] = Trail(p, s)[(m + 1) + k]
        BY <2>1, <2>3, <3>4, <3>6
      <3> QED
        BY <3>7
    <2> QED
      BY <2>4, <2>5
  <1>6. Nat \subseteq X
    <2> HIDE DEF X
    <2> QED
      BY <1>4, <1>5, Induction
  <1> QED
    BY <1>6

\* Shortening jumps changes nowhere where they lead in the end.
LEMMA ThreadedSettles ==
  ASSUME NEW p, IsProgram(p), NEW c, Threaded(p, c), NEW s \in State(p)
  PROVE  Settled(c, s) = Settled(p, s)
  <1>1. IsProgram(c) /\ s \in State(c) /\ State(c) = State(p)
    BY ThreadedIs
  <1>2. \A n \in Nat : Trail(p, s)[n] \in State(p) /\ Trail(c, s)[n] \in State(p)
    <2>1. \A n \in Nat : Trail(p, s)[n] \in State(p)
      BY TrailIs
    <2>2. \A n \in Nat : Trail(c, s)[n] \in State(c)
      BY <1>1, TrailIs
    <2> QED
      BY <1>1, <2>1, <2>2
  <1>3. \A n \in Nat : \E m \in Nat : m >= n /\ Trail(c, s)[n] = Trail(p, s)[m]
    BY ThreadedTrail
  <1>4. CASE \E n \in Nat : ~Moving(c, Trail(c, s)[n])
    <2>1. PICK n \in Nat : ~Moving(c, Trail(c, s)[n])
      BY <1>4
    <2>2. PICK m \in Nat : Trail(c, s)[n] = Trail(p, s)[m]
      BY <1>3
    <2>3. ~Moving(p, Trail(p, s)[m])
      BY <1>2, <2>1, <2>2, ThreadedGo
    <2>4. Settled(p, s) = Trail(p, s)[m]
      BY <2>3, SettledIs
    <2>5. Settled(c, s) = Trail(c, s)[n]
      BY <1>1, <2>1, SettledIs
    <2> QED
      BY <2>2, <2>4, <2>5
  <1>5. CASE \A n \in Nat : Moving(c, Trail(c, s)[n])
    <2>1. ASSUME NEW k \in Nat, ~Moving(p, Trail(p, s)[k]) PROVE FALSE
      <3>1. PICK m \in Nat : m >= k /\ Trail(c, s)[k] = Trail(p, s)[m]
        BY <1>3
      <3>2. \A j \in Nat : Trail(p, s)[k + j] = Trail(p, s)[k]
        <4>1. \A j \in Nat : Trail(p, s)[k + j] = Trail(p, Trail(p, s)[k])[j]
          BY TrailShift
        <4>2. \A j \in Nat : Trail(p, Trail(p, s)[k])[j] = Trail(p, s)[k]
          BY <1>2, <2>1, TrailStays
        <4> QED
          BY <4>1, <4>2
      <3>3. m - k \in Nat /\ k + (m - k) = m
        BY <3>1
      <3>4. Trail(c, s)[k] = Trail(p, s)[k]
        BY <3>1, <3>2, <3>3
      <3>5. ~Moving(c, Trail(c, s)[k])
        BY <1>2, <2>1, <3>4, ThreadedGo
      <3> QED
        BY <1>5, <3>5
    <2>2. Settled(p, s) = [pc |-> 0, out |-> None, z |-> s.z, stack |-> s.stack, v |-> s.v]
      BY <2>1, SettledIs
    <2>3. Settled(c, s) = [pc |-> 0, out |-> None, z |-> s.z, stack |-> s.stack, v |-> s.v]
      BY <1>1, <1>5, SettledIs
    <2> QED
      BY <2>2, <2>3
  <1> QED
    BY <1>4, <1>5

LEMMA ThreadedAt ==
  ASSUME NEW p, IsProgram(p), NEW c, Threaded(p, c), NEW i \in DOMAIN p, NEW z \in BOOLEAN
  PROVE  SettledAt(c, i, z) = SettledAt(p, i, z)
  <1>1. i \in 1 .. Len(p) /\ i \in Nat
    BY ProgramIs
  <1>2. PICK s : s = [pc |-> i, out |-> None, z |-> z, stack |-> <<>>, v |-> 0]
    OBVIOUS
  <1>3. s \in Machine
    BY <1>1, <1>2, EmptySeq DEF Machine
  <1>4. s \in State(p)
    BY <1>1, <1>2, <1>3 DEF State
  <1>5. s = At(i, z, <<>>, 0)
    BY <1>2 DEF At
  <1> QED
    BY <1>4, <1>5, ThreadedSettles DEF SettledAt

LEMMA ThreadedTo ==
  ASSUME NEW p, IsProgram(p), NEW c, Threaded(p, c), NEW i \in DOMAIN p, NEW z \in BOOLEAN,
         p[i].op = "call", Holds(p[i].cond, z)
  PROVE  SettledTo(c, c[i].arg, z) = SettledTo(p, p[i].arg, z)
  <1>0. i \in 1 .. Len(p) /\ p[i].arg \in Labels
    BY ProgramIs DEF IsProgram
  <1>1. PICK l \in Labels : l = p[i].arg
    BY <1>0
  <1>2. PICK m \in Labels : m = c[i].arg /\ Leads(p, l, m, z)
    BY <1>0, <1>1 DEF Threaded, Threads
  <1>3. PICK e \in Seq(Nat), o \in Nat : e = <<>> /\ o = 0
    BY EmptySeq
  <1>4. PICK s : s = To(p, l, z, e, o)
    OBVIOUS
  <1>5. PICK t : t = To(p, m, z, e, o)
    OBVIOUS
  <1>6. s \in State(p) /\ t \in State(p)
    <2>1. s \in State(p)
      BY IsProgram(p), <1>1, <1>4, ToIs
    <2>2. t \in State(p)
      BY IsProgram(p), <1>2, <1>5, ToIs
    <2> QED
      BY <2>1, <2>2
  <1>7. PICK n \in Nat : Trail(p, s)[n] = t
    BY <1>2, <1>3, <1>4, <1>5 DEF Leads
  <1>8. Settled(p, s) = Settled(p, t)
    BY <1>6, <1>7, SettledOnTheWay
  <1>9. Settled(c, t) = Settled(p, t)
    BY <1>6, ThreadedSettles
  <1>10. To(c, m, z, e, o) = t
    BY <1>5, ThreadedIs, LabelsAlike
  <1> QED
    BY <1>1, <1>2, <1>3, <1>4, <1>8, <1>9, <1>10 DEF SettledTo
-----------------------------------------------------------------------------
(* The program of the optimizer.                                            *)

LEMMA ProgramsArePrograms ==
  ASSUME prog \in Programs
  PROVE  IsProgram(prog)
  BY FlowGraphAssumption DEF IsProgram

\* Behind a label there is an instruction, and up to it there are labels only.
LEMMA FirstBehindIs ==
  ASSUME IsProgram(prog), NEW l \in Defined(prog)
  PROVE  /\ FirstBehind(l) \in 1 .. Len(prog) /\ FirstBehind(l) \in Nat
         /\ FirstBehind(l) > Position(prog, l) /\ prog[FirstBehind(l)].op # "label"
         /\ \A j \in Nat : j >= Position(prog, l) /\ j < FirstBehind(l) => prog[j].op = "label"
  <1> DEFINE N == Len(prog)
             i == Position(prog, l)
             T == {j \in DOMAIN prog : j > i /\ prog[j].op # "label"}
  <1>1. N \in Nat /\ N > 0 /\ DOMAIN prog = 1 .. N /\ prog[N].op \in {"jp", "ret"}
    BY ProgramIs
  <1>2. i \in Nat /\ i \in 1 .. N /\ i < N /\ prog[i].op = "label"
    BY PositionIs
  <1>3. N \in T /\ T \in SUBSET Nat
    BY <1>1, <1>2
  <1>4. Min(T) \in T /\ \A k \in T : Min(T) <= k
    <2> HIDE DEF T
    <2> QED
      BY <1>3, MinIs
  <1>5. FirstBehind(l) = Min(T)
    BY DEF FirstBehind
  <1>6. ASSUME NEW j \in Nat, j >= i, j < FirstBehind(l) PROVE prog[j].op = "label"
    <2>1. CASE j = i
      BY <1>2, <2>1
    <2>2. CASE j > i
      <3>1. j \in DOMAIN prog
        BY <1>1, <1>2, <1>4, <1>5, <1>6
      <3>2. j \notin T
        <4>1. ~ (FirstBehind(l) <= j)
          BY <1>1, <1>3, <1>4, <1>5, <1>6
        <4> QED
          BY <1>4, <1>5, <4>1
      <3> QED
        BY <2>2, <3>1, <3>2
    <2> QED
      BY <1>2, <1>6, <2>1, <2>2
  <1>7. FirstBehind(l) \in 1 .. N /\ FirstBehind(l) \in Nat /\ FirstBehind(l) > i /\ prog[FirstBehind(l)].op # "label"
    BY <1>1, <1>4, <1>5
  <1> QED
    BY <1>6, <1>7

\* A label with a jump behind it leads where the jump goes, if it does.
LEMMA LeadsBehind ==
  ASSUME IsProgram(prog), NEW l \in Labels, l \in Defined(prog), NEW first, first = prog[FirstBehind(l)],
         first.op = "jp", NEW z \in BOOLEAN, Holds(first.cond, z)
  PROVE  first.arg \in Labels /\ Leads(prog, l, first.arg, z)
  <1>a. PICK i, f : i = Position(prog, l) /\ f = FirstBehind(l)
    OBVIOUS
  <1>1. /\ f \in 1 .. Len(prog) /\ f \in Nat /\ f > i
        /\ \A j \in Nat : j >= i /\ j < f => prog[j].op = "label"
    BY <1>a, FirstBehindIs
  <1>2. i \in Nat /\ i \in 1 .. Len(prog) /\ Len(prog) \in Nat
    BY <1>a, PositionIs, ProgramIs
  <1>3. first.arg \in Labels
    <2>1. f \in DOMAIN prog
      BY <1>1, ProgramIs
    <2> QED
      BY <1>a, <2>1 DEF IsProgram
  <1>4. ASSUME NEW stack \in Seq(Nat), NEW v \in Nat
        PROVE  \E n \in Nat : Trail(prog, To(prog, l, z, stack, v))[n] = To(prog, first.arg, z, stack, v)
    <2>1. PICK s : s = To(prog, l, z, stack, v)
      OBVIOUS
    <2>2. s \in State(prog) /\ s.z = z /\ s.stack = stack /\ s.v = v /\ s.out = None /\ s.pc = i
      BY <1>a, <2>1, ToIs
    <2>3. /\ Trail(prog, s)[0] = s /\ Trail(prog, s) \in [Nat -> State(prog)]
          /\ \A n \in Nat : Trail(prog, s)[n + 1] = Go(prog, Trail(prog, s)[n])
      <3>1. s \in State(prog)
        BY <2>2
      <3> QED
        BY ONLY <3>1, IsProgram(prog), TrailIs
    <2> DEFINE At2(t, k) == t.pc = k /\ t.out = None /\ t.z = z /\ t.stack = stack /\ t.v = v
               X == {n \in Nat : n <= f - i => At2(Trail(prog, s)[n], i + n)}
    <2>4. 0 \in X
      <3>1. i + 0 = i /\ 0 \in Nat
        BY <1>2
      <3> QED
        BY <2>2, <2>3, <3>1
    <2>5. ASSUME NEW n \in Nat, n \in X PROVE n + 1 \in X
      <3> SUFFICES ASSUME n + 1 <= f - i PROVE At2(Trail(prog, s)[n + 1], i + (n + 1))
        OBVIOUS
      <3>1. PICK t \in State(prog) : t = Trail(prog, s)[n]
        BY <2>3
      <3>2. PICK k : k = i + n
        OBVIOUS
      <3>3. n <= f - i /\ k \in Nat /\ k >= i /\ k < f /\ i + (n + 1) = k + 1
        BY <1>1, <1>2, <3>2
      <3>4. At2(t, k)
        BY <2>5, <3>1, <3>2, <3>3
      <3>5. prog[k].op = "label"
        BY <1>1, <3>3
      <3>6. Moving(prog, t) /\ ~Jumping(prog, t)
        BY <3>4, <3>5 DEF Moving, Jumping
      <3>7. Go(prog, t) = [t EXCEPT !.pc = t.pc + 1]
        BY <3>6, GoIs
      <3>8. t \in Machine
        BY DEF State
      <3>9. At2([t EXCEPT !.pc = t.pc + 1], k + 1)
        BY <3>4, <3>8 DEF Machine
      <3> QED
        BY <2>3, <3>1, <3>3, <3>7, <3>9
    <2>6. Nat \subseteq X
      <3> HIDE DEF X
      <3> QED
        BY <2>4, <2>5, Induction
    <2>7. PICK n \in Nat : n = f - i
      BY <1>1, <1>2
    <2>8. PICK t \in State(prog) : t = Trail(prog, s)[n]
      BY <2>3
    <2>9. i + n = f
      BY <1>1, <1>2, <2>7
    <2>10. At2(t, f)
      BY <2>6, <2>7, <2>8, <2>9
    <2>11. Moving(prog, t) /\ Jumping(prog, t)
      BY <1>a, <2>10 DEF Moving, Jumping
    <2>12. Go(prog, t) = To(prog, first.arg, z, stack, v)
      <3>1. Go(prog, t) = To(prog, prog[t.pc].arg, t.z, t.stack, t.v)
        BY <2>11, GoIs
      <3> QED
        BY <1>a, <2>10, <3>1
    <2>13. n + 1 \in Nat /\ Trail(prog, s)[n + 1] = To(prog, first.arg, z, stack, v)
      BY <2>3, <2>8, <2>12
    <2> QED
      BY <2>1, <2>13
  <1>5. Leads(prog, l, first.arg, z)
    BY <1>4 DEF Leads
  <1> QED
    BY <1>3, <1>5
-----------------------------------------------------------------------------
(* The invariant of the optimizer.                                          *)

\* The optimizer has got through the tracing and has changed nothing yet.
JustTraced == phase = "thread" /\ todo = JUMP_LABELS

\* The edges and the pairs of caller and block that there may be.
EdgePairs == (blocks \X (blocks \cup {Unknown})) \cup ({Unknown} \X blocks)
TracePairs == Callers \X (blocks \cup {Unknown})

Typed ==
  /\ prog \in Programs
  /\ phase \in {"split", "trace", "thread", "optimize"}
  /\ blocks \subseteq DOMAIN prog /\ 1 \in blocks
  /\ goes_to \subseteq EdgePairs
  /\ pending \cup visited \subseteq TracePairs
  /\ todo \subseteq IF phase = "thread" THEN JUMP_LABELS ELSE blocks
  /\ phase # "trace" => pending = {}
  /\ phase = "split" => visited = {}

\* A load that was removed.
Removed(i) == prog[i].op = "set" /\ code[i].op = "nop"

\* Jumps lead where they did, calls of plain routines are as they were, and
\* nothing else is changed but the loads removed in the end.
Coded ==
  /\ code \in Seq(Instruction) /\ Len(code) = Len(prog)
  /\ phase \in {"split", "trace"} \/ JustTraced => code = prog
  /\ \A i \in 1 .. Len(prog) : Threads(prog, code, i) \/ (phase = "optimize" /\ Removed(i))
  /\ \A i \in 1 .. Len(prog) : code[i].op \in {"jp", "call"} => code[i].arg \in JUMP_LABELS
  /\ PlainRoutines => \A i \in 1 .. Len(prog) : prog[i].op = "call" => code[i].arg = prog[i].arg

\* Where a block has to begin.
Points ==
  {i \in DOMAIN prog : /\ i > 1
                       /\ \/ prog[i].op = "label" /\ prog[i].arg \in JUMP_LABELS
                          \/ IsEnder(prog[i - 1])
                          \/ prog[i - 1].op = "asm"}

Partitioned == \A i \in Points : i \in blocks \/ (phase = "split" /\ i > Max(blocks))

Hard(i) == IsEnder(i) /\ ~Conditional(i)

\* The edges of going on to the next block.
OnEdges ==
  phase \in {"split", "trace"} \/ JustTraced \/ NoJumpInto =>
    \A n \in blocks : n > 1 /\ ~Hard(prog[n - 1]) => <<BlockOf(n - 1), n>> \in goes_to

\* The edges of jumps and calls.
JumpEdges ==
  phase # "split" =>
    \A i \in 1 .. Len(prog) :
      code[i].op \in {"jp", "call"} => <<BlockOf(i), LabelBlock(code[i].arg)>> \in goes_to

\* What the tracing of calls has done so far.
Tracing ==
  phase # "split" =>
    /\ \A i \in 1 .. Len(prog) :
         prog[i].op = "call" /\ prog[i].arg \in Defined(prog) =>
           <<BlockOf(i), LabelBlock(prog[i].arg)>> \in pending \cup visited
    /\ \A x, b \in blocks : <<x, b>> \in visited =>
         LET e == prog[End(b)]
         IN  /\ ~IsEnder(e) \/ (e.op \in {"ret", "call"} /\ Conditional(e)) =>
                  \A n \in NextBlock(b) : <<x, n>> \in pending \cup visited
             /\ e.op = "ret" => \A n \in NextBlock(x) : <<b, n>> \in goes_to

\* The places that may follow place i, as the graph has it.
Followers(i) == IF i = End(BlockOf(i)) THEN GoesTo(BlockOf(i)) ELSE {i + 1}

\* Places where nobody reads the register before it is loaded again.
DeadSet(A) ==
  \A i \in A : /\ code[i].op \notin {"use", "asm"}
               /\ code[i].op # "set" => Followers(i) \subseteq A
DeadPlaces == UNION {A \in SUBSET (DOMAIN prog) : DeadSet(A)}

RemovedDead ==
  phase = "optimize" => \A i \in DOMAIN prog : Removed(i) => Followers(i) \subseteq DeadPlaces

GraphInv ==
  Typed /\ Coded /\ Partitioned /\ OnEdges /\ JumpEdges /\ Tracing /\ RemovedDead
-----------------------------------------------------------------------------
(* The invariant of the two runs.                                           *)

RoutineEnd(l) ==
  Min({j \in DOMAIN prog : j > Position(prog, l) /\ IsEnder(prog[j])
                             /\ (prog[j].op = "jp" \/ ~Conditional(prog[j]))})
InRoutine(c, i) ==
  prog[c].arg \in Defined(prog) /\ i \in Position(prog, prog[c].arg) .. RoutineEnd(prog[c].arg)

\* Every return address is that of a call, whose routine made the next call or
\* is where the machine is now.
Frames(s) ==
  \A k \in 1 .. Len(s.stack) :
    LET c == s.stack[k] - 1
    IN  /\ c \in 1 .. Len(prog) - 1 /\ prog[c].op = "call"
        /\ k < Len(s.stack) => InRoutine(c, s.stack[k + 1] - 1)
        /\ k = Len(s.stack) /\ s.out = None => InRoutine(c, s.pc)

\* Every return address is behind a call.
Calling(s) ==
  \A k \in 1 .. Len(s.stack) :
    LET c == s.stack[k] - 1 IN c \in 1 .. Len(prog) - 1 /\ prog[c].op = "call"

\* The original is at the same place, or on its way there.
OnTheWay == \E n \in Nat : Trail(prog, was)[n] = [is EXCEPT !.v = was.v]

RunInv ==
  /\ GraphInv
  /\ running \in {"no", "traced", "optimized"} /\ strayed \in BOOLEAN
  /\ running = "no" => ~strayed
  /\ running = "traced" => JustTraced
  /\ running = "optimized" => phase = "optimize" /\ todo = {}
  /\ running # "no" => is \in State(prog) /\ Calling(is)
  /\ running # "no" /\ PlainRoutines /\ (running = "optimized" => NoJumpInto) =>
       Frames(is) /\ ~strayed
  /\ running = "optimized" =>
       /\ was \in State(prog) /\ OnTheWay
       /\ ~strayed => is.v = was.v \/ is.pc \in DeadPlaces
-----------------------------------------------------------------------------
(* Blocks.                                                                  *)

BlocksOK == IsProgram(prog) /\ blocks \subseteq DOMAIN prog /\ 1 \in blocks

LEMMA TypedBlocks ==
  ASSUME Typed
  PROVE  BlocksOK
  BY ProgramsArePrograms DEF Typed, BlocksOK

LEMMA BlockPlaces ==
  ASSUME BlocksOK
  PROVE  blocks \in SUBSET Nat /\ blocks # {} /\ \A b \in blocks : b \in 1 .. Len(prog)
  BY ProgramIs DEF BlocksOK

LEMMA BlockOfIs ==
  ASSUME BlocksOK, NEW i \in 1 .. Len(prog)
  PROVE  /\ BlockOf(i) \in blocks /\ BlockOf(i) \in Nat /\ BlockOf(i) <= i
         /\ \A c \in blocks : c <= i => c <= BlockOf(i)
  <1> DEFINE T == {b \in blocks : b <= i}
  <1>1. Len(prog) \in Nat /\ 1 \in blocks
    BY ProgramIs DEF BlocksOK
  <1>2. T \in SUBSET Nat /\ T # {} /\ i \in Nat /\ \A k \in T : k <= i
    BY <1>1, BlockPlaces
  <1>3. Max(T) \in T /\ \A k \in T : k <= Max(T)
    <2> HIDE DEF T
    <2> QED
      BY <1>2, MaxIs
  <1>4. BlockOf(i) = Max(T)
    BY DEF BlockOf
  <1> QED
    BY <1>2, <1>3, <1>4

LEMMA EndIs ==
  ASSUME BlocksOK, NEW b \in blocks
  PROVE  /\ End(b) \in Nat /\ End(b) \in 1 .. Len(prog) /\ b <= End(b)
         /\ \A c \in blocks : c > b => c > End(b)
         /\ End(b) # Len(prog) => End(b) < Len(prog) /\ End(b) + 1 \in blocks
  <1> DEFINE N == Len(prog)
             T == {c \in blocks : c > b} \cup {N + 1}
  <1>1. N \in Nat
    BY ProgramIs DEF BlocksOK
  <1>2. b \in Nat /\ b \in 1 .. N /\ \A c \in blocks : c \in Nat /\ c <= N
    BY <1>1, BlockPlaces
  <1>3. T \in SUBSET Nat /\ T # {}
    <2>1. N + 1 \in Nat
      BY <1>1
    <2>2. \A c \in T : c \in Nat
      <3> HIDE DEF N
      <3> QED
        BY <1>2, <2>1
    <2> QED
      BY <2>2
  <1>4. Min(T) \in T /\ \A k \in T : Min(T) <= k
    <2> HIDE DEF T
    <2> QED
      BY <1>3, MinIs
  <1>5. PICK m \in T : m = Min(T) /\ End(b) = m - 1 /\ \A k \in T : m <= k
    BY <1>4 DEF End
  <1>6. m \in Nat /\ m > b /\ m <= N + 1
    BY <1>1, <1>2, <1>3, <1>5
  <1>7. End(b) \in Nat /\ End(b) \in 1 .. N /\ b <= End(b) /\ End(b) + 1 = m
    BY <1>1, <1>2, <1>5, <1>6
  <1>8. \A c \in blocks : c > b => c > End(b)
    BY <1>2, <1>5, <1>6, <1>7
  <1>9. End(b) # N => End(b) < N /\ End(b) + 1 \in blocks
    BY <1>1, <1>5, <1>6, <1>7
  <1> QED
    BY <1>7, <1>8, <1>9

\* The blocks divide the program.
LEMMA InBlock ==
  ASSUME BlocksOK, NEW i \in 1 .. Len(prog)
  PROVE  /\ i <= End(BlockOf(i))
         /\ \A b \in blocks : b <= i /\ i <= End(b) => BlockOf(i) = b
  <1>1. BlockOf(i) \in blocks /\ BlockOf(i) \in Nat /\ BlockOf(i) <= i
        /\ \A c \in blocks : c <= i => c <= BlockOf(i)
    BY BlockOfIs
  <1>2. PICK b \in blocks : b = BlockOf(i)
    BY <1>1
  <1>3. /\ End(b) \in Nat /\ b <= End(b) /\ End(b) \in 1 .. Len(prog)
        /\ \A c \in blocks : c > b => c > End(b)
        /\ End(b) # Len(prog) => End(b) + 1 \in blocks
    BY EndIs
  <1>4. Len(prog) \in Nat /\ i \in Nat
    BY ProgramIs DEF BlocksOK
  <1>5. i <= End(b)
    <2> SUFFICES ASSUME i > End(b) PROVE FALSE
      BY <1>3, <1>4
    <2>1. End(b) # Len(prog)
      BY <1>3, <1>4
    <2>2. End(b) + 1 \in blocks /\ End(b) + 1 <= i
      BY <1>3, <1>4, <2>1
    <2>3. End(b) + 1 <= b
      BY <1>1, <1>2, <2>2
    <2> QED
      BY <1>2, <1>1, <1>3, <2>3
  <1>6. ASSUME NEW c \in blocks, c <= i, i <= End(c) PROVE b = c
    <2>1. c \in Nat /\ b \in Nat /\ End(c) \in Nat
      BY BlockPlaces, EndIs
    <2>2. c <= b
      BY <1>1, <1>2, <1>6
    <2>3. ~ (b > c)
      <3>1. b > c => b > End(c)
        BY EndIs
      <3>2. b <= i
        BY <1>1, <1>2
      <3> QED
        BY <1>4, <1>6, <2>1, <3>1, <3>2
    <2> QED
      BY <2>1, <2>2, <2>3
  <1> QED
    BY <1>2, <1>5, <1>6

LEMMA BlockItself ==
  ASSUME BlocksOK, NEW b \in blocks
  PROVE  BlockOf(b) = b /\ BlockOf(End(b)) = b
  <1>1. b \in Nat /\ b \in 1 .. Len(prog) /\ End(b) \in 1 .. Len(prog) /\ End(b) \in Nat /\ b <= End(b)
    BY EndIs, BlockPlaces
  <1>2. BlockOf(b) = b
    BY <1>1, InBlock
  <1>3. BlockOf(End(b)) = b
    BY <1>1, InBlock
  <1> QED
    BY <1>2, <1>3

\* A place is the last of its block when the next one begins a block.
LEMMA LastOfBlock ==
  ASSUME BlocksOK, NEW i \in 1 .. Len(prog)
  PROVE  /\ i # Len(prog) => i + 1 \in 1 .. Len(prog)
         /\ i = Len(prog) \/ i + 1 \in blocks => i = End(BlockOf(i))
         /\ i # End(BlockOf(i)) => BlockOf(i + 1) = BlockOf(i) /\ i + 1 \in 1 .. Len(prog)
         /\ i = End(BlockOf(i)) /\ i # Len(prog) => i + 1 \in blocks
  <1>1. BlockOf(i) \in blocks /\ BlockOf(i) \in Nat /\ BlockOf(i) <= i
    BY BlockOfIs
  <1>2. PICK b \in blocks : b = BlockOf(i)
    BY <1>1
  <1>3. /\ End(b) \in Nat /\ End(b) \in 1 .. Len(prog)
        /\ \A c \in blocks : c > b => c > End(b)
        /\ End(b) # Len(prog) => End(b) + 1 \in blocks
    BY EndIs
  <1>4. i <= End(b)
    BY <1>2, InBlock
  <1>5. Len(prog) \in Nat /\ i \in Nat /\ b \in Nat /\ b <= i
    BY <1>1, <1>2, ProgramIs DEF BlocksOK
  <1>6. ASSUME i = Len(prog) \/ i + 1 \in blocks PROVE i = End(b)
    <2>1. CASE i = Len(prog)
      BY <1>3, <1>4, <1>5, <2>1
    <2>2. CASE i + 1 \in blocks
      <3>1. i + 1 > End(b)
        BY <1>3, <1>5, <2>2
      <3> QED
        BY <1>3, <1>4, <1>5, <3>1
    <2> QED
      BY <1>6, <2>1, <2>2
  <1>7. ASSUME i # End(b) PROVE BlockOf(i + 1) = b /\ i + 1 \in 1 .. Len(prog)
    <2>1. i + 1 \in 1 .. Len(prog) /\ b <= i + 1 /\ i + 1 <= End(b)
      BY <1>3, <1>4, <1>5, <1>7
    <2> QED
      BY <2>1, InBlock
  <1>8. ASSUME i # Len(prog) PROVE i + 1 \in 1 .. Len(prog)
    BY <1>5, <1>8
  <1> QED
    BY <1>2, <1>3, <1>6, <1>7, <1>8

LEMMA NextBlockIs ==
  ASSUME BlocksOK, NEW b \in blocks
  PROVE  /\ \A n \in NextBlock(b) : n \in blocks /\ n = End(b) + 1
         /\ End(b) # Len(prog) => End(b) + 1 \in NextBlock(b)
  BY EndIs DEF NextBlock

LEMMA LabelBlockIs ==
  ASSUME BlocksOK, NEW l
  PROVE  LabelBlock(l) \in blocks \cup {Unknown}
  <1>1. CASE l \in Defined(prog)
    <2>1. Position(prog, l) \in 1 .. Len(prog)
      BY <1>1, PositionIs DEF BlocksOK
    <2> QED
      BY <1>1, <2>1, BlockOfIs DEF LabelBlock
  <1>2. CASE l \notin Defined(prog)
    BY <1>2 DEF LabelBlock
  <1> QED
    BY <1>1, <1>2
-----------------------------------------------------------------------------
(* Blocks that are all found.                                               *)

SplitOK == BlocksOK /\ Points \subseteq blocks

LEMMA InvSplit ==
  ASSUME GraphInv, phase # "split"
  PROVE  SplitOK
  BY TypedBlocks DEF GraphInv, Partitioned, SplitOK

\* What may go elsewhere than to the next place ends its block.
LEMMA EnderEnds ==
  ASSUME SplitOK, NEW i \in 1 .. Len(prog), IsEnder(prog[i])
  PROVE  i = End(BlockOf(i)) /\ (i # Len(prog) => i + 1 \in blocks)
  <1>1. BlocksOK /\ Len(prog) \in Nat /\ DOMAIN prog = 1 .. Len(prog)
    BY ProgramIs DEF SplitOK, BlocksOK
  <1>2. ASSUME i # Len(prog) PROVE i + 1 \in blocks
    <2>1. i + 1 \in DOMAIN prog /\ i + 1 > 1 /\ (i + 1) - 1 = i
      <3>1. i + 1 \in 1 .. Len(prog)
        BY <1>1, <1>2, LastOfBlock
      <3>2. i \in Nat /\ i >= 1
        OBVIOUS
      <3>3. i + 1 > 1 /\ (i + 1) - 1 = i
        BY ONLY <3>2
      <3> QED
        BY <1>1, <3>1, <3>3
    <2>2. i + 1 \in Points
      BY <2>1 DEF Points
    <2> QED
      BY <2>2 DEF SplitOK
  <1>3. i = End(BlockOf(i))
    BY <1>1, <1>2, LastOfBlock
  <1> QED
    BY <1>2, <1>3

\* A label that is jumped to begins a block.
LEMMA LabelBegins ==
  ASSUME SplitOK, NEW l \in JUMP_LABELS, l \in Defined(prog)
  PROVE  Position(prog, l) \in blocks /\ LabelBlock(l) = Position(prog, l)
  <1>1. /\ BlocksOK /\ IsProgram(prog) /\ Len(prog) \in Nat /\ DOMAIN prog = 1 .. Len(prog)
        /\ 1 \in blocks
    BY ProgramIs DEF SplitOK, BlocksOK
  <1>2. PICK i \in 1 .. Len(prog) : i = Position(prog, l) /\ prog[i].op = "label" /\ prog[i].arg = l
    BY <1>1, PositionIs
  <1>3. i \in blocks
    <2>1. CASE i = 1
      BY <1>1, <2>1
    <2>2. CASE i # 1
      <3>1. i \in DOMAIN prog /\ i > 1
        BY <1>1, <2>2
      <3>2. i \in Points
        BY <1>2, <3>1 DEF Points
      <3> QED
        BY <3>2 DEF SplitOK
    <2> QED
      BY <2>1, <2>2
  <1>4. BlockOf(i) = i
    BY <1>1, <1>3, BlockItself
  <1> QED
    BY <1>2, <1>3, <1>4 DEF LabelBlock
-----------------------------------------------------------------------------
(* What depends on the program only, and on it and its blocks.              *)

LEMMA ProgramFixed ==
  ASSUME prog' = prog
  PROVE  /\ JUMP_LABELS' = JUMP_LABELS
         /\ PlainRoutines' <=> PlainRoutines
         /\ NoJumpInto' <=> NoJumpInto
         /\ Points' = Points
  <1>1. JUMP_LABELS' = JUMP_LABELS
    BY DEF JUMP_LABELS
  <1>2. PlainRoutines' <=> PlainRoutines
    BY DEF PlainRoutines
  <1>3. \A l : FirstBehind(l)' = FirstBehind(l)
    BY DEF FirstBehind
  <1>4. NoJumpInto' <=> NoJumpInto
    BY <1>3 DEF NoJumpInto
  <1>5. Points' = Points
    BY <1>1 DEF Points
  <1> QED
    BY <1>1, <1>2, <1>4, <1>5

LEMMA BlocksFixed ==
  ASSUME prog' = prog, blocks' = blocks
  PROVE  /\ \A b : End(b)' = End(b) /\ NextBlock(b)' = NextBlock(b) /\ BlockOf(b)' = BlockOf(b)
         /\ \A l : LabelBlock(l)' = LabelBlock(l)
         /\ Partitioned /\ (phase' = phase \/ phase # "split") => Partitioned'
         /\ EdgePairs' = EdgePairs /\ TracePairs' = TracePairs
  <1>1. \A b : End(b)' = End(b)
    BY DEF End
  <1>2. \A b : NextBlock(b)' = NextBlock(b)
    BY <1>1 DEF NextBlock
  <1>3. \A b : BlockOf(b)' = BlockOf(b)
    BY DEF BlockOf
  <1>4. \A l : LabelBlock(l)' = LabelBlock(l)
    BY <1>3 DEF LabelBlock
  <1>5. Partitioned /\ (phase' = phase \/ phase # "split") => Partitioned'
    BY ProgramFixed DEF Partitioned
  <1>6. Callers' = Callers
    BY <1>1 DEF Callers
  <1>7. EdgePairs' = EdgePairs /\ TracePairs' = TracePairs
    BY <1>6 DEF EdgePairs, TracePairs
  <1> QED
    BY <1>1, <1>2, <1>3, <1>4, <1>5, <1>7

LEMMA JumpLabelsAre ==
  ASSUME IsProgram(prog)
  PROVE  /\ JUMP_LABELS \subseteq Labels
         /\ \A i \in 1 .. Len(prog) : prog[i].op \in {"jp", "call"} => prog[i].arg \in JUMP_LABELS
  <1>1. DOMAIN prog = 1 .. Len(prog)
    BY ProgramIs
  <1> QED
    BY <1>1 DEF JUMP_LABELS, IsProgram

LEMMA ThreadsItself ==
  ASSUME NEW p, IsProgram(p), NEW i \in 1 .. Len(p)
  PROVE  Threads(p, p, i)
  <1>1. p[i].op \in {"jp", "call"} => p[i].arg \in Labels
    BY ProgramIs DEF IsProgram
  <1> QED
    BY <1>1, LeadsItself DEF Threads

\* As long as the code is the program as it was given.
LEMMA CodedAsGiven ==
  ASSUME prog \in Programs, code = prog
  PROVE  Coded
  <1>1. IsProgram(prog)
    BY ProgramsArePrograms
  <1>2. code \in Seq(Instruction) /\ Len(code) = Len(prog)
    BY <1>1 DEF IsProgram
  <1>3. \A i \in 1 .. Len(prog) : Threads(prog, code, i)
    BY <1>1, ThreadsItself
  <1>4. \A i \in 1 .. Len(prog) : code[i].op \in {"jp", "call"} => code[i].arg \in JUMP_LABELS
    BY <1>1, JumpLabelsAre
  <1> QED
    BY <1>2, <1>3, <1>4 DEF Coded
-----------------------------------------------------------------------------
LEMMA GraphInit ==
  ASSUME Init
  PROVE  GraphInv
  <1>1. /\ prog \in Programs /\ code = prog /\ phase = "split" /\ blocks = {1}
        /\ goes_to = {} /\ pending = {} /\ visited = {} /\ todo = {}
    BY DEF Init
  <1>2. IsProgram(prog)
    BY <1>1, ProgramsArePrograms
  <1>3. 1 \in DOMAIN prog
    BY <1>2, ProgramIs
  <1>4. Typed
    BY <1>1, <1>3 DEF Typed
  <1>5. Coded
    BY <1>1, CodedAsGiven
  <1>6. Partitioned
    <2>1. Max(blocks) = 1
      <3>1. blocks \in SUBSET Nat /\ blocks # {} /\ 1 \in Nat /\ \A k \in blocks : k <= 1
        BY <1>1
      <3>2. Max(blocks) \in blocks
        BY <3>1, MaxIs
      <3> QED
        BY <1>1, <3>2
    <2> QED
      BY <1>1, <2>1 DEF Partitioned, Points
  <1>7. OnEdges
    BY <1>1 DEF OnEdges
  <1>8. JumpEdges /\ Tracing /\ RemovedDead
    BY <1>1 DEF JumpEdges, Tracing, RemovedDead
  <1> QED
    BY <1>4, <1>5, <1>6, <1>7, <1>8 DEF GraphInv

\* The points at which the last block is yet to be split.
LEMMA PointsLeft ==
  ASSUME BlocksOK
  PROVE  /\ Max(blocks) \in blocks /\ \A b \in blocks : b <= Max(blocks)
         /\ PartitionPoints = {i \in Points : i > Max(blocks)}
  <1>1. Len(prog) \in Nat /\ DOMAIN prog = 1 .. Len(prog)
    BY ProgramIs DEF BlocksOK
  <1>2. blocks \in SUBSET Nat /\ blocks # {} /\ \A b \in blocks : b \in 1 .. Len(prog)
    BY BlockPlaces
  <1>3. \A b \in blocks : b <= Len(prog)
    BY <1>1, <1>2
  <1>4. Max(blocks) \in blocks /\ \A b \in blocks : b <= Max(blocks)
    BY <1>1, <1>2, <1>3, MaxIs
  <1>5. PICK m \in 1 .. Len(prog) : m = Max(blocks)
    BY <1>2, <1>4
  <1>6. \A i \in DOMAIN prog : i > m => i > 1
    BY <1>1, <1>5
  <1>7. PartitionPoints = {i \in Points : i > m}
    BY <1>5, <1>6 DEF PartitionPoints, Points
  <1> QED
    BY <1>4, <1>5, <1>7

LEMMA SplitKeeps ==
  ASSUME GraphInv, split_block
  PROVE  GraphInv'
  <1>1. /\ phase = "split" /\ PartitionPoints # {}
        /\ phase' = phase /\ prog' = prog /\ code' = code /\ pending' = pending
        /\ visited' = visited /\ todo' = todo
    BY DEF split_block
  <1>2. Typed /\ Coded /\ Partitioned /\ OnEdges /\ prog \in Programs /\ BlocksOK
    BY TypedBlocks DEF GraphInv, Typed
  <1>3. IsProgram(prog) /\ Len(prog) \in Nat /\ DOMAIN prog = 1 .. Len(prog) /\ \A c \in blocks : c \in 1 .. Len(prog)
    BY <1>2, ProgramIs, BlockPlaces DEF BlocksOK
  <1>4. PICK b : b = Max(blocks)
    OBVIOUS
  <1>5. PICK n : n = Min(PartitionPoints)
    OBVIOUS
  <1>6. b \in blocks /\ (\A c \in blocks : c <= b) /\ PartitionPoints = {i \in Points : i > b}
    BY <1>2, <1>4, PointsLeft
  <1>7. n \in Points /\ n > b /\ n \in DOMAIN prog /\ \A k \in PartitionPoints : n <= k
    <2>1. PartitionPoints \in SUBSET Nat
      BY <1>3, <1>6 DEF Points
    <2>2. n \in PartitionPoints /\ \A k \in PartitionPoints : n <= k
      BY <1>1, <1>5, <2>1, MinIs
    <2> QED
      BY <1>6, <2>2 DEF Points
  <1>8. blocks' = blocks \cup {n}
    BY <1>5 DEF split_block
  <1>9. goes_to' = IF Hard(prog[n - 1]) THEN goes_to ELSE goes_to \cup {<<b, n>>}
    BY <1>4, <1>5 DEF split_block, Hard
  <1>10. /\ b \in Nat /\ n \in Nat /\ n - 1 \in 1 .. Len(prog) /\ n - 1 >= b /\ n - 1 < n
         /\ \A c \in blocks : c \in Nat /\ c < n
    <2>1. b \in 1 .. Len(prog) /\ n \in 1 .. Len(prog)
      BY <1>3, <1>6, <1>7
    <2>2. \A c \in blocks : c \in Nat /\ c < n
      BY <1>3, <1>6, <1>7, <2>1
    <2> QED
      BY <1>3, <1>7, <2>1, <2>2
  <1>11. Typed'
    <2>1. blocks' \subseteq DOMAIN prog' /\ 1 \in blocks'
      BY <1>1, <1>2, <1>7, <1>8 DEF Typed
    <2>2. goes_to' \subseteq EdgePairs'
      <3>1. goes_to \subseteq EdgePairs
        BY <1>2 DEF Typed
      <3>2. EdgePairs \subseteq EdgePairs' /\ <<b, n>> \in EdgePairs'
        BY <1>6, <1>8 DEF EdgePairs
      <3> QED
        BY <1>9, <3>1, <3>2
    <2>3. pending' \cup visited' \subseteq TracePairs'
      BY <1>1, <1>2 DEF Typed
    <2>4. todo' \subseteq IF phase' = "thread" THEN JUMP_LABELS' ELSE blocks'
      BY <1>1, <1>2, <1>8 DEF Typed
    <2> QED
      BY <1>1, <1>2, <2>1, <2>2, <2>3, <2>4 DEF Typed
  <1>12. Coded'
    BY <1>1, <1>2, ProgramFixed DEF Coded, JustTraced, Removed
  <1>13. Partitioned'
    <2>1. Points' = Points
      BY <1>1, ProgramFixed
    <2>2. blocks' \in SUBSET Nat /\ blocks' # {} /\ n \in Nat /\ \A k \in blocks' : k <= n
      BY <1>8, <1>10
    <2>3. Max(blocks') \in blocks' /\ \A k \in blocks' : k <= Max(blocks')
      BY <2>2, MaxIs
    <2>4. Max(blocks') = n
      <3>1. PICK m : m = Max(blocks')
        OBVIOUS
      <3>2. m \in Nat /\ m <= n /\ n <= m
        BY <1>8, <2>2, <2>3, <3>1
      <3> QED
        BY <2>2, <3>1, <3>2
    <2>5. ASSUME NEW i \in Points PROVE i \in blocks' \/ i > n
      <3>1. CASE i \in blocks
        BY <1>8, <3>1
      <3>2. CASE i > b
        <4>1. n <= i
          BY <1>6, <1>7, <3>2
        <4>2. i \in Nat
          BY <1>3 DEF Points
        <4> QED
          BY <1>8, <1>10, <4>1, <4>2
      <3> QED
        BY <1>2, <1>4, <3>1, <3>2 DEF Partitioned
    <2> QED
      BY <1>1, <2>1, <2>4, <2>5 DEF Partitioned
  <1>14. OnEdges'
    <2> SUFFICES ASSUME NEW m \in blocks', m > 1, ~Hard(prog[m - 1])
                 PROVE  <<BlockOf(m - 1)', m>> \in goes_to'
      BY <1>1 DEF OnEdges
    <2>1. \A k \in Nat : k < n => {c \in blocks' : c <= k} = {c \in blocks : c <= k}
      BY <1>8, <1>10
    <2>2. \A k \in Nat : k < n => BlockOf(k)' = BlockOf(k)
      BY <2>1 DEF BlockOf
    <2>3. CASE m = n
      <3>1. BlockOf(n - 1) = b
        <4>1. End(b) \in Nat /\ (End(b) # Len(prog) => End(b) + 1 \in blocks) /\ b <= End(b)
          BY <1>2, <1>6, EndIs
        <4>2. End(b) = Len(prog)
          <5> SUFFICES ASSUME End(b) + 1 \in blocks PROVE FALSE
            BY <4>1
          <5>1. End(b) + 1 <= b
            BY <1>6
          <5> QED
            BY <1>10, <4>1, <5>1
        <4>3. b <= n - 1 /\ n - 1 <= End(b)
          BY <1>3, <1>10, <4>2
        <4> QED
          BY <1>2, <1>6, <1>10, <4>3, InBlock
      <3>2. BlockOf(n - 1)' = b
        BY <1>10, <2>2, <3>1
      <3> QED
        BY <1>9, <2>3, <3>2
    <2>4. CASE m \in blocks
      <3>1. m - 1 \in Nat /\ m - 1 < n
        BY <1>10, <2>4
      <3>2. <<BlockOf(m - 1), m>> \in goes_to
        BY <1>1, <1>2, <2>4 DEF OnEdges
      <3> QED
        BY <1>9, <2>2, <3>1, <3>2
    <2> QED
      BY <1>8, <2>3, <2>4
  <1>15. JumpEdges' /\ Tracing' /\ RemovedDead'
    BY <1>1 DEF JumpEdges, Tracing, RemovedDead
  <1> QED
    BY <1>11, <1>12, <1>13, <1>14, <1>15 DEF GraphInv
-----------------------------------------------------------------------------
(* The edges of jumps, and the calls.                                       *)

LEMMA AnnotateKeeps ==
  ASSUME GraphInv, AnnotateJumps
  PROVE  GraphInv'
  <1> DEFINE jumps == {b \in blocks : Ender(b).op \in {"jp", "call"}}
             calls == Callers
  <1>1. /\ phase = "split" /\ PartitionPoints = {} /\ phase' = "trace"
        /\ goes_to' = goes_to \cup {<<b, LabelBlock(Ender(b).arg)>> : b \in jumps}
        /\ pending' = {<<b, LabelBlock(Ender(b).arg)>> : b \in calls}
        /\ prog' = prog /\ code' = code /\ blocks' = blocks /\ visited' = visited /\ todo' = todo
    BY DEF AnnotateJumps
  <1>2. Typed /\ Coded /\ Partitioned /\ OnEdges /\ prog \in Programs /\ BlocksOK /\ code = prog
    BY <1>1, TypedBlocks DEF GraphInv, Typed, Coded
  <1>3. IsProgram(prog) /\ DOMAIN prog = 1 .. Len(prog)
    BY <1>2, ProgramIs DEF BlocksOK
  <1>4. /\ \A b : End(b)' = End(b) /\ NextBlock(b)' = NextBlock(b) /\ BlockOf(b)' = BlockOf(b)
        /\ \A l : LabelBlock(l)' = LabelBlock(l)
    BY <1>1, BlocksFixed
  <1>5. SplitOK
    <2>1. Max(blocks) \in blocks /\ PartitionPoints = {i \in Points : i > Max(blocks)}
      BY <1>2, PointsLeft
    <2>2. \A i \in Points : i \in blocks
      BY <1>1, <1>2, <2>1 DEF Partitioned
    <2> QED
      BY <1>2, <2>2 DEF SplitOK
  <1>6. ASSUME NEW i \in 1 .. Len(prog), prog[i].op \in {"jp", "call"}
        PROVE  BlockOf(i) \in jumps /\ Ender(BlockOf(i)) = prog[i]
    <2>1. BlockOf(i) \in blocks
      BY <1>2, BlockOfIs
    <2>2. IsEnder(prog[i])
      BY <1>6 DEF IsEnder, Enders
    <2>3. i = End(BlockOf(i))
      BY <1>5, <2>2, EnderEnds
    <2>4. Ender(BlockOf(i)) = prog[i]
      BY <1>2, <2>3 DEF Ender
    <2> QED
      BY <1>6, <2>1, <2>4
  <1>7. Typed'
    <2>1. ASSUME NEW b \in jumps PROVE <<b, LabelBlock(Ender(b).arg)>> \in EdgePairs
      BY <1>2, LabelBlockIs DEF EdgePairs
    <2>2. goes_to' \subseteq EdgePairs
      <3>1. \A e \in goes_to' : e \in goes_to \/ \E b \in jumps : e = <<b, LabelBlock(Ender(b).arg)>>
        BY <1>1
      <3>2. goes_to \subseteq EdgePairs
        BY <1>2 DEF Typed
      <3> HIDE DEF jumps
      <3> QED
        BY <2>1, <3>1, <3>2
    <2>3. ASSUME NEW b \in calls PROVE <<b, LabelBlock(Ender(b).arg)>> \in TracePairs
      BY <1>2, LabelBlockIs DEF TracePairs
    <2>4. pending' \subseteq TracePairs
      <3>1. \A e \in pending' : \E b \in calls : e = <<b, LabelBlock(Ender(b).arg)>>
        BY <1>1
      <3> HIDE DEF calls
      <3> QED
        BY <2>3, <3>1
    <2>5. visited' \subseteq TracePairs /\ todo' \subseteq blocks
      BY <1>1, <1>2 DEF Typed
    <2>6. EdgePairs' = EdgePairs /\ TracePairs' = TracePairs
      BY <1>1, BlocksFixed
    <2> QED
      BY <1>1, <1>2, <2>2, <2>4, <2>5, <2>6 DEF Typed
  <1>8. Coded'
    BY <1>1, <1>2, ProgramFixed DEF Coded, JustTraced, Removed
  <1>9. Partitioned'
    <2>1. Points' = Points
      BY <1>1, ProgramFixed
    <2> QED
      BY <1>1, <1>5, <2>1 DEF Partitioned, SplitOK
  <1>10. OnEdges'
    <2>1. \A n \in blocks : n > 1 /\ ~Hard(prog[n - 1]) => <<BlockOf(n - 1), n>> \in goes_to
      BY <1>1, <1>2 DEF OnEdges
    <2>2. goes_to \subseteq goes_to'
      BY <1>1
    <2> QED
      BY <1>1, <1>4, <2>1, <2>2 DEF OnEdges
  <1>11. JumpEdges'
    <2> SUFFICES ASSUME NEW i \in 1 .. Len(prog), prog[i].op \in {"jp", "call"}
                 PROVE  <<BlockOf(i), LabelBlock(prog[i].arg)>> \in goes_to'
      BY <1>1, <1>2, <1>4 DEF JumpEdges
    <2> QED
      BY <1>1, <1>6
  <1>12. Tracing'
    <2>1. ASSUME NEW i \in 1 .. Len(prog), prog[i].op = "call", prog[i].arg \in Defined(prog)
          PROVE  <<BlockOf(i), LabelBlock(prog[i].arg)>> \in pending'
      <3>1. BlockOf(i) \in calls /\ Ender(BlockOf(i)).arg = prog[i].arg
        BY <1>2, <1>6, <2>1 DEF Ender, Callers
      <3> HIDE DEF calls
      <3> QED
        BY <1>1, <3>1
    <2>2. visited' = {}
      BY <1>1, <1>2 DEF Typed
    <2> QED
      BY <1>1, <1>4, <2>1, <2>2 DEF Tracing
  <1>13. RemovedDead'
    BY <1>1 DEF RemovedDead
  <1> QED
    BY <1>7, <1>8, <1>9, <1>10, <1>11, <1>12, <1>13 DEF GraphInv
-----------------------------------------------------------------------------
(* The tracing of calls.                                                    *)

\* The last instruction of a block as the program was given.
Was(b) == IF b = Unknown THEN Instr("ret", None, None) ELSE prog[End(b)]

\* A step of the tracing only adds edges, and forgets no pair.
LEMMA TraceAdds ==
  ASSUME GraphInv, Trace
  PROVE  /\ phase = "trace" /\ phase' = phase /\ prog' = prog /\ code' = code
         /\ blocks' = blocks /\ todo' = todo /\ code = prog
         /\ \E x \in Callers, b \in blocks \cup {Unknown} :
              LET e == Was(b)
                  on == ~IsEnder(e) \/ (e.op \in {"ret", "call"} /\ Conditional(e))
              IN  /\ <<x, b>> \in pending
                  /\ \/ /\ <<x, b>> \in visited
                        /\ pending' = pending \ {<<x, b>>} /\ visited' = visited /\ goes_to' = goes_to
                     \/ /\ <<x, b>> \notin visited
                        /\ visited' = visited \cup {<<x, b>>}
                        /\ pending' = (pending \ {<<x, b>>}) \cup (IF on THEN {x} \X NextBlock(b) ELSE {})
                        /\ goes_to' = IF e.op = "ret" THEN goes_to \cup ({b} \X NextBlock(x)) ELSE goes_to
  <1>1. /\ phase = "trace" /\ phase' = phase /\ prog' = prog /\ code' = code
        /\ blocks' = blocks /\ todo' = todo
    BY DEF Trace
  <1>2. code = prog /\ pending \subseteq TracePairs
    BY <1>1 DEF GraphInv, Typed, Coded
  <1>3. PICK p \in pending :
          LET caller == p[1]
              b == p[2]
              e == LastOf(b)
              on == ~IsEnder(e) \/ (e.op \in {"ret", "call"} /\ Conditional(e))
          IN  IF p \in visited
                THEN pending' = pending \ {p} /\ UNCHANGED <<visited, goes_to>>
                ELSE /\ visited' = visited \cup {p}
                     /\ pending' = (pending \ {p}) \cup (IF on THEN {caller} \X NextBlock(b) ELSE {})
                     /\ goes_to' = IF e.op = "ret" THEN goes_to \cup ({b} \X NextBlock(caller)) ELSE goes_to
    BY DEF Trace
  <1>4. PICK x \in Callers, b \in blocks \cup {Unknown} : p = <<x, b>>
    BY <1>2 DEF TracePairs
  <1>5. p[1] = x /\ p[2] = b /\ LastOf(b) = Was(b)
    BY <1>2, <1>4 DEF Ender, LastOf, Was
  <1>6. CASE p \in visited
    BY <1>1, <1>2, <1>3, <1>4, <1>6
  <1>7. CASE p \notin visited
    BY <1>1, <1>2, <1>3, <1>4, <1>5, <1>7
  <1> QED
    BY <1>6, <1>7

LEMMA TraceKeeps ==
  ASSUME GraphInv, Trace
  PROVE  GraphInv'
  <1>1. /\ phase = "trace" /\ phase' = phase /\ prog' = prog /\ code' = code
        /\ blocks' = blocks /\ todo' = todo /\ code = prog
    BY TraceAdds
  <1>2. Typed /\ Coded /\ Partitioned /\ OnEdges /\ JumpEdges /\ Tracing /\ BlocksOK
    BY TypedBlocks DEF GraphInv
  <1>3. /\ \A b : End(b)' = End(b) /\ NextBlock(b)' = NextBlock(b) /\ BlockOf(b)' = BlockOf(b)
        /\ \A l : LabelBlock(l)' = LabelBlock(l)
        /\ Partitioned' /\ EdgePairs' = EdgePairs /\ TracePairs' = TracePairs
    BY <1>1, <1>2, BlocksFixed
  <1> DEFINE E(b) == Was(b)
             GoingOn(b) == ~IsEnder(E(b)) \/ (E(b).op \in {"ret", "call"} /\ Conditional(E(b)))
  <1>4. PICK x \in Callers, b \in blocks \cup {Unknown} :
          /\ <<x, b>> \in pending
          /\ \/ /\ <<x, b>> \in visited
                /\ pending' = pending \ {<<x, b>>} /\ visited' = visited /\ goes_to' = goes_to
             \/ /\ <<x, b>> \notin visited
                /\ visited' = visited \cup {<<x, b>>}
                /\ pending' = (pending \ {<<x, b>>}) \cup (IF GoingOn(b) THEN {x} \X NextBlock(b) ELSE {})
                /\ goes_to' = IF E(b).op = "ret" THEN goes_to \cup ({b} \X NextBlock(x)) ELSE goes_to
    BY TraceAdds
  <1>0. \A c \in blocks : E(c) = prog[End(c)]
    <2>1. \A c \in blocks : c \in 1 .. Len(prog)
      BY <1>2, BlockPlaces
    <2> QED
      BY <2>1 DEF Was, Unknown
  <1>13. GoingOn(b) => b \in blocks
    BY DEF Was, Instr, IsEnder, Enders, Conditional
  <1> HIDE DEF E
  <1>14. \A c \in blocks :
           GoingOn(c) <=> ~IsEnder(prog[End(c)]) \/ (prog[End(c)].op \in {"ret", "call"} /\ Conditional(prog[End(c)]))
    BY <1>0
  <1> HIDE DEF GoingOn
  <1>5. x \in blocks /\ NextBlock(x) \subseteq blocks /\ (b \in blocks => NextBlock(b) \subseteq blocks)
    BY <1>2, NextBlockIs DEF Callers
  <1>6. pending \cup visited \subseteq pending' \cup visited' /\ goes_to \subseteq goes_to'
    BY <1>4
  <1>7. Typed'
    <2>1. goes_to \subseteq EdgePairs /\ pending \cup visited \subseteq TracePairs
      BY <1>2 DEF Typed
    <2>2. /\ {b} \X NextBlock(x) \subseteq EdgePairs
          /\ GoingOn(b) => {x} \X NextBlock(b) \subseteq TracePairs
      BY <1>5, <1>13 DEF EdgePairs, TracePairs
    <2>3. goes_to' \subseteq EdgePairs
      BY <1>4, <2>1, <2>2
    <2>4. pending' \cup visited' \subseteq TracePairs
      BY <1>4, <2>1, <2>2
    <2> QED
      BY <1>1, <1>2, <1>3, <2>3, <2>4 DEF Typed
  <1>8. Coded'
    BY <1>1, <1>2, ProgramFixed DEF Coded, JustTraced, Removed
  <1>9. OnEdges'
    BY <1>1, <1>2, <1>3, <1>6 DEF OnEdges
  <1>10. JumpEdges'
    BY <1>1, <1>2, <1>3, <1>6 DEF JumpEdges
  <1>11. Tracing'
    <2>1. \A i \in 1 .. Len(prog) :
            prog[i].op = "call" /\ prog[i].arg \in Defined(prog) =>
              <<BlockOf(i), LabelBlock(prog[i].arg)>> \in pending' \cup visited'
      BY <1>1, <1>2, <1>6 DEF Tracing
    <2>2. ASSUME NEW y \in blocks, NEW c \in blocks, <<y, c>> \in visited'
          PROVE  /\ GoingOn(c) => \A n \in NextBlock(c) : <<y, n>> \in pending' \cup visited'
                 /\ E(c).op = "ret" => \A n \in NextBlock(y) : <<c, n>> \in goes_to'
      <3>1. CASE <<y, c>> \in visited
        <4>1. /\ GoingOn(c) => \A n \in NextBlock(c) : <<y, n>> \in pending \cup visited
              /\ E(c).op = "ret" => \A n \in NextBlock(y) : <<c, n>> \in goes_to
          BY <1>0, <1>1, <1>2, <1>14, <3>1 DEF Tracing
        <4> QED
          BY <1>6, <4>1
      <3>2. CASE <<y, c>> \notin visited
        <4>1. y = x /\ c = b
          BY <1>4, <2>2, <3>2
        <4>2. /\ <<x, b>> \notin visited
              /\ pending' = (pending \ {<<x, b>>}) \cup (IF GoingOn(b) THEN {x} \X NextBlock(b) ELSE {})
              /\ goes_to' = IF E(b).op = "ret" THEN goes_to \cup ({b} \X NextBlock(x)) ELSE goes_to
          BY <1>4, <3>2, <4>1
        <4> QED
          BY <4>1, <4>2
      <3> QED
        BY <3>1, <3>2
    <2> QED
      BY <1>0, <1>1, <1>3, <1>14, <2>1, <2>2 DEF Tracing
  <1>12. RemovedDead'
    BY <1>1 DEF RemovedDead
  <1> QED
    BY <1>3, <1>7, <1>8, <1>9, <1>10, <1>11, <1>12 DEF GraphInv

LEMMA TracedKeeps ==
  ASSUME GraphInv, Traced
  PROVE  GraphInv'
  <1>1. /\ phase = "trace" /\ pending = {} /\ phase' = "thread" /\ todo' = JUMP_LABELS
        /\ prog' = prog /\ code' = code /\ blocks' = blocks /\ goes_to' = goes_to
        /\ pending' = pending /\ visited' = visited
    BY DEF Traced
  <1>2. Typed /\ Coded /\ Partitioned /\ OnEdges /\ JumpEdges /\ Tracing /\ code = prog /\ prog \in Programs
    BY <1>1 DEF GraphInv, Coded, Typed
  <1>3. /\ \A b : End(b)' = End(b) /\ NextBlock(b)' = NextBlock(b) /\ BlockOf(b)' = BlockOf(b)
        /\ \A l : LabelBlock(l)' = LabelBlock(l)
        /\ Partitioned' /\ EdgePairs' = EdgePairs /\ TracePairs' = TracePairs
    BY <1>1, <1>2, BlocksFixed
  <1>4. JUMP_LABELS' = JUMP_LABELS
    BY <1>1, ProgramFixed
  <1>5. Typed'
    BY <1>1, <1>2, <1>3, <1>4 DEF Typed
  <1>6. Coded'
    BY <1>1, <1>2, ProgramFixed DEF Coded, JustTraced, Removed
  <1>7. OnEdges'
    BY <1>1, <1>2, <1>3 DEF OnEdges
  <1>8. JumpEdges'
    BY <1>1, <1>2, <1>3 DEF JumpEdges
  <1>9. Tracing'
    BY <1>1, <1>2, <1>3 DEF Tracing
  <1>10. RemovedDead'
    BY <1>1 DEF RemovedDead
  <1> QED
    BY <1>3, <1>5, <1>6, <1>7, <1>8, <1>9, <1>10 DEF GraphInv
-----------------------------------------------------------------------------
(* The shortening of jumps.                                                 *)

\* No jump stands behind the label of a plain routine.
LEMMA PlainNotShortened ==
  ASSUME IsProgram(prog), PlainRoutines, NEW i \in 1 .. Len(prog),
         prog[i].op = "call", prog[i].arg \in Defined(prog)
  PROVE  prog[FirstBehind(prog[i].arg)].op # "jp"
  <1> SUFFICES ASSUME prog[FirstBehind(prog[i].arg)].op = "jp" PROVE FALSE
    OBVIOUS
  <1>1. PICK l : l = prog[i].arg
    OBVIOUS
  <1>2. PICK s, f : s = Position(prog, l) /\ f = FirstBehind(l)
    OBVIOUS
  <1> DEFINE R == {j \in DOMAIN prog : j > s /\ IsEnder(prog[j])
                                        /\ (prog[j].op = "jp" \/ ~Conditional(prog[j]))}
  <1>3. DOMAIN prog = 1 .. Len(prog) /\ Len(prog) \in Nat /\ s \in Nat
    BY <1>1, <1>2, ProgramIs, PositionIs
  <1>4. prog[Min(R)].op = "ret"
    BY <1>1, <1>2, <1>3 DEF PlainRoutines
  <1>5. /\ f \in 1 .. Len(prog) /\ f > s /\ f \in Nat
        /\ \A j \in Nat : j >= s /\ j < f => prog[j].op = "label"
    BY <1>1, <1>2, FirstBehindIs
  <1>6. f \in R
    BY <1>1, <1>2, <1>3, <1>5 DEF IsEnder, Enders
  <1>7. R \in SUBSET Nat
    BY <1>3
  <1>8. Min(R) \in R /\ \A k \in R : Min(R) <= k
    <2> HIDE DEF R
    <2> QED
      BY <1>6, <1>7, MinIs
  <1>9. PICK m \in R : m = Min(R) /\ m <= f
    BY <1>6, <1>8
  <1>10. m = f
    <2> SUFFICES ASSUME m < f PROVE FALSE
      BY <1>5, <1>7, <1>9
    <2>1. m \in Nat /\ m >= s /\ IsEnder(prog[m])
      BY <1>3, <1>7, <1>9
    <2>2. prog[m].op = "label"
      BY <1>5, <2>1
    <2> QED
      BY <2>1, <2>2 DEF IsEnder, Enders
  <1> QED
    BY <1>1, <1>2, <1>4, <1>9, <1>10

\* What a step of the shortening does: nothing, or the jumps of users to label
\* l go where the jump behind it goes.
Shortens(l, users) ==
  LET first == prog[FirstBehind(l)]
      ends == {End(b) : b \in users}
  IN  /\ l \in Defined(prog) /\ first.op = "jp"
      /\ users \subseteq blocks
      /\ \A b \in users : /\ code[End(b)].op \in {"jp", "call"} /\ code[End(b)].arg = l
                          /\ ~Conditional(first) \/ code[End(b)].cond = first.cond
      /\ code' = [i \in DOMAIN code |-> IF i \in ends THEN [code[i] EXCEPT !.arg = first.arg] ELSE code[i]]
      /\ goes_to' = (goes_to \ (users \X {LabelBlock(l)})) \cup (users \X {LabelBlock(first.arg)})

LEMMA ShortenDoes ==
  ASSUME Shorten
  PROVE  /\ phase = "thread" /\ phase' = phase /\ prog' = prog /\ blocks' = blocks
         /\ pending' = pending /\ visited' = visited
         /\ \E l \in todo : /\ todo' = todo \ {l}
                            /\ \/ code' = code /\ goes_to' = goes_to
                               \/ \E users : Shortens(l, users)
  <1>1. /\ phase = "thread" /\ phase' = phase /\ prog' = prog /\ blocks' = blocks
        /\ pending' = pending /\ visited' = visited
    BY DEF Shorten
  <1>2. PICK l \in todo :
          /\ todo' = todo \ {l}
          /\ IF l \in Defined(prog) /\ prog[FirstBehind(l)].op = "jp"
               THEN LET first == prog[FirstBehind(l)]
                        users == {b \in UsedBy(l) : ~Conditional(first) \/ Ender(b).cond = first.cond}
                        ends == {End(b) : b \in users}
                    IN  /\ code' = [i \in DOMAIN code |-> IF i \in ends THEN [code[i] EXCEPT !.arg = first.arg] ELSE code[i]]
                        /\ goes_to' = (goes_to \ (users \X {LabelBlock(l)})) \cup (users \X {LabelBlock(first.arg)})
               ELSE UNCHANGED <<code, goes_to>>
    BY DEF Shorten
  <1>3. CASE l \in Defined(prog) /\ prog[FirstBehind(l)].op = "jp"
    <2>1. PICK first : first = prog[FirstBehind(l)]
      OBVIOUS
    <2>2. PICK users : users = {b \in UsedBy(l) : ~Conditional(first) \/ Ender(b).cond = first.cond}
      OBVIOUS
    <2>3. /\ code' = [i \in DOMAIN code |-> IF i \in {End(b) : b \in users} THEN [code[i] EXCEPT !.arg = first.arg] ELSE code[i]]
          /\ goes_to' = (goes_to \ (users \X {LabelBlock(l)})) \cup (users \X {LabelBlock(first.arg)})
      BY <1>2, <1>3, <2>1, <2>2
    <2>4. users \subseteq blocks
      BY <2>2 DEF UsedBy
    <2>5. \A b \in users : /\ code[End(b)].op \in {"jp", "call"} /\ code[End(b)].arg = l
                           /\ ~Conditional(first) \/ code[End(b)].cond = first.cond
      BY <2>2 DEF UsedBy, Ender
    <2>6. Shortens(l, users)
      BY <1>3, <2>1, <2>3, <2>4, <2>5 DEF Shortens
    <2> QED
      BY <1>1, <1>2, <2>6
  <1>4. CASE ~ (l \in Defined(prog) /\ prog[FirstBehind(l)].op = "jp")
    BY <1>1, <1>2, <1>4
  <1> QED
    BY <1>3, <1>4

\* The jumps that are shortened still lead where they led.
LEMMA ShortensCode ==
  ASSUME Typed, Coded, SplitOK, phase = "thread", prog' = prog, NEW l \in JUMP_LABELS, NEW users, Shortens(l, users)
  PROVE  /\ code' \in Seq(Instruction) /\ Len(code') = Len(prog)
         /\ \A i \in 1 .. Len(prog) : Threads(prog, code', i)
         /\ \A i \in 1 .. Len(prog) : code'[i].op \in {"jp", "call"} => code'[i].arg \in JUMP_LABELS
         /\ PlainRoutines => \A i \in 1 .. Len(prog) : prog[i].op = "call" => code'[i].arg = prog[i].arg
         /\ \A i \in 1 .. Len(prog) :
              /\ code'[i].op = code[i].op
              /\ code[i].op \in {"jp", "call"} =>
                   code'[i].arg = IF BlockOf(i) \in users THEN prog[FirstBehind(l)].arg ELSE code[i].arg
  <1> DEFINE N == Len(prog)
             ends == {End(b) : b \in users}
  <1>1. /\ IsProgram(prog) /\ N \in Nat /\ DOMAIN prog = 1 .. N
        /\ BlocksOK /\ l \in Labels
        /\ \A i \in 1 .. N : prog[i].op \in {"jp", "call"} => prog[i].arg \in JUMP_LABELS /\ prog[i].arg \in Labels
    BY ProgramIs, JumpLabelsAre DEF SplitOK, BlocksOK
  <1>2. /\ code \in Seq(Instruction) /\ Len(code) = N /\ DOMAIN code = 1 .. N
        /\ \A i \in 1 .. N : code[i] \in Instruction /\ Threads(prog, code, i)
        /\ \A i \in 1 .. N : code[i].op \in {"jp", "call"} => code[i].arg \in JUMP_LABELS
    BY LenProperties DEF Coded
  <1>3. PICK first : first = prog[FirstBehind(l)]
    OBVIOUS
  <1>4. /\ l \in Defined(prog) /\ first.op = "jp" /\ users \subseteq blocks
        /\ \A b \in users : /\ code[End(b)].op \in {"jp", "call"} /\ code[End(b)].arg = l
                            /\ ~Conditional(first) \/ code[End(b)].cond = first.cond
        /\ code' = [i \in 1 .. N |-> IF i \in ends THEN [code[i] EXCEPT !.arg = first.arg] ELSE code[i]]
    BY <1>2, <1>3 DEF Shortens
  <1>5. first.arg \in JUMP_LABELS /\ first.arg \in Labels
    <2>1. FirstBehind(l) \in 1 .. N
      BY <1>1, <1>4, FirstBehindIs
    <2> QED
      BY <1>1, <1>3, <1>4, <2>1
  <1>6. ASSUME NEW i \in ends
        PROVE  /\ i \in 1 .. N /\ BlockOf(i) \in users /\ code[i].op \in {"jp", "call"} /\ code[i].arg = l
               /\ ~Conditional(first) \/ code[i].cond = first.cond
    <2>1. PICK b \in users : i = End(b)
      OBVIOUS
    <2>2. b \in blocks /\ i \in 1 .. N
      BY <1>1, <1>4, <2>1, EndIs
    <2>3. BlockOf(i) = b
      BY <1>1, <2>1, <2>2, BlockItself
    <2> QED
      BY <1>4, <2>1, <2>2, <2>3
  <1>7. \A i \in 1 .. N : code'[i] = IF i \in ends THEN [code[i] EXCEPT !.arg = first.arg] ELSE code[i]
    <2> HIDE DEF ends
    <2> QED
      BY <1>4
  <1>8. ASSUME NEW i \in 1 .. N
        PROVE  /\ code'[i] \in Instruction /\ code'[i].op = code[i].op /\ code'[i].cond = code[i].cond
               /\ code'[i].arg = IF i \in ends THEN first.arg ELSE code[i].arg
    <2>1. CASE i \in ends
      <3>1. code[i] \in Instruction /\ code'[i] = [code[i] EXCEPT !.arg = first.arg]
        BY <1>2, <1>7, <2>1
      <3> HIDE DEF ends
      <3> QED
        BY <1>5, <2>1, <3>1 DEF Instruction
    <2>2. CASE i \notin ends
      <3> HIDE DEF ends
      <3> QED
        BY <1>2, <1>7, <2>2
    <2> QED
      BY <2>1, <2>2
  <1>9. code' \in Seq(Instruction) /\ Len(code') = N
    <2>1. code' \in [1 .. N -> Instruction]
      BY <1>4, <1>8
    <2> HIDE DEF N
    <2> QED
      BY <1>1, <2>1
  <1>10. ASSUME NEW i \in 1 .. N PROVE Threads(prog, code', i)
    <2>1. CASE i \notin ends
      BY <1>2, <1>8, <2>1 DEF Threads
    <2>2. CASE i \in ends
      <3>1. /\ Threads(prog, code, i) /\ code'[i].op = code[i].op /\ code'[i].cond = code[i].cond
            /\ code'[i].arg = first.arg /\ code[i].op \in {"jp", "call"} /\ code[i].arg = l
            /\ ~Conditional(first) \/ code[i].cond = first.cond
        BY <1>2, <1>6, <1>8, <2>2
      <3>2. prog[i].op \in {"jp", "call"} /\ prog[i].arg \in Labels
        BY <1>1, <3>1 DEF Threads
      <3>3. ASSUME NEW z \in BOOLEAN, Holds(prog[i].cond, z) PROVE Leads(prog, prog[i].arg, first.arg, z)
        <4>1. Leads(prog, prog[i].arg, l, z) /\ prog[i].cond = code[i].cond
          BY <3>1, <3>2, <3>3 DEF Threads
        <4>2. Holds(first.cond, z)
          BY <3>1, <3>3, <4>1 DEF Conditional, Holds
        <4>3. Leads(prog, l, first.arg, z)
          BY <1>1, <1>3, <1>4, <4>2, LeadsBehind
        <4> QED
          BY <1>1, <3>2, <4>1, <4>3, LeadsOn
      <3> QED
        BY <1>5, <3>1, <3>2, <3>3 DEF Threads
    <2> QED
      BY <2>1, <2>2
  <1>11. \A i \in 1 .. N : code'[i].op \in {"jp", "call"} => code'[i].arg \in JUMP_LABELS
    BY <1>2, <1>5, <1>8
  <1>12. ASSUME PlainRoutines, NEW i \in 1 .. N, prog[i].op = "call" PROVE code'[i].arg = prog[i].arg
    <2>1. code[i].arg = prog[i].arg
      BY <1>12 DEF Coded
    <2>2. ASSUME i \in ends PROVE FALSE
      <3>1. prog[i].arg = l
        BY <1>6, <2>1, <2>2
      <3>2. prog[FirstBehind(prog[i].arg)].op # "jp"
        BY <1>1, <1>4, <1>12, <3>1, PlainNotShortened
      <3> QED
        BY <1>3, <1>4, <3>1, <3>2
    <2> QED
      BY <1>8, <2>1, <2>2
  <1>13. ASSUME NEW i \in 1 .. N, code[i].op \in {"jp", "call"}
         PROVE  code'[i].arg = IF BlockOf(i) \in users THEN first.arg ELSE code[i].arg
    <2>1. prog[i].op = code[i].op
      BY <1>2 DEF Threads
    <2>2. IsEnder(prog[i])
      BY <1>13, <2>1 DEF IsEnder, Enders
    <2>3. i = End(BlockOf(i))
      BY <2>2, EnderEnds
    <2>4. i \in ends <=> BlockOf(i) \in users
      BY <1>6, <2>3
    <2> QED
      BY <1>8, <2>4
  <1> QED
    BY <1>3, <1>8, <1>9, <1>10, <1>11, <1>12, <1>13
-----------------------------------------------------------------------------
LEMMA ShortenKeeps ==
  ASSUME GraphInv, Shorten
  PROVE  GraphInv'
  <1>1. /\ phase = "thread" /\ phase' = phase /\ prog' = prog /\ blocks' = blocks
        /\ pending' = pending /\ visited' = visited
    BY ShortenDoes
  <1>2. PICK l \in todo : /\ todo' = todo \ {l}
                          /\ \/ code' = code /\ goes_to' = goes_to
                             \/ \E users : Shortens(l, users)
    BY ShortenDoes
  <1>3. /\ Typed /\ Coded /\ Partitioned /\ OnEdges /\ JumpEdges /\ Tracing
        /\ BlocksOK /\ SplitOK /\ IsProgram(prog) /\ Len(prog) \in Nat
    BY <1>1, TypedBlocks, InvSplit, ProgramIs DEF GraphInv, SplitOK, BlocksOK
  <1>4. /\ \A b : End(b)' = End(b) /\ NextBlock(b)' = NextBlock(b) /\ BlockOf(b)' = BlockOf(b)
        /\ \A k : LabelBlock(k)' = LabelBlock(k)
        /\ Partitioned' /\ EdgePairs' = EdgePairs /\ TracePairs' = TracePairs
    BY <1>1, <1>3, BlocksFixed
  <1>5. /\ JUMP_LABELS' = JUMP_LABELS /\ (PlainRoutines' <=> PlainRoutines)
        /\ (NoJumpInto' <=> NoJumpInto)
    BY <1>1, ProgramFixed
  <1>6. l \in JUMP_LABELS /\ ~JustTraced'
    BY <1>1, <1>2, <1>3, <1>5 DEF Typed, JustTraced
  <1>7. RemovedDead'
    BY <1>1 DEF RemovedDead
  <1>8. CASE code' = code /\ goes_to' = goes_to
    <2>1. Typed'
      BY <1>1, <1>2, <1>3, <1>4, <1>5, <1>8 DEF Typed
    <2>2. Coded'
      BY <1>1, <1>3, <1>5, <1>6, <1>8 DEF Coded, Removed
    <2>3. OnEdges'
      BY <1>1, <1>3, <1>4, <1>5, <1>6, <1>8 DEF OnEdges
    <2>4. JumpEdges'
      BY <1>1, <1>3, <1>4, <1>8 DEF JumpEdges
    <2>5. Tracing'
      BY <1>1, <1>3, <1>4, <1>8 DEF Tracing
    <2> QED
      BY <1>4, <1>7, <2>1, <2>2, <2>3, <2>4, <2>5 DEF GraphInv
  <1>9. ASSUME NEW users, Shortens(l, users) PROVE GraphInv'
    <2>1. PICK first : first = prog[FirstBehind(l)]
      OBVIOUS
    <2>2. /\ l \in Defined(prog) /\ first.op = "jp" /\ users \subseteq blocks
          /\ \A b \in users : code[End(b)].op \in {"jp", "call"}
          /\ goes_to' = (goes_to \ (users \X {LabelBlock(l)})) \cup (users \X {LabelBlock(first.arg)})
      BY <1>9, <2>1 DEF Shortens
    <2>3. /\ code' \in Seq(Instruction) /\ Len(code') = Len(prog)
          /\ \A i \in 1 .. Len(prog) : Threads(prog, code', i)
          /\ \A i \in 1 .. Len(prog) : code'[i].op \in {"jp", "call"} => code'[i].arg \in JUMP_LABELS
          /\ PlainRoutines => \A i \in 1 .. Len(prog) : prog[i].op = "call" => code'[i].arg = prog[i].arg
          /\ \A i \in 1 .. Len(prog) :
               /\ code'[i].op = code[i].op
               /\ code[i].op \in {"jp", "call"} =>
                    code'[i].arg = IF BlockOf(i) \in users THEN first.arg ELSE code[i].arg
      BY <1>1, <1>3, <1>6, <1>9, <2>1, ShortensCode
    <2>4. \A i \in 1 .. Len(prog) : Threads(prog, code, i)
      BY <1>1, <1>3 DEF Coded
    <2>5. LabelBlock(l) \in blocks /\ LabelBlock(l) = Position(prog, l)
      BY <1>3, <1>6, <2>2, LabelBegins
    <2>6. Typed'
      <3>1. LabelBlock(first.arg) \in blocks \cup {Unknown}
        BY <1>3, LabelBlockIs
      <3>2. goes_to' \subseteq EdgePairs
        BY <1>3, <2>2, <3>1 DEF Typed, EdgePairs
      <3> QED
        BY <1>1, <1>2, <1>3, <1>4, <1>5, <3>2 DEF Typed
    <2>7. Coded'
      BY <1>1, <1>5, <1>6, <2>3 DEF Coded, Removed
    <2>8. OnEdges'
      <3> SUFFICES ASSUME NoJumpInto, NEW n \in blocks, n > 1, ~Hard(prog[n - 1])
                   PROVE  <<BlockOf(n - 1), n>> \in goes_to'
        BY <1>1, <1>4, <1>5, <1>6 DEF OnEdges
      <3>1. <<BlockOf(n - 1), n>> \in goes_to
        BY <1>3 DEF OnEdges
      <3>2. ASSUME BlockOf(n - 1) \in users, n = LabelBlock(l) PROVE FALSE
        <4>1. n \in Nat /\ n \in 1 .. Len(prog)
          BY <1>3, BlockPlaces
        <4>2. PICK i \in 1 .. Len(prog) : i = n - 1 /\ i + 1 = n
          BY <1>3, <4>1
        <4>3. i = End(BlockOf(i))
          BY <1>3, <4>2, LastOfBlock
        <4>4. prog[i].op \in {"jp", "call"}
          BY <2>2, <2>4, <3>2, <4>2, <4>3 DEF Threads
        <4>5. IsEnder(prog[i]) /\ Conditional(prog[i])
          BY <3>2, <4>2, <4>4 DEF IsEnder, Enders, Hard
        <4>6. prog[n].op = "label" /\ prog[n].arg = l
          BY <1>3, <2>2, <2>5, <3>2, PositionIs
        <4>7. i \in DOMAIN prog
          BY <1>3, ProgramIs
        <4>8. prog[FirstBehind(prog[i + 1].arg)].op # "jp"
          BY <4>2, <4>5, <4>6, <4>7 DEF NoJumpInto
        <4> QED
          BY <2>1, <2>2, <4>2, <4>6, <4>8
      <3> QED
        BY <2>2, <3>1, <3>2
    <2>9. JumpEdges'
      <3> SUFFICES ASSUME NEW i \in 1 .. Len(prog), code'[i].op \in {"jp", "call"}
                   PROVE  <<BlockOf(i), LabelBlock(code'[i].arg)>> \in goes_to'
        BY <1>1, <1>4 DEF JumpEdges
      <3>1. <<BlockOf(i), LabelBlock(code[i].arg)>> \in goes_to
        BY <1>1, <1>3, <2>3 DEF JumpEdges
      <3> QED
        BY <2>2, <2>3, <3>1
    <2>10. Tracing'
      <3>1. ASSUME NEW b \in blocks, NEW n, <<b, n>> \in goes_to, prog[End(b)].op = "ret"
            PROVE  <<b, n>> \in goes_to'
        <4>1. End(b) \in 1 .. Len(prog)
          BY <1>3, EndIs
        <4>2. b \notin users
          BY <2>2, <2>4, <3>1, <4>1 DEF Threads
        <4> QED
          BY <2>2, <3>1, <4>2
      <3> QED
        BY <1>1, <1>3, <1>4, <3>1 DEF Tracing
    <2> QED
      BY <1>4, <1>7, <2>6, <2>7, <2>8, <2>9, <2>10 DEF GraphInv
  <1> QED
    BY <1>2, <1>8, <1>9

LEMMA ShortenedKeeps ==
  ASSUME GraphInv, Shortened
  PROVE  GraphInv'
  <1>1. /\ phase = "thread" /\ todo = {} /\ phase' = "optimize" /\ todo' = blocks
        /\ prog' = prog /\ code' = code /\ blocks' = blocks /\ goes_to' = goes_to
        /\ pending' = pending /\ visited' = visited
    BY DEF Shortened
  <1>2. Typed /\ Coded /\ Partitioned /\ OnEdges /\ JumpEdges /\ Tracing
    BY DEF GraphInv
  <1>3. /\ \A b : End(b)' = End(b) /\ NextBlock(b)' = NextBlock(b) /\ BlockOf(b)' = BlockOf(b)
        /\ \A l : LabelBlock(l)' = LabelBlock(l)
        /\ Partitioned' /\ EdgePairs' = EdgePairs /\ TracePairs' = TracePairs
    BY <1>1, <1>2, BlocksFixed
  <1>4. /\ JUMP_LABELS' = JUMP_LABELS /\ (PlainRoutines' <=> PlainRoutines)
        /\ (NoJumpInto' <=> NoJumpInto) /\ ~JustTraced'
    BY <1>1, ProgramFixed DEF JustTraced
  <1>5. Typed'
    BY <1>1, <1>2, <1>3 DEF Typed
  <1>6. Coded'
    BY <1>1, <1>2, <1>4 DEF Coded
  <1>7. OnEdges'
    BY <1>1, <1>2, <1>3, <1>4 DEF OnEdges
  <1>8. JumpEdges'
    BY <1>1, <1>2, <1>3 DEF JumpEdges
  <1>9. Tracing'
    BY <1>1, <1>2, <1>3 DEF Tracing
  <1>10. RemovedDead'
    <2>1. \A i \in 1 .. Len(prog) : Threads(prog, code, i)
      BY <1>1, <1>2 DEF Coded
    <2>2. DOMAIN prog = 1 .. Len(prog)
      BY <1>2, ProgramsArePrograms, ProgramIs DEF Typed
    <2>3. ASSUME NEW i \in DOMAIN prog PROVE ~Removed(i)'
      BY <1>1, <2>1, <2>2 DEF Removed, Threads
    <2> QED
      BY <1>1, <2>3 DEF RemovedDead
  <1> QED
    BY <1>3, <1>5, <1>6, <1>7, <1>8, <1>9, <1>10 DEF GraphInv
-----------------------------------------------------------------------------
(* Who reads the register.                                                  *)

IsRounds(b, f) ==
  f = [n \in Nat |-> IF n = 0 THEN {}
                     ELSE LET found == f[n - 1] IN {c \in blocks \ {b} : NotUsed(c, c, found)}]
Rounds(b) == CHOOSE f : IsRounds(b, f)

LEMMA UsedByRounds ==
  \A b, i : is_used(b, i) <=> ~NotUsed(b, i, Rounds(b)[Cardinality(blocks)])
  BY DEF is_used, Rounds, IsRounds

LEMMA RoundsAre ==
  ASSUME NEW b
  PROVE  /\ Rounds(b) \in [Nat -> SUBSET blocks] /\ Rounds(b)[0] = {}
         /\ \A n \in Nat : Rounds(b)[n + 1] = {c \in blocks \ {b} : NotUsed(c, c, Rounds(b)[n])}
  <1> DEFINE G(X) == {c \in blocks \ {b} : NotUsed(c, c, X)}
  <1>1. PICK F : F = [X \in SUBSET blocks |-> G(X)]
    OBVIOUS
  <1>2. F \in [SUBSET blocks -> SUBSET blocks] /\ {} \in SUBSET blocks
    BY <1>1
  <1>3. PICK x \in [Nat -> SUBSET blocks] : Iterates(F, {}, x)
    BY <1>2, IteratesExist
  <1>4. x[0] = {} /\ \A n \in Nat : x[n + 1] = G(x[n])
    BY <1>1, <1>3 DEF Iterates
  <1>5. IsRounds(b, x)
    <2>1. ASSUME NEW n \in Nat
          PROVE  x[n] = IF n = 0 THEN {} ELSE LET found == x[n - 1] IN {c \in blocks \ {b} : NotUsed(c, c, found)}
      <3>1. CASE n = 0
        BY <3>1, <1>4
      <3>2. CASE n # 0
        <4>1. n - 1 \in Nat /\ (n - 1) + 1 = n
          BY <3>2
        <4>2. x[n] = G(x[n - 1])
          BY <4>1, <1>4
        <4> QED
          BY <3>2, <4>2
      <3> QED
        BY <3>1, <3>2
    <2> QED
      BY <1>3, <2>1 DEF IsRounds
  <1>6. ASSUME NEW f, IsRounds(b, f)
        PROVE  f \in [Nat -> SUBSET blocks] /\ f[0] = {} /\ \A n \in Nat : f[n + 1] = G(f[n])
    <2>1. f = [n \in Nat |-> f[n]] /\ f[0] = {}
      BY <1>6 DEF IsRounds
    <2>2. ASSUME NEW n \in Nat PROVE f[n + 1] = G(f[n])
      <3>1. n + 1 \in Nat /\ n + 1 # 0 /\ (n + 1) - 1 = n
        OBVIOUS
      <3>2. f[n + 1] = LET found == f[(n + 1) - 1] IN {c \in blocks \ {b} : NotUsed(c, c, found)}
        BY <1>6, <3>1 DEF IsRounds
      <3> QED
        BY <3>1, <3>2
    <2>3. ASSUME NEW n \in Nat PROVE f[n] \in SUBSET blocks
      <3>1. CASE n = 0
        BY <2>1, <3>1
      <3>2. CASE n # 0
        <4>1. n - 1 \in Nat /\ (n - 1) + 1 = n
          BY <3>2
        <4>2. f[n] = G(f[n - 1])
          BY <2>2, <4>1
        <4> QED
          BY <4>2
      <3> QED
        BY <3>1, <3>2
    <2> QED
      BY <2>1, <2>2, <2>3
  <1>7. IsRounds(b, Rounds(b))
    BY <1>5 DEF Rounds
  <1> QED
    BY <1>6, <1>7

\* The more blocks are known not to read the register, the more are found.
LEMMA NotUsedMore ==
  ASSUME NEW c, NEW i, NEW X, NEW Y, X \subseteq Y, NotUsed(c, i, X)
  PROVE  NotUsed(c, i, Y)
  BY DEF NotUsed

\* No round goes back on what it found.
LEMMA RoundsHold ==
  ASSUME NEW b, NEW n \in Nat, NEW B, B = Rounds(b)[n]
  PROVE  B \subseteq blocks /\ \A c \in B : NotUsed(c, c, B)
  <1>1. /\ Rounds(b) \in [Nat -> SUBSET blocks] /\ Rounds(b)[0] = {}
        /\ \A k \in Nat : Rounds(b)[k + 1] = {c \in blocks \ {b} : NotUsed(c, c, Rounds(b)[k])}
    BY RoundsAre
  <1> DEFINE X == {k \in Nat : Rounds(b)[k] \subseteq Rounds(b)[k + 1]}
  <1>2. 0 \in X
    BY <1>1
  <1>3. ASSUME NEW k \in Nat, k \in X PROVE k + 1 \in X
    <2>1. ASSUME NEW c \in Rounds(b)[k + 1] PROVE c \in Rounds(b)[(k + 1) + 1]
      <3>1. c \in blocks \ {b} /\ NotUsed(c, c, Rounds(b)[k])
        BY <1>1, <2>1
      <3>2. NotUsed(c, c, Rounds(b)[k + 1])
        BY <1>3, <3>1, NotUsedMore
      <3>3. k + 1 \in Nat
        OBVIOUS
      <3> QED
        BY <1>1, <3>1, <3>2, <3>3
    <2> QED
      BY <2>1
  <1>4. Nat \subseteq X
    <2> HIDE DEF X
    <2> QED
      BY <1>2, <1>3, Induction
  <1>5. ASSUME NEW c \in B PROVE NotUsed(c, c, B)
    <2>1. c \in Rounds(b)[n + 1]
      BY <1>4, <1>5
    <2> QED
      BY <1>1, <2>1
  <1>6. B \subseteq blocks
    BY <1>1
  <1> QED
    BY <1>5, <1>6

\* What no round found a reader of is dead.
LEMMA NotUsedDead ==
  ASSUME BlocksOK, NEW B, B \subseteq blocks, \A c \in B : NotUsed(c, c, B),
         NEW A, A = {i \in DOMAIN prog : NotUsed(BlockOf(i), i, B)}
  PROVE  /\ DeadSet(A)
         /\ \A b \in blocks, i \in DOMAIN prog :
              BlockOf(i) = b /\ NotUsed(b, i + 1, B) => Followers(i) \subseteq A
  <1>1. DOMAIN prog = 1 .. Len(prog) /\ Len(prog) \in Nat
    BY ProgramIs DEF BlocksOK
  <1>2. B \subseteq A
    <2> SUFFICES ASSUME NEW c \in B PROVE c \in A
      OBVIOUS
    <2>1. c \in DOMAIN prog /\ BlockOf(c) = c
      BY BlockItself DEF BlocksOK
    <2> QED
      BY <2>1
  <1>3. ASSUME NEW b \in blocks, NEW i \in DOMAIN prog, BlockOf(i) = b, NotUsed(b, i + 1, B)
        PROVE  Followers(i) \subseteq A
    <2>1. i \in 1 .. Len(prog) /\ i \in Nat /\ End(b) \in Nat
      BY <1>1, EndIs
    <2>2. CASE i = End(b)
      <3>1. (i + 1) .. End(b) = {}
        BY <2>1, <2>2
      <3>2. GoesTo(b) \subseteq B
        BY <1>3, <3>1 DEF NotUsed
      <3> QED
        BY <1>2, <1>3, <2>2, <3>2 DEF Followers
    <2>3. CASE i # End(b)
      <3>1. i + 1 \in 1 .. Len(prog) /\ BlockOf(i + 1) = b
        BY <1>3, <2>1, <2>3, LastOfBlock
      <3>2. i + 1 \in A
        BY <1>1, <1>3, <3>1
      <3> QED
        BY <1>3, <2>3, <3>2 DEF Followers
    <2> QED
      BY <2>2, <2>3
  <1>4. ASSUME NEW i \in A
        PROVE  code[i].op \notin {"use", "asm"} /\ (code[i].op # "set" => Followers(i) \subseteq A)
    <2>1. i \in DOMAIN prog /\ i \in 1 .. Len(prog) /\ i \in Nat
      BY <1>1
    <2>2. PICK b \in blocks : b = BlockOf(i)
      BY <2>1, BlockOfIs
    <2>3. NotUsed(b, i, B) /\ i <= End(b) /\ End(b) \in Nat
      BY <2>1, <2>2, InBlock, EndIs
    <2> DEFINE mine(k) == {j \in k .. End(b) : code[j].op \in {"use", "set", "asm"}}
    <2>4. CASE code[i].op \in {"use", "set", "asm"}
      <3>1. i \in mine(i) /\ mine(i) \in SUBSET Nat /\ \A j \in mine(i) : i <= j
        BY <2>1, <2>3, <2>4
      <3>2. Min(mine(i)) \in mine(i) /\ \A j \in mine(i) : Min(mine(i)) <= j
        <4> HIDE DEF mine
        <4> QED
          BY <3>1, MinIs
      <3>3. PICK m \in mine(i) : m = Min(mine(i)) /\ m <= i /\ i <= m
        BY <3>1, <3>2
      <3>4. m \in Nat
        BY <3>1, <3>3
      <3>5. Min(mine(i)) = i
        BY <2>1, <3>3, <3>4
      <3>6. code[Min(mine(i))].op = "set"
        BY <2>3, <3>1 DEF NotUsed
      <3> QED
        BY <3>5, <3>6
    <2>5. CASE code[i].op \notin {"use", "set", "asm"}
      <3>1. mine(i) = mine(i + 1)
        BY <2>1, <2>3, <2>5
      <3>2. NotUsed(b, i + 1, B)
        BY <2>3, <3>1 DEF NotUsed
      <3>3. Followers(i) \subseteq A
        BY <1>3, <2>1, <2>2, <3>2
      <3> QED
        BY <2>5, <3>3
    <2> QED
      BY <2>4, <2>5
  <1>5. DeadSet(A)
    BY <1>4 DEF DeadSet
  <1> QED
    BY <1>3, <1>5

LEMMA DeadPlacesDead ==
  DeadPlaces \subseteq DOMAIN prog /\ DeadSet(DeadPlaces)
  <1>1. DeadPlaces \subseteq DOMAIN prog
    BY DEF DeadPlaces
  <1>2. ASSUME NEW i \in DeadPlaces
        PROVE  code[i].op \notin {"use", "asm"} /\ (code[i].op # "set" => Followers(i) \subseteq DeadPlaces)
    <2>1. PICK A \in SUBSET (DOMAIN prog) : DeadSet(A) /\ i \in A
      BY <1>2 DEF DeadPlaces
    <2>2. A \subseteq DeadPlaces
      BY <2>1 DEF DeadPlaces
    <2>3. code[i].op \notin {"use", "asm"} /\ (code[i].op # "set" => Followers(i) \subseteq A)
      BY <2>1 DEF DeadSet
    <2> QED
      BY <2>2, <2>3
  <1> QED
    BY <1>1, <1>2 DEF DeadSet
-----------------------------------------------------------------------------
(* The removal of loads.                                                    *)

\* The load that is removed: nobody reads the register behind it.
LEMMA RemoveLoadDoes ==
  ASSUME GraphInv, RemoveLoad
  PROVE  /\ phase = "optimize" /\ phase' = phase /\ prog' = prog /\ blocks' = blocks
         /\ goes_to' = goes_to /\ pending' = pending /\ visited' = visited /\ todo' = todo
         /\ \E b \in blocks, r \in 1 .. Len(prog) :
              /\ BlockOf(r) = b /\ code[r].op = "set" /\ ~is_used(b, r + 1)
              /\ code' = [code EXCEPT ![r] = Instr("nop", None, None)]
  <1>1. /\ phase = "optimize" /\ phase' = phase /\ prog' = prog /\ blocks' = blocks
        /\ goes_to' = goes_to /\ pending' = pending /\ visited' = visited /\ todo' = todo
        /\ todo # {} /\ Removable(Min(todo)) # {}
    BY DEF RemoveLoad
  <1>2. Typed /\ BlocksOK /\ todo \subseteq blocks
    BY <1>1, TypedBlocks DEF GraphInv, Typed
  <1>3. todo \in SUBSET Nat /\ Len(prog) \in Nat
    BY <1>2, BlockPlaces, ProgramIs DEF BlocksOK
  <1>4. Min(todo) \in todo
    BY <1>1, <1>3, MinIs
  <1>5. PICK b \in blocks : b = Min(todo)
    BY <1>2, <1>4
  <1>6. b \in Nat /\ b \in 1 .. Len(prog) /\ End(b) \in Nat /\ End(b) \in 1 .. Len(prog)
    BY <1>2, BlockPlaces, EndIs
  <1>7. Removable(b) \in SUBSET Nat
    BY <1>6 DEF Removable
  <1>8. Min(Removable(b)) \in Removable(b)
    BY <1>1, <1>5, <1>7, MinIs
  <1>9. PICK r : r = Min(Removable(b)) /\ r \in b .. End(b) /\ code[r].op = "set" /\ ~is_used(b, r + 1)
    BY <1>8 DEF Removable
  <1>10. r \in 1 .. Len(prog) /\ b <= r /\ r <= End(b)
    BY <1>3, <1>6, <1>9
  <1>11. BlockOf(r) = b
    BY <1>2, <1>10, InBlock
  <1>12. code' = [code EXCEPT ![r] = Instr("nop", None, None)]
    BY <1>5, <1>9 DEF RemoveLoad
  <1> QED
    BY <1>1, <1>9, <1>10, <1>11, <1>12

LEMMA RemoveLoadKeeps ==
  ASSUME GraphInv, RemoveLoad
  PROVE  GraphInv'
  <1>1. /\ phase = "optimize" /\ phase' = phase /\ prog' = prog /\ blocks' = blocks
        /\ goes_to' = goes_to /\ pending' = pending /\ visited' = visited /\ todo' = todo
    BY RemoveLoadDoes
  <1>2. PICK b \in blocks, r \in 1 .. Len(prog) :
          /\ BlockOf(r) = b /\ code[r].op = "set" /\ ~is_used(b, r + 1)
          /\ code' = [code EXCEPT ![r] = Instr("nop", None, None)]
    BY RemoveLoadDoes
  <1>3. /\ Typed /\ Coded /\ Partitioned /\ OnEdges /\ JumpEdges /\ Tracing /\ RemovedDead
        /\ BlocksOK /\ IsProgram(prog) /\ Len(prog) \in Nat /\ DOMAIN prog = 1 .. Len(prog)
    BY TypedBlocks, ProgramIs DEF GraphInv, BlocksOK
  <1>4. /\ \A c : End(c)' = End(c) /\ NextBlock(c)' = NextBlock(c) /\ BlockOf(c)' = BlockOf(c)
        /\ \A l : LabelBlock(l)' = LabelBlock(l)
        /\ Partitioned' /\ EdgePairs' = EdgePairs /\ TracePairs' = TracePairs
    BY <1>1, <1>3, BlocksFixed
  <1>5. /\ JUMP_LABELS' = JUMP_LABELS /\ (PlainRoutines' <=> PlainRoutines)
        /\ (NoJumpInto' <=> NoJumpInto) /\ ~JustTraced' /\ ~JustTraced
    BY <1>1, ProgramFixed DEF JustTraced
  <1>6. code \in Seq(Instruction) /\ Len(code) = Len(prog) /\ DOMAIN code = 1 .. Len(prog)
    BY <1>3, LenProperties DEF Coded
  <1>7. \A i \in 1 .. Len(prog) : code'[i] = IF i = r THEN Instr("nop", None, None) ELSE code[i]
    BY <1>2, <1>6
  <1>8. code'[r].op = "nop" /\ prog[r].op = "set"
    <2>1. code'[r].op = "nop"
      BY <1>7 DEF Instr
    <2>2. prog[r].op = "set"
      BY <1>2, <1>3 DEF Coded, Threads, Removed
    <2> QED
      BY <2>1, <2>2
  <1>9. Typed'
    BY <1>1, <1>3, <1>4, <1>5 DEF Typed
  <1>10. Coded'
    <2>1. code' \in Seq(Instruction) /\ Len(code') = Len(prog)
      <3>1. Instr("nop", None, None) \in Instruction
        BY DEF Instr, Instruction, Operations
      <3>2. code' \in [1 .. Len(prog) -> Instruction]
        BY <1>2, <1>6, <3>1
      <3> QED
        BY <1>3, <3>2
    <2>2. \A i \in 1 .. Len(prog) : Threads(prog, code', i) \/ Removed(i)'
      <3> SUFFICES ASSUME NEW i \in 1 .. Len(prog) PROVE Threads(prog, code', i) \/ Removed(i)'
        OBVIOUS
      <3>1. CASE i = r
        BY <1>1, <1>8, <3>1 DEF Removed
      <3>2. CASE i # r
        <4>1. code'[i] = code[i] /\ (Threads(prog, code, i) \/ Removed(i))
          BY <1>3, <1>7, <3>2 DEF Coded
        <4> QED
          BY <1>1, <4>1 DEF Threads, Removed
      <3> QED
        BY <3>1, <3>2
    <2>3. \A i \in 1 .. Len(prog) : code'[i].op \in {"jp", "call"} => code'[i].arg \in JUMP_LABELS
      BY <1>3, <1>7, <1>8 DEF Coded
    <2>4. PlainRoutines => \A i \in 1 .. Len(prog) : prog[i].op = "call" => code'[i].arg = prog[i].arg
      BY <1>3, <1>7, <1>8 DEF Coded
    <2> QED
      BY <1>1, <1>5, <2>1, <2>2, <2>3, <2>4 DEF Coded
  <1>11. OnEdges'
    BY <1>1, <1>3, <1>4, <1>5 DEF OnEdges
  <1>12. JumpEdges'
    <2>1. \A i \in 1 .. Len(prog) : code'[i].op \in {"jp", "call"} => code'[i] = code[i]
      BY <1>7, <1>8
    <2> QED
      BY <1>1, <1>3, <1>4, <2>1 DEF JumpEdges
  <1>13. Tracing'
    BY <1>1, <1>3, <1>4 DEF Tracing
  <1>14. RemovedDead'
    <2>1. PICK B : B = Rounds(b)[Cardinality(blocks)] /\ NotUsed(b, r + 1, B)
      BY <1>2, UsedByRounds
    <2>2. Cardinality(blocks) \in Nat
      <3>1. IsFiniteSet(1 .. Len(prog))
        BY <1>3, FS_Interval
      <3>2. IsFiniteSet(blocks)
        BY <1>3, <3>1, FS_Subset DEF BlocksOK
      <3> QED
        BY <3>2, FS_CardinalityType
    <2>3. B \subseteq blocks /\ \A c \in B : NotUsed(c, c, B)
      BY <2>1, <2>2, RoundsHold
    <2>4. PICK A : A = {i \in DOMAIN prog : NotUsed(BlockOf(i), i, B)}
      OBVIOUS
    <2>5. DeadSet(A) /\ Followers(r) \subseteq A /\ A \subseteq DOMAIN prog
      BY <1>2, <1>3, <2>1, <2>3, <2>4, NotUsedDead
    <2>6. \A i : Followers(i)' = Followers(i)
      BY <1>1, <1>4 DEF Followers, GoesTo
    <2>7. PICK D : D = DeadPlaces \cup A
      OBVIOUS
    <2>8. DeadSet(D)'
      <3> SUFFICES ASSUME NEW i \in D
                   PROVE  code'[i].op \notin {"use", "asm"} /\ (code'[i].op # "set" => Followers(i) \subseteq D)
        BY <2>6 DEF DeadSet
      <3>1. i \in 1 .. Len(prog)
        BY <1>3, <2>5, <2>7, DeadPlacesDead
      <3>2. CASE i = r
        BY <1>8, <2>5, <2>7, <3>2
      <3>3. CASE i # r
        <4>1. code'[i] = code[i]
          BY <1>7, <3>1, <3>3
        <4>2. CASE i \in A
          BY <2>5, <2>7, <4>1, <4>2 DEF DeadSet
        <4>3. CASE i \in DeadPlaces
          BY <2>7, <4>1, <4>3, DeadPlacesDead DEF DeadSet
        <4> QED
          BY <2>7, <4>2, <4>3
      <3> QED
        BY <3>2, <3>3
    <2>9. D \in SUBSET (DOMAIN prog')
      BY <1>1, <2>5, <2>7, DeadPlacesDead
    <2>10. D \subseteq DeadPlaces'
      BY <2>8, <2>9 DEF DeadPlaces
    <2>11. ASSUME NEW i \in DOMAIN prog, Removed(i)' PROVE Followers(i) \subseteq D
      <3>1. CASE i = r
        BY <2>5, <2>7, <3>1
      <3>2. CASE i # r
        <4>1. Removed(i)
          BY <1>1, <1>3, <1>7, <2>11, <3>2 DEF Removed
        <4>2. Followers(i) \subseteq DeadPlaces
          BY <1>1, <1>3, <4>1 DEF RemovedDead
        <4> QED
          BY <2>7, <4>2
      <3> QED
        BY <3>1, <3>2
    <2> QED
      BY <1>1, <2>6, <2>10, <2>11 DEF RemovedDead
  <1> QED
    BY <1>4, <1>9, <1>10, <1>11, <1>12, <1>13, <1>14 DEF GraphInv

\* A step after which the graph and the code are as they were.
LEMMA GraphStill ==
  ASSUME GraphInv, phase' = phase, prog' = prog, code' = code, blocks' = blocks, goes_to' = goes_to,
         pending' = pending, visited' = visited,
         todo' = todo \/ (phase = "optimize" /\ todo' \subseteq todo)
  PROVE  GraphInv'
  <1>1. Typed /\ Coded /\ Partitioned /\ OnEdges /\ JumpEdges /\ Tracing /\ RemovedDead
    BY DEF GraphInv
  <1>2. /\ \A c : End(c)' = End(c) /\ NextBlock(c)' = NextBlock(c) /\ BlockOf(c)' = BlockOf(c)
        /\ \A l : LabelBlock(l)' = LabelBlock(l)
        /\ Partitioned' /\ EdgePairs' = EdgePairs /\ TracePairs' = TracePairs
    BY <1>1, BlocksFixed
  <1>3. /\ JUMP_LABELS' = JUMP_LABELS /\ (PlainRoutines' <=> PlainRoutines)
        /\ (NoJumpInto' <=> NoJumpInto)
    BY ProgramFixed
  <1>4. JustTraced' <=> JustTraced
    BY <1>3 DEF JustTraced
  <1>5. Typed'
    BY <1>1, <1>2, <1>3 DEF Typed
  <1>6. Coded'
    BY <1>1, <1>3, <1>4 DEF Coded, Removed
  <1>7. OnEdges'
    BY <1>1, <1>2, <1>3, <1>4 DEF OnEdges
  <1>8. JumpEdges'
    BY <1>1, <1>2 DEF JumpEdges
  <1>9. Tracing'
    BY <1>1, <1>2 DEF Tracing
  <1>10. RemovedDead'
    <2>1. \A i : Followers(i)' = Followers(i)
      BY <1>2 DEF Followers, GoesTo
    <2>2. \A A : DeadSet(A)' <=> DeadSet(A)
      BY <2>1 DEF DeadSet
    <2>3. DeadPlaces' = DeadPlaces
      BY <2>2 DEF DeadPlaces
    <2> QED
      BY <1>1, <2>1, <2>3 DEF RemovedDead, Removed
  <1> QED
    BY <1>2, <1>5, <1>6, <1>7, <1>8, <1>9, <1>10 DEF GraphInv

LEMMA BlockDoneKeeps ==
  ASSUME GraphInv, BlockDone
  PROVE  GraphInv'
  <1>1. /\ phase = "optimize" /\ phase' = phase /\ prog' = prog /\ code' = code /\ blocks' = blocks
        /\ goes_to' = goes_to /\ pending' = pending /\ visited' = visited /\ todo' \subseteq todo
    BY DEF BlockDone
  <1> QED
    BY <1>1, GraphStill

LEMMA GraphStep ==
  ASSUME GraphInv, [Next]_vars
  PROVE  GraphInv'
  <1>1. CASE split_block
    BY <1>1, SplitKeeps
  <1>2. CASE AnnotateJumps
    BY <1>2, AnnotateKeeps
  <1>3. CASE Trace
    BY <1>3, TraceKeeps
  <1>4. CASE Traced
    BY <1>4, TracedKeeps
  <1>5. CASE Shorten
    BY <1>5, ShortenKeeps
  <1>6. CASE Shortened
    BY <1>6, ShortenedKeeps
  <1>7. CASE RemoveLoad
    BY <1>7, RemoveLoadKeeps
  <1>8. CASE BlockDone
    BY <1>8, BlockDoneKeeps
  <1>9. CASE UNCHANGED vars
    BY <1>9, GraphStill DEF vars
  <1> QED
    BY <1>1, <1>2, <1>3, <1>4, <1>5, <1>6, <1>7, <1>8, <1>9 DEF Next

\* In every state of the optimizer its invariant holds.
THEOREM GraphInvariant == Spec => []GraphInv
  <1>1. Init => GraphInv
    BY GraphInit
  <1>2. GraphInv /\ [Next]_vars => GraphInv'
    BY GraphStep
  <1> QED
    BY <1>1, <1>2, PTL DEF Spec

LEMMA GraphTypes ==
  ASSUME GraphInv
  PROVE  TypeOK
  BY DEF GraphInv, Typed, Coded, TypeOK, EdgePairs, TracePairs

LEMMA GraphAlike ==
  ASSUME GraphInv
  PROVE  JumpsAlike
  <1> SUFFICES ASSUME phase = "thread" PROVE JumpsAlike
    BY DEF JumpsAlike
  <1>1. IsProgram(prog) /\ Coded
    BY ProgramsArePrograms DEF GraphInv, Typed
  <1>2. Threaded(prog, code)
    BY <1>1 DEF Coded, Threaded
  <1>3. ASSUME NEW i \in DOMAIN prog, NEW z \in BOOLEAN
        PROVE  /\ SettledAt(code, i, z) = SettledAt(prog, i, z)
               /\ prog[i].op = "call" /\ Holds(prog[i].cond, z) =>
                    SettledTo(code, code[i].arg, z) = SettledTo(prog, prog[i].arg, z)
    BY <1>1, <1>2, ThreadedAt, ThreadedTo
  <1> QED
    BY <1>3 DEF JumpsAlike

\* The edges join blocks of the program and the dummy block of undefined labels,
\* and every routine traced is that of a block which ends in a call.
THEOREM OptimizerTypes == Spec => []TypeOK
  BY GraphInvariant, GraphTypes, PTL

\* No shortening of jumps changes where the program goes.
THEOREM OptimizerJumpsAlike == Spec => []JumpsAlike
  BY GraphInvariant, GraphAlike, PTL
-----------------------------------------------------------------------------
(* The steps of the machine.                                                *)

LEMMA FrontIs ==
  ASSUME NEW q \in Seq(Nat), q # <<>>
  PROVE  /\ Front(q) \in Seq(Nat) /\ Len(q) \in Nat /\ Len(q) > 0 /\ Len(Front(q)) = Len(q) - 1
         /\ \A k \in 1 .. Len(q) - 1 : Front(q)[k] = q[k]
         /\ Last(q) \in Nat /\ Last(q) = q[Len(q)]
  <1>1. Len(q) \in Nat /\ Len(q) > 0
    BY EmptySeq
  <1>2. PICK n \in Int : n = Len(q) - 1
    BY <1>1
  <1>3. \A i \in 1 .. n : q[i] \in Nat
    BY <1>1, <1>2, ElementOfSeq
  <1>4. /\ SubSeq(q, 1, n) \in Seq(Nat)
        /\ Len(SubSeq(q, 1, n)) = IF 1 <= n THEN n - 1 + 1 ELSE 0
        /\ \A i \in 1 .. n - 1 + 1 : SubSeq(q, 1, n)[i] = q[1 + i - 1]
    <2>1. 1 \in Int
      OBVIOUS
    <2> QED
      BY <1>3, <2>1, SubSeqProperties
  <1>5. Front(q) = SubSeq(q, 1, n)
    BY <1>2 DEF Front
  <1>6. Len(Front(q)) = Len(q) - 1 /\ Front(q) \in Seq(Nat)
    BY <1>1, <1>2, <1>4, <1>5
  <1>7. ASSUME NEW k \in 1 .. n PROVE Front(q)[k] = q[k]
    <2>1. k \in 1 .. n - 1 + 1 /\ 1 + k - 1 = k
      BY <1>2
    <2> QED
      BY <1>4, <1>5, <2>1
  <1>8. q[Len(q)] \in Nat
    <2>1. Len(q) \in 1 .. Len(q)
      BY <1>1
    <2> QED
      BY <2>1, ElementOfSeq
  <1> QED
    BY <1>1, <1>2, <1>6, <1>7, <1>8 DEF Last

\* Going on to the next place, a jump, a call and a return.
GoesOn(c, s, t) ==
  /\ ~ (IsEnder(c[s.pc]) /\ Holds(c[s.pc].cond, s.z))
  /\ t.pc = s.pc + 1 /\ t.out = None /\ t.stack = s.stack
  /\ t.v = IF c[s.pc].op \in {"set", "asm"} THEN s.pc ELSE s.v
  /\ t.z \in BOOLEAN /\ (t.z = s.z \/ c[s.pc].op \in {"use", "asm"})
Jumps(c, s, t) ==
  /\ c[s.pc].op = "jp" /\ Holds(c[s.pc].cond, s.z)
  /\ t = To(c, c[s.pc].arg, s.z, s.stack, s.v)
Calls(c, s, t) ==
  /\ c[s.pc].op = "call" /\ Holds(c[s.pc].cond, s.z)
  /\ t = To(c, c[s.pc].arg, s.z, Append(s.stack, s.pc + 1), s.v)
Returns(s, z, v, t) ==
  /\ s.stack # <<>>
  /\ t.pc = Last(s.stack) /\ t.out = None /\ t.z = z /\ t.stack = Front(s.stack) /\ t.v = v

LEMMA BackIs ==
  ASSUME NEW s \in Machine, NEW z \in BOOLEAN, NEW v \in Nat, NEW t \in Back(s, z, v)
  PROVE  t \in Machine /\ Returns(s, z, v, t)
  <1>1. s.stack # <<>> /\ t = [pc |-> Last(s.stack), out |-> None, z |-> z, stack |-> Front(s.stack), v |-> v]
    BY DEF Back, At
  <1>2. s.stack \in Seq(Nat)
    BY DEF Machine
  <1>3. Last(s.stack) \in Nat /\ Front(s.stack) \in Seq(Nat)
    BY <1>1, <1>2, FrontIs
  <1>4. t \in Machine
    BY <1>1, <1>3 DEF Machine
  <1> QED
    BY <1>1, <1>4 DEF Returns

LEMMA OnIs ==
  ASSUME NEW s \in Machine, s.out = None, NEW z \in BOOLEAN, NEW v \in Nat, NEW t \in On(s, z, v)
  PROVE  t \in Machine /\ t.pc = s.pc + 1 /\ t.out = None /\ t.stack = s.stack /\ t.z = z /\ t.v = v
  <1>1. t = [s EXCEPT !.pc = s.pc + 1, !.z = z, !.v = v]
    BY DEF On
  <1>2. s.pc \in Nat /\ s.pc + 1 \in Nat
    BY DEF Machine
  <1> QED
    BY <1>1, <1>2 DEF Machine

LEMMA StepsAre ==
  ASSUME NEW c, NEW s \in Machine, s.out = None, NEW t \in Steps(c, s)
  PROVE  \/ t \in Machine /\ GoesOn(c, s, t)
         \/ Jumps(c, s, t)
         \/ Calls(c, s, t)
         \/ t \in Machine /\ c[s.pc].op = "ret" /\ Holds(c[s.pc].cond, s.z) /\ Returns(s, s.z, s.v, t)
  <1>1. PICK i : i = c[s.pc]
    OBVIOUS
  <1>2. s.z \in BOOLEAN /\ s.v \in Nat /\ s.pc \in Nat
    BY DEF Machine
  <1>3. ASSUME NEW z \in BOOLEAN, NEW v \in Nat, t \in On(s, z, v),
               ~ (IsEnder(i) /\ Holds(i.cond, s.z)), v = IF i.op \in {"set", "asm"} THEN s.pc ELSE s.v,
               z = s.z \/ i.op \in {"use", "asm"}
        PROVE  t \in Machine /\ GoesOn(c, s, t)
    <2>1. t \in Machine /\ t.pc = s.pc + 1 /\ t.out = None /\ t.stack = s.stack /\ t.z = z /\ t.v = v
      BY <1>3, OnIs
    <2> QED
      BY <1>1, <1>3, <2>1 DEF GoesOn
  <1>4. CASE IsEnder(i) /\ ~Holds(i.cond, s.z)
    <2>1. t \in On(s, s.z, s.v)
      BY <1>1, <1>4 DEF Steps
    <2>2. s.v = IF i.op \in {"set", "asm"} THEN s.pc ELSE s.v
      BY <1>4 DEF IsEnder, Enders
    <2> QED
      BY <1>2, <1>3, <1>4, <2>1, <2>2
  <1>5. CASE i.op = "use"
    <2>1. PICK z \in BOOLEAN : t \in On(s, z, s.v)
      BY <1>1, <1>5 DEF Steps, IsEnder, Enders
    <2> QED
      BY <1>2, <1>3, <1>5, <2>1 DEF IsEnder, Enders
  <1>6. CASE i.op = "set"
    <2>1. t \in On(s, s.z, s.pc)
      BY <1>1, <1>6 DEF Steps, IsEnder, Enders
    <2> QED
      BY <1>2, <1>3, <1>6, <2>1 DEF IsEnder, Enders
  <1>7. CASE i.op = "asm"
    <2>1. PICK z \in BOOLEAN : t \in On(s, z, s.pc)
      BY <1>1, <1>7 DEF Steps, IsEnder, Enders
    <2> QED
      BY <1>2, <1>3, <1>7, <2>1 DEF IsEnder, Enders
  <1>8. CASE i.op = "jp" /\ Holds(i.cond, s.z)
    <2>1. t = To(c, i.arg, s.z, s.stack, s.v)
      BY <1>1, <1>8 DEF Steps
    <2> QED
      BY <1>1, <1>8, <2>1 DEF Jumps
  <1>9. CASE i.op = "call" /\ Holds(i.cond, s.z)
    <2>1. t = To(c, i.arg, s.z, Append(s.stack, s.pc + 1), s.v)
      BY <1>1, <1>9 DEF Steps
    <2> QED
      BY <1>1, <1>9, <2>1 DEF Calls
  <1>10. CASE i.op = "ret" /\ Holds(i.cond, s.z)
    <2>1. t \in Back(s, s.z, s.v)
      BY <1>1, <1>10 DEF Steps
    <2> QED
      BY <1>1, <1>2, <1>10, <2>1, BackIs
  <1>11. CASE i.op \notin {"use", "set", "asm", "jp", "call", "ret"}
    <2>1. t \in On(s, s.z, s.v)
      BY <1>1, <1>11 DEF Steps, IsEnder, Enders
    <2> QED
      BY <1>2, <1>3, <1>11, <2>1 DEF IsEnder, Enders
  <1> QED
    BY <1>4, <1>5, <1>6, <1>7, <1>8, <1>9, <1>10, <1>11 DEF IsEnder, Enders

LEMMA StepsOut ==
  ASSUME NEW c, NEW s \in Machine, s.out # None, NEW t \in Steps(c, s)
  PROVE  t \in Machine /\ t.z \in BOOLEAN /\ Returns(s, t.z, 0, t)
  <1>1. PICK z \in BOOLEAN : t \in Back(s, z, 0)
    BY DEF Steps
  <1>2. t \in Machine /\ Returns(s, z, 0, t)
    BY <1>1, BackIs
  <1> QED
    BY <1>2 DEF Returns
-----------------------------------------------------------------------------
(* Plain routines: the edges of their returns.                              *)

LEMMA RoutineIs ==
  ASSUME IsProgram(prog), PlainRoutines, NEW c \in 1 .. Len(prog), prog[c].op = "call",
         NEW l, l = prog[c].arg, l \in Defined(prog),
         NEW s, s = Position(prog, l), NEW e, e = RoutineEnd(l)
  PROVE  /\ e \in 1 .. Len(prog) /\ s \in 1 .. Len(prog) /\ s < e
         /\ prog[e].op = "ret" /\ ~Conditional(prog[e])
         /\ \A j \in 1 .. Len(prog) : j >= s /\ j < e =>
              ~IsEnder(prog[j]) \/ (prog[j].op \in {"ret", "call"} /\ Conditional(prog[j]))
  <1> DEFINE R == {j \in DOMAIN prog : j > s /\ IsEnder(prog[j])
                                        /\ (prog[j].op = "jp" \/ ~Conditional(prog[j]))}
  <1>1. /\ DOMAIN prog = 1 .. Len(prog) /\ Len(prog) \in Nat /\ s \in Nat /\ s \in 1 .. Len(prog) /\ s < Len(prog)
        /\ prog[s].op = "label" /\ prog[Len(prog)].op \in {"jp", "ret"} /\ prog[Len(prog)].cond = None
        /\ Len(prog) \in 1 .. Len(prog)
    BY ProgramIs, PositionIs
  <1>2. Len(prog) \in R
    BY <1>1 DEF IsEnder, Enders, Conditional
  <1>3. R \in SUBSET Nat
    BY <1>1
  <1>4. e = Min(R)
    BY DEF RoutineEnd
  <1>5. e \in R /\ \A k \in R : e <= k
    <2> HIDE DEF R
    <2> QED
      BY <1>2, <1>3, <1>4, MinIs
  <1>6. prog[e].op = "ret"
    BY <1>1, <1>4 DEF PlainRoutines
  <1>7. ASSUME NEW j \in 1 .. Len(prog), j >= s, j < e
        PROVE  ~IsEnder(prog[j]) \/ (prog[j].op \in {"ret", "call"} /\ Conditional(prog[j]))
    <2>1. j \notin R
      BY <1>1, <1>5, <1>7
    <2>2. j = s => ~IsEnder(prog[j])
      BY <1>1 DEF IsEnder, Enders
    <2> QED
      BY <1>1, <1>7, <2>1, <2>2 DEF IsEnder, Enders
  <1>8. e \in 1 .. Len(prog) /\ s < e
    BY <1>1, <1>5
  <1>9. ~Conditional(prog[e])
    BY <1>5, <1>6
  <1> QED
    BY <1>1, <1>6, <1>7, <1>8, <1>9

\* A call of the program never ends it.
LEMMA CallBehind ==
  ASSUME IsProgram(prog), NEW c \in 1 .. Len(prog), prog[c].op = "call"
  PROVE  c \in 1 .. Len(prog) - 1 /\ c + 1 \in 1 .. Len(prog)
  <1>1. Len(prog) \in Nat /\ prog[Len(prog)].op \in {"jp", "ret"}
    BY ProgramIs
  <1>2. c # Len(prog)
    BY <1>1
  <1> QED
    BY <1>1, <1>2

\* All of a plain routine is traced for every call of it.
LEMMA RoutineTraced ==
  ASSUME GraphInv, phase \in {"thread", "optimize"}, PlainRoutines,
         NEW c \in 1 .. Len(prog), prog[c].op = "call", NEW i, InRoutine(c, i)
  PROVE  i \in 1 .. Len(prog) /\ <<BlockOf(c), BlockOf(i)>> \in visited
  <1>1. PICK l, s, e, x : l = prog[c].arg /\ s = Position(prog, l) /\ e = RoutineEnd(l) /\ x = BlockOf(c)
    OBVIOUS
  <1>2. SplitOK /\ BlocksOK /\ IsProgram(prog) /\ pending = {} /\ Tracing
    <2>1. SplitOK
      BY InvSplit
    <2> QED
      BY <2>1 DEF SplitOK, BlocksOK, GraphInv, Typed
  <1>3. l \in Defined(prog) /\ i \in s .. e
    BY <1>1 DEF InRoutine
  <1>4. /\ e \in 1 .. Len(prog) /\ s \in 1 .. Len(prog) /\ s < e /\ Len(prog) \in Nat
        /\ \A j \in 1 .. Len(prog) : j >= s /\ j < e =>
             ~IsEnder(prog[j]) \/ (prog[j].op \in {"ret", "call"} /\ Conditional(prog[j]))
    BY <1>1, <1>2, <1>3, RoutineIs, ProgramIs
  <1>5. x \in blocks
    BY <1>1, <1>2, BlockOfIs
  <1> DEFINE S == {d \in Nat : s + d <= e => <<x, BlockOf(s + d)>> \in visited}
  <1>6. 0 \in S
    <2>1. l \in JUMP_LABELS
      BY <1>1, <1>2, JumpLabelsAre
    <2>2. s \in blocks /\ LabelBlock(l) = s /\ BlockOf(s) = s
      BY <1>1, <1>2, <1>3, <2>1, LabelBegins, BlockItself
    <2>3. <<x, s>> \in visited
      BY <1>1, <1>2, <1>3, <2>2 DEF Tracing
    <2>4. s + 0 = s
      BY <1>4
    <2> QED
      BY <2>2, <2>3, <2>4
  <1>7. ASSUME NEW d \in Nat, d \in S PROVE d + 1 \in S
    <2> SUFFICES ASSUME s + (d + 1) <= e PROVE <<x, BlockOf(s + (d + 1))>> \in visited
      OBVIOUS
    <2>1. PICK j \in 1 .. Len(prog) : j = s + d
      BY <1>4
    <2>2. j >= s /\ j < e /\ s + (d + 1) = j + 1 /\ j + 1 \in 1 .. Len(prog) /\ j # Len(prog)
      BY <1>4, <2>1
    <2>3. <<x, BlockOf(j)>> \in visited
      BY <1>7, <1>4, <2>1, <2>2
    <2>4. PICK b \in blocks : b = BlockOf(j)
      BY <1>2, BlockOfIs
    <2>5. CASE j # End(b)
      BY <1>2, <2>2, <2>3, <2>4, <2>5, LastOfBlock
    <2>6. CASE j = End(b)
      <3>1. j + 1 \in blocks /\ BlockOf(j + 1) = j + 1
        BY <1>2, <2>2, <2>4, <2>6, LastOfBlock, BlockItself
      <3>2. j + 1 \in NextBlock(b)
        BY <1>2, <2>2, <2>6, NextBlockIs
      <3>3. ~IsEnder(prog[End(b)]) \/ (prog[End(b)].op \in {"ret", "call"} /\ Conditional(prog[End(b)]))
        BY <1>4, <2>2, <2>6
      <3>4. <<x, j + 1>> \in pending \cup visited
        BY <1>2, <1>5, <2>3, <2>4, <3>2, <3>3 DEF Tracing
      <3> QED
        BY <1>2, <2>2, <3>1, <3>4
    <2> QED
      BY <2>5, <2>6
  <1>8. Nat \subseteq S
    <2> HIDE DEF S
    <2> QED
      BY <1>6, <1>7, Induction
  <1>9. PICK d \in Nat : d = i - s /\ s + d = i /\ i <= e
    BY <1>3, <1>4
  <1>10. d \in S
    BY <1>8
  <1>11. i \in 1 .. Len(prog)
    BY <1>3, <1>4
  <1> QED
    BY <1>1, <1>9, <1>10, <1>11

\* From every ret of a plain routine there is an edge to behind every call of it.
LEMMA ReturnEdges ==
  ASSUME GraphInv, phase \in {"thread", "optimize"}, PlainRoutines,
         NEW c \in 1 .. Len(prog), prog[c].op = "call", NEW i, InRoutine(c, i), prog[i].op = "ret"
  PROVE  /\ i \in 1 .. Len(prog) /\ c + 1 \in blocks
         /\ <<BlockOf(i), c + 1>> \in goes_to
  <1>1. PICK x : x = BlockOf(c)
    OBVIOUS
  <1>2. SplitOK /\ BlocksOK /\ IsProgram(prog) /\ Tracing
    <2>1. SplitOK
      BY InvSplit
    <2> QED
      BY <2>1 DEF SplitOK, BlocksOK, GraphInv
  <1>3. i \in 1 .. Len(prog) /\ <<x, BlockOf(i)>> \in visited
    BY <1>1, RoutineTraced
  <1>4. c # Len(prog) /\ Len(prog) \in Nat
    BY <1>2, ProgramIs
  <1>5. IsEnder(prog[c]) /\ IsEnder(prog[i])
    BY DEF IsEnder, Enders
  <1>6. c = End(x) /\ c + 1 \in blocks /\ i = End(BlockOf(i))
    BY <1>1, <1>2, <1>3, <1>4, <1>5, EnderEnds
  <1>7. x \in blocks /\ BlockOf(i) \in blocks
    BY <1>1, <1>2, <1>3, BlockOfIs
  <1>8. c + 1 \in NextBlock(x)
    BY <1>2, <1>4, <1>6, <1>7, NextBlockIs
  <1>9. PICK b \in blocks : b = BlockOf(i)
    BY <1>7
  <1>10. <<b, c + 1>> \in goes_to
    BY <1>2, <1>3, <1>6, <1>7, <1>8, <1>9 DEF Tracing
  <1> QED
    BY <1>3, <1>6, <1>9, <1>10
-----------------------------------------------------------------------------
(* Where the steps of a run lead, in the graph and among the open calls.    *)

\* The code is as it was given or as the optimizer made it.
Ready == GraphInv /\ (JustTraced \/ phase = "optimize")

\* The graph stands for the code: nothing is changed yet, or all is done and
\* no edge was dropped.
Stands == GraphInv /\ PlainRoutines /\ (JustTraced \/ (phase = "optimize" /\ NoJumpInto))

LEMMA ReadyIs ==
  ASSUME Ready
  PROVE  /\ SplitOK /\ BlocksOK /\ IsProgram(prog) /\ Coded /\ JumpEdges
         /\ phase \in {"thread", "optimize"} /\ GraphInv
  <1>1. GraphInv /\ phase \in {"thread", "optimize"}
    BY DEF Ready, JustTraced
  <1>2. SplitOK
    BY <1>1, InvSplit
  <1> QED
    BY <1>1, <1>2 DEF SplitOK, BlocksOK, GraphInv

LEMMA StandsIs ==
  ASSUME Stands
  PROVE  /\ Ready /\ SplitOK /\ BlocksOK /\ IsProgram(prog) /\ PlainRoutines
         /\ phase \in {"thread", "optimize"} /\ GraphInv
         /\ \A n \in blocks : n > 1 /\ ~Hard(prog[n - 1]) => <<BlockOf(n - 1), n>> \in goes_to
         /\ \A i \in 1 .. Len(prog) : prog[i].op = "call" => code[i].arg = prog[i].arg
  <1>1. Ready /\ PlainRoutines
    BY DEF Stands, Ready
  <1>2. SplitOK /\ BlocksOK /\ IsProgram(prog) /\ Coded /\ GraphInv /\ phase \in {"thread", "optimize"}
    BY <1>1, ReadyIs
  <1>3. \A n \in blocks : n > 1 /\ ~Hard(prog[n - 1]) => <<BlockOf(n - 1), n>> \in goes_to
    BY <1>2 DEF GraphInv, OnEdges, Stands
  <1>4. \A i \in 1 .. Len(prog) : prog[i].op = "call" => code[i].arg = prog[i].arg
    BY <1>1, <1>2 DEF Coded
  <1> QED
    BY <1>1, <1>2, <1>3, <1>4

LEMMA CodeIs ==
  ASSUME Ready
  PROVE  /\ SameLabels(prog, code) /\ DOMAIN code = 1 .. Len(prog)
         /\ \A i \in 1 .. Len(prog) :
              /\ code[i].op = prog[i].op \/ (prog[i].op = "set" /\ code[i].op = "nop")
              /\ IsEnder(code[i]) <=> IsEnder(prog[i])
              /\ IsEnder(code[i]) => code[i].cond = prog[i].cond
              /\ code[i].op \in {"jp", "call"} => code[i].arg \in JUMP_LABELS /\ code[i].arg \in Labels
  <1>1. IsProgram(prog) /\ Coded
    BY ReadyIs
  <1>2. DOMAIN code = 1 .. Len(prog) /\ DOMAIN prog = 1 .. Len(prog) /\ JUMP_LABELS \subseteq Labels
    BY <1>1, LenProperties, ProgramIs, JumpLabelsAre DEF Coded
  <1>3. ASSUME NEW i \in 1 .. Len(prog)
        PROVE  /\ code[i].op = prog[i].op \/ (prog[i].op = "set" /\ code[i].op = "nop")
               /\ IsEnder(code[i]) => code[i].cond = prog[i].cond
               /\ prog[i].op = "label" => code[i].arg = prog[i].arg
    BY <1>1, <1>3 DEF Coded, Threads, Removed, IsEnder, Enders
  <1>4. ASSUME NEW i \in 1 .. Len(prog)
        PROVE  IsEnder(code[i]) <=> IsEnder(prog[i])
    BY <1>3, <1>4 DEF IsEnder, Enders
  <1>5. SameLabels(prog, code)
    BY <1>2, <1>3 DEF SameLabels
  <1> QED
    BY <1>1, <1>2, <1>3, <1>4, <1>5 DEF Coded

\* A step from place i leads to t: behind it in the block, or to a block.
Lands(i, t) ==
  \/ t.out = None /\ t.pc = i + 1 /\ i # End(BlockOf(i))
  \/ i = End(BlockOf(i)) /\ IF t.out = None THEN t.pc \in blocks ELSE t.pc = Unknown

\* The graph has the step from state s to t (OnGraph of FlowRun).
HasEdge(s, t) ==
  \/ t.out = None /\ t.pc = s.pc + 1 /\ BlockOf(t.pc) = BlockOf(s.pc)
  \/ <<BlockOf(s.pc), BlockAt(t)>> \in goes_to

\* A step from place i to t is one the graph has.
Covered(i, t) ==
  \/ t.out = None /\ t.pc = i + 1 /\ i # End(BlockOf(i))
  \/ /\ i = End(BlockOf(i)) /\ <<BlockOf(i), t.pc>> \in goes_to
     /\ IF t.out = None THEN t.pc \in blocks ELSE t.pc = Unknown

LEMMA LandsAt ==
  ASSUME BlocksOK, NEW t, t.out = None => t.pc \in blocks, t.out # None => t.pc = Unknown
  PROVE  BlockAt(t) = t.pc
  BY BlockItself DEF BlockAt

LEMMA LandsFollows ==
  ASSUME BlocksOK, NEW s, NEW i \in 1 .. Len(prog), i = s.pc, NEW t, Lands(i, t), HasEdge(s, t)
  PROVE  t.pc \in Followers(i)
  <1>1. CASE t.out = None /\ t.pc = i + 1 /\ i # End(BlockOf(i))
    BY <1>1 DEF Followers
  <1>2. CASE i = End(BlockOf(i)) /\ IF t.out = None THEN t.pc \in blocks ELSE t.pc = Unknown
    <2>1. BlockAt(t) = t.pc
      BY <1>2, LandsAt
    <2>2. ~(t.out = None /\ t.pc = i + 1 /\ BlockOf(t.pc) = BlockOf(i))
      <3> SUFFICES ASSUME t.out = None, t.pc = i + 1, BlockOf(t.pc) = BlockOf(i) PROVE FALSE
        OBVIOUS
      <3>1. BlockOf(t.pc) = t.pc
        BY <1>2, BlockItself
      <3>2. BlockOf(i) \in Nat /\ BlockOf(i) <= i
        BY BlockOfIs
      <3> QED
        BY <3>1, <3>2
    <2>3. <<BlockOf(i), t.pc>> \in goes_to
      BY <2>1, <2>2 DEF HasEdge
    <2> QED
      BY <1>2, <2>3 DEF Followers, GoesTo
  <1> QED
    BY <1>1, <1>2 DEF Lands

LEMMA CoveredHasEdge ==
  ASSUME BlocksOK, NEW s, NEW i \in 1 .. Len(prog), i = s.pc, NEW t, Covered(i, t)
  PROVE  HasEdge(s, t)
  <1>1. CASE t.out = None /\ t.pc = i + 1 /\ i # End(BlockOf(i))
    BY <1>1, LastOfBlock DEF HasEdge
  <1>2. CASE <<BlockOf(i), t.pc>> \in goes_to /\ (IF t.out = None THEN t.pc \in blocks ELSE t.pc = Unknown)
    BY <1>2, LandsAt DEF HasEdge
  <1> QED
    BY <1>1, <1>2 DEF Covered

LEMMA OnLands ==
  ASSUME Ready, NEW s \in State(prog), s.out = None, NEW t \in Machine, GoesOn(code, s, t)
  PROVE  t \in State(prog) /\ Lands(s.pc, t) /\ ~Hard(prog[s.pc])
  <1>1. PICK i \in 1 .. Len(prog) : i = s.pc
    BY DEF State
  <1>2. /\ BlocksOK /\ IsProgram(prog) /\ Len(prog) \in Nat
        /\ prog[Len(prog)].op \in {"jp", "ret"} /\ prog[Len(prog)].cond = None
    BY ReadyIs, ProgramIs
  <1>3. t.pc = i + 1 /\ t.out = None
    BY <1>1 DEF GoesOn
  <1>4. ~Hard(prog[i])
    <2>1. IsEnder(code[i]) => ~Holds(code[i].cond, s.z)
      BY <1>1 DEF GoesOn
    <2>2. (IsEnder(code[i]) <=> IsEnder(prog[i])) /\ (IsEnder(code[i]) => code[i].cond = prog[i].cond)
      BY CodeIs
    <2> QED
      BY <2>1, <2>2 DEF Hard, Conditional, Holds
  <1>5. i # Len(prog)
    BY <1>2, <1>4 DEF Hard, Conditional, IsEnder, Enders
  <1>6. i + 1 \in 1 .. Len(prog)
    BY <1>2, <1>5
  <1>7. t \in State(prog)
    BY <1>3, <1>6 DEF State
  <1>8. i = End(BlockOf(i)) => i + 1 \in blocks
    BY <1>2, <1>5, LastOfBlock
  <1> QED
    BY <1>1, <1>3, <1>4, <1>7, <1>8 DEF Lands

LEMMA OnCovered ==
  ASSUME Stands, NEW s \in State(prog), s.out = None, NEW t \in Machine, GoesOn(code, s, t)
  PROVE  t \in State(prog) /\ Covered(s.pc, t)
  <1>1. PICK i \in 1 .. Len(prog) : i = s.pc
    BY DEF State
  <1>2. \A n \in blocks : n > 1 /\ ~Hard(prog[n - 1]) => <<BlockOf(n - 1), n>> \in goes_to
    BY StandsIs
  <1>3. t.pc = i + 1 /\ t.out = None
    BY <1>1 DEF GoesOn
  <1>4. t \in State(prog) /\ Lands(i, t) /\ ~Hard(prog[i])
    BY <1>1, StandsIs, OnLands
  <1>5. CASE i # End(BlockOf(i))
    BY <1>1, <1>3, <1>4, <1>5 DEF Covered
  <1>6. CASE i = End(BlockOf(i))
    <2>1. PICK n \in blocks : n = i + 1
      BY <1>3, <1>4, <1>6 DEF Lands
    <2>2. n > 1 /\ n - 1 = i
      BY <2>1
    <2>3. <<BlockOf(i), n>> \in goes_to
      BY <1>2, <1>4, <2>2
    <2> QED
      BY <1>1, <1>3, <1>4, <1>6, <2>1, <2>3 DEF Covered
  <1> QED
    BY <1>5, <1>6

LEMMA ToCovered ==
  ASSUME Ready, NEW i \in 1 .. Len(prog), code[i].op \in {"jp", "call"},
         NEW z \in BOOLEAN, NEW stack \in Seq(Nat), NEW v \in Nat, NEW t, t = To(code, code[i].arg, z, stack, v)
  PROVE  /\ t \in State(prog) /\ t.z = z /\ t.stack = stack /\ t.v = v /\ Covered(i, t)
         /\ t = To(prog, code[i].arg, z, stack, v)
         /\ t.out = None => code[i].arg \in Defined(prog) /\ t.pc = Position(prog, code[i].arg)
  <1>1. PICK l : l = code[i].arg
    OBVIOUS
  <1>2. l \in JUMP_LABELS /\ l \in Labels /\ SameLabels(prog, code)
    BY <1>1, CodeIs
  <1>3. t = To(prog, l, z, stack, v)
    BY <1>1, <1>2, LabelsAlike
  <1>4. SplitOK /\ BlocksOK /\ IsProgram(prog) /\ JumpEdges /\ phase # "split"
    BY ReadyIs
  <1>5. /\ t \in State(prog) /\ t.z = z /\ t.stack = stack /\ t.v = v
        /\ l \in Defined(prog) => t.out = None /\ t.pc = Position(prog, l)
        /\ l \notin Defined(prog) => t.out = l /\ t.pc = 0
    BY <1>2, <1>3, <1>4, ToIs
  <1>6. <<BlockOf(i), LabelBlock(l)>> \in goes_to
    BY <1>1, <1>4 DEF JumpEdges
  <1>7. i = End(BlockOf(i))
    <2>1. IsEnder(code[i])
      BY DEF IsEnder, Enders
    <2>2. IsEnder(prog[i])
      BY <2>1, CodeIs
    <2> QED
      BY <1>4, <2>2, EnderEnds
  <1>8. None \notin Labels
    BY Z80FlowAssumption
  <1>9. CASE l \in Defined(prog)
    <2>1. Position(prog, l) \in blocks /\ LabelBlock(l) = Position(prog, l)
      BY <1>2, <1>4, <1>9, LabelBegins
    <2> QED
      BY <1>1, <1>3, <1>5, <1>6, <1>7, <1>9, <2>1 DEF Covered
  <1>10. CASE l \notin Defined(prog)
    <2>1. LabelBlock(l) = Unknown /\ Unknown = 0 /\ t.out # None
      BY <1>2, <1>5, <1>8, <1>10 DEF LabelBlock, Unknown
    <2> QED
      BY <1>1, <1>3, <1>5, <1>6, <1>7, <1>10, <2>1 DEF Covered
  <1> QED
    BY <1>9, <1>10
-----------------------------------------------------------------------------
(* The open calls.                                                          *)

\* The frame of the k-th open call.
LEMMA FrameIs ==
  ASSUME NEW s, Frames(s), NEW k \in 1 .. Len(s.stack), NEW c, c = s.stack[k] - 1
  PROVE  /\ c \in 1 .. Len(prog) - 1 /\ prog[c].op = "call"
         /\ k < Len(s.stack) => InRoutine(c, s.stack[k + 1] - 1)
         /\ k = Len(s.stack) /\ s.out = None => InRoutine(c, s.pc)
  BY DEF Frames

\* A call in a plain routine, or a place the routine goes on from, is not its end.
LEMMA RoutineGoesOn ==
  ASSUME IsProgram(prog), PlainRoutines, NEW c \in 1 .. Len(prog), prog[c].op = "call",
         NEW i, InRoutine(c, i), prog[i].op # "ret" \/ ~Hard(prog[i])
  PROVE  i \in 1 .. Len(prog) /\ InRoutine(c, i + 1)
  <1>1. PICK l, s, e : l = prog[c].arg /\ s = Position(prog, l) /\ e = RoutineEnd(l)
    OBVIOUS
  <1>2. l \in Defined(prog) /\ i \in s .. e
    BY <1>1 DEF InRoutine
  <1>3. /\ e \in 1 .. Len(prog) /\ s \in 1 .. Len(prog) /\ s < e /\ Len(prog) \in Nat
        /\ prog[e].op = "ret" /\ ~Conditional(prog[e])
    BY <1>1, <1>2, RoutineIs, ProgramIs
  <1>4. i # e
    BY <1>3 DEF Hard, IsEnder, Enders
  <1>5. i \in 1 .. Len(prog) /\ i + 1 \in s .. e
    BY <1>2, <1>3, <1>4
  <1> QED
    BY <1>1, <1>2, <1>5 DEF InRoutine

LEMMA FramesBack ==
  ASSUME IsProgram(prog), PlainRoutines, NEW s \in Machine, Frames(s), NEW z, NEW v,
         NEW t \in Machine, Returns(s, z, v, t)
  PROVE  Frames(t) /\ t \in State(prog)
  <1>1. /\ t.pc = Last(s.stack) /\ t.out = None /\ t.stack = Front(s.stack) /\ s.stack # <<>>
        /\ s.stack \in Seq(Nat)
    BY DEF Returns, Machine
  <1>2. PICK n \in Nat : n = Len(s.stack) /\ n > 0
    BY <1>1, FrontIs
  <1>3. /\ Len(t.stack) = n - 1 /\ t.pc = s.stack[n] /\ t.pc \in Nat
        /\ \A k \in 1 .. n - 1 : t.stack[k] = s.stack[k]
    BY <1>1, <1>2, FrontIs
  <1>4. PICK d : d = t.pc - 1
    OBVIOUS
  <1>5. n \in 1 .. n
    BY <1>2
  <1>6. d \in 1 .. Len(prog) - 1 /\ prog[d].op = "call"
    BY <1>2, <1>3, <1>4, <1>5, FrameIs
  <1>7. Len(prog) \in Nat
    BY ProgramIs
  <1>8. t.pc \in 1 .. Len(prog) /\ d + 1 = t.pc
    BY <1>3, <1>4, <1>6, <1>7
  <1>9. t \in State(prog)
    BY <1>1, <1>8 DEF State
  <1>10. ASSUME NEW k \in 1 .. n - 1, NEW c, c = t.stack[k] - 1
         PROVE  /\ c \in 1 .. Len(prog) - 1 /\ prog[c].op = "call"
                /\ k < n - 1 => InRoutine(c, t.stack[k + 1] - 1)
                /\ k = n - 1 => InRoutine(c, t.pc)
    <2>1. k \in 1 .. n /\ k < n /\ c = s.stack[k] - 1
      BY <1>2, <1>3, <1>10
    <2>2. c \in 1 .. Len(prog) - 1 /\ prog[c].op = "call" /\ InRoutine(c, s.stack[k + 1] - 1)
      BY <1>2, <2>1, FrameIs
    <2>3. ASSUME k < n - 1 PROVE InRoutine(c, t.stack[k + 1] - 1)
      <3>1. k + 1 \in 1 .. n - 1
        BY <1>2, <2>3
      <3> QED
        BY <1>3, <2>2, <3>1
    <2>4. ASSUME k = n - 1 PROVE InRoutine(c, t.pc)
      <3>1. k + 1 = n
        BY <1>2, <2>4
      <3>2. InRoutine(c, d) /\ c \in 1 .. Len(prog)
        BY <1>3, <1>4, <1>7, <2>2, <3>1
      <3>3. InRoutine(c, d + 1)
        BY <1>6, <2>2, <3>2, RoutineGoesOn
      <3> QED
        BY <1>8, <3>3
    <2> QED
      BY <2>2, <2>3, <2>4
  <1>11. Frames(t)
    BY <1>3, <1>10 DEF Frames
  <1> QED
    BY <1>9, <1>11

LEMMA FramesOn ==
  ASSUME Stands, NEW s \in State(prog), s.out = None, Frames(s), NEW t \in Machine, GoesOn(code, s, t)
  PROVE  Frames(t)
  <1>1. PICK i \in 1 .. Len(prog) : i = s.pc
    BY DEF State
  <1>2. IsProgram(prog) /\ PlainRoutines /\ Len(prog) \in Nat
    BY StandsIs, ProgramIs
  <1>3. t.pc = i + 1 /\ t.out = None /\ t.stack = s.stack
    BY <1>1 DEF GoesOn
  <1>4. ~Hard(prog[i])
    <2>1. IsEnder(code[i]) => ~Holds(code[i].cond, s.z)
      BY <1>1 DEF GoesOn
    <2>2. (IsEnder(code[i]) <=> IsEnder(prog[i])) /\ (IsEnder(code[i]) => code[i].cond = prog[i].cond)
      BY StandsIs, CodeIs
    <2> QED
      BY <2>1, <2>2 DEF Hard, Conditional, Holds
  <1>5. ASSUME NEW k \in 1 .. Len(s.stack), NEW c, c = s.stack[k] - 1
        PROVE  /\ c \in 1 .. Len(prog) - 1 /\ prog[c].op = "call"
               /\ k < Len(s.stack) => InRoutine(c, s.stack[k + 1] - 1)
               /\ k = Len(s.stack) => InRoutine(c, i + 1)
    <2>1. /\ c \in 1 .. Len(prog) - 1 /\ prog[c].op = "call"
          /\ k < Len(s.stack) => InRoutine(c, s.stack[k + 1] - 1)
          /\ k = Len(s.stack) => InRoutine(c, i)
      BY <1>1, <1>5, FrameIs
    <2>2. c \in 1 .. Len(prog)
      BY <1>2, <2>1
    <2> QED
      BY <1>2, <1>4, <2>1, <2>2, RoutineGoesOn
  <1> QED
    BY <1>3, <1>5 DEF Frames

LEMMA FramesCall ==
  ASSUME Stands, NEW s \in State(prog), s.out = None, Frames(s), NEW i, i = s.pc, code[i].op = "call",
         NEW t \in State(prog), t.stack = Append(s.stack, i + 1),
         t.out = None => code[i].arg \in Defined(prog) /\ t.pc = Position(prog, code[i].arg)
  PROVE  Frames(t)
  <1>1. i \in 1 .. Len(prog) /\ s.stack \in Seq(Nat) /\ i + 1 \in Nat
    BY DEF State, Machine
  <1>2. prog[i].op = "call" /\ code[i].arg = prog[i].arg /\ IsProgram(prog) /\ PlainRoutines
    BY <1>1, StandsIs, CodeIs
  <1>3. i \in 1 .. Len(prog) - 1
    BY <1>1, <1>2, CallBehind
  <1>4. PICK n \in Nat : n = Len(s.stack)
    BY <1>1
  <1>5. Len(t.stack) = n + 1 /\ t.stack[n + 1] = i + 1 /\ \A k \in 1 .. n : t.stack[k] = s.stack[k]
    BY <1>1, <1>4, AppendProperties
  <1>6. ASSUME NEW k \in 1 .. n + 1, NEW c, c = t.stack[k] - 1
        PROVE  /\ c \in 1 .. Len(prog) - 1 /\ prog[c].op = "call"
               /\ k < n + 1 => InRoutine(c, t.stack[k + 1] - 1)
               /\ k = n + 1 /\ t.out = None => InRoutine(c, t.pc)
    <2>1. CASE k = n + 1
      <3>1. c = i
        BY <1>1, <1>5, <1>6, <2>1
      <3>2. ASSUME t.out = None PROVE InRoutine(c, t.pc)
        <4>1. PICK l, a, e : l = prog[c].arg /\ a = Position(prog, l) /\ e = RoutineEnd(l)
          OBVIOUS
        <4>2. l \in Defined(prog) /\ t.pc = a
          BY <1>2, <3>1, <3>2, <4>1
        <4>3. e \in 1 .. Len(prog) /\ a \in 1 .. Len(prog) /\ a < e
          <5>1. IsProgram(prog) /\ PlainRoutines
            BY <1>2
          <5>2. c \in 1 .. Len(prog) /\ prog[c].op = "call"
            BY <1>1, <1>2, <3>1
          <5> QED
            BY <4>1, <4>2, <5>1, <5>2, RoutineIs
        <4>4. a \in a .. e
          BY <4>3
        <4> QED
          BY <4>1, <4>2, <4>4 DEF InRoutine
      <3> QED
        BY <1>2, <1>3, <2>1, <3>1, <3>2
    <2>2. CASE k # n + 1
      <3>1. k \in 1 .. n /\ c = s.stack[k] - 1 /\ k < n + 1
        BY <1>4, <1>5, <1>6, <2>2
      <3>2. /\ c \in 1 .. Len(prog) - 1 /\ prog[c].op = "call"
            /\ k < n => InRoutine(c, s.stack[k + 1] - 1)
            /\ k = n => InRoutine(c, i)
        BY <1>4, <3>1, FrameIs
      <3>3. CASE k < n
        <4>1. k + 1 \in 1 .. n
          BY <1>4, <3>1, <3>3
        <4> QED
          BY <1>5, <3>1, <3>2, <3>3, <4>1
      <3>4. CASE k = n
        <4>1. t.stack[k + 1] - 1 = i
          BY <1>1, <1>5, <3>4
        <4> QED
          BY <2>2, <3>2, <3>4, <4>1
      <3> QED
        BY <1>4, <3>1, <3>3, <3>4
    <2> QED
      BY <2>1, <2>2
  <1> QED
    BY <1>5, <1>6 DEF Frames

\* No jump is done while a call is open.
LEMMA FramesJump ==
  ASSUME Stands, NEW s \in State(prog), s.out = None, Frames(s), code[s.pc].op = "jp"
  PROVE  s.stack = <<>>
  <1> SUFFICES ASSUME s.stack # <<>> PROVE FALSE
    OBVIOUS
  <1>1. PICK i \in 1 .. Len(prog) : i = s.pc
    BY DEF State
  <1>2. IsProgram(prog) /\ PlainRoutines /\ prog[i].op = "jp" /\ Len(prog) \in Nat
    BY <1>1, StandsIs, CodeIs, ProgramIs
  <1>3. PICK n \in Nat : n = Len(s.stack) /\ n \in 1 .. n
    <2>1. s.stack \in Seq(Nat)
      BY DEF State, Machine
    <2>2. Len(s.stack) \in Nat /\ Len(s.stack) > 0
      BY <2>1, FrontIs
    <2>3. Len(s.stack) \in 1 .. Len(s.stack)
      BY <2>2
    <2> QED
      BY <2>2, <2>3
  <1>4. PICK c : c = s.stack[n] - 1
    OBVIOUS
  <1>5. c \in 1 .. Len(prog) - 1 /\ prog[c].op = "call" /\ InRoutine(c, i)
    BY <1>1, <1>3, <1>4, FrameIs
  <1>6. c \in 1 .. Len(prog)
    BY <1>2, <1>5
  <1>7. PICK l, a, e : l = prog[c].arg /\ a = Position(prog, l) /\ e = RoutineEnd(l)
    OBVIOUS
  <1>8. l \in Defined(prog) /\ i \in a .. e
    BY <1>5, <1>7 DEF InRoutine
  <1>9. /\ e \in 1 .. Len(prog) /\ a \in 1 .. Len(prog) /\ prog[e].op = "ret"
        /\ \A j \in 1 .. Len(prog) : j >= a /\ j < e =>
             ~IsEnder(prog[j]) \/ (prog[j].op \in {"ret", "call"} /\ Conditional(prog[j]))
    BY <1>2, <1>5, <1>6, <1>7, <1>8, RoutineIs
  <1>10. i # e
    BY <1>2, <1>9
  <1>11. i >= a /\ i < e
    BY <1>8, <1>9, <1>10
  <1> QED
    BY <1>1, <1>2, <1>9, <1>11 DEF IsEnder, Enders
-----------------------------------------------------------------------------
(* The return addresses, whatever the routines.                             *)

LEMMA CallingBack ==
  ASSUME IsProgram(prog), NEW s \in Machine, Calling(s), NEW z, NEW v, NEW t \in Machine, Returns(s, z, v, t)
  PROVE  /\ Calling(t) /\ t \in State(prog) /\ t.out = None
         /\ \E c \in 1 .. Len(prog) : prog[c].op = "call" /\ t.pc = c + 1
  <1>1. /\ t.pc = Last(s.stack) /\ t.out = None /\ t.stack = Front(s.stack) /\ s.stack # <<>>
        /\ s.stack \in Seq(Nat)
    BY DEF Returns, Machine
  <1>2. PICK n \in Nat : n = Len(s.stack) /\ n > 0
    BY <1>1, FrontIs
  <1>3. /\ Len(t.stack) = n - 1 /\ t.pc = s.stack[n] /\ t.pc \in Nat
        /\ \A k \in 1 .. n - 1 : t.stack[k] = s.stack[k]
    BY <1>1, <1>2, FrontIs
  <1>4. \A k \in 1 .. n : s.stack[k] - 1 \in 1 .. Len(prog) - 1 /\ prog[s.stack[k] - 1].op = "call"
    BY <1>2 DEF Calling
  <1>5. Calling(t)
    <2>1. \A k \in 1 .. n - 1 : k \in 1 .. n
      BY <1>2
    <2> QED
      BY <1>3, <1>4, <2>1 DEF Calling
  <1>6. PICK c : c = t.pc - 1
    OBVIOUS
  <1>7. c \in 1 .. Len(prog) - 1 /\ prog[c].op = "call"
    <2>1. n \in 1 .. n
      BY <1>2
    <2> QED
      BY <1>3, <1>4, <1>6, <2>1
  <1>8. Len(prog) \in Nat
    BY ProgramIs
  <1>9. c \in 1 .. Len(prog) /\ t.pc = c + 1 /\ t.pc \in 1 .. Len(prog)
    BY <1>3, <1>6, <1>7, <1>8
  <1>10. t \in State(prog)
    BY <1>1, <1>9 DEF State
  <1> QED
    BY <1>1, <1>5, <1>7, <1>9, <1>10

LEMMA CallingCall ==
  ASSUME IsProgram(prog), NEW s \in Machine, Calling(s), NEW i \in 1 .. Len(prog), prog[i].op = "call",
         NEW t, t.stack = Append(s.stack, i + 1)
  PROVE  Calling(t)
  <1>1. s.stack \in Seq(Nat) /\ i + 1 \in Nat /\ i \in Nat
    BY DEF Machine
  <1>2. i \in 1 .. Len(prog) - 1
    BY CallBehind
  <1>3. PICK n \in Nat : n = Len(s.stack)
    BY <1>1
  <1>4. Len(t.stack) = n + 1 /\ t.stack[n + 1] = i + 1 /\ \A k \in 1 .. n : t.stack[k] = s.stack[k]
    BY <1>1, <1>3, AppendProperties
  <1>5. ASSUME NEW k \in 1 .. n + 1, NEW c, c = t.stack[k] - 1
        PROVE  c \in 1 .. Len(prog) - 1 /\ prog[c].op = "call"
    <2>1. CASE k = n + 1
      <3>1. c = i
        BY <1>1, <1>4, <1>5, <2>1
      <3> QED
        BY <1>2, <3>1
    <2>2. CASE k # n + 1
      <3>1. k \in 1 .. n /\ c = s.stack[k] - 1
        BY <1>3, <1>4, <1>5, <2>2
      <3> QED
        BY <1>3, <3>1 DEF Calling
    <2> QED
      BY <2>1, <2>2
  <1> QED
    BY <1>4, <1>5 DEF Calling

\* Whatever the program, a step leads behind in the block or to a block.
LEMMA StepLands ==
  ASSUME Ready, NEW s \in State(prog), Calling(s), NEW t \in Steps(code, s)
  PROVE  /\ t \in State(prog) /\ Calling(t)
         /\ s.out = None => Lands(s.pc, t)
  <1>1. s \in Machine /\ s.z \in BOOLEAN /\ s.stack \in Seq(Nat) /\ s.v \in Nat
    BY DEF State, Machine
  <1>2. SplitOK /\ BlocksOK /\ IsProgram(prog)
    BY ReadyIs
  <1>3. CASE s.out # None
    <2>1. t \in Machine /\ Returns(s, t.z, 0, t)
      BY <1>1, <1>3, StepsOut
    <2> QED
      BY <1>1, <1>2, <1>3, <2>1, CallingBack
  <1>4. CASE s.out = None
    <2>1. PICK i \in 1 .. Len(prog) : i = s.pc
      BY <1>4 DEF State
    <2>2. CASE t \in Machine /\ GoesOn(code, s, t)
      <3>1. t \in State(prog) /\ Lands(i, t)
        BY <1>4, <2>1, <2>2, OnLands
      <3>2. t.stack = s.stack
        BY <2>2 DEF GoesOn
      <3>3. Calling(t)
        BY <3>2 DEF Calling
      <3> QED
        BY <2>1, <3>1, <3>3
    <2>3. CASE Jumps(code, s, t)
      <3>1. code[i].op = "jp" /\ t = To(code, code[i].arg, s.z, s.stack, s.v)
        BY <2>1, <2>3 DEF Jumps
      <3>2. t \in State(prog) /\ t.stack = s.stack /\ Covered(i, t)
        BY <1>1, <3>1, ToCovered
      <3>3. Calling(t)
        BY <3>2 DEF Calling
      <3> QED
        BY <2>1, <3>2, <3>3 DEF Covered, Lands
    <2>4. CASE Calls(code, s, t)
      <3>1. code[i].op = "call" /\ t = To(code, code[i].arg, s.z, Append(s.stack, i + 1), s.v)
        BY <2>1, <2>4 DEF Calls
      <3>2. i + 1 \in Nat
        BY <2>1
      <3>3. PICK q \in Seq(Nat) : q = Append(s.stack, i + 1)
        BY <1>1, <3>2, AppendProperties
      <3>4. t = To(code, code[i].arg, s.z, q, s.v)
        BY <3>1, <3>3
      <3>5. t \in State(prog) /\ t.stack = q /\ Covered(i, t)
        BY <1>1, <3>1, <3>4, ToCovered
      <3>6. prog[i].op = "call"
        BY <3>1, CodeIs
      <3>7. Calling(t)
        BY <1>1, <1>2, <3>3, <3>5, <3>6, CallingCall
      <3> QED
        BY <2>1, <3>5, <3>7 DEF Covered, Lands
    <2>5. CASE t \in Machine /\ code[s.pc].op = "ret" /\ Returns(s, s.z, s.v, t)
      <3>1. t \in State(prog) /\ Calling(t) /\ t.out = None
        BY <1>1, <1>2, <2>5, CallingBack
      <3>2. PICK c \in 1 .. Len(prog) : prog[c].op = "call" /\ t.pc = c + 1
        BY <1>1, <1>2, <2>5, CallingBack
      <3>3. prog[i].op = "ret" /\ IsEnder(prog[i])
        BY <2>1, <2>5, CodeIs DEF IsEnder, Enders
      <3>4. i = End(BlockOf(i))
        BY <1>2, <3>3, EnderEnds
      <3>5. c # Len(prog) /\ IsEnder(prog[c])
        BY <1>2, <3>2, ProgramIs DEF IsEnder, Enders
      <3>6. t.pc \in blocks
        BY <1>2, <3>2, <3>5, EnderEnds
      <3> QED
        BY <2>1, <3>1, <3>4, <3>6 DEF Lands
    <2> QED
      BY <1>1, <1>4, <2>2, <2>3, <2>4, <2>5, StepsAre
  <1> QED
    BY <1>3, <1>4
-----------------------------------------------------------------------------
(* Every step is one the graph has.                                         *)

LEMMA StepCovered ==
  ASSUME Stands, NEW s \in State(prog), Frames(s), NEW t \in Steps(code, s)
  PROVE  /\ t \in State(prog) /\ Frames(t)
         /\ s.out = None => Covered(s.pc, t)
  <1>1. s \in Machine /\ s.z \in BOOLEAN /\ s.stack \in Seq(Nat) /\ s.v \in Nat
    BY DEF State, Machine
  <1>2. SplitOK /\ BlocksOK /\ IsProgram(prog) /\ Ready /\ PlainRoutines /\ phase \in {"thread", "optimize"} /\ GraphInv
    BY StandsIs
  <1>3. CASE s.out # None
    <2>1. t \in Machine /\ Returns(s, t.z, 0, t)
      BY <1>1, <1>3, StepsOut
    <2> QED
      BY <1>1, <1>2, <1>3, <2>1, FramesBack
  <1>4. CASE s.out = None
    <2>1. PICK i \in 1 .. Len(prog) : i = s.pc
      BY <1>4 DEF State
    <2>2. CASE t \in Machine /\ GoesOn(code, s, t)
      BY <1>4, <2>2, OnCovered, FramesOn
    <2>3. CASE Jumps(code, s, t)
      <3>1. code[i].op = "jp" /\ t = To(code, code[i].arg, s.z, s.stack, s.v)
        BY <2>1, <2>3 DEF Jumps
      <3>2. t \in State(prog) /\ t.stack = s.stack /\ Covered(i, t)
        BY <1>1, <1>2, <3>1, ToCovered
      <3>3. s.stack = <<>>
        BY <1>4, <2>1, <3>1, FramesJump
      <3>4. 1 .. Len(t.stack) = {}
        BY <3>2, <3>3
      <3>5. Frames(t)
        BY <3>4 DEF Frames
      <3> QED
        BY <2>1, <3>2, <3>5
    <2>4. CASE Calls(code, s, t)
      <3>1. code[i].op = "call" /\ t = To(code, code[i].arg, s.z, Append(s.stack, i + 1), s.v)
        BY <2>1, <2>4 DEF Calls
      <3>2. Append(s.stack, i + 1) \in Seq(Nat)
        <4>1. i + 1 \in Nat
          BY <2>1
        <4> QED
          BY <1>1, <4>1, AppendProperties
      <3>3. /\ t \in State(prog) /\ t.stack = Append(s.stack, i + 1) /\ Covered(i, t)
            /\ t.out = None => code[i].arg \in Defined(prog) /\ t.pc = Position(prog, code[i].arg)
        <4>1. PICK q \in Seq(Nat) : q = Append(s.stack, i + 1)
          BY <3>2
        <4>2. t = To(code, code[i].arg, s.z, q, s.v)
          BY <3>1, <4>1
        <4>3. /\ t \in State(prog) /\ t.stack = q /\ Covered(i, t)
              /\ t.out = None => code[i].arg \in Defined(prog) /\ t.pc = Position(prog, code[i].arg)
          BY <1>1, <1>2, <3>1, <4>2, ToCovered
        <4> QED
          BY <4>1, <4>3
      <3>4. Frames(t)
        BY <1>4, <2>1, <3>1, <3>3, FramesCall
      <3> QED
        BY <2>1, <3>3, <3>4
    <2>5. CASE t \in Machine /\ code[s.pc].op = "ret" /\ Returns(s, s.z, s.v, t)
      <3>1. t \in State(prog) /\ Frames(t)
        BY <1>1, <1>2, <2>5, FramesBack
      <3>2. prog[i].op = "ret" /\ IsEnder(prog[i])
        BY <1>2, <2>1, <2>5, CodeIs DEF IsEnder, Enders
      <3>3. i = End(BlockOf(i))
        BY <1>2, <3>2, EnderEnds
      <3>4. PICK n \in Nat : n = Len(s.stack) /\ n \in 1 .. n /\ t.pc = s.stack[n] /\ t.pc \in Nat /\ t.out = None
        <4>1. s.stack # <<>> /\ t.pc = Last(s.stack) /\ t.out = None
          BY <2>5 DEF Returns
        <4>2. Len(s.stack) \in Nat /\ Len(s.stack) > 0 /\ Last(s.stack) \in Nat /\ Last(s.stack) = s.stack[Len(s.stack)]
          BY <1>1, <4>1, FrontIs
        <4>3. Len(s.stack) \in 1 .. Len(s.stack)
          BY <4>2
        <4> QED
          BY <4>1, <4>2, <4>3
      <3>5. PICK c : c = t.pc - 1
        OBVIOUS
      <3>6. c \in 1 .. Len(prog) - 1 /\ prog[c].op = "call" /\ InRoutine(c, i)
        BY <1>4, <2>1, <3>4, <3>5, FrameIs
      <3>7. c \in 1 .. Len(prog) /\ c + 1 = t.pc
        <4>1. Len(prog) \in Nat
          BY <1>2, ProgramIs
        <4> QED
          BY <3>4, <3>5, <3>6, <4>1
      <3>8. c + 1 \in blocks /\ <<BlockOf(i), c + 1>> \in goes_to
        BY <1>2, <3>2, <3>6, <3>7, ReturnEdges
      <3> QED
        BY <2>1, <3>1, <3>3, <3>4, <3>7, <3>8 DEF Covered
    <2> QED
      BY <1>1, <1>4, <2>2, <2>3, <2>4, <2>5, StepsAre
  <1> QED
    BY <1>3, <1>4

LEMMA FlowIs ==
  ASSUME RunInv
  PROVE  FlowCovered
  BY DEF RunInv, FlowCovered
-----------------------------------------------------------------------------
(* The original keeps up with the code.                                     *)

\* x is where s is, or moves there, and if the graph had all edges so far (on),
\* what the register has is the same or nobody asks.
KeepsUp(x, s, on) ==
  /\ \E n \in Nat : Trail(prog, x)[n] = [s EXCEPT !.v = x.v]
  /\ on => s.v = x.v \/ s.pc \in DeadPlaces

LEMMA OnTheWayIs ==
  ASSUME IsProgram(prog), NEW x \in State(prog), NEW s \in State(prog),
         NEW n \in Nat, Trail(prog, x)[n] = [s EXCEPT !.v = x.v]
  PROVE  /\ x.z = s.z /\ x.stack = s.stack
         /\ x.pc = s.pc /\ x.out = s.out => x = [s EXCEPT !.v = x.v]
         /\ ~(x.pc = s.pc /\ x.out = s.out) => Moving(prog, x) /\ n # 0
  <1>1. PICK y : y = Trail(prog, x)[n] /\ y = [s EXCEPT !.v = x.v]
    OBVIOUS
  <1>2. /\ x \in Machine /\ s \in Machine /\ y \in Machine
        /\ y.pc = s.pc /\ y.out = s.out /\ y.z = s.z /\ y.stack = s.stack /\ y.v = x.v
    BY <1>1 DEF State, Machine
  <1>3. y.z = x.z /\ y.stack = x.stack
    <2>1. y = Trail(prog, x)[n]
      BY <1>1
    <2>2. \A m \in Nat : LET t == Trail(prog, x)[m] IN t.z = x.z /\ t.stack = x.stack /\ t.v = x.v
      BY TrailKeeps
    <2>3. Trail(prog, x)[n].z = x.z /\ Trail(prog, x)[n].stack = x.stack
      BY <2>2
    <2> QED
      BY <2>1, <2>3
  <1>4. x.z = s.z /\ x.stack = s.stack
    BY <1>1, <1>2, <1>3
  <1>5. ASSUME x.pc = s.pc, x.out = s.out PROVE x = y
    <2>1. y \in State(prog)
      BY <1>2 DEF State
    <2> QED
      BY <1>2, <1>4, <1>5, <2>1, SameState
  <1>6. x = y => x.pc = s.pc /\ x.out = s.out
    BY <1>2
  <1>7. ~Moving(prog, x) => x = y
    BY <1>1, TrailStays
  <1>8. n = 0 => x = y
    BY <1>1, TrailIs
  <1> QED
    BY <1>1, <1>4, <1>5, <1>6, <1>7, <1>8

\* Both at the same place: x keeps up.
LEMMA KeepsUpThere ==
  ASSUME IsProgram(prog), NEW x \in State(prog), NEW s \in State(prog),
         NEW on \in BOOLEAN, x = [s EXCEPT !.v = x.v], on => s.v = x.v \/ s.pc \in DeadPlaces
  PROVE  KeepsUp(x, s, on)
  <1>1. Trail(prog, x)[0] = [s EXCEPT !.v = x.v]
    BY TrailIs
  <1> QED
    BY <1>1 DEF KeepsUp

\* What is dead at a place is dead where the code goes on to.
LEMMA DeadOn ==
  ASSUME NEW i \in DeadPlaces, code[i].op # "set"
  PROVE  Followers(i) \subseteq DeadPlaces
  BY DeadPlacesDead DEF DeadSet

\* A jump or call of the code, and the one it was.
LEMMA KeepsUpJumping ==
  ASSUME IsProgram(prog), NEW l \in Labels, NEW m \in Labels, NEW z \in BOOLEAN, Leads(prog, l, m, z),
         NEW q \in Seq(Nat), NEW v \in Nat, NEW w \in Nat,
         NEW t, t = To(prog, l, z, q, v), NEW u, u = To(prog, m, z, q, w),
         NEW on \in BOOLEAN, on => w = v \/ u.pc \in DeadPlaces
  PROVE  t \in State(prog) /\ KeepsUp(t, u, on)
  <1>1. t \in State(prog) /\ t.v = v /\ u.v = w
    BY ToIs
  <1>2. To(prog, m, z, q, v) = [u EXCEPT !.v = v]
    BY DEF To, At
  <1>3. PICK n \in Nat : Trail(prog, t)[n] = To(prog, m, z, q, v)
    BY DEF Leads
  <1> QED
    BY <1>1, <1>2, <1>3 DEF KeepsUp

\* A step of both from the same place.
LEMMA TogetherKeepsUp ==
  ASSUME Ready, phase = "optimize", NEW x \in State(prog), NEW s \in State(prog), Calling(s),
         NEW before \in BOOLEAN, KeepsUp(x, s, before), x.pc = s.pc, x.out = s.out,
         NEW t \in Steps(prog, x), NEW u \in Steps(code, s), t.z = u.z,
         NEW on \in BOOLEAN, on => before /\ OnGraph(s, u)
  PROVE  t \in State(prog) /\ KeepsUp(t, u, on)
  <1>1. IsProgram(prog) /\ Coded /\ RemovedDead
    BY ReadyIs DEF GraphInv
  <1>2. /\ x \in Machine /\ s \in Machine /\ x.z = s.z /\ x.stack = s.stack
        /\ s.z \in BOOLEAN /\ s.stack \in Seq(Nat) /\ s.v \in Nat /\ x.v \in Nat
    <2>1. x \in Machine /\ s \in Machine
      BY DEF State
    <2>2. x.z = s.z /\ x.stack = s.stack
      <3>1. PICK n \in Nat : Trail(prog, x)[n] = [s EXCEPT !.v = x.v]
        BY DEF KeepsUp
      <3> QED
        BY <1>1, <3>1, OnTheWayIs
    <2> QED
      BY <2>1, <2>2 DEF Machine
  <1>3. u \in State(prog) /\ u \in Machine /\ (on /\ s.out = None => u.pc \in Followers(s.pc))
    <2>1. u \in State(prog) /\ (s.out = None => Lands(s.pc, u))
      BY StepLands
    <2>2. ASSUME on, s.out = None PROVE u.pc \in Followers(s.pc)
      <3>1. PICK i \in 1 .. Len(prog) : i = s.pc
        BY <2>2 DEF State
      <3>2. HasEdge(s, u)
        BY <2>2 DEF OnGraph, HasEdge
      <3>3. BlocksOK
        BY ReadyIs
      <3> QED
        BY <2>1, <2>2, <3>1, <3>2, <3>3, LandsFollows
    <2> QED
      BY <2>1, <2>2 DEF State
  <1>4. CASE s.out # None
    <2>1. t \in Machine /\ Returns(x, t.z, 0, t) /\ u \in Machine /\ Returns(s, u.z, 0, u)
      BY <1>2, <1>4, StepsOut
    <2>2. t = u
      <3>1. t.pc = u.pc /\ t.out = None /\ u.out = None /\ t.z = u.z /\ t.stack = u.stack /\ t.v = u.v
        BY <1>2, <2>1 DEF Returns
      <3>2. t \in State(prog)
        BY <1>3, <2>1, <3>1 DEF State
      <3> QED
        BY <1>3, <3>1, <3>2, SameState
    <2>3. t = [u EXCEPT !.v = t.v] /\ u.v = t.v
      BY <2>1, <2>2 DEF Machine
    <2> QED
      BY <1>1, <1>3, <2>2, <2>3, KeepsUpThere
  <1>5. CASE s.out = None
    <2>1. PICK i \in 1 .. Len(prog) : i = s.pc
      BY <1>5 DEF State
    <2>2. /\ code[i].op = prog[i].op \/ Removed(i)
          /\ IsEnder(code[i]) <=> IsEnder(prog[i])
          /\ IsEnder(code[i]) => code[i].cond = prog[i].cond /\ code[i].op = prog[i].op
      BY CodeIs DEF Removed, IsEnder, Enders
    <2>3. on => s.v = x.v \/ i \in DeadPlaces
      BY <2>1 DEF KeepsUp
    <2>4. on /\ code[i].op # "set" /\ ~Removed(i) => s.v = x.v \/ u.pc \in DeadPlaces
      BY <1>3, <1>5, <2>1, <2>3, DeadOn
    <2>5. \/ t \in Machine /\ GoesOn(prog, x, t)
          \/ Jumps(prog, x, t)
          \/ Calls(prog, x, t)
          \/ t \in Machine /\ prog[i].op = "ret" /\ Holds(prog[i].cond, x.z) /\ Returns(x, x.z, x.v, t)
      BY <1>2, <1>5, <2>1, StepsAre
    <2>6. \/ u \in Machine /\ GoesOn(code, s, u)
          \/ Jumps(code, s, u)
          \/ Calls(code, s, u)
          \/ u \in Machine /\ code[i].op = "ret" /\ Holds(code[i].cond, s.z) /\ Returns(s, s.z, s.v, u)
      BY <1>2, <1>5, <2>1, StepsAre
    <2>7. CASE GoesOn(code, s, u)
      <3>1. ~ (IsEnder(code[i]) /\ Holds(code[i].cond, s.z))
        BY <2>1, <2>7 DEF GoesOn
      <3>2. ~ (IsEnder(prog[i]) /\ Holds(prog[i].cond, x.z))
        BY <1>2, <2>2, <3>1
      <3>3. t \in Machine /\ GoesOn(prog, x, t)
        BY <2>1, <2>5, <3>2 DEF Jumps, Calls, IsEnder, Enders
      <3>4. /\ t.pc = u.pc /\ t.out = u.out /\ t.z = u.z /\ t.stack = u.stack
            /\ t.v = IF prog[i].op \in {"set", "asm"} THEN i ELSE x.v
            /\ u.v = IF code[i].op \in {"set", "asm"} THEN i ELSE s.v
            /\ u.out = None
        BY <1>2, <2>1, <2>7, <3>3 DEF GoesOn
      <3>5. t = [u EXCEPT !.v = t.v]
        BY <1>3, <3>3, <3>4 DEF Machine
      <3>6. t \in State(prog)
        BY <1>3, <3>3, <3>4 DEF State
      <3>7. on => u.v = t.v \/ u.pc \in DeadPlaces
        <4>1. CASE Removed(i)
          <5>1. i \in DOMAIN prog
            BY <1>1, ProgramIs
          <5>2. Followers(i) \subseteq DeadPlaces
            BY <1>1, <4>1, <5>1 DEF RemovedDead
          <5> QED
            BY <1>3, <1>5, <2>1, <5>2
        <4>2. CASE ~Removed(i)
          BY <2>2, <2>4, <3>4, <4>2
        <4> QED
          BY <4>1, <4>2
      <3> QED
        BY <1>1, <1>3, <3>5, <3>6, <3>7, KeepsUpThere
    <2>8. ASSUME NEW q \in Seq(Nat), code[i].op \in {"jp", "call"}, Holds(code[i].cond, s.z),
                 t = To(prog, prog[i].arg, x.z, q, x.v), u = To(code, code[i].arg, s.z, q, s.v)
          PROVE  t \in State(prog) /\ KeepsUp(t, u, on)
      <3>1. IsEnder(code[i]) /\ prog[i].op \in {"jp", "call"} /\ ~Removed(i) /\ code[i].op # "set"
        BY <2>2, <2>8 DEF IsEnder, Enders, Removed
      <3>2. Threads(prog, code, i)
        BY <1>1, <3>1 DEF Coded
      <3>3. code[i].arg \in Labels /\ Leads(prog, prog[i].arg, code[i].arg, s.z)
        BY <1>2, <2>2, <2>8, <3>1, <3>2 DEF Threads
      <3>4. prog[i].arg \in Labels
        BY <1>1, <3>1, JumpLabelsAre
      <3>5. u = To(prog, code[i].arg, s.z, q, s.v)
        BY <1>2, <2>8, ToCovered
      <3>6. on => s.v = x.v \/ u.pc \in DeadPlaces
        BY <2>4, <3>1
      <3>7. t = To(prog, prog[i].arg, s.z, q, x.v)
        BY <1>2, <2>8
      <3> QED
        BY <1>1, <1>2, <3>3, <3>4, <3>5, <3>6, <3>7, KeepsUpJumping
    <2>9. CASE Jumps(code, s, u)
      <3>1. code[i].op = "jp" /\ Holds(code[i].cond, s.z) /\ u = To(code, code[i].arg, s.z, s.stack, s.v)
        BY <2>1, <2>9 DEF Jumps
      <3>2. prog[i].op = "jp" /\ Holds(prog[i].cond, x.z) /\ IsEnder(prog[i])
        BY <1>2, <2>2, <3>1 DEF IsEnder, Enders
      <3>3. t = To(prog, prog[i].arg, x.z, x.stack, x.v)
        BY <2>1, <2>5, <3>2 DEF GoesOn, Jumps, Calls
      <3> QED
        BY <1>2, <2>8, <3>1, <3>3
    <2>10. CASE Calls(code, s, u)
      <3>1. code[i].op = "call" /\ Holds(code[i].cond, s.z) /\ u = To(code, code[i].arg, s.z, Append(s.stack, i + 1), s.v)
        BY <2>1, <2>10 DEF Calls
      <3>2. prog[i].op = "call" /\ Holds(prog[i].cond, x.z) /\ IsEnder(prog[i])
        BY <1>2, <2>2, <3>1 DEF IsEnder, Enders
      <3>3. t = To(prog, prog[i].arg, x.z, Append(x.stack, i + 1), x.v)
        BY <2>1, <2>5, <3>2 DEF GoesOn, Jumps, Calls
      <3>4. Append(s.stack, i + 1) \in Seq(Nat)
        <4>1. i + 1 \in Nat
          BY <2>1
        <4> QED
          BY <1>2, <4>1, AppendProperties
      <3>5. PICK q \in Seq(Nat) : q = Append(s.stack, i + 1)
        BY <3>4
      <3> QED
        BY <1>2, <2>8, <3>1, <3>3, <3>5
    <2>11. CASE u \in Machine /\ code[i].op = "ret" /\ Holds(code[i].cond, s.z) /\ Returns(s, s.z, s.v, u)
      <3>1. prog[i].op = "ret" /\ Holds(prog[i].cond, x.z) /\ IsEnder(prog[i]) /\ ~Removed(i) /\ code[i].op # "set"
        BY <1>2, <2>2, <2>11 DEF IsEnder, Enders, Removed
      <3>2. t \in Machine /\ Returns(x, x.z, x.v, t)
        BY <2>1, <2>5, <3>1 DEF GoesOn, Jumps, Calls
      <3>3. /\ t.pc = u.pc /\ t.out = u.out /\ t.z = u.z /\ t.stack = u.stack /\ t.v = x.v /\ u.v = s.v
            /\ u.out = None
        BY <1>2, <2>11, <3>2 DEF Returns
      <3>4. t = [u EXCEPT !.v = t.v]
        BY <1>3, <3>2, <3>3 DEF Machine
      <3>5. t \in State(prog)
        BY <1>3, <3>2, <3>3 DEF State
      <3>6. on => u.v = t.v \/ u.pc \in DeadPlaces
        BY <2>4, <3>1, <3>3
      <3> QED
        BY <1>1, <1>3, <3>4, <3>5, <3>6, KeepsUpThere
    <2> QED
      BY <2>6, <2>7, <2>9, <2>10, <2>11
  <1> QED
    BY <1>4, <1>5

\* A step of the original alone, on its way.
LEMMA CatchUpKeepsUp ==
  ASSUME IsProgram(prog), NEW x \in State(prog), NEW s \in State(prog), NEW on \in BOOLEAN, KeepsUp(x, s, on),
         ~(x.pc = s.pc /\ x.out = s.out), NEW t \in Steps(prog, x)
  PROVE  t \in State(prog) /\ KeepsUp(t, s, on)
  <1>1. PICK n \in Nat : Trail(prog, x)[n] = [s EXCEPT !.v = x.v]
    BY DEF KeepsUp
  <1>2. Moving(prog, x) /\ n # 0
    BY <1>1, OnTheWayIs
  <1>3. t = Go(prog, x) /\ t \in State(prog) /\ t.v = x.v
    BY <1>2, GoIs
  <1>4. PICK m \in Nat : n = 1 + m
    BY <1>2
  <1>5. Trail(prog, x)[1] = t
    <2>1. Trail(prog, x)[0 + 1] = Go(prog, Trail(prog, x)[0]) /\ Trail(prog, x)[0] = x
      BY TrailIs
    <2> QED
      BY <1>3, <2>1
  <1>6. Trail(prog, t)[m] = [s EXCEPT !.v = t.v]
    <2>1. Trail(prog, x)[1 + m] = Trail(prog, Trail(prog, x)[1])[m]
      BY TrailShift
    <2> QED
      BY <1>1, <1>3, <1>4, <1>5, <2>1
  <1>7. on => s.v = t.v \/ s.pc \in DeadPlaces
    BY <1>3 DEF KeepsUp
  <1> QED
    BY <1>3, <1>6, <1>7 DEF KeepsUp
-----------------------------------------------------------------------------
(* The two runs.                                                            *)

LEMMA RunStarts ==
  ASSUME RunInit
  PROVE  RunInv
  <1>1. GraphInv /\ running = "no" /\ strayed = FALSE
    BY GraphInit DEF RunInit
  <1> QED
    BY <1>1 DEF RunInv

\* The step of a run changes nothing of the graph, or the code, or what they say.
LEMMA RunFixed ==
  ASSUME GraphInv, vars' = vars
  PROVE  /\ GraphInv' /\ (JustTraced' <=> JustTraced) /\ phase' = phase /\ todo' = todo
         /\ prog' = prog /\ code' = code
         /\ (PlainRoutines' <=> PlainRoutines) /\ (NoJumpInto' <=> NoJumpInto)
         /\ DeadPlaces' = DeadPlaces
  <1>1. /\ phase' = phase /\ prog' = prog /\ code' = code /\ blocks' = blocks /\ goes_to' = goes_to
        /\ pending' = pending /\ visited' = visited /\ todo' = todo
    BY DEF vars
  <1>2. GraphInv'
    BY <1>1, GraphStill
  <1>3. /\ JUMP_LABELS' = JUMP_LABELS /\ (PlainRoutines' <=> PlainRoutines)
        /\ (NoJumpInto' <=> NoJumpInto)
    BY <1>1, ProgramFixed
  <1>4. \A c : End(c)' = End(c) /\ BlockOf(c)' = BlockOf(c)
    BY <1>1, BlocksFixed
  <1>5. \A i : Followers(i)' = Followers(i)
    BY <1>1, <1>4 DEF Followers, GoesTo
  <1>6. \A A : DeadSet(A)' <=> DeadSet(A)
    BY <1>1, <1>5 DEF DeadSet
  <1>7. DeadPlaces' = DeadPlaces
    BY <1>1, <1>6 DEF DeadPlaces
  <1> QED
    BY <1>1, <1>2, <1>3, <1>7 DEF JustTraced

LEMMA FramesFixed ==
  ASSUME prog' = prog, NEW t, is' = t
  PROVE  (Frames(is)' <=> Frames(t)) /\ (Calling(is)' <=> Calling(t))
  BY DEF Frames, InRoutine, RoutineEnd, Calling

LEMMA OptimizeKeeps ==
  ASSUME RunInv, Optimize
  PROVE  RunInv'
  <1>1. GraphInv' /\ running' = "no" /\ strayed' = strayed /\ strayed \in BOOLEAN /\ ~strayed
    BY GraphStep DEF Optimize, RunInv
  <1> QED
    BY <1>1 DEF RunInv

LEMMA RunKeeps ==
  ASSUME RunInv, Run
  PROVE  RunInv'
  <1>1. GraphInv /\ vars' = vars
    BY DEF RunInv, Run
  <1>2. /\ GraphInv' /\ (JustTraced' <=> JustTraced) /\ phase' = phase /\ todo' = todo
        /\ prog' = prog /\ DeadPlaces' = DeadPlaces
    BY <1>1, RunFixed
  <1>3. \/ running' = "traced" /\ JustTraced
        \/ running' = "optimized" /\ phase = "optimize" /\ todo = {}
    <2>1. \/ phase = "thread" /\ todo = JUMP_LABELS /\ running' = "traced"
          \/ phase = "optimize" /\ todo = {} /\ running' = "optimized"
      BY DEF Run
    <2> QED
      BY <2>1 DEF JustTraced
  <1>4. PICK z \in BOOLEAN : was' = At(1, z, <<>>, 0) /\ is' = was'
    BY DEF Run
  <1>5. PICK t : t = At(1, z, <<>>, 0)
    OBVIOUS
  <1>6. t.pc = 1 /\ t.out = None /\ t.z = z /\ t.stack = <<>> /\ t.v = 0
    BY <1>5 DEF At
  <1>7. IsProgram(prog)
    BY <1>1, ProgramsArePrograms DEF GraphInv, Typed
  <1>8. t \in State(prog)
    <2>1. <<>> \in Seq(Nat)
      OBVIOUS
    <2>2. t \in Machine
      BY <1>5, <2>1 DEF At, Machine
    <2>3. 1 \in 1 .. Len(prog)
      BY <1>7, ProgramIs
    <2> QED
      BY <1>6, <2>2, <2>3 DEF State
  <1>9. Frames(t) /\ Calling(t)
    <2>1. 1 .. Len(t.stack) = {}
      BY <1>6
    <2> QED
      BY <2>1 DEF Frames, Calling
  <1>10. Trail(prog, t)[0] = [t EXCEPT !.v = t.v]
    <2>1. Trail(prog, t)[0] = t
      BY <1>7, <1>8, TrailIs
    <2>2. t = [t EXCEPT !.v = t.v]
      BY <1>5 DEF At
    <2> QED
      BY <2>1, <2>2
  <1>11. was' = t /\ is' = t
    BY <1>4, <1>5
  <1>12. Frames(is)' /\ Calling(is)'
    BY <1>2, <1>9, <1>11, FramesFixed
  <1>13. OnTheWay'
    BY <1>2, <1>10, <1>11 DEF OnTheWay
  <1>14. strayed' = strayed /\ strayed \in BOOLEAN /\ ~strayed
    BY DEF Run, RunInv
  <1>15. (is \in State(prog))' /\ (was \in State(prog))' /\ is'.v = was'.v
    BY <1>2, <1>8, <1>11
  <1> QED
    BY <1>2, <1>3, <1>12, <1>13, <1>14, <1>15 DEF RunInv

\* Once the optimizer is done both runs step as the lemmas on them say.
LEMMA RunsStep ==
  ASSUME RunInv, running # "no", vars' = vars, running' = running,
         NEW x, was' = x, NEW s, is' = s, NEW off \in BOOLEAN, strayed' = off,
         s \in State(prog), Calling(s),
         PlainRoutines /\ (running = "optimized" => NoJumpInto) => Frames(s) /\ ~off,
         running = "optimized" => x \in State(prog) /\ KeepsUp(x, s, ~off)
  PROVE  RunInv'
  <1>1. GraphInv
    BY DEF RunInv
  <1>2. /\ GraphInv' /\ (JustTraced' <=> JustTraced) /\ phase' = phase /\ todo' = todo
        /\ prog' = prog /\ code' = code /\ DeadPlaces' = DeadPlaces
        /\ (PlainRoutines' <=> PlainRoutines) /\ (NoJumpInto' <=> NoJumpInto)
    BY <1>1, RunFixed
  <1>3. (Frames(is)' <=> Frames(s)) /\ (Calling(is)' <=> Calling(s))
    BY <1>2, FramesFixed
  <1>4. running = "optimized" => OnTheWay'
    BY <1>2 DEF KeepsUp, OnTheWay
  <1>5. running = "optimized" => (~off => s.v = x.v \/ s.pc \in DeadPlaces)
    BY DEF KeepsUp
  <1>6. running' = "optimized" =>
          /\ (was \in State(prog))' /\ OnTheWay'
          /\ (~strayed => is.v = was.v \/ is.pc \in DeadPlaces)'
    BY <1>2, <1>4, <1>5
  <1>7. running' # "no" => (is \in State(prog))' /\ Calling(is)'
    BY <1>2, <1>3
  <1>8. running' # "no" /\ PlainRoutines' /\ (running' = "optimized" => NoJumpInto') =>
          Frames(is)' /\ ~strayed'
    BY <1>2, <1>3
  <1>9. /\ running' \in {"no", "traced", "optimized"} /\ strayed' \in BOOLEAN
        /\ running' # "no"
        /\ running' = "traced" => JustTraced'
        /\ running' = "optimized" => phase' = "optimize" /\ todo' = {}
    BY <1>2 DEF RunInv
  <1> QED
    BY <1>2, <1>6, <1>7, <1>8, <1>9 DEF RunInv

LEMMA TogetherKeeps ==
  ASSUME RunInv, Together
  PROVE  RunInv'
  <1>1. /\ running # "no" /\ vars' = vars /\ running' = running /\ was.out = is.out /\ was.pc = is.pc
        /\ was' \in Steps(prog, was) /\ is' \in Steps(code, is) /\ was'.z = is'.z
        /\ strayed' = (strayed \/ ~OnGraph(is, is')) /\ strayed \in BOOLEAN
    BY DEF Together, SamePlace, RunInv
  <1>2. PICK x, s : was' = x /\ is' = s
    OBVIOUS
  <1>3. PICK off \in BOOLEAN : off = (strayed \/ ~OnGraph(is, s)) /\ strayed' = off
    BY <1>1, <1>2
  <1>4. Ready /\ is \in State(prog) /\ Calling(is)
    BY <1>1 DEF RunInv, Ready
  <1>5. s \in State(prog) /\ Calling(s)
    BY <1>1, <1>2, <1>4, StepLands
  <1>6. ASSUME PlainRoutines, running = "optimized" => NoJumpInto
        PROVE  Frames(s) /\ ~off
    <2>1. Stands /\ Frames(is) /\ ~strayed
      BY <1>1, <1>6 DEF RunInv, Stands
    <2>2. Frames(s) /\ (is.out = None => Covered(is.pc, s))
      BY <1>1, <1>2, <1>4, <2>1, StepCovered
    <2>3. OnGraph(is, s)
      <3>1. CASE is.out # None
        BY <3>1 DEF OnGraph
      <3>2. CASE is.out = None
        <4>1. PICK i \in 1 .. Len(prog) : i = is.pc
          BY <1>4, <3>2 DEF State
        <4>2. BlocksOK
          BY <1>4, ReadyIs
        <4>3. HasEdge(is, s)
          BY <2>2, <3>2, <4>1, <4>2, CoveredHasEdge
        <4> QED
          BY <4>3 DEF HasEdge, OnGraph
      <3> QED
        BY <3>1, <3>2
    <2> QED
      BY <1>3, <2>1, <2>2, <2>3
  <1>7. ASSUME running = "optimized"
        PROVE  x \in State(prog) /\ KeepsUp(x, s, ~off)
    <2>1. phase = "optimize" /\ was \in State(prog) /\ KeepsUp(was, is, ~strayed)
      BY <1>7 DEF RunInv, OnTheWay, KeepsUp
    <2>2. PICK before \in BOOLEAN : before = ~strayed
      OBVIOUS
    <2>3. PICK on \in BOOLEAN : on = ~off
      OBVIOUS
    <2>4. (on => before /\ OnGraph(is, s)) /\ KeepsUp(was, is, before)
      BY <1>3, <2>1, <2>2, <2>3
    <2>5. x \in State(prog) /\ KeepsUp(x, s, on)
      BY <1>1, <1>2, <1>4, <2>1, <2>4, TogetherKeepsUp
    <2> QED
      BY <2>3, <2>5
  <1> QED
    BY <1>1, <1>2, <1>3, <1>5, <1>6, <1>7, RunsStep

LEMMA CatchUpKeeps ==
  ASSUME RunInv, CatchUp
  PROVE  RunInv'
  <1>1. /\ running # "no" /\ vars' = vars /\ running' = running /\ ~(was.pc = is.pc /\ was.out = is.out)
        /\ was' \in Steps(prog, was) /\ is' = is /\ strayed' = strayed /\ strayed \in BOOLEAN
    BY DEF CatchUp, SamePlace, RunInv
  <1>2. PICK x, s : was' = x /\ is = s
    OBVIOUS
  <1>3. PICK off \in BOOLEAN : off = strayed
    BY <1>1
  <1>4. s \in State(prog) /\ Calling(s) /\ is' = s /\ strayed' = off
    BY <1>1, <1>2, <1>3 DEF RunInv
  <1>5. PlainRoutines /\ (running = "optimized" => NoJumpInto) => Frames(s) /\ ~off
    BY <1>1, <1>2, <1>3 DEF RunInv
  <1>6. ASSUME running = "optimized"
        PROVE  x \in State(prog) /\ KeepsUp(x, s, ~off)
    <2>1. PICK on \in BOOLEAN : on = ~off
      OBVIOUS
    <2>2. IsProgram(prog)
      BY ProgramsArePrograms DEF RunInv, GraphInv, Typed
    <2>3. was \in State(prog) /\ KeepsUp(was, s, on)
      BY <1>2, <1>3, <1>6, <2>1 DEF RunInv, OnTheWay, KeepsUp
    <2>4. x \in State(prog) /\ KeepsUp(x, s, on)
      BY <1>1, <1>2, <1>4, <2>2, <2>3, CatchUpKeepsUp
    <2> QED
      BY <2>1, <2>4
  <1> QED
    BY <1>1, <1>2, <1>4, <1>5, <1>6, RunsStep

LEMMA StillKeeps ==
  ASSUME RunInv, runvars' = runvars
  PROVE  RunInv'
  <1>1. vars' = vars /\ running' = running /\ was' = was /\ is' = is /\ strayed' = strayed
    BY DEF runvars
  <1>2. CASE running = "no"
    <2>1. GraphInv'
      BY <1>1, RunFixed DEF RunInv
    <2>2. ~strayed /\ strayed \in BOOLEAN
      BY <1>2 DEF RunInv
    <2> QED
      BY <1>1, <1>2, <2>1, <2>2 DEF RunInv
  <1>3. CASE running # "no"
    <2>1. PICK x, s : was = x /\ is = s
      OBVIOUS
    <2>2. PICK off \in BOOLEAN : off = strayed
      BY DEF RunInv
    <2>3. was' = x /\ is' = s /\ strayed' = off /\ s \in State(prog) /\ Calling(s)
      BY <1>1, <1>3, <2>1, <2>2 DEF RunInv
    <2>4. PlainRoutines /\ (running = "optimized" => NoJumpInto) => Frames(s) /\ ~off
      BY <1>3, <2>1, <2>2 DEF RunInv
    <2>5. running = "optimized" => x \in State(prog) /\ KeepsUp(x, s, ~off)
      BY <2>1, <2>2 DEF RunInv, OnTheWay, KeepsUp
    <2> QED
      BY <1>1, <1>3, <2>3, <2>4, <2>5, RunsStep
  <1> QED
    BY <1>2, <1>3

LEMMA RunStep ==
  ASSUME RunInv, [RunNext]_runvars
  PROVE  RunInv'
  <1>1. CASE Optimize
    BY <1>1, OptimizeKeeps
  <1>2. CASE Run
    BY <1>2, RunKeeps
  <1>3. CASE Together
    BY <1>3, TogetherKeeps
  <1>4. CASE CatchUp
    BY <1>4, CatchUpKeeps
  <1>5. CASE UNCHANGED runvars
    BY <1>5, StillKeeps
  <1> QED
    BY <1>1, <1>2, <1>3, <1>4, <1>5 DEF RunNext

LEMMA ReadsIs ==
  ASSUME RunInv
  PROVE  ReadsAlike
  <1> SUFFICES ASSUME running = "optimized"
               PROVE  /\ is.z = was.z /\ is.stack = was.stack
                      /\ IF SamePlace THEN Reading(code, is) /\ ~strayed => is = was ELSE Moving(prog, was)
    BY DEF ReadsAlike
  <1>1. /\ is \in State(prog) /\ was \in State(prog) /\ IsProgram(prog)
        /\ ~strayed => is.v = was.v \/ is.pc \in DeadPlaces
    BY ProgramsArePrograms DEF RunInv, GraphInv, Typed
  <1>2. PICK n \in Nat : Trail(prog, was)[n] = [is EXCEPT !.v = was.v]
    BY DEF RunInv, OnTheWay
  <1>3. /\ was.z = is.z /\ was.stack = is.stack
        /\ ~(was.pc = is.pc /\ was.out = is.out) => Moving(prog, was)
    BY <1>1, <1>2, OnTheWayIs
  <1>4. ASSUME SamePlace, Reading(code, is), ~strayed PROVE is = was
    <2>1. is.pc \notin DeadPlaces
      <3>1. CASE is.out # None
        <4>1. is.pc = 0 /\ DOMAIN prog = 1 .. Len(prog) /\ Len(prog) \in Nat
          BY <1>1, <3>1, ProgramIs DEF State
        <4>2. 0 \notin DOMAIN prog
          BY <4>1
        <4> QED
          BY <4>1, <4>2, DeadPlacesDead
      <3>2. CASE code[is.pc].op \in {"use", "asm"}
        BY <3>2, DeadPlacesDead DEF DeadSet
      <3> QED
        BY <1>4, <3>1, <3>2 DEF Reading
    <2> QED
      BY <1>1, <1>3, <1>4, <2>1, SameState DEF SamePlace
  <1> QED
    BY <1>3, <1>4 DEF SamePlace

LEMMA RunImplements ==
  /\ RunInit => Init
  /\ [RunNext]_runvars => [Next]_vars
  <1>1. RunInit => Init
    BY DEF RunInit
  <1>2. [RunNext]_runvars => [Next]_vars
    BY DEF RunNext, Optimize, Run, Together, CatchUp, runvars
  <1> QED
    BY <1>1, <1>2

\* In every state of the two runs their invariant holds.
THEOREM RunInvariant == RunSpec => []RunInv
  <1>1. RunInit => RunInv
    BY RunStarts
  <1>2. RunInv /\ [RunNext]_runvars => RunInv'
    BY RunStep
  <1> QED
    BY <1>1, <1>2, PTL DEF RunSpec

\* The runs change nothing of the optimizer: what holds of it holds beside them.
THEOREM RunsOptimizer == RunSpec => Spec
  BY RunImplements, PTL DEF RunSpec, Spec

\* If every routine called gets to its ret before a jump or call without condition
\* (PlainRoutines), the traced graph has an edge for every way a run leaves a block;
\* and so has the shortened one for what the optimizer made of the program, if no
\* conditional jump or call stands just before a label with a jump behind it
\* (NoJumpInto).
THEOREM GraphCoversRuns == RunSpec => []FlowCovered
  BY RunInvariant, FlowIs, PTL

\* Whatever the program and its routines, its jumps and calls lead after the
\* optimization where they did; and as long as its run goes only ways the graph
\* has edges for, what it reads is what it read before.  With PlainRoutines and
\* NoJumpInto it always does (GraphCoversRuns); without them a load that is read
\* may go.
THEOREM OptimizedReadsAlike == RunSpec => []ReadsAlike
  BY RunInvariant, ReadsIs, PTL

\* The type of the optimizer beside the runs: its edges join blocks of the program
\* and the dummy block of undefined labels, and it traces only calls.
THEOREM RunTypes == RunSpec => []TypeOK
  BY RunsOptimizer, OptimizerTypes, PTL

\* Shortening changes no way of the program beside the runs.
THEOREM RunJumpsAlike == RunSpec => []JumpsAlike
  BY RunsOptimizer, OptimizerJumpsAlike, PTL
=============================================================================
