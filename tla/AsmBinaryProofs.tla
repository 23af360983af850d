--------------------------- MODULE AsmBinaryProofs ---------------------------
(***************************************************************************)
(* Theorems of AsmMemory about the binary: in the binary of a source that  *)
(* is accepted every operand is the address of the label its text means,   *)
(* and a program with #init lines starts with the calls of their routines. *)
(*                                                                         *)
(* An operand is bound, from the instruction on, to the object of what its *)
(* text means, whatever is declared, opened or closed afterwards; what the *)
(* memory has for the instruction stays as it is; and dump puts the bytes  *)
(* where the instructions are.                                             *)
(***************************************************************************)
EXTENDS AsmMemoryProofs, WellFoundedInduction

-----------------------------------------------------------------------------
(* What a name means.                                                      *)

References(P) == {j \in DOMAIN P : P[j].is \in {"use", "1B", "1F"}}

\* In a statement with this path, x is the label of PROC m, or the global one.
Means(P, x, path, m) ==
  IF m = 0 THEN \A i \in DOMAIN path : ~LocalIn(P, x, path[i])
  ELSE \E i \in DOMAIN path :
         /\ path[i] = m /\ LocalIn(P, x, m)
         /\ \A k \in DOMAIN path : k > i => ~LocalIn(P, x, path[k])

\* No PROC inside one that has a name LOCAL declares that name for itself.
Unshadowed(P) ==
  \A j \in Labels(P) : \A i \in 1 .. Len(P[j].path) - 1 :
    LocalIn(P, P[j].name, P[j].path[i]) => Private(P, j)

\* PROCs are lines before the statements in them; in one that has just begun
\* there are only LOCALs.
Inside(S, P) ==
  /\ \A j \in DOMAIN P : \A i \in DOMAIN P[j].path : P[j].path[i] \in 1 .. j - 1
  /\ Begun(S, P) =>
       \A j \in DOMAIN P : \A i \in DOMAIN P[j].path :
         P[j].path[i] = S[Len(S)] => P[j].is = "LOCAL"

\* A local label is found before those of the scopes around it.
Exposed(L, T) ==
  \A s, t \in DOMAIN T : \A x \in DOMAIN T[s] \cap DOMAIN T[t] :
    s < t /\ L[T[s][x]].local => L[T[t][x]].local

\* The value of an object that is not local is the address of a declaration of
\* the global label.
Known(L, P) ==
  \A id \in DOMAIN L : ~L[id].local /\ Has(L, id) =>
    \E k \in Labels(P) : P[k].name = L[id].name /\ P[k].at = L[id].value /\ ~Private(P, k)

Meaning(L, T, S, P) == Inside(S, P) /\ Exposed(L, T) /\ Known(L, P)

\* No table has this object.
Free(T, id) == \A s \in DOMAIN T : \A x \in DOMAIN T[s] : T[s][x] # id

\* An operand x that means the label of m is the object id: the one of the PROC
\* while that is open, and one with the address of a declaration afterwards.
Bound(L, T, S, P, x, m, id) ==
  /\ id \in DOMAIN L /\ L[id].name = x
  /\ m = 0 => ~L[id].local
  /\ m # 0 =>
       /\ LocalIn(P, x, m)
       /\ \A i \in DOMAIN S : S[i] = m => x \in DOMAIN T[i + 1] /\ T[i + 1][x] = id
       /\ (\A i \in DOMAIN S : S[i] # m) =>
            /\ Free(T, id) /\ Has(L, id)
            /\ \E k \in Labels(P) : P[k].name = x /\ In(P, k) = m /\ P[k].at = L[id].value

\* What a step keeps of the objects, of what names mean and of the operands.
Follows(L, T, S, P, M, U, V, Q) ==
  /\ DOMAIN L \subseteq DOMAIN M
  /\ \A id \in DOMAIN L :
       /\ M[id].name = L[id].name /\ M[id].local = L[id].local
       /\ Has(L, id) => M[id].value = L[id].value
       /\ Free(T, id) => Free(U, id) /\ M[id].value = L[id].value
  /\ \A j \in References(P) :
       /\ j \in References(Q) /\ Q[j] = P[j]
       /\ \A x, m : Means(P, x, P[j].path, m) => Means(Q, x, P[j].path, m)
  /\ \A x, m, id : Bound(L, T, S, P, x, m, id) => Bound(M, U, V, Q, x, m, id)

-----------------------------------------------------------------------------
(* What follows: one lemma for each way a step changes the labels.         *)

LEMMA FollowsTwice ==
  ASSUME NEW L, NEW T, NEW S, NEW P, NEW M, NEW U, NEW V, NEW Q, NEW N, NEW W, NEW X, NEW R,
         Follows(L, T, S, P, M, U, V, Q), Follows(M, U, V, Q, N, W, X, R)
  PROVE  Follows(L, T, S, P, N, W, X, R)
  <1>1. /\ DOMAIN L \subseteq DOMAIN M /\ DOMAIN M \subseteq DOMAIN N
        /\ \A id \in DOMAIN L :
             /\ M[id].name = L[id].name /\ M[id].local = L[id].local
             /\ Has(L, id) => M[id].value = L[id].value
             /\ Free(T, id) => Free(U, id) /\ M[id].value = L[id].value
        /\ \A id \in DOMAIN M :
             /\ N[id].name = M[id].name /\ N[id].local = M[id].local
             /\ Has(M, id) => N[id].value = M[id].value
             /\ Free(U, id) => Free(W, id) /\ N[id].value = M[id].value
    BY DEF Follows
  <1>2. \A id \in DOMAIN L :
          /\ N[id].name = L[id].name /\ N[id].local = L[id].local
          /\ Has(L, id) => N[id].value = L[id].value
          /\ Free(T, id) => Free(W, id) /\ N[id].value = L[id].value
    BY <1>1 DEF Has
  <1>3. \A j \in References(P) :
          /\ j \in References(R) /\ R[j] = P[j]
          /\ \A x, m : Means(P, x, P[j].path, m) => Means(R, x, P[j].path, m)
    <2>1. \A j \in References(P) :
            /\ j \in References(Q) /\ Q[j] = P[j]
            /\ \A x, m : Means(P, x, P[j].path, m) => Means(Q, x, P[j].path, m)
      BY DEF Follows
    <2>2. \A j \in References(Q) :
            /\ j \in References(R) /\ R[j] = Q[j]
            /\ \A x, m : Means(Q, x, Q[j].path, m) => Means(R, x, Q[j].path, m)
      BY DEF Follows
    <2> QED
      BY ONLY <2>1, <2>2
  <1>4. \A x, m, id : Bound(L, T, S, P, x, m, id) => Bound(N, W, X, R, x, m, id)
    BY DEF Follows
  <1> QED
    BY <1>1, <1>2, <1>3, <1>4 DEF Follows

\* A statement is read.
LEMMA ReadFollows ==
  ASSUME NEW L, NEW T, NEW S, NEW P, NEW e, NEW Q, Extends(P, e, Q),
         Shape(L, T, S, P), Inside(S, P), e.path = S, e.is = "LOCAL" => Begun(S, P)
  PROVE  Follows(L, T, S, P, L, T, S, Q)
  <1>1. /\ \A j \in DOMAIN P : Q[j] = P[j] /\ In(Q, j) = In(P, j)
        /\ DOMAIN P \subseteq DOMAIN Q
        /\ Labels(P) \subseteq Labels(Q)
        /\ \A x, p : LocalIn(P, x, p) => LocalIn(Q, x, p)
        /\ \A x, p : LocalIn(Q, x, p) =>
             LocalIn(P, x, p) \/ (e.is = "LOCAL" /\ p = Innermost(S))
    BY DEF Extends
  <1>2. \A j \in References(P) : j \in DOMAIN P /\ j \in References(Q) /\ Q[j] = P[j]
    BY <1>1 DEF References
  <1>3. ASSUME NEW j \in References(P), NEW x, NEW i \in DOMAIN P[j].path
        PROVE  LocalIn(Q, x, P[j].path[i]) <=> LocalIn(P, x, P[j].path[i])
    <2>1. SUFFICES ASSUME e.is = "LOCAL", P[j].path[i] = Innermost(S) PROVE FALSE
      BY <1>1
    <2>2. Begun(S, P) /\ Innermost(S) = S[Len(S)]
      BY <2>1 DEF Begun, Innermost
    <2>3. P[j].is = "LOCAL"
      BY <1>2, <2>1, <2>2 DEF Inside
    <2> QED
      BY <2>3 DEF References
  <1>4. ASSUME NEW j \in References(P), NEW x, NEW m, Means(P, x, P[j].path, m)
        PROVE  Means(Q, x, P[j].path, m)
    BY <1>1, <1>3, <1>4 DEF Means
  <1>5. ASSUME NEW x, NEW m, NEW id, Bound(L, T, S, P, x, m, id) PROVE Bound(L, T, S, Q, x, m, id)
    <2>1. Labels(P) \subseteq DOMAIN P
      BY DEF Labels
    <2> QED
      BY <2>1, <1>1, <1>5 DEF Bound
  <1> QED
    BY <1>2, <1>4, <1>5 DEF Follows

\* An object that is in no table is made.
LEMMA GrownFollows ==
  ASSUME NEW L \in Seq(Objects), NEW T, NEW S, NEW P, NEW o \in Objects
  PROVE  Follows(L, T, S, P, Append(L, o), T, S, P)
  <1> DEFINE M == Append(L, o)
  <1>1. DOMAIN L \subseteq DOMAIN M /\ \A i \in DOMAIN L : M[i] = L[i]
    BY Appended
  <1> HIDE DEF M
  <1>2. ASSUME NEW x, NEW m, NEW id, Bound(L, T, S, P, x, m, id) PROVE Bound(M, T, S, P, x, m, id)
    BY <1>1, <1>2 DEF Bound, Has
  <1>3. Follows(L, T, S, P, M, T, S, P)
    BY <1>1, <1>2 DEF Follows
  <1> QED
    BY <1>3 DEF M

\* An object is put into the last table, or gets a value there.
LEMMA EnteredFollows ==
  ASSUME NEW L, NEW T, NEW S, NEW P, NEW M, NEW U, NEW x, NEW v, NEW loc,
         Shape(L, T, S, P), Unshared(T), Entered(L, T, M, U, x, v, loc),
         x \in DOMAIN T[Len(T)] =>
           /\ loc = L[T[Len(T)][x]].local
           /\ Has(L, T[Len(T)][x]) => v = L[T[Len(T)][x]].value
  PROVE  Follows(L, T, S, P, M, U, S, P)
  <1> DEFINE last == Len(T)
             new == U[Len(T)][x]
  <1>1. /\ DOMAIN U = DOMAIN T
        /\ \A s \in DOMAIN T : s # last => DOMAIN U[s] = DOMAIN T[s]
        /\ DOMAIN U[last] = DOMAIN T[last] \cup {x}
        /\ \A s \in DOMAIN T : \A y \in DOMAIN T[s] : s # last \/ y # x => U[s][y] = T[s][y]
        /\ M[new].name = x /\ M[new].value = v /\ M[new].local = loc
        /\ DOMAIN L \subseteq DOMAIN M
        /\ \A id \in DOMAIN L : id # new => M[id] = L[id]
        /\ x \in DOMAIN T[last] => new = T[last][x]
        /\ x \notin DOMAIN T[last] => new \notin DOMAIN L
    BY DEF Entered, Object
  <1>2. \A s \in DOMAIN T : \A y \in DOMAIN T[s] : T[s][y] \in DOMAIN L /\ L[T[s][y]].name = y
    BY DEF Shape
  <1>3. last \in DOMAIN T /\ last \in Nat /\ DOMAIN T = 1 .. last /\ Len(S) = last - 1
        /\ DOMAIN S = 1 .. Len(S) /\ Len(S) \in Nat
    BY InnermostHome
  <1>4. x \in DOMAIN T[last] =>
          loc = L[new].local /\ (Has(L, new) => v = L[new].value) /\ L[new].name = x
    BY <1>1, <1>2, <1>3
  <1> HIDE DEF new, last
  <1>5. ASSUME NEW id \in DOMAIN L
        PROVE  /\ M[id].name = L[id].name /\ M[id].local = L[id].local
               /\ Has(L, id) => M[id].value = L[id].value
               /\ Free(T, id) => Free(U, id) /\ M[id].value = L[id].value
    <2>1. CASE id = new
      <3>1. x \in DOMAIN T[last] /\ ~Free(T, id)
        BY <2>1, <1>1, <1>3 DEF Free
      <3> QED
        BY <2>1, <3>1, <1>1, <1>4
    <2>2. CASE id # new
      <3>1. M[id] = L[id]
        BY <2>2, <1>1
      <3>2. ASSUME Free(T, id) PROVE Free(U, id)
        <4> SUFFICES ASSUME NEW s \in DOMAIN T, NEW y \in DOMAIN U[s] PROVE U[s][y] # id
          BY <1>1 DEF Free
        <4>1. CASE s = last /\ y = x
          BY <4>1, <2>2 DEF new, last
        <4>2. CASE ~(s = last /\ y = x)
          <5>1. y \in DOMAIN T[s] /\ U[s][y] = T[s][y]
            BY <4>2, <1>1
          <5> QED
            BY <5>1, <3>2 DEF Free
        <4> QED
          BY <4>1, <4>2
      <3> QED
        BY <3>1, <3>2
    <2> QED
      BY <2>1, <2>2
  <1>6. ASSUME NEW y, NEW m, NEW id, Bound(L, T, S, P, y, m, id) PROVE Bound(M, U, S, P, y, m, id)
    <2>1. id \in DOMAIN L /\ L[id].name = y
      BY <1>6 DEF Bound
    <2>2. ASSUME NEW i \in DOMAIN S, y \in DOMAIN T[i + 1], T[i + 1][y] = id
          PROVE  y \in DOMAIN U[i + 1] /\ U[i + 1][y] = id
      <3>1. i + 1 \in DOMAIN T
        BY <1>3
      <3>2. CASE i + 1 = last /\ y = x
        BY <3>2, <2>2, <1>1 DEF new, last
      <3>3. CASE ~(i + 1 = last /\ y = x)
        BY <3>1, <3>3, <2>2, <1>1
      <3> QED
        BY <3>2, <3>3
    <2> QED
      BY <1>1, <1>5, <1>6, <2>1, <2>2 DEF Bound, Has
  <1> QED
    BY <1>1, <1>5, <1>6 DEF Follows

\* A PROC is opened.
LEMMA ProcFollows ==
  ASSUME NEW L, NEW T, NEW S, NEW P, Shape(L, T, S, P)
  PROVE  Follows(L, T, S, P, L, Append(T, <<>>), Append(S, Len(P)), P)
  <1> DEFINE U == Append(T, <<>>)
             V == Append(S, Len(P))
  <1>1. /\ Len(T) \in Nat /\ DOMAIN T = 1 .. Len(T) /\ Len(S) = Len(T) - 1 /\ DOMAIN S = 1 .. Len(S)
        /\ Len(S) \in Nat /\ T \in Seq(Tables) /\ S \in Seq(Nat) /\ P \in Seq(Source)
    BY InnermostHome DEF Shape
  <1>2. /\ DOMAIN U = DOMAIN T \cup {Len(T) + 1} /\ U[Len(T) + 1] = <<>>
        /\ \A s \in DOMAIN T : U[s] = T[s]
    BY ONLY <1>1, EmptyTable, Appended
  <1>3. /\ DOMAIN V = DOMAIN S \cup {Len(S) + 1} /\ V[Len(S) + 1] = Len(P)
        /\ \A i \in DOMAIN S : V[i] = S[i]
    <2>1. Len(P) \in Nat
      BY <1>1
    <2> QED
      BY ONLY <1>1, <2>1, Appended
  <1> HIDE DEF U, V
  <1>4. \A id : Free(T, id) => Free(U, id)
    BY <1>2 DEF Free
  <1>5. ASSUME NEW x, NEW m, NEW id, Bound(L, T, S, P, x, m, id) PROVE Bound(L, U, V, P, x, m, id)
    <2>1. m # 0 => m # Len(P)
      <3> SUFFICES ASSUME m # 0 PROVE m # Len(P)
        OBVIOUS
      <3>1. PICK j \in DOMAIN P : In(P, j) = m
        BY <1>5 DEF Bound, LocalIn
      <3>2. In(P, j) \in 0 .. j - 1 /\ j \in 1 .. Len(P) /\ Len(P) \in Nat
        BY <1>1 DEF Shape
      <3> QED
        BY <3>1, <3>2
    <2>2. m # 0 => \A i \in DOMAIN V : V[i] = m => i \in DOMAIN S
      BY <2>1, <1>3
    <2>3. \A i \in DOMAIN S : i + 1 \in DOMAIN T
      BY <1>1
    <2>4. (\A i \in DOMAIN V : V[i] # m) => \A i \in DOMAIN S : S[i] # m
      BY <1>3
    <2> QED
      BY <1>2, <1>3, <1>4, <1>5, <2>2, <2>3, <2>4 DEF Bound
  <1>6. Follows(L, T, S, P, L, U, V, P)
    BY <1>4, <1>5 DEF Follows
  <1> QED
    BY <1>6 DEF U, V

\* A PROC ends, and its LOCAL labels are declared.
LEMMA EndFollows ==
  ASSUME NEW L, NEW T, NEW S, NEW P, NEW M, NEW U,
         Shape(L, T, S, P), Scoped(L, T, S, P), Left(L, T, M, U), Len(T) > 1,
         \A y \in DOMAIN T[Len(T)] : L[T[Len(T)][y]].local => Has(L, T[Len(T)][y]),
         \A y \in Moves(L, T) \cap DOMAIN T[1] : ~Has(L, T[1][y])
  PROVE  Follows(L, T, S, P, M, U, SubSeq(S, 1, Len(S) - 1), P)
  <1> DEFINE V == SubSeq(S, 1, Len(S) - 1)
             n == Len(T)
             G == Moves(L, T)
  <1>1. /\ n \in Nat /\ n > 1 /\ DOMAIN T = 1 .. n /\ Len(S) = n - 1 /\ DOMAIN S = 1 .. n - 1
        /\ S \in Seq(Nat) /\ Len(S) \in Nat
        /\ \A s \in DOMAIN T : s # 1 => Home(S, s) # 0
    <2>1. S \in Seq(Nat)
      BY DEF Shape
    <2>2. /\ Len(T) \in Nat /\ DOMAIN T = 1 .. Len(T) /\ Len(S) \in Nat
          /\ DOMAIN S = 1 .. Len(S) /\ Len(S) = Len(T) - 1
          /\ \A s \in DOMAIN T : s # 1 => Home(S, s) # 0
      BY InnermostHome
    <2>3. Len(T) > 1
      OBVIOUS
    <2> QED
      BY ONLY <2>1, <2>2, <2>3
  <1>2. DOMAIN V = 1 .. n - 2 /\ \A i \in 1 .. n - 2 : V[i] = S[i]
    <2>1. Len(S) - 1 \in 0 .. Len(S) /\ Len(S) - 1 = n - 2
      BY <1>1
    <2>2. V \in Seq(Nat) /\ Len(V) = n - 2 /\ \A i \in 1 .. n - 2 : V[i] = S[i]
      BY ONLY <1>1, <2>1, Shortened
    <2> HIDE DEF V
    <2> QED
      BY <2>2
  <1>3. /\ U \in Seq(Tables) /\ Len(U) = n - 1
        /\ \A s \in 2 .. n - 1 : U[s] = T[s]
        /\ DOMAIN U[1] = DOMAIN T[1] \cup G
        /\ \A y \in DOMAIN T[1] : U[1][y] = T[1][y]
        /\ \A y \in G \ DOMAIN T[1] : U[1][y] = T[n][y]
        /\ \A y \in DOMAIN T[1] : y \in G =>
             M[T[1][y]] = Object(y, L[T[n][y]].value, L[T[1][y]].local)
        /\ DOMAIN M = DOMAIN L
        /\ \A k \in DOMAIN L : (\A y \in G : y \in DOMAIN T[1] => k # T[1][y]) => M[k] = L[k]
    BY DEF Left
  <1>4. \A s \in DOMAIN T : \A y \in DOMAIN T[s] : T[s][y] \in DOMAIN L /\ L[T[s][y]].name = y
    BY DEF Shape
  <1>5. \A y \in G : y \in DOMAIN T[n] /\ ~L[T[n][y]].local
    BY DEF Moves
  <1>6. \A y \in G : y \in DOMAIN T[1] => ~Has(L, T[1][y])
    OBVIOUS
  <1>7. DOMAIN U = 1 .. n - 1 /\ 1 \in DOMAIN T /\ n \in DOMAIN T
    BY <1>1, <1>3
  <1> HIDE DEF V, G, n
  <1>8. ASSUME NEW id, Free(T, id) PROVE Free(U, id)
    <2> SUFFICES ASSUME NEW s \in DOMAIN U, NEW y \in DOMAIN U[s] PROVE U[s][y] # id
      BY DEF Free
    <2>1. CASE s = 1
      BY <2>1, <1>3, <1>5, <1>7, <1>8 DEF Free
    <2>2. CASE s # 1
      <3>1. s \in 2 .. n - 1 /\ s \in DOMAIN T
        BY <2>2, <1>1, <1>7
      <3> QED
        BY <3>1, <1>3, <1>8 DEF Free
    <2> QED
      BY <2>1, <2>2
  <1>9. ASSUME NEW id \in DOMAIN L
        PROVE  /\ M[id].name = L[id].name /\ M[id].local = L[id].local
               /\ Has(L, id) => M[id].value = L[id].value
               /\ Free(T, id) => Free(U, id) /\ M[id].value = L[id].value
    <2>1. CASE \A y \in G : y \in DOMAIN T[1] => id # T[1][y]
      BY <2>1, <1>3, <1>8
    <2>2. CASE \E y \in G : y \in DOMAIN T[1] /\ id = T[1][y]
      <3>1. PICK y \in G : y \in DOMAIN T[1] /\ id = T[1][y]
        BY <2>2
      <3>2. M[id] = Object(y, L[T[n][y]].value, L[id].local) /\ L[id].name = y
        BY <3>1, <1>3, <1>4, <1>7
      <3>3. ~Has(L, id) /\ ~Free(T, id)
        BY <3>1, <1>6, <1>7 DEF Free
      <3> QED
        BY <3>2, <3>3 DEF Object
    <2> QED
      BY <2>1, <2>2
  <1>10. ASSUME NEW x, NEW m, NEW id, m # 0, Bound(L, T, S, P, x, m, id), \A i \in DOMAIN V : V[i] # m
         PROVE  /\ Free(U, id) /\ Has(M, id)
                /\ \E k \in Labels(P) : P[k].name = x /\ In(P, k) = m /\ P[k].at = M[id].value
    <2>1. id \in DOMAIN L /\ L[id].name = x
      BY <1>10 DEF Bound
    <2>2. CASE \A i \in DOMAIN S : S[i] # m
      <3>1. /\ Free(T, id) /\ Has(L, id)
            /\ \E k \in Labels(P) : P[k].name = x /\ In(P, k) = m /\ P[k].at = L[id].value
        BY <2>2, <1>10 DEF Bound
      <3> QED
        BY <2>1, <3>1, <1>9 DEF Has
    <2>3. CASE \E i \in DOMAIN S : S[i] = m
      <3>1. S[n - 1] = m /\ n - 1 \in DOMAIN S
        <4>1. PICK i \in DOMAIN S : S[i] = m
          BY <2>3
        <4>2. i \in 1 .. n - 1 /\ i \notin 1 .. n - 2 /\ n \in Nat
          BY <4>1, <1>1, <1>2, <1>10
        <4>3. i = n - 1
          BY ONLY <4>2
        <4> QED
          BY <4>1, <4>3
      <3>2. (n - 1) + 1 = n
        BY <1>1
      <3>3. x \in DOMAIN T[n] /\ T[n][x] = id
        BY <3>1, <3>2, <1>10 DEF Bound
      <3>4. Home(S, n) = m
        BY <3>1, <1>1 DEF Home
      <3>5. L[id].local
        <4>1. LocalIn(P, x, Home(S, n))
          BY <3>4, <1>10 DEF Bound
        <4>2. x \in Names
          <5>1. T[n] \in Tables
            BY <1>7 DEF Shape
          <5> QED
            BY <5>1, <3>3, TableEntry
        <4> QED
          BY <4>1, <4>2, <3>3, <1>7 DEF Scoped, Flags
      <3>6. Has(L, id)
        BY <3>3, <3>5 DEF n
      <3>7. PICK k \in Labels(P) : P[k].name = x /\ In(P, k) = m /\ P[k].at = L[id].value
        BY <3>3, <3>4, <3>5, <3>6, <1>7 DEF Scoped, Backed
      <3>8. Free(U, id)
        <4> SUFFICES ASSUME NEW s \in DOMAIN U, NEW y \in DOMAIN U[s], U[s][y] = id PROVE FALSE
          BY DEF Free
        <4>1. \A t \in DOMAIN T : \A z \in DOMAIN T[t] : T[t][z] = id => t = n
          BY <3>3, <1>7 DEF Scoped, Unshared
        <4>2. CASE s # 1
          <5>1. s \in 2 .. n - 1 /\ s \in DOMAIN T /\ s # n
            BY <4>2, <1>1, <1>7
          <5> QED
            BY <5>1, <4>1, <1>3
        <4>3. CASE s = 1
          <5>1. y \in G /\ T[n][y] = id
            BY <4>1, <4>3, <1>1, <1>3, <1>7
          <5> QED
            BY <5>1, <3>5, <1>5
        <4> QED
          BY <4>2, <4>3
      <3> QED
        BY <2>1, <3>6, <3>7, <3>8, <1>9 DEF Has
    <2> QED
      BY <2>2, <2>3
  <1>11. ASSUME NEW x, NEW m, NEW id, Bound(L, T, S, P, x, m, id) PROVE Bound(M, U, V, P, x, m, id)
    <2>1. id \in DOMAIN M /\ M[id].name = x /\ (m = 0 => ~M[id].local)
      BY <1>3, <1>9, <1>11 DEF Bound
    <2>2. ASSUME m # 0, NEW i \in DOMAIN V, V[i] = m
          PROVE  x \in DOMAIN U[i + 1] /\ U[i + 1][x] = id
      <3>1. i + 1 \in 2 .. n - 1 /\ i \in DOMAIN S /\ S[i] = m
        <4>1. i \in 1 .. n - 2 /\ n \in Nat
          BY <2>2, <1>1, <1>2
        <4>2. i + 1 \in 2 .. n - 1 /\ i \in 1 .. n - 1
          BY ONLY <4>1
        <4> QED
          BY <4>1, <4>2, <2>2, <1>1, <1>2
      <3>2. x \in DOMAIN T[i + 1] /\ T[i + 1][x] = id
        BY <2>2, <3>1, <1>11 DEF Bound
      <3> QED
        BY <3>1, <3>2, <1>3
    <2>3. m # 0 => LocalIn(P, x, m)
      BY <1>11 DEF Bound
    <2>4. ASSUME m # 0, \A i \in DOMAIN V : V[i] # m
          PROVE  /\ Free(U, id) /\ Has(M, id)
                 /\ \E k \in Labels(P) : P[k].name = x /\ In(P, k) = m /\ P[k].at = M[id].value
      BY <2>4, <1>10, <1>11
    <2> QED
      BY ONLY <2>1, <2>2, <2>3, <2>4 DEF Bound
  <1>12. Follows(L, T, S, P, M, U, V, P)
    BY <1>3, <1>9, <1>11 DEF Follows
  <1> QED
    BY <1>12 DEF V

-----------------------------------------------------------------------------
(* What names mean afterwards.                                             *)

\* If no PROC takes a name its own LOCALs would hide, none did before.
LEMMA UnshadowedBefore ==
  ASSUME NEW L, NEW T, NEW S, NEW P, NEW e, NEW Q, Extends(P, e, Q), e.path = S,
         Shape(L, T, S, P), Scoped(L, T, S, P), Unshadowed(Q), e.is = "LOCAL" => Begun(S, P)
  PROVE  Unshadowed(P)
  <1> SUFFICES ASSUME NEW j \in Labels(P), NEW i \in 1 .. Len(P[j].path) - 1,
                      LocalIn(P, P[j].name, P[j].path[i])
               PROVE  Private(P, j)
    BY DEF Unshadowed
  <1>1. j \in Labels(Q) /\ Q[j] = P[j] /\ In(Q, j) = In(P, j) /\ P[j].is = "label" /\ j \in DOMAIN P
    BY DEF Extends, Labels
  <1>2. LocalIn(Q, Q[j].name, Q[j].path[i])
    BY <1>1 DEF Extends
  <1>3. Private(Q, j)
    BY <1>1, <1>2 DEF Unshadowed
  <1>4. ~LocalIn(P, P[j].name, In(P, j)) => e.is = "LOCAL" /\ In(P, j) = Innermost(S)
    BY <1>1, <1>3 DEF Private, Extends
  <1>5. ~(e.is = "LOCAL" /\ In(P, j) = Innermost(S))
    <2>1. Innermost(S) = Home(S, Len(T))
      BY InnermostHome
    <2> QED
      BY <2>1, <1>1 DEF Begun, Scoped, Opening
  <1> QED
    BY <1>1, <1>3, <1>4, <1>5 DEF Private

\* A statement that is not PROC is read.
LEMMA ReadMeaning ==
  ASSUME NEW L, NEW T, NEW S, NEW P, NEW e, NEW Q, Extends(P, e, Q), e.path = S, e.is # "PROC",
         Shape(L, T, S, P), Scoped(L, T, S, P), Meaning(L, T, S, P), e.is = "LOCAL" => Begun(S, P)
  PROVE  Meaning(L, T, S, Q)
  <1>1. /\ \A j \in DOMAIN P : Q[j] = P[j] /\ In(Q, j) = In(P, j)
        /\ DOMAIN Q = DOMAIN P \cup {Len(Q)} /\ Len(Q) = Len(P) + 1 /\ Q[Len(Q)] = e
        /\ Labels(P) \subseteq Labels(Q) /\ Labels(P) \subseteq DOMAIN P
        /\ \A x, p : LocalIn(Q, x, p) =>
             LocalIn(P, x, p) \/ (e.is = "LOCAL" /\ p = Innermost(S))
    BY DEF Extends, Labels
  <1>2. Inside(S, Q)
    <2>1. ASSUME NEW i \in DOMAIN S PROVE S[i] \in 1 .. Len(Q) - 1
      BY <1>1 DEF Shape, Extends
    <2>2. ASSUME NEW j \in DOMAIN Q, NEW i \in DOMAIN Q[j].path PROVE Q[j].path[i] \in 1 .. j - 1
      BY <2>1, <1>1 DEF Meaning, Inside
    <2>3. ASSUME Begun(S, Q), NEW j \in DOMAIN Q, NEW i \in DOMAIN Q[j].path,
                 Q[j].path[i] = S[Len(S)]
          PROVE  Q[j].is = "LOCAL"
      <3>1. e.is = "LOCAL" /\ Begun(S, P)
        BY <2>3, <1>1 DEF Begun
      <3> QED
        BY <2>3, <3>1, <1>1 DEF Meaning, Inside
    <2> QED
      BY <2>2, <2>3 DEF Inside
  <1>3. Known(L, Q)
    <2>1. ASSUME NEW k \in Labels(P), ~Private(P, k) PROVE ~Private(Q, k)
      <3>1. ~(e.is = "LOCAL" /\ In(P, k) = Innermost(S))
        <4>1. Innermost(S) = Home(S, Len(T))
          BY InnermostHome
        <4> QED
          BY <4>1, <1>1 DEF Begun, Scoped, Opening, Labels
      <3> QED
        BY <2>1, <3>1, <1>1 DEF Private
    <2> QED
      BY <2>1, <1>1 DEF Meaning, Known
  <1> QED
    BY <1>2, <1>3 DEF Meaning

\* An object that is in no table, and has no value, is made.
LEMMA GrownMeaning ==
  ASSUME NEW L \in Seq(Objects), NEW T, NEW S, NEW P, NEW o \in Objects, o.value = Undefined,
         Shape(L, T, S, P), Meaning(L, T, S, P)
  PROVE  Meaning(Append(L, o), T, S, P)
  <1> DEFINE M == Append(L, o)
  <1>1. /\ DOMAIN M = DOMAIN L \cup {Len(L) + 1} /\ M[Len(L) + 1] = o
        /\ \A i \in DOMAIN L : M[i] = L[i]
    BY Appended
  <1> HIDE DEF M
  <1>2. \A s \in DOMAIN T : \A x \in DOMAIN T[s] : T[s][x] \in DOMAIN L
    BY DEF Shape
  <1>3. Exposed(M, T)
    BY <1>1, <1>2 DEF Meaning, Exposed
  <1>4. Known(M, P)
    BY <1>1 DEF Meaning, Known, Has
  <1> QED
    BY <1>3, <1>4 DEF Meaning, M

\* An object is put into the last table, or gets a value there.
LEMMA EnteredMeaning ==
  ASSUME NEW L, NEW T, NEW S, NEW P, NEW M, NEW U, NEW x, NEW v, NEW loc,
         Shape(L, T, S, P), Meaning(L, T, S, P), Entered(L, T, M, U, x, v, loc), Known(M, P),
         ~loc => \A s \in DOMAIN T : s # Len(T) /\ x \in DOMAIN T[s] => ~L[T[s][x]].local
  PROVE  Meaning(M, U, S, P)
  <1>1. Len(T) \in DOMAIN T /\ DOMAIN T = 1 .. Len(T) /\ Len(T) \in Nat
    BY InnermostHome
  <1>2. Exposed(M, U)
    <2> SUFFICES ASSUME NEW s \in DOMAIN U, NEW t \in DOMAIN U, NEW y \in DOMAIN U[s] \cap DOMAIN U[t],
                        s < t, M[U[s][y]].local
                 PROVE  M[U[t][y]].local
      BY DEF Exposed
    <2>1. s # Len(T) /\ s \in DOMAIN T /\ t \in DOMAIN T
      BY <1>1 DEF Entered
    <2>2. y \in DOMAIN T[s] /\ M[U[s][y]] = L[T[s][y]]
      BY <2>1 DEF Entered
    <2>3. CASE t = Len(T) /\ y = x
      <3>1. M[U[t][y]].local = loc
        BY <2>3 DEF Entered, Object
      <3> QED
        BY <3>1, <2>1, <2>2, <2>3
    <2>4. CASE ~(t = Len(T) /\ y = x)
      <3>1. y \in DOMAIN T[t] /\ M[U[t][y]] = L[T[t][y]]
        BY <2>1, <2>4 DEF Entered
      <3> QED
        BY <3>1, <2>1, <2>2 DEF Meaning, Exposed
    <2> QED
      BY <2>3, <2>4
  <1> QED
    BY <1>2 DEF Meaning

\* A PROC is opened.
LEMMA ProcMeaning ==
  ASSUME NEW L, NEW T, NEW S, NEW P, NEW e, NEW Q, Extends(P, e, Q), e.path = S, e.is = "PROC",
         Shape(L, T, S, P), Meaning(L, T, S, P)
  PROVE  Meaning(L, Append(T, <<>>), Append(S, Len(Q)), Q)
  <1> DEFINE U == Append(T, <<>>)
             V == Append(S, Len(Q))
  <1>1. /\ Len(T) \in Nat /\ DOMAIN T = 1 .. Len(T) /\ Len(S) = Len(T) - 1 /\ DOMAIN S = 1 .. Len(S)
        /\ Len(S) \in Nat /\ T \in Seq(Tables) /\ S \in Seq(Nat) /\ Len(Q) \in Nat /\ Len(P) \in Nat
    <2>1. Len(Q) \in Nat /\ Len(P) \in Nat
      BY DEF Extends
    <2> QED
      BY <2>1, InnermostHome DEF Shape
  <1>2. /\ DOMAIN U = DOMAIN T \cup {Len(T) + 1} /\ U[Len(T) + 1] = <<>>
        /\ \A s \in DOMAIN T : U[s] = T[s]
    BY ONLY <1>1, EmptyTable, Appended
  <1>3. V \in Seq(Nat) /\ Len(V) = Len(S) + 1 /\ V[Len(V)] = Len(Q)
    <2>1. S \in Seq(Nat) /\ Len(Q) \in Nat
      BY <1>1
    <2>2. V \in Seq(Nat) /\ Len(V) = Len(S) + 1 /\ V[Len(S) + 1] = Len(Q)
      BY ONLY <2>1, Appended
    <2> HIDE DEF V
    <2> QED
      BY <2>2
  <1> HIDE DEF U, V
  <1>4. /\ \A j \in DOMAIN P : Q[j] = P[j] /\ In(Q, j) = In(P, j)
        /\ DOMAIN Q = DOMAIN P \cup {Len(Q)} /\ DOMAIN P = 1 .. Len(P)
        /\ Len(Q) = Len(P) + 1 /\ Q[Len(Q)] = e
        /\ Labels(P) \subseteq Labels(Q) /\ Labels(P) \subseteq DOMAIN P
        /\ \A x, p : LocalIn(Q, x, p) => LocalIn(P, x, p)
    BY DEF Extends, Labels
  <1>5. ASSUME NEW j \in DOMAIN Q, NEW i \in DOMAIN Q[j].path
        PROVE  Q[j].path[i] \in 1 .. j - 1 /\ Q[j].path[i] # Len(Q)
    <2>1. CASE j \in DOMAIN P
      <3>1. P[j].path[i] \in 1 .. j - 1 /\ j \in 1 .. Len(P)
        BY <2>1, <1>4, <1>5 DEF Meaning, Inside
      <3> QED
        BY <2>1, <3>1, <1>1, <1>4
    <2>2. CASE j = Len(Q)
      <3>1. S[i] \in 1 .. Len(P)
        BY <2>2, <1>4, <1>5 DEF Shape
      <3> QED
        BY <2>2, <3>1, <1>1, <1>4
    <2> QED
      BY <2>1, <2>2, <1>4
  <1>6. Inside(V, Q)
    BY <1>3, <1>5 DEF Inside
  <1>7. Exposed(L, U)
    BY <1>1, <1>2 DEF Meaning, Exposed
  <1>8. Known(L, Q)
    BY <1>4 DEF Meaning, Known, Private
  <1>9. Meaning(L, U, V, Q)
    BY <1>6, <1>7, <1>8 DEF Meaning
  <1> QED
    BY <1>9 DEF U, V

\* A PROC ends; the first table has no local labels.
LEMMA EndMeaning ==
  ASSUME NEW L, NEW T, NEW S, NEW P, NEW M, NEW U, Shape(L, T, S, P), Meaning(L, T, S, P),
         Left(L, T, M, U), Len(T) > 1, P[Len(P)].is = "ENDP",
         \A y \in DOMAIN U[1] : ~M[U[1][y]].local
  PROVE  Meaning(M, U, SubSeq(S, 1, Len(S) - 1), P)
  <1>1. Len(T) \in Nat /\ DOMAIN T = 1 .. Len(T) /\ 1 \in DOMAIN T /\ Len(T) \in DOMAIN T
    BY InnermostHome
  <1>2. DOMAIN U = 1 .. Len(T) - 1
    BY <1>1 DEF Left
  <1>3. \A s \in DOMAIN U : s # 1 =>
          s \in DOMAIN T /\ U[s] = T[s] /\ \A y \in DOMAIN T[s] : M[T[s][y]] = L[T[s][y]]
    <2>1. \A s \in DOMAIN U : s # 1 => s \in 2 .. Len(T) - 1 /\ s \in DOMAIN T
      BY <1>1, <1>2
    <2> QED
      BY <2>1 DEF Left
  <1>4. Exposed(M, U)
    <2> SUFFICES ASSUME NEW s \in DOMAIN U, NEW t \in DOMAIN U, NEW y \in DOMAIN U[s] \cap DOMAIN U[t],
                        s < t, M[U[s][y]].local
                 PROVE  M[U[t][y]].local
      BY DEF Exposed
    <2>1. s # 1 /\ t # 1
      BY <1>2
    <2> QED
      BY <2>1, <1>3 DEF Meaning, Exposed
  <1>5. Known(M, P)
    <2> SUFFICES ASSUME NEW id \in DOMAIN M, ~M[id].local, Has(M, id)
                 PROVE  \E k \in Labels(P) :
                          P[k].name = M[id].name /\ P[k].at = M[id].value /\ ~Private(P, k)
      BY DEF Known
    <2>0. id \in DOMAIN L
      BY DEF Left
    <2>1. CASE M[id] = L[id]
      BY <2>0, <2>1 DEF Meaning, Known, Has
    <2>2. CASE M[id] # L[id]
      <3>1. PICK y \in Moves(L, T) : y \in DOMAIN T[1] /\ id = T[1][y]
        BY <2>0, <2>2 DEF Left
      <3>2. M[id].name = y /\ M[id].value = L[T[Len(T)][y]].value
        <4>1. M[id] = Object(y, L[T[Len(T)][y]].value, L[T[1][y]].local)
          BY <3>1 DEF Left
        <4> QED
          BY <4>1 DEF Object
      <3>3. y \in DOMAIN T[Len(T)] /\ ~L[T[Len(T)][y]].local
        BY <3>1 DEF Moves
      <3>4. T[Len(T)][y] \in DOMAIN L /\ L[T[Len(T)][y]].name = y
        BY <3>3, <1>1 DEF Shape
      <3>5. Has(L, T[Len(T)][y])
        BY <3>2 DEF Has
      <3> QED
        BY <3>2, <3>3, <3>4, <3>5 DEF Meaning, Known
    <2> QED
      BY <2>1, <2>2
  <1>6. Inside(SubSeq(S, 1, Len(S) - 1), P)
    BY DEF Meaning, Inside, Begun
  <1> QED
    BY <1>4, <1>5, <1>6 DEF Meaning

-----------------------------------------------------------------------------
(* The state: what the labels mean before and after every action.          *)

Understood == Meaning(labels, local_labels, scopes, prog)

\* The source so far is one the theorems speak of.
Sound == errors = NoError /\ LocalsFirst(prog) /\ Unshadowed(prog)

\* What a step keeps of the meaning of names.
Continued ==
  /\ Sound /\ Understood'
  /\ Follows(labels, local_labels, scopes, prog, labels', local_labels', scopes', prog')

\* A statement is read.
LEMMA TextRead ==
  ASSUME IInv, Sound => Understood, LocalsFirst(prog'), Unshadowed(prog'),
         NEW k \in Kinds, NEW x \in Names \cup {Undefined}, Reads(k, x),
         k \in {"label", "LOCAL"} => x \in Names
  PROVE  /\ binary = NoBinary /\ Sound /\ Understood
         /\ Extends(prog, Statement(k, x), prog')
         /\ Statement(k, x).is = k /\ Statement(k, x).path = scopes
         /\ Shape(labels, local_labels, scopes, prog)
         /\ Shape(labels, local_labels, scopes, prog')
         /\ Scoped(labels, local_labels, scopes, prog)
         /\ k = "LOCAL" => Begun(scopes, prog)
         /\ k \notin {"label", "LOCAL", "PROC"} => Scoped(labels, local_labels, scopes, prog')
         /\ k # "PROC" => Meaning(labels, local_labels, scopes, prog')
         /\ Follows(labels, local_labels, scopes, prog, labels, local_labels, scopes, prog')
  <1> DEFINE e == Statement(k, x)
  <1>1. /\ errors = NoError /\ binary = NoBinary
        /\ Extends(prog, e, prog')
        /\ Shape(labels, local_labels, scopes, prog')
        /\ LocalsFirst(prog') =>
             /\ Scoped(labels, local_labels, scopes, prog)
             /\ k = "LOCAL" => /\ scopes # <<>> /\ prog # <<>>
                               /\ prog[Len(prog)].is \in {"PROC", "LOCAL"}
             /\ k \notin {"label", "LOCAL", "PROC"} => Scoped(labels, local_labels, scopes, prog')
    BY ReadsLine
  <1>2. e.is = k /\ e.path = scopes
    BY DEF Statement
  <1> HIDE DEF e
  <1>3. Shape(labels, local_labels, scopes, prog)
    BY DEF IInv, Typing
  <1>4. Scoped(labels, local_labels, scopes, prog) /\ (e.is = "LOCAL" => Begun(scopes, prog))
    BY <1>1, <1>2 DEF Begun
  <1>5. LocalsFirst(prog)
    BY ONLY <1>1, LocalsFirst(prog'), LocalsFirstBefore
  <1>6. Unshadowed(prog)
    BY ONLY <1>1, <1>2, <1>3, <1>4, Unshadowed(prog'), UnshadowedBefore
  <1>7. Sound /\ Understood /\ Meaning(labels, local_labels, scopes, prog)
    BY <1>1, <1>5, <1>6 DEF Sound, Understood
  <1>8. Inside(scopes, prog)
    BY <1>7 DEF Meaning
  <1>9. Follows(labels, local_labels, scopes, prog, labels, local_labels, scopes, prog')
    BY ONLY <1>1, <1>2, <1>3, <1>4, <1>8, ReadFollows
  <1>10. k # "PROC" => Meaning(labels, local_labels, scopes, prog')
    BY ONLY <1>1, <1>2, <1>3, <1>4, <1>7, ReadMeaning
  <1>11. k \notin {"label", "LOCAL", "PROC"} => Scoped(labels, local_labels, scopes, prog')
    BY <1>1
  <1> QED
    BY <1>1, <1>2, <1>3, <1>4, <1>7, <1>9, <1>10, <1>11 DEF e

\* The statements that make no object and neither open nor close a scope.
LEMMA PlainContinues ==
  ASSUME IInv, Sound => Understood, Sound', (\E a \in Origins : set_org(a))
           \/ (\E x \in Names : init(x)) \/ declare_temporary
  PROVE  Continued
  <1>1. PICK k \in {"ORG", "#init", "1:"}, x \in Names \cup {Undefined} : Reads(k, x)
    BY DEF set_org, init, declare_temporary
  <1>2. k \in Kinds /\ k \notin {"label", "LOCAL"} /\ k # "PROC"
    BY DEF Kinds
  <1>3. k \in {"label", "LOCAL"} => x \in Names
    BY <1>2
  <1>4. UNCHANGED <<labels, local_labels, scopes>>
    BY DEF set_org, init, declare_temporary, tables
  <1>5. LocalsFirst(prog') /\ Unshadowed(prog')
    BY DEF Sound
  <1>6. /\ Sound /\ Meaning(labels, local_labels, scopes, prog')
        /\ Follows(labels, local_labels, scopes, prog, labels, local_labels, scopes, prog')
    BY <1>1, <1>2, <1>3, <1>5, TextRead
  <1> QED
    BY <1>4, <1>6 DEF Continued, Understood

LEMMA EnterContinues ==
  ASSUME IInv, Sound => Understood, Sound', enter_proc
  PROVE  Continued
  <1> DEFINE e == Statement("PROC", Undefined)
  <1>1. "PROC" \in Kinds /\ Reads("PROC", Undefined) /\ ("PROC" \in {"label", "LOCAL"} => Undefined \in Names)
    BY DEF Kinds, enter_proc
  <1>2. Undefined \in Names \cup {Undefined} /\ LocalsFirst(prog') /\ Unshadowed(prog')
    BY DEF Sound
  <1>3. /\ Sound /\ Understood /\ Extends(prog, e, prog') /\ e.is = "PROC" /\ e.path = scopes
        /\ Shape(labels, local_labels, scopes, prog) /\ Shape(labels, local_labels, scopes, prog')
        /\ Follows(labels, local_labels, scopes, prog, labels, local_labels, scopes, prog')
    BY <1>1, <1>2, TextRead
  <1>4. /\ labels' = labels /\ local_labels' = Append(local_labels, <<>>)
        /\ scopes' = Append(scopes, Len(prog'))
    BY DEF enter_proc, Line, IInv, Typing, Shape, Reads
  <1> HIDE DEF e
  <1>5. Follows(labels, local_labels, scopes, prog', labels, Append(local_labels, <<>>),
                Append(scopes, Len(prog')), prog')
    BY ONLY <1>3, ProcFollows
  <1>6. Follows(labels, local_labels, scopes, prog, labels, Append(local_labels, <<>>),
                Append(scopes, Len(prog')), prog')
    BY ONLY <1>3, <1>5, FollowsTwice
  <1>7. Meaning(labels, local_labels, scopes, prog)
    BY <1>3 DEF Understood
  <1>8. Meaning(labels, Append(local_labels, <<>>), Append(scopes, Len(prog')), prog')
    BY ONLY <1>3, <1>7, ProcMeaning
  <1> QED
    BY <1>3, <1>4, <1>6, <1>8 DEF Continued, Understood

\* The first table has no local labels.
LEMMA NoGlobalLocal ==
  ASSUME NEW L, NEW T, NEW S, NEW P, Shape(L, T, S, P), Scoped(L, T, S, P)
  PROVE  \A y \in DOMAIN T[1] : ~L[T[1][y]].local
  <1> SUFFICES ASSUME NEW y \in DOMAIN T[1], L[T[1][y]].local PROVE FALSE
    OBVIOUS
  <1>1. 1 \in DOMAIN T
    BY InnermostHome
  <1>2. y \in Names
    <2>1. T[1] \in Tables
      BY <1>1 DEF Shape
    <2> QED
      BY <2>1, TableEntry
  <1>3. LocalIn(P, y, 0)
    BY <1>1, <1>2 DEF Scoped, Flags, Home
  <1> QED
    BY <1>3 DEF LocalIn, Scoped, Within

LEMMA ExitContinues ==
  ASSUME IInv, Sound => Understood, Sound', exit_proc
  PROVE  Continued
  <1> DEFINE e == Statement("ENDP", Undefined)
  <1>1. "ENDP" \in Kinds /\ Reads("ENDP", Undefined) /\ ("ENDP" \in {"label", "LOCAL"} => Undefined \in Names)
    BY DEF Kinds, exit_proc
  <1>2. Undefined \in Names \cup {Undefined} /\ LocalsFirst(prog') /\ Unshadowed(prog') /\ errors' = NoError
    BY DEF Sound
  <1>3. /\ Sound /\ Shape(labels, local_labels, scopes, prog')
        /\ "ENDP" \notin {"label", "LOCAL", "PROC"} => Scoped(labels, local_labels, scopes, prog')
        /\ "ENDP" # "PROC" => Meaning(labels, local_labels, scopes, prog')
        /\ Follows(labels, local_labels, scopes, prog, labels, local_labels, scopes, prog')
    BY <1>1, <1>2, TextRead
  <1>4. Scoped(labels, local_labels, scopes, prog') /\ Meaning(labels, local_labels, scopes, prog')
    BY <1>3
  <1>5. /\ Left(labels, local_labels, labels', local_labels') /\ Len(local_labels) > 1
        /\ scopes' = SubSeq(scopes, 1, Len(scopes) - 1)
        /\ \A y \in DOMAIN local_labels[Len(local_labels)] :
             labels[local_labels[Len(local_labels)][y]].local =>
               Has(labels, local_labels[Len(local_labels)][y])
        /\ \A y \in Moves(labels, local_labels) \cap DOMAIN local_labels[1] :
             ~Has(labels, local_labels[1][y])
        /\ prog' # <<>> /\ prog'[Len(prog')].is = "ENDP"
    BY <1>2, ExitLeaves
  <1>6. Follows(labels, local_labels, scopes, prog', labels', local_labels', scopes', prog')
    BY <1>3, <1>4, <1>5, EndFollows
  <1>7. Follows(labels, local_labels, scopes, prog, labels', local_labels', scopes', prog')
    BY ONLY <1>3, <1>6, FollowsTwice
  <1>8. Shape(labels', local_labels', scopes', prog') /\ Scoped(labels', local_labels', scopes', prog')
    <2>1. IInv'
      BY ExitKeeps
    <2> QED
      BY <1>2, <2>1 DEF IInv, Typing, Holding
  <1>9. \A y \in DOMAIN local_labels'[1] : ~labels'[local_labels'[1][y]].local
    BY ONLY <1>8, NoGlobalLocal
  <1>10. Meaning(labels', local_labels', scopes', prog')
    BY <1>3, <1>4, <1>5, <1>9, EndMeaning
  <1> QED
    BY <1>3, <1>7, <1>10 DEF Continued, Understood

LEMMA LocalContinues ==
  ASSUME IInv, Sound => Understood, Sound', NEW x \in Names, set_label(x)
  PROVE  Continued
  <1> DEFINE T == local_labels
             last == Len(local_labels)
  <1>1. "LOCAL" \in Kinds /\ Reads("LOCAL", x) /\ ("LOCAL" \in {"label", "LOCAL"} => x \in Names)
    BY DEF Kinds, set_label
  <1>2. x \in Names \cup {Undefined} /\ LocalsFirst(prog') /\ Unshadowed(prog')
    BY DEF Sound
  <1>3. /\ Sound /\ Shape(labels, T, scopes, prog) /\ Shape(labels, T, scopes, prog')
        /\ Scoped(labels, T, scopes, prog)
        /\ "LOCAL" = "LOCAL" => Begun(scopes, prog)
        /\ "LOCAL" # "PROC" => Meaning(labels, T, scopes, prog')
        /\ Follows(labels, T, scopes, prog, labels, T, scopes, prog')
    BY <1>1, <1>2, TextRead
  <1>4. Begun(scopes, prog) /\ Meaning(labels, T, scopes, prog')
    BY <1>3
  <1>5. PICK v \in Nat \cup {Undefined} :
          /\ Shape(labels', local_labels', scopes, prog')
          /\ Unshared(T) => /\ Unshared(local_labels')
                            /\ Entered(labels, T, labels', local_labels', x, v, TRUE)
          /\ x \in DOMAIN T[last] => v = labels[T[last][x]].value
          /\ x \notin DOMAIN T[last] => v = Undefined
    BY LocalEnters
  <1>6. Unshared(T) /\ Entered(labels, T, labels', local_labels', x, v, TRUE)
    BY <1>3, <1>5 DEF Scoped
  <1>7. x \in DOMAIN T[last] => labels[T[last][x]].local = TRUE
    <2>1. x \in DOMAIN T[last] => labels[T[last][x]].local
      BY <1>3, <1>4 DEF Scoped, Opening, Begun
    <2>2. x \in DOMAIN T[last] => labels[T[last][x]].local \in BOOLEAN
      BY <1>3, ThatObject
    <2> QED
      BY <2>1, <2>2
  <1> HIDE DEF T, last
  <1>8. Follows(labels, T, scopes, prog', labels', local_labels', scopes, prog')
    BY <1>3, <1>5, <1>6, <1>7, EnteredFollows DEF last, T
  <1>9. Follows(labels, T, scopes, prog, labels', local_labels', scopes, prog')
    BY ONLY <1>3, <1>8, FollowsTwice
  <1>10. Known(labels', prog')
    <2>1. \A id \in DOMAIN labels' : ~labels'[id].local => id \in DOMAIN labels /\ labels'[id] = labels[id]
      BY <1>6 DEF Entered, Object
    <2> QED
      BY <1>4, <2>1 DEF Meaning, Known, Has
  <1>11. Meaning(labels', local_labels', scopes, prog')
    BY ONLY <1>3, <1>4, <1>6, <1>10, EnteredMeaning
  <1> QED
    BY <1>3, <1>9, <1>11 DEF Continued, Understood, T, set_label

LEMMA LabelContinues ==
  ASSUME IInv, Sound => Understood, Sound', NEW x \in Names, declare_label(x)
  PROVE  Continued
  <1> DEFINE T == local_labels
             last == Len(local_labels)
             n == Len(prog')
  <1>1. "label" \in Kinds /\ Reads("label", x) /\ ("label" \in {"label", "LOCAL"} => x \in Names)
    BY DEF Kinds, declare_label
  <1>2. x \in Names \cup {Undefined} /\ LocalsFirst(prog') /\ Unshadowed(prog') /\ errors' = NoError
    BY DEF Sound
  <1>3. /\ Sound /\ Shape(labels, T, scopes, prog) /\ Shape(labels, T, scopes, prog')
        /\ Extends(prog, Statement("label", x), prog')
        /\ Scoped(labels, T, scopes, prog)
        /\ "label" # "PROC" => Meaning(labels, T, scopes, prog')
        /\ Follows(labels, T, scopes, prog, labels, T, scopes, prog')
    BY <1>1, <1>2, TextRead
  <1>4. Meaning(labels, T, scopes, prog')
    BY <1>3
  <1>5. PICK loc \in BOOLEAN :
          /\ Shape(labels', local_labels', scopes, prog')
          /\ Unshared(T) => /\ Unshared(local_labels')
                            /\ Entered(labels, T, labels', local_labels', x, index, loc)
          /\ x \in DOMAIN T[last] =>
               /\ errors' = NoError => ~Has(labels, T[last][x])
               /\ loc = labels[T[last][x]].local
          /\ x \notin DOMAIN T[last] => loc = FALSE
    BY LabelEnters
  <1>6. Unshared(T) /\ Entered(labels, T, labels', local_labels', x, index, loc)
    BY <1>3, <1>5 DEF Scoped
  <1>7. /\ n \in Labels(prog') /\ prog'[n].name = x /\ prog'[n].at = index /\ prog'[n].path = scopes
        /\ In(prog', n) = Innermost(scopes)
        /\ \A y, p : LocalIn(prog', y, p) <=> LocalIn(prog, y, p)
    BY <1>3 DEF Extends, Statement, Labels
  <1>8. /\ last \in DOMAIN T /\ last \in Nat /\ DOMAIN T = 1 .. last /\ Len(scopes) = last - 1
        /\ Innermost(scopes) = Home(scopes, last)
    BY <1>3, InnermostHome
  <1> HIDE DEF T, last, n
  <1>9. ASSUME ~loc PROVE ~Private(prog', n)
    <2> SUFFICES ASSUME Private(prog', n) PROVE FALSE
      OBVIOUS
    <2>1. LocalIn(prog, x, Home(scopes, last))
      BY <1>7, <1>8 DEF Private
    <2>2. x \in DOMAIN T[last] /\ labels[T[last][x]].local
      BY <2>1, <1>3, <1>8 DEF Scoped, Flags
    <2> QED
      BY <2>2, <1>5, <1>9
  <1>10. ASSUME ~loc, NEW s \in DOMAIN T, s # last, x \in DOMAIN T[s], labels[T[s][x]].local PROVE FALSE
    <2>1. LocalIn(prog, x, Home(scopes, s))
      BY <1>3, <1>10 DEF Scoped, Flags
    <2>2. s # 1
      BY <2>1, <1>3 DEF Home, Scoped, Within, LocalIn
    <2>3. s - 1 \in 1 .. Len(prog'[n].path) - 1
      BY <2>2, <1>7, <1>8, <1>10
    <2>4. LocalIn(prog', prog'[n].name, prog'[n].path[s - 1])
      BY <2>1, <2>2, <1>7 DEF Home
    <2>5. Private(prog', n)
      BY <2>3, <2>4, <1>2, <1>7 DEF Unshadowed
    <2> QED
      BY <2>5, <1>9, <1>10
  <1>11. Follows(labels, T, scopes, prog', labels', local_labels', scopes, prog')
    BY <1>2, <1>3, <1>5, <1>6, EnteredFollows DEF last, T
  <1>12. Follows(labels, T, scopes, prog, labels', local_labels', scopes, prog')
    BY ONLY <1>3, <1>11, FollowsTwice
  <1>13. Known(labels', prog')
    <2> SUFFICES ASSUME NEW id \in DOMAIN labels', ~labels'[id].local, Has(labels', id)
                 PROVE  \E k \in Labels(prog') :
                          /\ prog'[k].name = labels'[id].name /\ prog'[k].at = labels'[id].value
                          /\ ~Private(prog', k)
      BY DEF Known
    <2>1. CASE id = local_labels'[last][x]
      <3>1. labels'[id].name = x /\ labels'[id].value = index /\ labels'[id].local = loc
        BY <2>1, <1>6 DEF Entered, Object, last, T
      <3> QED
        BY <3>1, <1>7, <1>9
    <2>2. CASE id # local_labels'[last][x]
      <3>1. id \in DOMAIN labels /\ labels'[id] = labels[id]
        BY <2>2, <1>6 DEF Entered, last, T
      <3> QED
        BY <3>1, <1>4 DEF Meaning, Known, Has
    <2> QED
      BY <2>1, <2>2
  <1>14. Meaning(labels', local_labels', scopes, prog')
    <2>1. ~loc => \A s \in DOMAIN T : s # Len(T) /\ x \in DOMAIN T[s] => ~labels[T[s][x]].local
      BY <1>10 DEF last, T
    <2> QED
      BY ONLY <1>3, <1>4, <1>6, <1>13, <2>1, EnteredMeaning
  <1> QED
    BY <1>3, <1>12, <1>14 DEF Continued, Understood, T, declare_label

-----------------------------------------------------------------------------
(* An instruction is bound to what its operand means.                      *)

\* What Assembled writes at the address a: the operand id, and its value if that
\* is known.
Wrote(L, f, g, a, id) ==
  /\ a \in DOMAIN f /\ f[a] # <<>>
  /\ f[a][1] = [arg |-> id, pending |-> ~Has(L, id)]
  /\ Has(L, id) => g[a] = L[id].value

LEMMA Assembles ==
  ASSUME NEW id, NEW L, Assembled(id, L), index \notin DOMAIN orgs \/ orgs[index] = <<>>
  PROVE  Wrote(L, orgs', memory_bytes', index, id)
  <1> DEFINE r == [arg |-> id, pending |-> L[id].value = Undefined]
             v == IF L[id].value = Undefined THEN 0 ELSE L[id].value
  <1>1. Slot(orgs, <<>>)[index] = <<>>
    BY DEF Slot, With
  <1>2. orgs' = With(orgs, index, Append(<<>>, r)) /\ memory_bytes' = With(memory_bytes, index, v)
    BY <1>1 DEF Assembled
  <1>3. Append(<<>>, r) # <<>> /\ Append(<<>>, r)[1] = r
    <2> HIDE DEF r
    <2>1. PICK R : R = {r}
      OBVIOUS
    <2>2. <<>> \in Seq(R) /\ r \in R /\ Len(<<>>) = 0
      BY <2>1
    <2> QED
      BY ONLY <2>2, Appended
  <1>4. index \in DOMAIN orgs' /\ orgs'[index] = Append(<<>>, r) /\ memory_bytes'[index] = v
    BY <1>2 DEF With
  <1> QED
    BY <1>3, <1>4 DEF Wrote, Has

\* A set of numbers has a smallest one, and one with a bound a largest one.
LEMMA Smallest ==
  ASSUME NEW X \in SUBSET Nat, X # {}
  PROVE  \E n \in X : \A k \in X : n <= k
  <1> DEFINE R == OpToRel(<, Nat)
  <1>1. IsWellFoundedOn(R, Nat)
    BY NatLessThanWellFounded
  <1>2. \A x, y \in Nat : <<x, y>> \in R <=> x < y
    BY DEF OpToRel
  <1> HIDE DEF R
  <1>3. PICK x \in X : \A y \in X : ~(<<y, x>> \in R)
    BY <1>1, WFMin
  <1>4. ASSUME NEW k \in X PROVE x <= k
    <2>1. ~(k < x)
      BY <1>2, <1>3
    <2> QED
      BY <2>1
  <1> QED
    BY <1>4

LEMMA Largest ==
  ASSUME NEW n \in Nat, NEW X \in SUBSET (0 .. n), X # {}
  PROVE  \E a \in X : \A b \in X : b <= a
  <1> DEFINE down == {k \in Nat : n - k \in X}
  <1>1. \A a \in X : n - a \in down /\ a \in 0 .. n
    OBVIOUS
  <1>2. down \in SUBSET Nat /\ down # {}
    BY <1>1
  <1>3. PICK d \in down : \A e \in down : d <= e
    BY <1>2, Smallest
  <1>4. ASSUME NEW b \in X PROVE b <= n - d
    <2>1. d <= n - b /\ d \in Nat /\ b \in 0 .. n
      BY <1>1, <1>3
    <2> QED
      BY ONLY <2>1, n \in Nat
  <1> QED
    BY <1>3, <1>4

\* The innermost scope that has the name counts.
LEMMA Innermosts ==
  ASSUME NEW x, Len(local_labels) \in Nat, Searched(x) # {}
  PROVE  LET s == CHOOSE s \in Searched(x) : \A t \in Searched(x) : t <= s
         IN  s \in Searched(x) /\ \A t \in Searched(x) : t <= s
  <1>1. Searched(x) \in SUBSET (0 .. Len(local_labels))
    BY DEF Searched, Top
  <1>2. \E s \in Searched(x) : \A t \in Searched(x) : t <= s
    BY <1>1, Largest
  <1> QED
    BY <1>2

\* The operand x of an instruction behind the source Q.
LEMMA Binds ==
  ASSUME IInv, NEW Q, Shape(labels, local_labels, scopes, Q), Scoped(labels, local_labels, scopes, Q),
         Meaning(labels, local_labels, scopes, Q), NEW x \in Names, Refers(x),
         Q = <<>> \/ Q[Len(Q)].is \notin {"PROC", "LOCAL"} \/ scopes = <<>>
  PROVE  \E id, m :
           /\ id \in DOMAIN labels'
           /\ Assembled(id, labels')
           /\ id \in DOMAIN labels => ~Free(local_labels, id)
           /\ Means(Q, x, scopes, m)
           /\ Bound(labels', local_labels', scopes, Q, x, m, id)
           /\ Follows(labels, local_labels, scopes, Q, labels', local_labels', scopes, Q)
           /\ Meaning(labels', local_labels', scopes, Q)
  <1> DEFINE L == labels
             T == local_labels
             S == scopes
  <1>1. /\ Len(T) \in Nat /\ Len(T) > 0 /\ DOMAIN T = 1 .. Len(T) /\ Len(S) \in Nat
        /\ DOMAIN S = 1 .. Len(S) /\ Len(S) = Len(T) - 1
    BY InnermostHome
  <1>2. \A i \in DOMAIN S : i + 1 \in DOMAIN T /\ Home(S, i + 1) = S[i]
    BY <1>1 DEF Home
  <1>3. \A i \in DOMAIN S : LocalIn(Q, x, S[i]) <=> (x \in DOMAIN T[i + 1] /\ L[T[i + 1][x]].local)
    BY <1>2 DEF Scoped, Flags
  <1>4. \A s \in DOMAIN T : \A y \in DOMAIN T[s] : T[s][y] \in DOMAIN L /\ L[T[s][y]].name = y
    BY DEF Shape
  <1>5. \A s \in 1 .. Top : x \in DOMAIN T[s] <=> s \in Searched(x)
    BY DEF Searched
  <1>6. Top = Len(T)
    BY DEF Top
  <1> HIDE DEF L, T, S
  <1>7. CASE Searched(x) = {}
    <2> DEFINE o == Object(x, Undefined, FALSE)
               U == Put(T, x, Len(L) + 1)
    <2>1. \A s \in DOMAIN T : x \notin DOMAIN T[s]
      BY <1>1, <1>5, <1>6, <1>7
    <2>2. /\ labels' = Append(L, o) /\ local_labels' = U
          /\ Assembled(Len(L) + 1, labels')
      BY <1>7 DEF Refers, Top, Put, L, T
    <2>3. Undefined \in Nat \cup {Undefined} /\ FALSE \in BOOLEAN /\ x \notin DOMAIN T[Len(T)]
      BY <2>1, <1>1
    <2>4. /\ Entered(L, T, Append(L, o), U, x, Undefined, FALSE)
          /\ Shape(L, T, S, Q)
      BY ONLY <2>3, NewObject, Shape(labels, local_labels, scopes, Q), x \in Names DEF L, T, S
    <2>5. o \in Objects /\ L \in Seq(Objects)
      BY DEF Object, Objects, Shape, L
    <2>6. /\ Len(L) + 1 \in DOMAIN Append(L, o) /\ Append(L, o)[Len(L) + 1] = o
          /\ DOMAIN Append(L, o) = DOMAIN L \cup {Len(L) + 1} /\ Len(L) + 1 \notin DOMAIN L
          /\ \A i \in DOMAIN L : Append(L, o)[i] = L[i]
      <3> HIDE DEF o
      <3>1. /\ Append(L, o)[Len(L) + 1] = o /\ DOMAIN Append(L, o) = DOMAIN L \cup {Len(L) + 1}
            /\ \A i \in DOMAIN L : Append(L, o)[i] = L[i]
            /\ DOMAIN L = 1 .. Len(L) /\ Len(L) \in Nat
        BY ONLY <2>5, Appended
      <3> QED
        BY <3>1
    <2>7. o.name = x /\ o.local = FALSE /\ o.value = Undefined
      BY DEF Object
    <2> DEFINE M == Append(L, o)
               id == Len(L) + 1
    <2> HIDE DEF o, U, M, id
    <2>8. Means(Q, x, S, 0)
      BY <2>1, <1>2, <1>3 DEF Means
    <2>9. Bound(M, U, S, Q, x, 0, id)
      BY <2>6, <2>7 DEF Bound, M, id
    <2>10. Unshared(T)
      BY DEF Scoped, T
    <2>11. Follows(L, T, S, Q, M, U, S, Q)
      BY <2>3, <2>4, <2>10, EnteredFollows DEF M
    <2>12. Known(M, Q)
      BY <2>6, <2>7 DEF Meaning, Known, Has, M, L
    <2>13. Meaning(M, U, S, Q)
      <3>1. Meaning(L, T, S, Q) /\ Entered(L, T, M, U, x, Undefined, FALSE)
        BY <2>4 DEF L, T, S, M
      <3> QED
        BY <2>1, <2>4, <2>12, <3>1, EnteredMeaning
    <2>14. id \in DOMAIN M /\ id \notin DOMAIN L /\ labels' = M /\ Assembled(id, labels')
      BY <2>2, <2>6 DEF M, id
    <2> QED
      BY <2>2, <2>8, <2>9, <2>11, <2>13, <2>14 DEF L, T, S
  <1>8. CASE Searched(x) # {}
    <2>1. PICK s \in Searched(x) : \A t \in Searched(x) : t <= s
      BY <1>1, <1>8, Innermosts DEF T
    <2>2. s \in DOMAIN T /\ x \in DOMAIN T[s] /\ \A t \in DOMAIN T : x \in DOMAIN T[t] => t <= s
      <3>1. s \in 1 .. Top
        BY <2>1 DEF Searched
      <3> QED
        BY <2>1, <3>1, <1>1, <1>5, <1>6
    <2> DEFINE id == T[s][x]
               m == IF L[id].local THEN Home(S, s) ELSE 0
    <2>3. Assembled(id, labels) /\ labels' = L /\ local_labels' = T
      <3>1. (CHOOSE r \in Searched(x) : \A t \in Searched(x) : t <= r) = s
        <4>1. Searched(x) \subseteq Nat
          BY <1>1, <1>6 DEF Searched
        <4> QED
          BY <2>1, <4>1
      <3> QED
        BY <3>1, <1>8 DEF Refers, L, T
    <2>4. id \in DOMAIN L /\ L[id].name = x /\ ~Free(T, id)
      BY <2>2, <1>4 DEF Free
    <2> HIDE DEF id
    <2>5. ASSUME L[id].local PROVE Means(Q, x, S, m) /\ Bound(L, T, S, Q, x, m, id)
      <3>1. m = Home(S, s)
        BY <2>5
      <3>2. s # 1
        <4>1. LocalIn(Q, x, Home(S, s))
          BY <2>2, <2>5 DEF Scoped, Flags, S, T, L, id
        <4> QED
          BY <4>1 DEF Home, LocalIn, Scoped, Within
      <3>3. s - 1 \in DOMAIN S /\ (s - 1) + 1 = s /\ m = S[s - 1] /\ m # 0
        <4>1. s - 1 \in DOMAIN S /\ (s - 1) + 1 = s
          BY <3>2, <2>2, <1>1
        <4>2. m # 0
          BY <3>1, <3>2, <2>2, InnermostHome DEF S, T
        <4> QED
          BY <4>1, <4>2, <3>1, <3>2 DEF Home
      <3>4. LocalIn(Q, x, m)
        BY <3>3, <2>2, <2>5, <1>3 DEF id
      <3>5. \A k \in DOMAIN S : k > s - 1 => ~LocalIn(Q, x, S[k])
        <4> SUFFICES ASSUME NEW k \in DOMAIN S, k > s - 1, LocalIn(Q, x, S[k]) PROVE FALSE
          OBVIOUS
        <4>1. x \in DOMAIN T[k + 1] /\ k + 1 \in DOMAIN T
          BY <1>2, <1>3
        <4> QED
          BY <4>1, <2>2, <1>1
      <3>6. Means(Q, x, S, m)
        BY <3>3, <3>4, <3>5 DEF Means
      <3>7. \A i \in DOMAIN S : S[i] = m => i = s - 1
        BY <3>3 DEF Shape, S
      <3> HIDE DEF m
      <3>8. Bound(L, T, S, Q, x, m, id)
        <4>1. \A i \in DOMAIN S : S[i] = m => x \in DOMAIN T[i + 1] /\ T[i + 1][x] = id
          BY <3>3, <3>7, <2>2 DEF id
        <4> QED
          BY <4>1, <3>3, <3>4, <2>4 DEF Bound
      <3> QED
        BY <3>6, <3>8
    <2>6. ASSUME ~L[id].local PROVE Means(Q, x, S, m) /\ Bound(L, T, S, Q, x, m, id)
      <3>1. \A i \in DOMAIN S : ~LocalIn(Q, x, S[i])
        <4> SUFFICES ASSUME NEW i \in DOMAIN S, LocalIn(Q, x, S[i]) PROVE FALSE
          OBVIOUS
        <4>1. x \in DOMAIN T[i + 1] /\ L[T[i + 1][x]].local /\ i + 1 \in DOMAIN T
          BY <1>2, <1>3
        <4>2. i + 1 < s
          <5>1. i + 1 <= s /\ i + 1 # s
            BY <4>1, <2>2, <2>6 DEF id
          <5> QED
            BY <5>1, <2>2, <1>1
        <4>3. Exposed(L, T)
          BY DEF Meaning, L, T
        <4> QED
          BY <4>1, <4>2, <4>3, <2>2, <2>6 DEF Exposed, id
      <3>2. m = 0
        BY <2>6
      <3> HIDE DEF m
      <3>3. Means(Q, x, S, m) /\ Bound(L, T, S, Q, x, m, id)
        BY <3>1, <3>2, <2>4, <2>6 DEF Means, Bound
      <3> QED
        BY <3>3
    <2> HIDE DEF m
    <2>7. Means(Q, x, S, m) /\ Bound(L, T, S, Q, x, m, id)
      BY <2>5, <2>6
    <2>8. Follows(L, T, S, Q, L, T, S, Q)
      BY DEF Follows
    <2> QED
      BY <2>3, <2>4, <2>7, <2>8 DEF L, T, S
  <1> QED
    BY <1>7, <1>8

-----------------------------------------------------------------------------
(* The memory.                                                             *)

\* Where the source puts something.
Places(P) == {P[j].at : j \in References(P) \cup Labels(P)}

\* Where the calls of the #init routines begin, when there are any, and the cells
\* of the calls and of the jump.
Start == index - called - (IF AUTORUN_ADDR = Undefined THEN 0 ELSE 1)
Behind == IF called = 0 THEN {} ELSE Start .. index - 1

\* The places of the memory are those of the source and of the calls, and only
\* instructions fill them.
Filled ==
  /\ \E n \in Nat : DOMAIN orgs \subseteq 0 .. n
  /\ memory_bytes = [a \in DOMAIN memory_bytes |-> memory_bytes[a]]
  /\ DOMAIN orgs = Places(prog) \cup Behind
  /\ \A a \in DOMAIN orgs : orgs[a] # <<>> =>
       (\E j \in References(prog) : prog[j].at = a) \/ a \in Behind

\* What is known of the calls.
Finish ==
  /\ AUTORUN_ADDR = Undefined \/ (called > 0 /\ called = Len(INITS) /\ AUTORUN_ADDR = current_org)
  /\ called > 0 => /\ scopes = <<>> /\ Start \in Nat /\ Places(prog) # {}
                   /\ current_org = Highest(Places(prog)) + 1

\* The references to temporary labels that are open have objects of their own.
Waiting ==
  /\ \A r \in tmp_pending : r.id \in DOMAIN labels /\ Free(local_labels, r.id)
  /\ \A r, q \in tmp_pending : r.id = q.id => r = q

\* The temporary labels are those since the last ORG, which was in line o.
Since(o) ==
  /\ \A k \in DOMAIN tmp_labels :
       /\ tmp_labels[k].line \in o + 1 .. Len(prog) /\ prog[tmp_labels[k].line].is = "1:"
       /\ tmp_labels[k].value = prog[tmp_labels[k].line].at
  /\ \A j, k \in DOMAIN tmp_labels : j < k => tmp_labels[j].line < tmp_labels[k].line
  /\ \A j \in DOMAIN prog : j > o /\ prog[j].is = "1:" =>
       \E k \in DOMAIN tmp_labels : tmp_labels[k].line = j
  /\ \A r \in tmp_pending : r.line \in o + 1 .. Len(prog)
Temporary == tmp_labels \in Seq([line : Nat, value : Nat]) /\ \E o \in 0 .. Len(prog) : Since(o)

\* No two instructions of the source share an address, or use one of a call.
Distinct(P) == \A j, k \in References(P) : j # k => P[j].at # P[k].at
Below == called > 0 => \A j \in References(prog) : prog[j].at < Start

Operand(a) == orgs[a][1].arg
Pending(id) == \E r \in tmp_pending : r.id = id

\* There is an instruction at a, with its operand if that was known.
Written(a) ==
  /\ a \in DOMAIN orgs /\ orgs[a] # <<>> /\ Operand(a) \in DOMAIN labels
  /\ orgs[a][1].pending \/ (Has(labels, Operand(a)) /\ memory_bytes[a] = labels[Operand(a)].value)

\* Its operand x means the label of m.
BoundAt(a, x, m) ==
  /\ Written(a) /\ ~Pending(Operand(a))
  /\ Bound(labels, local_labels, scopes, prog, x, m, Operand(a))

\* Its operand is the temporary label of line j.
Awaits(a, j) ==
  /\ Written(a) /\ orgs[a][1].pending /\ ~Has(labels, Operand(a))
  /\ labels[Operand(a)].name = prog[j].is /\ Free(local_labels, Operand(a))
  /\ \A r \in tmp_pending : r.id = Operand(a) => r.line = j

Rightly(j) ==
  IF prog[j].is = "use"
  THEN \E m : Means(prog, prog[j].name, prog[j].path, m) /\ BoundAt(prog[j].at, prog[j].name, m)
  ELSE Awaits(prog[j].at, j)

Operands == Distinct(prog) /\ Below => \A j \in References(prog) : Rightly(j)

Calls ==
  called > 0 /\ Below =>
    /\ \A k \in 1 .. called : BoundAt(Start + k - 1, INITS[k], 0)
    /\ AUTORUN_ADDR # Undefined =>
         /\ index - 1 \in DOMAIN orgs /\ orgs[index - 1] # <<>> /\ ~orgs[index - 1][1].pending
         /\ memory_bytes[index - 1] = Lowest(DOMAIN orgs)

MInv == Filled /\ Finish /\ Waiting /\ Temporary /\ Operands /\ Calls

\* Until the binary is made.
BInv == Sound /\ binary = NoBinary => Understood /\ MInv

-----------------------------------------------------------------------------
(* What is kept of an instruction that stays as it is.                     *)

Untouched(a) ==
  a \in DOMAIN orgs =>
    a \in DOMAIN orgs' /\ orgs'[a] = orgs[a] /\ memory_bytes'[a] = memory_bytes[a]

\* Only new objects become those of a reference to a temporary label.
Asked == \A r \in tmp_pending' : r \in tmp_pending \/ r.id \notin DOMAIN labels

LEMMA BoundKept ==
  ASSUME Continued, Asked, NEW a, NEW x, NEW m, Untouched(a), BoundAt(a, x, m)
  PROVE  BoundAt(a, x, m)'
  <1>0. PICK id : id = Operand(a)
    OBVIOUS
  <1>1. /\ a \in DOMAIN orgs /\ orgs[a] # <<>> /\ id \in DOMAIN labels
        /\ orgs[a][1].pending \/ (Has(labels, id) /\ memory_bytes[a] = labels[id].value)
        /\ ~Pending(id) /\ Bound(labels, local_labels, scopes, prog, x, m, id)
    BY <1>0 DEF BoundAt, Written
  <1>2. a \in DOMAIN orgs' /\ orgs'[a] = orgs[a] /\ memory_bytes'[a] = memory_bytes[a] /\ Operand(a)' = id
    BY <1>0, <1>1 DEF Untouched, Operand
  <1>3. ~Pending(id)'
    BY <1>1 DEF Pending, Asked
  <1>4. /\ id \in DOMAIN labels'
        /\ Has(labels, id) => labels'[id].value = labels[id].value
        /\ Bound(labels', local_labels', scopes', prog', x, m, id)
    BY <1>1 DEF Continued, Follows
  <1>5. Written(a)'
    BY <1>1, <1>2, <1>4 DEF Written, Has
  <1> QED
    BY <1>2, <1>3, <1>4, <1>5 DEF BoundAt, Pending

LEMMA AwaitsKept ==
  ASSUME Continued, Asked, NEW a, NEW j \in References(prog), Untouched(a), Awaits(a, j)
  PROVE  Awaits(a, j)'
  <1> DEFINE id == Operand(a)
  <1>1. /\ a \in DOMAIN orgs /\ orgs[a] # <<>> /\ id \in DOMAIN labels
        /\ orgs[a][1].pending /\ ~Has(labels, id) /\ labels[id].name = prog[j].is
        /\ Free(local_labels, id) /\ \A r \in tmp_pending : r.id = id => r.line = j
    BY DEF Awaits, Written
  <1>2. a \in DOMAIN orgs' /\ orgs'[a] = orgs[a] /\ Operand(a)' = id
    BY <1>1 DEF Untouched, Operand
  <1>3. \A r \in tmp_pending' : r.id = id => r.line = j
    BY <1>1 DEF Asked
  <1> HIDE DEF id
  <1>4. /\ id \in DOMAIN labels' /\ labels'[id].name = labels[id].name
        /\ Free(local_labels', id) /\ labels'[id].value = labels[id].value
        /\ prog'[j] = prog[j]
    BY <1>1 DEF Continued, Follows
  <1> QED
    BY <1>1, <1>2, <1>3, <1>4 DEF Awaits, Written, Has

LEMMA RightlyKept ==
  ASSUME Continued, Asked, NEW j \in References(prog), Untouched(prog[j].at), Rightly(j)
  PROVE  Rightly(j)'
  <1>1. prog'[j] = prog[j]
    BY DEF Continued, Follows
  <1>2. CASE prog[j].is = "use"
    <2>1. PICK m : Means(prog, prog[j].name, prog[j].path, m) /\ BoundAt(prog[j].at, prog[j].name, m)
      BY <1>2 DEF Rightly
    <2>2. Means(prog', prog[j].name, prog[j].path, m)
      BY <2>1 DEF Continued, Follows
    <2> DEFINE a == prog[j].at
               x == prog[j].name
    <2>3. PICK b, y : b = prog[j].at /\ y = prog[j].name
      OBVIOUS
    <2>4. BoundAt(b, y, m)'
      BY <2>1, <2>3, BoundKept
    <2> QED
      BY <1>1, <1>2, <2>2, <2>3, <2>4 DEF Rightly
  <1>3. CASE prog[j].is # "use"
    <2>1. PICK b : b = prog[j].at
      OBVIOUS
    <2>2. Awaits(b, j)
      BY <1>3, <2>1 DEF Rightly
    <2>3. Awaits(b, j)'
      BY <2>1, <2>2, AwaitsKept
    <2> QED
      BY <1>1, <1>3, <2>1, <2>3 DEF Rightly
  <1> QED
    BY <1>2, <1>3

-----------------------------------------------------------------------------
(* What a statement does to the memory.                                    *)

Instructions == {"use", "1B", "1F"}

LEMMA PlacesRead ==
  ASSUME NEW P, NEW e, NEW Q, Extends(P, e, Q)
  PROVE  /\ References(P) \subseteq References(Q)
         /\ \A j \in References(P) : Q[j] = P[j] /\ j # Len(Q)
         /\ Q[Len(Q)] = e
         /\ e.is \in Instructions => References(Q) = References(P) \cup {Len(Q)}
         /\ e.is \notin Instructions => References(Q) = References(P)
         /\ e.is \in Instructions \cup {"label"} => Places(Q) = Places(P) \cup {e.at}
         /\ e.is \notin Instructions \cup {"label"} => Places(Q) = Places(P)
  <1>1. /\ DOMAIN Q = DOMAIN P \cup {Len(Q)} /\ Len(Q) \notin DOMAIN P /\ Q[Len(Q)] = e
        /\ \A j \in DOMAIN P : Q[j] = P[j]
    BY DEF Extends
  <1>2. \A j : j \in References(Q) <=> j \in References(P) \/ (j = Len(Q) /\ e.is \in Instructions)
    BY <1>1 DEF References, Instructions
  <1>3. \A j : j \in Labels(Q) <=> j \in Labels(P) \/ (j = Len(Q) /\ e.is = "label")
    BY <1>1 DEF Labels
  <1>4. \A j \in References(P) \cup Labels(P) : j \in DOMAIN P
    BY DEF References, Labels
  <1>5. \A a : a \in Places(Q) <=> a \in Places(P) \/ (a = e.at /\ e.is \in Instructions \cup {"label"})
    <2>1. \A a : a \in Places(Q) <=> \E j \in References(Q) \cup Labels(Q) : a = Q[j].at
      BY DEF Places
    <2>2. \A a : a \in Places(P) <=> \E j \in References(P) \cup Labels(P) : a = P[j].at
      BY DEF Places
    <2>3. ASSUME NEW a, NEW j \in References(P) \cup Labels(P), a = P[j].at PROVE a \in Places(Q)
      BY <2>1, <2>3, <1>1, <1>2, <1>3, <1>4
    <2>4. ASSUME e.is \in Instructions \cup {"label"} PROVE e.at \in Places(Q)
      BY <2>1, <2>4, <1>1, <1>2, <1>3
    <2>5. ASSUME NEW a, NEW j \in References(Q) \cup Labels(Q), a = Q[j].at
          PROVE  a \in Places(P) \/ (a = e.at /\ e.is \in Instructions \cup {"label"})
      <3>1. CASE j \in References(P) \cup Labels(P)
        BY <3>1, <2>2, <2>5, <1>1, <1>4
      <3>2. CASE j \notin References(P) \cup Labels(P)
        BY <3>2, <2>5, <1>1, <1>2, <1>3
      <3> QED
        BY <3>1, <3>2
    <2> QED
      BY <2>1, <2>2, <2>3, <2>4, <2>5
  <1>6. e.is \in Instructions => References(Q) = References(P) \cup {Len(Q)}
    BY ONLY <1>2
  <1>7. e.is \notin Instructions => References(Q) = References(P)
    BY ONLY <1>2
  <1>8. e.is \in Instructions \cup {"label"} => Places(Q) = Places(P) \cup {e.at}
    BY ONLY <1>5
  <1>9. e.is \notin Instructions \cup {"label"} => Places(Q) = Places(P)
    BY ONLY <1>5
  <1> QED
    BY ONLY <1>1, <1>2, <1>4, <1>6, <1>7, <1>8, <1>9

\* No instruction is where a new one goes, unless two share the address.
LEMMA FreshPlace ==
  ASSUME Filled, called = 0, NEW e, Extends(prog, e, prog'), e.is \in Instructions, e.at = index,
         Distinct(prog')
  PROVE  index \notin DOMAIN orgs \/ orgs[index] = <<>>
  <1> SUFFICES ASSUME index \in DOMAIN orgs, orgs[index] # <<>> PROVE FALSE
    OBVIOUS
  <1>1. PICK j \in References(prog) : prog[j].at = index
    BY DEF Filled, Behind
  <1>2. /\ j \in References(prog') /\ Len(prog') \in References(prog') /\ j # Len(prog')
        /\ prog'[j].at = index /\ prog'[Len(prog')].at = index
    BY <1>1, PlacesRead
  <1> QED
    BY <1>2 DEF Distinct

\* Something is put at index, and nothing else in the memory changes.
Gains(e) ==
  /\ DOMAIN orgs' = IF e.is \in Instructions \cup {"label"} THEN DOMAIN orgs \cup {index} ELSE DOMAIN orgs
  /\ memory_bytes' = [a \in DOMAIN memory_bytes' |-> memory_bytes'[a]]
  /\ \A a : a # index \/ e.is \notin Instructions => Untouched(a)
  /\ index \in DOMAIN orgs' \ DOMAIN orgs /\ orgs'[index] # <<>> => e.is \in Instructions

LEMMA StatementMemory ==
  ASSUME Filled, Finish, Operands, Continued, Asked, NEW e, Extends(prog, e, prog'), e.at = index,
         index \in Nat, Gains(e), called = 0, called' = 0, AUTORUN_ADDR' = AUTORUN_ADDR,
         NEW n, n = Len(prog'), e.is \in Instructions /\ Distinct(prog') => Rightly(n)'
  PROVE  Filled' /\ Finish' /\ Operands' /\ Calls'
  <1>1. Behind = {} /\ Behind' = {}
    BY DEF Behind
  <1>2. /\ References(prog) \subseteq References(prog')
        /\ \A j \in References(prog) : prog'[j] = prog[j] /\ j # Len(prog')
        /\ prog'[Len(prog')] = e
        /\ e.is \in Instructions => References(prog') = References(prog) \cup {Len(prog')}
        /\ e.is \notin Instructions => References(prog') = References(prog)
        /\ e.is \in Instructions \cup {"label"} => Places(prog') = Places(prog) \cup {e.at}
        /\ e.is \notin Instructions \cup {"label"} => Places(prog') = Places(prog)
    BY PlacesRead
  <1>3. Filled'
    <2>1. \E most \in Nat : DOMAIN orgs' \subseteq 0 .. most
      <3>1. PICK most \in Nat : DOMAIN orgs \subseteq 0 .. most
        BY DEF Filled
      <3>2. /\ most + index \in Nat /\ index \in 0 .. most + index
            /\ \A a \in 0 .. most : a \in 0 .. most + index
        BY ONLY most \in Nat, index \in Nat
      <3> QED
        BY <3>1, <3>2 DEF Gains
    <2>2. DOMAIN orgs' = Places(prog') \cup Behind'
      BY <1>1, <1>2 DEF Filled, Gains
    <2>3. ASSUME NEW a \in DOMAIN orgs', orgs'[a] # <<>>
          PROVE  \E j \in References(prog') : prog'[j].at = a
      <3>1. CASE a # index \/ e.is \notin Instructions
        <4>1. a \in DOMAIN orgs /\ orgs'[a] = orgs[a]
          BY <3>1, <2>3 DEF Gains, Untouched
        <4>2. PICK j \in References(prog) : prog[j].at = a
          BY <4>1, <2>3, <1>1 DEF Filled
        <4> QED
          BY <4>2, <1>2
      <3>2. CASE a = index /\ e.is \in Instructions
        BY <3>2, <1>2
      <3> QED
        BY <3>1, <3>2
    <2>4. memory_bytes' = [a \in DOMAIN memory_bytes' |-> memory_bytes'[a]]
      BY DEF Gains
    <2> QED
      BY <2>1, <2>2, <2>3, <2>4 DEF Filled
  <1>4. Finish' /\ Calls'
    BY DEF Finish, Calls
  <1>5. Operands'
    <2> SUFFICES ASSUME Distinct(prog'), NEW j \in References(prog') PROVE Rightly(j)'
      BY DEF Operands
    <2>1. CASE j \in References(prog)
      <3>1. Distinct(prog) /\ Below
        BY <1>2 DEF Distinct, Below
      <3>2. e.is \in Instructions => prog[j].at # index
        BY <2>1, <1>2 DEF Distinct
      <3>3. Untouched(prog[j].at) /\ Rightly(j)
        BY <2>1, <3>1, <3>2 DEF Gains, Operands
      <3> QED
        BY <2>1, <3>3, RightlyKept
    <2>2. CASE j \notin References(prog)
      <3>1. j = n /\ e.is \in Instructions
        BY <2>2, <1>2
      <3> QED
        BY <3>1
    <2> QED
      BY <2>1, <2>2
  <1> QED
    BY <1>3, <1>4, <1>5

\* And to the temporary labels, if it declares none.
LEMMA TemporaryKept ==
  ASSUME Waiting, Temporary, Continued, NEW e, Extends(prog, e, prog'), e.is # "1:",
         tmp_labels' = tmp_labels,
         tmp_pending' = tmp_pending \/
           \E id \in DOMAIN labels' : /\ id \notin DOMAIN labels /\ Free(local_labels', id)
                                      /\ tmp_pending' = tmp_pending \cup {[id |-> id, line |-> Len(prog')]}
  PROVE  Waiting' /\ Temporary'
  <1>1. \A i \in DOMAIN labels : i \in DOMAIN labels' /\ (Free(local_labels, i) => Free(local_labels', i))
    BY DEF Continued, Follows
  <1>2. Waiting'
    BY <1>1 DEF Waiting
  <1>3. PICK o \in 0 .. Len(prog) : Since(o)
    BY DEF Temporary
  <1>4. /\ Len(prog) \in Nat /\ Len(prog') = Len(prog) + 1 /\ DOMAIN prog = 1 .. Len(prog)
        /\ DOMAIN prog' = DOMAIN prog \cup {Len(prog')} /\ prog'[Len(prog')] = e
        /\ \A j \in DOMAIN prog : prog'[j] = prog[j]
    BY DEF Extends
  <1>5. o \in 0 .. Len(prog') /\ \A l \in o + 1 .. Len(prog) : l \in o + 1 .. Len(prog') /\ l \in DOMAIN prog
    BY <1>3, <1>4
  <1>6. \A r \in tmp_pending' : r \in tmp_pending \/ r.line = Len(prog')
    OBVIOUS
  <1>7. Len(prog') \in o + 1 .. Len(prog')
    BY <1>3, <1>4
  <1>8. Since(o)'
    <2>1. \A k \in DOMAIN tmp_labels :
            /\ tmp_labels[k].line \in o + 1 .. Len(prog')
            /\ prog'[tmp_labels[k].line].is = "1:"
            /\ tmp_labels[k].value = prog'[tmp_labels[k].line].at
      BY <1>3, <1>4, <1>5 DEF Since
    <2>2. \A r \in tmp_pending' : r.line \in o + 1 .. Len(prog')
      BY <1>3, <1>5, <1>6, <1>7 DEF Since
    <2>3. \A j \in DOMAIN prog' : j > o /\ prog'[j].is = "1:" => \E k \in DOMAIN tmp_labels : tmp_labels[k].line = j
      BY <1>3, <1>4 DEF Since
    <2>4. \A j, k \in DOMAIN tmp_labels : j < k => tmp_labels[j].line < tmp_labels[k].line
      BY <1>3 DEF Since
    <2> QED
      BY <2>1, <2>2, <2>3, <2>4 DEF Since
  <1> QED
    BY <1>2, <1>5, <1>8 DEF Temporary

-----------------------------------------------------------------------------
(* Every action keeps it.                                                  *)

\* Before a step that continues, the memory was as MInv says.
LEMMA WasSo == ASSUME BInv, Continued, binary = NoBinary PROVE MInv
  BY DEF BInv, Continued

\* Statements that put nothing into the memory.
LEMMA QuietKeeps ==
  ASSUME IInv, BInv, Sound', Continued, NEW k \in Kinds, k \notin Instructions \cup {"label"},
         NEW x \in Names \cup {Undefined}, Reads(k, x), k \in {"label", "LOCAL"} => x \in Names,
         UNCHANGED <<orgs, memory_bytes, called, AUTORUN_ADDR>>, tmp_pending' \subseteq tmp_pending
  PROVE  /\ Extends(prog, Statement(k, x), prog') /\ MInv
         /\ Filled' /\ Finish' /\ Operands' /\ Calls' /\ Waiting'
  <1> DEFINE e == Statement(k, x)
  <1>1. called = 0 /\ binary = NoBinary
    BY DEF Reads
  <1>2. MInv
    BY <1>1, WasSo
  <1>3. Extends(prog, e, prog')
    BY ReadsLine
  <1>4. e.is = k /\ e.at = index
    BY DEF Statement
  <1> HIDE DEF e
  <1>5. Asked
    BY DEF Asked
  <1>6. Gains(e)
    BY <1>2, <1>4 DEF Gains, Untouched, MInv, Filled, IInv, Typing
  <1>7. index \in Nat /\ called' = 0 /\ e.is \notin Instructions
    BY <1>1, <1>4 DEF IInv, Typing
  <1>8. Filled /\ Finish /\ Operands /\ Waiting
    BY <1>2 DEF MInv
  <1>9. PICK n : n = Len(prog')
    OBVIOUS
  <1>10. Filled' /\ Finish' /\ Operands' /\ Calls'
    BY <1>1, <1>3, <1>4, <1>5, <1>6, <1>7, <1>8, <1>9, StatementMemory
  <1>11. \A i \in DOMAIN labels : i \in DOMAIN labels' /\ (Free(local_labels, i) => Free(local_labels', i))
    BY DEF Continued, Follows
  <1>12. Waiting'
    BY <1>8, <1>11 DEF Waiting
  <1> QED
    BY <1>2, <1>3, <1>10, <1>12 DEF e

\* The same when the temporary labels stay as they are.
LEMMA QuietTemporary ==
  ASSUME MInv, Continued, NEW k, NEW x, k # "1:", Extends(prog, Statement(k, x), prog'),
         UNCHANGED <<tmp_labels, tmp_pending>>
  PROVE  Temporary'
  <1>1. Statement(k, x).is # "1:"
    BY DEF Statement
  <1>2. Waiting /\ Temporary
    BY DEF MInv
  <1> QED
    BY <1>1, <1>2, TemporaryKept

LEMMA ScopesKeep ==
  ASSUME IInv, BInv, Sound', enter_proc \/ exit_proc \/ (\E x \in Names : set_label(x) \/ init(x))
  PROVE  Understood' /\ MInv'
  <1>1. PICK k \in {"PROC", "ENDP", "LOCAL", "#init"}, x \in Names \cup {Undefined} :
          Reads(k, x) /\ (k = "LOCAL" => x \in Names)
    BY DEF enter_proc, exit_proc, set_label, init
  <1>2. /\ k \in Kinds /\ k \notin Instructions \cup {"label"} /\ k # "1:"
        /\ k \in {"label", "LOCAL"} => x \in Names
    BY <1>1 DEF Kinds, Instructions
  <1>3. UNCHANGED <<orgs, memory_bytes, called, AUTORUN_ADDR, tmp_labels, tmp_pending>>
    BY DEF enter_proc, exit_proc, set_label, init, memory, starting, tables
  <1>4. binary = NoBinary
    BY <1>1 DEF Reads
  <1>5. Sound => Understood
    BY <1>4 DEF BInv
  <1>6. Continued
    BY <1>5, EnterContinues, ExitContinues, LocalContinues, PlainContinues
  <1>7. /\ Extends(prog, Statement(k, x), prog') /\ MInv
        /\ Filled' /\ Finish' /\ Operands' /\ Calls' /\ Waiting'
    BY <1>1, <1>2, <1>3, <1>6, QuietKeeps
  <1>8. Temporary'
    BY <1>2, <1>3, <1>6, <1>7, QuietTemporary
  <1> QED
    BY <1>6, <1>7, <1>8 DEF MInv, Continued

LEMMA OrgKeepsMemory == ASSUME IInv, BInv, Sound', NEW a \in Origins, set_org(a) PROVE Understood' /\ MInv'
  <1>1. /\ "ORG" \in Kinds /\ "ORG" \notin Instructions \cup {"label"} /\ Reads("ORG", Undefined)
        /\ "ORG" \in {"label", "LOCAL"} => Undefined \in Names
    BY DEF Kinds, Instructions, set_org
  <1>2. /\ UNCHANGED <<orgs, memory_bytes, called, AUTORUN_ADDR>>
        /\ tmp_labels' = <<>> /\ tmp_pending' = {} /\ tmp_pending' \subseteq tmp_pending
    BY DEF set_org, starting
  <1>3. Continued
    <2>1. Sound => Understood
      BY <1>1 DEF BInv, Reads
    <2> QED
      BY <2>1, PlainContinues
  <1>4. Undefined \in Names \cup {Undefined}
    OBVIOUS
  <1>5. /\ Extends(prog, Statement("ORG", Undefined), prog') /\ MInv
        /\ Filled' /\ Finish' /\ Operands' /\ Calls' /\ Waiting'
    BY <1>1, <1>2, <1>3, <1>4, QuietKeeps
  <1>6. Temporary'
    <2>1. PICK o : o = Len(prog')
      OBVIOUS
    <2>2. Len(prog') \in Nat /\ DOMAIN prog' = 1 .. Len(prog')
      BY <1>5 DEF Extends
    <2>3. DOMAIN tmp_labels' = {} /\ tmp_labels' \in Seq([line : Nat, value : Nat])
      BY <1>2
    <2>4. Since(o)'
      <3>1. ~\E j \in DOMAIN prog' : j > o
        BY <2>1, <2>2
      <3> QED
        BY <3>1, <2>3, <1>2 DEF Since
    <2>5. o \in 0 .. Len(prog')
      BY <2>1, <2>2
    <2> QED
      BY <2>3, <2>4, <2>5 DEF Temporary
  <1> QED
    BY <1>3, <1>5, <1>6 DEF MInv, Continued

LEMMA DeclareTemporaryKeepsMemory == ASSUME IInv, BInv, Sound', declare_temporary PROVE Understood' /\ MInv'
  <1>1. /\ "1:" \in Kinds /\ "1:" \notin Instructions \cup {"label"} /\ Reads("1:", Undefined)
        /\ "1:" \in {"label", "LOCAL"} => Undefined \in Names
    BY DEF Kinds, Instructions, declare_temporary
  <1>2. /\ UNCHANGED <<orgs, memory_bytes, called, AUTORUN_ADDR>>
        /\ tmp_labels' = Append(tmp_labels, [line |-> Line, value |-> index])
        /\ tmp_pending' = tmp_pending /\ tmp_pending' \subseteq tmp_pending
    BY DEF declare_temporary, starting, memory
  <1>3. Continued
    <2>1. Sound => Understood
      BY <1>1 DEF BInv, Reads
    <2> QED
      BY <2>1, PlainContinues
  <1>4. Undefined \in Names \cup {Undefined}
    OBVIOUS
  <1>5. /\ Extends(prog, Statement("1:", Undefined), prog') /\ MInv
        /\ Filled' /\ Finish' /\ Operands' /\ Calls' /\ Waiting'
    BY <1>1, <1>2, <1>3, <1>4, QuietKeeps
  <1>6. Temporary'
    <2> DEFINE e == [line |-> Line, value |-> index]
               R == [line : Nat, value : Nat]
               K == Len(tmp_labels) + 1
    <2>1. /\ Len(prog) \in Nat /\ Len(prog') = Len(prog) + 1 /\ DOMAIN prog = 1 .. Len(prog)
          /\ DOMAIN prog' = DOMAIN prog \cup {Len(prog')} /\ \A j \in DOMAIN prog : prog'[j] = prog[j]
          /\ prog'[Len(prog')].is = "1:" /\ prog'[Len(prog')].at = index
      BY <1>5 DEF Extends, Statement
    <2>2. e \in R /\ e.line = Len(prog') /\ e.value = index
      BY <2>1 DEF Line, IInv, Typing
    <2>3. tmp_labels \in Seq(R) /\ tmp_labels' = Append(tmp_labels, e)
      BY <1>2, <1>5 DEF MInv, Temporary
    <2> HIDE DEF e, R
    <2>4. /\ tmp_labels' \in Seq(R) /\ DOMAIN tmp_labels' = DOMAIN tmp_labels \cup {K}
          /\ \A k \in DOMAIN tmp_labels : tmp_labels'[k] = tmp_labels[k]
          /\ tmp_labels'[K] = e /\ DOMAIN tmp_labels = 1 .. Len(tmp_labels) /\ Len(tmp_labels) \in Nat
      BY ONLY <2>2, <2>3, Appended
    <2>5. PICK o \in 0 .. Len(prog) : Since(o)
      BY <1>5 DEF MInv, Temporary
    <2>6. /\ o \in 0 .. Len(prog') /\ Len(prog') \in o + 1 .. Len(prog')
          /\ \A l \in o + 1 .. Len(prog) : l \in o + 1 .. Len(prog') /\ l \in DOMAIN prog /\ l < Len(prog')
      BY <2>1, <2>5
    <2>7. \A k \in DOMAIN tmp_labels :
            tmp_labels[k].line \in o + 1 .. Len(prog) /\ prog[tmp_labels[k].line].is = "1:"
              /\ tmp_labels[k].value = prog[tmp_labels[k].line].at
      BY <2>5 DEF Since
    <2>8. \A k \in DOMAIN tmp_labels : k < K
      BY <2>4
    <2> HIDE DEF K
    <2>9. \A k \in DOMAIN tmp_labels' :
            /\ tmp_labels'[k].line \in o + 1 .. Len(prog')
            /\ prog'[tmp_labels'[k].line].is = "1:"
            /\ tmp_labels'[k].value = prog'[tmp_labels'[k].line].at
      <3> SUFFICES ASSUME NEW k \in DOMAIN tmp_labels'
                   PROVE  /\ tmp_labels'[k].line \in o + 1 .. Len(prog')
                          /\ prog'[tmp_labels'[k].line].is = "1:"
                          /\ tmp_labels'[k].value = prog'[tmp_labels'[k].line].at
        OBVIOUS
      <3>1. CASE k \in DOMAIN tmp_labels
        BY <3>1, <2>1, <2>4, <2>6, <2>7
      <3>2. CASE k = K
        BY <3>2, <2>1, <2>2, <2>4, <2>6
      <3> QED
        BY <3>1, <3>2, <2>4
    <2>10. \A j, k \in DOMAIN tmp_labels' : j < k => tmp_labels'[j].line < tmp_labels'[k].line
      <3> SUFFICES ASSUME NEW j \in DOMAIN tmp_labels', NEW k \in DOMAIN tmp_labels', j < k
                   PROVE  tmp_labels'[j].line < tmp_labels'[k].line
        OBVIOUS
      <3>1. j \in DOMAIN tmp_labels
        <4>1. K = Len(tmp_labels) + 1
          BY DEF K
        <4> QED
          BY <4>1, <2>4
      <3>2. CASE k \in DOMAIN tmp_labels
        BY <3>1, <3>2, <2>4, <2>5 DEF Since
      <3>3. CASE k = K
        BY <3>1, <3>3, <2>2, <2>4, <2>6, <2>7
      <3> QED
        BY <3>2, <3>3, <2>4
    <2>11. \A j \in DOMAIN prog' : j > o /\ prog'[j].is = "1:" =>
             \E k \in DOMAIN tmp_labels' : tmp_labels'[k].line = j
      <3> SUFFICES ASSUME NEW j \in DOMAIN prog', j > o, prog'[j].is = "1:"
                   PROVE  \E k \in DOMAIN tmp_labels' : tmp_labels'[k].line = j
        OBVIOUS
      <3>1. CASE j \in DOMAIN prog
        BY <3>1, <2>1, <2>4, <2>5 DEF Since
      <3>2. CASE j = Len(prog')
        BY <3>2, <2>2, <2>4
      <3> QED
        BY <3>1, <3>2, <2>1
    <2>12. \A r \in tmp_pending' : r.line \in o + 1 .. Len(prog')
      BY <1>2, <2>5, <2>6 DEF Since
    <2>13. Since(o)'
      BY <2>9, <2>10, <2>11, <2>12 DEF Since
    <2> QED
      BY <2>4, <2>6, <2>13 DEF Temporary, R
  <1> QED
    BY <1>3, <1>5, <1>6 DEF MInv, Continued

LEMMA LabelKeepsMemory == ASSUME IInv, BInv, Sound', NEW x \in Names, declare_label(x) PROVE Understood' /\ MInv'
  <1> DEFINE e == Statement("label", x)
  <1>1. /\ "label" \in Kinds /\ Reads("label", x) /\ ("label" \in {"label", "LOCAL"} => x \in Names)
        /\ x \in Names \cup {Undefined} /\ called = 0 /\ binary = NoBinary
    BY DEF Kinds, declare_label, Reads
  <1>2. /\ UNCHANGED <<called, AUTORUN_ADDR, tmp_labels, tmp_pending>>
        /\ orgs' = Slot(orgs, <<>>) /\ memory_bytes' = Slot(memory_bytes, 0)
    BY DEF declare_label, starting
  <1>3. Sound => Understood
    BY <1>1 DEF BInv
  <1>4. Continued
    BY <1>3, LabelContinues
  <1>5. MInv
    BY <1>1, <1>4, WasSo
  <1>6. Extends(prog, e, prog')
    BY <1>1, ReadsLine
  <1>7. e.is = "label" /\ e.is \notin Instructions /\ e.at = index /\ e.is # "1:"
    BY DEF Statement, Instructions
  <1>8. Asked /\ index \in Nat /\ called' = 0 /\ DOMAIN orgs = DOMAIN memory_bytes
    BY <1>1, <1>2 DEF Asked, IInv, Typing
  <1> HIDE DEF e
  <1>9. Gains(e)
    <2>1. \A a : Untouched(a)
      BY <1>2, <1>8 DEF Untouched, Slot, With
    <2>2. /\ DOMAIN orgs' = DOMAIN orgs \cup {index}
          /\ index \in DOMAIN orgs' \ DOMAIN orgs => orgs'[index] = <<>>
      BY <1>2 DEF Slot, With
    <2>3. memory_bytes' = [a \in DOMAIN memory_bytes' |-> memory_bytes'[a]]
      <3>1. memory_bytes = [a \in DOMAIN memory_bytes |-> memory_bytes[a]]
        BY <1>5 DEF MInv, Filled
      <3>2. CASE index \in DOMAIN orgs
        BY <3>1, <3>2, <1>2 DEF Slot
      <3>3. CASE index \notin DOMAIN orgs
        BY <3>3, <1>2 DEF Slot, With
      <3> QED
        BY <3>2, <3>3
    <2> QED
      BY <2>1, <2>2, <2>3, <1>7 DEF Gains
  <1>10. PICK n : n = Len(prog')
    OBVIOUS
  <1>11. Filled /\ Finish /\ Operands /\ Waiting /\ Temporary
    BY <1>5 DEF MInv
  <1>12. Filled' /\ Finish' /\ Operands' /\ Calls'
    BY <1>1, <1>2, <1>4, <1>6, <1>7, <1>8, <1>9, <1>10, <1>11, StatementMemory
  <1>13. Waiting' /\ Temporary'
    BY <1>2, <1>4, <1>6, <1>7, <1>11, TemporaryKept
  <1> QED
    BY <1>4, <1>12, <1>13 DEF MInv, Continued

\* An instruction is assembled.
LEMMA InstructionMemory ==
  ASSUME IInv, MInv, Continued, Asked, NEW e, Extends(prog, e, prog'), e.is \in Instructions, e.at = index,
         NEW id, Assembled(id, labels'), called = 0, called' = 0, AUTORUN_ADDR' = AUTORUN_ADDR,
         NEW n, n = Len(prog'), Wrote(labels', orgs', memory_bytes', index, id) => Rightly(n)'
  PROVE  Filled' /\ Finish' /\ Operands' /\ Calls'
  <1>1. Filled /\ Finish /\ Operands /\ index \in Nat /\ DOMAIN orgs = DOMAIN memory_bytes
    BY DEF MInv, IInv, Typing
  <1>2. Gains(e)
    BY <1>1 DEF Gains, Assembled, With, Untouched
  <1>3. ASSUME Distinct(prog') PROVE Rightly(n)'
    <2>1. index \notin DOMAIN orgs \/ orgs[index] = <<>>
      BY <1>1, <1>3, FreshPlace
    <2> QED
      BY <2>1, Assembles
  <1> QED
    BY <1>1, <1>2, <1>3, StatementMemory

LEMMA UseKeepsMemory == ASSUME IInv, BInv, Sound', NEW x \in Names, refer(x) PROVE Understood' /\ MInv'
  <1> DEFINE e == Statement("use", x)
  <1>1. /\ "use" \in Kinds /\ Reads("use", x) /\ ("use" \in {"label", "LOCAL"} => x \in Names)
        /\ "use" \notin {"label", "LOCAL", "PROC"} /\ "use" # "PROC"
        /\ x \in Names \cup {Undefined} /\ called = 0 /\ binary = NoBinary /\ Refers(x)
    BY DEF Kinds, refer, Reads
  <1>2. UNCHANGED <<called, AUTORUN_ADDR, tmp_labels, tmp_pending, scopes>>
    BY DEF refer, starting, Refers
  <1>3. (Sound => Understood) /\ LocalsFirst(prog') /\ Unshadowed(prog')
    BY <1>1 DEF BInv, Sound
  <1>4. /\ Sound /\ Extends(prog, e, prog') /\ Shape(labels, local_labels, scopes, prog')
        /\ "use" \notin {"label", "LOCAL", "PROC"} => Scoped(labels, local_labels, scopes, prog')
        /\ "use" # "PROC" => Meaning(labels, local_labels, scopes, prog')
        /\ Follows(labels, local_labels, scopes, prog, labels, local_labels, scopes, prog')
    BY <1>1, <1>3, TextRead
  <1>5. e.is = "use" /\ e.is \in Instructions /\ e.at = index /\ e.is # "1:" /\ e.name = x /\ e.path = scopes
    BY DEF Statement, Instructions
  <1> HIDE DEF e
  <1>6. Scoped(labels, local_labels, scopes, prog') /\ Meaning(labels, local_labels, scopes, prog')
    BY <1>1, <1>4
  <1>7. prog'[Len(prog')] = e /\ e.is \notin {"PROC", "LOCAL"}
    BY <1>4, <1>5 DEF Extends
  <1>8. PICK id, m :
          /\ id \in DOMAIN labels'
          /\ Assembled(id, labels')
          /\ id \in DOMAIN labels => ~Free(local_labels, id)
          /\ Means(prog', x, scopes, m)
          /\ Bound(labels', local_labels', scopes, prog', x, m, id)
          /\ Follows(labels, local_labels, scopes, prog', labels', local_labels', scopes, prog')
          /\ Meaning(labels', local_labels', scopes, prog')
    BY <1>1, <1>4, <1>6, <1>7, Binds
  <1>9. Continued
    <2>1. Follows(labels, local_labels, scopes, prog, labels', local_labels', scopes, prog')
      BY ONLY <1>4, <1>8, FollowsTwice
    <2> QED
      BY <2>1, <1>2, <1>4, <1>8 DEF Continued, Understood
  <1>10. MInv
    BY <1>1, <1>9, WasSo
  <1>11. Asked /\ called' = 0
    BY <1>1, <1>2 DEF Asked
  <1>12. PICK n, a : n = Len(prog') /\ a = index
    OBVIOUS
  <1>13. ASSUME Wrote(labels', orgs', memory_bytes', index, id) PROVE Rightly(n)'
    <2>1. Operand(a)' = id /\ Written(a)'
      <3>1. /\ a \in DOMAIN orgs' /\ orgs'[a] # <<>> /\ orgs'[a][1].arg = id
            /\ orgs'[a][1].pending = ~Has(labels', id)
            /\ Has(labels', id) => memory_bytes'[a] = labels'[id].value
        BY <1>12, <1>13 DEF Wrote
      <3> QED
        BY <3>1, <1>8 DEF Operand, Written, Has
    <2>2. ~Pending(id)'
      <3>1. \A r \in tmp_pending : r.id # id
        BY <1>8, <1>10 DEF MInv, Waiting
      <3> QED
        BY <3>1, <1>2 DEF Pending
    <2>3. BoundAt(a, x, m)'
      BY <2>1, <2>2, <1>2, <1>8 DEF BoundAt, Pending
    <2>4. prog'[n].is = "use" /\ prog'[n].at = a /\ prog'[n].name = x /\ prog'[n].path = scopes
      BY <1>5, <1>7, <1>12
    <2> QED
      BY <2>3, <2>4, <1>8 DEF Rightly
  <1>14. Filled' /\ Finish' /\ Operands' /\ Calls'
    BY <1>1, <1>2, <1>4, <1>5, <1>8, <1>9, <1>10, <1>11, <1>12, <1>13, InstructionMemory
  <1>15. Waiting' /\ Temporary'
    BY <1>2, <1>4, <1>5, <1>9, <1>10, TemporaryKept DEF MInv
  <1> QED
    BY <1>9, <1>14, <1>15 DEF MInv, Continued

LEMMA TemporaryKeepsMemory ==
  ASSUME IInv, BInv, Sound', NEW d \in {"1B", "1F"}, refer_temporary(d) PROVE Understood' /\ MInv'
  <1> DEFINE e == Statement(d, Undefined)
             o == Object(d, Undefined, FALSE)
  <1>1. /\ d \in Kinds /\ Reads(d, Undefined) /\ (d \in {"label", "LOCAL"} => Undefined \in Names)
        /\ d # "PROC" /\ Undefined \in Names \cup {Undefined} /\ called = 0 /\ binary = NoBinary
    BY DEF Kinds, refer_temporary, Reads
  <1>2. /\ UNCHANGED <<called, AUTORUN_ADDR, tmp_labels, scopes, local_labels>>
        /\ labels' = Append(labels, o)
        /\ tmp_pending' = tmp_pending \cup {[id |-> Len(labels) + 1, line |-> Line]}
        /\ Assembled(Len(labels) + 1, labels')
    BY DEF refer_temporary, starting
  <1>3. (Sound => Understood) /\ LocalsFirst(prog') /\ Unshadowed(prog')
    BY <1>1 DEF BInv, Sound
  <1>4. /\ Sound /\ Extends(prog, e, prog') /\ Shape(labels, local_labels, scopes, prog')
        /\ d # "PROC" => Meaning(labels, local_labels, scopes, prog')
        /\ Follows(labels, local_labels, scopes, prog, labels, local_labels, scopes, prog')
    BY <1>1, <1>3, TextRead
  <1>5. e.is = d /\ e.is \in Instructions /\ e.at = index /\ e.is # "1:" /\ e.is # "use"
    BY DEF Statement, Instructions
  <1>6. o \in Objects /\ o.value = Undefined /\ o.name = d /\ labels \in Seq(Objects)
    BY DEF Object, Objects, IInv, Typing, Shape
  <1> HIDE DEF e, o
  <1>7. PICK id : id = Len(labels) + 1
    OBVIOUS
  <1>8. id \in DOMAIN labels' /\ id \notin DOMAIN labels /\ labels'[id] = o
    <2>1. /\ Append(labels, o)[Len(labels) + 1] = o
          /\ DOMAIN Append(labels, o) = DOMAIN labels \cup {Len(labels) + 1}
          /\ DOMAIN labels = 1 .. Len(labels) /\ Len(labels) \in Nat
      BY ONLY <1>6, Appended
    <2> QED
      BY <2>1, <1>2, <1>7
  <1>9. Meaning(labels, local_labels, scopes, prog')
    BY <1>1, <1>4
  <1>10. Continued
    <2>1. Follows(labels, local_labels, scopes, prog', Append(labels, o), local_labels, scopes, prog')
      BY ONLY <1>6, GrownFollows
    <2>2. Follows(labels, local_labels, scopes, prog, Append(labels, o), local_labels, scopes, prog')
      BY ONLY <2>1, <1>4, FollowsTwice
    <2>3. Meaning(Append(labels, o), local_labels, scopes, prog')
      BY ONLY <1>4, <1>6, <1>9, GrownMeaning
    <2> QED
      BY <2>2, <2>3, <1>2, <1>4 DEF Continued, Understood
  <1>11. MInv
    BY <1>1, <1>10, WasSo
  <1>12. Asked /\ called' = 0
    BY <1>1, <1>2, <1>7, <1>8 DEF Asked
  <1>13. Free(local_labels', id)
    <2>1. \A s \in DOMAIN local_labels : \A y \in DOMAIN local_labels[s] : local_labels[s][y] \in DOMAIN labels
      BY <1>4 DEF Shape
    <2> QED
      BY <2>1, <1>2, <1>8 DEF Free
  <1>14. PICK n, a : n = Len(prog') /\ a = index
    OBVIOUS
  <1>15. prog'[n] = e /\ Line = n
    BY <1>4, <1>14 DEF Extends, Line
  <1>16. ASSUME Wrote(labels', orgs', memory_bytes', index, id) PROVE Rightly(n)'
    <2>1. ~Has(labels', id) /\ labels'[id].name = d
      BY <1>6, <1>8 DEF Has
    <2>2. Operand(a)' = id /\ Written(a)' /\ orgs'[a][1].pending
      <3>1. /\ a \in DOMAIN orgs' /\ orgs'[a] # <<>> /\ orgs'[a][1].arg = id
            /\ orgs'[a][1].pending = ~Has(labels', id)
        BY <1>14, <1>16 DEF Wrote
      <3> QED
        BY <2>1, <3>1, <1>8 DEF Operand, Written, Has
    <2>3. \A r \in tmp_pending' : r.id = id => r.line = n
      <3>1. \A r \in tmp_pending : r.id # id
        BY <1>8, <1>11 DEF MInv, Waiting
      <3> QED
        BY <3>1, <1>2, <1>15
    <2>4. Awaits(a, n)'
      BY <2>1, <2>2, <2>3, <1>5, <1>13, <1>15 DEF Awaits, Has
    <2> QED
      BY <2>4, <1>5, <1>14, <1>15 DEF Rightly
  <1>17. Filled' /\ Finish' /\ Operands' /\ Calls'
    BY <1>1, <1>2, <1>4, <1>5, <1>7, <1>10, <1>11, <1>12, <1>14, <1>16, InstructionMemory
  <1>18. Waiting' /\ Temporary'
    BY <1>2, <1>4, <1>5, <1>7, <1>8, <1>10, <1>11, <1>13, <1>14, <1>15, TemporaryKept DEF MInv
  <1> QED
    BY <1>10, <1>17, <1>18 DEF MInv, Continued

-----------------------------------------------------------------------------
(* The calls of the #init routines, and the jump behind them.              *)

\* A memory with something in it has a place.
LEMMA SomePlace ==
  ASSUME Filled, memory_bytes # <<>>
  PROVE  DOMAIN memory_bytes # {}
  <1> SUFFICES ASSUME DOMAIN memory_bytes = {} PROVE FALSE
    OBVIOUS
  <1>1. memory_bytes = [a \in {} |-> memory_bytes[a]]
    BY DEF Filled
  <1>2. memory_bytes \in [1 .. 0 -> Nat]
    BY <1>1
  <1>3. memory_bytes \in Seq(Nat) /\ Len(memory_bytes) = 0
    BY <1>2
  <1> QED
    BY <1>3

\* The calls begin where the first was put.
LEMMA FirstCall ==
  ASSUME Finish, called \in Nat, index \in Nat, AUTORUN_ADDR = Undefined
  PROVE  /\ Start \in Nat /\ Start = index - called /\ Start <= index
         /\ index \notin Behind
         /\ \A a : a \in Start .. index <=> a \in Behind \cup {index}
  <1>1. Start = index - called
    BY DEF Start
  <1>2. Start \in Nat
    BY <1>1 DEF Finish
  <1>3. called = 0 => Start = index
    BY <1>1
  <1>4. PICK s \in Nat : s = Start
    BY <1>2
  <1>5. s <= index /\ Behind = IF called = 0 THEN {} ELSE s .. index - 1
    BY <1>1, <1>4 DEF Behind
  <1> QED
    BY <1>1, <1>2, <1>3, <1>4, <1>5

\* Addresses are numbers.
LEMMA Addresses ==
  ASSUME NEW P \in Seq(Source), NEW j \in DOMAIN P
  PROVE  P[j].at \in Nat
  <1>1. P[j] \in Source
    OBVIOUS
  <1> QED
    BY <1>1 DEF Source

LEMMA CallKeepsMemory == ASSUME IInv, BInv, Sound', call_init PROVE Understood' /\ MInv'
  <1>1. PICK x, c : x = INITS[called + 1] /\ c = called
    OBVIOUS
  <1>2. /\ Refers(x) /\ called' = c + 1 /\ INITS' = INITS /\ AUTORUN_ADDR' = AUTORUN_ADDR
        /\ prog' = prog /\ scopes' = scopes /\ errors' = errors /\ binary' = binary
        /\ scopes = <<>> /\ errors = NoError /\ binary = NoBinary /\ c < Len(INITS)
        /\ memory_bytes # <<>> /\ UNCHANGED <<tmp_labels, tmp_pending>>
        /\ current_org' = IF c = 0 THEN Highest(DOMAIN memory_bytes) + 1 ELSE current_org
    BY <1>1 DEF call_init, Assembling, Refers
  <1>3. /\ c \in Nat /\ index \in Nat /\ Len(INITS) \in Nat /\ x \in Names
        /\ DOMAIN orgs = DOMAIN memory_bytes /\ Shape(labels, local_labels, scopes, prog)
    <2>1. /\ INITS \in Seq(Names) /\ called \in 0 .. Len(INITS) /\ index \in Nat
          /\ DOMAIN orgs = DOMAIN memory_bytes /\ Shape(labels, local_labels, scopes, prog)
      BY DEF IInv, Typing
    <2> QED
      BY <2>1, <1>1, <1>2
  <1>4. Sound /\ Understood /\ MInv /\ Scoped(labels, local_labels, scopes, prog)
    <2>1. Sound
      BY <1>2 DEF Sound
    <2> QED
      BY <2>1, <1>2 DEF BInv, Sound, IInv, Holding
  <1>5. PICK id, m :
          /\ id \in DOMAIN labels'
          /\ Assembled(id, labels')
          /\ id \in DOMAIN labels => ~Free(local_labels, id)
          /\ Means(prog, x, scopes, m)
          /\ Bound(labels', local_labels', scopes, prog, x, m, id)
          /\ Follows(labels, local_labels, scopes, prog, labels', local_labels', scopes, prog)
          /\ Meaning(labels', local_labels', scopes, prog)
    BY <1>2, <1>3, <1>4, Binds DEF Understood
  <1>6. m = 0
    BY <1>2, <1>5 DEF Means
  <1>7. Continued /\ Asked
    BY <1>2, <1>4, <1>5 DEF Continued, Understood, Asked
  <1>8. Filled /\ Finish /\ Waiting /\ Temporary /\ Operands /\ Calls
    BY <1>4 DEF MInv
  <1>9. AUTORUN_ADDR = Undefined
    BY <1>1, <1>2, <1>3, <1>8 DEF Finish
  <1>10. PICK s, i : s = Start /\ i = index
    OBVIOUS
  <1>11. /\ s \in Nat /\ i \in Nat /\ s = i - c /\ s <= i /\ i \notin Behind
         /\ \A a : a \in s .. i <=> a \in Behind \cup {i}
    BY <1>1, <1>3, <1>8, <1>9, <1>10, FirstCall
  <1>12. index' = i + 1 /\ DOMAIN orgs' = DOMAIN orgs \cup {i}
    BY <1>5, <1>10 DEF Assembled, With
  <1>13. Start' = s
    <2>1. Start' = (i + 1) - (c + 1) - 0
      BY <1>2, <1>9, <1>12 DEF Start
    <2> QED
      BY <2>1, <1>3, <1>11
  <1>14. Behind' = Behind \cup {i}
    <2>1. Behind' = s .. (i + 1) - 1
      BY <1>2, <1>3, <1>12, <1>13 DEF Behind
    <2>2. (i + 1) - 1 = i
      BY <1>11
    <2>3. Behind' = s .. i
      BY <2>1, <2>2
    <2> QED
      BY <2>3, <1>11
  <1>15. \A a : a # i => Untouched(a)
    BY <1>3, <1>5, <1>10 DEF Untouched, Assembled, With
  <1>16. Filled'
    <2>1. \E n \in Nat : DOMAIN orgs' \subseteq 0 .. n
      <3>1. PICK n \in Nat : DOMAIN orgs \subseteq 0 .. n
        BY <1>8 DEF Filled
      <3>2. n + i \in Nat /\ i \in 0 .. n + i /\ \A a \in 0 .. n : a \in 0 .. n + i
        BY ONLY n \in Nat, <1>11
      <3> QED
        BY <3>1, <3>2, <1>12
    <2>2. memory_bytes' = [a \in DOMAIN memory_bytes' |-> memory_bytes'[a]]
      BY <1>5 DEF Assembled, With
    <2>3. DOMAIN orgs' = Places(prog') \cup Behind'
      BY <1>2, <1>8, <1>12, <1>14 DEF Filled
    <2>4. ASSUME NEW a \in DOMAIN orgs', orgs'[a] # <<>>
          PROVE  (\E j \in References(prog') : prog'[j].at = a) \/ a \in Behind'
      <3>1. CASE a = i
        BY <3>1, <1>14
      <3>2. CASE a # i
        BY <3>2, <2>4, <1>2, <1>8, <1>12, <1>14, <1>15 DEF Untouched, Filled
      <3> QED
        BY <3>1, <3>2
    <2> QED
      BY <2>1, <2>2, <2>3, <2>4 DEF Filled
  <1>17. Finish'
    <2>1. CASE c = 0
      <3>1. Behind = {}
        BY <2>1, <1>1 DEF Behind
      <3>2. Places(prog) = DOMAIN memory_bytes
        BY <3>1, <1>3, <1>8 DEF Filled
      <3>3. Places(prog) # {}
        BY <3>2, <1>2, <1>8, SomePlace
      <3> QED
        BY <2>1, <3>2, <3>3, <1>2, <1>9, <1>11, <1>13 DEF Finish
    <2>2. CASE c # 0
      BY <2>2, <1>1, <1>2, <1>3, <1>8, <1>9, <1>11, <1>13 DEF Finish
    <2> QED
      BY <2>1, <2>2
  <1>18. ASSUME Below' PROVE /\ Below /\ \A j \in References(prog) : prog[j].at < s
                             /\ i \notin DOMAIN orgs \/ orgs[i] = <<>>
    <2>1. \A j \in References(prog) : prog[j].at < s
      BY <1>2, <1>3, <1>13, <1>18 DEF Below
    <2>2. Below
      BY <2>1, <1>10 DEF Below
    <2>3. \A j \in References(prog) : prog[j].at # i
      <3>1. \A j \in References(prog) : prog[j].at \in Nat
        BY <1>3, Addresses DEF Shape, References
      <3> QED
        BY <2>1, <3>1, <1>11
    <2> QED
      BY <2>1, <2>2, <2>3, <1>8, <1>11 DEF Filled
  <1>19. Operands'
    <2> SUFFICES ASSUME Distinct(prog), Below', NEW j \in References(prog) PROVE Rightly(j)'
      BY <1>2 DEF Operands
    <2>1. Below /\ prog[j].at < s
      BY <1>18
    <2>2. prog[j].at \in Nat
      BY <1>3, Addresses DEF Shape, References
    <2>3. prog[j].at # i
      BY <2>1, <2>2, <1>11
    <2>4. Rightly(j) /\ Untouched(prog[j].at)
      BY <2>1, <2>3, <1>8, <1>15 DEF Operands
    <2> QED
      BY <2>4, <1>7, RightlyKept
  <1>20. Calls'
    <2> SUFFICES ASSUME Below', NEW k \in 1 .. c + 1 PROVE BoundAt(s + k - 1, INITS[k], 0)'
      <3>1. \A k \in 1 .. c + 1 : INITS'[k] = INITS[k]
        BY <1>2
      <3>2. AUTORUN_ADDR' = Undefined /\ called' = c + 1 /\ Start' = s
        BY <1>2, <1>9, <1>13
      <3>3. SUFFICES ASSUME Below' PROVE \A k \in 1 .. c + 1 : BoundAt(Start + k - 1, INITS[k], 0)'
        BY <3>2 DEF Calls
      <3> QED
        BY <3>2, <3>3
    <2>1. PICK a, y : a = s + k - 1 /\ y = INITS[k]
      OBVIOUS
    <2>2. CASE k \in 1 .. c
      <3>1. called > 0 /\ Below
        BY <2>2, <1>1, <1>3, <1>18
      <3>2. BoundAt(a, y, 0)
        BY <2>1, <2>2, <3>1, <1>1, <1>8, <1>10 DEF Calls
      <3>3. a # i
        BY <2>1, <2>2, <1>3, <1>11
      <3>4. BoundAt(a, y, 0)'
        BY <3>2, <3>3, <1>7, <1>15, BoundKept
      <3> QED
        BY <2>1, <3>4, <1>2
    <2>3. CASE k \notin 1 .. c
      <3>1. k = c + 1 /\ a = i /\ y = x
        <4>1. k = c + 1
          BY <2>3, <1>3
        <4> QED
          BY <4>1, <2>1, <1>1, <1>3, <1>11
      <3>2. Wrote(labels', orgs', memory_bytes', a, id)
        <4>1. index \notin DOMAIN orgs \/ orgs[index] = <<>>
          BY <1>10, <1>18
        <4>2. Wrote(labels', orgs', memory_bytes', index, id)
          BY <4>1, <1>5, Assembles
        <4> QED
          BY <4>2, <3>1, <1>10
      <3>3. /\ a \in DOMAIN orgs' /\ orgs'[a] # <<>> /\ orgs'[a][1].arg = id
            /\ orgs'[a][1].pending = ~Has(labels', id)
            /\ Has(labels', id) => memory_bytes'[a] = labels'[id].value
        BY <3>2 DEF Wrote
      <3>4. Operand(a)' = id /\ Written(a)'
        BY <3>3, <1>5 DEF Operand, Written, Has
      <3>5. ~Pending(id)'
        <4>1. \A r \in tmp_pending : r.id # id
          BY <1>5, <1>8 DEF Waiting
        <4> QED
          BY <4>1, <1>2 DEF Pending
      <3>6. BoundAt(a, y, 0)'
        BY <3>1, <3>4, <3>5, <1>2, <1>5, <1>6 DEF BoundAt, Pending
      <3> QED
        BY <2>1, <3>6, <1>2
    <2> QED
      BY <2>2, <2>3
  <1>21. Waiting'
    <2>1. \A r \in DOMAIN labels : r \in DOMAIN labels' /\ (Free(local_labels, r) => Free(local_labels', r))
      BY <1>7 DEF Continued, Follows
    <2> QED
      BY <2>1, <1>2, <1>8 DEF Waiting
  <1>22. Temporary'
    BY <1>2, <1>8 DEF Temporary, Since
  <1> QED
    BY <1>7, <1>16, <1>17, <1>19, <1>20, <1>21, <1>22 DEF MInv, Continued

\* The lowest address stays the lowest when a higher one is added.
LEMMA SameLowest ==
  ASSUME NEW X \in SUBSET Nat, NEW b \in X, NEW i \in Nat, b < i
  PROVE  Lowest(X \cup {i}) = Lowest(X)
  <1>1. PICK a \in X : \A k \in X : a <= k
    BY Smallest
  <1>2. a \in Nat /\ b \in Nat /\ a <= b
    BY <1>1
  <1>3. a <= i
    BY ONLY <1>2, b < i, i \in Nat
  <1>4. Lowest(X) = a
    <2>1. \A k \in X : (\A q \in X : k <= q) => k = a
      BY <1>1
    <2> QED
      BY <1>1, <2>1 DEF Lowest
  <1>5. Lowest(X \cup {i}) = a
    <2>1. \A k \in X \cup {i} : (\A q \in X \cup {i} : k <= q) => k = a
      <3> SUFFICES ASSUME NEW k \in X \cup {i}, \A q \in X \cup {i} : k <= q PROVE k = a
        OBVIOUS
      <3>1. k <= a /\ k \in Nat
        BY <1>1
      <3>2. a <= k
        BY <1>1, <1>3
      <3> QED
        BY <3>1, <3>2, <1>2
    <2>2. \A q \in X \cup {i} : a <= q
      BY <1>1, <1>3
    <2> QED
      BY <1>1, <2>1, <2>2 DEF Lowest
  <1> QED
    BY <1>4, <1>5

LEMMA JumpKeepsMemory == ASSUME IInv, BInv, Sound', jump_to_start PROVE Understood' /\ MInv'
  <1> DEFINE r == [arg |-> 0, pending |-> FALSE]
             v == Lowest(DOMAIN orgs)
  <1>1. /\ UNCHANGED <<labels, local_labels, tmp_labels, tmp_pending, INITS, called, current_org>>
        /\ UNCHANGED <<errors, binary, prog, scopes>>
        /\ orgs' = With(orgs, index, Append(Slot(orgs, <<>>)[index], r))
        /\ memory_bytes' = With(memory_bytes, index, v)
        /\ index' = index + 1 /\ AUTORUN_ADDR' = current_org /\ AUTORUN_ADDR = Undefined
        /\ called = Len(INITS) /\ INITS # <<>> /\ scopes = <<>>
        /\ errors = NoError /\ binary = NoBinary
    BY DEF jump_to_start, Assembling, tables
  <1>2. /\ called \in Nat /\ called > 0 /\ index \in Nat
        /\ DOMAIN orgs = DOMAIN memory_bytes /\ Shape(labels, local_labels, scopes, prog)
    <2>1. /\ INITS \in Seq(Names) /\ index \in Nat
          /\ DOMAIN orgs = DOMAIN memory_bytes /\ Shape(labels, local_labels, scopes, prog)
      BY DEF IInv, Typing
    <2>2. Len(INITS) \in Nat /\ Len(INITS) # 0
      BY <1>1, <2>1
    <2> QED
      BY <2>1, <2>2, <1>1
  <1>3. Sound /\ Understood /\ MInv
    <2>1. Sound
      BY <1>1 DEF Sound
    <2> QED
      BY <2>1, <1>1 DEF BInv
  <1> HIDE DEF r, v
  <1>4. Continued /\ Asked
    BY <1>1, <1>3 DEF Continued, Understood, Follows, Asked
  <1>5. Filled /\ Finish /\ Waiting /\ Temporary /\ Operands /\ Calls
    BY <1>3 DEF MInv
  <1>6. PICK s, i, c : s = Start /\ i = index /\ c = called
    OBVIOUS
  <1>7. /\ s \in Nat /\ i \in Nat /\ c \in Nat /\ c > 0 /\ s = i - c /\ s < i /\ i \notin Behind
        /\ \A a : a \in s .. i <=> a \in Behind \cup {i}
    <2>1. /\ s \in Nat /\ s = i - c /\ s <= i /\ i \notin Behind
          /\ \A a : a \in s .. i <=> a \in Behind \cup {i}
      BY <1>1, <1>2, <1>5, <1>6, FirstCall
    <2> QED
      BY <2>1, <1>2, <1>6
  <1>8. current_org \in Nat /\ current_org # Undefined
    <2>1. PICK n \in Nat : DOMAIN orgs \subseteq 0 .. n
      BY <1>5 DEF Filled
    <2>2. Places(prog) \in SUBSET (0 .. n) /\ Places(prog) # {}
      BY <2>1, <1>2, <1>5 DEF Filled, Finish
    <2>3. Highest(Places(prog)) \in Places(prog)
      BY <2>2, Largest DEF Highest
    <2> QED
      BY <2>2, <2>3, <1>2, <1>5, MemoryAssumption DEF Finish
  <1>9. index' = i + 1 /\ DOMAIN orgs' = DOMAIN orgs \cup {i} /\ AUTORUN_ADDR' # Undefined /\ called' = c
    BY <1>1, <1>6, <1>8 DEF With
  <1>10. Start' = s
    <2>1. Start' = (i + 1) - c - 1
      BY <1>9 DEF Start
    <2> QED
      BY <2>1, <1>7
  <1>11. Behind' = Behind \cup {i}
    <2>1. Behind' = s .. (i + 1) - 1
      BY <1>7, <1>9, <1>10 DEF Behind
    <2>2. (i + 1) - 1 = i
      BY <1>7
    <2>3. Behind' = s .. i
      BY <2>1, <2>2
    <2> QED
      BY <2>3, <1>7
  <1>12. \A a : a # i => Untouched(a)
    BY <1>1, <1>2, <1>6 DEF Untouched, With
  <1>13. Filled'
    <2>1. \E n \in Nat : DOMAIN orgs' \subseteq 0 .. n
      <3>1. PICK n \in Nat : DOMAIN orgs \subseteq 0 .. n
        BY <1>5 DEF Filled
      <3>2. n + i \in Nat /\ i \in 0 .. n + i /\ \A a \in 0 .. n : a \in 0 .. n + i
        BY ONLY n \in Nat, <1>7
      <3> QED
        BY <3>1, <3>2, <1>9
    <2>2. memory_bytes' = [a \in DOMAIN memory_bytes' |-> memory_bytes'[a]]
      BY <1>1 DEF With
    <2>3. DOMAIN orgs' = Places(prog') \cup Behind'
      BY <1>1, <1>5, <1>9, <1>11 DEF Filled
    <2>4. ASSUME NEW a \in DOMAIN orgs', orgs'[a] # <<>>
          PROVE  (\E j \in References(prog') : prog'[j].at = a) \/ a \in Behind'
      <3>1. CASE a = i
        BY <3>1, <1>11
      <3>2. CASE a # i
        BY <3>2, <2>4, <1>1, <1>5, <1>9, <1>11, <1>12 DEF Untouched, Filled
      <3> QED
        BY <3>1, <3>2
    <2> QED
      BY <2>1, <2>2, <2>3, <2>4 DEF Filled
  <1>14. Finish'
    BY <1>1, <1>5, <1>6, <1>7, <1>9, <1>10 DEF Finish
  <1>15. ASSUME Below' PROVE /\ Below /\ \A j \in References(prog) : prog[j].at < s
                             /\ i \notin DOMAIN orgs \/ orgs[i] = <<>>
    <2>1. \A j \in References(prog) : prog[j].at < s
      BY <1>1, <1>7, <1>9, <1>10, <1>15 DEF Below
    <2>2. Below
      BY <2>1, <1>6 DEF Below
    <2>3. \A j \in References(prog) : prog[j].at # i
      <3>1. \A j \in References(prog) : prog[j].at \in Nat
        BY <1>2, Addresses DEF Shape, References
      <3> QED
        BY <2>1, <3>1, <1>7
    <2> QED
      BY <2>1, <2>2, <2>3, <1>5, <1>7 DEF Filled
  <1>16. Operands'
    <2> SUFFICES ASSUME Distinct(prog), Below', NEW j \in References(prog) PROVE Rightly(j)'
      BY <1>1 DEF Operands
    <2>1. Below /\ prog[j].at < s
      BY <1>15
    <2>2. prog[j].at \in Nat
      BY <1>2, Addresses DEF Shape, References
    <2>3. prog[j].at # i
      BY <2>1, <2>2, <1>7
    <2>4. Rightly(j) /\ Untouched(prog[j].at)
      BY <2>1, <2>3, <1>5, <1>12 DEF Operands
    <2> QED
      BY <2>4, <1>4, RightlyKept
  <1>17. Calls'
    <2>1. ASSUME Below', NEW k \in 1 .. c PROVE BoundAt(s + k - 1, INITS[k], 0)'
      <3>1. PICK a, y : a = s + k - 1 /\ y = INITS[k]
        OBVIOUS
      <3>2. called > 0 /\ Below
        BY <2>1, <1>2, <1>15
      <3>3. BoundAt(a, y, 0)
        BY <3>1, <3>2, <1>5, <1>6 DEF Calls
      <3>4. a # i
        BY <3>1, <1>7
      <3>5. BoundAt(a, y, 0)'
        BY <3>3, <3>4, <1>4, <1>12, BoundKept
      <3> QED
        BY <3>1, <3>5, <1>1
    <2>2. ASSUME Below'
          PROVE  /\ i \in DOMAIN orgs' /\ orgs'[i] # <<>> /\ ~orgs'[i][1].pending
                 /\ memory_bytes'[i] = Lowest(DOMAIN orgs')
      <3>1. i \notin DOMAIN orgs \/ orgs[i] = <<>>
        BY <2>2, <1>15
      <3>2. Slot(orgs, <<>>)[index] = <<>>
        BY <3>1, <1>6 DEF Slot, With
      <3>3. orgs'[i] = Append(<<>>, r) /\ memory_bytes'[i] = v
        BY <3>2, <1>1, <1>6 DEF With
      <3>4. Append(<<>>, r) # <<>> /\ Append(<<>>, r)[1] = r
        <4>1. PICK R : R = {r}
          OBVIOUS
        <4>2. <<>> \in Seq(R) /\ r \in R /\ Len(<<>>) = 0
          BY <4>1
        <4> QED
          BY ONLY <4>2, Appended
      <3>5. ~r.pending
        BY DEF r
      <3>6. Lowest(DOMAIN orgs') = v
        <4>1. PICK n \in Nat : DOMAIN orgs \subseteq 0 .. n
          BY <1>5 DEF Filled
        <4>2. DOMAIN orgs \in SUBSET Nat
          BY <4>1
        <4>3. s \in DOMAIN orgs
          <5>1. s \in Behind
            BY <1>7
          <5> QED
            BY <5>1, <1>5 DEF Filled
        <4> QED
          BY <4>2, <4>3, <1>7, <1>9, SameLowest DEF v
      <3> QED
        BY <3>3, <3>4, <3>5, <3>6, <1>9
    <2>3. (i + 1) - 1 = i /\ index' - 1 = i
      BY <1>7, <1>9
    <2>4. \A k \in 1 .. c : INITS'[k] = INITS[k]
      BY <1>1
    <2> QED
      BY <2>1, <2>2, <2>3, <2>4, <1>9, <1>10 DEF Calls
  <1>18. Waiting' /\ Temporary'
    BY <1>1, <1>5 DEF Waiting, Temporary, Since
  <1> QED
    BY <1>4, <1>13, <1>14, <1>16, <1>17, <1>18 DEF MInv, Continued

-----------------------------------------------------------------------------
(* The bytes dump puts out.                                                *)

\* A set that holds 0 and every successor of its members holds every natural.
LEMMA Induction ==
  ASSUME NEW X, 0 \in X, \A n \in Nat : n \in X => n + 1 \in X
  PROVE  Nat \subseteq X
  <1> SUFFICES ASSUME NEW T, T = Nat \ X, T # {} PROVE FALSE
    OBVIOUS
  <1>1. PICK n \in T : \A k \in T : n <= k
    BY Smallest
  <1>2. n \in Nat /\ n # 0
    OBVIOUS
  <1>3. n - 1 \in Nat /\ n - 1 \notin T /\ (n - 1) + 1 = n
    BY <1>1, <1>2
  <1> QED
    BY <1>3

\* A pass of the loop at address a.
Pass(objects, a, before) ==
  IF a \notin DOMAIN orgs
  THEN [before EXCEPT !.output = Append(@, 0)]
  ELSE IF orgs[a] = <<>>
  THEN [before EXCEPT !.align = @ + 1]
  ELSE [output |-> before.output \o Zeroes(before.align) \o <<ByteAt(objects, a)>>,
        align |-> 0]

\* f has the result of every pass: the equation of the loop.
Passes(objects, first, final, f) ==
  f = [a \in first - 1 .. final |->
         IF a < first THEN [output |-> <<>>, align |-> 0] ELSE Pass(objects, a, f[a - 1])]

Loop(objects, first, final) == CHOOSE f : Passes(objects, first, final, f)

LEMMA DumpedLoop ==
  ASSUME NEW objects, NEW first, NEW final,
         first = Lowest(DOMAIN memory_bytes), final = Highest(DOMAIN memory_bytes)
  PROVE  Dumped(objects) = [org |-> first, output |-> Loop(objects, first, final)[final].output]
  BY DEF Dumped, Loop, Passes, Pass

\* A function with this equation exists.
LEMMA SomeLoop ==
  ASSUME NEW objects, NEW first \in Nat, NEW final \in Nat, first <= final
  PROVE  Passes(objects, first, final, Loop(objects, first, final))
  <1> DEFINE Value(a, g) ==
               IF a < first THEN [output |-> <<>>, align |-> 0] ELSE Pass(objects, a, g[a - 1])
             Started(n, g) == \A a \in first - 1 .. first - 1 + n : g[a] = Value(a, g)
             X == {n \in Nat : \E g : Started(n, g)}
  <1>1. 0 \in X
    <2>1. PICK g : g = [a \in {first - 1} |-> [output |-> <<>>, align |-> 0]]
      OBVIOUS
    <2>2. \A a \in first - 1 .. first - 1 + 0 : a = first - 1 /\ a < first
      OBVIOUS
    <2>3. Started(0, g)
      BY <2>1, <2>2
    <2> QED
      BY <2>3
  <1>2. ASSUME NEW n \in Nat, n \in X PROVE n + 1 \in X
    <2>1. PICK g : Started(n, g)
      BY <1>2
    <2>2. PICK c : c = first - 1 + (n + 1)
      OBVIOUS
    <2>3. PICK e : e = [a \in first - 1 .. c |-> IF a = c THEN Pass(objects, c, g[c - 1]) ELSE g[a]]
      OBVIOUS
    <2>4. ASSUME NEW a \in first - 1 .. c PROVE e[a] = Value(a, e)
      <3>1. CASE a = c
        <4>1. ~(a < first) /\ a - 1 \in first - 1 .. c /\ a - 1 # c
          BY <3>1, <2>2
        <4> QED
          BY <4>1, <3>1, <2>3
      <3>2. CASE a # c
        <4>1. a \in first - 1 .. first - 1 + n /\ (~(a < first) => a - 1 \in first - 1 .. c /\ a - 1 # c)
          BY <3>2, <2>2
        <4>2. g[a] = Value(a, g)
          BY <4>1, <2>1
        <4> QED
          BY <4>1, <4>2, <3>2, <2>3
      <3> QED
        BY <3>1, <3>2
    <2>5. Started(n + 1, e)
      BY <2>2, <2>4
    <2> QED
      BY <2>5
  <1>3. Nat \subseteq X
    <2> HIDE DEF X
    <2> QED
      BY <1>1, <1>2, Induction
  <1>4. final - (first - 1) \in Nat /\ first - 1 + (final - (first - 1)) = final
    OBVIOUS
  <1>5. PICK g : Started(final - (first - 1), g)
    BY <1>3, <1>4
  <1>6. PICK f : f = [a \in first - 1 .. final |-> g[a]]
    OBVIOUS
  <1>7. ASSUME NEW a \in first - 1 .. final PROVE f[a] = Value(a, f)
    <2>1. ~(a < first) => a - 1 \in first - 1 .. final
      OBVIOUS
    <2> QED
      BY <2>1, <1>4, <1>5, <1>6
  <1>8. Passes(objects, first, final, f)
    BY <1>6, <1>7 DEF Passes
  <1> QED
    BY <1>8 DEF Loop

\* t is s with n bytes and then v behind it.
Flush(V, s, n, v, t) ==
  /\ t \in Seq(V) /\ Len(t) = Len(s) + n + 1 /\ t[Len(s) + n + 1] = v
  /\ \A i \in 1 .. Len(s) : t[i] = s[i]

\* Zeroes and another byte behind some bytes.
LEMMA Flushed ==
  ASSUME NEW V, 0 \in V, NEW s \in Seq(V), NEW n \in Nat, NEW v \in V,
         NEW z, z = Zeroes(n), NEW w, w = <<v>>
  PROVE  Flush(V, s, n, v, s \o z \o w)
  <1>1. Zeroes(n) \in Seq(V) /\ Len(Zeroes(n)) = n
    BY DEF Zeroes
  <1>2. PICK t : t = s \o z \o w
    OBVIOUS
  <1>3. z \in Seq(V) /\ Len(z) = n
    BY <1>1
  <1>4. PICK u : u = s \o z
    OBVIOUS
  <1>5. u \in Seq(V) /\ Len(u) = Len(s) + n
        /\ \A i \in 1 .. Len(s) + n : u[i] = IF i <= Len(s) THEN s[i] ELSE z[i - Len(s)]
    BY <1>3, <1>4, ConcatProperties
  <1>6. Len(s) \in Nat /\ Len(u) \in Nat
    BY <1>5
  <1>7. <<v>> \in Seq(V) /\ Len(<<v>>) = 1 /\ <<v>>[1] = v
    OBVIOUS
  <1>9. t = u \o w /\ w \in Seq(V) /\ Len(w) = 1 /\ w[1] = v
    BY <1>2, <1>4, <1>7
  <1>10. t \in Seq(V) /\ Len(t) = Len(u) + 1
         /\ \A i \in 1 .. Len(u) + 1 : t[i] = IF i <= Len(u) THEN u[i] ELSE w[i - Len(u)]
    <2>1. /\ u \o w \in Seq(V) /\ Len(u \o w) = Len(u) + Len(w)
          /\ \A i \in 1 .. Len(u) + Len(w) : (u \o w)[i] = IF i <= Len(u) THEN u[i] ELSE w[i - Len(u)]
      BY <1>5, <1>9, ConcatProperties
    <2>2. u \o w = t /\ Len(u) + Len(w) = Len(u) + 1
      BY <1>9
    <2> QED
      BY ONLY <2>1, <2>2
  <1>11. t[Len(u) + 1] = v
    BY ONLY <1>6, <1>9, <1>10
  <1>12. ASSUME NEW i \in 1 .. Len(s) PROVE t[i] = s[i]
    <2>1. i \in 1 .. Len(s) + n /\ i <= Len(s) /\ i \in 1 .. Len(u) + 1 /\ i <= Len(u)
      BY <1>5, <1>6
    <2> QED
      BY <2>1, <1>5, <1>10
  <1> QED
    BY ONLY <1>2, <1>5, <1>6, <1>10, <1>11, <1>12 DEF Flush

\* So much is put out or held back, and every instruction is where it should be.
Progress(objects, first, a, done) ==
  LET V == {0} \cup {ByteAt(objects, b) : b \in DOMAIN orgs}
  IN  /\ done \in [output : Seq(V), align : Nat]
      /\ Len(done.output) + done.align = a - first + 1
      /\ \A b \in first .. a : b \in DOMAIN orgs /\ orgs[b] # <<>> =>
           b - first + 1 \in 1 .. Len(done.output) /\ done.output[b - first + 1] = ByteAt(objects, b)

LEMMA PassProgress ==
  ASSUME NEW objects, NEW first \in Nat, NEW a \in Nat, first <= a, NEW before,
         Progress(objects, first, a - 1, before)
  PROVE  Progress(objects, first, a, Pass(objects, a, before))
  <1> DEFINE V == {0} \cup {ByteAt(objects, b) : b \in DOMAIN orgs}
  <1>1. /\ before \in [output : Seq(V), align : Nat]
        /\ Len(before.output) + before.align = (a - 1) - first + 1
        /\ \A b \in first .. a - 1 : b \in DOMAIN orgs /\ orgs[b] # <<>> =>
             /\ b - first + 1 \in 1 .. Len(before.output)
             /\ before.output[b - first + 1] = ByteAt(objects, b)
    BY DEF Progress
  <1>2. 0 \in V /\ \A b \in DOMAIN orgs : ByteAt(objects, b) \in V
    OBVIOUS
  <1> HIDE DEF V
  <1>3. PICK s, h : s = before.output /\ h = before.align
    OBVIOUS
  <1>4. s \in Seq(V) /\ h \in Nat /\ Len(s) \in Nat /\ Len(s) + h = a - first
    BY <1>1, <1>3
  <1>5. \A b \in first .. a : b = a \/ b \in first .. a - 1
    OBVIOUS
  <1>6. CASE a \notin DOMAIN orgs
    <2>1. Pass(objects, a, before) = [output |-> Append(s, 0), align |-> h]
      BY <1>1, <1>3, <1>6 DEF Pass
    <2>2. /\ Append(s, 0) \in Seq(V) /\ Len(Append(s, 0)) = Len(s) + 1
          /\ \A i \in 1 .. Len(s) : Append(s, 0)[i] = s[i]
      BY <1>2, <1>4
    <2>3. \A b \in first .. a : b \in DOMAIN orgs /\ orgs[b] # <<>> =>
            b - first + 1 \in 1 .. Len(s) + 1 /\ Append(s, 0)[b - first + 1] = ByteAt(objects, b)
      BY <1>1, <1>3, <1>4, <1>5, <1>6, <2>2
    <2>4. Len(s) + 1 + h = a - first + 1
      BY <1>4
    <2>5. Len(Append(s, 0)) + h = a - first + 1
      BY <2>2, <2>4
    <2>6. PICK t : t = Append(s, 0)
      OBVIOUS
    <2>7. /\ Pass(objects, a, before) = [output |-> t, align |-> h]
          /\ t \in Seq(V) /\ Len(t) + h = a - first + 1
          /\ \A b \in first .. a : b \in DOMAIN orgs /\ orgs[b] # <<>> =>
               b - first + 1 \in 1 .. Len(t) /\ t[b - first + 1] = ByteAt(objects, b)
      BY <2>1, <2>2, <2>3, <2>5, <2>6
    <2> QED
      BY <1>4, <2>7 DEF Progress, V
  <1>7. CASE a \in DOMAIN orgs /\ orgs[a] = <<>>
    <2>1. Pass(objects, a, before) = [output |-> s, align |-> h + 1]
      BY <1>1, <1>3, <1>7 DEF Pass
    <2>2. \A b \in first .. a : b \in DOMAIN orgs /\ orgs[b] # <<>> =>
            b - first + 1 \in 1 .. Len(s) /\ s[b - first + 1] = ByteAt(objects, b)
      BY <1>1, <1>3, <1>5, <1>7
    <2> QED
      BY <1>4, <2>1, <2>2 DEF Progress, V
  <1>8. CASE a \in DOMAIN orgs /\ orgs[a] # <<>>
    <2>1. PICK t : t = s \o Zeroes(h) \o <<ByteAt(objects, a)>>
      OBVIOUS
    <2>2. Pass(objects, a, before) = [output |-> t, align |-> 0]
      BY <1>3, <1>8, <2>1 DEF Pass
    <2>3. /\ t \in Seq(V) /\ Len(t) = Len(s) + h + 1 /\ t[Len(s) + h + 1] = ByteAt(objects, a)
          /\ \A i \in 1 .. Len(s) : t[i] = s[i]
      <3>0. PICK W : W = V
        OBVIOUS
      <3>1. PICK v \in W : v = ByteAt(objects, a)
        BY <1>2, <1>8, <3>0
      <3>2. PICK z, w : z = Zeroes(h) /\ w = <<v>>
        OBVIOUS
      <3>3. 0 \in W /\ s \in Seq(W) /\ h \in Nat /\ v \in W /\ t = s \o z \o w
        BY <3>0, <3>1, <3>2, <1>2, <1>4, <2>1
      <3>4. /\ t \in Seq(W) /\ Len(t) = Len(s) + h + 1 /\ t[Len(s) + h + 1] = v
            /\ \A i \in 1 .. Len(s) : t[i] = s[i]
        <4>1. Flush(W, s, h, v, s \o z \o w)
          BY ONLY <3>2, <3>3, Flushed
        <4>2. Flush(W, s, h, v, t)
          BY ONLY <3>3, <4>1
        <4> QED
          BY ONLY <4>2 DEF Flush
      <3> QED
        BY <3>0, <3>1, <3>4
    <2>4. \A b \in first .. a : b \in DOMAIN orgs /\ orgs[b] # <<>> =>
            b - first + 1 \in 1 .. Len(t) /\ t[b - first + 1] = ByteAt(objects, b)
      <3> SUFFICES ASSUME NEW b \in first .. a, b \in DOMAIN orgs, orgs[b] # <<>>
                   PROVE  b - first + 1 \in 1 .. Len(t) /\ t[b - first + 1] = ByteAt(objects, b)
        OBVIOUS
      <3>1. CASE b = a
        BY <3>1, <1>4, <2>3
      <3>2. CASE b \in first .. a - 1
        BY <3>2, <1>1, <1>3, <1>4, <2>3
      <3> QED
        BY <3>1, <3>2, <1>5
    <2> QED
      BY <1>4, <2>2, <2>3, <2>4 DEF Progress, V
  <1> QED
    BY <1>6, <1>7, <1>8

\* In the output every instruction is as far from the beginning as in the memory.
LEMMA DumpedRight ==
  ASSUME Filled, DOMAIN orgs = DOMAIN memory_bytes, NEW objects, DOMAIN orgs # {}
  PROVE  /\ Dumped(objects).org = Lowest(DOMAIN orgs) /\ Dumped(objects).org \in Nat
         /\ \A b \in DOMAIN orgs : orgs[b] # <<>> =>
              /\ b - Dumped(objects).org + 1 \in DOMAIN Dumped(objects).output
              /\ Dumped(objects).output[b - Dumped(objects).org + 1] = ByteAt(objects, b)
  <1>1. PICK n \in Nat : DOMAIN orgs \subseteq 0 .. n
    BY DEF Filled
  <1>2. PICK first, final : first = Lowest(DOMAIN memory_bytes) /\ final = Highest(DOMAIN memory_bytes)
    OBVIOUS
  <1>3. first \in DOMAIN orgs /\ \A b \in DOMAIN orgs : first <= b
    <2>1. DOMAIN orgs \in SUBSET Nat
      BY <1>1
    <2> QED
      BY <2>1, <1>2, Smallest DEF Lowest
  <1>4. final \in DOMAIN orgs /\ \A b \in DOMAIN orgs : b <= final
    <2>1. DOMAIN orgs \in SUBSET (0 .. n)
      BY <1>1
    <2> QED
      BY <2>1, <1>2, Largest DEF Highest
  <1>5. first \in Nat /\ final \in Nat /\ first <= final /\ \A b \in DOMAIN orgs : b \in first .. final
    BY <1>1, <1>3, <1>4
  <1>6. PICK f : f = Loop(objects, first, final)
    OBVIOUS
  <1>7. \A a \in first - 1 .. final :
          f[a] = IF a < first THEN [output |-> <<>>, align |-> 0] ELSE Pass(objects, a, f[a - 1])
    <2>1. Passes(objects, first, final, f)
      BY <1>5, <1>6, SomeLoop
    <2> QED
      BY <2>1 DEF Passes
  <1> DEFINE X == {k \in Nat : first - 1 + k <= final => Progress(objects, first, first - 1 + k, f[first - 1 + k])}
  <1>8. 0 \in X
    <2>1. f[first - 1] = [output |-> <<>>, align |-> 0]
      BY <1>5, <1>7
    <2>2. first - 1 + 0 = first - 1 /\ ~\E b \in first .. first - 1 : TRUE
      BY <1>5
    <2>3. (first - 1) - first + 1 = 0
      BY <1>5
    <2>4. Progress(objects, first, first - 1, f[first - 1])
      BY <2>1, <2>2, <2>3 DEF Progress
    <2> QED
      BY <2>2, <2>4
  <1>9. ASSUME NEW k \in Nat, k \in X PROVE k + 1 \in X
    <2> SUFFICES ASSUME first - 1 + (k + 1) <= final
                 PROVE  Progress(objects, first, first - 1 + (k + 1), f[first - 1 + (k + 1)])
      OBVIOUS
    <2>1. PICK a : a = first - 1 + (k + 1)
      OBVIOUS
    <2>2. /\ a \in Nat /\ first <= a /\ a \in first - 1 .. final /\ a - 1 = first - 1 + k
          /\ first - 1 + k <= final /\ ~(a < first)
      BY <2>1, <1>5
    <2>3. Progress(objects, first, a - 1, f[a - 1])
      BY <2>2, <1>9
    <2>4. f[a] = Pass(objects, a, f[a - 1])
      BY <2>2, <1>7
    <2>5. Progress(objects, first, a, f[a])
      BY <2>2, <2>3, <2>4, <1>5, PassProgress
    <2> QED
      BY <2>1, <2>5
  <1>10. Progress(objects, first, final, f[final])
    <2>1. Nat \subseteq X
      <3> HIDE DEF X
      <3> QED
        BY <1>8, <1>9, Induction
    <2>2. final - (first - 1) \in Nat /\ first - 1 + (final - (first - 1)) = final
      BY <1>5
    <2>3. final - (first - 1) \in X
      BY <2>1, <2>2
    <2> QED
      BY <2>2, <2>3, <1>5
  <1>11. Dumped(objects) = [org |-> first, output |-> f[final].output]
    BY <1>2, <1>6, DumpedLoop
  <1>12. DOMAIN f[final].output = 1 .. Len(f[final].output)
    BY <1>10 DEF Progress
  <1>13. Dumped(objects).org = first /\ Dumped(objects).output = f[final].output
    BY ONLY <1>11
  <1>14. \A b \in DOMAIN orgs : orgs[b] # <<>> =>
           /\ b - first + 1 \in 1 .. Len(f[final].output)
           /\ f[final].output[b - first + 1] = ByteAt(objects, b)
    BY <1>5, <1>10 DEF Progress
  <1> QED
    BY <1>2, <1>5, <1>12, <1>13, <1>14

-----------------------------------------------------------------------------
(* The end of the source.                                                  *)

\* What dump requires of the objects as it resolves them.
Complete(objects) ==
  /\ objects = Resolved /\ scopes = <<>>
  /\ \A r \in tmp_pending : Candidates(r) # {}
  /\ \A a \in DOMAIN orgs : orgs[a] # <<>> /\ orgs[a][1].pending => objects[Operand(a)].value # Undefined

\* The statement means the label of the one PROC.
LEMMA MeantThere ==
  ASSUME prog \in Seq(Source), NEW j \in DOMAIN prog, NEW m, Means(prog, prog[j].name, prog[j].path, m)
  PROVE  MeantIn(j) = m
  <1>1. PICK path, x : path = prog[j].path /\ x = prog[j].name
    OBVIOUS
  <1>2. path \in Seq(Nat) /\ Len(path) \in Nat /\ DOMAIN path = 1 .. Len(path)
    <2>1. prog[j] \in Source
      OBVIOUS
    <2> QED
      BY <2>1, <1>1 DEF Source
  <1>3. \A i \in DOMAIN path : IsLocal(x, path[i]) <=> LocalIn(prog, x, path[i])
    BY DEF IsLocal, LocalIn, Statements, In
  <1>4. PICK around : around = {i \in DOMAIN path : IsLocal(x, path[i])}
    OBVIOUS
  <1>5. MeantIn(j) = IF around = {} THEN 0 ELSE path[Highest(around)]
    BY <1>1, <1>4 DEF MeantIn
  <1>6. CASE m = 0
    BY <1>1, <1>3, <1>4, <1>5, <1>6 DEF Means
  <1>7. CASE m # 0
    <2>1. PICK i \in DOMAIN path : /\ path[i] = m /\ LocalIn(prog, x, m)
                                   /\ \A k \in DOMAIN path : k > i => ~LocalIn(prog, x, path[k])
      BY <1>1, <1>7 DEF Means
    <2>2. i \in around /\ \A k \in around : k <= i /\ k \in Nat
      BY <1>2, <1>3, <1>4, <2>1
    <2>3. Highest(around) = i
      <3>1. \A k \in around : (\A l \in around : l <= k) => k = i
        BY <2>2
      <3> QED
        BY <2>2, <3>1 DEF Highest
    <2> QED
      BY <2>1, <2>2, <2>3, <1>5
  <1> QED
    BY <1>6, <1>7

\* The byte of an operand that means the label of m.
LEMMA OperandByte ==
  ASSUME Understood, NEW R, Complete(R), NEW a, NEW x, NEW m, BoundAt(a, x, m)
  PROVE  \E k \in Declarations(x, m) : prog[k].at = ByteAt(R, a)
  <1>1. PICK id : id = Operand(a)
    OBVIOUS
  <1>2. /\ a \in DOMAIN orgs /\ orgs[a] # <<>> /\ id \in DOMAIN labels /\ orgs[a][1].arg = id
        /\ orgs[a][1].pending \/ (Has(labels, id) /\ memory_bytes[a] = labels[id].value)
        /\ ~Pending(id) /\ Bound(labels, local_labels, scopes, prog, x, m, id)
    BY <1>1 DEF BoundAt, Written, Operand
  <1>3. R[id] = labels[id]
    BY <1>2 DEF Complete, Resolved, Pending
  <1>4. Has(labels, id) /\ ByteAt(R, a) = labels[id].value
    BY <1>1, <1>2, <1>3 DEF Complete, Has, ByteAt
  <1>5. \A k \in Labels(prog) : prog[k].name = x /\ (IF Private(prog, k) THEN In(prog, k) ELSE 0) = m =>
          k \in Declarations(x, m)
    BY WhereDeclared DEF Declarations, Labels, Statements
  <1>6. CASE m = 0
    <2>1. labels[id].name = x /\ ~labels[id].local
      BY <1>2, <1>6 DEF Bound
    <2>2. PICK k \in Labels(prog) : prog[k].name = x /\ prog[k].at = labels[id].value /\ ~Private(prog, k)
      BY <1>2, <1>4, <2>1 DEF Understood, Meaning, Known
    <2> QED
      BY <1>4, <1>5, <1>6, <2>2
  <1>7. CASE m # 0
    <2>1. LocalIn(prog, x, m) /\ \A i \in DOMAIN scopes : scopes[i] # m
      BY <1>2, <1>7 DEF Bound, Complete
    <2>2. PICK k \in Labels(prog) : prog[k].name = x /\ In(prog, k) = m /\ prog[k].at = labels[id].value
      BY <1>2, <1>7, <2>1 DEF Bound
    <2>3. Private(prog, k)
      BY <1>7, <2>1, <2>2 DEF Private
    <2> QED
      BY <1>4, <1>5, <2>2, <2>3
  <1> QED
    BY <1>6, <1>7

\* The temporary label nearest to a reference.
LEMMA NearestIs ==
  ASSUME Temporary, prog \in Seq(Source), NEW r \in tmp_pending, Candidates(r) # {}
  PROVE  LET k == Nearest(r)
         IN  /\ k \in Candidates(r)
             /\ labels[r.id].name = "1B" => \A j \in Candidates(r) : j <= k
             /\ labels[r.id].name # "1B" => \A j \in Candidates(r) : k <= j
  <1>1. Len(tmp_labels) \in Nat /\ DOMAIN tmp_labels = 1 .. Len(tmp_labels)
    BY DEF Temporary
  <1>2. Candidates(r) \in SUBSET (0 .. Len(tmp_labels)) /\ Candidates(r) \in SUBSET Nat
    BY <1>1 DEF Candidates
  <1>3. \E k \in Candidates(r) : \A j \in Candidates(r) : j <= k
    BY <1>1, <1>2, Largest
  <1>4. \E k \in Candidates(r) : \A j \in Candidates(r) : k <= j
    BY <1>2, Smallest
  <1> QED
    BY <1>3, <1>4 DEF Nearest

\* The byte of an operand 1B or 1F.
LEMMA TemporaryByte ==
  ASSUME Waiting, Temporary, prog \in Seq(Source), labels \in Seq(Objects), NEW R, Complete(R),
         NEW j \in References(prog), prog[j].is # "use", NEW a, Awaits(a, j)
  PROVE  \E k \in Meant(j) : prog[k].at = ByteAt(R, a)
  <1>1. PICK id : id = Operand(a)
    OBVIOUS
  <1>2. /\ a \in DOMAIN orgs /\ orgs[a] # <<>> /\ id \in DOMAIN labels /\ orgs[a][1].arg = id
        /\ orgs[a][1].pending /\ ~Has(labels, id) /\ labels[id].name = prog[j].is
        /\ \A r \in tmp_pending : r.id = id => r.line = j
    BY <1>1 DEF Awaits, Written, Operand
  <1>3. R[id].value # Undefined /\ ByteAt(R, a) = R[id].value
    BY <1>1, <1>2 DEF Complete, ByteAt
  <1>4. PICK r \in tmp_pending : r.id = id
    <2>1. ~Pending(id) => R[id] = labels[id]
      BY <1>2 DEF Complete, Resolved, Pending
    <2> QED
      BY <2>1, <1>2, <1>3 DEF Has, Pending
  <1>5. r.line = j /\ Candidates(r) # {} /\ \A q \in tmp_pending : q.id = id => q = r
    BY <1>2, <1>4 DEF Complete, Waiting
  <1>6. PICK k : k = Nearest(r)
    OBVIOUS
  <1>7. ByteAt(R, a) = tmp_labels[k].value
    <2>1. (CHOOSE q \in tmp_pending : q.id = id) = r
      BY <1>4, <1>5
    <2>2. R[id] = [labels[id] EXCEPT !.value = tmp_labels[k].value]
      BY <2>1, <1>2, <1>4, <1>5, <1>6 DEF Complete, Resolved
    <2>3. labels[id] \in Objects
      BY <1>2
    <2> QED
      BY <2>2, <2>3, <1>3 DEF Objects
  <1>8. PICK o \in 0 .. Len(prog) : Since(o)
    BY DEF Temporary
  <1>9. /\ Len(prog) \in Nat /\ DOMAIN prog = 1 .. Len(prog) /\ j \in DOMAIN prog
        /\ Len(tmp_labels) \in Nat /\ DOMAIN tmp_labels = 1 .. Len(tmp_labels)
    BY DEF Temporary, References
  <1>10. /\ k \in Candidates(r)
         /\ labels[id].name = "1B" => \A i \in Candidates(r) : i <= k
         /\ labels[id].name # "1B" => \A i \in Candidates(r) : k <= i
    BY <1>4, <1>5, <1>6, NearestIs
  <1>11. PICK l : l = tmp_labels[k].line
    OBVIOUS
  <1>12. /\ k \in DOMAIN tmp_labels /\ l \in o + 1 .. Len(prog) /\ prog[l].is = "1:"
         /\ tmp_labels[k].value = prog[l].at
    BY <1>8, <1>10, <1>11 DEF Candidates, Since
  <1>13. /\ l \in DOMAIN prog /\ l \in Nat /\ l > o /\ j \in Nat /\ o \in Nat
         /\ prog[j].is = "1B" \/ prog[j].is = "1F"
    BY <1>8, <1>9, <1>12 DEF References
  <1>14. ASSUME NEW b \in DOMAIN prog, prog[b].is = "1:", b > o
         PROVE  \E i \in DOMAIN tmp_labels :
                  /\ tmp_labels[i].line = b /\ (k < i => l < b) /\ (i < k => b < l) /\ (i = k => b = l)
    <2>1. PICK i \in DOMAIN tmp_labels : tmp_labels[i].line = b
      BY <1>8, <1>14 DEF Since
    <2>2. \A p, q \in DOMAIN tmp_labels : p < q => tmp_labels[p].line < tmp_labels[q].line
      BY <1>8 DEF Since
    <2> QED
      BY <2>1, <2>2, <1>11, <1>12
  <1>15. CASE prog[j].is = "1B"
    <2> DEFINE before == {b \in Statements : b < j /\ prog[b].is = "1:"}
    <2>1. l \in before /\ before \subseteq Nat
      <3>1. l <= j
        BY <1>2, <1>4, <1>5, <1>10, <1>11, <1>15 DEF Candidates
      <3>2. l # j
        BY <1>12, <1>15
      <3> QED
        BY <3>1, <3>2, <1>9, <1>12, <1>13 DEF Statements
    <2>2. ASSUME NEW b \in before PROVE b <= l
      <3> SUFFICES ASSUME b > l PROVE FALSE
        BY <2>1, <1>13
      <3>1. b \in DOMAIN prog /\ prog[b].is = "1:" /\ b > o /\ b < j /\ b \in Nat
        BY <2>1, <1>13 DEF Statements
      <3>2. PICK i \in DOMAIN tmp_labels :
              /\ tmp_labels[i].line = b /\ (k < i => l < b) /\ (i < k => b < l) /\ (i = k => b = l)
        BY <3>1, <1>14
      <3>3. i \in Candidates(r)
        BY <3>1, <3>2, <1>2, <1>4, <1>5, <1>13, <1>15 DEF Candidates
      <3>4. i <= k /\ i \in Nat /\ k \in Nat
        BY <3>3, <1>2, <1>9, <1>10, <1>12, <1>15
      <3> QED
        BY <3>1, <3>2, <3>4, <1>13
    <2> HIDE DEF before
    <2>3. Highest(before) = l
      <3>1. \A b \in before : (\A c \in before : c <= b) => b = l
        BY <2>1, <2>2
      <3> QED
        BY <2>1, <2>2, <3>1 DEF Highest
    <2>4. Meant(j) = {l}
      BY <2>1, <2>3, <1>15 DEF Meant, before
    <2> QED
      BY <2>4, <1>7, <1>12
  <1>16. CASE prog[j].is = "1F"
    <2> DEFINE after == {b \in Statements : b > j /\ prog[b].is = "1:"}
    <2>1. l \in after /\ after \subseteq Nat
      <3>1. l >= j
        BY <1>2, <1>4, <1>5, <1>10, <1>11, <1>16 DEF Candidates
      <3>2. l # j
        BY <1>12, <1>16
      <3> QED
        BY <3>1, <3>2, <1>9, <1>12, <1>13 DEF Statements
    <2>2. ASSUME NEW b \in after PROVE l <= b
      <3> SUFFICES ASSUME b < l PROVE FALSE
        BY <2>1, <1>13
      <3>0. o < j
        BY <1>4, <1>5, <1>8, <1>13 DEF Since
      <3>1. b \in DOMAIN prog /\ prog[b].is = "1:" /\ b > o /\ b > j /\ b \in Nat
        BY <3>0, <2>1, <1>13 DEF Statements
      <3>2. PICK i \in DOMAIN tmp_labels :
              /\ tmp_labels[i].line = b /\ (k < i => l < b) /\ (i < k => b < l) /\ (i = k => b = l)
        BY <3>1, <1>14
      <3>3. i \in Candidates(r)
        BY <3>1, <3>2, <1>2, <1>4, <1>5, <1>13, <1>16 DEF Candidates
      <3>4. k <= i /\ i \in Nat /\ k \in Nat
        BY <3>3, <1>2, <1>9, <1>10, <1>12, <1>16
      <3> QED
        BY <3>1, <3>2, <3>4, <1>13
    <2> HIDE DEF after
    <2>3. Lowest(after) = l
      <3>1. \A b \in after : (\A c \in after : b <= c) => b = l
        BY <2>1, <2>2
      <3> QED
        BY <2>1, <2>2, <3>1 DEF Lowest
    <2>4. Meant(j) = {l}
      BY <2>1, <2>3, <1>16 DEF Meant, after
    <2> QED
      BY <2>4, <1>7, <1>12
  <1> QED
    BY <1>13, <1>15, <1>16

\* The bytes D have v at address a.
PutsIn(D, a, v) ==
  a - D.org + 1 \in DOMAIN D.output /\ D.output[a - D.org + 1] = v

LEMMA PlainSound == ASSUME errors = NoError, Plain PROVE Sound
  <1>1. LocalsFirst(prog)
    BY DEF Plain, LocalFirst, LocalsFirst, Statements
  <1>2. ASSUME NEW j \in Labels(prog), NEW i \in 1 .. Len(prog[j].path) - 1,
               LocalIn(prog, prog[j].name, prog[j].path[i])
        PROVE  Private(prog, j)
    <2>1. IsLocal(prog[j].name, prog[j].path[i])
      BY <1>2 DEF LocalIn, IsLocal, Statements, In
    <2>2. DeclaredIn(j) # 0
      BY <2>1 DEF Plain, NotShadowed, Statements, Labels
    <2> QED
      BY <2>2, WhereDeclared
  <1> QED
    BY <1>1, <1>2 DEF Sound, Unshadowed

\* What dump finds of a source that it accepts.
LEMMA Found ==
  ASSUME IInv, BInv, Sound, binary = NoBinary, memory_bytes # <<>>, NEW R
  PROVE  /\ Understood /\ MInv /\ prog \in Seq(Source) /\ labels \in Seq(Objects)
         /\ Dumped(R).org = Lowest(DOMAIN orgs) /\ Dumped(R).org \in Nat
         /\ \A b \in DOMAIN orgs : orgs[b] # <<>> => PutsIn(Dumped(R), b, ByteAt(R, b))
  <1>1. Understood /\ MInv
    BY DEF BInv
  <1>2. Filled /\ DOMAIN orgs = DOMAIN memory_bytes /\ Shape(labels, local_labels, scopes, prog)
    BY <1>1 DEF MInv, IInv, Typing
  <1>3. DOMAIN orgs # {}
    BY <1>2, SomePlace
  <1>4. /\ Dumped(R).org = Lowest(DOMAIN orgs) /\ Dumped(R).org \in Nat
        /\ \A b \in DOMAIN orgs : orgs[b] # <<>> =>
             /\ b - Dumped(R).org + 1 \in DOMAIN Dumped(R).output
             /\ Dumped(R).output[b - Dumped(R).org + 1] = ByteAt(R, b)
    BY ONLY <1>2, <1>3, DumpedRight
  <1> QED
    BY <1>1, <1>2, <1>4 DEF PutsIn, Shape

\* The operands of the source.
LEMMA SourceBytes ==
  ASSUME IInv, BInv, Sound, binary = NoBinary, memory_bytes # <<>>, NEW R, Complete(R),
         INITS # <<>> => AUTORUN_ADDR # Undefined, ~Overlap, NEW j \in Uses
  PROVE  \E k \in Meant(j) : PutsIn(Dumped(R), prog[j].at, prog[k].at)
  <1>1. /\ Understood /\ MInv /\ prog \in Seq(Source) /\ labels \in Seq(Objects)
        /\ \A b \in DOMAIN orgs : orgs[b] # <<>> => PutsIn(Dumped(R), b, ByteAt(R, b))
    BY Found
  <1>2. Finish /\ Operands /\ Waiting /\ Temporary
    BY <1>1 DEF MInv
  <1>3. Uses = References(prog)
    BY DEF Uses, References, Statements
  <1>4. Distinct(prog)
    BY <1>3 DEF Distinct, Overlap
  <1>5. Below
    <2> SUFFICES ASSUME called > 0, NEW i \in References(prog) PROVE prog[i].at < Start
      BY DEF Below
    <2>1. INITS \in Seq(Names) /\ called \in 0 .. Len(INITS) /\ index \in Nat
      BY DEF IInv, Typing
    <2>2. INITS # <<>>
      BY <2>1
    <2>3. AUTORUN_ADDR # Undefined /\ called = Len(INITS)
      BY <2>2, <1>2 DEF Finish
    <2>4. Start = InitsAt
      BY <2>1, <2>3 DEF Start, InitsAt
    <2>5. ~(prog[i].at >= InitsAt)
      BY <1>3, <2>2 DEF Overlap
    <2>6. prog[i].at \in Nat /\ Start \in Nat
      BY <1>1, <1>2, Addresses DEF References, Finish
    <2> QED
      BY <2>4, <2>5, <2>6
  <1>6. Rightly(j) /\ j \in References(prog) /\ j \in DOMAIN prog
    BY <1>2, <1>3, <1>4, <1>5 DEF Operands, References
  <1>7. PICK a, x : a = prog[j].at /\ x = prog[j].name
    OBVIOUS
  <1>8. CASE prog[j].is = "use"
    <2>1. PICK m : Means(prog, x, prog[j].path, m) /\ BoundAt(a, x, m)
      BY <1>6, <1>7, <1>8 DEF Rightly
    <2>2. MeantIn(j) = m
      BY <2>1, <1>1, <1>6, <1>7, MeantThere
    <2>3. PICK k \in Declarations(x, m) : prog[k].at = ByteAt(R, a)
      BY <2>1, <1>1, OperandByte
    <2>4. a \in DOMAIN orgs /\ orgs[a] # <<>>
      BY <2>1 DEF BoundAt, Written
    <2>5. k \in Meant(j)
      BY <2>2, <2>3, <1>7, <1>8 DEF Meant
    <2> QED
      BY <1>1, <1>7, <2>3, <2>4, <2>5
  <1>9. CASE prog[j].is # "use"
    <2>1. Awaits(a, j)
      BY <1>6, <1>7, <1>9 DEF Rightly
    <2>2. PICK k \in Meant(j) : prog[k].at = ByteAt(R, a)
      BY <2>1, <1>1, <1>2, <1>6, <1>9, TemporaryByte
    <2>3. a \in DOMAIN orgs /\ orgs[a] # <<>>
      BY <2>1 DEF Awaits, Written
    <2> QED
      BY <1>1, <1>7, <2>2, <2>3
  <1> QED
    BY <1>8, <1>9

\* The calls and the jump behind them.
LEMMA CallBytes ==
  ASSUME IInv, BInv, Sound, binary = NoBinary, memory_bytes # <<>>, NEW R, Complete(R),
         AUTORUN_ADDR # Undefined, InitsOnTop
  PROVE  /\ \A k \in DOMAIN INITS :
              \E d \in Declarations(INITS[k], 0) : PutsIn(Dumped(R), AUTORUN_ADDR + k - 1, prog[d].at)
         /\ PutsIn(Dumped(R), AUTORUN_ADDR + Len(INITS), Dumped(R).org)
  <1>1. /\ Understood /\ MInv /\ prog \in Seq(Source)
        /\ Dumped(R).org = Lowest(DOMAIN orgs)
        /\ \A b \in DOMAIN orgs : orgs[b] # <<>> => PutsIn(Dumped(R), b, ByteAt(R, b))
    BY Found
  <1>2. Finish /\ Calls /\ Filled
    BY <1>1 DEF MInv
  <1>3. INITS \in Seq(Names) /\ called \in 0 .. Len(INITS) /\ index \in Nat
    BY DEF IInv, Typing
  <1>4. /\ called > 0 /\ called = Len(INITS) /\ AUTORUN_ADDR = current_org
        /\ current_org = Highest(Places(prog)) + 1 /\ Places(prog) # {}
    BY <1>2, <1>3 DEF Finish
  <1>5. /\ Start = index - called - 1 /\ Start = InitsAt /\ Start \in Nat
    BY <1>2, <1>3, <1>4 DEF Start, InitsAt, Finish
  <1>6. Highest(Places(prog)) = Start - 1
    <2>1. Places(prog) = {prog[j].at : j \in Uses \cup {k \in Statements : prog[k].is = "label"}}
      BY DEF Places, Uses, References, Labels, Statements
    <2> QED
      BY <2>1, <1>5 DEF InitsOnTop
  <1>7. AUTORUN_ADDR = Start
    BY <1>4, <1>5, <1>6
  <1>8. Below
    <2>1. PICK n \in Nat : DOMAIN orgs \subseteq 0 .. n
      BY <1>2 DEF Filled
    <2>2. Places(prog) \in SUBSET (0 .. n)
      BY <1>2, <2>1 DEF Filled
    <2>3. \E a \in Places(prog) : \A b \in Places(prog) : b <= a
      BY <1>4, <2>2, Largest
    <2>4. \A b \in Places(prog) : b <= Highest(Places(prog))
      BY <2>3 DEF Highest
    <2>5. \A j \in References(prog) : prog[j].at \in Places(prog)
      BY DEF Places
    <2>6. \A b \in Places(prog) : b \in Nat
      BY <2>2
    <2> QED
      BY <1>5, <1>6, <2>4, <2>5, <2>6 DEF Below
  <1>9. ASSUME NEW k \in DOMAIN INITS
        PROVE  \E d \in Declarations(INITS[k], 0) : PutsIn(Dumped(R), AUTORUN_ADDR + k - 1, prog[d].at)
    <2>1. PICK a, x : a = Start + k - 1 /\ x = INITS[k]
      OBVIOUS
    <2>2. k \in 1 .. called
      BY <1>3, <1>4
    <2>3. BoundAt(a, x, 0)
      BY <2>1, <2>2, <1>2, <1>4, <1>8 DEF Calls
    <2>4. PICK d \in Declarations(x, 0) : prog[d].at = ByteAt(R, a)
      BY <2>3, <1>1, OperandByte
    <2>5. a \in DOMAIN orgs /\ orgs[a] # <<>>
      BY <2>3 DEF BoundAt, Written
    <2> QED
      BY <1>1, <1>7, <2>1, <2>4, <2>5
  <1>10. PutsIn(Dumped(R), AUTORUN_ADDR + Len(INITS), Dumped(R).org)
    <2>1. PICK b : b = index - 1
      OBVIOUS
    <2>2. /\ b \in DOMAIN orgs /\ orgs[b] # <<>> /\ ~orgs[b][1].pending
          /\ memory_bytes[b] = Lowest(DOMAIN orgs)
      BY <2>1, <1>2, <1>4, <1>8 DEF Calls
    <2>3. ByteAt(R, b) = Dumped(R).org
      BY <2>2, <1>1 DEF ByteAt
    <2>4. AUTORUN_ADDR + Len(INITS) = b
      BY <2>1, <1>3, <1>4, <1>5, <1>7
    <2> QED
      BY <1>1, <2>2, <2>3, <2>4
  <1> QED
    BY <1>9, <1>10

-----------------------------------------------------------------------------
(* Every action.                                                           *)

LEMMA MemoryBegins == Init => BInv
  <1> SUFFICES ASSUME Init PROVE BInv
    OBVIOUS
  <1>1. /\ index = 0 /\ labels = <<>> /\ local_labels = << <<>> >> /\ tmp_labels = <<>> /\ tmp_pending = {}
        /\ orgs = <<>> /\ memory_bytes = <<>> /\ called = 0 /\ AUTORUN_ADDR = Undefined
        /\ prog = <<>> /\ scopes = <<>>
    BY DEF Init
  <1>2. DOMAIN prog = {} /\ Labels(prog) = {} /\ References(prog) = {} /\ Places(prog) = {}
    BY <1>1 DEF Labels, References, Places
  <1>3. Understood
    <2>1. \A s \in DOMAIN local_labels : s = 1
      BY <1>1
    <2> QED
      BY <1>1, <1>2, <2>1 DEF Understood, Meaning, Inside, Begun, Exposed, Known
  <1>4. DOMAIN orgs = {} /\ Behind = {}
    BY <1>1 DEF Behind
  <1>5. memory_bytes = [a \in DOMAIN memory_bytes |-> memory_bytes[a]]
    BY <1>1
  <1>6. Filled
    <2>1. 0 \in Nat /\ DOMAIN orgs \subseteq 0 .. 0
      BY <1>4
    <2> QED
      BY <1>2, <1>4, <1>5, <2>1 DEF Filled
  <1>7. Finish /\ Waiting /\ Operands /\ Calls
    BY <1>1, <1>2 DEF Finish, Waiting, Operands, Calls
  <1>8. Temporary
    <2>1. Since(0)
      BY <1>1, <1>2 DEF Since
    <2>2. 0 \in 0 .. Len(prog) /\ tmp_labels \in Seq([line : Nat, value : Nat])
      BY <1>1
    <2> QED
      BY <2>1, <2>2 DEF Temporary
  <1> QED
    BY <1>3, <1>6, <1>7, <1>8 DEF BInv, MInv


\* What the text means does not change when the source is at its end.
LEMMA SameText ==
  ASSUME UNCHANGED <<prog, INITS, index>>
  PROVE  /\ Plain' = Plain /\ Overlap' = Overlap /\ InitsOnTop' = InitsOnTop /\ Uses' = Uses
         /\ \A j : Meant(j)' = Meant(j)
         /\ \A x, m : Declarations(x, m)' = Declarations(x, m)
  BY DEF Plain, LocalFirst, NotShadowed, Overlap, InitsOnTop, InitsAt, Uses, Meant, MeantIn, Declarations,
         DeclaredIn, IsLocal, Statements

LEMMA DumpRight == ASSUME IInv, BInv, dump PROVE BInv' /\ AcceptedRight' /\ StartsWithInits'
  <1>1. /\ UNCHANGED <<tables, memory, INITS, called, current_org, prog, scopes>>
        /\ scopes = <<>> /\ errors = NoError /\ binary = NoBinary /\ memory_bytes # <<>>
        /\ INITS # <<>> => AUTORUN_ADDR # Undefined
    BY DEF dump, Assembling
  <1>2. PICK R : R = Resolved
    OBVIOUS
  <1>3. CASE errors' = "Undefined" /\ binary' = binary
    BY <1>1, <1>3 DEF BInv, Sound, NoError, NoBinary, AcceptedRight, StartsWithInits
  <1>4. CASE ~(errors' = "Undefined" /\ binary' = binary)
    <2>1. /\ binary' = Dumped(R) /\ errors' = errors
          /\ AUTORUN_ADDR' = IF AUTORUN_ADDR = Undefined THEN binary'.org ELSE AUTORUN_ADDR
          /\ ~(\E r \in tmp_pending : Candidates(r) = {})
          /\ ~(\E a \in DOMAIN orgs : orgs[a] # <<>> /\ orgs[a][1].pending
                                        /\ R[orgs[a][1].arg].value = Undefined)
      BY <1>2, <1>4 DEF dump, Fails
    <2>2. Complete(R)
      BY <1>1, <1>2, <2>1 DEF Complete, Operand
    <2>3. UNCHANGED <<prog, INITS, index>>
      BY <1>1 DEF memory
    <2>4. /\ Plain' = Plain /\ Overlap' = Overlap /\ InitsOnTop' = InitsOnTop /\ Uses' = Uses
          /\ \A j : Meant(j)' = Meant(j)
          /\ \A x, m : Declarations(x, m)' = Declarations(x, m)
      BY <2>3, SameText
    <2>5. BInv'
      <3> SUFFICES ASSUME Sound', binary' = NoBinary PROVE FALSE
        BY DEF BInv
      <3>1. Sound
        BY <1>1, <2>3 DEF Sound
      <3>2. Dumped(R).org \in Nat
        BY <3>1, <1>1, Found
      <3> QED
        BY <3>2, <2>1, MemoryAssumption DEF NoBinary
    <2>6. AcceptedRight'
      <3> SUFFICES ASSUME Plain', ~Overlap', NEW j \in Uses'
                   PROVE  \E k \in Meant(j)' : Puts(prog[j].at, prog[k].at)'
        BY DEF AcceptedRight
      <3>1. Sound /\ ~Overlap /\ j \in Uses
        BY <1>1, <2>4, PlainSound
      <3>2. PICK k \in Meant(j) : PutsIn(Dumped(R), prog[j].at, prog[k].at)
        BY <3>1, <1>1, <2>2, SourceBytes
      <3>3. Puts(prog[j].at, prog[k].at)'
        BY <3>2, <2>1, <2>3 DEF Puts, PutsIn
      <3> QED
        BY <3>3, <2>4
    <2>7. StartsWithInits'
      <3> SUFFICES ASSUME INITS' # <<>>, Plain', InitsOnTop'
                   PROVE  /\ \A k \in DOMAIN INITS' :
                               \E d \in Declarations(INITS[k], 0)' : Puts(AUTORUN_ADDR + k - 1, prog[d].at)'
                          /\ Puts(AUTORUN_ADDR + Len(INITS), binary.org)'
        BY DEF StartsWithInits
      <3>1. Sound /\ InitsOnTop /\ AUTORUN_ADDR # Undefined /\ AUTORUN_ADDR' = AUTORUN_ADDR
        BY <1>1, <2>1, <2>3, <2>4, PlainSound
      <3>2. /\ \A k \in DOMAIN INITS :
                 \E d \in Declarations(INITS[k], 0) : PutsIn(Dumped(R), AUTORUN_ADDR + k - 1, prog[d].at)
            /\ PutsIn(Dumped(R), AUTORUN_ADDR + Len(INITS), Dumped(R).org)
        BY <3>1, <1>1, <2>2, CallBytes
      <3>3. ASSUME NEW k \in DOMAIN INITS
            PROVE  \E d \in Declarations(INITS[k], 0)' : Puts(AUTORUN_ADDR + k - 1, prog[d].at)'
        <4>1. PICK d \in Declarations(INITS[k], 0) : PutsIn(Dumped(R), AUTORUN_ADDR + k - 1, prog[d].at)
          BY <3>2
        <4>2. Puts(AUTORUN_ADDR + k - 1, prog[d].at)'
          BY <4>1, <3>1, <2>1, <2>3 DEF Puts, PutsIn
        <4>3. PICK x : x = INITS[k]
          OBVIOUS
        <4>4. d \in Declarations(x, 0)'
          BY <4>1, <4>3, <2>4
        <4> QED
          BY <4>2, <4>3, <4>4, <2>3
      <3>4. Puts(AUTORUN_ADDR + Len(INITS), binary.org)'
        BY <3>1, <3>2, <2>1, <2>3 DEF Puts, PutsIn
      <3> QED
        BY <3>3, <3>4, <2>3
    <2> QED
      BY <2>5, <2>6, <2>7
  <1> QED
    BY <1>3, <1>4

\* No statement follows the binary.
LEMMA Ended ==
  ASSUME [Next]_vars, binary # NoBinary
  PROVE  UNCHANGED vars
  BY DEF Next, enter_proc, ExitGlobal, exit_proc, set_label, declare_label, refer, init, declare_temporary,
         refer_temporary, set_org, MissingEndp, call_init, jump_to_start, dump, Reads, Assembling

\* The inductive invariant: until the binary is made the operands are bound to what
\* the text means, and the binary has their addresses.
RightInv == IInv /\ BInv /\ AcceptedRight /\ StartsWithInits

LEMMA RightBegins == Init => RightInv
  <1> SUFFICES ASSUME Init PROVE RightInv
    OBVIOUS
  <1>1. binary = NoBinary
    BY DEF Init
  <1> QED
    BY <1>1, Begins, MemoryBegins DEF RightInv, AcceptedRight, StartsWithInits

LEMMA RightKept == RightInv /\ [Next]_vars => RightInv'
  <1> SUFFICES ASSUME RightInv, [Next]_vars PROVE RightInv'
    OBVIOUS
  <1>1. IInv /\ BInv /\ AcceptedRight /\ StartsWithInits /\ IInv'
    BY NextKeeps DEF RightInv
  <1>2. CASE UNCHANGED vars
    <2>1. /\ UNCHANGED <<index, labels, local_labels, tmp_labels, tmp_pending, orgs, memory_bytes, INITS>>
          /\ UNCHANGED <<called, current_org, AUTORUN_ADDR, errors, binary, prog, scopes>>
      BY <1>2 DEF vars, tables, memory, starting
    <2>2. Sound' = Sound /\ Understood' = Understood /\ Below' = Below /\ Behind' = Behind /\ Start' = Start
      BY <2>1 DEF Sound, Understood, Below, Behind, Start
    <2>3. Filled' = Filled /\ Finish' = Finish /\ Waiting' = Waiting /\ Temporary' = Temporary
      BY <2>1, <2>2 DEF Filled, Finish, Waiting, Temporary, Since
    <2>4. \A a, x, m : BoundAt(a, x, m)' = BoundAt(a, x, m)
      BY <2>1 DEF BoundAt, Written, Operand, Pending
    <2>5. \A a, j : Awaits(a, j)' = Awaits(a, j)
      BY <2>1 DEF Awaits, Written, Operand
    <2>6. ASSUME NEW j, Rightly(j) PROVE Rightly(j)'
      <3>1. PICK a, x : a = prog[j].at /\ x = prog[j].name
        OBVIOUS
      <3>2. prog'[j].at = a /\ prog'[j].name = x
        BY <2>1, <3>1
      <3> QED
        BY <2>1, <2>4, <2>5, <2>6, <3>1, <3>2 DEF Rightly
    <2>7. Operands => Operands'
      BY <2>1, <2>2, <2>6 DEF Operands
    <2>8. Calls => Calls'
      <3> SUFFICES ASSUME Calls, called > 0, Below PROVE Calls'
        BY <2>1, <2>2 DEF Calls
      <3>1. ASSUME NEW k \in 1 .. called PROVE BoundAt(Start + k - 1, INITS[k], 0)'
        <4>1. PICK a, x : a = Start + k - 1 /\ x = INITS[k]
          OBVIOUS
        <4>2. BoundAt(a, x, 0)'
          BY <2>4, <4>1 DEF Calls
        <4> QED
          BY <2>1, <2>2, <4>1, <4>2
      <3> QED
        BY <2>1, <3>1 DEF Calls
    <2>9. BInv'
      BY <1>1, <2>1, <2>2, <2>3, <2>7, <2>8 DEF BInv, MInv
    <2>10. /\ Plain' = Plain /\ Overlap' = Overlap /\ InitsOnTop' = InitsOnTop /\ Uses' = Uses
           /\ \A j : Meant(j)' = Meant(j)
           /\ \A x, m : Declarations(x, m)' = Declarations(x, m)
      BY <2>1, SameText
    <2>11. AcceptedRight'
      BY <1>1, <2>1, <2>10 DEF AcceptedRight, Puts
    <2>12. StartsWithInits'
      <3>1. ASSUME NEW k \in DOMAIN INITS PROVE Declarations(INITS[k], 0)' = Declarations(INITS[k], 0)
        <4>1. PICK x : x = INITS[k]
          OBVIOUS
        <4> QED
          BY <2>1, <2>10, <4>1
      <3> QED
        BY <1>1, <2>1, <2>10, <3>1 DEF StartsWithInits, Puts
    <2> QED
      BY <1>1, <2>9, <2>11, <2>12 DEF RightInv
  <1>3. CASE dump
    BY <1>1, <1>3, DumpRight DEF RightInv
  <1>4. CASE binary = NoBinary /\ binary' = binary /\ (Sound' => Understood' /\ MInv')
    BY <1>1, <1>4 DEF RightInv, BInv, AcceptedRight, StartsWithInits
  <1>5. CASE ExitGlobal \/ MissingEndp
    BY <1>4, <1>5 DEF ExitGlobal, MissingEndp, Reads, Fails, Sound, NoError
  <1>6. CASE enter_proc \/ exit_proc \/ (\E x \in Names : set_label(x) \/ init(x))
    <2>1. binary = NoBinary /\ binary' = binary
      BY <1>6 DEF enter_proc, exit_proc, set_label, init, Reads
    <2> QED
      BY <2>1, <1>1, <1>4, <1>6, ScopesKeep
  <1>7. CASE \E x \in Names : declare_label(x) \/ refer(x)
    <2>1. binary = NoBinary /\ binary' = binary
      BY <1>7 DEF declare_label, refer, Reads
    <2> QED
      BY <2>1, <1>1, <1>4, <1>7, LabelKeepsMemory, UseKeepsMemory
  <1>8. CASE declare_temporary \/ (\E d \in {"1B", "1F"} : refer_temporary(d)) \/ (\E a \in Origins : set_org(a))
    <2>1. binary = NoBinary /\ binary' = binary
      BY <1>8 DEF declare_temporary, refer_temporary, set_org, Reads
    <2> QED
      BY <2>1, <1>1, <1>4, <1>8, DeclareTemporaryKeepsMemory, TemporaryKeepsMemory, OrgKeepsMemory
  <1>9. CASE call_init \/ jump_to_start
    <2>1. binary = NoBinary /\ binary' = binary
      BY <1>9 DEF call_init, jump_to_start, Assembling
    <2> QED
      BY <2>1, <1>1, <1>4, <1>9, CallKeepsMemory, JumpKeepsMemory
  <1> QED
    BY <1>2, <1>3, <1>5, <1>6, <1>7, <1>8, <1>9 DEF Next

-----------------------------------------------------------------------------
\* In the binary of an accepted source whose LOCALs are Plain and whose
\* instructions do not overlap, every operand is the address of the label its text
\* means (get_label, exit_proc, resolve_temporary_label, dump).
THEOREM OperandsRight == Spec => []AcceptedRight
  <1>1. RightInv => AcceptedRight
    BY DEF RightInv
  <1> QED
    BY <1>1, RightBegins, RightKept, PTL DEF Spec

\* A program with #init lines whose LOCALs are Plain and whose source ends next to
\* its highest address, not with a label (InitsOnTop), starts with the calls of their
\* routines, in their order, and a jump to its beginning (zxbasm.py main).
THEOREM InitsFirst == Spec => []StartsWithInits
  <1>1. RightInv => StartsWithInits
    BY DEF RightInv
  <1> QED
    BY <1>1, RightBegins, RightKept, PTL DEF Spec
=============================================================================
