-------------------------- MODULE AsmMemoryProofs --------------------------
(***************************************************************************)
(* Theorems of AsmMemory, for every set of names and addresses and sources *)
(* of any length and nesting: the scopes and the tables of labels go in    *)
(* step, and a source that declares a label twice, or leaves a LOCAL one   *)
(* without a declaration, is refused.                                      *)
(*                                                                         *)
(* What the tables hold is stated of any label objects L, tables T, open   *)
(* PROCs S and source P, so that what a statement does to them is told     *)
(* apart: it becomes part of the source, objects are made or changed, a    *)
(* scope is opened or closed.                                              *)
(***************************************************************************)
EXTENDS AsmMemory, SequenceTheorems, FiniteSetTheorems, TLAPS

Objects == [name : Names \cup {"1B", "1F"}, value : Nat \cup {Undefined}, local : BOOLEAN]
Tables == UNION {[X -> Nat] : X \in SUBSET Names}
Kinds == {"PROC", "ENDP", "LOCAL", "label", "1:", "use", "1B", "1F", "ORG", "#init"}
Source == [is : Kinds, name : Names \cup {Undefined}, at : Nat, path : Seq(Nat)]

-----------------------------------------------------------------------------
(* Tables and sequences.                                                   *)

\* The table of a new scope.
LEMMA EmptyTable == <<>> \in Tables /\ << <<>> >> \in Seq(Tables)
  <1>1. <<>> \in [{} -> Nat]
    OBVIOUS
  <1>2. <<>> \in Tables
    BY <1>1 DEF Tables
  <1> HIDE DEF Tables
  <1> QED
    BY <1>2

\* A table with one more name.
LEMMA WithTable ==
  ASSUME NEW f \in Tables, NEW x \in Names, NEW v \in Nat
  PROVE  With(f, x, v) \in Tables
  <1>1. PICK X \in SUBSET Names : f \in [X -> Nat]
    BY DEF Tables
  <1>2. With(f, x, v) \in [X \cup {x} -> Nat]
    BY <1>1 DEF With
  <1>3. X \cup {x} \in SUBSET Names
    OBVIOUS
  <1> QED
    BY <1>2, <1>3 DEF Tables

\* What a table has.
LEMMA TableEntry == ASSUME NEW f \in Tables, NEW x \in DOMAIN f PROVE f[x] \in Nat /\ x \in Names
  BY DEF Tables

\* A longer sequence.
LEMMA Appended ==
  ASSUME NEW R, NEW s \in Seq(R), NEW e \in R
  PROVE  /\ Append(s, e) \in Seq(R)
         /\ Len(Append(s, e)) = Len(s) + 1
         /\ DOMAIN Append(s, e) = DOMAIN s \cup {Len(s) + 1}
         /\ \A i \in DOMAIN s : Append(s, e)[i] = s[i]
         /\ Append(s, e)[Len(s) + 1] = e
         /\ DOMAIN s = 1 .. Len(s) /\ Len(s) \in Nat
         /\ Append(s, e) # <<>>
  OBVIOUS

\* One with another last element.
LEMMA ReplacedLast ==
  ASSUME NEW R, NEW s \in Seq(R), NEW e \in R, Len(s) \in DOMAIN s
  PROVE  /\ [s EXCEPT ![Len(s)] = e] \in Seq(R)
         /\ Len([s EXCEPT ![Len(s)] = e]) = Len(s)
         /\ DOMAIN [s EXCEPT ![Len(s)] = e] = DOMAIN s
         /\ [s EXCEPT ![Len(s)] = e][Len(s)] = e
         /\ \A i \in DOMAIN s : i # Len(s) => [s EXCEPT ![Len(s)] = e][i] = s[i]
  OBVIOUS

\* A shorter one.
LEMMA Shortened ==
  ASSUME NEW R, NEW s \in Seq(R), NEW n \in 0 .. Len(s)
  PROVE  /\ SubSeq(s, 1, n) \in Seq(R)
         /\ Len(SubSeq(s, 1, n)) = n
         /\ \A i \in 1 .. n : SubSeq(s, 1, n)[i] = s[i]
  OBVIOUS

-----------------------------------------------------------------------------
(* Sources.                                                                *)

\* The PROC a statement is in, 0 outside all of them.
In(P, j) == Innermost(P[j].path)
Labels(P) == {j \in DOMAIN P : P[j].is = "label"}

\* LOCAL x stands in PROC p.
LocalIn(P, x, p) ==
  \E j \in DOMAIN P : P[j].is = "LOCAL" /\ P[j].name = x /\ In(P, j) = p

\* The label declared in line j is LOCAL in its PROC.
Private(P, j) == In(P, j) # 0 /\ LocalIn(P, P[j].name, In(P, j))

\* Every LOCAL follows a PROC or another LOCAL.
LocalsFirst(P) ==
  \A j \in DOMAIN P : P[j].is = "LOCAL" =>
    j > 1 /\ P[j].path # <<>> /\ P[j - 1].is \in {"PROC", "LOCAL"}

\* The PROC of the s-th table.
Home(S, s) == IF s = 1 THEN 0 ELSE S[s - 1]

\* Where the label of line j is kept: in the table of its PROC while that is
\* open, in the first afterwards.
Lies(S, p, s) ==
  IF s = 1 THEN \A i \in DOMAIN S : S[i] # p ELSE S[s - 1] = p

-----------------------------------------------------------------------------
(* What the tables hold.                                                   *)

\* One table for each open PROC and a global one; the objects in a table have
\* the names they are found by; PROCs are open in the order of their lines.
Shape(L, T, S, P) ==
  /\ L \in Seq(Objects) /\ T \in Seq(Tables) /\ S \in Seq(Nat) /\ P \in Seq(Source)
  /\ Len(T) = Len(S) + 1
  /\ \A s \in DOMAIN T : \A x \in DOMAIN T[s] : T[s][x] \in DOMAIN L /\ L[T[s][x]].name = x
  /\ \A i \in DOMAIN S : S[i] \in 1 .. Len(P)
  /\ \A i, k \in DOMAIN S : S[i] = S[k] => i = k
  /\ \A j \in DOMAIN P : /\ In(P, j) \in 0 .. j - 1
                         /\ P[j].is \in {"label", "LOCAL"} => P[j].name \in Names

Has(L, id) == L[id].value # Undefined

\* No LOCAL is outside of all PROCs.
Within(P) == \A j \in DOMAIN P : P[j].is = "LOCAL" => In(P, j) # 0

\* At the beginning of a PROC there are only LOCAL labels.
Opening(L, T, S, P) ==
  P # <<>> /\ P[Len(P)].is \in {"PROC", "LOCAL"} =>
    /\ S # <<>>
    /\ \A x \in DOMAIN T[Len(T)] : L[T[Len(T)][x]].local
    /\ \A j \in DOMAIN P : In(P, j) = Home(S, Len(T)) => P[j].is = "LOCAL"

\* No object is in two tables.
Unshared(T) ==
  \A s, t \in DOMAIN T : \A x \in DOMAIN T[s], y \in DOMAIN T[t] : T[s][x] = T[t][y] => s = t

\* The local objects are those the text makes LOCAL.
Flags(L, T, S, P) ==
  \A s \in DOMAIN T, x \in Names :
    LocalIn(P, x, Home(S, s)) <=> (x \in DOMAIN T[s] /\ L[T[s][x]].local)

\* A label that is declared has an object with a value.
Declared(L, T, S, P) ==
  \A j \in Labels(P), s \in DOMAIN T :
    Lies(S, In(P, j), s) /\ (s # 1 \/ ~Private(P, j)) =>
      P[j].name \in DOMAIN T[s] /\ Has(L, T[s][P[j].name])

\* One object is declared once.
Once(T, S, P) ==
  \A j, k \in Labels(P) : j # k /\ P[j].name = P[k].name =>
    /\ \A s \in DOMAIN T :
         Lies(S, In(P, j), s) /\ Lies(S, In(P, k), s) => s = 1 /\ (Private(P, j) \/ Private(P, k))
    /\ In(P, j) = In(P, k) => ~Private(P, j)

\* The value of a local object is the address of a declaration in its PROC.
Backed(L, T, S, P) ==
  \A s \in DOMAIN T : \A x \in DOMAIN T[s] :
    L[T[s][x]].local /\ Has(L, T[s][x]) =>
      \E j \in Labels(P) :
        P[j].name = x /\ In(P, j) = Home(S, s) /\ P[j].at = L[T[s][x]].value

\* The LOCAL labels of a PROC that ended are declared in it.
Finished(S, P) ==
  \A j \in DOMAIN P : P[j].is = "LOCAL" /\ (\A i \in DOMAIN S : S[i] # In(P, j)) =>
    \E k \in Labels(P) : P[k].name = P[j].name /\ In(P, k) = In(P, j)

\* The tables are what the text so far says.
Scoped(L, T, S, P) ==
  /\ Within(P) /\ Opening(L, T, S, P) /\ Unshared(T) /\ Flags(L, T, S, P)
  /\ Declared(L, T, S, P) /\ Once(T, S, P) /\ Backed(L, T, S, P) /\ Finished(S, P)

-----------------------------------------------------------------------------
(* A statement becomes part of the source.                                 *)

\* Q is P with the statement e behind it.
Extends(P, e, Q) ==
  /\ Q \in Seq(Source) /\ Q # <<>>
  /\ Len(P) \in Nat /\ Len(Q) = Len(P) + 1 /\ Q[Len(Q)] = e
  /\ DOMAIN P = 1 .. Len(P) /\ DOMAIN Q = DOMAIN P \cup {Len(Q)}
  /\ Len(Q) \notin DOMAIN P
  /\ \A j \in DOMAIN P : Q[j] = P[j] /\ In(Q, j) = In(P, j)
  /\ In(Q, Len(Q)) = Innermost(e.path)
  /\ Labels(P) = Labels(Q) \ {Len(Q)}
  /\ e.is # "label" => Labels(Q) = Labels(P)
  /\ \A x, p : LocalIn(P, x, p) => LocalIn(Q, x, p)
  /\ \A x, p : LocalIn(Q, x, p) =>
       LocalIn(P, x, p) \/ (e.is = "LOCAL" /\ e.name = x /\ Innermost(e.path) = p)
  /\ e.is = "LOCAL" => LocalIn(Q, e.name, Innermost(e.path))

\* What Reads does to the source.
LEMMA Read ==
  ASSUME NEW P \in Seq(Source), NEW e \in Source
  PROVE  Extends(P, e, Append(P, e))
  <1> DEFINE Q == Append(P, e)
  <1>1. /\ Q \in Seq(Source) /\ Q # <<>>
        /\ Len(P) \in Nat /\ Len(Q) = Len(P) + 1 /\ Q[Len(Q)] = e
        /\ DOMAIN P = 1 .. Len(P) /\ DOMAIN Q = DOMAIN P \cup {Len(Q)}
        /\ Len(Q) \notin DOMAIN P
        /\ \A j \in DOMAIN P : Q[j] = P[j]
    BY Appended
  <1> HIDE DEF Q
  <1>2. (\A j \in DOMAIN P : In(Q, j) = In(P, j)) /\ In(Q, Len(Q)) = Innermost(e.path)
    BY <1>1 DEF In
  <1>3. Labels(P) = Labels(Q) \ {Len(Q)} /\ (e.is # "label" => Labels(Q) = Labels(P))
    BY <1>1 DEF Labels
  <1>4. \A x, p : LocalIn(P, x, p) => LocalIn(Q, x, p)
    BY <1>1, <1>2 DEF LocalIn
  <1>5. \A x, p : LocalIn(Q, x, p) =>
          LocalIn(P, x, p) \/ (e.is = "LOCAL" /\ e.name = x /\ Innermost(e.path) = p)
    BY <1>1, <1>2 DEF LocalIn
  <1>6. e.is = "LOCAL" => LocalIn(Q, e.name, Innermost(e.path))
    BY <1>1, <1>2 DEF LocalIn
  <1> QED
    BY <1>1, <1>2, <1>3, <1>4, <1>5, <1>6 DEF Extends, Q

\* If LOCALs come first in a source, they did before its last statement.
LEMMA LocalsFirstBefore ==
  ASSUME NEW P, NEW e, NEW Q, Extends(P, e, Q), LocalsFirst(Q)
  PROVE  /\ LocalsFirst(P)
         /\ e.is = "LOCAL" => e.path # <<>> /\ P # <<>> /\ P[Len(P)].is \in {"PROC", "LOCAL"}
  <1>1. /\ Len(P) \in Nat /\ Len(Q) = Len(P) + 1 /\ Q[Len(Q)] = e
        /\ DOMAIN P = 1 .. Len(P) /\ DOMAIN Q = DOMAIN P \cup {Len(Q)}
        /\ \A j \in DOMAIN P : Q[j] = P[j]
    BY DEF Extends
  <1>2. \A j \in DOMAIN Q : Q[j].is = "LOCAL" =>
          j > 1 /\ Q[j].path # <<>> /\ Q[j - 1].is \in {"PROC", "LOCAL"}
    BY DEF LocalsFirst
  <1>3. ASSUME NEW j \in DOMAIN P, P[j].is = "LOCAL"
        PROVE  j > 1 /\ P[j].path # <<>> /\ P[j - 1].is \in {"PROC", "LOCAL"}
    <2>1. j > 1 /\ Q[j].path # <<>> /\ Q[j - 1].is \in {"PROC", "LOCAL"}
      BY <1>1, <1>2, <1>3
    <2>2. j - 1 \in DOMAIN P
      BY <1>1, <2>1
    <2> QED
      BY <1>1, <2>1, <2>2
  <1>4. ASSUME e.is = "LOCAL"
        PROVE  e.path # <<>> /\ P # <<>> /\ P[Len(P)].is \in {"PROC", "LOCAL"}
    <2>1. Len(Q) > 1 /\ e.path # <<>> /\ Q[Len(Q) - 1].is \in {"PROC", "LOCAL"}
      BY <1>1, <1>2, <1>4
    <2>2. Len(P) \in Nat /\ Len(Q) = Len(P) + 1 /\ DOMAIN P = 1 .. Len(P)
      BY <1>1
    <2>3. Len(Q) - 1 = Len(P) /\ Len(P) \in DOMAIN P
      BY <2>1, <2>2
    <2>4. P # <<>>
      BY <2>3
    <2> QED
      BY <1>1, <2>1, <2>3, <2>4
  <1> QED
    BY <1>3, <1>4 DEF LocalsFirst

\* The PROC open last.
LEMMA InnermostHome ==
  ASSUME NEW L, NEW T, NEW S, NEW P, Shape(L, T, S, P)
  PROVE  /\ Len(T) \in Nat /\ Len(T) > 0 /\ DOMAIN T = 1 .. Len(T) /\ Len(S) \in Nat
         /\ DOMAIN S = 1 .. Len(S) /\ Len(S) = Len(T) - 1
         /\ Innermost(S) = Home(S, Len(T)) /\ Innermost(S) \in 0 .. Len(P)
         /\ Len(P) \in Nat
         /\ \A s \in DOMAIN T : Home(S, s) \in 0 .. Len(P) /\ (s # 1 => Home(S, s) # 0)
         /\ \A s, t \in DOMAIN T : Home(S, s) = Home(S, t) => s = t
  <1>1. /\ Len(T) \in Nat /\ Len(T) > 0 /\ DOMAIN T = 1 .. Len(T) /\ Len(S) \in Nat
        /\ DOMAIN S = 1 .. Len(S) /\ Len(S) = Len(T) - 1 /\ Len(P) \in Nat
        /\ (S = <<>>) = (Len(S) = 0)
    BY DEF Shape
  <1>2. \A s \in DOMAIN T : s # 1 => s - 1 \in DOMAIN S
    BY <1>1
  <1>3. \A i \in DOMAIN S : S[i] \in 1 .. Len(P)
    BY DEF Shape
  <1>4. \A s \in DOMAIN T : Home(S, s) \in 0 .. Len(P) /\ (s # 1 => Home(S, s) # 0)
    BY <1>1, <1>2, <1>3 DEF Home
  <1>5. Innermost(S) = Home(S, Len(T))
    BY <1>1 DEF Innermost, Home
  <1>6. ASSUME NEW s \in DOMAIN T, NEW t \in DOMAIN T, Home(S, s) = Home(S, t) PROVE s = t
    <2>1. CASE s = 1 \/ t = 1
      BY <2>1, <1>6, <1>4 DEF Home
    <2>2. CASE s # 1 /\ t # 1
      <3>1. s - 1 \in DOMAIN S /\ t - 1 \in DOMAIN S /\ S[s - 1] = S[t - 1]
        BY <2>2, <1>2, <1>6 DEF Home
      <3>2. s - 1 = t - 1
        BY <3>1 DEF Shape
      <3> QED
        BY <3>2, <1>1
    <2> QED
      BY <2>1, <2>2
  <1> QED
    BY <1>1, <1>4, <1>5, <1>6

\* The shape with one more statement.
LEMMA ReadShape ==
  ASSUME NEW L, NEW T, NEW S, NEW P, NEW e, NEW Q, Extends(P, e, Q),
         Shape(L, T, S, P), e.path = S, e.is \in {"label", "LOCAL"} => e.name \in Names
  PROVE  Shape(L, T, S, Q)
  <1>2. /\ Q \in Seq(Source) /\ Len(P) \in Nat /\ Len(Q) = Len(P) + 1
        /\ DOMAIN P = 1 .. Len(P) /\ DOMAIN Q = DOMAIN P \cup {Len(Q)}
        /\ \A j \in DOMAIN P : Q[j] = P[j] /\ In(Q, j) = In(P, j)
        /\ Q[Len(Q)] = e /\ In(Q, Len(Q)) = Innermost(S)
    BY DEF Extends
  <1>3. Innermost(S) \in 0 .. Len(P)
    BY InnermostHome
  <1>4. \A j \in DOMAIN Q : /\ In(Q, j) \in 0 .. j - 1
                            /\ Q[j].is \in {"label", "LOCAL"} => Q[j].name \in Names
    BY <1>2, <1>3 DEF Shape
  <1>5. \A i \in DOMAIN S : S[i] \in 1 .. Len(Q)
    BY <1>2 DEF Shape
  <1> QED
    BY <1>2, <1>4, <1>5 DEF Shape

\* A statement that is neither a label nor LOCAL nor PROC changes nothing.
LEMMA ReadScoped ==
  ASSUME NEW L, NEW T, NEW S, NEW P, NEW e, NEW Q, Extends(P, e, Q),
         Shape(L, T, S, P), Scoped(L, T, S, P), e.path = S,
         e.is \notin {"label", "LOCAL", "PROC"}
  PROVE  Scoped(L, T, S, Q)
  <1>2. /\ Q # <<>> /\ Q[Len(Q)] = e
        /\ DOMAIN Q = DOMAIN P \cup {Len(Q)}
        /\ \A j \in DOMAIN P : Q[j] = P[j] /\ In(Q, j) = In(P, j)
        /\ Labels(Q) = Labels(P)
        /\ \A x, p : LocalIn(Q, x, p) <=> LocalIn(P, x, p)
    BY DEF Extends
  <1>3. Labels(P) \subseteq DOMAIN P
    BY DEF Labels
  <1>4. \A j \in Labels(P) : Private(Q, j) <=> Private(P, j)
    BY <1>2, <1>3 DEF Private
  <1>5. Opening(L, T, S, Q) /\ Within(Q)
    BY <1>2 DEF Opening, Scoped, Within
  <1>6. Unshared(T) /\ Flags(L, T, S, Q)
    BY <1>2 DEF Scoped, Flags
  <1>7. Declared(L, T, S, Q)
    BY <1>2, <1>3, <1>4 DEF Scoped, Declared
  <1>8. Once(T, S, Q)
    BY <1>2, <1>3, <1>4 DEF Scoped, Once
  <1>9. Backed(L, T, S, Q)
    <2> SUFFICES ASSUME NEW s \in DOMAIN T, NEW x \in DOMAIN T[s],
                        L[T[s][x]].local, Has(L, T[s][x])
                 PROVE  \E j \in Labels(Q) :
                          Q[j].name = x /\ In(Q, j) = Home(S, s) /\ Q[j].at = L[T[s][x]].value
      BY DEF Backed
    <2>1. PICK j \in Labels(P) :
            P[j].name = x /\ In(P, j) = Home(S, s) /\ P[j].at = L[T[s][x]].value
      BY DEF Scoped, Backed
    <2> QED
      BY <2>1, <1>2, <1>3
  <1>10. Finished(S, Q)
    <2> SUFFICES ASSUME NEW j \in DOMAIN Q, Q[j].is = "LOCAL", \A i \in DOMAIN S : S[i] # In(Q, j)
                 PROVE  \E k \in Labels(Q) : Q[k].name = Q[j].name /\ In(Q, k) = In(Q, j)
      BY DEF Finished
    <2>1. j \in DOMAIN P /\ P[j].is = "LOCAL" /\ In(Q, j) = In(P, j) /\ Q[j].name = P[j].name
      BY <1>2
    <2>2. PICK k \in Labels(P) : P[k].name = P[j].name /\ In(P, k) = In(P, j)
      BY <2>1 DEF Scoped, Finished
    <2> QED
      BY <2>1, <2>2, <1>2, <1>3
  <1> QED
    BY <1>5, <1>6, <1>7, <1>8, <1>9, <1>10 DEF Scoped

-----------------------------------------------------------------------------
(* An object is put into the last table, or changed there.                 *)

\* The last table has x with this value; every other name has what it had, and
\* every other object is what it was.
Entered(L, T, M, U, x, v, loc) ==
  /\ DOMAIN U = DOMAIN T /\ Len(U) = Len(T)
  /\ \A s \in DOMAIN T : s # Len(T) => DOMAIN U[s] = DOMAIN T[s]
  /\ DOMAIN U[Len(T)] = DOMAIN T[Len(T)] \cup {x}
  /\ \A s \in DOMAIN T : \A y \in DOMAIN T[s] :
       s # Len(T) \/ y # x => U[s][y] = T[s][y] /\ M[U[s][y]] = L[T[s][y]]
  /\ M[U[Len(T)][x]] = Object(x, v, loc)
  /\ DOMAIN M = DOMAIN L \cup {U[Len(T)][x]}
  /\ \A id \in DOMAIN L : id # U[Len(T)][x] => M[id] = L[id]
  /\ x \in DOMAIN T[Len(T)] => U[Len(T)][x] = T[Len(T)][x]
  /\ x \notin DOMAIN T[Len(T)] => U[Len(T)][x] \notin DOMAIN L

\* A new object.
Put(T, x, id) == [T EXCEPT ![Len(T)] = With(T[Len(T)], x, id)]

\* A name the last table lacks gets one.
LEMMA NewObject ==
  ASSUME NEW L, NEW T, NEW S, NEW P, Shape(L, T, S, P),
         NEW x \in Names, NEW v \in Nat \cup {Undefined}, NEW loc \in BOOLEAN,
         x \notin DOMAIN T[Len(T)]
  PROVE  /\ Entered(L, T, Append(L, Object(x, v, loc)), Put(T, x, Len(L) + 1), x, v, loc)
         /\ Shape(Append(L, Object(x, v, loc)), Put(T, x, Len(L) + 1), S, P)
         /\ Unshared(T) => Unshared(Put(T, x, Len(L) + 1))
  <1> DEFINE id == Len(L) + 1
             M == Append(L, Object(x, v, loc))
             U == Put(T, x, id)
             f == With(T[Len(T)], x, id)
  <1>1. /\ Len(T) \in Nat /\ Len(T) \in DOMAIN T /\ DOMAIN T = 1 .. Len(T)
    BY InnermostHome
  <1>2. L \in Seq(Objects) /\ T \in Seq(Tables) /\ Object(x, v, loc) \in Objects
    BY DEF Shape, Object, Objects
  <1>3. /\ M \in Seq(Objects) /\ DOMAIN M = DOMAIN L \cup {id} /\ M[id] = Object(x, v, loc)
        /\ \A i \in DOMAIN L : M[i] = L[i]
        /\ id \in Nat /\ id \notin DOMAIN L
    BY <1>2, Appended
  <1> HIDE DEF id, M
  <1>4. T[Len(T)] \in Tables /\ id \in Nat /\ x \in Names
    BY <1>1, <1>2, <1>3
  <1>5. /\ f \in Tables /\ DOMAIN f = DOMAIN T[Len(T)] \cup {x}
        /\ \A y \in DOMAIN f : f[y] = IF y = x THEN id ELSE T[Len(T)][y]
    <2>1. PICK g \in Tables : g = T[Len(T)]
      BY <1>4
    <2>2. With(g, x, id) \in Tables
      BY <1>4, WithTable
    <2>4. /\ DOMAIN With(g, x, id) = DOMAIN g \cup {x}
          /\ \A y \in DOMAIN g \cup {x} : With(g, x, id)[y] = IF y = x THEN id ELSE g[y]
      BY DEF With
    <2>3. f = With(g, x, id)
      BY <2>1
    <2> HIDE DEF f
    <2> QED
      BY <2>1, <2>2, <2>3, <2>4
  <1> HIDE DEF f
  <1>6. U = [T EXCEPT ![Len(T)] = f]
    BY DEF f, Put
  <1>7. /\ U \in Seq(Tables) /\ Len(U) = Len(T) /\ DOMAIN U = DOMAIN T /\ U[Len(T)] = f
        /\ \A s \in DOMAIN T : s # Len(T) => U[s] = T[s]
    BY ONLY <1>1, <1>2, <1>5, <1>6, ReplacedLast
  <1> HIDE DEF U
  <1>8. \A s \in DOMAIN T : \A y \in DOMAIN T[s] : T[s][y] \in DOMAIN L /\ L[T[s][y]].name = y
    BY DEF Shape
  <1>9. ASSUME NEW s \in DOMAIN T, NEW y \in DOMAIN U[s]
        PROVE  \/ s = Len(T) /\ y = x /\ U[s][y] = id
               \/ (s # Len(T) \/ y # x) /\ y \in DOMAIN T[s] /\ U[s][y] = T[s][y]
    BY <1>5, <1>7, <1>9
  <1>10. Entered(L, T, M, U, x, v, loc)
    <2>1. ASSUME NEW s \in DOMAIN T, NEW y \in DOMAIN T[s], s # Len(T) \/ y # x
          PROVE  U[s][y] = T[s][y] /\ M[U[s][y]] = L[T[s][y]]
      <3>1. y \in DOMAIN U[s]
        BY <1>5, <1>7, <2>1
      <3> QED
        BY <3>1, <1>3, <1>8, <1>9, <2>1
    <2>2. U[Len(T)][x] = id
      BY <1>5, <1>7
    <2>3. M[U[Len(T)][x]] = Object(x, v, loc) /\ DOMAIN M = DOMAIN L \cup {U[Len(T)][x]}
          /\ U[Len(T)][x] \in DOMAIN M /\ U[Len(T)][x] \notin DOMAIN L
          /\ \A i \in DOMAIN L : M[i] = L[i]
      BY <2>2, <1>3
    <2> QED
      BY <2>1, <2>3, <1>5, <1>7 DEF Entered
  <1>11. Shape(M, U, S, P)
    <2>1. ASSUME NEW s \in DOMAIN U, NEW y \in DOMAIN U[s]
          PROVE  U[s][y] \in DOMAIN M /\ M[U[s][y]].name = y
      BY <1>3, <1>7, <1>8, <1>9 DEF Object
    <2> QED
      BY <2>1, <1>3, <1>7 DEF Shape
  <1>12. ASSUME Unshared(T) PROVE Unshared(U)
    <2> SUFFICES ASSUME NEW s \in DOMAIN U, NEW t \in DOMAIN U,
                        NEW y \in DOMAIN U[s], NEW z \in DOMAIN U[t], U[s][y] = U[t][z]
                 PROVE  s = t
      BY DEF Unshared
    <2>1. s \in DOMAIN T /\ t \in DOMAIN T
      BY <1>7
    <2>2. \/ s = Len(T) /\ y = x /\ U[s][y] = id
          \/ y \in DOMAIN T[s] /\ U[s][y] = T[s][y] /\ U[s][y] # id
      BY <2>1, <1>3, <1>8, <1>9
    <2>3. \/ t = Len(T) /\ z = x /\ U[t][z] = id
          \/ z \in DOMAIN T[t] /\ U[t][z] = T[t][z] /\ U[t][z] # id
      BY <2>1, <1>3, <1>8, <1>9
    <2> QED
      BY <2>1, <2>2, <2>3, <1>12 DEF Unshared
  <1> QED
    BY <1>10, <1>11, <1>12 DEF M, U, id

\* Another object in place of one there is.
Renewed(L, id, o) == [L EXCEPT ![id] = o]

\* A name the last table has gets another in its place.
LEMMA OldObject ==
  ASSUME NEW L, NEW T, NEW S, NEW P, Shape(L, T, S, P),
         NEW x \in DOMAIN T[Len(T)], NEW v \in Nat \cup {Undefined}, NEW loc \in BOOLEAN
  PROVE  /\ Shape(Renewed(L, T[Len(T)][x], Object(x, v, loc)), T, S, P)
         /\ Unshared(T) =>
              Entered(L, T, Renewed(L, T[Len(T)][x], Object(x, v, loc)), T, x, v, loc)
  <1> DEFINE id == T[Len(T)][x]
             M == Renewed(L, id, Object(x, v, loc))
  <1>1. /\ Len(T) \in Nat /\ Len(T) \in DOMAIN T /\ DOMAIN T = 1 .. Len(T)
    BY InnermostHome
  <1>2. \A s \in DOMAIN T : \A y \in DOMAIN T[s] : T[s][y] \in DOMAIN L /\ L[T[s][y]].name = y
    BY DEF Shape
  <1>3. id \in DOMAIN L /\ x \in Names /\ L \in Seq(Objects)
    <2>1. T[Len(T)] \in Tables
      BY <1>1 DEF Shape
    <2> QED
      BY <2>1, <1>1, <1>2, TableEntry DEF Shape
  <1> HIDE DEF id
  <1>4. Object(x, v, loc) \in Objects /\ Object(x, v, loc).name = x
    BY <1>3 DEF Object, Objects
  <1>5. /\ M \in Seq(Objects) /\ DOMAIN M = DOMAIN L /\ M[id] = Object(x, v, loc)
        /\ \A i \in DOMAIN L : i # id => M[i] = L[i]
    BY <1>3, <1>4 DEF Renewed
  <1> HIDE DEF M
  <1>6. Shape(M, T, S, P)
    <2>1. ASSUME NEW s \in DOMAIN T, NEW y \in DOMAIN T[s]
          PROVE  T[s][y] \in DOMAIN M /\ M[T[s][y]].name = y
      <3>1. CASE T[s][y] = id
        <4>1. L[id].name = y /\ L[id].name = x
          BY <3>1, <1>1, <1>2 DEF id
        <4> QED
          BY <4>1, <3>1, <1>3, <1>4, <1>5
      <3>2. CASE T[s][y] # id
        BY <3>2, <1>2, <1>5
      <3> QED
        BY <3>1, <3>2
    <2> QED
      BY <2>1, <1>5 DEF Shape
  <1>7. ASSUME Unshared(T) PROVE Entered(L, T, M, T, x, v, loc)
    <2>1. ASSUME NEW s \in DOMAIN T, NEW y \in DOMAIN T[s], s # Len(T) \/ y # x
          PROVE  M[T[s][y]] = L[T[s][y]]
      <3>1. T[s][y] # id
        <4>1. SUFFICES ASSUME T[s][y] = id PROVE FALSE
          OBVIOUS
        <4>2. s = Len(T)
          BY <4>1, <1>1, <1>7 DEF Unshared, id
        <4>3. y = x
          BY <4>1, <1>1, <1>2 DEF id
        <4> QED
          BY <4>2, <4>3, <2>1
      <3> QED
        BY <3>1, <1>2, <1>5
    <2>2. T[Len(T)][x] = id /\ x \in DOMAIN T[Len(T)] /\ DOMAIN T[Len(T)] = DOMAIN T[Len(T)] \cup {x}
      BY DEF id
    <2> QED
      BY <2>1, <2>2, <1>3, <1>5 DEF Entered
  <1> QED
    BY <1>6, <1>7 DEF M, id

-----------------------------------------------------------------------------
(* Uses, declarations and LOCALs.                                          *)

\* The label of a line in the PROC open last is kept in the last table only.
LEMMA LiesLast ==
  ASSUME NEW L, NEW T, NEW S, NEW P, Shape(L, T, S, P)
  PROVE  \A s \in DOMAIN T : Lies(S, Home(S, Len(T)), s) <=> s = Len(T)
  <1>1. /\ Len(T) \in Nat /\ Len(T) > 0 /\ DOMAIN T = 1 .. Len(T)
        /\ DOMAIN S = 1 .. Len(S) /\ Len(S) = Len(T) - 1
        /\ \A s \in DOMAIN T : s # 1 => Home(S, s) # 0
        /\ \A s, t \in DOMAIN T : Home(S, s) = Home(S, t) => s = t
    BY InnermostHome
  <1>2. \A s \in DOMAIN T : s # 1 => Home(S, s) = S[s - 1]
    BY DEF Home
  <1>3. Len(T) \in DOMAIN T
    BY <1>1
  <1>4. ASSUME NEW s \in DOMAIN T, s # 1 PROVE Lies(S, Home(S, Len(T)), s) <=> s = Len(T)
    BY <1>1, <1>2, <1>3, <1>4 DEF Lies
  <1>5. ASSUME Len(T) # 1 PROVE ~Lies(S, Home(S, Len(T)), 1)
    <2>1. Len(T) - 1 \in DOMAIN S
      BY <1>1, <1>5
    <2> QED
      BY <2>1, <1>2, <1>3, <1>5 DEF Lies
  <1>6. ASSUME Len(T) = 1 PROVE Lies(S, Home(S, Len(T)), 1)
    BY <1>1, <1>6 DEF Lies
  <1> QED
    BY <1>4, <1>5, <1>6

\* A use that finds no object makes one.
LEMMA UseScoped ==
  ASSUME NEW L, NEW T, NEW S, NEW P, NEW M, NEW U, NEW x \in Names,
         Shape(L, T, S, P), Scoped(L, T, S, P), Unshared(U),
         P = <<>> \/ P[Len(P)].is \notin {"PROC", "LOCAL"} \/ S = <<>>,
         x \notin DOMAIN T[Len(T)], Entered(L, T, M, U, x, Undefined, FALSE)
  PROVE  Scoped(M, U, S, P)
  <1>1. /\ DOMAIN U = DOMAIN T /\ Len(U) = Len(T)
        /\ \A s \in DOMAIN T : s # Len(T) => DOMAIN U[s] = DOMAIN T[s]
        /\ DOMAIN U[Len(T)] = DOMAIN T[Len(T)] \cup {x}
        /\ M[U[Len(T)][x]] = Object(x, Undefined, FALSE)
    BY DEF Entered
  <1>2. \A s \in DOMAIN T : \A y \in DOMAIN T[s] : M[U[s][y]] = L[T[s][y]]
    BY DEF Entered
  <1>3. ASSUME NEW s \in DOMAIN U, NEW y \in DOMAIN U[s]
        PROVE  \/ s = Len(T) /\ y = x /\ ~M[U[s][y]].local /\ ~Has(M, U[s][y])
               \/ y \in DOMAIN T[s] /\ M[U[s][y]] = L[T[s][y]]
    BY <1>1, <1>2, <1>3 DEF Object, Has
  <1>4. \A s \in DOMAIN T : \A y \in DOMAIN T[s] : y \in DOMAIN U[s]
    BY <1>1
  <1>5. Opening(M, U, S, P)
    BY DEF Opening, Scoped
  <1>6. Flags(M, U, S, P)
    BY <1>1, <1>2, <1>3, <1>4 DEF Flags, Scoped
  <1>7. Declared(M, U, S, P)
    BY <1>1, <1>2, <1>4 DEF Declared, Scoped, Has
  <1>8. Once(U, S, P)
    BY <1>1 DEF Once, Scoped
  <1>9. Backed(M, U, S, P)
    BY <1>1, <1>3 DEF Backed, Scoped, Has
  <1> QED
    BY <1>5, <1>6, <1>7, <1>8, <1>9 DEF Scoped

\* A declaration gives a value to an object that has none.
LEMMA LabelScoped ==
  ASSUME NEW L, NEW T, NEW S, NEW P, NEW M, NEW U, NEW x \in Names, NEW e, NEW Q,
         NEW v, NEW loc, v # Undefined,
         Shape(L, T, S, P), Scoped(L, T, S, P), Unshared(U),
         Extends(P, e, Q), e.is = "label", e.name = x, e.path = S, e.at = v,
         Entered(L, T, M, U, x, v, loc),
         x \in DOMAIN T[Len(T)] => ~Has(L, T[Len(T)][x]) /\ loc = L[T[Len(T)][x]].local,
         x \notin DOMAIN T[Len(T)] => loc = FALSE
  PROVE  Scoped(M, U, S, Q)
  <1> DEFINE new == Len(Q)
             last == Len(T)
  <1>1. /\ DOMAIN U = DOMAIN T /\ Len(U) = last
        /\ \A s \in DOMAIN T : s # last => DOMAIN U[s] = DOMAIN T[s]
        /\ DOMAIN U[last] = DOMAIN T[last] \cup {x}
        /\ M[U[last][x]].value = v /\ M[U[last][x]].local = loc
    BY DEF Entered, Object
  <1>2. \A s \in DOMAIN T : \A y \in DOMAIN T[s] :
          s # last \/ y # x => M[U[s][y]] = L[T[s][y]]
    BY DEF Entered
  <1>3. \A s \in DOMAIN T : \A y \in DOMAIN U[s] :
          (s = last /\ y = x) \/ (y \in DOMAIN T[s] /\ M[U[s][y]] = L[T[s][y]])
    BY <1>1, <1>2
  <1>4. \A s \in DOMAIN T : \A y \in DOMAIN T[s] : y \in DOMAIN U[s]
    BY <1>1
  <1>5. Has(M, U[last][x])
    BY <1>1 DEF Has
  <1>6. /\ Q # <<>> /\ Q[new] = e /\ DOMAIN Q = DOMAIN P \cup {new} /\ new \notin DOMAIN P
        /\ \A j \in DOMAIN P : Q[j] = P[j] /\ In(Q, j) = In(P, j)
        /\ In(Q, new) = Innermost(S)
        /\ \A y, p : LocalIn(Q, y, p) <=> LocalIn(P, y, p)
    BY DEF Extends
  <1>7. Labels(Q) = Labels(P) \cup {new} /\ Labels(P) \subseteq DOMAIN P
    BY <1>6 DEF Labels
  <1>8. \A j \in Labels(P) : Private(Q, j) <=> Private(P, j)
    BY <1>6, <1>7 DEF Private
  <1>9. /\ last \in Nat /\ last \in DOMAIN T /\ Innermost(S) = Home(S, last)
        /\ last # 1 => Home(S, last) # 0
    <2>1. /\ last \in Nat /\ last > 0 /\ DOMAIN T = 1 .. last /\ Innermost(S) = Home(S, last)
          /\ \A s \in DOMAIN T : s # 1 => Home(S, s) # 0
      BY InnermostHome
    <2>2. last \in DOMAIN T
      BY <2>1
    <2> QED
      BY <2>1, <2>2
  <1>10. \A s \in DOMAIN T : Lies(S, In(Q, new), s) <=> s = last
    BY <1>6, <1>9, LiesLast
  <1>11. ASSUME NEW k \in Labels(P), P[k].name = x, Lies(S, In(P, k), last)
         PROVE  last = 1 /\ Private(P, k)
    <2>1. ~(x \in DOMAIN T[last] /\ Has(L, T[last][x]))
      OBVIOUS
    <2> QED
      BY <2>1, <1>9, <1>11 DEF Scoped, Declared
  <1> HIDE DEF new, last
  <1>12. Opening(M, U, S, Q) /\ Within(Q)
    <2>1. Q[Len(Q)] = e
      BY <1>6 DEF new
    <2>2. Opening(M, U, S, Q)
      BY <2>1 DEF Opening
    <2> QED
      BY <2>2, <1>6 DEF Within, Scoped
  <1>13. Flags(M, U, S, Q)
    <2> SUFFICES ASSUME NEW s \in DOMAIN T, NEW y \in Names
                 PROVE  LocalIn(P, y, Home(S, s)) <=> (y \in DOMAIN U[s] /\ M[U[s][y]].local)
      BY <1>1, <1>6 DEF Flags
    <2>1. LocalIn(P, y, Home(S, s)) <=> (y \in DOMAIN T[s] /\ L[T[s][y]].local)
      BY DEF Scoped, Flags
    <2>2. CASE s = last /\ y = x
      BY <2>1, <2>2, <1>1 DEF last
    <2>3. CASE ~(s = last /\ y = x)
      BY <2>1, <2>3, <1>2, <1>3, <1>4
    <2> QED
      BY <2>2, <2>3
  <1>14. Declared(M, U, S, Q)
    <2> SUFFICES ASSUME NEW j \in Labels(Q), NEW s \in DOMAIN T,
                        Lies(S, In(Q, j), s), s # 1 \/ ~Private(Q, j)
                 PROVE  Q[j].name \in DOMAIN U[s] /\ Has(M, U[s][Q[j].name])
      BY <1>1 DEF Declared
    <2>1. CASE j = new
      BY <2>1, <1>1, <1>5, <1>6, <1>10
    <2>2. CASE j \in Labels(P)
      <3>1. P[j].name \in DOMAIN T[s] /\ Has(L, T[s][P[j].name]) /\ Q[j] = P[j]
        BY <2>2, <1>6, <1>7, <1>8 DEF Scoped, Declared
      <3> QED
        BY <3>1, <1>2, <1>4, <1>5 DEF Has
    <2> QED
      BY <2>1, <2>2, <1>7
  <1>15. Once(U, S, Q)
    <2>1. ASSUME NEW k \in Labels(P), P[k].name = x
          PROVE  /\ \A s \in DOMAIN T : Lies(S, In(Q, new), s) /\ Lies(S, In(Q, k), s) =>
                                          s = 1 /\ Private(Q, k)
                 /\ In(Q, new) = In(Q, k) => ~Private(Q, new) /\ ~Private(Q, k)
      <3>1. In(Q, k) = In(P, k)
        BY <1>6, <1>7
      <3>2. ASSUME NEW s \in DOMAIN T, Lies(S, In(Q, new), s), Lies(S, In(Q, k), s)
            PROVE  s = 1 /\ Private(Q, k)
        BY <3>1, <3>2, <2>1, <1>8, <1>10, <1>11
      <3>3. ASSUME In(Q, new) = In(Q, k) PROVE ~Private(Q, new) /\ ~Private(Q, k)
        <4>1. Lies(S, In(Q, new), last)
          BY <1>9, <1>10
        <4>2. last = 1
          BY <4>1, <3>1, <3>3, <2>1, <1>11
        <4>3. Home(S, last) = 0
          BY <4>2 DEF Home
        <4> QED
          BY <4>3, <3>3, <1>6, <1>9 DEF Private
      <3> QED
        BY <3>2, <3>3
    <2> SUFFICES ASSUME NEW j \in Labels(Q), NEW k \in Labels(Q), j # k, Q[j].name = Q[k].name
                 PROVE  /\ \A s \in DOMAIN T :
                             Lies(S, In(Q, j), s) /\ Lies(S, In(Q, k), s) =>
                               s = 1 /\ (Private(Q, j) \/ Private(Q, k))
                        /\ In(Q, j) = In(Q, k) => ~Private(Q, j)
      BY <1>1 DEF Once
    <2>2. CASE j = new
      BY <2>1, <2>2, <1>6, <1>7
    <2>3. CASE k = new
      BY <2>1, <2>3, <1>6, <1>7
    <2>4. CASE j \in Labels(P) /\ k \in Labels(P)
      <3>1. P[j].name = P[k].name /\ In(Q, j) = In(P, j) /\ In(Q, k) = In(P, k)
        BY <2>4, <1>6, <1>7
      <3> QED
        BY <2>4, <3>1, <1>8 DEF Scoped, Once
    <2> QED
      BY <2>2, <2>3, <2>4, <1>7
  <1>16. Backed(M, U, S, Q)
    <2> SUFFICES ASSUME NEW s \in DOMAIN T, NEW y \in DOMAIN U[s],
                        M[U[s][y]].local, Has(M, U[s][y])
                 PROVE  \E j \in Labels(Q) :
                          Q[j].name = y /\ In(Q, j) = Home(S, s) /\ Q[j].at = M[U[s][y]].value
      BY <1>1 DEF Backed
    <2>1. CASE s = last /\ y = x
      BY <2>1, <1>1, <1>6, <1>7, <1>9
    <2>2. CASE ~(s = last /\ y = x)
      <3>1. /\ y \in DOMAIN T[s] /\ L[T[s][y]].local /\ Has(L, T[s][y])
            /\ M[U[s][y]].value = L[T[s][y]].value
        BY <2>2, <1>3 DEF Has
      <3>2. PICK j \in Labels(P) :
              P[j].name = y /\ In(P, j) = Home(S, s) /\ P[j].at = L[T[s][y]].value
        BY <3>1 DEF Scoped, Backed
      <3> QED
        BY <3>1, <3>2, <1>6, <1>7
    <2> QED
      BY <2>1, <2>2
  <1>17. Finished(S, Q)
    <2> SUFFICES ASSUME NEW j \in DOMAIN Q, Q[j].is = "LOCAL", \A i \in DOMAIN S : S[i] # In(Q, j)
                 PROVE  \E k \in Labels(Q) : Q[k].name = Q[j].name /\ In(Q, k) = In(Q, j)
      BY DEF Finished
    <2>1. j \in DOMAIN P /\ P[j].is = "LOCAL" /\ In(Q, j) = In(P, j) /\ Q[j].name = P[j].name
      BY <1>6
    <2>2. PICK k \in Labels(P) : P[k].name = P[j].name /\ In(P, k) = In(P, j)
      BY <2>1 DEF Scoped, Finished
    <2> QED
      BY <2>1, <2>2, <1>6, <1>7
  <1> QED
    BY <1>12, <1>13, <1>14, <1>15, <1>16, <1>17 DEF Scoped

\* LOCAL marks an object at the beginning of its PROC.
LEMMA LocalScoped ==
  ASSUME NEW L, NEW T, NEW S, NEW P, NEW M, NEW U, NEW x \in Names, NEW e, NEW Q, NEW v,
         Shape(L, T, S, P), Scoped(L, T, S, P), Unshared(U),
         Extends(P, e, Q), e.is = "LOCAL", e.name = x, e.path = S,
         S # <<>>, P # <<>>, P[Len(P)].is \in {"PROC", "LOCAL"},
         Entered(L, T, M, U, x, v, TRUE),
         x \in DOMAIN T[Len(T)] => v = L[T[Len(T)][x]].value,
         x \notin DOMAIN T[Len(T)] => v = Undefined
  PROVE  Scoped(M, U, S, Q)
  <1> DEFINE new == Len(Q)
             last == Len(T)
  <1>1. /\ DOMAIN U = DOMAIN T /\ Len(U) = last
        /\ \A s \in DOMAIN T : s # last => DOMAIN U[s] = DOMAIN T[s]
        /\ DOMAIN U[last] = DOMAIN T[last] \cup {x}
        /\ M[U[last][x]].value = v /\ M[U[last][x]].local
        /\ x \in DOMAIN T[last] => v = L[T[last][x]].value
    BY DEF Entered, Object
  <1>2. \A s \in DOMAIN T : \A y \in DOMAIN T[s] :
          s # last \/ y # x => M[U[s][y]] = L[T[s][y]]
    BY DEF Entered
  <1>3. \A s \in DOMAIN T : \A y \in DOMAIN U[s] :
          (s = last /\ y = x) \/ (y \in DOMAIN T[s] /\ M[U[s][y]] = L[T[s][y]])
    BY <1>1, <1>2
  <1>4. \A s \in DOMAIN T : \A y \in DOMAIN T[s] : y \in DOMAIN U[s]
    BY <1>1
  <1>5. Has(M, U[last][x]) <=> x \in DOMAIN T[last] /\ Has(L, T[last][x])
    BY <1>1 DEF Has
  <1>6. /\ Q # <<>> /\ Q[new] = e /\ DOMAIN Q = DOMAIN P \cup {new} /\ new \notin DOMAIN P
        /\ \A j \in DOMAIN P : Q[j] = P[j] /\ In(Q, j) = In(P, j)
        /\ In(Q, new) = Innermost(S)
        /\ Labels(Q) = Labels(P)
        /\ \A y, p : LocalIn(Q, y, p) <=> LocalIn(P, y, p) \/ (y = x /\ p = Innermost(S))
    BY DEF Extends
  <1>7. Labels(P) \subseteq DOMAIN P
    BY DEF Labels
  <1>8. /\ last \in Nat /\ last > 1 /\ last \in DOMAIN T /\ last - 1 \in DOMAIN S
        /\ Innermost(S) = Home(S, last) /\ Home(S, last) # 0
        /\ Home(S, last) = S[last - 1]
        /\ \A s \in DOMAIN T : Home(S, s) = Home(S, last) => s = last
    <2>1. /\ last \in Nat /\ last > 0 /\ DOMAIN T = 1 .. last /\ Innermost(S) = Home(S, last)
          /\ DOMAIN S = 1 .. Len(S) /\ Len(S) = last - 1 /\ Len(S) \in Nat
          /\ \A s \in DOMAIN T : s # 1 => Home(S, s) # 0
          /\ \A s, t \in DOMAIN T : Home(S, s) = Home(S, t) => s = t
      BY InnermostHome
    <2>2. Len(S) # 0
      BY DEF Shape
    <2>3. last \in DOMAIN T /\ last # 1 /\ last - 1 \in DOMAIN S
      BY <2>1, <2>2
    <2>4. Home(S, last) = S[last - 1]
      BY <2>3 DEF Home
    <2>5. last > 1
      BY <2>1, <2>3
    <2> QED
      BY <2>1, <2>3, <2>4, <2>5
  <1>9. /\ \A y \in DOMAIN T[last] : L[T[last][y]].local
        /\ \A j \in DOMAIN P : In(P, j) = Home(S, last) => P[j].is = "LOCAL"
    BY DEF Scoped, Opening
  <1>10. \A j \in Labels(P) : Private(Q, j) <=> Private(P, j)
    <2>1. \A j \in Labels(P) : In(P, j) # Home(S, last)
      BY <1>7, <1>9 DEF Labels
    <2> QED
      BY <2>1, <1>6, <1>7, <1>8 DEF Private
  <1> HIDE DEF new, last
  <1>11. Within(Q)
    BY <1>6, <1>8 DEF Within, Scoped
  <1>12. Opening(M, U, S, Q)
    <2>1. ASSUME NEW y \in DOMAIN U[last] PROVE M[U[last][y]].local
      BY <1>1, <1>3, <1>8, <1>9
    <2>2. ASSUME NEW j \in DOMAIN Q, In(Q, j) = Home(S, last) PROVE Q[j].is = "LOCAL"
      BY <2>2, <1>6, <1>9
    <2> QED
      BY <2>1, <2>2, <1>1 DEF Opening
  <1>13. Flags(M, U, S, Q)
    <2> SUFFICES ASSUME NEW s \in DOMAIN T, NEW y \in Names
                 PROVE  LocalIn(Q, y, Home(S, s)) <=> (y \in DOMAIN U[s] /\ M[U[s][y]].local)
      BY <1>1 DEF Flags
    <2>1. LocalIn(P, y, Home(S, s)) <=> (y \in DOMAIN T[s] /\ L[T[s][y]].local)
      BY DEF Scoped, Flags
    <2>2. CASE s = last /\ y = x
      BY <2>2, <1>1, <1>6, <1>8
    <2>3. CASE ~(s = last /\ y = x)
      <3>1. LocalIn(Q, y, Home(S, s)) <=> LocalIn(P, y, Home(S, s))
        BY <2>3, <1>6, <1>8
      <3> QED
        BY <2>1, <2>3, <3>1, <1>2, <1>3, <1>4
    <2> QED
      BY <2>2, <2>3
  <1>14. Declared(M, U, S, Q)
    <2> SUFFICES ASSUME NEW j \in Labels(P), NEW s \in DOMAIN T,
                        Lies(S, In(Q, j), s), s # 1 \/ ~Private(Q, j)
                 PROVE  Q[j].name \in DOMAIN U[s] /\ Has(M, U[s][Q[j].name])
      BY <1>1, <1>6 DEF Declared
    <2>1. P[j].name \in DOMAIN T[s] /\ Has(L, T[s][P[j].name]) /\ Q[j] = P[j]
      BY <1>6, <1>7, <1>10 DEF Scoped, Declared
    <2> QED
      BY <2>1, <1>2, <1>4, <1>5 DEF Has
  <1>15. Once(U, S, Q)
    <2> SUFFICES ASSUME NEW j \in Labels(P), NEW k \in Labels(P), j # k, Q[j].name = Q[k].name
                 PROVE  /\ \A s \in DOMAIN T :
                             Lies(S, In(Q, j), s) /\ Lies(S, In(Q, k), s) =>
                               s = 1 /\ (Private(Q, j) \/ Private(Q, k))
                        /\ In(Q, j) = In(Q, k) => ~Private(Q, j)
      BY <1>1, <1>6 DEF Once
    <2>1. P[j].name = P[k].name /\ In(Q, j) = In(P, j) /\ In(Q, k) = In(P, k)
      BY <1>6, <1>7
    <2> QED
      BY <2>1, <1>10 DEF Scoped, Once
  <1>16. Backed(M, U, S, Q)
    <2> SUFFICES ASSUME NEW s \in DOMAIN T, NEW y \in DOMAIN U[s],
                        M[U[s][y]].local, Has(M, U[s][y])
                 PROVE  \E j \in Labels(P) :
                          Q[j].name = y /\ In(Q, j) = Home(S, s) /\ Q[j].at = M[U[s][y]].value
      BY <1>1, <1>6 DEF Backed
    <2>1. /\ y \in DOMAIN T[s] /\ L[T[s][y]].local /\ Has(L, T[s][y])
          /\ M[U[s][y]].value = L[T[s][y]].value
      <3>1. CASE s = last /\ y = x
        <4>1. x \in DOMAIN T[last] /\ Has(L, T[last][x]) /\ L[T[last][x]].local
          BY <3>1, <1>5, <1>9
        <4>2. M[U[last][x]].value = L[T[last][x]].value
          BY <4>1, <1>1
        <4> QED
          BY <3>1, <4>1, <4>2
      <3>2. CASE ~(s = last /\ y = x)
        BY <3>2, <1>3 DEF Has
      <3> QED
        BY <3>1, <3>2
    <2>2. PICK j \in Labels(P) :
            P[j].name = y /\ In(P, j) = Home(S, s) /\ P[j].at = L[T[s][y]].value
      BY <2>1 DEF Scoped, Backed
    <2> QED
      BY <2>1, <2>2, <1>6, <1>7
  <1>17. Finished(S, Q)
    <2> SUFFICES ASSUME NEW j \in DOMAIN Q, Q[j].is = "LOCAL", \A i \in DOMAIN S : S[i] # In(Q, j)
                 PROVE  \E k \in Labels(P) : Q[k].name = Q[j].name /\ In(Q, k) = In(Q, j)
      BY <1>6 DEF Finished
    <2>1. j \in DOMAIN P /\ P[j].is = "LOCAL" /\ In(Q, j) = In(P, j) /\ Q[j].name = P[j].name
      BY <1>6, <1>8
    <2>2. PICK k \in Labels(P) : P[k].name = P[j].name /\ In(P, k) = In(P, j)
      BY <2>1 DEF Scoped, Finished
    <2> QED
      BY <2>1, <2>2, <1>6, <1>7
  <1> QED
    BY <1>11, <1>12, <1>13, <1>14, <1>15, <1>16, <1>17 DEF Scoped

-----------------------------------------------------------------------------
(* PROC and ENDP.                                                          *)

\* PROC opens an empty table.
LEMMA ProcShape ==
  ASSUME NEW L, NEW T, NEW S, NEW P, NEW e, NEW Q, Extends(P, e, Q),
         Shape(L, T, S, P), Shape(L, T, S, Q)
  PROVE  Shape(L, Append(T, <<>>), Append(S, Len(Q)), Q)
  <1> DEFINE U == Append(T, <<>>)
             V == Append(S, Len(Q))
  <1>1. Len(Q) \in Nat /\ Len(P) \in Nat /\ Len(Q) = Len(P) + 1
    BY DEF Extends
  <1>2. T \in Seq(Tables) /\ S \in Seq(Nat) /\ Len(T) = Len(S) + 1
    BY DEF Shape
  <1>3. /\ U \in Seq(Tables) /\ Len(U) = Len(T) + 1 /\ DOMAIN U = DOMAIN T \cup {Len(T) + 1}
        /\ U[Len(T) + 1] = <<>> /\ \A s \in DOMAIN T : U[s] = T[s]
    BY ONLY <1>2, EmptyTable, Appended
  <1>4. /\ V \in Seq(Nat) /\ Len(V) = Len(S) + 1 /\ DOMAIN V = DOMAIN S \cup {Len(S) + 1}
        /\ V[Len(S) + 1] = Len(Q) /\ \A i \in DOMAIN S : V[i] = S[i]
    BY ONLY <1>1, <1>2, Appended
  <1> HIDE DEF U, V
  <1>5. \A s \in DOMAIN U : \A x \in DOMAIN U[s] : U[s][x] \in DOMAIN L /\ L[U[s][x]].name = x
    <2>1. DOMAIN <<>> = {}
      OBVIOUS
    <2> QED
      BY <2>1, <1>3 DEF Shape
  <1>6. \A i \in DOMAIN S : S[i] \in 1 .. Len(P)
    BY DEF Shape
  <1>7. \A i \in DOMAIN V : V[i] \in 1 .. Len(Q)
    BY <1>1, <1>4, <1>6
  <1>8. \A i \in DOMAIN S : S[i] # Len(Q)
    BY <1>1, <1>6
  <1>9. \A i, k \in DOMAIN V : V[i] = V[k] => i = k
    <2>1. \A i, k \in DOMAIN S : S[i] = S[k] => i = k
      BY DEF Shape
    <2> QED
      BY <2>1, <1>4, <1>8
  <1>10. Len(U) = Len(V) + 1
    BY <1>2, <1>3, <1>4
  <1>11. /\ L \in Seq(Objects) /\ Q \in Seq(Source)
         /\ \A j \in DOMAIN Q : /\ In(Q, j) \in 0 .. j - 1
                                /\ Q[j].is \in {"label", "LOCAL"} => Q[j].name \in Names
    BY DEF Shape
  <1> QED
    BY <1>3, <1>4, <1>5, <1>7, <1>9, <1>10, <1>11 DEF Shape, U, V

\* And the tables are then what the text says.
LEMMA ProcScoped ==
  ASSUME NEW L, NEW T, NEW S, NEW P, NEW e, NEW Q, Extends(P, e, Q),
         Shape(L, T, S, P), Scoped(L, T, S, P), Shape(L, T, S, Q),
         e.is = "PROC", e.path = S
  PROVE  Scoped(L, Append(T, <<>>), Append(S, Len(Q)), Q)
  <1> DEFINE U == Append(T, <<>>)
             V == Append(S, Len(Q))
             new == Len(T) + 1
  <1>1. Len(Q) \in Nat /\ Len(P) \in Nat /\ Len(Q) = Len(P) + 1
    BY DEF Extends
  <1>2. T \in Seq(Tables) /\ S \in Seq(Nat) /\ Len(T) = Len(S) + 1
    BY DEF Shape
  <1>3. /\ U \in Seq(Tables) /\ Len(U) = new /\ DOMAIN U = DOMAIN T \cup {new}
        /\ U[new] = <<>> /\ \A s \in DOMAIN T : U[s] = T[s]
        /\ DOMAIN T = 1 .. Len(T) /\ Len(T) \in Nat
    BY ONLY <1>2, EmptyTable, Appended
  <1>4. /\ V # <<>> /\ DOMAIN V = DOMAIN S \cup {Len(S) + 1}
        /\ V[Len(S) + 1] = Len(Q) /\ \A i \in DOMAIN S : V[i] = S[i]
        /\ DOMAIN S = 1 .. Len(S) /\ Len(S) \in Nat
    BY ONLY <1>1, <1>2, Appended
  <1> HIDE DEF U, V
  <1>5. DOMAIN <<>> = {}
    OBVIOUS
  <1>6. /\ Q # <<>> /\ Q[Len(Q)] = e /\ DOMAIN P = 1 .. Len(P)
        /\ DOMAIN Q = DOMAIN P \cup {Len(Q)}
        /\ \A j \in DOMAIN P : Q[j] = P[j] /\ In(Q, j) = In(P, j)
        /\ Labels(Q) = Labels(P) /\ Labels(P) \subseteq DOMAIN P
        /\ \A x, p : LocalIn(Q, x, p) <=> LocalIn(P, x, p)
    BY DEF Extends, Labels
  <1>7. \A j \in DOMAIN Q : In(Q, j) # Len(Q)
    <2>1. \A j \in DOMAIN Q : In(Q, j) \in 0 .. j - 1 /\ j \in Nat /\ j <= Len(Q)
      BY <1>1, <1>6 DEF Shape
    <2> QED
      BY <2>1, <1>1
  <1>8. \A j \in Labels(P) : Private(Q, j) <=> Private(P, j)
    BY <1>6 DEF Private
  <1>9. new \notin DOMAIN T /\ new # 1 /\ new - 1 = Len(S) + 1
    BY <1>2, <1>3, <1>4
  <1> HIDE DEF new
  <1>10. /\ \A s \in DOMAIN T : Home(V, s) = Home(S, s)
         /\ Home(V, new) = Len(Q)
    <2>1. \A s \in DOMAIN T : s # 1 => s - 1 \in DOMAIN S
      BY <1>2, <1>3, <1>4
    <2> QED
      BY <2>1, <1>4, <1>9 DEF Home
  <1>11. \A p : p # Len(Q) =>
           /\ \A s \in DOMAIN T : Lies(V, p, s) <=> Lies(S, p, s)
           /\ ~Lies(V, p, new)
    <2>1. \A s \in DOMAIN T : s # 1 => s - 1 \in DOMAIN S
      BY <1>2, <1>3, <1>4
    <2> QED
      BY <2>1, <1>4, <1>9 DEF Lies
  <1>12. Opening(L, U, V, Q) /\ Within(Q)
    <2>1. Within(Q)
      BY <1>6 DEF Within, Scoped
    <2>2. Opening(L, U, V, Q)
      BY <1>3, <1>4, <1>5, <1>7, <1>10 DEF Opening
    <2> QED
      BY <2>1, <2>2
  <1>13. Unshared(U)
    BY <1>3, <1>5 DEF Unshared, Scoped
  <1>14. Flags(L, U, V, Q)
    <2>1. \A x : ~LocalIn(Q, x, Len(Q))
      BY <1>7 DEF LocalIn
    <2> SUFFICES ASSUME NEW s \in DOMAIN U, NEW x \in Names
                 PROVE  LocalIn(Q, x, Home(V, s)) <=> (x \in DOMAIN U[s] /\ L[U[s][x]].local)
      BY DEF Flags
    <2>2. CASE s \in DOMAIN T
      BY <2>2, <1>3, <1>6, <1>10 DEF Flags, Scoped
    <2>3. CASE s = new
      BY <2>1, <2>3, <1>3, <1>5, <1>10
    <2> QED
      BY <2>2, <2>3, <1>3
  <1>15. Declared(L, U, V, Q)
    <2> SUFFICES ASSUME NEW j \in Labels(P), NEW s \in DOMAIN U,
                        Lies(V, In(Q, j), s), s # 1 \/ ~Private(Q, j)
                 PROVE  Q[j].name \in DOMAIN U[s] /\ Has(L, U[s][Q[j].name])
      BY <1>6 DEF Declared
    <2>1. In(Q, j) # Len(Q) /\ Q[j] = P[j] /\ In(Q, j) = In(P, j)
      BY <1>6, <1>7
    <2>2. s \in DOMAIN T /\ Lies(S, In(P, j), s)
      BY <2>1, <1>3, <1>11
    <2> QED
      BY <2>1, <2>2, <1>3, <1>8 DEF Scoped, Declared
  <1>16. Once(U, V, Q)
    <2> SUFFICES ASSUME NEW j \in Labels(P), NEW k \in Labels(P), j # k, Q[j].name = Q[k].name
                 PROVE  /\ \A s \in DOMAIN U :
                             Lies(V, In(Q, j), s) /\ Lies(V, In(Q, k), s) =>
                               s = 1 /\ (Private(Q, j) \/ Private(Q, k))
                        /\ In(Q, j) = In(Q, k) => ~Private(Q, j)
      BY <1>6 DEF Once
    <2>1. /\ P[j].name = P[k].name /\ In(Q, j) = In(P, j) /\ In(Q, k) = In(P, k)
          /\ In(Q, j) # Len(Q)
      BY <1>6, <1>7
    <2>2. \A s \in DOMAIN T :
            Lies(S, In(P, j), s) /\ Lies(S, In(P, k), s) => s = 1 /\ (Private(P, j) \/ Private(P, k))
      BY <2>1 DEF Scoped, Once
    <2>3. In(P, j) = In(P, k) => ~Private(P, j)
      BY <2>1 DEF Scoped, Once
    <2>4. In(Q, k) # Len(Q)
      BY <1>6, <1>7
    <2>5. ASSUME NEW s \in DOMAIN U, Lies(V, In(Q, j), s), Lies(V, In(Q, k), s)
          PROVE  s = 1 /\ (Private(Q, j) \/ Private(Q, k))
      <3>1. s \in DOMAIN T
        BY <2>1, <2>5, <1>3, <1>11
      <3>2. Lies(S, In(P, j), s) /\ Lies(S, In(P, k), s)
        BY <3>1, <2>1, <2>4, <2>5, <1>11
      <3> QED
        BY <3>1, <3>2, <2>2, <1>8
    <2> QED
      BY <2>1, <2>3, <2>5, <1>8
  <1>17. Backed(L, U, V, Q)
    <2> SUFFICES ASSUME NEW s \in DOMAIN U, NEW y \in DOMAIN U[s], L[U[s][y]].local, Has(L, U[s][y])
                 PROVE  \E j \in Labels(Q) :
                          Q[j].name = y /\ In(Q, j) = Home(V, s) /\ Q[j].at = L[U[s][y]].value
      BY DEF Backed
    <2>1. s \in DOMAIN T /\ U[s] = T[s] /\ Home(V, s) = Home(S, s)
      BY <1>3, <1>5, <1>10
    <2>2. PICK j \in Labels(P) :
            P[j].name = y /\ In(P, j) = Home(S, s) /\ P[j].at = L[T[s][y]].value
      BY <2>1 DEF Scoped, Backed
    <2> QED
      BY <2>1, <2>2, <1>6
  <1>18. Finished(V, Q)
    <2> SUFFICES ASSUME NEW j \in DOMAIN Q, Q[j].is = "LOCAL", \A i \in DOMAIN V : V[i] # In(Q, j)
                 PROVE  \E k \in Labels(P) : Q[k].name = Q[j].name /\ In(Q, k) = In(Q, j)
      BY <1>6 DEF Finished
    <2>1. /\ j \in DOMAIN P /\ P[j].is = "LOCAL" /\ In(Q, j) = In(P, j) /\ Q[j].name = P[j].name
          /\ \A i \in DOMAIN S : S[i] # In(P, j)
      BY <1>4, <1>6
    <2>2. PICK k \in Labels(P) : P[k].name = P[j].name /\ In(P, k) = In(P, j)
      BY <2>1 DEF Scoped, Finished
    <2> QED
      BY <2>1, <2>2, <1>6
  <1> QED
    BY <1>12, <1>13, <1>14, <1>15, <1>16, <1>17, <1>18 DEF Scoped, U, V

\* The names a PROC leaves to the rest of the source.
Moves(L, T) == {y \in DOMAIN T[Len(T)] : ~L[T[Len(T)][y]].local}

\* What ENDP makes of the tables if it finds no error: the objects of these names
\* go to the first table, or give their values to the objects there.
Left(L, T, M, U) ==
  /\ U \in Seq(Tables) /\ Len(U) = Len(T) - 1
  /\ \A s \in 2 .. Len(T) - 1 : U[s] = T[s] /\ \A y \in DOMAIN T[s] : M[T[s][y]] = L[T[s][y]]
  /\ DOMAIN U[1] = DOMAIN T[1] \cup Moves(L, T)
  /\ \A y \in DOMAIN T[1] : U[1][y] = T[1][y]
  /\ \A y \in DOMAIN T[1] : y \notin Moves(L, T) => M[T[1][y]] = L[T[1][y]]
  /\ \A y \in DOMAIN T[1] : y \in Moves(L, T) =>
       M[T[1][y]] = Object(y, L[T[Len(T)][y]].value, L[T[1][y]].local)
  /\ \A y \in Moves(L, T) \ DOMAIN T[1] :
       U[1][y] = T[Len(T)][y] /\ M[T[Len(T)][y]] = L[T[Len(T)][y]]
  /\ DOMAIN M = DOMAIN L
  /\ \A k \in DOMAIN L :
       (\A y \in Moves(L, T) : y \in DOMAIN T[1] => k # T[1][y]) => M[k] = L[k]

\* The tables are what the text says after the end of a PROC.
LEMMA EndScoped ==
  ASSUME NEW L, NEW T, NEW S, NEW P, NEW M, NEW U,
         Shape(L, T, S, P), Scoped(L, T, S, P), Len(T) > 1, Left(L, T, M, U),
         P # <<>>, P[Len(P)].is = "ENDP",
         \A y \in DOMAIN T[Len(T)] : L[T[Len(T)][y]].local => Has(L, T[Len(T)][y]),
         \A y \in Moves(L, T) \cap DOMAIN T[1] : ~Has(L, T[1][y])
  PROVE  Scoped(M, U, SubSeq(S, 1, Len(S) - 1), P)
  <1> DEFINE n == Len(T)
             V == SubSeq(S, 1, Len(S) - 1)
             G == Moves(L, T)
  <1>1. /\ n \in Nat /\ n \in DOMAIN T /\ 1 \in DOMAIN T /\ DOMAIN T = 1 .. n
        /\ DOMAIN S = 1 .. Len(S) /\ Len(S) = n - 1 /\ Len(S) \in Nat /\ S \in Seq(Nat)
        /\ \A s \in DOMAIN T : s # 1 => Home(S, s) # 0
        /\ \A s, t \in DOMAIN T : Home(S, s) = Home(S, t) => s = t
    <2>1. /\ n \in Nat /\ DOMAIN T = 1 .. n
          /\ DOMAIN S = 1 .. Len(S) /\ Len(S) = n - 1 /\ Len(S) \in Nat
          /\ \A s \in DOMAIN T : s # 1 => Home(S, s) # 0
          /\ \A s, t \in DOMAIN T : Home(S, s) = Home(S, t) => s = t
      BY InnermostHome
    <2>2. n \in DOMAIN T /\ 1 \in DOMAIN T
      BY <2>1
    <2> QED
      BY <2>1, <2>2 DEF Shape
  <1>2. /\ V \in Seq(Nat) /\ Len(V) = Len(S) - 1
        /\ \A i \in 1 .. Len(S) - 1 : V[i] = S[i]
    <2>1. Len(S) - 1 \in 0 .. Len(S)
      BY <1>1
    <2> QED
      BY ONLY <2>1, <1>1, Shortened
  <1> HIDE DEF V
  <1>3. DOMAIN V = 1 .. n - 2 /\ \A i \in DOMAIN V : i \in DOMAIN S /\ V[i] = S[i]
    <2>1. Len(S) - 1 = n - 2 /\ n > 1
      BY <1>1
    <2>2. DOMAIN V = 1 .. n - 2
      BY <2>1, <1>2
    <2> HIDE DEF n
    <2>3. \A i \in 1 .. n - 2 : i \in 1 .. Len(S) - 1 /\ i \in 1 .. Len(S)
      BY <2>1, <1>1
    <2> QED
      BY <2>2, <2>3, <1>1, <1>2
  <1>4. DOMAIN S = DOMAIN V \cup {n - 1} /\ n - 1 \notin DOMAIN V
    BY <1>1, <1>3
  <1>5. /\ DOMAIN U = 1 .. n - 1 /\ DOMAIN U \subseteq DOMAIN T /\ 1 \in DOMAIN U
        /\ n \notin DOMAIN U
        /\ \A s \in DOMAIN U : s # 1 => U[s] = T[s] /\ s \in 2 .. n - 1
    <2>1. /\ U \in Seq(Tables) /\ Len(U) = n - 1 /\ n > 1
          /\ \A s \in 2 .. n - 1 : U[s] = T[s]
      BY DEF Left
    <2>2. DOMAIN U = 1 .. n - 1
      BY <2>1
    <2> HIDE DEF n
    <2> QED
      BY <2>1, <2>2, <1>1
  <1>6. /\ \A s \in DOMAIN U : s # 1 => \A y \in DOMAIN T[s] : M[T[s][y]] = L[T[s][y]]
        /\ DOMAIN U[1] = DOMAIN T[1] \cup G
        /\ \A y \in DOMAIN T[1] : U[1][y] = T[1][y]
        /\ \A y \in DOMAIN T[1] : y \notin G => M[T[1][y]] = L[T[1][y]]
        /\ \A y \in DOMAIN T[1] : y \in G =>
             /\ M[T[1][y]].value = L[T[n][y]].value
             /\ M[T[1][y]].local = L[T[1][y]].local
        /\ \A y \in G : y \notin DOMAIN T[1] => U[1][y] = T[n][y] /\ M[T[n][y]] = L[T[n][y]]
    <2>1. \A s \in DOMAIN U : s # 1 => \A y \in DOMAIN T[s] : M[T[s][y]] = L[T[s][y]]
      BY <1>5 DEF Left
    <2>2. \A y \in DOMAIN T[1] : y \in G =>
             M[T[1][y]] = Object(y, L[T[n][y]].value, L[T[1][y]].local)
      BY DEF Left
    <2>3. \A y \in DOMAIN T[1] : y \in G =>
             /\ M[T[1][y]].value = L[T[n][y]].value
             /\ M[T[1][y]].local = L[T[1][y]].local
      <3>1. \A y, v, loc : Object(y, v, loc).value = v /\ Object(y, v, loc).local = loc
        BY DEF Object
      <3> QED
        BY <2>2, <3>1
    <2> QED
      BY <2>1, <2>3 DEF Left
  <1>7. \A s \in DOMAIN U : Home(V, s) = Home(S, s)
    <2>1. \A s \in DOMAIN U : s # 1 => s - 1 \in DOMAIN V
      BY <1>1, <1>3, <1>5
    <2> QED
      BY <2>1, <1>3 DEF Home
  <1>8. \A s \in DOMAIN U : s # 1 => \A p : Lies(V, p, s) <=> Lies(S, p, s)
    <2>1. \A s \in DOMAIN U : s # 1 => s - 1 \in DOMAIN V
      BY <1>1, <1>3, <1>5
    <2> QED
      BY <2>1, <1>3 DEF Lies
  <1>9. \A p : Lies(V, p, 1) => Lies(S, p, 1) \/ (Lies(S, p, n) /\ p = Home(S, n))
    <2>1. n # 1
      BY <1>1
    <2> QED
      BY <2>1, <1>3, <1>4 DEF Lies, Home
  <1>10. \A y \in Names : ~LocalIn(P, y, 0)
    BY DEF Scoped, Within, LocalIn
  <1>11. \A y \in DOMAIN T[1] : ~L[T[1][y]].local
    <2>1. Home(S, 1) = 0
      BY DEF Home
    <2>2. \A y \in DOMAIN T[1] : y \in Names
      BY <1>1, TableEntry DEF Shape
    <2> QED
      BY <2>1, <2>2, <1>1, <1>10 DEF Scoped, Flags
  <1>12. \A y \in G : y \in DOMAIN T[n] /\ ~L[T[n][y]].local
    BY DEF Moves
  <1>13. \A y \in DOMAIN U[1] : ~M[U[1][y]].local
    BY <1>6, <1>11, <1>12
  <1>14. \A y \in DOMAIN T[n] : L[T[n][y]].local => Has(L, T[n][y])
    OBVIOUS
  <1>15. \A y \in DOMAIN T[n] : L[T[n][y]].local <=> y \notin G
    BY DEF Moves
  <1>16. \A y \in G : y \in DOMAIN T[1] => ~Has(L, T[1][y])
    OBVIOUS
  <1>17. Labels(P) \subseteq DOMAIN P /\ \A j \in Labels(P) : P[j].name \in Names
    BY DEF Labels, Shape
  <1> HIDE DEF G, n
  \* A label that was in the last table, and is not local, is in the first.
  <1>18. ASSUME NEW j \in Labels(P), ~Private(P, j), Lies(S, In(P, j), n), In(P, j) = Home(S, n)
         PROVE  P[j].name \in G /\ Has(L, T[n][P[j].name])
    <2>1. P[j].name \in DOMAIN T[n] /\ Has(L, T[n][P[j].name])
      BY <1>1, <1>18 DEF Scoped, Declared
    <2>2. n # 1
      BY <1>1 DEF n
    <2>3. ~LocalIn(P, P[j].name, Home(S, n))
      BY <2>2, <1>1, <1>18 DEF Private
    <2>4. ~L[T[n][P[j].name]].local
      BY <2>1, <2>3, <1>1, <1>17 DEF Scoped, Flags
    <2> QED
      BY <2>1, <2>4, <1>15
  \* A label of the first table is not one of them.
  <1>19. ASSUME NEW j \in Labels(P), ~Private(P, j), Lies(S, In(P, j), 1)
         PROVE  P[j].name \in DOMAIN T[1] /\ P[j].name \notin G /\ Has(L, T[1][P[j].name])
    BY <1>1, <1>16, <1>19 DEF Scoped, Declared
  <1>20. Opening(M, U, V, P) /\ Within(P)
    BY DEF Opening, Scoped
  <1>21. Unshared(U)
    <2>1. \A s \in DOMAIN U : \A y \in DOMAIN U[s] :
            \/ y \in DOMAIN T[s] /\ U[s][y] = T[s][y]
            \/ s = 1 /\ y \in DOMAIN T[n] /\ U[s][y] = T[n][y]
      BY <1>5, <1>6, <1>12
    <2>2. \A s, t \in DOMAIN T : \A x \in DOMAIN T[s], y \in DOMAIN T[t] : T[s][x] = T[t][y] => s = t
      BY DEF Scoped, Unshared
    <2> SUFFICES ASSUME NEW s \in DOMAIN U, NEW t \in DOMAIN U, NEW x \in DOMAIN U[s],
                        NEW y \in DOMAIN U[t], U[s][x] = U[t][y]
                 PROVE  s = t
      BY DEF Unshared
    <2>3. s \in DOMAIN T /\ t \in DOMAIN T /\ s # n /\ t # n
      BY <1>5
    <2> QED
      BY <2>1, <2>2, <2>3, <1>1
  <1>22. Flags(M, U, V, P)
    <2> SUFFICES ASSUME NEW s \in DOMAIN U, NEW y \in Names
                 PROVE  LocalIn(P, y, Home(S, s)) <=> (y \in DOMAIN U[s] /\ M[U[s][y]].local)
      BY <1>7 DEF Flags
    <2>1. CASE s = 1
      BY <2>1, <1>10, <1>13 DEF Home
    <2>2. CASE s # 1
      BY <2>2, <1>5, <1>6 DEF Scoped, Flags
    <2> QED
      BY <2>1, <2>2
  <1>23. Declared(M, U, V, P)
    <2> SUFFICES ASSUME NEW j \in Labels(P), NEW s \in DOMAIN U,
                        Lies(V, In(P, j), s), s # 1 \/ ~Private(P, j)
                 PROVE  P[j].name \in DOMAIN U[s] /\ Has(M, U[s][P[j].name])
      BY DEF Declared
    <2>1. CASE s # 1
      <3>1. Lies(S, In(P, j), s) /\ s \in DOMAIN T /\ U[s] = T[s]
        BY <2>1, <1>5, <1>8
      <3>2. P[j].name \in DOMAIN T[s] /\ Has(L, T[s][P[j].name])
        BY <2>1, <3>1 DEF Scoped, Declared
      <3> QED
        BY <2>1, <3>1, <3>2, <1>6 DEF Has
    <2>2. CASE s = 1
      <3>1. CASE Lies(S, In(P, j), 1)
        BY <2>2, <3>1, <1>6, <1>19 DEF Has
      <3>2. CASE Lies(S, In(P, j), n) /\ In(P, j) = Home(S, n)
        <4>1. P[j].name \in G /\ Has(L, T[n][P[j].name])
          BY <2>2, <3>2, <1>18
        <4> QED
          BY <2>2, <4>1, <1>6 DEF Has
      <3> QED
        BY <2>2, <3>1, <3>2, <1>9
    <2> QED
      BY <2>1, <2>2
  <1>24. Once(U, V, P)
    <2> SUFFICES ASSUME NEW j \in Labels(P), NEW k \in Labels(P), j # k, P[j].name = P[k].name
                 PROVE  /\ \A s \in DOMAIN U :
                             Lies(V, In(P, j), s) /\ Lies(V, In(P, k), s) =>
                               s = 1 /\ (Private(P, j) \/ Private(P, k))
                        /\ In(P, j) = In(P, k) => ~Private(P, j)
      BY DEF Once
    <2>1. /\ \A s \in DOMAIN T :
               Lies(S, In(P, j), s) /\ Lies(S, In(P, k), s) =>
                 s = 1 /\ (Private(P, j) \/ Private(P, k))
          /\ In(P, j) = In(P, k) => ~Private(P, j)
      BY DEF Scoped, Once
    <2>2. ASSUME NEW s \in DOMAIN U, Lies(V, In(P, j), s), Lies(V, In(P, k), s), s # 1 PROVE FALSE
      BY <2>1, <2>2, <1>5, <1>8
    <2>3. ASSUME Lies(V, In(P, j), 1), Lies(V, In(P, k), 1), ~Private(P, j), ~Private(P, k)
          PROVE  FALSE
      <3>1. CASE Lies(S, In(P, j), 1) /\ Lies(S, In(P, k), 1)
        BY <3>1, <2>1, <2>3, <1>1
      <3>2. CASE Lies(S, In(P, j), n) /\ Lies(S, In(P, k), n)
        <4>1. n # 1
          BY <1>1 DEF n
        <4> QED
          BY <4>1, <3>2, <2>1, <2>3, <1>1
      <3>3. CASE Lies(S, In(P, j), 1) /\ Lies(S, In(P, k), n) /\ In(P, k) = Home(S, n)
        BY <3>3, <2>3, <1>18, <1>19
      <3>4. CASE Lies(S, In(P, k), 1) /\ Lies(S, In(P, j), n) /\ In(P, j) = Home(S, n)
        BY <3>4, <2>3, <1>18, <1>19
      <3> QED
        BY <2>3, <3>1, <3>2, <3>3, <3>4, <1>9
    <2> QED
      BY <2>1, <2>2, <2>3
  <1>25. Backed(M, U, V, P)
    <2> SUFFICES ASSUME NEW s \in DOMAIN U, NEW y \in DOMAIN U[s], M[U[s][y]].local, Has(M, U[s][y])
                 PROVE  \E j \in Labels(P) :
                          P[j].name = y /\ In(P, j) = Home(S, s) /\ P[j].at = M[U[s][y]].value
      BY <1>7 DEF Backed
    <2>1. s # 1
      BY <1>13
    <2>2. /\ s \in DOMAIN T /\ y \in DOMAIN T[s] /\ L[T[s][y]].local /\ Has(L, T[s][y])
          /\ M[U[s][y]].value = L[T[s][y]].value
      BY <2>1, <1>5, <1>6 DEF Has
    <2> QED
      BY <2>2 DEF Scoped, Backed
  <1>26. Finished(V, P)
    <2> SUFFICES ASSUME NEW j \in DOMAIN P, P[j].is = "LOCAL", \A i \in DOMAIN V : V[i] # In(P, j)
                 PROVE  \E k \in Labels(P) : P[k].name = P[j].name /\ In(P, k) = In(P, j)
      BY DEF Finished
    <2>1. CASE Lies(S, In(P, j), 1)
      <3>1. \A i \in DOMAIN S : S[i] # In(P, j)
        BY <2>1 DEF Lies
      <3> QED
        BY <3>1 DEF Scoped, Finished
    <2>2. CASE In(P, j) = Home(S, n)
      <3>1. LocalIn(P, P[j].name, Home(S, n)) /\ P[j].name \in Names
        BY <2>2 DEF LocalIn, Shape
      <3>2. P[j].name \in DOMAIN T[n] /\ L[T[n][P[j].name]].local
        BY <3>1, <1>1 DEF Scoped, Flags
      <3>3. Has(L, T[n][P[j].name])
        BY <3>2, <1>14
      <3> QED
        BY <2>2, <3>2, <3>3, <1>1 DEF Scoped, Backed
    <2>3. Lies(V, In(P, j), 1)
      BY DEF Lies
    <2> QED
      BY <2>1, <2>2, <2>3, <1>9
  <1> QED
    BY <1>20, <1>21, <1>22, <1>23, <1>24, <1>25, <1>26 DEF Scoped, V

-----------------------------------------------------------------------------
(* What exit_proc does.                                                    *)

\* The objects that go to the first table are those of the names that move.
LEMMA WhatGoes ==
  ASSUME NEW P, Shape(labels, local_labels, scopes, P)
  PROVE  /\ \A id \in Transferred :
              /\ id \in DOMAIN labels /\ labels[id].name \in Moves(labels, local_labels)
              /\ id = local_labels[Top][labels[id].name]
         /\ UndefinedLocals = {} =>
              /\ \A y \in Moves(labels, local_labels) :
                   local_labels[Top][y] \in Transferred /\ labels[local_labels[Top][y]].name = y
              /\ \A y \in DOMAIN local_labels[Top] :
                   labels[local_labels[Top][y]].local => Has(labels, local_labels[Top][y])
         /\ \A id \in Merged : id \in Transferred /\ labels[id].name \in DOMAIN local_labels[1]
  <1>1. Top \in DOMAIN local_labels
    <2>1. Len(local_labels) \in Nat /\ Len(local_labels) > 0 /\ DOMAIN local_labels = 1 .. Len(local_labels)
      BY InnermostHome
    <2> QED
      BY <2>1 DEF Top
  <1>2. \A y \in DOMAIN local_labels[Top] :
          local_labels[Top][y] \in DOMAIN labels /\ labels[local_labels[Top][y]].name = y
    BY <1>1 DEF Shape
  <1>3. ASSUME NEW id \in Transferred
        PROVE  /\ id \in DOMAIN labels /\ labels[id].name \in Moves(labels, local_labels)
               /\ id = local_labels[Top][labels[id].name]
    <2>1. id \in Going /\ ~labels[id].local
      BY DEF Transferred
    <2>2. PICK y \in DOMAIN local_labels[Top] : id = local_labels[Top][y]
      BY <2>1 DEF Going
    <2> QED
      BY <2>1, <2>2, <1>2 DEF Moves, Top
  <1>4. ASSUME UndefinedLocals = {}, NEW y \in Moves(labels, local_labels)
        PROVE  local_labels[Top][y] \in Transferred /\ labels[local_labels[Top][y]].name = y
    <2>1. y \in DOMAIN local_labels[Top] /\ ~labels[local_labels[Top][y]].local
      BY DEF Moves, Top
    <2> QED
      BY <2>1, <1>2, <1>4 DEF Transferred, Going
  <1>5. ASSUME UndefinedLocals = {}, NEW y \in DOMAIN local_labels[Top],
               labels[local_labels[Top][y]].local
        PROVE  Has(labels, local_labels[Top][y])
    <2>1. local_labels[Top][y] \in Going
      BY DEF Going
    <2> QED
      BY <2>1, <1>5 DEF UndefinedLocals, Defined, Has
  <1> QED
    BY <1>3, <1>4, <1>5 DEF Merged

\* The first table afterwards.
LEMMA GlobalsTable ==
  ASSUME NEW P, Shape(labels, local_labels, scopes, P)
  PROVE  /\ Globals \in Tables
         /\ DOMAIN local_labels[1] \subseteq DOMAIN Globals
         /\ \A y \in DOMAIN local_labels[1] : Globals[y] = local_labels[1][y]
         /\ \A y \in DOMAIN Globals : y \notin DOMAIN local_labels[1] =>
              Globals[y] \in Transferred /\ labels[Globals[y]].name = y
         /\ \A id \in Transferred : labels[id].name \in DOMAIN Globals
         /\ \A y \in DOMAIN Globals : Globals[y] \in DOMAIN labels /\ labels[Globals[y]].name = y
  <1> DEFINE g == local_labels[1]
             old == DOMAIN g
             all == old \cup {labels[id].name : id \in Transferred}
  <1>1. g \in Tables /\ old \subseteq Names
    <2>1. 1 \in DOMAIN local_labels
      <3>1. Len(local_labels) \in Nat /\ Len(local_labels) > 0
            /\ DOMAIN local_labels = 1 .. Len(local_labels)
        BY InnermostHome
      <3> QED
        BY <3>1
    <2>2. g \in Tables
      BY <2>1 DEF Shape
    <2> QED
      BY <2>2, TableEntry
  <1>2. \A y \in old : g[y] \in DOMAIN labels /\ labels[g[y]].name = y
    <2>1. 1 \in DOMAIN local_labels
      <3>1. Len(local_labels) \in Nat /\ Len(local_labels) > 0
            /\ DOMAIN local_labels = 1 .. Len(local_labels)
        BY InnermostHome
      <3> QED
        BY <3>1
    <2> QED
      BY <2>1 DEF Shape
  <1>3. \A id \in Transferred : id \in DOMAIN labels /\ labels[id].name \in Names
    <2>1. Top \in DOMAIN local_labels
      <3>1. Len(local_labels) \in Nat /\ Len(local_labels) > 0
            /\ DOMAIN local_labels = 1 .. Len(local_labels)
        BY InnermostHome
      <3> QED
        BY <3>1 DEF Top
    <2>2. local_labels[Top] \in Tables
      BY <2>1 DEF Shape
    <2>3. \A y \in Moves(labels, local_labels) : y \in DOMAIN local_labels[Top]
      BY DEF Moves, Top
    <2> QED
      BY <2>2, <2>3, WhatGoes, TableEntry
  <1>4. /\ DOMAIN Globals = all
        /\ \A y \in all : Globals[y] = IF y \in old THEN g[y]
                                       ELSE CHOOSE id \in Transferred : labels[id].name = y
    BY DEF Globals
  <1>5. ASSUME NEW y \in all, y \notin old
        PROVE  Globals[y] \in Transferred /\ labels[Globals[y]].name = y
    <2>1. \E id \in Transferred : labels[id].name = y
      BY <1>5
    <2> QED
      BY <2>1, <1>4, <1>5
  <1>6. \A y \in all : Globals[y] \in DOMAIN labels /\ labels[Globals[y]].name = y
    BY <1>2, <1>3, <1>4, <1>5
  <1>7. Globals \in Tables
    <2>1. DOMAIN labels \subseteq Nat
      BY DEF Shape
    <2>2. all \in SUBSET Names
      BY <1>1, <1>3
    <2>3. Globals \in [all -> Nat]
      <3>1. \A y \in all : Globals[y] \in Nat
        BY <2>1, <1>6
      <3>2. Globals = [y \in all |-> Globals[y]]
        BY DEF Globals
      <3> QED
        BY <3>1, <3>2
    <2> QED
      BY <2>2, <2>3 DEF Tables
  <1> QED
    BY <1>4, <1>5, <1>6, <1>7

\* A scope less, or as many if a LOCAL label has no value.
LEMMA ExitShape ==
  ASSUME NEW P, Shape(labels, local_labels, scopes, P), exit_proc
  PROVE  Shape(labels', local_labels', scopes', P)
  <1> DEFINE open == IF UndefinedLocals = {} THEN Top - 1 ELSE Top
             cut == SubSeq(local_labels, 1, open)
  <1>1. /\ Top > 1 /\ Top \in Nat /\ DOMAIN local_labels = 1 .. Top /\ Top = Len(scopes) + 1
        /\ Len(scopes) \in Nat /\ DOMAIN scopes = 1 .. Len(scopes)
        /\ labels \in Seq(Objects) /\ local_labels \in Seq(Tables) /\ scopes \in Seq(Nat)
        /\ Len(local_labels) = Top
    BY DEF exit_proc, Top, Shape
  <1>2. /\ local_labels' = [cut EXCEPT ![1] = Globals]
        /\ scopes' = SubSeq(scopes, 1, open - 1)
    BY DEF exit_proc
  <1>3. open \in 1 .. Top /\ open \in 0 .. Len(local_labels) /\ open - 1 \in 0 .. Len(scopes)
        /\ open \in Nat
    BY <1>1
  <1> HIDE DEF open
  <1>4. /\ cut \in Seq(Tables) /\ Len(cut) = open
        /\ \A i \in 1 .. open : cut[i] = local_labels[i]
    BY ONLY <1>1, <1>3, Shortened
  <1>5. /\ scopes' \in Seq(Nat) /\ Len(scopes') = open - 1
        /\ \A i \in 1 .. open - 1 : scopes'[i] = scopes[i]
    BY ONLY <1>1, <1>2, <1>3, Shortened
  <1> HIDE DEF cut
  <1>6. /\ Globals \in Tables
        /\ \A y \in DOMAIN Globals : Globals[y] \in DOMAIN labels /\ labels[Globals[y]].name = y
    BY GlobalsTable
  <1>7. /\ local_labels' \in Seq(Tables) /\ Len(local_labels') = open
        /\ DOMAIN local_labels' = 1 .. open
        /\ local_labels'[1] = Globals
        /\ \A s \in 1 .. open : s # 1 => local_labels'[s] = local_labels[s]
    <2>1. DOMAIN cut = 1 .. open /\ 1 \in DOMAIN cut
      BY <1>3, <1>4
    <2> QED
      BY <2>1, <1>2, <1>4, <1>6
  <1>8. /\ labels' \in Seq(Objects) /\ DOMAIN labels' = DOMAIN labels
        /\ \A id \in DOMAIN labels : labels'[id].name = labels[id].name
    <2> DEFINE source(k) == CHOOSE id \in Merged : GlobalObject(id) = k
               new(k) == IF \E id \in Merged : GlobalObject(id) = k
                         THEN [labels[k] EXCEPT !.value = labels[source(k)].value]
                         ELSE labels[k]
    <2>1. labels' = [k \in DOMAIN labels |-> new(k)]
      BY DEF exit_proc
    <2>2. \A k \in DOMAIN labels : labels[k] \in Objects
      BY <1>1
    <2>3. \A id \in Merged : id \in DOMAIN labels
      BY WhatGoes
    <2>4. ASSUME NEW k \in DOMAIN labels PROVE new(k) \in Objects /\ new(k).name = labels[k].name
      <3>1. CASE \E id \in Merged : GlobalObject(id) = k
        <4>1. source(k) \in DOMAIN labels
          BY <3>1, <2>3
        <4>2. PICK v \in Nat \cup {Undefined} : v = labels[source(k)].value
          BY <4>1, <2>2 DEF Objects
        <4>3. new(k) = [labels[k] EXCEPT !.value = v]
          BY <3>1, <4>2
        <4>4. PICK o \in Objects : o = labels[k]
          BY <2>2
        <4>5. [o EXCEPT !.value = v] \in Objects /\ [o EXCEPT !.value = v].name = o.name
          BY DEF Objects
        <4> QED
          BY <4>3, <4>4, <4>5
      <3>2. CASE ~(\E id \in Merged : GlobalObject(id) = k)
        BY <3>2, <2>2
      <3> QED
        BY <3>1, <3>2
    <2> HIDE DEF new
    <2>5. DOMAIN labels = 1 .. Len(labels) /\ Len(labels) \in Nat
      BY <1>1
    <2>6. labels' \in [1 .. Len(labels) -> Objects]
      BY <2>1, <2>4, <2>5
    <2>7. labels' \in Seq(Objects)
      BY <2>5, <2>6, SeqDef
    <2> QED
      BY <2>1, <2>4, <2>7
  <1>9. ASSUME NEW s \in DOMAIN local_labels', NEW x \in DOMAIN local_labels'[s]
        PROVE  /\ local_labels'[s][x] \in DOMAIN labels'
               /\ labels'[local_labels'[s][x]].name = x
    <2>1. CASE s = 1
      BY <2>1, <1>6, <1>7, <1>8
    <2>2. CASE s # 1
      <3>1. s \in DOMAIN local_labels /\ local_labels'[s] = local_labels[s]
        BY <2>2, <1>1, <1>3, <1>7
      <3>2. local_labels[s][x] \in DOMAIN labels /\ labels[local_labels[s][x]].name = x
        BY <3>1 DEF Shape
      <3> QED
        BY <3>1, <3>2, <1>8
    <2> QED
      BY <2>1, <2>2
  <1>10. /\ \A i \in DOMAIN scopes' : i \in DOMAIN scopes /\ scopes'[i] = scopes[i]
         /\ Len(local_labels') = Len(scopes') + 1
    BY <1>1, <1>3, <1>5, <1>7
  <1>11. /\ \A i \in DOMAIN scopes' : scopes'[i] \in 1 .. Len(P)
         /\ \A i, k \in DOMAIN scopes' : scopes'[i] = scopes'[k] => i = k
    BY <1>10 DEF Shape
  <1>12. /\ P \in Seq(Source)
         /\ \A j \in DOMAIN P : /\ In(P, j) \in 0 .. j - 1
                                /\ P[j].is \in {"label", "LOCAL"} => P[j].name \in Names
    BY DEF Shape
  <1> QED
    BY <1>5, <1>7, <1>8, <1>9, <1>10, <1>11, <1>12 DEF Shape

\* Without an error the tables are left as Left says.
LEMMA ExitLeft ==
  ASSUME NEW P, Shape(labels, local_labels, scopes, P), exit_proc,
         Unshared(local_labels), errors' = NoError
  PROVE  /\ Left(labels, local_labels, labels', local_labels')
         /\ scopes' = SubSeq(scopes, 1, Len(scopes) - 1)
         /\ UndefinedLocals = {}
         /\ \A y \in Moves(labels, local_labels) \cap DOMAIN local_labels[1] :
              ~Has(labels, local_labels[1][y])
  <1> DEFINE T == local_labels
             n == Len(local_labels)
             G == Moves(labels, local_labels)
  <1>1. UndefinedLocals = {} /\ ~(\E id \in Merged : Defined(GlobalObject(id)))
    BY DEF exit_proc, NoError
  <1>2. /\ n > 1 /\ n \in Nat /\ DOMAIN T = 1 .. n /\ n = Len(scopes) + 1 /\ Top = n
        /\ Len(scopes) \in Nat /\ T \in Seq(Tables)
    BY DEF exit_proc, Top, Shape
  <1>3. /\ local_labels' = [SubSeq(T, 1, n - 1) EXCEPT ![1] = Globals]
        /\ scopes' = SubSeq(scopes, 1, n - 1 - 1)
    BY <1>1, <1>2 DEF exit_proc
  <1>4. n - 1 - 1 = Len(scopes) - 1 /\ n - 1 \in 0 .. Len(T) /\ n - 1 >= 1
    BY <1>2
  <1>5. 1 \in DOMAIN T /\ n \in DOMAIN T /\ n # 1
    BY <1>2
  <1> HIDE DEF n
  <1>6. /\ SubSeq(T, 1, n - 1) \in Seq(Tables) /\ Len(SubSeq(T, 1, n - 1)) = n - 1
        /\ \A i \in 1 .. n - 1 : SubSeq(T, 1, n - 1)[i] = T[i]
    BY ONLY <1>2, <1>4, Shortened
  <1>7. /\ Globals \in Tables
        /\ DOMAIN T[1] \subseteq DOMAIN Globals
        /\ \A y \in DOMAIN T[1] : Globals[y] = T[1][y]
        /\ \A y \in DOMAIN Globals : y \notin DOMAIN T[1] =>
             Globals[y] \in Transferred /\ labels[Globals[y]].name = y
        /\ \A id \in Transferred : labels[id].name \in DOMAIN Globals
    BY GlobalsTable
  <1>8. /\ local_labels' \in Seq(Tables) /\ Len(local_labels') = n - 1
        /\ local_labels'[1] = Globals
        /\ \A s \in 2 .. n - 1 : local_labels'[s] = T[s]
    <2> DEFINE cut == SubSeq(T, 1, n - 1)
    <2>1. /\ cut \in Seq(Tables) /\ Len(cut) = n - 1 /\ local_labels' = [cut EXCEPT ![1] = Globals]
          /\ \A i \in 1 .. n - 1 : cut[i] = T[i]
      BY <1>3, <1>6
    <2> HIDE DEF cut
    <2>2. DOMAIN cut = 1 .. n - 1 /\ 1 \in DOMAIN cut
      BY <2>1, <1>2, <1>4
    <2>3. local_labels' \in Seq(Tables) /\ Len(local_labels') = n - 1
      BY <2>1, <2>2, <1>7
    <2>4. local_labels'[1] = Globals
      BY <2>1, <2>2
    <2>5. \A s \in 2 .. n - 1 : local_labels'[s] = T[s]
      BY <2>1, <2>2, <1>2
    <2> QED
      BY <2>3, <2>4, <2>5
  <1>9. \A id \in Transferred :
          id \in DOMAIN labels /\ labels[id].name \in G /\ id = T[n][labels[id].name]
    BY <1>2, WhatGoes
  <1>10. \A y \in G : T[n][y] \in Transferred /\ labels[T[n][y]].name = y
    BY <1>1, <1>2, WhatGoes
  <1>11. \A y \in G : y \in DOMAIN T[n]
    BY DEF Moves, n
  <1>12. \A s \in DOMAIN T : \A y \in DOMAIN T[s] :
           T[s][y] \in DOMAIN labels /\ labels[T[s][y]].name = y
    BY DEF Shape
  <1>13. \A s, t \in DOMAIN T : \A x \in DOMAIN T[s], y \in DOMAIN T[t] : T[s][x] = T[t][y] => s = t
    BY DEF Unshared
  <1>14. DOMAIN Globals = DOMAIN T[1] \cup G
    <2>1. ASSUME NEW y \in G PROVE y \in DOMAIN Globals
      BY <2>1, <1>7, <1>10
    <2>2. ASSUME NEW y \in DOMAIN Globals, y \notin DOMAIN T[1] PROVE y \in G
      BY <2>2, <1>7, <1>9
    <2> QED
      BY <2>1, <2>2, <1>7
  <1>15. \A y \in G : y \notin DOMAIN T[1] => Globals[y] = T[n][y]
    BY <1>7, <1>9, <1>14
  \* The objects merged are those whose names are in both tables.
  <1>16. \A id \in Merged : /\ id = T[n][labels[id].name]
                            /\ labels[id].name \in G /\ labels[id].name \in DOMAIN T[1]
                            /\ GlobalObject(id) = T[1][labels[id].name]
    BY <1>9 DEF Merged, GlobalObject
  <1>17. \A y \in G : y \in DOMAIN T[1] =>
           /\ T[n][y] \in Merged /\ GlobalObject(T[n][y]) = T[1][y]
    BY <1>10 DEF Merged, GlobalObject
  <1>18. ASSUME NEW y \in G, y \in DOMAIN T[1] PROVE ~Has(labels, T[1][y])
    BY <1>1, <1>17, <1>18 DEF Defined, Has
  \* What becomes of an object.
  <1>19. \A k \in DOMAIN labels :
           labels'[k] = IF \E id \in Merged : GlobalObject(id) = k
                        THEN [labels[k] EXCEPT !.value =
                                labels[CHOOSE id \in Merged : GlobalObject(id) = k].value]
                        ELSE labels[k]
    BY DEF exit_proc
  <1>20. ASSUME NEW k \in DOMAIN labels, \A y \in G : y \in DOMAIN T[1] => k # T[1][y]
         PROVE  labels'[k] = labels[k]
    <2>1. ~(\E id \in Merged : GlobalObject(id) = k)
      BY <1>16, <1>20
    <2> QED
      BY <2>1, <1>19
  <1>21. ASSUME NEW y \in G, y \in DOMAIN T[1]
         PROVE  labels'[T[1][y]] = Object(y, labels[T[n][y]].value, labels[T[1][y]].local)
    <2> DEFINE k == T[1][y]
               c == CHOOSE id \in Merged : GlobalObject(id) = k
    <2>1. k \in DOMAIN labels /\ labels[k].name = y /\ labels[k] \in Objects
      <3>1. k \in DOMAIN labels /\ labels[k].name = y
        BY <1>5, <1>12, <1>21
      <3>2. labels \in Seq(Objects)
        BY DEF Shape
      <3> HIDE DEF k
      <3> QED
        BY <3>1, <3>2
    <2>2. T[n][y] \in Merged /\ GlobalObject(T[n][y]) = k
      BY <1>17, <1>21
    <2>3. c \in Merged /\ GlobalObject(c) = k
      BY <2>2
    <2>4. labels'[k] = [labels[k] EXCEPT !.value = labels[c].value]
      BY <2>1, <2>2, <1>19
    <2> HIDE DEF c
    <2>5. T[1][labels[c].name] = T[1][y]
      BY <2>3, <1>16
    <2>6. labels[c].name = y
      <3>1. labels[c].name \in DOMAIN T[1]
        BY <2>3, <1>16
      <3>2. labels[T[1][labels[c].name]].name = labels[c].name
        BY <3>1, <1>5, <1>12
      <3> QED
        BY <3>2, <2>1, <2>5
    <2>7. c = T[n][y]
      BY <2>3, <2>6, <1>16
    <2> HIDE DEF k
    <2>8. PICK o \in Objects : o = labels[k]
      BY <2>1
    <2>9. \A v : [o EXCEPT !.value = v] = Object(o.name, v, o.local)
      BY DEF Objects, Object
    <2>10. labels'[k] = Object(y, labels[T[n][y]].value, labels[k].local)
      BY <2>1, <2>4, <2>7, <2>8, <2>9
    <2> QED
      BY <2>10 DEF k
  <1>22. ASSUME NEW s \in 2 .. n - 1, NEW y \in DOMAIN T[s] PROVE labels'[T[s][y]] = labels[T[s][y]]
    <2>1. s \in DOMAIN T /\ s # 1
      BY <1>2
    <2>2. \A z \in G : z \in DOMAIN T[1] => T[s][y] # T[1][z]
      BY <2>1, <1>5, <1>13
    <2> QED
      BY <2>1, <2>2, <1>12, <1>20
  <1>23. ASSUME NEW y \in DOMAIN T[1], y \notin G PROVE labels'[T[1][y]] = labels[T[1][y]]
    <2>1. \A z \in G : z \in DOMAIN T[1] => T[1][y] # T[1][z]
      BY <1>5, <1>12, <1>23
    <2> QED
      BY <2>1, <1>5, <1>12, <1>20
  <1>24. ASSUME NEW y \in G, y \notin DOMAIN T[1] PROVE labels'[T[n][y]] = labels[T[n][y]]
    <2>1. \A z \in G : z \in DOMAIN T[1] => T[n][y] # T[1][z]
      BY <1>5, <1>11, <1>13
    <2> QED
      BY <2>1, <1>5, <1>11, <1>12, <1>20
  <1>25. DOMAIN labels' = DOMAIN labels
    BY DEF exit_proc
  <1> HIDE DEF G
  <1>26. Left(labels, local_labels, labels', local_labels')
    BY <1>7, <1>8, <1>14, <1>15, <1>20, <1>21, <1>22, <1>23, <1>24, <1>25 DEF Left, n, G
  <1> QED
    BY <1>1, <1>3, <1>4, <1>18, <1>26 DEF G

-----------------------------------------------------------------------------
(* The state: what is true before and after every action.                  *)

Typing ==
  /\ index \in Nat
  /\ Shape(labels, local_labels, scopes, prog)
  /\ DOMAIN orgs = DOMAIN memory_bytes
  /\ INITS \in Seq(Names) /\ called \in 0 .. Len(INITS)

\* A binary is made of a source without an error, with every PROC ended.
Ending == binary # NoBinary => errors = NoError /\ scopes = <<>>

\* Until an error is reported, the tables are what the text says.
Holding == errors = NoError /\ LocalsFirst(prog) => Scoped(labels, local_labels, scopes, prog)

IInv == Typing /\ Ending /\ Holding

Statement(k, x) == [is |-> k, name |-> x, at |-> index, path |-> scopes]

\* An object that is in no table changes nothing.
LEMMA Grown ==
  ASSUME NEW L, NEW T, NEW S, NEW P, NEW o \in Objects, Shape(L, T, S, P)
  PROVE  /\ Shape(Append(L, o), T, S, P)
         /\ Scoped(L, T, S, P) => Scoped(Append(L, o), T, S, P)
  <1> DEFINE M == Append(L, o)
  <1>1. /\ M \in Seq(Objects)
        /\ \A i \in DOMAIN L : i \in DOMAIN M /\ M[i] = L[i]
    BY Appended DEF Shape
  <1> HIDE DEF M
  <1>2. \A s \in DOMAIN T : \A x \in DOMAIN T[s] : T[s][x] \in DOMAIN L /\ L[T[s][x]].name = x
    BY DEF Shape
  <1>3. \A s \in DOMAIN T : \A x \in DOMAIN T[s] :
          T[s][x] \in DOMAIN M /\ M[T[s][x]] = L[T[s][x]]
    BY <1>1, <1>2
  <1>4. \A s \in DOMAIN T : \A x \in DOMAIN T[s] : T[s][x] \in DOMAIN M /\ M[T[s][x]].name = x
    BY <1>2, <1>3
  <1>5. Shape(M, T, S, P)
    BY <1>1, <1>4 DEF Shape
  <1>6. ASSUME Scoped(L, T, S, P) PROVE Scoped(M, T, S, P)
    <2>1. Within(P) /\ Unshared(T) /\ Once(T, S, P) /\ Finished(S, P)
      BY <1>6 DEF Scoped
    <2>2. Len(T) \in DOMAIN T
      <3>1. Len(T) \in Nat /\ Len(T) > 0 /\ DOMAIN T = 1 .. Len(T)
        BY InnermostHome
      <3> QED
        BY <3>1
    <2>3. Opening(M, T, S, P)
      BY <1>3, <1>6, <2>2 DEF Scoped, Opening
    <2>4. Flags(M, T, S, P)
      <3>1. \A s \in DOMAIN T, x \in Names :
              LocalIn(P, x, Home(S, s)) <=> (x \in DOMAIN T[s] /\ L[T[s][x]].local)
        BY <1>6 DEF Scoped, Flags
      <3> QED
        BY <1>3, <3>1 DEF Flags
    <2>5. Declared(M, T, S, P)
      <3>1. \A j \in Labels(P), s \in DOMAIN T :
              Lies(S, In(P, j), s) /\ (s # 1 \/ ~Private(P, j)) =>
                P[j].name \in DOMAIN T[s] /\ Has(L, T[s][P[j].name])
        BY <1>6 DEF Scoped, Declared
      <3> QED
        BY <1>3, <3>1 DEF Declared, Has
    <2>6. Backed(M, T, S, P)
      <3>1. \A s \in DOMAIN T : \A x \in DOMAIN T[s] :
              L[T[s][x]].local /\ Has(L, T[s][x]) =>
                \E j \in Labels(P) :
                  P[j].name = x /\ In(P, j) = Home(S, s) /\ P[j].at = L[T[s][x]].value
        BY <1>6 DEF Scoped, Backed
      <3> QED
        BY <1>3, <3>1 DEF Backed, Has
    <2> QED
      BY <2>1, <2>3, <2>4, <2>5, <2>6 DEF Scoped
  <1> QED
    BY <1>5, <1>6 DEF M

\* A statement is read: the source before it and behind it.
LEMMA ReadsLine ==
  ASSUME IInv, NEW k \in Kinds, NEW x \in Names \cup {Undefined}, Reads(k, x),
         k \in {"label", "LOCAL"} => x \in Names
  PROVE  /\ errors = NoError /\ binary = NoBinary
         /\ Extends(prog, Statement(k, x), prog')
         /\ Shape(labels, local_labels, scopes, prog')
         /\ LocalsFirst(prog') =>
              /\ Scoped(labels, local_labels, scopes, prog)
              /\ k = "LOCAL" => /\ scopes # <<>> /\ prog # <<>>
                                /\ prog[Len(prog)].is \in {"PROC", "LOCAL"}
              /\ k \notin {"label", "LOCAL", "PROC"} => Scoped(labels, local_labels, scopes, prog')
  <1> DEFINE e == Statement(k, x)
  <1>1. errors = NoError /\ binary = NoBinary /\ prog' = Append(prog, e)
    BY DEF Reads, Statement
  <1>2. Shape(labels, local_labels, scopes, prog)
    BY DEF IInv, Typing
  <1>3. e \in Source /\ e.path = scopes /\ e.is = k /\ e.name = x
    <2>1. index \in Nat /\ scopes \in Seq(Nat)
      BY DEF IInv, Typing, Shape
    <2> QED
      BY <2>1 DEF Source, Statement
  <1>4. prog \in Seq(Source)
    BY <1>2 DEF Shape
  <1> HIDE DEF e
  <1>5. Extends(prog, e, prog')
    BY <1>1, <1>3, <1>4, Read
  <1>6. Shape(labels, local_labels, scopes, prog')
    BY ONLY <1>2, <1>3, <1>5, ReadShape, k \in {"label", "LOCAL"} => x \in Names
  <1>7. ASSUME LocalsFirst(prog')
        PROVE  /\ Scoped(labels, local_labels, scopes, prog)
               /\ k = "LOCAL" => /\ scopes # <<>> /\ prog # <<>>
                                 /\ prog[Len(prog)].is \in {"PROC", "LOCAL"}
               /\ k \notin {"label", "LOCAL", "PROC"} => Scoped(labels, local_labels, scopes, prog')
    <2>1. /\ LocalsFirst(prog)
          /\ k = "LOCAL" => scopes # <<>> /\ prog # <<>> /\ prog[Len(prog)].is \in {"PROC", "LOCAL"}
      BY ONLY <1>3, <1>5, <1>7, LocalsFirstBefore
    <2>2. Scoped(labels, local_labels, scopes, prog)
      BY <1>1, <2>1 DEF IInv, Holding
    <2>3. ASSUME k \notin {"label", "LOCAL", "PROC"}
          PROVE  Scoped(labels, local_labels, scopes, prog')
      BY ONLY <1>2, <1>3, <1>5, <2>2, <2>3, ReadScoped
    <2> QED
      BY <2>1, <2>2, <2>3
  <1> QED
    BY <1>1, <1>5, <1>6, <1>7 DEF e

\* What an action has to keep, where no PROC ends and no binary is made.
LEMMA Unended ==
  ASSUME IInv, errors = NoError, binary = NoBinary, binary' = binary
  PROVE  Ending'
  BY DEF Ending

\* A cell more, and a place more.
LEMMA OneMore ==
  ASSUME IInv
  PROVE  /\ index + 1 \in Nat
         /\ \A v, w : DOMAIN With(orgs, index, v) = DOMAIN With(memory_bytes, index, w)
         /\ \A v, w : DOMAIN Slot(orgs, v) = DOMAIN Slot(memory_bytes, w)
  BY DEF IInv, Typing, With, Slot
-----------------------------------------------------------------------------
(* Every action keeps it.                                                  *)

\* At first there is one empty table.
LEMMA Begins == Init => IInv
  <1> SUFFICES ASSUME Init PROVE IInv
    OBVIOUS
  <1>1. Shape(labels, local_labels, scopes, prog)
    <2>1. /\ labels = <<>> /\ local_labels = << <<>> >> /\ scopes = <<>> /\ prog = <<>>
      BY DEF Init
    <2>2. local_labels \in Seq(Tables) /\ Len(local_labels) = 1
          /\ (\A s \in DOMAIN local_labels : local_labels[s] = <<>>)
      BY <2>1, EmptyTable
    <2> QED
      BY <2>1, <2>2 DEF Shape
  <1>2. Typing
    BY <1>1 DEF Init, Typing
  <1>3. Scoped(labels, local_labels, scopes, prog)
    <2>1. /\ labels = <<>> /\ local_labels = << <<>> >> /\ scopes = <<>> /\ prog = <<>>
      BY DEF Init
    <2>2. \A s \in DOMAIN local_labels : s = 1 /\ DOMAIN local_labels[s] = {}
      BY <2>1
    <2>3. DOMAIN prog = {} /\ Labels(prog) = {} /\ \A x, p : ~LocalIn(prog, x, p)
      BY <2>1 DEF Labels, LocalIn
    <2> QED
      BY <2>1, <2>2, <2>3 DEF Scoped, Within, Opening, Unshared, Flags, Declared, Once, Backed,
         Finished
  <1>4. Ending
    BY DEF Init, Ending
  <1> QED
    BY <1>2, <1>3, <1>4 DEF IInv, Holding

\* A statement that makes no object and neither opens nor closes a scope.
LEMMA PlainStatement ==
  ASSUME IInv, NEW k \in Kinds, Reads(k, Undefined) \/ (\E x \in Names : Reads(k, x)),
         k \notin {"label", "LOCAL", "PROC"},
         UNCHANGED <<labels, local_labels, scopes, errors, binary>>,
         index' \in Nat, DOMAIN orgs' = DOMAIN memory_bytes',
         INITS' \in Seq(Names), called' \in 0 .. Len(INITS')
  PROVE  IInv'
  <1>1. PICK x \in Names \cup {Undefined} : Reads(k, x)
    OBVIOUS
  <1>2. /\ errors = NoError /\ binary = NoBinary
        /\ Shape(labels, local_labels, scopes, prog')
        /\ LocalsFirst(prog') => Scoped(labels, local_labels, scopes, prog')
    BY <1>1, ReadsLine
  <1>3. Typing'
    BY <1>2 DEF Typing
  <1>4. Holding'
    BY <1>2 DEF Holding
  <1> QED
    BY <1>2, <1>3, <1>4, Unended DEF IInv

\* One lemma for each action.
LEMMA EnterKeeps == ASSUME IInv, enter_proc PROVE IInv'
  <1>1. /\ Reads("PROC", Undefined)
        /\ local_labels' = Append(local_labels, <<>>) /\ scopes' = Append(scopes, Len(prog'))
        /\ labels' = labels /\ errors' = errors /\ binary' = binary
    BY DEF enter_proc, Line, IInv, Typing, Shape, Reads, vars, memory, tables, starting
  <1>2. /\ errors = NoError /\ binary = NoBinary
        /\ Extends(prog, Statement("PROC", Undefined), prog')
        /\ Shape(labels, local_labels, scopes, prog')
        /\ LocalsFirst(prog') => Scoped(labels, local_labels, scopes, prog)
    <2>1. "PROC" \in Kinds /\ "PROC" \notin {"label", "LOCAL"}
      BY DEF Kinds
    <2>2. Undefined \in Names \cup {Undefined}
      OBVIOUS
    <2>3. "PROC" \in {"label", "LOCAL"} => Undefined \in Names
      BY <2>1
    <2>4. Reads("PROC", Undefined) /\ IInv
      BY <1>1
    <2> QED
      BY ONLY <2>1, <2>2, <2>3, <2>4, ReadsLine
  <1>3. Shape(labels, local_labels, scopes, prog)
    BY DEF IInv, Typing
  <1>4. Shape(labels', local_labels', scopes', prog')
    BY <1>1, <1>2, <1>3, ProcShape
  <1>5. ASSUME LocalsFirst(prog') PROVE Scoped(labels', local_labels', scopes', prog')
    <2>1. Statement("PROC", Undefined).is = "PROC" /\ Statement("PROC", Undefined).path = scopes
      BY DEF Statement
    <2> QED
      BY <1>1, <1>2, <1>3, <1>5, <2>1, ProcScoped
  <1>6. Typing'
    BY <1>4 DEF enter_proc, memory, starting, IInv, Typing
  <1> QED
    BY <1>1, <1>2, <1>5, <1>6, Unended DEF IInv, Holding

\* ENDP is read, and the tables left, when there is no error.
LEMMA ExitRead ==
  ASSUME IInv, exit_proc
  PROVE  /\ errors = NoError /\ binary = NoBinary
         /\ Extends(prog, Statement("ENDP", Undefined), prog')
         /\ Shape(labels, local_labels, scopes, prog')
         /\ LocalsFirst(prog') => Scoped(labels, local_labels, scopes, prog')
  <1>1. "ENDP" \in Kinds /\ "ENDP" \notin {"label", "LOCAL", "PROC"}
    BY DEF Kinds
  <1>2. Undefined \in Names \cup {Undefined}
    OBVIOUS
  <1>3. "ENDP" \in {"label", "LOCAL"} => Undefined \in Names
    BY <1>1
  <1>4. Reads("ENDP", Undefined) /\ IInv
    BY DEF exit_proc
  <1> QED
    BY ONLY <1>1, <1>2, <1>3, <1>4, ReadsLine

LEMMA ExitLeaves ==
  ASSUME IInv, exit_proc, errors' = NoError, LocalsFirst(prog')
  PROVE  /\ Left(labels, local_labels, labels', local_labels') /\ Len(local_labels) > 1
         /\ scopes' = SubSeq(scopes, 1, Len(scopes) - 1)
         /\ \A y \in DOMAIN local_labels[Len(local_labels)] :
              labels[local_labels[Len(local_labels)][y]].local =>
                Has(labels, local_labels[Len(local_labels)][y])
         /\ \A y \in Moves(labels, local_labels) \cap DOMAIN local_labels[1] :
              ~Has(labels, local_labels[1][y])
         /\ prog' # <<>> /\ prog'[Len(prog')].is = "ENDP"
  <1>1. /\ Extends(prog, Statement("ENDP", Undefined), prog')
        /\ Shape(labels, local_labels, scopes, prog') /\ Scoped(labels, local_labels, scopes, prog')
    BY ExitRead
  <1>2. /\ Left(labels, local_labels, labels', local_labels')
        /\ scopes' = SubSeq(scopes, 1, Len(scopes) - 1)
        /\ UndefinedLocals = {}
        /\ \A y \in Moves(labels, local_labels) \cap DOMAIN local_labels[1] :
             ~Has(labels, local_labels[1][y])
    <2>1. Unshared(local_labels)
      BY <1>1 DEF Scoped
    <2> QED
      BY <1>1, <2>1, ExitLeft
  <1>3. \A y \in DOMAIN local_labels[Len(local_labels)] :
          labels[local_labels[Len(local_labels)][y]].local =>
            Has(labels, local_labels[Len(local_labels)][y])
    BY <1>1, <1>2, WhatGoes DEF Top
  <1>4. prog' # <<>> /\ prog'[Len(prog')].is = "ENDP"
    BY <1>1 DEF Extends, Statement
  <1>5. Len(local_labels) > 1
    BY DEF exit_proc, Top
  <1> QED
    BY <1>2, <1>3, <1>4, <1>5

LEMMA ExitKeeps == ASSUME IInv, exit_proc PROVE IInv'
  <1>1. /\ errors = NoError /\ binary = NoBinary
        /\ Shape(labels, local_labels, scopes, prog')
        /\ LocalsFirst(prog') => Scoped(labels, local_labels, scopes, prog')
    BY ExitRead
  <1>2. Shape(labels', local_labels', scopes', prog')
    BY <1>1, ExitShape
  <1>3. ASSUME errors' = NoError, LocalsFirst(prog')
        PROVE  Scoped(labels', local_labels', scopes', prog')
    <2>1. /\ Left(labels, local_labels, labels', local_labels') /\ Len(local_labels) > 1
          /\ scopes' = SubSeq(scopes, 1, Len(scopes) - 1)
          /\ \A y \in DOMAIN local_labels[Len(local_labels)] :
               labels[local_labels[Len(local_labels)][y]].local =>
                 Has(labels, local_labels[Len(local_labels)][y])
          /\ \A y \in Moves(labels, local_labels) \cap DOMAIN local_labels[1] :
               ~Has(labels, local_labels[1][y])
          /\ prog' # <<>> /\ prog'[Len(prog')].is = "ENDP"
      BY <1>3, ExitLeaves
    <2> QED
      BY <1>1, <1>3, <2>1, EndScoped
  <1>4. Typing'
    BY <1>2 DEF exit_proc, memory, starting, IInv, Typing
  <1>5. binary' = binary
    BY DEF exit_proc
  <1> QED
    BY <1>1, <1>3, <1>4, <1>5, Unended DEF IInv, Holding

MadeLocal(L, id) == [L EXCEPT ![id].local = TRUE]
Valued(L, id, v) == [L EXCEPT ![id].value = v]

\* The object of a name there is in the last table.
LEMMA ThatObject ==
  ASSUME NEW L, NEW T, NEW S, NEW P, Shape(L, T, S, P), NEW x \in DOMAIN T[Len(T)]
  PROVE  /\ x \in Names
         /\ L[T[Len(T)][x]].value \in Nat \cup {Undefined} /\ L[T[Len(T)][x]].local \in BOOLEAN
         /\ MadeLocal(L, T[Len(T)][x]) =
              Renewed(L, T[Len(T)][x], Object(x, L[T[Len(T)][x]].value, TRUE))
         /\ \A v : Valued(L, T[Len(T)][x], v) =
                    Renewed(L, T[Len(T)][x], Object(x, v, L[T[Len(T)][x]].local))
  <1> DEFINE id == T[Len(T)][x]
  <1>1. Len(T) \in DOMAIN T
    <2>1. Len(T) \in Nat /\ Len(T) > 0 /\ DOMAIN T = 1 .. Len(T)
      BY InnermostHome
    <2> QED
      BY <2>1
  <1>2. id \in DOMAIN L /\ L[id].name = x /\ x \in Names
    <2>1. T[Len(T)] \in Tables
      BY <1>1 DEF Shape
    <2> QED
      BY <1>1, <2>1, TableEntry DEF Shape
  <1>3. L \in Seq(Objects)
    BY DEF Shape
  <1> HIDE DEF id
  <1>4. PICK o \in Objects : o = L[id]
    BY <1>2, <1>3
  <1>5. /\ o.value \in Nat \cup {Undefined} /\ o.local \in BOOLEAN
        /\ \A b : [o EXCEPT !.local = b] = Object(o.name, o.value, b)
        /\ \A v : [o EXCEPT !.value = v] = Object(o.name, v, o.local)
    <2>1. o.value \in Nat \cup {Undefined} /\ o.local \in BOOLEAN
      BY DEF Objects
    <2>2. \A b : [o EXCEPT !.local = b] = Object(o.name, o.value, b)
      BY DEF Objects, Object
    <2>3. \A v : [o EXCEPT !.value = v] = Object(o.name, v, o.local)
      BY DEF Objects, Object
    <2> QED
      BY <2>1, <2>2, <2>3
  <1>6. MadeLocal(L, id) = Renewed(L, id, Object(x, L[id].value, TRUE))
    <2>1. \A b : [L[id] EXCEPT !.local = b] = Object(x, L[id].value, b)
      BY <1>2, <1>4, <1>5
    <2>2. MadeLocal(L, id) = [L EXCEPT ![id] = [L[id] EXCEPT !.local = TRUE]]
      BY DEF MadeLocal
    <2>3. [L[id] EXCEPT !.local = TRUE] = Object(x, L[id].value, TRUE)
      BY <2>1
    <2> QED
      BY <2>2, <2>3, Zenon DEF Renewed
  <1>7. \A v : Valued(L, id, v) = Renewed(L, id, Object(x, v, L[id].local))
    BY <1>2, <1>4, <1>5 DEF Valued, Renewed
  <1> QED
    BY <1>2, <1>4, <1>5, <1>6, <1>7 DEF id

\* A PROC has just begun, and there are only LOCALs in it.
Begun(S, P) == S # <<>> /\ P # <<>> /\ P[Len(P)].is \in {"PROC", "LOCAL"}

\* LOCAL x is read.
LEMMA LocalRead ==
  ASSUME IInv, NEW x \in Names, set_label(x)
  PROVE  /\ errors = NoError /\ binary = NoBinary
         /\ Extends(prog, Statement("LOCAL", x), prog')
         /\ Shape(labels, local_labels, scopes, prog')
         /\ LocalsFirst(prog') =>
              Scoped(labels, local_labels, scopes, prog) /\ Begun(scopes, prog)
  <1>1. "LOCAL" \in Kinds
    BY DEF Kinds
  <1>2. x \in Names \cup {Undefined} /\ ("LOCAL" \in {"label", "LOCAL"} => x \in Names)
    OBVIOUS
  <1>3. Reads("LOCAL", x) /\ IInv
    BY DEF set_label
  <1> QED
    BY ONLY <1>1, <1>2, <1>3, ReadsLine DEF Begun

\* LOCAL x puts a local object into the last table, with the value it had.
LEMMA LocalEnters ==
  ASSUME IInv, NEW x \in Names, set_label(x)
  PROVE  \E v \in Nat \cup {Undefined} :
           /\ Shape(labels', local_labels', scopes, prog')
           /\ Unshared(local_labels) =>
                /\ Unshared(local_labels')
                /\ Entered(labels, local_labels, labels', local_labels', x, v, TRUE)
           /\ x \in DOMAIN local_labels[Len(local_labels)] =>
                v = labels[local_labels[Len(local_labels)][x]].value
           /\ x \notin DOMAIN local_labels[Len(local_labels)] => v = Undefined
  <1>3. Shape(labels, local_labels, scopes, prog')
    BY LocalRead
  <1> DEFINE id == local_labels[Len(local_labels)][x]
  <1>1. CASE x \in DOMAIN local_labels[Len(local_labels)]
    <2>1. /\ labels[id].value \in Nat \cup {Undefined}
          /\ MadeLocal(labels, id) = Renewed(labels, id, Object(x, labels[id].value, TRUE))
      BY ONLY <1>1, <1>3, ThatObject
    <2>2. labels' = Renewed(labels, id, Object(x, labels[id].value, TRUE))
          /\ local_labels' = local_labels
      BY <1>1, <2>1 DEF set_label, Top, MadeLocal
    <2>3. /\ Shape(Renewed(labels, id, Object(x, labels[id].value, TRUE)), local_labels, scopes, prog')
          /\ Unshared(local_labels) =>
               Entered(labels, local_labels, Renewed(labels, id, Object(x, labels[id].value, TRUE)),
                       local_labels, x, labels[id].value, TRUE)
      BY ONLY <1>1, <1>3, <2>1, OldObject, TRUE \in BOOLEAN
    <2> QED
      BY <1>1, <2>1, <2>2, <2>3
  <1>2. CASE x \notin DOMAIN local_labels[Len(local_labels)]
    <2>1. /\ labels' = Append(labels, Object(x, Undefined, TRUE))
          /\ local_labels' = Put(local_labels, x, Len(labels) + 1)
      BY <1>2 DEF set_label, Top, Put
    <2>2. /\ Entered(labels, local_labels, labels', local_labels', x, Undefined, TRUE)
          /\ Shape(labels', local_labels', scopes, prog')
          /\ Unshared(local_labels) => Unshared(local_labels')
      BY <1>2, <1>3, <2>1, NewObject
    <2> QED
      BY <1>2, <2>2
  <1> QED
    BY <1>1, <1>2

LEMMA LocalKeeps == ASSUME IInv, NEW x \in Names, set_label(x) PROVE IInv'
  <1>1. Reads("LOCAL", x) /\ scopes' = scopes /\ errors' = errors /\ binary' = binary
    BY DEF set_label
  <1>2. /\ errors = NoError /\ binary = NoBinary
        /\ Extends(prog, Statement("LOCAL", x), prog')
        /\ Shape(labels, local_labels, scopes, prog')
        /\ LocalsFirst(prog') =>
             Scoped(labels, local_labels, scopes, prog) /\ Begun(scopes, prog)
    BY LocalRead
  <1>3. Shape(labels, local_labels, scopes, prog)
    BY DEF IInv, Typing
  <1>4. PICK v \in Nat \cup {Undefined} :
          /\ Shape(labels', local_labels', scopes, prog')
          /\ Unshared(local_labels) =>
               /\ Unshared(local_labels')
               /\ Entered(labels, local_labels, labels', local_labels', x, v, TRUE)
          /\ x \in DOMAIN local_labels[Len(local_labels)] =>
               v = labels[local_labels[Len(local_labels)][x]].value
          /\ x \notin DOMAIN local_labels[Len(local_labels)] => v = Undefined
    BY LocalEnters
  <1>5. ASSUME LocalsFirst(prog') PROVE Scoped(labels', local_labels', scopes', prog')
    <2>1. /\ Scoped(labels, local_labels, scopes, prog)
          /\ scopes # <<>> /\ prog # <<>> /\ prog[Len(prog)].is \in {"PROC", "LOCAL"}
      BY <1>2, <1>5 DEF Begun
    <2>2. Unshared(local_labels') /\ Entered(labels, local_labels, labels', local_labels', x, v, TRUE)
      BY <1>4, <2>1 DEF Scoped
    <2>3. /\ Statement("LOCAL", x).is = "LOCAL" /\ Statement("LOCAL", x).name = x
          /\ Statement("LOCAL", x).path = scopes
      BY DEF Statement
    <2>4. Scoped(labels', local_labels', scopes, prog')
      BY <1>2, <1>3, <1>4, <2>1, <2>2, <2>3, LocalScoped
    <2> QED
      BY <1>1, <2>4
  <1>6. Typing'
    BY <1>1, <1>4 DEF set_label, memory, starting, IInv, Typing
  <1> QED
    BY <1>1, <1>2, <1>5, <1>6, Unended DEF IInv, Holding

\* A label is read.
LEMMA LabelRead ==
  ASSUME IInv, NEW x \in Names, declare_label(x)
  PROVE  /\ errors = NoError /\ binary = NoBinary
         /\ Extends(prog, Statement("label", x), prog')
         /\ Shape(labels, local_labels, scopes, prog')
         /\ LocalsFirst(prog') => Scoped(labels, local_labels, scopes, prog)
  <1>1. "label" \in Kinds
    BY DEF Kinds
  <1>2. x \in Names \cup {Undefined} /\ ("label" \in {"label", "LOCAL"} => x \in Names)
    OBVIOUS
  <1>3. Reads("label", x) /\ IInv
    BY DEF declare_label
  <1> QED
    BY ONLY <1>1, <1>2, <1>3, ReadsLine

\* A label gives its object the address; without an error it had no value.
LEMMA LabelEnters ==
  ASSUME IInv, NEW x \in Names, declare_label(x)
  PROVE  \E loc \in BOOLEAN :
           /\ Shape(labels', local_labels', scopes, prog')
           /\ Unshared(local_labels) =>
                /\ Unshared(local_labels')
                /\ Entered(labels, local_labels, labels', local_labels', x, index, loc)
           /\ x \in DOMAIN local_labels[Len(local_labels)] =>
                /\ errors' = NoError => ~Has(labels, local_labels[Len(local_labels)][x])
                /\ loc = labels[local_labels[Len(local_labels)][x]].local
           /\ x \notin DOMAIN local_labels[Len(local_labels)] => loc = FALSE
  <1>4. index \in Nat /\ index \in Nat \cup {Undefined}
    BY DEF IInv, Typing
  <1>3. Shape(labels, local_labels, scopes, prog')
    BY LabelRead
  <1> DEFINE id == local_labels[Len(local_labels)][x]
  <1>1. CASE x \in DOMAIN local_labels[Len(local_labels)]
    <2>1. /\ labels[id].local \in BOOLEAN
          /\ Valued(labels, id, index) = Renewed(labels, id, Object(x, index, labels[id].local))
      BY ONLY <1>1, <1>3, ThatObject
    <2>2. /\ labels' = Renewed(labels, id, Object(x, index, labels[id].local))
          /\ local_labels' = local_labels
          /\ errors' = NoError => ~Has(labels, id)
      BY <1>1, <2>1 DEF declare_label, Top, Valued, Fails, NoError, Defined, Has
    <2>3. /\ Shape(Renewed(labels, id, Object(x, index, labels[id].local)), local_labels, scopes, prog')
          /\ Unshared(local_labels) =>
               Entered(labels, local_labels, Renewed(labels, id, Object(x, index, labels[id].local)),
                       local_labels, x, index, labels[id].local)
      BY ONLY <1>1, <1>3, <1>4, <2>1, OldObject
    <2> QED
      BY <1>1, <2>1, <2>2, <2>3
  <1>2. CASE x \notin DOMAIN local_labels[Len(local_labels)]
    <2>1. /\ labels' = Append(labels, Object(x, index, FALSE))
          /\ local_labels' = Put(local_labels, x, Len(labels) + 1)
      BY <1>2 DEF declare_label, Top, Put
    <2>2. /\ Entered(labels, local_labels, labels', local_labels', x, index, FALSE)
          /\ Shape(labels', local_labels', scopes, prog')
          /\ Unshared(local_labels) => Unshared(local_labels')
      BY <1>2, <1>3, <1>4, <2>1, NewObject
    <2> QED
      BY <1>2, <2>2
  <1> QED
    BY <1>1, <1>2

LEMMA LabelKeeps == ASSUME IInv, NEW x \in Names, declare_label(x) PROVE IInv'
  <1>1. /\ Reads("label", x) /\ scopes' = scopes /\ binary' = binary
        /\ index \in Nat /\ index # Undefined /\ index \in Nat \cup {Undefined}
    BY MemoryAssumption DEF declare_label, IInv, Typing
  <1>2. /\ errors = NoError /\ binary = NoBinary
        /\ Extends(prog, Statement("label", x), prog')
        /\ Shape(labels, local_labels, scopes, prog')
        /\ LocalsFirst(prog') => Scoped(labels, local_labels, scopes, prog)
    BY LabelRead
  <1>3. Shape(labels, local_labels, scopes, prog)
    BY DEF IInv, Typing
  <1>4. PICK loc \in BOOLEAN :
          /\ Shape(labels', local_labels', scopes, prog')
          /\ Unshared(local_labels) =>
               /\ Unshared(local_labels')
               /\ Entered(labels, local_labels, labels', local_labels', x, index, loc)
          /\ x \in DOMAIN local_labels[Len(local_labels)] =>
               /\ errors' = NoError => ~Has(labels, local_labels[Len(local_labels)][x])
               /\ loc = labels[local_labels[Len(local_labels)][x]].local
          /\ x \notin DOMAIN local_labels[Len(local_labels)] => loc = FALSE
    BY LabelEnters
  <1>5. ASSUME errors' = NoError, LocalsFirst(prog')
        PROVE  Scoped(labels', local_labels', scopes', prog')
    <2>1. Scoped(labels, local_labels, scopes, prog)
      BY <1>2, <1>5
    <2>2. Unshared(local_labels') /\ Entered(labels, local_labels, labels', local_labels', x, index, loc)
      BY <1>4, <2>1 DEF Scoped
    <2>3. /\ Statement("label", x).is = "label" /\ Statement("label", x).name = x
          /\ Statement("label", x).path = scopes /\ Statement("label", x).at = index
      BY DEF Statement
    <2>4. Scoped(labels', local_labels', scopes, prog')
      BY <1>1, <1>2, <1>3, <1>4, <1>5, <2>1, <2>2, <2>3, LabelScoped
    <2> QED
      BY <1>1, <2>4
  <1>6. Typing'
    <2>1. DOMAIN orgs' = DOMAIN memory_bytes'
      BY OneMore DEF declare_label
    <2> QED
      BY <1>1, <1>4, <2>1 DEF declare_label, starting, IInv, Typing
  <1>7. Ending'
    BY <1>1, <1>2 DEF Ending
  <1> QED
    BY <1>2, <1>5, <1>6, <1>7 DEF IInv, Holding

\* An instruction whose operand is x, in a source P that ends with it or in the
\* calls behind it.
LEMMA RefersTo ==
  ASSUME IInv, NEW P, Shape(labels, local_labels, scopes, P), NEW x \in Names, Refers(x),
         P = <<>> \/ P[Len(P)].is \notin {"PROC", "LOCAL"} \/ scopes = <<>>
  PROVE  /\ index' \in Nat /\ DOMAIN orgs' = DOMAIN memory_bytes'
         /\ Shape(labels', local_labels', scopes, P)
         /\ Scoped(labels, local_labels, scopes, P) => Scoped(labels', local_labels', scopes, P)
  <1>1. index' \in Nat /\ DOMAIN orgs' = DOMAIN memory_bytes'
    BY OneMore DEF Refers, Assembled
  <1>2. CASE Searched(x) # {}
    BY <1>1, <1>2 DEF Refers
  <1>3. CASE Searched(x) = {}
    <2> DEFINE o == Object(x, Undefined, FALSE)
               U == Put(local_labels, x, Len(labels) + 1)
    <2>1. x \notin DOMAIN local_labels[Len(local_labels)]
      <3>1. Len(local_labels) \in Nat /\ Len(local_labels) > 0
        BY InnermostHome
      <3> QED
        BY <1>3, <3>1 DEF Searched, Top
    <2>2. labels' = Append(labels, o) /\ local_labels' = U
      BY <1>3 DEF Refers, Top, Put
    <2>3. Undefined \in Nat \cup {Undefined} /\ FALSE \in BOOLEAN
      OBVIOUS
    <2>4. /\ Entered(labels, local_labels, Append(labels, o), U, x, Undefined, FALSE)
          /\ Shape(Append(labels, o), U, scopes, P)
          /\ Unshared(local_labels) => Unshared(U)
      BY ONLY <2>1, <2>3, NewObject, Shape(labels, local_labels, scopes, P), x \in Names
    <2> HIDE DEF U, o
    <2>5. ASSUME Scoped(labels, local_labels, scopes, P) PROVE Scoped(Append(labels, o), U, scopes, P)
      <3>1. Unshared(U)
        BY <2>4, <2>5 DEF Scoped
      <3> QED
        BY <2>1, <2>4, <2>5, <3>1, UseScoped
    <2> QED
      BY <1>1, <2>2, <2>4, <2>5
  <1> QED
    BY <1>2, <1>3

LEMMA UseKeeps == ASSUME IInv, NEW x \in Names, refer(x) PROVE IInv'
  <1>1. /\ Reads("use", x) /\ Refers(x)
        /\ scopes' = scopes /\ errors' = errors /\ binary' = binary
        /\ INITS' = INITS /\ called' = called
    BY DEF refer, starting
  <1>2. /\ errors = NoError /\ binary = NoBinary
        /\ Extends(prog, Statement("use", x), prog')
        /\ Shape(labels, local_labels, scopes, prog')
        /\ LocalsFirst(prog') => Scoped(labels, local_labels, scopes, prog')
    <2>1. "use" \in Kinds /\ "use" \notin {"label", "LOCAL", "PROC"}
      BY DEF Kinds
    <2>2. x \in Names \cup {Undefined} /\ ("use" \in {"label", "LOCAL"} => x \in Names)
      OBVIOUS
    <2>3. Reads("use", x) /\ IInv
      BY <1>1
    <2> QED
      BY ONLY <2>1, <2>2, <2>3, ReadsLine
  <1>3. prog'[Len(prog')].is \notin {"PROC", "LOCAL"}
    BY <1>2 DEF Extends, Statement
  <1>4. /\ index' \in Nat /\ DOMAIN orgs' = DOMAIN memory_bytes'
        /\ Shape(labels', local_labels', scopes, prog')
        /\ Scoped(labels, local_labels, scopes, prog') => Scoped(labels', local_labels', scopes, prog')
    BY <1>1, <1>2, <1>3, RefersTo
  <1>5. Typing'
    BY <1>1, <1>4 DEF IInv, Typing
  <1>6. Holding'
    BY <1>1, <1>2, <1>4 DEF Holding
  <1> QED
    BY <1>1, <1>2, <1>5, <1>6, Unended DEF IInv

LEMMA TemporaryKeeps == ASSUME IInv, NEW d \in {"1B", "1F"}, refer_temporary(d) PROVE IInv'
  <1> DEFINE o == Object(d, Undefined, FALSE)
  <1>1. /\ Reads(d, Undefined) /\ labels' = Append(labels, o)
        /\ Assembled(Len(labels) + 1, labels')
        /\ local_labels' = local_labels /\ scopes' = scopes /\ errors' = errors /\ binary' = binary
        /\ INITS' = INITS /\ called' = called
    BY DEF refer_temporary, starting
  <1>2. /\ errors = NoError /\ binary = NoBinary
        /\ Shape(labels, local_labels, scopes, prog')
        /\ LocalsFirst(prog') => Scoped(labels, local_labels, scopes, prog')
    <2>1. d \in Kinds /\ d \notin {"label", "LOCAL", "PROC"}
      BY DEF Kinds
    <2>2. Undefined \in Names \cup {Undefined}
      OBVIOUS
    <2>3. d \in {"label", "LOCAL"} => Undefined \in Names
      BY <2>1
    <2>4. Reads(d, Undefined) /\ IInv
      BY <1>1
    <2> QED
      BY ONLY <2>1, <2>2, <2>3, <2>4, ReadsLine
  <1>3. o \in Objects
    BY DEF Object, Objects
  <1> HIDE DEF o
  <1>4. /\ Shape(labels', local_labels', scopes', prog')
        /\ LocalsFirst(prog') => Scoped(labels', local_labels', scopes', prog')
    BY <1>1, <1>2, <1>3, Grown
  <1>5. Typing'
    <2>1. index' \in Nat /\ DOMAIN orgs' = DOMAIN memory_bytes'
      BY <1>1, OneMore DEF Assembled
    <2> QED
      BY <1>1, <1>4, <2>1 DEF IInv, Typing
  <1> QED
    BY <1>1, <1>2, <1>4, <1>5, Unended DEF IInv, Holding

LEMMA OrgKeeps == ASSUME IInv, NEW a \in Origins, set_org(a) PROVE IInv'
  <1>1. "ORG" \in Kinds /\ "ORG" \notin {"label", "LOCAL", "PROC"} /\ Reads("ORG", Undefined)
    BY DEF Kinds, set_org
  <1>2. UNCHANGED <<labels, local_labels, scopes, errors, binary>>
    BY DEF set_org
  <1>3. /\ index' \in Nat /\ DOMAIN orgs' = DOMAIN memory_bytes'
        /\ INITS' \in Seq(Names) /\ called' \in 0 .. Len(INITS')
    BY MemoryAssumption DEF set_org, starting, IInv, Typing
  <1> QED
    BY ONLY IInv, <1>1, <1>2, <1>3, PlainStatement

LEMMA InitKeeps == ASSUME IInv, NEW x \in Names, init(x) PROVE IInv'
  <1>1. /\ "#init" \in Kinds /\ "#init" \notin {"label", "LOCAL", "PROC"}
        /\ \E y \in Names : Reads("#init", y)
    BY DEF Kinds, init
  <1>2. UNCHANGED <<labels, local_labels, scopes, errors, binary>>
    BY DEF init, tables
  <1>3. /\ index' \in Nat /\ DOMAIN orgs' = DOMAIN memory_bytes'
        /\ INITS' \in Seq(Names) /\ called' \in 0 .. Len(INITS')
    <2>1. INITS \in Seq(Names) /\ called \in 0 .. Len(INITS) /\ INITS' = Append(INITS, x)
          /\ called' = called
      BY DEF init, IInv, Typing
    <2>2. INITS' \in Seq(Names) /\ Len(INITS') = Len(INITS) + 1 /\ Len(INITS) \in Nat
      BY <2>1, Appended
    <2> QED
      BY <2>1, <2>2 DEF init, memory, IInv, Typing
  <1> QED
    BY ONLY IInv, <1>1, <1>2, <1>3, PlainStatement

LEMMA DeclareTemporaryKeeps == ASSUME IInv, declare_temporary PROVE IInv'
  <1>1. "1:" \in Kinds /\ "1:" \notin {"label", "LOCAL", "PROC"} /\ Reads("1:", Undefined)
    BY DEF Kinds, declare_temporary
  <1>2. UNCHANGED <<labels, local_labels, scopes, errors, binary>>
    BY DEF declare_temporary
  <1>3. /\ index' \in Nat /\ DOMAIN orgs' = DOMAIN memory_bytes'
        /\ INITS' \in Seq(Names) /\ called' \in 0 .. Len(INITS')
    BY DEF declare_temporary, starting, memory, IInv, Typing
  <1> QED
    BY ONLY IInv, <1>1, <1>2, <1>3, PlainStatement

\* ENDP outside of all PROCs, and a PROC without ENDP.
LEMMA ErrorKeeps == ASSUME IInv, ExitGlobal \/ MissingEndp PROVE IInv'
  <1>1. /\ UNCHANGED <<tables, memory, starting, binary, scopes>>
        /\ errors' # NoError /\ binary = NoBinary
    BY DEF ExitGlobal, MissingEndp, Fails, NoError, Reads
  <1>2. Shape(labels, local_labels, scopes, prog')
    <2>1. CASE MissingEndp
      BY <2>1 DEF MissingEndp, IInv, Typing
    <2>2. CASE ExitGlobal
      <3>1. "ENDP" \in Kinds /\ "ENDP" \notin {"label", "LOCAL"}
        BY DEF Kinds
      <3>2. Undefined \in Names \cup {Undefined}
        OBVIOUS
      <3>3. "ENDP" \in {"label", "LOCAL"} => Undefined \in Names
        BY <3>1
      <3>4. Reads("ENDP", Undefined) /\ IInv
        BY <2>2 DEF ExitGlobal
      <3> QED
        BY ONLY <3>1, <3>2, <3>3, <3>4, ReadsLine
    <2> QED
      BY <2>1, <2>2
  <1>3. Typing'
    BY <1>1, <1>2 DEF tables, memory, starting, IInv, Typing
  <1> QED
    BY <1>1, <1>3 DEF IInv, Holding, Ending

LEMMA CallKeeps == ASSUME IInv, call_init PROVE IInv'
  <1>1. /\ Refers(INITS[called + 1]) /\ called' = called + 1 /\ INITS' = INITS
        /\ prog' = prog /\ scopes' = scopes /\ errors' = errors /\ binary' = binary
        /\ scopes = <<>> /\ errors = NoError /\ binary = NoBinary /\ called < Len(INITS)
    BY DEF call_init, Assembling
  <1>2. INITS[called + 1] \in Names /\ called' \in 0 .. Len(INITS)
    <2>1. INITS \in Seq(Names) /\ called \in 0 .. Len(INITS)
      BY DEF IInv, Typing
    <2> QED
      BY <1>1, <2>1
  <1>3. Shape(labels, local_labels, scopes, prog)
    BY DEF IInv, Typing
  <1>4. /\ index' \in Nat /\ DOMAIN orgs' = DOMAIN memory_bytes'
        /\ Shape(labels', local_labels', scopes, prog)
        /\ Scoped(labels, local_labels, scopes, prog) => Scoped(labels', local_labels', scopes, prog)
    BY <1>1, <1>2, <1>3, RefersTo
  <1>5. Typing'
    BY <1>1, <1>2, <1>4 DEF IInv, Typing
  <1> QED
    BY <1>1, <1>4, <1>5, Unended DEF IInv, Holding

LEMMA JumpKeeps == ASSUME IInv, jump_to_start PROVE IInv'
  <1>1. /\ UNCHANGED <<labels, local_labels, INITS, called, errors, binary, prog, scopes>>
        /\ index' \in Nat /\ DOMAIN orgs' = DOMAIN memory_bytes'
    BY OneMore DEF jump_to_start, tables
  <1> QED
    BY <1>1 DEF IInv, Typing, Holding, Ending

LEMMA DumpKeeps == ASSUME IInv, dump PROVE IInv'
  <1>1. /\ UNCHANGED <<tables, memory, INITS, called, prog, scopes>>
        /\ scopes = <<>> /\ errors = NoError /\ binary = NoBinary
        /\ binary' = binary \/ errors' = errors
    BY DEF dump, Assembling
  <1> QED
    BY <1>1 DEF tables, memory, IInv, Typing, Holding, Ending

\* And so every step keeps it.
LEMMA NextKeeps == IInv /\ [Next]_vars => IInv'
  <1> SUFFICES ASSUME IInv, [Next]_vars PROVE IInv'
    OBVIOUS
  <1>1. CASE enter_proc
    BY <1>1, EnterKeeps
  <1>2. CASE ExitGlobal \/ MissingEndp
    BY <1>2, ErrorKeeps
  <1>3. CASE exit_proc
    BY <1>3, ExitKeeps
  <1>4. CASE \E x \in Names : set_label(x) \/ declare_label(x) \/ refer(x) \/ init(x)
    BY <1>4, LocalKeeps, LabelKeeps, UseKeeps, InitKeeps
  <1>5. CASE declare_temporary
    BY <1>5, DeclareTemporaryKeeps
  <1>6. CASE \E d \in {"1B", "1F"} : refer_temporary(d)
    BY <1>6, TemporaryKeeps
  <1>7. CASE \E a \in Origins : set_org(a)
    BY <1>7, OrgKeeps
  <1>8. CASE call_init
    BY <1>8, CallKeeps
  <1>9. CASE jump_to_start
    BY <1>9, JumpKeeps
  <1>10. CASE dump
    BY <1>10, DumpKeeps
  <1>11. CASE UNCHANGED vars
    BY <1>11 DEF vars, tables, memory, starting, IInv, Typing, Ending, Holding
  <1> QED
    BY <1>1, <1>2, <1>3, <1>4, <1>5, <1>6, <1>7, <1>8, <1>9, <1>10, <1>11 DEF Next

\* The tables of labels are what the text says, all the time.
THEOREM Inductive == Spec => []IInv
  <1> QED
    BY Begins, NextKeeps, PTL DEF Spec

-----------------------------------------------------------------------------
\* Types: there is a table of labels for each open PROC and a global one, the
\* object a table has for a name has that name, and a place in the memory has
\* both its entries (enter_proc, exit_proc, set_memory_slot).
THEOREM TypeCorrect == Spec => []TypeOK
  <1>1. IInv => TypeOK
    <2> SUFFICES ASSUME IInv PROVE TypeOK
      OBVIOUS
    <2>1. Shape(labels, local_labels, scopes, prog)
      BY DEF IInv, Typing
    <2>2. DOMAIN local_labels = 1 .. Top
      BY <2>1, InnermostHome DEF Top
    <2> QED
      BY <2>1, <2>2 DEF IInv, Typing, Shape, TypeOK
  <1> QED
    BY <1>1, Inductive, PTL

\* Where the text declares the label of line j.
LEMMA WhereDeclared ==
  \A j \in Labels(prog) :
    DeclaredIn(j) = IF Private(prog, j) THEN In(prog, j) ELSE 0
  BY DEF DeclaredIn, Private, LocalIn, IsLocal, Statements, In, Labels

\* No source whose LOCALs are Plain gets a binary if it declares a label twice, or
\* leaves a LOCAL one without a declaration: when every PROC has ended, an object was given a
\* value at most once in the scope the text means, and the local ones were
\* (declare_label, exit_proc and generate_binary).
THEOREM RefusesWrong == Spec => []RejectsWrong
  <1>1. IInv => RejectsWrong
    <2> SUFFICES ASSUME IInv, binary # NoBinary, Plain PROVE ~Twice /\ ~LocalUnknown
      BY DEF RejectsWrong
    <2>1. errors = NoError /\ scopes = <<>> /\ LocalsFirst(prog)
      BY DEF IInv, Ending, Plain, LocalFirst, LocalsFirst, Statements
    <2>2. Shape(labels, local_labels, scopes, prog) /\ Scoped(labels, local_labels, scopes, prog)
      BY <2>1 DEF IInv, Typing, Holding
    <2>3. 1 \in DOMAIN local_labels /\ \A p : Lies(scopes, p, 1)
      <3>1. Len(local_labels) \in Nat /\ Len(local_labels) > 0
            /\ DOMAIN local_labels = 1 .. Len(local_labels)
        BY <2>2, InnermostHome
      <3> QED
        BY <2>1, <3>1 DEF Lies
    <2>4. \A x, p : Declarations(x, p) = {j \in Labels(prog) : prog[j].name = x /\ DeclaredIn(j) = p}
      BY DEF Declarations, Labels, Statements
    <2>5. ASSUME NEW x, NEW p, NEW j \in Declarations(x, p), NEW k \in Declarations(x, p), j # k
          PROVE  FALSE
      <3>1. /\ j \in Labels(prog) /\ k \in Labels(prog) /\ prog[j].name = prog[k].name
            /\ DeclaredIn(j) = DeclaredIn(k)
        BY <2>4, <2>5
      <3>2. /\ Private(prog, j) \/ Private(prog, k)
            /\ In(prog, j) = In(prog, k) => ~Private(prog, j) /\ ~Private(prog, k)
        BY <2>2, <2>3, <2>5, <3>1 DEF Scoped, Once
      <3>3. \A i \in {j, k} : Private(prog, i) => In(prog, i) # 0
        BY DEF Private
      <3> QED
        BY <3>1, <3>2, <3>3, WhereDeclared
    <2>6. ASSUME NEW x, NEW p PROVE ~(Cardinality(Declarations(x, p)) > 1)
      <3>1. CASE Declarations(x, p) = {}
        BY <3>1, FS_EmptySet
      <3>2. CASE Declarations(x, p) # {}
        <4>1. PICK j : j \in Declarations(x, p)
          BY <3>2
        <4>2. Declarations(x, p) = {j}
          BY <4>1, <2>5
        <4> QED
          BY <4>2, FS_Singleton
      <3> QED
        BY <3>1, <3>2
    <2>7. ASSUME NEW x \in Names, NEW p \in Procs, IsLocal(x, p) PROVE Declarations(x, p) # {}
      <3>1. LocalIn(prog, x, p)
        BY <2>7 DEF IsLocal, LocalIn, Statements, In
      <3>2. PICK k \in Labels(prog) : prog[k].name = x /\ In(prog, k) = p
        BY <2>1, <2>2, <3>1 DEF Scoped, Finished, LocalIn
      <3>3. p # 0
        BY <2>2 DEF Procs, Statements, Shape
      <3>4. DeclaredIn(k) = p
        BY <3>1, <3>2, <3>3, WhereDeclared DEF Private
      <3> QED
        BY <2>4, <3>2, <3>4
    <2> QED
      BY <2>6, <2>7 DEF Twice, LocalUnknown
  <1> QED
    BY <1>1, Inductive, PTL
=============================================================================
