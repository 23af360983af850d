--------------------------- MODULE CompilerProofs ---------------------------
(***************************************************************************)
(* Theorems of Compiler, for every tree of files, whatever their lines are *)
(* and however deep they include each other: the conditionals open in the  *)
(* parser and the saved values of enabled match, and a pass that ends      *)
(* without an error ends with no conditional open; the state of both       *)
(* passes has its type, for which every line that is read must be one the  *)
(* files or the code generator can give; a runtime file is assembled as    *)
(* the options ask, for which its guarded text is followed through the     *)
(* conditionals and the files that include it; and the runtime a program   *)
(* needs is assembled once, for which the line that declares a label is.   *)
(***************************************************************************)
EXTENDS Compiler, SequenceTheorems, FiniteSetTheorems, WellFoundedInduction, TLAPS

Kinds == {"file", "if", "else"}
IsSeq(s) == s \in Seq({s[i] : i \in DOMAIN s})
IsConstruct(c) == "kind" \in DOMAIN c /\ c.kind \in Kinds

Conds(cs) == {i \in DOMAIN cs : cs[i].kind \in {"if", "else"}}
FilesOf(cs) == {i \in DOMAIN cs : cs[i].kind = "file"}

Shape ==
  /\ IsSeq(constructs) /\ IsSeq(filestack)
  /\ \A i \in DOMAIN constructs : IsConstruct(constructs[i])
  /\ IFDEFS \in Seq(BOOLEAN) /\ enabled \in BOOLEAN

\* A line is enabled, or was before a conditional, only if it was before the
\* conditionals around that one; outside of all conditionals lines are enabled.
Nested ==
  /\ \A i, j \in DOMAIN IFDEFS : i <= j /\ IFDEFS[j] => IFDEFS[i]
  /\ enabled => \A i \in DOMAIN IFDEFS : IFDEFS[i]
  /\ IFDEFS = <<>> => enabled
  /\ IFDEFS # <<>> => IFDEFS[1]

\* The constructs are files and parts of conditionals, the input of the pass
\* first, as many files as are being read and as many parts as are saved.
Balanced ==
  /\ constructs # <<>> /\ constructs[1].kind = "file"
  /\ Cardinality(FilesOf(constructs)) = Len(filestack)
  /\ Cardinality(Conds(constructs)) = Len(IFDEFS)

IInv ==
  /\ Shape
  /\ filestack # <<>> => Balanced /\ Nested
  /\ Idle /\ ~has_errors => IFDEFS = <<>> /\ enabled
  /\ phase = "start" => Idle /\ ~has_errors
-----------------------------------------------------------------------------
\* Sequences, whatever their elements are.
LEMMA SeqIsSeq ==
  ASSUME NEW S, NEW s \in Seq(S)
  PROVE  IsSeq(s)
  <1> DEFINE T == {s[i] : i \in DOMAIN s}
  <1>1. Len(s) \in Nat /\ DOMAIN s = 1 .. Len(s)
    BY LenProperties
  <1>2. \A i \in 1 .. Len(s) : s[i] \in T
    BY <1>1
  <1>3. SubSeq(s, 1, Len(s)) \in Seq(T)
    BY <1>1, <1>2, SubSeqProperties
  <1>4. SubSeq(s, 1, Len(s)) = s
    BY SubSeqFull
  <1> QED
    BY <1>3, <1>4 DEF IsSeq

LEMMA IsSeqLen ==
  ASSUME NEW s, IsSeq(s)
  PROVE  /\ Len(s) \in Nat /\ DOMAIN s = 1 .. Len(s)
         /\ s # <<>> <=> Len(s) > 0
  BY LenProperties, EmptySeq DEF IsSeq

LEMMA AppendIsSeq ==
  ASSUME NEW s, IsSeq(s), NEW e
  PROVE  /\ IsSeq(Append(s, e))
         /\ Len(Append(s, e)) = Len(s) + 1
         /\ \A i \in 1 .. Len(s) : Append(s, e)[i] = s[i]
         /\ Append(s, e)[Len(s) + 1] = e
  <1> DEFINE T == {s[i] : i \in DOMAIN s} \cup {e}
  <1>1. s \in Seq(T)
    BY SeqMonotonic DEF IsSeq
  <1>2. e \in T
    OBVIOUS
  <1> HIDE DEF T
  <1>3. /\ Append(s, e) \in Seq(T)
        /\ Len(Append(s, e)) = Len(s) + 1
        /\ \A i \in 1 .. Len(s) : Append(s, e)[i] = s[i]
        /\ Append(s, e)[Len(s) + 1] = e
    BY <1>1, <1>2
  <1> QED
    BY <1>3, SeqIsSeq

LEMMA FrontIsSeq ==
  ASSUME NEW s, IsSeq(s), s # <<>>
  PROVE  /\ IsSeq(Front(s))
         /\ Len(Front(s)) = Len(s) - 1
         /\ \A i \in 1 .. Len(s) - 1 : Front(s)[i] = s[i]
  <1> DEFINE T == {s[i] : i \in DOMAIN s}
  <1>1. Len(s) \in Nat /\ Len(s) > 0 /\ DOMAIN s = 1 .. Len(s)
    BY IsSeqLen
  <1>2. \A i \in 1 .. Len(s) - 1 : s[i] \in T
    BY <1>1
  <1>3. /\ Front(s) \in Seq(T)
        /\ Len(Front(s)) = Len(s) - 1
        /\ \A i \in 1 .. Len(s) - 1 : Front(s)[i] = s[i]
    BY <1>1, <1>2, SubSeqProperties DEF Front
  <1> QED
    BY <1>3, SeqIsSeq

\* A function on the places of a sequence is one.
LEMMA SameDomainIsSeq ==
  ASSUME NEW s, IsSeq(s), NEW t, DOMAIN t = DOMAIN s, t = [i \in DOMAIN t |-> t[i]]
  PROVE  IsSeq(t) /\ Len(t) = Len(s)
  <1> DEFINE T == {t[i] : i \in DOMAIN t}
  <1>1. Len(s) \in Nat /\ DOMAIN t = 1 .. Len(s)
    BY IsSeqLen
  <1>2. t \in [1 .. Len(s) -> T]
    BY <1>1
  <1>3. t \in Seq(T)
    BY <1>1, <1>2
  <1> QED
    BY <1>1, <1>3, LenProperties DEF IsSeq
-----------------------------------------------------------------------------
\* The constructs: what the operations on them do to the kinds.
SameKinds(cs, ds) == DOMAIN cs = DOMAIN ds /\ \A i \in DOMAIN cs : cs[i].kind = ds[i].kind
AllConstructs(cs) == \A i \in DOMAIN cs : IsConstruct(cs[i])

LEMMA KindsFinite ==
  ASSUME NEW cs, IsSeq(cs)
  PROVE  IsFiniteSet(Conds(cs)) /\ IsFiniteSet(FilesOf(cs))
  <1>1. Len(cs) \in Nat /\ DOMAIN cs = 1 .. Len(cs)
    BY IsSeqLen
  <1>2. IsFiniteSet(DOMAIN cs)
    BY <1>1, FS_Interval
  <1> QED
    BY <1>2, FS_Subset DEF Conds, FilesOf

LEMMA SameKindsCount ==
  ASSUME NEW cs, NEW ds, SameKinds(cs, ds)
  PROVE  Conds(cs) = Conds(ds) /\ FilesOf(cs) = FilesOf(ds)
  BY DEF SameKinds, Conds, FilesOf

LEMMA AddedKinds ==
  ASSUME NEW cs, IsSeq(cs), AllConstructs(cs), cs # <<>>, NEW text
  PROVE  /\ IsSeq(Added(cs, text)) /\ AllConstructs(Added(cs, text))
         /\ SameKinds(cs, Added(cs, text))
  <1>1. /\ Added(cs, text) = [i \in DOMAIN Added(cs, text) |-> Added(cs, text)[i]]
        /\ DOMAIN Added(cs, text) = DOMAIN cs
    BY DEF Added
  <1>2. ASSUME NEW i \in DOMAIN cs
        PROVE  IsConstruct(Added(cs, text)[i]) /\ Added(cs, text)[i].kind = cs[i].kind
    BY DEF Added, AllConstructs, IsConstruct
  <1> QED
    BY <1>1, <1>2, SameDomainIsSeq DEF SameKinds, AllConstructs

\* A construct put on top is counted among its kind.
LEMMA PushKinds ==
  ASSUME NEW cs, IsSeq(cs), AllConstructs(cs), NEW c, IsConstruct(c),
         NEW ds, ds = Append(cs, c)
  PROVE  /\ IsSeq(ds) /\ AllConstructs(ds) /\ ds # <<>>
         /\ cs # <<>> => ds[1] = cs[1]
         /\ cs = <<>> => ds[1] = c
         /\ c.kind = "file" => /\ Cardinality(FilesOf(ds)) = Cardinality(FilesOf(cs)) + 1
                               /\ Cardinality(Conds(ds)) = Cardinality(Conds(cs))
         /\ c.kind # "file" => /\ Cardinality(FilesOf(ds)) = Cardinality(FilesOf(cs))
                               /\ Cardinality(Conds(ds)) = Cardinality(Conds(cs)) + 1
  <1> DEFINE n == Len(cs) + 1
  <1>1. /\ IsSeq(ds) /\ Len(ds) = n /\ Len(cs) \in Nat
        /\ DOMAIN cs = 1 .. Len(cs) /\ DOMAIN ds = 1 .. n
        /\ \A i \in 1 .. Len(cs) : ds[i] = cs[i]
        /\ ds[n] = c
        /\ ds # <<>>
    BY AppendIsSeq, IsSeqLen
  <1>2. c.kind \in Kinds
    BY DEF IsConstruct
  <1>3. AllConstructs(ds)
    BY <1>1 DEF AllConstructs
  <1>4. /\ cs # <<>> => ds[1] = cs[1]
        /\ cs = <<>> => ds[1] = c
    BY <1>1, IsSeqLen
  <1>5. /\ c.kind = "file" => FilesOf(ds) = FilesOf(cs) \cup {n} /\ Conds(ds) = Conds(cs)
        /\ c.kind # "file" => FilesOf(ds) = FilesOf(cs) /\ Conds(ds) = Conds(cs) \cup {n}
    BY <1>1, <1>2 DEF FilesOf, Conds, Kinds
  <1>6. n \notin FilesOf(cs) /\ n \notin Conds(cs)
    BY <1>1 DEF FilesOf, Conds
  <1>7. IsFiniteSet(FilesOf(cs)) /\ IsFiniteSet(Conds(cs))
    BY KindsFinite
  <1>8. /\ Cardinality(FilesOf(cs) \cup {n}) = Cardinality(FilesOf(cs)) + 1
        /\ Cardinality(Conds(cs) \cup {n}) = Cardinality(Conds(cs)) + 1
    BY <1>6, <1>7, FS_AddElement
  <1> QED
    BY <1>1, <1>3, <1>4, <1>5, <1>8

\* The construct on top is reduced, and its text goes to the one below.
LEMMA PopKinds ==
  ASSUME NEW cs, IsSeq(cs), AllConstructs(cs), Len(cs) > 1, NEW text,
         NEW ds, ds = Added(Front(cs), text)
  PROVE  /\ IsSeq(ds) /\ AllConstructs(ds) /\ ds # <<>>
         /\ ds[1].kind = cs[1].kind
         /\ Last(cs).kind = "file" => /\ Cardinality(FilesOf(ds)) = Cardinality(FilesOf(cs)) - 1
                                      /\ Cardinality(Conds(ds)) = Cardinality(Conds(cs))
         /\ Last(cs).kind # "file" => /\ Cardinality(FilesOf(ds)) = Cardinality(FilesOf(cs))
                                      /\ Cardinality(Conds(ds)) = Cardinality(Conds(cs)) - 1
  <1> DEFINE fs == Front(cs)
             n == Len(cs)
  <1>0. n \in Nat /\ n > 1 /\ cs # <<>> /\ DOMAIN cs = 1 .. n
    BY IsSeqLen
  <1>1. /\ IsSeq(fs) /\ Len(fs) = n - 1
        /\ \A i \in 1 .. (n - 1) : fs[i] = cs[i]
    BY <1>0, FrontIsSeq
  <1> HIDE DEF fs
  <1>2. DOMAIN fs = 1 .. (n - 1) /\ fs # <<>>
    BY <1>0, <1>1, IsSeqLen
  <1>3. AllConstructs(fs)
    BY <1>0, <1>1, <1>2 DEF AllConstructs
  <1>4. IsSeq(ds) /\ AllConstructs(ds) /\ SameKinds(fs, ds)
    BY <1>1, <1>2, <1>3, AddedKinds DEF fs
  <1>5. Last(cs) = cs[n] /\ cs[n].kind \in Kinds
    BY <1>0 DEF Last, AllConstructs, IsConstruct
  <1>6. FilesOf(ds) = FilesOf(fs) /\ Conds(ds) = Conds(fs)
    BY <1>4, SameKindsCount
  <1>7. /\ cs[n].kind = "file" => FilesOf(fs) = FilesOf(cs) \ {n} /\ Conds(fs) = Conds(cs)
        /\ cs[n].kind # "file" => FilesOf(fs) = FilesOf(cs) /\ Conds(fs) = Conds(cs) \ {n}
    BY <1>0, <1>1, <1>2, <1>5 DEF FilesOf, Conds, Kinds
  <1>8. /\ cs[n].kind = "file" => n \in FilesOf(cs)
        /\ cs[n].kind # "file" => n \in Conds(cs)
    BY <1>0, <1>5 DEF FilesOf, Conds, Kinds
  <1>9. IsFiniteSet(FilesOf(cs)) /\ IsFiniteSet(Conds(cs))
    BY KindsFinite
  <1>10. /\ n \in FilesOf(cs) => Cardinality(FilesOf(cs) \ {n}) = Cardinality(FilesOf(cs)) - 1
         /\ n \in Conds(cs) => Cardinality(Conds(cs) \ {n}) = Cardinality(Conds(cs)) - 1
    BY <1>9, FS_RemoveElement
  <1>11. ds # <<>> /\ ds[1].kind = cs[1].kind
    BY <1>0, <1>1, <1>2, <1>4, IsSeqLen DEF SameKinds
  <1> QED
    BY <1>4, <1>5, <1>6, <1>7, <1>8, <1>10, <1>11

\* The files are among the constructs.
LEMMA FilesAmong ==
  ASSUME NEW cs, IsSeq(cs), cs # <<>>
  PROVE  Cardinality(FilesOf(cs)) <= Len(cs) /\ Cardinality(FilesOf(cs)) \in Nat
  <1>1. Len(cs) \in Nat /\ Len(cs) > 0 /\ FilesOf(cs) \subseteq 1 .. Len(cs)
    BY IsSeqLen DEF FilesOf
  <1>2. 1 \in Int /\ Len(cs) \in Int /\ ~(1 > Len(cs)) /\ Len(cs) - 1 + 1 = Len(cs)
    BY <1>1
  <1>3. IsFiniteSet(1 .. Len(cs)) /\ Cardinality(1 .. Len(cs)) = Len(cs)
    BY <1>2, FS_Interval
  <1> QED
    BY <1>1, <1>3, KindsFinite, FS_Subset, FS_CardinalityType

LEMMA AdvancedIsSeq ==
  ASSUME IsSeq(filestack), filestack # <<>>
  PROVE  IsSeq(Advanced) /\ Len(Advanced) = Len(filestack) /\ Advanced # <<>>
  <1>1. /\ Advanced = [i \in DOMAIN Advanced |-> Advanced[i]]
        /\ DOMAIN Advanced = DOMAIN filestack
    BY DEF Advanced
  <1>2. IsSeq(Advanced) /\ Len(Advanced) = Len(filestack)
    BY <1>1, SameDomainIsSeq
  <1> QED
    BY <1>2, IsSeqLen
-----------------------------------------------------------------------------
\* One lemma for each way the steps treat the two stacks.

\* The text of a construct grows, or is dropped, and nothing else changes.
LEMMA StayInv ==
  ASSUME IInv, filestack # <<>>,
         filestack' = Advanced,
         IsSeq(constructs'), AllConstructs(constructs'), SameKinds(constructs, constructs'),
         UNCHANGED <<conditions, phase>>
  PROVE  IInv'
  <1>1. Balanced /\ Nested /\ phase # "start"
    BY DEF IInv, Idle
  <1>2. IsSeq(filestack') /\ Len(filestack') = Len(filestack) /\ filestack' # <<>>
    BY AdvancedIsSeq DEF IInv, Shape
  <1>3. Shape'
    BY <1>2 DEF IInv, Shape, AllConstructs, conditions
  <1>4. FilesOf(constructs') = FilesOf(constructs) /\ Conds(constructs') = Conds(constructs)
    BY SameKindsCount
  <1>5. constructs' # <<>> /\ constructs'[1].kind = "file"
    <2>1. DOMAIN constructs' = DOMAIN constructs /\ 1 \in DOMAIN constructs
      BY <1>1, IsSeqLen DEF Balanced, SameKinds, IInv, Shape
    <2> QED
      BY <1>1, <2>1, IsSeqLen DEF Balanced, SameKinds
  <1>6. Balanced'
    BY <1>1, <1>2, <1>4, <1>5 DEF Balanced, conditions
  <1>7. Nested'
    BY <1>1 DEF Nested, conditions
  <1> QED
    BY <1>1, <1>2, <1>3, <1>6, <1>7 DEF IInv, Idle, conditions

LEMMA SkipInv ==
  ASSUME IInv, filestack # <<>>, NEW text, Skip(text), UNCHANGED <<conditions, phase>>
  PROVE  IInv'
  <1>1. IsSeq(constructs) /\ AllConstructs(constructs) /\ constructs # <<>>
    BY DEF IInv, Shape, AllConstructs, Balanced
  <1>2. filestack' = Advanced /\ constructs' = Added(constructs, text)
    BY DEF Skip
  <1> QED
    BY <1>1, <1>2, AddedKinds, StayInv

\* A call with the wrong arguments drops the text of its construct.
LEMMA MacroCallInv ==
  ASSUME IInv, MacroCall, UNCHANGED phase
  PROVE  IInv'
  <1>1. filestack # <<>> /\ UNCHANGED conditions
    BY DEF MacroCall, Reading
  <1>2. CASE Line.arg \notin ID_TABLE
    BY <1>1, <1>2, SkipInv DEF MacroCall
  <1>3. CASE Line.arg \in ID_TABLE
    <2>1. IsSeq(constructs) /\ AllConstructs(constructs) /\ filestack' = Advanced
      BY <1>1, <1>3 DEF IInv, Shape, AllConstructs, MacroCall
    <2>2. /\ constructs' = [i \in DOMAIN constructs' |-> constructs'[i]]
          /\ DOMAIN constructs' = DOMAIN constructs
      BY <1>3 DEF MacroCall
    <2>3. ASSUME NEW i \in DOMAIN constructs
          PROVE  IsConstruct(constructs'[i]) /\ constructs'[i].kind = constructs[i].kind
      BY <1>3, <2>1 DEF MacroCall, AllConstructs, IsConstruct
    <2> QED
      BY <1>1, <2>1, <2>2, <2>3, SameDomainIsSeq, StayInv DEF SameKinds, AllConstructs
  <1> QED
    BY <1>2, <1>3

\* A file is opened.
LEMMA OpenInv ==
  ASSUME IInv, filestack # <<>>, NEW f, Open(f), UNCHANGED <<conditions, phase>>
  PROVE  IInv'
  <1> DEFINE e == [file |-> f, rest |-> Lines(f)]
             c == Construct("file", FALSE, <<>>)
  <1>1. Balanced /\ Nested /\ phase # "start"
    BY DEF IInv, Idle
  <1>2. /\ filestack' = Append(Advanced, e)
        /\ constructs' = Append(constructs, c)
        /\ IsConstruct(c) /\ c.kind = "file"
    BY DEF Open, Construct, IsConstruct, Kinds
  <1> HIDE DEF e, c
  <1>3. IsSeq(Advanced) /\ Len(Advanced) = Len(filestack)
    BY AdvancedIsSeq DEF IInv, Shape
  <1>4. IsSeq(filestack') /\ Len(filestack') = Len(filestack) + 1
    BY <1>2, <1>3, AppendIsSeq
  <1>5. filestack' # <<>>
    BY <1>4, IsSeqLen DEF IInv, Shape
  <1>6. /\ IsSeq(constructs') /\ AllConstructs(constructs') /\ constructs' # <<>>
        /\ constructs'[1] = constructs[1]
        /\ Cardinality(FilesOf(constructs')) = Cardinality(FilesOf(constructs)) + 1
        /\ Cardinality(Conds(constructs')) = Cardinality(Conds(constructs))
    <2>1. /\ IsSeq(constructs) /\ AllConstructs(constructs) /\ constructs # <<>>
      BY <1>1 DEF IInv, Shape, AllConstructs, Balanced
    <2> QED
      BY <1>2, <2>1, PushKinds
  <1>7. Shape'
    BY <1>4, <1>6 DEF IInv, Shape, AllConstructs, conditions
  <1>8. Balanced'
    BY <1>1, <1>4, <1>6 DEF Balanced, conditions
  <1>9. Nested'
    BY <1>1 DEF Nested, conditions
  <1> QED
    BY <1>1, <1>5, <1>7, <1>8, <1>9 DEF IInv, Idle, conditions

\* A conditional is opened: the value of enabled is saved.
LEMMA IfHeaderInv ==
  ASSUME IInv, IfHeader, UNCHANGED phase
  PROVE  IInv'
  <1> DEFINE hdr == enabled /\ ((Line.arg \in ID_TABLE) # Line.flag)
             c == Construct("if", hdr, <<>>)
  <1>0. filestack # <<>> /\ Balanced /\ Nested /\ phase # "start" /\ Shape
    BY DEF IfHeader, Reading, IInv, Idle
  <1>1. /\ filestack' = Advanced
        /\ IFDEFS' = Append(IFDEFS, enabled)
        /\ enabled' = hdr
        /\ constructs' = Append(constructs, c)
        /\ IsConstruct(c) /\ c.kind = "if"
    BY DEF IfHeader, Construct, IsConstruct, Kinds
  <1>2. hdr \in BOOLEAN /\ (hdr => enabled)
    OBVIOUS
  <1> HIDE DEF hdr, c
  <1>3. IsSeq(filestack') /\ Len(filestack') = Len(filestack) /\ filestack' # <<>>
    BY <1>0, <1>1, AdvancedIsSeq DEF Shape
  <1>4. /\ IsSeq(constructs') /\ AllConstructs(constructs') /\ constructs' # <<>>
        /\ constructs'[1] = constructs[1]
        /\ Cardinality(FilesOf(constructs')) = Cardinality(FilesOf(constructs))
        /\ Cardinality(Conds(constructs')) = Cardinality(Conds(constructs)) + 1
    <2>1. /\ IsSeq(constructs) /\ AllConstructs(constructs) /\ constructs # <<>>
      BY <1>0 DEF Shape, AllConstructs, Balanced
    <2> QED
      BY <1>1, <2>1, PushKinds
  <1>5. /\ IFDEFS' \in Seq(BOOLEAN) /\ Len(IFDEFS') = Len(IFDEFS) + 1 /\ Len(IFDEFS) \in Nat
        /\ DOMAIN IFDEFS = 1 .. Len(IFDEFS) /\ DOMAIN IFDEFS' = 1 .. Len(IFDEFS) + 1
        /\ \A i \in 1 .. Len(IFDEFS) : IFDEFS'[i] = IFDEFS[i]
        /\ IFDEFS'[Len(IFDEFS) + 1] = enabled
    BY <1>0, <1>1 DEF Shape
  <1>6. Shape'
    BY <1>1, <1>2, <1>3, <1>4, <1>5 DEF Shape, AllConstructs
  <1>7. Balanced'
    BY <1>0, <1>3, <1>4, <1>5 DEF Balanced
  <1>8. Nested'
    <2>0. /\ enabled \in BOOLEAN
          /\ \A i \in 1 .. Len(IFDEFS) + 1 : IFDEFS'[i] \in BOOLEAN
      BY <1>0, <1>5 DEF Shape
    <2>1. \A i \in 1 .. Len(IFDEFS) + 1 : enabled => IFDEFS'[i]
      <3> SUFFICES ASSUME enabled = TRUE, NEW i \in 1 .. Len(IFDEFS) + 1
                   PROVE  IFDEFS'[i] = TRUE
        BY <2>0
      <3>0. i = Len(IFDEFS) + 1 \/ i \in 1 .. Len(IFDEFS)
        BY <1>5
      <3>1. CASE i = Len(IFDEFS) + 1
        BY <1>5, <3>1
      <3>2. CASE i \in 1 .. Len(IFDEFS)
        BY <1>0, <1>5, <2>0, <3>2 DEF Nested
      <3> QED
        BY <3>0, <3>1, <3>2
    <2>2. \A i, j \in 1 .. Len(IFDEFS) + 1 : i <= j /\ IFDEFS'[j] => IFDEFS'[i]
      BY <1>0, <1>5, <2>1 DEF Nested
    <2>3. IFDEFS' # <<>> /\ IFDEFS'[1]
      <3>1. CASE IFDEFS = <<>>
        <4>1. Len(IFDEFS) = 0 /\ enabled = TRUE
          BY <1>0, <2>0, <3>1 DEF Nested
        <4>2. Len(IFDEFS') = 1
          BY <1>5, <4>1
        <4>3. IFDEFS'[Len(IFDEFS) + 1] = TRUE
          BY <1>5, <4>1
        <4>4. Len(IFDEFS) + 1 = 1
          BY <4>1
        <4>5. IFDEFS'[1] = TRUE
          BY <4>3, <4>4
        <4> QED
          BY <1>5, <4>2, <4>5, EmptySeq
      <3>2. CASE IFDEFS # <<>>
        BY <1>0, <1>5, <3>2 DEF Nested, Shape
      <3> QED
        BY <3>1, <3>2
    <2> QED
      BY <1>1, <1>2, <1>5, <2>1, <2>2, <2>3 DEF Nested
  <1> QED
    BY <1>0, <1>3, <1>6, <1>7, <1>8 DEF IInv, Idle

LEMMA FrontIFDEFS ==
  ASSUME NEW s \in Seq(BOOLEAN), s # <<>>
  PROVE  /\ Len(s) \in Nat /\ Len(s) > 0 /\ DOMAIN s = 1 .. Len(s)
         /\ Front(s) \in Seq(BOOLEAN)
         /\ Len(Front(s)) = Len(s) - 1
         /\ DOMAIN Front(s) = 1 .. (Len(s) - 1)
         /\ \A i \in 1 .. Len(s) - 1 : Front(s)[i] = s[i]
         /\ Last(s) = s[Len(s)] /\ Last(s) \in BOOLEAN
  <1>1. Len(s) \in Nat /\ Len(s) > 0 /\ DOMAIN s = 1 .. Len(s)
    BY EmptySeq, LenProperties
  <1>2. \A i \in 1 .. Len(s) - 1 : s[i] \in BOOLEAN
    BY <1>1
  <1>3. /\ Front(s) \in Seq(BOOLEAN)
        /\ Len(Front(s)) = Len(s) - 1
        /\ \A i \in 1 .. Len(s) - 1 : Front(s)[i] = s[i]
    BY <1>1, <1>2, SubSeqProperties DEF Front
  <1> QED
    BY <1>1, <1>3, LenProperties DEF Last

\* The conditionals open are among the constructs.
LEMMA CondsSaved ==
  ASSUME Shape, Balanced, Top.kind \in {"if", "else"}
  PROVE  IFDEFS # <<>> /\ Len(constructs) > 1
  <1> DEFINE n == Len(constructs)
  <1>1. n \in Nat /\ n > 0 /\ DOMAIN constructs = 1 .. n
    BY IsSeqLen DEF Shape, Balanced
  <1>2. Top = constructs[n]
    BY DEF Top, Last
  <1>3. n # 1
    BY <1>2 DEF Balanced
  <1>4. n \in Conds(constructs)
    BY <1>1, <1>2 DEF Conds
  <1>5. Cardinality(Conds(constructs)) # 0
    BY <1>4, KindsFinite, FS_EmptySet DEF Shape
  <1>6. IFDEFS # <<>>
    BY <1>5, EmptySeq DEF Balanced
  <1> QED
    BY <1>1, <1>3, <1>6

\* The part before #else ends: enabled is turned round inside what is enabled.
LEMMA ElseInv ==
  ASSUME IInv, Else, UNCHANGED phase
  PROVE  IInv'
  <1> DEFINE n == Len(constructs)
  <1>0. filestack # <<>> /\ Balanced /\ Nested /\ phase # "start" /\ Shape
    BY DEF Else, Reading, IInv, Idle
  <1>1. Top.kind = "if" /\ IFDEFS' = IFDEFS /\ filestack' = Advanced
    BY DEF Else
  <1>2. PICK c : constructs' = [constructs EXCEPT ![n] = c] /\ IsConstruct(c) /\ c.kind = "else"
    <2> DEFINE kept == IF Last(IFDEFS) /\ Top.hdr THEN Top.prog ELSE <<>>
               c == Construct("else", FALSE, kept)
    <2>1. constructs' = [constructs EXCEPT ![n] = c]
      BY DEF Else
    <2>2. IsConstruct(c) /\ c.kind = "else"
      BY DEF Construct, IsConstruct, Kinds
    <2> HIDE DEF c
    <2> QED
      BY <2>1, <2>2
  <1>3. /\ n \in Nat /\ n > 0 /\ DOMAIN constructs = 1 .. n
        /\ Top = constructs[n] /\ n # 1 /\ IFDEFS # <<>>
    BY <1>0, <1>1, IsSeqLen, CondsSaved DEF Shape, Balanced, Top, Last
  <1>4. /\ constructs' = [i \in DOMAIN constructs' |-> constructs'[i]]
        /\ DOMAIN constructs' = 1 .. n
        /\ constructs'[n] = c
        /\ \A i \in 1 .. n : i # n => constructs'[i] = constructs[i]
    <2>1. constructs' = [constructs EXCEPT ![n] = c]
      BY <1>2
    <2>2. DOMAIN constructs = 1 .. n /\ n \in 1 .. n
      BY <1>3
    <2> HIDE DEF n
    <2> QED
      BY <2>1, <2>2
  <1>5. constructs'[n].kind = "else" /\ IsConstruct(constructs'[n])
    BY <1>2, <1>4
  <1>6. IsSeq(constructs') /\ AllConstructs(constructs') /\ constructs' # <<>>
    BY <1>0, <1>3, <1>4, <1>5, SameDomainIsSeq, IsSeqLen DEF Shape, AllConstructs
  <1>7. FilesOf(constructs') = FilesOf(constructs) /\ Conds(constructs') = Conds(constructs)
    BY <1>1, <1>3, <1>4, <1>5 DEF FilesOf, Conds
  <1>8. IsSeq(filestack') /\ Len(filestack') = Len(filestack) /\ filestack' # <<>>
    BY <1>0, <1>1, AdvancedIsSeq DEF Shape
  <1>9. Balanced'
    BY <1>0, <1>1, <1>3, <1>4, <1>6, <1>7, <1>8 DEF Balanced
  <1>10. /\ Len(IFDEFS) \in Nat /\ Len(IFDEFS) > 0 /\ DOMAIN IFDEFS = 1 .. Len(IFDEFS)
         /\ Last(IFDEFS) = IFDEFS[Len(IFDEFS)] /\ Last(IFDEFS) \in BOOLEAN
    BY <1>0, <1>3, FrontIFDEFS DEF Shape
  <1>11. /\ Last(IFDEFS) => enabled' = ~Top.hdr
         /\ ~Last(IFDEFS) => enabled' = enabled
    BY DEF Else
  <1>12. enabled' \in BOOLEAN
    BY <1>0, <1>10, <1>11 DEF Shape
  <1>13. Shape'
    BY <1>0, <1>1, <1>6, <1>8, <1>12 DEF Shape, AllConstructs
  <1>14. Nested'
    <2>1. CASE Last(IFDEFS) = TRUE
      <3>1. \A i \in DOMAIN IFDEFS : IFDEFS[i]
        BY <1>0, <1>10, <2>1 DEF Nested
      <3> QED
        BY <1>0, <1>1, <1>3, <3>1 DEF Nested
    <2>2. CASE Last(IFDEFS) = FALSE
      BY <1>0, <1>1, <1>3, <1>11, <2>2 DEF Nested
    <2> QED
      BY <1>10, <2>1, <2>2
  <1> QED
    BY <1>0, <1>8, <1>9, <1>13, <1>14 DEF IInv, Idle

\* A conditional is closed: enabled is what was saved.
LEMMA EndIfInv ==
  ASSUME IInv, EndIf, UNCHANGED phase
  PROVE  IInv'
  <1>0. filestack # <<>> /\ Balanced /\ Nested /\ phase # "start" /\ Shape
    BY DEF EndIf, Reading, IInv, Idle
  <1>1. /\ Top.kind \in {"if", "else"} /\ filestack' = Advanced
        /\ IFDEFS' = Front(IFDEFS) /\ enabled' = Last(IFDEFS)
    BY DEF EndIf
  <1>2. PICK text : constructs' = Added(Front(constructs), text)
    BY DEF EndIf
  <1>3. IFDEFS # <<>> /\ Len(constructs) > 1
    BY <1>0, <1>1, CondsSaved
  <1>4. IsSeq(constructs) /\ AllConstructs(constructs) /\ Last(constructs).kind # "file"
    BY <1>0, <1>1 DEF Shape, AllConstructs, Top
  <1>5. /\ IsSeq(constructs') /\ AllConstructs(constructs') /\ constructs' # <<>>
        /\ constructs'[1].kind = constructs[1].kind
        /\ Cardinality(FilesOf(constructs')) = Cardinality(FilesOf(constructs))
        /\ Cardinality(Conds(constructs')) = Cardinality(Conds(constructs)) - 1
    BY <1>2, <1>3, <1>4, PopKinds
  <1>6. IsSeq(filestack') /\ Len(filestack') = Len(filestack) /\ filestack' # <<>>
    BY <1>0, <1>1, AdvancedIsSeq DEF Shape
  <1>7. /\ Len(IFDEFS) \in Nat /\ Len(IFDEFS) > 0 /\ DOMAIN IFDEFS = 1 .. Len(IFDEFS)
        /\ IFDEFS' \in Seq(BOOLEAN) /\ Len(IFDEFS') = Len(IFDEFS) - 1
        /\ DOMAIN IFDEFS' = 1 .. (Len(IFDEFS) - 1)
        /\ \A i \in 1 .. Len(IFDEFS) - 1 : IFDEFS'[i] = IFDEFS[i]
        /\ enabled' = IFDEFS[Len(IFDEFS)] /\ enabled' \in BOOLEAN
    BY <1>0, <1>1, <1>3, FrontIFDEFS DEF Shape
  <1>8. Shape'
    BY <1>5, <1>6, <1>7 DEF Shape, AllConstructs
  <1>9. Balanced'
    BY <1>0, <1>5, <1>6, <1>7 DEF Balanced
  <1>10. Nested'
    <2>1. \A i, j \in DOMAIN IFDEFS' : i <= j /\ IFDEFS'[j] => IFDEFS'[i]
      BY <1>0, <1>7 DEF Nested
    <2>2. ASSUME enabled' = TRUE, NEW i \in DOMAIN IFDEFS'
          PROVE  IFDEFS'[i] = TRUE
      <3>1. IFDEFS[Len(IFDEFS)] = TRUE /\ i \in 1 .. Len(IFDEFS) /\ i \in 1 .. Len(IFDEFS) - 1
        BY <1>7, <2>2
      <3>2. i <= Len(IFDEFS) /\ Len(IFDEFS) \in 1 .. Len(IFDEFS)
        BY <1>7, <3>1
      <3>3. IFDEFS[i]
        BY <1>0, <1>7, <3>1, <3>2 DEF Nested
      <3>4. IFDEFS[i] \in BOOLEAN
        BY <1>0, <1>7, <3>1 DEF Shape
      <3> QED
        BY <1>7, <3>1, <3>3, <3>4
    <2>3. IFDEFS[1] = TRUE
      BY <1>0, <1>3, <1>7 DEF Nested, Shape
    <2>4. IFDEFS' = <<>> => enabled'
      <3>1. SUFFICES ASSUME IFDEFS' = <<>> PROVE enabled' = TRUE
        OBVIOUS
      <3>0. Len(IFDEFS') = 0
        BY <3>1, EmptySeq
      <3>2. Len(IFDEFS') = Len(IFDEFS) - 1 /\ Len(IFDEFS) \in Nat
        BY <1>7
      <3>3. Len(IFDEFS) = 1
        BY <3>0, <3>2
      <3> QED
        BY <1>7, <2>3, <3>3
    <2>5. IFDEFS' # <<>> => IFDEFS'[1] = TRUE
      <3>1. SUFFICES ASSUME IFDEFS' # <<>> PROVE IFDEFS'[1] = TRUE
        OBVIOUS
      <3>2. 1 \in 1 .. Len(IFDEFS) - 1
        BY <1>7, <3>1, EmptySeq
      <3> QED
        BY <1>7, <2>3, <3>2
    <2> QED
      BY <1>7, <2>1, <2>2, <2>4, <2>5 DEF Nested
  <1> QED
    BY <1>0, <1>6, <1>8, <1>9, <1>10 DEF IInv, Idle

\* The end of an included file: its construct goes, and the conditionals that
\* were open around the include are open still.
LEMMA EndFileInv ==
  ASSUME IInv, EndFile, UNCHANGED phase
  PROVE  IInv'
  <1>0. filestack # <<>> /\ Balanced /\ Nested /\ phase # "start" /\ Shape
    BY DEF EndFile, AtEnd, IInv, Idle
  <1>1. /\ Top.kind = "file" /\ Len(filestack) > 1
        /\ filestack' = Front(filestack)
        /\ constructs' = Added(Front(constructs), Top.prog)
        /\ UNCHANGED conditions
    BY DEF EndFile
  <1>2. Len(constructs) > 1
    BY <1>0, <1>1, IsSeqLen, FilesAmong DEF Shape, Balanced
  <1>3. IsSeq(constructs) /\ AllConstructs(constructs) /\ Last(constructs).kind = "file"
    BY <1>0, <1>1 DEF Shape, AllConstructs, Top
  <1>4. /\ IsSeq(constructs') /\ AllConstructs(constructs') /\ constructs' # <<>>
        /\ constructs'[1].kind = constructs[1].kind
        /\ Cardinality(FilesOf(constructs')) = Cardinality(FilesOf(constructs)) - 1
        /\ Cardinality(Conds(constructs')) = Cardinality(Conds(constructs))
    BY <1>1, <1>2, <1>3, PopKinds
  <1>5. IsSeq(filestack') /\ Len(filestack') = Len(filestack) - 1 /\ filestack' # <<>>
    <2>1. IsSeq(filestack') /\ Len(filestack') = Len(filestack) - 1
      BY <1>0, <1>1, FrontIsSeq DEF Shape
    <2> QED
      BY <1>0, <1>1, <2>1, IsSeqLen DEF Shape
  <1>6. Shape'
    BY <1>0, <1>1, <1>4, <1>5 DEF Shape, AllConstructs, conditions
  <1>7. Balanced'
    BY <1>0, <1>1, <1>4, <1>5 DEF Balanced, conditions
  <1>8. Nested'
    BY <1>0, <1>1 DEF Nested, conditions
  <1> QED
    BY <1>0, <1>5, <1>6, <1>7, <1>8 DEF IInv, Idle

\* The end of the input: the only construct left is that of the input, so no
\* conditional is open and the next pass starts with every line enabled.
LEMMA EndInputInv ==
  ASSUME IInv, EndInput, UNCHANGED phase
  PROVE  IInv'
  <1> DEFINE n == Len(constructs)
  <1>0. filestack # <<>> /\ Balanced /\ Nested /\ phase # "start" /\ Shape
    BY DEF EndInput, AtEnd, IInv, Idle
  <1>1. /\ Top.kind = "file" /\ Len(filestack) = 1
        /\ filestack' = <<>> /\ constructs' = <<>>
        /\ UNCHANGED conditions
    BY DEF EndInput
  <1>2. n \in Nat /\ n > 0 /\ DOMAIN constructs = 1 .. n /\ Top = constructs[n]
    BY <1>0, IsSeqLen DEF Shape, Balanced, Top, Last
  <1>3. 1 \in FilesOf(constructs) /\ n \in FilesOf(constructs)
    BY <1>0, <1>1, <1>2 DEF FilesOf, Balanced
  <1>4. Cardinality(FilesOf(constructs)) = 1
    BY <1>0, <1>1 DEF Balanced
  <1>5. n = 1
    <2>1. IsFiniteSet(FilesOf(constructs))
      BY <1>0, KindsFinite DEF Shape
    <2>2. PICK x : FilesOf(constructs) = {x}
      BY <1>4, <2>1, FS_Singleton
    <2> QED
      BY <1>3, <2>2
  <1>6. Conds(constructs) = {}
    BY <1>0, <1>2, <1>5 DEF Conds, Balanced
  <1>7. Len(IFDEFS) = 0
    BY <1>0, <1>6, FS_EmptySet DEF Balanced
  <1>8. IFDEFS = <<>> /\ enabled
    BY <1>0, <1>7, EmptySeq DEF Shape, Nested
  <1>9. Shape'
    <2>1. IsSeq(filestack') /\ IsSeq(constructs') /\ DOMAIN constructs' = {}
      BY <1>1 DEF IsSeq
    <2> QED
      BY <1>0, <1>1, <2>1 DEF Shape, conditions
  <1> QED
    BY <1>0, <1>1, <1>8, <1>9 DEF IInv, Idle, conditions

\* A syntax error drops the stacks and leaves has_errors set.
LEMMA SyntaxErrorInv ==
  ASSUME IInv, filestack # <<>>, SyntaxError, UNCHANGED phase
  PROVE  IInv'
  <1>1. /\ filestack' = <<>> /\ constructs' = <<>> /\ has_errors'
        /\ UNCHANGED conditions
    BY DEF SyntaxError
  <1>2. IsSeq(filestack') /\ IsSeq(constructs') /\ DOMAIN constructs' = {}
    BY <1>1 DEF IsSeq
  <1>3. Shape'
    BY <1>1, <1>2 DEF IInv, Shape, conditions
  <1> QED
    BY <1>1, <1>3 DEF IInv, Idle, conditions

\* A pass starts.
LEMMA OpenedInv ==
  ASSUME IInv, Idle, ~has_errors, NEW f, NEW lines, Opened(f, lines),
         UNCHANGED conditions, phase' # "start"
  PROVE  IInv'
  <1> DEFINE e == [file |-> f, rest |-> lines]
             c == Construct("file", FALSE, <<>>)
  <1>1. /\ filestack' = <<e>> /\ constructs' = <<c>>
        /\ IsConstruct(c) /\ c.kind = "file"
    BY DEF Opened, Construct, IsConstruct, Kinds
  <1> HIDE DEF e, c
  <1>2. IsSeq(filestack') /\ Len(filestack') = 1 /\ filestack' # <<>>
    <2>1. <<e>> \in Seq({e}) /\ Len(<<e>>) = 1
      OBVIOUS
    <2> QED
      BY <1>1, <2>1, SeqIsSeq, IsSeqLen
  <1>3. /\ IsSeq(constructs') /\ constructs' # <<>> /\ constructs'[1] = c
        /\ DOMAIN constructs' = {1}
    <2>1. <<c>> \in Seq({c}) /\ Len(<<c>>) = 1 /\ <<c>>[1] = c
      OBVIOUS
    <2>2. IsSeq(constructs') /\ Len(constructs') = 1 /\ constructs'[1] = c
      BY <1>1, <2>1, SeqIsSeq
    <2>3. constructs' # <<>> /\ DOMAIN constructs' = 1 .. 1
      BY <2>2, IsSeqLen
    <2> QED
      BY <2>2, <2>3
  <1>4. IFDEFS' = <<>> /\ enabled' = TRUE
    BY DEF IInv, conditions, Shape
  <1>5. FilesOf(constructs') = {1} /\ Conds(constructs') = {}
    BY <1>1, <1>3 DEF FilesOf, Conds
  <1>6. Cardinality(FilesOf(constructs')) = 1 /\ Cardinality(Conds(constructs')) = 0
    BY <1>5, FS_Singleton, FS_EmptySet
  <1>7. Len(IFDEFS') = 0 /\ DOMAIN IFDEFS' = {} /\ IFDEFS' \in Seq(BOOLEAN)
    BY <1>4
  <1>8. Shape'
    BY <1>1, <1>2, <1>3, <1>4, <1>7 DEF Shape
  <1>9. Balanced'
    BY <1>1, <1>2, <1>3, <1>6, <1>7 DEF Balanced
  <1>10. Nested'
    BY <1>4, <1>7 DEF Nested
  <1> QED
    BY <1>2, <1>8, <1>9, <1>10 DEF IInv, Idle

\* A step that touches neither the stacks nor the conditions.
LEMMA UntouchedInv ==
  ASSUME IInv, UNCHANGED <<reading, conditions>>,
         has_errors => has_errors', phase' = "start" => phase = "start" /\ ~has_errors'
  PROVE  IInv'
  BY DEF IInv, Shape, Balanced, Nested, Idle, reading, conditions
-----------------------------------------------------------------------------
LEMMA InitInv == Init => IInv
  <1> SUFFICES ASSUME Init PROVE IInv
    OBVIOUS
  <1>1. /\ filestack = <<>> /\ constructs = <<>> /\ IFDEFS = <<>>
        /\ enabled = TRUE /\ has_errors = FALSE
    BY DEF Init, PreprocessorInit
  <1>2. IsSeq(filestack) /\ IsSeq(constructs) /\ DOMAIN constructs = {} /\ IFDEFS \in Seq(BOOLEAN)
    BY <1>1 DEF IsSeq
  <1>3. Shape
    BY <1>1, <1>2 DEF Shape
  <1> QED
    BY <1>1, <1>3 DEF IInv, Idle

LEMMA IncludeInv ==
  ASSUME IInv, Include \/ IncludeOnce, UNCHANGED phase
  PROVE  IInv'
  <1>1. filestack # <<>> /\ UNCHANGED conditions
    BY DEF Include, IncludeOnce, Reading
  <1>2. (\E f : Open(f)) \/ Skip(<<>>)
    <2>1. CASE Include
      BY <2>1 DEF Include
    <2>2. CASE IncludeOnce
      BY <2>2 DEF IncludeOnce
    <2> QED
      BY <2>1, <2>2
  <1>3. CASE \E f : Open(f)
    BY <1>1, <1>3, OpenInv
  <1>4. CASE Skip(<<>>)
    BY <1>1, <1>4, SkipInv
  <1> QED
    BY <1>2, <1>3, <1>4

LEMMA PreprocessLineInv ==
  ASSUME IInv, PreprocessLine, UNCHANGED phase
  PROVE  IInv'
  <1>1. CASE Text
    BY <1>1, SkipInv DEF Text, Reading
  <1>2. CASE MacroCall
    BY <1>2, MacroCallInv
  <1>3. CASE Define \/ Undef \/ ErrorMsg
    BY <1>3, SkipInv DEF Define, Undef, ErrorMsg, Reading
  <1>4. CASE PragmaOnce
    BY <1>4, SkipInv DEF PragmaOnce, Reading
  <1>5. CASE IfHeader
    BY <1>5, IfHeaderInv
  <1>6. CASE Else
    BY <1>6, ElseInv
  <1>7. CASE EndIf
    BY <1>7, EndIfInv
  <1>8. CASE UnexpectedDirective
    BY <1>8, SyntaxErrorInv DEF UnexpectedDirective, Reading
  <1>9. CASE Include \/ IncludeOnce
    BY <1>9, IncludeInv
  <1>10. CASE EndFile
    BY <1>10, EndFileInv
  <1>11. CASE EndInput
    BY <1>11, EndInputInv
  <1>12. CASE UnexpectedEnd
    BY <1>12, SyntaxErrorInv DEF UnexpectedEnd, AtEnd
  <1> QED
    BY <1>1, <1>2, <1>3, <1>4, <1>5, <1>6, <1>7, <1>8, <1>9, <1>10, <1>11, <1>12
       DEF PreprocessLine

LEMMA NextInv == IInv /\ [Next]_vars => IInv'
  <1> SUFFICES ASSUME IInv, [Next]_vars PROVE IInv'
    OBVIOUS
  <1>1. CASE PreprocessLine /\ UNCHANGED <<phase, optimize, defines, input_, REQUIRES>>
    BY <1>1, PreprocessLineInv
  <1>2. CASE Preprocess
    <2>1. phase = "start" /\ phase' = "basic" /\ Opened(Main, content[Main]) /\ UNCHANGED conditions
      BY <1>2 DEF Preprocess
    <2>2. Idle /\ ~has_errors
      BY <2>1 DEF IInv
    <2> QED
      BY <2>1, <2>2, OpenedInv
  <1>3. CASE Translate
    <2>1. /\ Idle /\ ~has_errors /\ phase' = "asm" /\ UNCHANGED conditions
          /\ \E lines : Opened(Main, lines)
      BY <1>3 DEF Translate
    <2> QED
      BY <2>1, OpenedInv
  <1>4. CASE Assemble
    <2>1. /\ UNCHANGED <<reading, conditions>> /\ ~has_errors /\ phase' # "start"
      BY <1>4 DEF Assemble
    <2> QED
      BY <2>1, UntouchedInv
  <1>5. CASE ExitWithErrors
    <2>1. /\ UNCHANGED <<reading, conditions, has_errors>> /\ phase' # "start"
      BY <1>5 DEF ExitWithErrors, ppvars
    <2> QED
      BY <2>1, UntouchedInv
  <1>6. CASE UNCHANGED vars
    <2>1. UNCHANGED <<reading, conditions, has_errors, phase>>
      BY <1>6 DEF vars, ppvars
    <2> QED
      BY <2>1, UntouchedInv DEF IInv
  <1> QED
    BY <1>1, <1>2, <1>3, <1>4, <1>5, <1>6 DEF Next

LEMMA IInvMatches == IInv => ConditionsMatch
  <1> SUFFICES ASSUME IInv PROVE ConditionsMatch
    OBVIOUS
  <1>1. CASE filestack # <<>>
    <2>1. Len(IFDEFS) = Cardinality(Conditionals)
      BY <1>1 DEF IInv, Balanced, Conds, Conditionals
    <2>2. DOMAIN IFDEFS = 1 .. Len(IFDEFS) /\ Len(IFDEFS) \in Nat
      BY LenProperties DEF IInv, Shape
    <2>3. enabled => \A i \in DOMAIN IFDEFS : IFDEFS[i]
      BY <1>1 DEF IInv, Nested
    <2>4. \A i \in 2 .. Len(IFDEFS) : IFDEFS[i] => IFDEFS[i - 1]
      <3> SUFFICES ASSUME NEW i \in 2 .. Len(IFDEFS), IFDEFS[i] PROVE IFDEFS[i - 1]
        OBVIOUS
      <3>1. i \in DOMAIN IFDEFS /\ i - 1 \in DOMAIN IFDEFS /\ i - 1 <= i
        BY <2>2
      <3> QED
        BY <1>1, <3>1 DEF IInv, Nested
    <2> QED
      BY <1>1, <2>1, <2>3, <2>4 DEF ConditionsMatch, Idle
  <1>2. CASE filestack = <<>>
    BY <1>2 DEF IInv, Idle, ConditionsMatch
  <1> QED
    BY <1>1, <1>2

\* In every state of every compilation the saved values of enabled are those of
\* the conditionals open in the parser, a line is enabled only inside what is
\* enabled, and a pass that ended without an error left nothing open for the
\* next (zxbpp.py p_if_header, p_ifdef, p_ifdef_else, include_end).
THEOREM CompilerConditionsMatch == Spec => []ConditionsMatch
  <1>1. Init => IInv
    BY InitInv
  <1>2. IInv /\ [Next]_vars => IInv'
    BY NextInv
  <1>3. IInv => ConditionsMatch
    BY IInvMatches
  <1> QED
    BY <1>1, <1>2, <1>3, PTL DEF Spec
-----------------------------------------------------------------------------
\* Recursion over the places of a sequence.

\* What holds of 0 and of each successor holds of every natural.
LEMMA Induction ==
  ASSUME NEW S, 0 \in S, \A n \in Nat : n \in S => n + 1 \in S
  PROVE  Nat \subseteq S
  <1> SUFFICES ASSUME NEW T, T = Nat \ S, T # {} PROVE FALSE
    OBVIOUS
  <1> DEFINE R == OpToRel(<, Nat)
  <1>1. IsWellFoundedOn(R, Nat)
    BY NatLessThanWellFounded
  <1>2. \A x, y \in Nat : <<x, y>> \in R <=> x < y
    BY DEF OpToRel
  <1> HIDE DEF R
  <1>3. PICK n \in T : \A k \in T : ~ (<<k, n>> \in R)
    BY <1>1, WFMin
  <1>4. n - 1 \in Nat /\ (n - 1) + 1 = n /\ n - 1 < n
    BY <1>3
  <1>5. n - 1 \notin T
    BY <1>2, <1>3, <1>4
  <1> QED
    BY <1>3, <1>4, <1>5

\* The texts of the first i of a sequence of sequences put together.
Flattens(ss, f) ==
  f = [i \in 1 .. Len(ss) |-> IF i = 1 THEN ss[i] ELSE f[i - 1] \o ss[i]]

LEMMA FlattensTyped ==
  ASSUME NEW L, NEW ss \in Seq(Seq(L)), NEW f, Flattens(ss, f)
  PROVE  \A i \in 1 .. Len(ss) : f[i] \in Seq(L)
  <1>1. Len(ss) \in Nat /\ \A i \in 1 .. Len(ss) : ss[i] \in Seq(L)
    OBVIOUS
  <1> DEFINE X == {n \in Nat : n \in 1 .. Len(ss) => f[n] \in Seq(L)}
  <1>2. 0 \in X
    BY <1>1
  <1>3. ASSUME NEW n \in Nat, n \in X PROVE n + 1 \in X
    <2> SUFFICES ASSUME n + 1 \in 1 .. Len(ss) PROVE f[n + 1] \in Seq(L)
      BY <1>1
    <2>1. f[n + 1] = IF n + 1 = 1 THEN ss[n + 1] ELSE f[(n + 1) - 1] \o ss[n + 1]
      BY DEF Flattens
    <2>2. ss[n + 1] \in Seq(L)
      BY <1>1
    <2>3. CASE n = 0
      BY <2>1, <2>2, <2>3
    <2>4. CASE n # 0
      <3>1. n \in 1 .. Len(ss) /\ (n + 1) - 1 = n /\ n + 1 # 1
        BY <1>1, <2>4
      <3>2. f[n] \in Seq(L) /\ f[n + 1] = f[n] \o ss[n + 1]
        BY <1>3, <2>1, <3>1
      <3> QED
        BY <2>2, <3>2, ConcatProperties
    <2> QED
      BY <2>3, <2>4
  <1> HIDE DEF X
  <1>4. Nat \subseteq X
    BY <1>2, <1>3, Induction
  <1> QED
    BY <1>1, <1>4 DEF X

LEMMA FlattensExists ==
  ASSUME NEW L, NEW ss \in Seq(Seq(L))
  PROVE  \E f : Flattens(ss, f)
  <1>1. Len(ss) \in Nat /\ \A i \in 1 .. Len(ss) : ss[i] \in Seq(L)
    OBVIOUS
  <1> DEFINE Upto(n, g) == g = [i \in 1 .. n |-> IF i = 1 THEN ss[i] ELSE g[i - 1] \o ss[i]]
             X == {n \in Nat : \E g : Upto(n, g)}
  <1>2. 0 \in X
    <2>1. Upto(0, [i \in 1 .. 0 |-> ss[i]])
      OBVIOUS
    <2> QED
      BY <2>1
  <1>3. ASSUME NEW n \in Nat, n \in X PROVE n + 1 \in X
    <2>1. PICK g : Upto(n, g)
      BY <1>3
    <2> DEFINE e == IF n + 1 = 1 THEN ss[n + 1] ELSE g[n] \o ss[n + 1]
               h == [i \in 1 .. n + 1 |-> IF i = n + 1 THEN e ELSE g[i]]
    <2>2. ASSUME NEW i \in 1 .. n + 1
          PROVE  h[i] = IF i = 1 THEN ss[i] ELSE h[i - 1] \o ss[i]
      <3>1. CASE i = n + 1
        <4>1. CASE n = 0
          BY <3>1, <4>1
        <4>2. CASE n # 0
          <5>1. i - 1 = n /\ n \in 1 .. n + 1 /\ n # n + 1 /\ i # 1
            BY <3>1, <4>2
          <5>2. h[i - 1] = g[n] /\ h[i] = e
            BY <3>1, <5>1
          <5> QED
            BY <3>1, <4>2, <5>1, <5>2
        <4> QED
          BY <4>1, <4>2
      <3>2. CASE i # n + 1
        <4>1. i \in 1 .. n /\ h[i] = g[i]
          BY <3>2
        <4>2. g[i] = IF i = 1 THEN ss[i] ELSE g[i - 1] \o ss[i]
          BY <2>1, <4>1
        <4>3. i # 1 => i - 1 \in 1 .. n + 1 /\ i - 1 # n + 1
          BY <4>1
        <4>4. i # 1 => h[i - 1] = g[i - 1]
          BY <4>3
        <4> QED
          BY <4>1, <4>2, <4>4
      <3> QED
        BY <3>1, <3>2
    <2>3. h = [i \in 1 .. n + 1 |-> h[i]]
      OBVIOUS
    <2> HIDE DEF h
    <2>4. Upto(n + 1, h)
      BY <2>2, <2>3
    <2> HIDE DEF Upto
    <2>5. \E k : Upto(n + 1, k)
      BY <2>4
    <2> QED
      BY <2>5
  <1> HIDE DEF X
  <1>4. Nat \subseteq X
    BY <1>2, <1>3, Induction
  <1>5. \E g : Upto(Len(ss), g)
    BY <1>1, <1>4 DEF X
  <1> QED
    BY <1>5 DEF Flattens

LEMMA FlattenTyped ==
  ASSUME NEW L, NEW ss \in Seq(Seq(L))
  PROVE  FlattenSeq(ss) \in Seq(L)
  <1>1. CASE Len(ss) = 0
    <2>1. ss = <<>>
      BY <1>1, EmptySeq
    <2> QED
      BY <1>1, <2>1 DEF FlattenSeq
  <1>2. CASE Len(ss) # 0
    <2> DEFINE g == CHOOSE f : Flattens(ss, f)
    <2>1. FlattenSeq(ss) = g[Len(ss)]
      BY <1>2 DEF FlattenSeq, Flattens
    <2>2. Flattens(ss, g)
      BY FlattensExists
    <2> HIDE DEF g
    <2>3. Len(ss) \in 1 .. Len(ss)
      BY <1>2, LenProperties
    <2> QED
      BY <2>1, <2>2, <2>3, FlattensTyped
  <1> QED
    BY <1>1, <1>2

\* The elements of a finite set in some order.
LEMMA SetToSeqTyped ==
  ASSUME NEW S, IsFiniteSet(S)
  PROVE  SetToSeq(S) \in Seq(S) /\ Len(SetToSeq(S)) = Cardinality(S)
  <1>1. PICK n \in Nat : ExistsBijection(1 .. n, S)
    BY FS_NatBijection
  <1>2. Cardinality(S) = n
    BY <1>1, FS_CountingElements
  <1>3. \E f \in [1 .. Cardinality(S) -> S] : IsInjective(f)
    BY <1>1, <1>2 DEF ExistsBijection, Bijection, Injection
  <1>4. SetToSeq(S) \in [1 .. n -> S]
    BY <1>2, <1>3 DEF SetToSeq
  <1> QED
    BY <1>2, <1>4

\* Each of them is there once.
LEMMA SetToSeqOnce ==
  ASSUME NEW S, IsFiniteSet(S), NEW x \in S
  PROVE  \E k \in DOMAIN SetToSeq(S) :
           SetToSeq(S)[k] = x /\ \A j \in DOMAIN SetToSeq(S) : j # k => SetToSeq(S)[j] # x
  <1>1. PICK n \in Nat : ExistsBijection(1 .. n, S)
    BY FS_NatBijection
  <1>2. Cardinality(S) = n
    BY <1>1, FS_CountingElements
  <1>3. \E f \in [1 .. Cardinality(S) -> S] : IsInjective(f)
    BY <1>1, <1>2 DEF ExistsBijection, Bijection, Injection
  <1>4. PICK q : q = SetToSeq(S)
    OBVIOUS
  <1>5. q \in [1 .. n -> S] /\ IsInjective(q)
    BY <1>2, <1>3, <1>4 DEF SetToSeq
  <1>6. q \in Injection(1 .. n, S)
    BY <1>5 DEF Injection
  <1>7. Cardinality(1 .. n) = n
    BY FS_Interval
  <1>8. q \in Surjection(1 .. n, S)
    BY <1>2, <1>6, <1>7, FS_Injection
  <1>9. PICK k \in 1 .. n : q[k] = x
    BY <1>8 DEF Surjection
  <1>10. \A j \in 1 .. n : q[j] = q[k] => j = k
    BY <1>5 DEF IsInjective
  <1> QED
    BY <1>4, <1>5, <1>9, <1>10
-----------------------------------------------------------------------------
\* Type correctness.  The lines there can be are those of the files, the one
\* that stands for a file not found and the includes of the generated code.
FileLines == UNION {UNION {Range(c[f]) : f \in File} : c \in Contents}
RuntimeLines == [op : {"include_once"}, arg : Rel, flag : {FALSE}]
WrittenLines == FileLines \cup {Blank} \cup RuntimeLines

AnyFile == File \cup {NoFile}
Frames == [file : AnyFile, rest : Seq(WrittenLines)]
Constructs == [kind : Kinds, hdr : BOOLEAN, kept : Seq(WrittenLines),
               prog : Seq(WrittenLines), any : BOOLEAN]

TypedText ==
  /\ content \in Contents
  /\ filestack \in Seq(Frames) /\ constructs \in Seq(Constructs)
  /\ OUTPUT \in Seq(WrittenLines)

\* CURRENT_FILE is never behind the files being read, so that a file that ends
\* leaves the name of the one that includes it.
TypedFiles ==
  /\ DOMAIN INCLUDED \subseteq AnyFile
  /\ \A f \in DOMAIN INCLUDED : INCLUDED[f] \in BOOLEAN
  /\ CURRENT_FILE \in Seq(AnyFile) /\ CURRENT_DIR \in Dir
  /\ Len(filestack) <= Len(CURRENT_FILE)

TypedRest ==
  /\ phase \in {"start", "basic", "asm", "built", "failed"}
  /\ optimize \in BOOLEAN /\ has_errors \in BOOLEAN
  /\ ID_TABLE \subseteq Macro /\ defines \subseteq Macro
  /\ REQUIRES \subseteq Rel

TypedInv == IInv /\ TypedText /\ TypedFiles /\ TypedRest

LEMMA LineTyped ==
  ASSUME NEW l \in WrittenLines
  PROVE  /\ l.op \in {"define", "option"} => l.arg \in Macro
         /\ l.op \in {"include", "include_once"} => l.arg \in Rel
  <1>1. CASE l \in FileLines
    <2>1. PICK c \in Contents, f \in File : l \in Range(c[f])
      BY <1>1 DEF FileLines
    <2> QED
      BY <2>1, PreprocessorAssumption
  <1>2. CASE l = Blank
    BY <1>2 DEF Blank
  <1>3. CASE l \in RuntimeLines
    BY <1>3 DEF RuntimeLines
  <1> QED
    BY <1>1, <1>2, <1>3 DEF WrittenLines

LEMMA LinesTyped ==
  ASSUME content \in Contents, NEW f \in AnyFile
  PROVE  Lines(f) \in Seq(WrittenLines)
  <1>1. CASE f = NoFile
    <2>1. Lines(f) = <<Blank>> /\ Blank \in WrittenLines
      BY <1>1 DEF Lines, WrittenLines
    <2> QED
      BY <2>1
  <1>2. CASE f # NoFile
    <2>1. f \in File /\ Lines(f) = content[f]
      BY <1>2 DEF Lines, AnyFile
    <2>2. content[f] \in Seq(Range(content[f]))
      BY <2>1, PreprocessorAssumption
    <2>3. Range(content[f]) \subseteq WrittenLines
      BY <2>1 DEF WrittenLines, FileLines
    <2> QED
      BY <2>1, <2>2, <2>3, SeqMonotonic
  <1> QED
    BY <1>1, <1>2

LEMMA EndTyped ==
  ASSUME NEW S, NEW s \in Seq(S), s # <<>>
  PROVE  /\ Len(s) \in Nat /\ Len(s) > 0 /\ DOMAIN s = 1 .. Len(s) /\ Len(s) \in DOMAIN s
         /\ Last(s) = s[Len(s)] /\ Last(s) \in S
         /\ Front(s) \in Seq(S) /\ Len(Front(s)) = Len(s) - 1
  <1>1. Len(s) \in Nat /\ Len(s) > 0 /\ DOMAIN s = 1 .. Len(s)
    BY EmptySeq, LenProperties
  <1>2. \A i \in 1 .. Len(s) : s[i] \in S
    BY ElementOfSeq
  <1>3. Front(s) \in Seq(S) /\ Len(Front(s)) = Len(s) - 1
    BY <1>1, <1>2, SubSeqProperties DEF Front
  <1> QED
    BY <1>1, <1>2, <1>3 DEF Last

LEMMA LineRead ==
  ASSUME TypedText, filestack # <<>>, Last(filestack).rest # <<>>
  PROVE  /\ Line \in WrittenLines
         /\ Advanced \in Seq(Frames) /\ Len(Advanced) = Len(filestack)
  <1>1. /\ filestack \in Seq(Frames) /\ Len(filestack) \in Nat
        /\ Len(filestack) \in 1 .. Len(filestack)
        /\ Last(filestack) = filestack[Len(filestack)] /\ Last(filestack) \in Frames
    BY EndTyped DEF TypedText
  <1>2. Last(filestack).rest \in Seq(WrittenLines) /\ Last(filestack).rest # <<>>
    BY <1>1 DEF Frames
  <1>3. Head(Last(filestack).rest) \in WrittenLines /\ Tail(Last(filestack).rest) \in Seq(WrittenLines)
    BY <1>2, HeadTailProperties
  <1>4. PICK e : e = [Last(filestack) EXCEPT !.rest = Tail(@)]
    OBVIOUS
  <1>5. e \in Frames
    BY <1>1, <1>3, <1>4 DEF Frames
  <1>6. Advanced = [filestack EXCEPT ![Len(filestack)] = e]
    BY <1>1, <1>4 DEF Advanced
  <1> QED
    BY <1>1, <1>3, <1>5, <1>6, ExceptSeq DEF Line

LEMMA AddedTyped ==
  ASSUME NEW cs \in Seq(Constructs), cs # <<>>, NEW text \in Seq(WrittenLines)
  PROVE  Added(cs, text) \in Seq(Constructs)
  <1>1. /\ Len(cs) \in Nat /\ Len(cs) \in 1 .. Len(cs) /\ cs[Len(cs)] \in Constructs
    BY EndTyped
  <1>2. PICK c : c = [cs[Len(cs)] EXCEPT !.prog = @ \o text, !.any = TRUE]
    OBVIOUS
  <1>3. cs[Len(cs)].prog \o text \in Seq(WrittenLines)
    BY <1>1, ConcatProperties DEF Constructs
  <1>4. c \in Constructs
    BY <1>1, <1>2, <1>3 DEF Constructs
  <1>5. Added(cs, text) = [cs EXCEPT ![Len(cs)] = c]
    BY <1>1, <1>2 DEF Added
  <1> QED
    BY <1>1, <1>4, <1>5, ExceptSeq

LEMMA ConstructTyped ==
  ASSUME NEW k \in Kinds, NEW h \in BOOLEAN, NEW kept \in Seq(WrittenLines)
  PROVE  Construct(k, h, kept) \in Constructs
  BY DEF Construct, Constructs
-----------------------------------------------------------------------------
\* What the steps of the parser have in common.
LEMMA ConstructsOpen ==
  ASSUME TypedInv, filestack # <<>>
  PROVE  /\ constructs \in Seq(Constructs) /\ constructs # <<>> /\ Top \in Constructs
         /\ Len(constructs) \in Nat /\ Len(constructs) \in 1 .. Len(constructs)
  <1>1. constructs \in Seq(Constructs) /\ constructs # <<>>
    BY DEF TypedInv, TypedText, IInv, Balanced
  <1> QED
    BY <1>1, EndTyped DEF Top

LEMMA SkipTyped ==
  ASSUME TypedInv, filestack # <<>>, Last(filestack).rest # <<>>,
         NEW text \in Seq(WrittenLines), Skip(text), UNCHANGED <<content, OUTPUT>>
  PROVE  TypedText' /\ Len(filestack') = Len(filestack)
  <1>1. filestack' \in Seq(Frames) /\ Len(filestack') = Len(filestack)
    BY LineRead DEF TypedInv, Skip
  <1>2. constructs' \in Seq(Constructs)
    BY ConstructsOpen, AddedTyped DEF Skip
  <1> QED
    BY <1>1, <1>2 DEF TypedInv, TypedText

LEMMA FilesKept ==
  ASSUME TypedFiles, UNCHANGED files, Len(filestack') <= Len(filestack),
         filestack \in Seq(Frames), filestack' \in Seq(Frames)
  PROVE  TypedFiles'
  <1>1. Len(filestack) \in Nat /\ Len(filestack') \in Nat /\ Len(CURRENT_FILE) \in Nat
    BY LenProperties DEF TypedFiles
  <1>2. UNCHANGED <<INCLUDED, CURRENT_FILE, CURRENT_DIR>>
    BY DEF files
  <1>3. Len(filestack') <= Len(CURRENT_FILE)
    BY <1>1 DEF TypedFiles
  <1> QED
    BY <1>2, <1>3 DEF TypedFiles

LEMMA SkipKeeps ==
  ASSUME TypedInv, filestack # <<>>, Last(filestack).rest # <<>>,
         NEW text \in Seq(WrittenLines), Skip(text), UNCHANGED <<content, OUTPUT, files>>
  PROVE  TypedText' /\ TypedFiles'
  <1>1. TypedText' /\ Len(filestack') = Len(filestack)
    BY SkipTyped
  <1>2. filestack \in Seq(Frames) /\ filestack' \in Seq(Frames) /\ Len(filestack) \in Nat
    BY <1>1, LenProperties DEF TypedInv, TypedText
  <1> QED
    BY <1>1, <1>2, FilesKept DEF TypedInv

\* What the driver keeps through a pass.
Driver == <<phase, optimize, defines, input_, REQUIRES>>

LEMMA TextTyped ==
  ASSUME TypedInv, Text, UNCHANGED Driver
  PROVE  TypedText' /\ TypedFiles' /\ TypedRest'
  <1>1. /\ filestack # <<>> /\ Last(filestack).rest # <<>>
        /\ Skip(<<Line>>) /\ UNCHANGED <<content, OUTPUT, files>>
    BY DEF Text, Reading
  <1>2. <<Line>> \in Seq(WrittenLines)
    BY <1>1, LineRead DEF TypedInv
  <1> QED
    BY <1>1, <1>2, SkipKeeps DEF Text, TypedInv, TypedRest, Driver

LEMMA MacroCallTyped ==
  ASSUME TypedInv, MacroCall, UNCHANGED Driver
  PROVE  TypedText' /\ TypedFiles' /\ TypedRest'
  <1>1. /\ filestack # <<>> /\ Last(filestack).rest # <<>> /\ UNCHANGED <<content, OUTPUT, files, ID_TABLE>>
    BY DEF MacroCall, Reading
  <1>2. CASE Line.arg \notin ID_TABLE
    <2>1. <<Line>> \in Seq(WrittenLines) /\ Skip(<<Line>>) /\ UNCHANGED has_errors
      BY <1>1, <1>2, LineRead DEF TypedInv, MacroCall
    <2> QED
      BY <1>1, <2>1, SkipKeeps DEF TypedInv, TypedRest, Driver
  <1>3. CASE Line.arg \in ID_TABLE
    <2>1. /\ has_errors' = TRUE /\ filestack' = Advanced
          /\ constructs' = [constructs EXCEPT ![Len(constructs)].prog = <<>>,
                                              ![Len(constructs)].any = TRUE]
      BY <1>3 DEF MacroCall
    <2>2. PICK c : c = [Top EXCEPT !.prog = <<>>, !.any = TRUE]
      OBVIOUS
    <2>3. c \in Constructs
      <3>1. Top \in Constructs /\ <<>> \in Seq(WrittenLines)
        BY <1>1, ConstructsOpen, EmptySeq
      <3> QED
        BY <2>2, <3>1 DEF Constructs
    <2>4. constructs' = [constructs EXCEPT ![Len(constructs)] = c]
      BY <2>1, <2>2 DEF Top, Last
    <2>5. constructs' \in Seq(Constructs)
      BY <1>1, <2>3, <2>4, ConstructsOpen, ExceptSeq
    <2>6. filestack' \in Seq(Frames) /\ Len(filestack') = Len(filestack)
      BY <1>1, <2>1, LineRead DEF TypedInv
    <2>7. TypedText'
      BY <1>1, <2>5, <2>6 DEF TypedInv, TypedText
    <2>8. filestack \in Seq(Frames) /\ Len(filestack) \in Nat
      BY LenProperties DEF TypedInv, TypedText
    <2>9. TypedFiles'
      BY <1>1, <2>6, <2>8, FilesKept DEF TypedInv
    <2> QED
      BY <1>1, <2>1, <2>7, <2>9 DEF TypedInv, TypedRest, Driver
  <1> QED
    BY <1>2, <1>3

LEMMA DefineTyped ==
  ASSUME TypedInv, Define \/ Undef, UNCHANGED Driver
  PROVE  TypedText' /\ TypedFiles' /\ TypedRest'
  <1>1. /\ filestack # <<>> /\ Last(filestack).rest # <<>>
        /\ Skip(<<>>) /\ UNCHANGED <<content, OUTPUT, files, has_errors>>
    BY DEF Define, Undef, Reading
  <1>2. TypedText' /\ TypedFiles'
    BY <1>1, SkipKeeps, EmptySeq
  <1>3. ID_TABLE' \subseteq Macro
    <2>1. CASE Define
      <3>1. Line.arg \in Macro
        BY <1>1, <2>1, LineRead, LineTyped DEF Define, Reading, TypedInv
      <3> QED
        BY <2>1, <3>1 DEF Define, TypedInv, TypedRest
    <2>2. CASE Undef
      BY <2>2 DEF Undef, TypedInv, TypedRest
    <2> QED
      BY <2>1, <2>2
  <1> QED
    BY <1>1, <1>2, <1>3 DEF TypedInv, TypedRest, Driver

LEMMA ErrorMsgTyped ==
  ASSUME TypedInv, ErrorMsg, UNCHANGED Driver
  PROVE  TypedText' /\ TypedFiles' /\ TypedRest'
  <1>1. /\ filestack # <<>> /\ Last(filestack).rest # <<>>
        /\ Skip(<<>>) /\ UNCHANGED <<content, OUTPUT, files, ID_TABLE>>
    BY DEF ErrorMsg, Reading
  <1>2. has_errors' \in BOOLEAN
    BY DEF ErrorMsg
  <1>3. TypedText' /\ TypedFiles'
    BY <1>1, SkipKeeps, EmptySeq
  <1> QED
    BY <1>1, <1>2, <1>3 DEF TypedInv, TypedRest, Driver

LEMMA PragmaOnceTyped ==
  ASSUME TypedInv, PragmaOnce, UNCHANGED Driver
  PROVE  TypedText' /\ TypedFiles' /\ TypedRest'
  <1>1. /\ filestack # <<>> /\ Last(filestack).rest # <<>>
        /\ Skip(<<>>) /\ UNCHANGED <<content, OUTPUT, ID_TABLE, has_errors, CURRENT_FILE, CURRENT_DIR>>
        /\ INCLUDED' = [f \in DOMAIN INCLUDED \cup {Last(CURRENT_FILE)} |->
                          f = Last(CURRENT_FILE) \/ INCLUDED[f]]
    BY DEF PragmaOnce, Reading
  <1>2. TypedText' /\ Len(filestack') = Len(filestack)
    BY <1>1, SkipTyped, EmptySeq
  <1>3. Last(CURRENT_FILE) \in AnyFile
    <2>1. Len(filestack) > 0 /\ Len(filestack) \in Nat
      BY <1>1, EndTyped DEF TypedInv, TypedText
    <2>2. CURRENT_FILE \in Seq(AnyFile) /\ Len(CURRENT_FILE) \in Nat /\ Len(CURRENT_FILE) > 0
      BY <2>1, LenProperties DEF TypedInv, TypedFiles
    <2>3. CURRENT_FILE # <<>>
      BY <2>2, EmptySeq
    <2> QED
      BY <2>2, <2>3, EndTyped
  <1>4. DOMAIN INCLUDED' \subseteq AnyFile /\ \A f \in DOMAIN INCLUDED' : INCLUDED'[f] \in BOOLEAN
    BY <1>1, <1>3 DEF TypedInv, TypedFiles
  <1>5. TypedFiles'
    BY <1>1, <1>2, <1>4 DEF TypedInv, TypedFiles
  <1> QED
    BY <1>1, <1>2, <1>5 DEF TypedInv, TypedRest, Driver

LEMMA IfHeaderTyped ==
  ASSUME TypedInv, IfHeader, UNCHANGED Driver
  PROVE  TypedText' /\ TypedFiles' /\ TypedRest'
  <1> DEFINE hdr == enabled /\ ((Line.arg \in ID_TABLE) # Line.flag)
  <1>1. /\ filestack # <<>> /\ Last(filestack).rest # <<>>
        /\ constructs' = Append(constructs, Construct("if", hdr, <<>>))
        /\ filestack' = Advanced
        /\ UNCHANGED <<content, OUTPUT, files, ID_TABLE, has_errors>>
    BY DEF IfHeader, Reading
  <1>2. hdr \in BOOLEAN
    OBVIOUS
  <1> HIDE DEF hdr
  <1>3. Construct("if", hdr, <<>>) \in Constructs
    BY <1>2, ConstructTyped, EmptySeq DEF Kinds
  <1>4. constructs' \in Seq(Constructs)
    BY <1>1, <1>3, ConstructsOpen, AppendProperties
  <1>5. filestack' \in Seq(Frames) /\ Len(filestack') = Len(filestack)
    BY <1>1, LineRead DEF TypedInv
  <1>6. filestack \in Seq(Frames) /\ Len(filestack) \in Nat
    BY LenProperties DEF TypedInv, TypedText
  <1>7. TypedText' /\ TypedFiles'
    BY <1>1, <1>4, <1>5, <1>6, FilesKept DEF TypedInv, TypedText
  <1> QED
    BY <1>1, <1>7 DEF TypedInv, TypedRest, Driver

LEMMA ElseTyped ==
  ASSUME TypedInv, Else, UNCHANGED Driver
  PROVE  TypedText' /\ TypedFiles' /\ TypedRest'
  <1> DEFINE kept == IF Last(IFDEFS) /\ Top.hdr THEN Top.prog ELSE <<>>
  <1>1. /\ filestack # <<>> /\ Last(filestack).rest # <<>>
        /\ constructs' = [constructs EXCEPT ![Len(constructs)] = Construct("else", FALSE, kept)]
        /\ filestack' = Advanced
        /\ UNCHANGED <<content, OUTPUT, files, ID_TABLE, has_errors>>
    BY DEF Else, Reading
  <1>2. kept \in Seq(WrittenLines)
    BY <1>1, ConstructsOpen, EmptySeq DEF Constructs
  <1> HIDE DEF kept
  <1>3. Construct("else", FALSE, kept) \in Constructs
    BY <1>2, ConstructTyped DEF Kinds
  <1>4. constructs' \in Seq(Constructs)
    BY <1>1, <1>3, ConstructsOpen, ExceptSeq
  <1>5. filestack' \in Seq(Frames) /\ Len(filestack') = Len(filestack)
    BY <1>1, LineRead DEF TypedInv
  <1>6. filestack \in Seq(Frames) /\ Len(filestack) \in Nat
    BY LenProperties DEF TypedInv, TypedText
  <1>7. TypedText'
    BY <1>1, <1>4, <1>5 DEF TypedInv, TypedText
  <1>8. TypedFiles'
    BY <1>1, <1>5, <1>6, FilesKept DEF TypedInv
  <1> QED
    BY <1>1, <1>7, <1>8 DEF TypedInv, TypedRest, Driver
-----------------------------------------------------------------------------
LEMMA EndIfTyped ==
  ASSUME TypedInv, EndIf, UNCHANGED Driver
  PROVE  TypedText' /\ TypedFiles' /\ TypedRest'
  <1> DEFINE part == IF enabled THEN Top.prog ELSE <<>>
             text == IF Top.kind = "if" THEN part
                     ELSE IF Last(IFDEFS) THEN Top.kept \o part ELSE <<>>
  <1>1. /\ filestack # <<>> /\ Last(filestack).rest # <<>>
        /\ constructs' = Added(Front(constructs), text)
        /\ filestack' = Advanced
        /\ UNCHANGED <<content, OUTPUT, files, ID_TABLE, has_errors>>
    BY DEF EndIf, Reading
  <1>2. part \in Seq(WrittenLines) /\ Top.kept \in Seq(WrittenLines)
    BY <1>1, ConstructsOpen, EmptySeq DEF Constructs
  <1> HIDE DEF part
  <1>3. text \in Seq(WrittenLines)
    BY <1>2, ConcatProperties, EmptySeq
  <1> HIDE DEF text
  <1>4. Front(constructs) \in Seq(Constructs) /\ Front(constructs) # <<>>
    <2>1. Len(constructs) > 1
      <3>1. Top.kind \in {"if", "else"}
        BY DEF EndIf
      <3>2. Shape /\ Balanced
        BY <1>1 DEF TypedInv, IInv
      <3> QED
        BY <3>1, <3>2, CondsSaved
    <2>2. /\ Front(constructs) \in Seq(Constructs) /\ Len(constructs) \in Nat
          /\ Len(Front(constructs)) = Len(constructs) - 1
      BY <1>1, ConstructsOpen, EndTyped
    <2> QED
      BY <2>1, <2>2, EmptySeq
  <1>5. constructs' \in Seq(Constructs)
    BY <1>1, <1>3, <1>4, AddedTyped
  <1>6. filestack' \in Seq(Frames) /\ Len(filestack') = Len(filestack)
    BY <1>1, LineRead DEF TypedInv
  <1>7. filestack \in Seq(Frames) /\ Len(filestack) \in Nat
    BY LenProperties DEF TypedInv, TypedText
  <1>8. TypedText'
    BY <1>1, <1>5, <1>6 DEF TypedInv, TypedText
  <1>9. TypedFiles'
    BY <1>1, <1>6, <1>7, FilesKept DEF TypedInv
  <1> QED
    BY <1>1, <1>8, <1>9 DEF TypedInv, TypedRest, Driver

LEMMA SyntaxErrorTyped ==
  ASSUME TypedInv, SyntaxError, UNCHANGED Driver
  PROVE  TypedText' /\ TypedFiles' /\ TypedRest'
  <1>1. /\ has_errors' = TRUE /\ filestack' = <<>> /\ constructs' = <<>>
        /\ UNCHANGED <<content, OUTPUT, files, ID_TABLE>>
    BY DEF SyntaxError
  <1>2. filestack' \in Seq(Frames) /\ constructs' \in Seq(Constructs) /\ Len(filestack') = 0
    BY <1>1, EmptySeq
  <1>3. filestack \in Seq(Frames) /\ Len(filestack) \in Nat
    BY LenProperties DEF TypedInv, TypedText
  <1>4. TypedText'
    BY <1>1, <1>2 DEF TypedInv, TypedText
  <1>5. TypedFiles'
    BY <1>1, <1>2, <1>3, FilesKept DEF TypedInv
  <1> QED
    BY <1>1, <1>4, <1>5 DEF TypedInv, TypedRest, Driver

LEMMA SearchTyped ==
  ASSUME CURRENT_DIR \in Dir, NEW r \in Rel \cup AnyFile, NEW here
  PROVE  search_filename(r, here) \in AnyFile
  BY PreprocessorAssumption DEF search_filename, AnyFile

\* The file that an #include line opens: include_once looks up the path it found.
Found == search_filename(Line.arg, Line.flag)
Taken == IF Line.op = "include" THEN Found ELSE search_filename(Found, Line.flag)

\* What an #include line does.
LEMMA IncludeIs ==
  ASSUME Include \/ IncludeOnce
  PROVE  /\ filestack # <<>> /\ Last(filestack).rest # <<>> /\ Line.op \in {"include", "include_once"}
         /\ UNCHANGED <<content, conditions, ID_TABLE, OUTPUT>> /\ has_errors' \in BOOLEAN
         /\ \/ /\ enabled /\ Open(Taken) /\ (~has_errors' => Taken # NoFile)
               /\ Line.op = "include_once" => Found \notin DOMAIN INCLUDED
            \/ /\ Skip(<<>>) /\ UNCHANGED files
               /\ enabled /\ Line.op = "include_once" =>
                    Found \in DOMAIN INCLUDED \/ Taken \in DOMAIN INCLUDED
         /\ enabled /\ ~has_errors' => Found # NoFile
  <1>1. CASE Include
    <2>1. Reading("include") /\ Line.op = "include" /\ Taken = Found
      BY <1>1 DEF Include, Reading, Taken
    <2> QED
      BY <1>1, <2>1 DEF Include, Reading, Found
  <1>2. CASE IncludeOnce
    <2>1. Reading("include_once") /\ Line.op = "include_once" /\ Taken = search_filename(Found, Line.flag)
      BY <1>2 DEF IncludeOnce, Reading, Taken
    <2> QED
      BY <1>2, <2>1 DEF IncludeOnce, Reading, Found
  <1> QED
    BY <1>1, <1>2

LEMMA TakenTyped ==
  ASSUME CURRENT_DIR \in Dir, Line.arg \in Rel
  PROVE  Found \in AnyFile /\ Taken \in AnyFile
  BY SearchTyped DEF Found, Taken

\* A file of the runtime is found again by its path, and no other is taken for it.
LEMMA TakenRuntime ==
  ASSUME CURRENT_DIR \in Dir, Line.arg \in Rel, NEW g \in Runtime
  PROVE  Taken = g <=> Found = g
  <1>1. LibDir \in Dir /\ NoFile \notin Runtime
    BY PreprocessorAssumption, RuntimeAssumption
  <1>2. ASSUME Found \in Runtime PROVE search_filename(Found, Line.flag) = Found
    BY <1>1, <1>2, RuntimeAssumption DEF search_filename
  <1>3. ASSUME Found \notin Runtime PROVE search_filename(Found, Line.flag) \notin Runtime
    <2>1. PICK d \in Dir : /\ Resolve[d][Line.arg] = Found
                           /\ search_filename(Found, Line.flag) =
                                IF Resolve[d][Found] # NoFile THEN Resolve[d][Found] ELSE Resolve[LibDir][Found]
      <3>1. CASE Line.flag /\ Resolve[CURRENT_DIR][Line.arg] # NoFile
        <4>1. Found = Resolve[CURRENT_DIR][Line.arg]
          BY <3>1 DEF Found, search_filename
        <4> QED
          BY <3>1, <4>1 DEF search_filename
      <3>2. CASE ~(Line.flag /\ Resolve[CURRENT_DIR][Line.arg] # NoFile)
        <4>1. Found = Resolve[LibDir][Line.arg]
          BY <3>2 DEF Found, search_filename
        <4>2. Found = NoFile
          BY <1>3, <4>1, RuntimeAssumption
        <4>3. CASE Line.flag
          BY <3>2, <4>2, <4>3 DEF search_filename
        <4>4. CASE ~Line.flag
          BY <1>1, <4>1, <4>4 DEF search_filename
        <4> QED
          BY <4>3, <4>4
      <3> QED
        BY <3>1, <3>2
    <2> QED
      BY <1>3, <2>1, RuntimeAssumption
  <1> QED
    BY <1>2, <1>3 DEF Taken

LEMMA OpenTyped ==
  ASSUME TypedInv, filestack # <<>>, Last(filestack).rest # <<>>,
         NEW f \in AnyFile, Open(f), UNCHANGED <<content, OUTPUT>>
  PROVE  TypedText' /\ TypedFiles'
  <1>1. /\ INCLUDED' = [g \in DOMAIN INCLUDED \cup {f} |-> g \in DOMAIN INCLUDED /\ INCLUDED[g]]
        /\ CURRENT_FILE' = Append(CURRENT_FILE, f)
        /\ CURRENT_DIR' = DirOf[f]
        /\ filestack' = Append(Advanced, [file |-> f, rest |-> Lines(f)])
        /\ constructs' = Append(constructs, Construct("file", FALSE, <<>>))
    BY DEF Open
  <1>2. Construct("file", FALSE, <<>>) \in Constructs
    BY ConstructTyped, EmptySeq DEF Kinds
  <1>3. constructs' \in Seq(Constructs)
    BY <1>1, <1>2, ConstructsOpen, AppendProperties
  <1>4. [file |-> f, rest |-> Lines(f)] \in Frames
    BY LinesTyped DEF TypedInv, TypedText, Frames
  <1>5. Advanced \in Seq(Frames) /\ Len(Advanced) = Len(filestack)
    BY LineRead DEF TypedInv
  <1>6. filestack' \in Seq(Frames) /\ Len(filestack') = Len(filestack) + 1
    BY <1>1, <1>4, <1>5, AppendProperties
  <1>7. TypedText'
    BY <1>3, <1>6 DEF TypedInv, TypedText
  <1>8. /\ CURRENT_FILE \in Seq(AnyFile) /\ Len(CURRENT_FILE) \in Nat /\ Len(filestack) \in Nat
        /\ Len(filestack) <= Len(CURRENT_FILE)
    BY LenProperties DEF TypedInv, TypedText, TypedFiles
  <1>9. CURRENT_FILE' \in Seq(AnyFile) /\ Len(CURRENT_FILE') = Len(CURRENT_FILE) + 1
    BY <1>1, <1>8, AppendProperties
  <1>10. Len(filestack') <= Len(CURRENT_FILE')
    BY <1>6, <1>8, <1>9
  <1>11. CURRENT_DIR' \in Dir
    BY <1>1, PreprocessorAssumption DEF AnyFile
  <1>12. DOMAIN INCLUDED' \subseteq AnyFile /\ \A g \in DOMAIN INCLUDED' : INCLUDED'[g] \in BOOLEAN
    BY <1>1 DEF TypedInv, TypedFiles
  <1> QED
    BY <1>7, <1>9, <1>10, <1>11, <1>12 DEF TypedFiles

LEMMA IncludeTyped ==
  ASSUME TypedInv, Include \/ IncludeOnce, UNCHANGED Driver
  PROVE  TypedText' /\ TypedFiles' /\ TypedRest'
  <1>1. PICK f : f = Taken
    OBVIOUS
  <1>7. /\ filestack # <<>> /\ Last(filestack).rest # <<>>
        /\ Line.op \in {"include", "include_once"}
        /\ UNCHANGED <<content, OUTPUT, ID_TABLE>>
        /\ has_errors' \in BOOLEAN
        /\ Open(f) \/ (Skip(<<>>) /\ UNCHANGED files)
    BY <1>1, IncludeIs
  <1>2. f \in AnyFile
    <2>1. Line.arg \in Rel
      BY <1>7, LineRead, LineTyped DEF TypedInv
    <2> QED
      BY <1>1, <2>1, TakenTyped DEF TypedInv, TypedFiles
  <1>5. CASE Open(f)
    BY <1>2, <1>5, <1>7, OpenTyped DEF TypedInv, TypedRest, Driver
  <1>6. CASE Skip(<<>>) /\ UNCHANGED files
    <2>1. TypedText' /\ TypedFiles'
      BY <1>6, <1>7, SkipKeeps, EmptySeq
    <2> QED
      BY <1>7, <2>1 DEF TypedInv, TypedRest, Driver
  <1> QED
    BY <1>5, <1>6, <1>7

\* Two files are being read at least, so that below the construct of the one
\* that ends there is another.
LEMMA Included ==
  ASSUME TypedInv, Len(filestack) > 1
  PROVE  /\ Front(constructs) \in Seq(Constructs) /\ Front(constructs) # <<>>
         /\ Front(filestack) \in Seq(Frames) /\ Len(Front(filestack)) = Len(filestack) - 1
         /\ Len(filestack) \in Nat
  <1>0. filestack \in Seq(Frames) /\ Len(filestack) \in Nat
    BY LenProperties DEF TypedInv, TypedText
  <1>1. filestack # <<>> /\ Shape /\ Balanced
    BY <1>0, EmptySeq DEF TypedInv, IInv
  <1>2. Len(constructs) \in Nat /\ Cardinality(FilesOf(constructs)) <= Len(constructs)
    BY <1>1, IsSeqLen, FilesAmong DEF Shape, Balanced
  <1>3. Len(constructs) > 1
    BY <1>0, <1>1, <1>2 DEF Balanced
  <1>4. /\ Front(constructs) \in Seq(Constructs)
        /\ Len(Front(constructs)) = Len(constructs) - 1
    BY <1>1, ConstructsOpen, EndTyped
  <1>5. Front(constructs) # <<>>
    BY <1>2, <1>3, <1>4, EmptySeq
  <1> QED
    BY <1>0, <1>1, <1>4, <1>5, EndTyped

LEMMA EndFileTyped ==
  ASSUME TypedInv, EndFile, UNCHANGED Driver
  PROVE  TypedText' /\ TypedFiles' /\ TypedRest'
  <1>1. /\ filestack # <<>> /\ Len(filestack) > 1
        /\ filestack' = Front(filestack)
        /\ constructs' = Added(Front(constructs), Top.prog)
        /\ UNCHANGED <<content, OUTPUT, ID_TABLE, has_errors, INCLUDED>>
    BY DEF EndFile, AtEnd
  <1>2. Top.prog \in Seq(WrittenLines)
    BY <1>1, ConstructsOpen DEF Constructs
  <1>3. constructs' \in Seq(Constructs) /\ filestack' \in Seq(Frames)
    BY <1>1, <1>2, Included, AddedTyped
  <1>4. TypedText'
    BY <1>1, <1>3 DEF TypedInv, TypedText
  <1>5. Len(filestack') = Len(filestack) - 1 /\ Len(filestack) \in Nat
    BY <1>1, Included
  <1>6. CASE Top.any
    <2>1. CURRENT_FILE' = Front(CURRENT_FILE) /\ CURRENT_DIR' = DirOf[Last(Front(CURRENT_FILE))]
      BY <1>6 DEF EndFile
    <2>2. /\ CURRENT_FILE \in Seq(AnyFile) /\ Len(CURRENT_FILE) \in Nat
          /\ Len(filestack) <= Len(CURRENT_FILE) /\ Len(CURRENT_FILE) > 1
      BY <1>1, <1>5, LenProperties DEF TypedInv, TypedFiles
    <2>3. CURRENT_FILE # <<>>
      BY <2>2, EmptySeq
    <2>4. Front(CURRENT_FILE) \in Seq(AnyFile) /\ Len(Front(CURRENT_FILE)) = Len(CURRENT_FILE) - 1
      BY <2>2, <2>3, EndTyped
    <2>5. Front(CURRENT_FILE) # <<>>
      BY <2>2, <2>4, EmptySeq
    <2>6. Last(Front(CURRENT_FILE)) \in AnyFile
      BY <2>4, <2>5, EndTyped
    <2>7. CURRENT_DIR' \in Dir
      BY <2>1, <2>6, PreprocessorAssumption DEF AnyFile
    <2>8. Len(filestack') <= Len(CURRENT_FILE')
      BY <1>5, <2>1, <2>2, <2>4
    <2> QED
      BY <1>1, <1>4, <2>1, <2>4, <2>7, <2>8 DEF TypedInv, TypedFiles, TypedRest, Driver
  <1>7. CASE ~Top.any
    <2>1. UNCHANGED files
      BY <1>1, <1>7 DEF EndFile, files
    <2>2. filestack \in Seq(Frames) /\ Len(filestack') <= Len(filestack)
      BY <1>5 DEF TypedInv, TypedText
    <2>3. TypedFiles'
      BY <1>3, <2>1, <2>2, FilesKept DEF TypedInv
    <2> QED
      BY <1>1, <1>4, <2>3 DEF TypedInv, TypedRest, Driver
  <1> QED
    BY <1>6, <1>7

LEMMA EndInputTyped ==
  ASSUME TypedInv, EndInput, UNCHANGED Driver
  PROVE  TypedText' /\ TypedFiles' /\ TypedRest'
  <1>1. /\ filestack # <<>> /\ Len(filestack) = 1
        /\ OUTPUT' = OUTPUT \o Top.prog
        /\ filestack' = <<>> /\ constructs' = <<>>
        /\ CURRENT_FILE' = Front(CURRENT_FILE)
        /\ UNCHANGED <<content, INCLUDED, CURRENT_DIR, ID_TABLE, has_errors>>
    BY DEF EndInput, AtEnd
  <1>2. Top.prog \in Seq(WrittenLines)
    BY <1>1, ConstructsOpen DEF Constructs
  <1>3. OUTPUT' \in Seq(WrittenLines)
    BY <1>1, <1>2, ConcatProperties DEF TypedInv, TypedText
  <1>4. filestack' \in Seq(Frames) /\ constructs' \in Seq(Constructs) /\ Len(filestack') = 0
    BY <1>1, EmptySeq
  <1>5. TypedText'
    BY <1>1, <1>3, <1>4 DEF TypedInv, TypedText
  <1>6. CURRENT_FILE \in Seq(AnyFile) /\ Len(CURRENT_FILE) \in Nat /\ Len(CURRENT_FILE) > 0
    BY <1>1, LenProperties DEF TypedInv, TypedFiles
  <1>7. CURRENT_FILE # <<>>
    BY <1>6, EmptySeq
  <1>8. CURRENT_FILE' \in Seq(AnyFile) /\ Len(filestack') <= Len(CURRENT_FILE')
    BY <1>1, <1>4, <1>6, <1>7, EndTyped
  <1> QED
    BY <1>1, <1>5, <1>8 DEF TypedInv, TypedFiles, TypedRest, Driver
-----------------------------------------------------------------------------
LEMMA PreprocessLineTyped ==
  ASSUME TypedInv, PreprocessLine, UNCHANGED Driver
  PROVE  TypedText' /\ TypedFiles' /\ TypedRest'
  <1>1. CASE Text
    BY <1>1, TextTyped
  <1>2. CASE MacroCall
    BY <1>2, MacroCallTyped
  <1>3. CASE Define \/ Undef
    BY <1>3, DefineTyped
  <1>4. CASE ErrorMsg
    BY <1>4, ErrorMsgTyped
  <1>5. CASE PragmaOnce
    BY <1>5, PragmaOnceTyped
  <1>6. CASE IfHeader
    BY <1>6, IfHeaderTyped
  <1>7. CASE Else
    BY <1>7, ElseTyped
  <1>8. CASE EndIf
    BY <1>8, EndIfTyped
  <1>9. CASE UnexpectedDirective \/ UnexpectedEnd
    BY <1>9, SyntaxErrorTyped DEF UnexpectedDirective, UnexpectedEnd
  <1>10. CASE Include \/ IncludeOnce
    BY <1>10, IncludeTyped
  <1>11. CASE EndFile
    BY <1>11, EndFileTyped
  <1>12. CASE EndInput
    BY <1>12, EndInputTyped
  <1> QED
    BY <1>1, <1>2, <1>3, <1>4, <1>5, <1>6, <1>7, <1>8, <1>9, <1>10, <1>11, <1>12
       DEF PreprocessLine

LEMMA OpenedTyped ==
  ASSUME TypedInv, NEW lines \in Seq(WrittenLines), Opened(Main, lines),
         content' = content, INCLUDED' = INCLUDED, OUTPUT' \in Seq(WrittenLines)
  PROVE  TypedText' /\ TypedFiles'
  <1>1. /\ filestack' = <<[file |-> Main, rest |-> lines]>>
        /\ constructs' = <<Construct("file", FALSE, <<>>)>>
        /\ CURRENT_FILE' = Append(CURRENT_FILE, Main)
        /\ CURRENT_DIR' = DirOf[Main]
    BY DEF Opened
  <1>2. Main \in AnyFile /\ DirOf[Main] \in Dir
    BY PreprocessorAssumption DEF AnyFile
  <1>3. PICK e : e = [file |-> Main, rest |-> lines]
    OBVIOUS
  <1>4. PICK c : c = Construct("file", FALSE, <<>>)
    OBVIOUS
  <1>5. e \in Frames /\ c \in Constructs
    BY <1>2, <1>3, <1>4, ConstructTyped, EmptySeq DEF Kinds, Frames
  <1>6. filestack' = <<e>> /\ constructs' = <<c>>
    BY <1>1, <1>3, <1>4
  <1>7. filestack' \in Seq(Frames) /\ constructs' \in Seq(Constructs) /\ Len(filestack') = 1
    BY <1>5, <1>6
  <1>8. /\ CURRENT_FILE \in Seq(AnyFile) /\ Len(CURRENT_FILE) \in Nat
        /\ CURRENT_FILE' \in Seq(AnyFile) /\ Len(CURRENT_FILE') = Len(CURRENT_FILE) + 1
    BY <1>1, <1>2, LenProperties, AppendProperties DEF TypedInv, TypedFiles
  <1>9. Len(filestack') <= Len(CURRENT_FILE')
    BY <1>7, <1>8
  <1> QED
    BY <1>1, <1>2, <1>7, <1>8, <1>9 DEF TypedInv, TypedText, TypedFiles

LEMMA PreprocessTyped ==
  ASSUME TypedInv, Preprocess
  PROVE  TypedText' /\ TypedFiles' /\ TypedRest'
  <1>1. /\ phase' = "basic" /\ Opened(Main, content[Main])
        /\ UNCHANGED <<content, INCLUDED, ID_TABLE, OUTPUT, has_errors, optimize, defines, REQUIRES>>
    BY DEF Preprocess
  <1>2. content[Main] \in Seq(WrittenLines)
    <2>1. Main \in AnyFile /\ Main # NoFile /\ content \in Contents
      BY PreprocessorAssumption DEF AnyFile, TypedInv, TypedText
    <2>2. Lines(Main) = content[Main]
      BY <2>1 DEF Lines
    <2> QED
      BY <2>1, <2>2, LinesTyped
  <1>3. TypedText' /\ TypedFiles'
    BY <1>1, <1>2, OpenedTyped DEF TypedInv, TypedText
  <1> QED
    BY <1>1, <1>3 DEF TypedInv, TypedRest

\* The lines of the subs that are kept.
LEMMA TextOfIs ==
  ASSUME NEW out \in Seq(WrittenLines), NEW u, NEW S, \A i \in DOMAIN out : out[i].op = "text" => out[i] \in S
  PROVE  TextOf(out, u) \in Seq(S)
  <1> DEFINE pieces == [i \in DOMAIN out |->
                          IF out[i].op = "text" /\ SubOf(out, i) = u THEN <<out[i]>> ELSE <<>>]
  <1>1. Len(out) \in Nat /\ DOMAIN out = 1 .. Len(out)
    BY LenProperties
  <1>2. ASSUME NEW i \in 1 .. Len(out) PROVE pieces[i] \in Seq(S)
    <2>1. CASE out[i].op = "text" /\ SubOf(out, i) = u
      <3>1. <<out[i]>> \in Seq(S)
        BY <1>1, <2>1
      <3> QED
        BY <1>1, <2>1, <3>1
    <2>2. CASE ~(out[i].op = "text" /\ SubOf(out, i) = u)
      BY <1>1, <2>2, EmptySeq
    <2> QED
      BY <2>1, <2>2
  <1>3. TextOf(out, u) = FlattenSeq(pieces)
    BY DEF TextOf
  <1>4. pieces = [i \in 1 .. Len(out) |-> pieces[i]]
    BY <1>1
  <1> HIDE DEF pieces
  <1>5. pieces \in [1 .. Len(out) -> Seq(S)]
    BY <1>2, <1>4
  <1>6. pieces \in Seq(Seq(S))
    BY <1>1, <1>5
  <1> QED
    BY <1>3, <1>6, FlattenTyped

LEMMA SubsFinite ==
  ASSUME NEW out \in Seq(WrittenLines)
  PROVE  IsFiniteSet(SubsOf(out))
  <1> DEFINE D == {j \in DOMAIN out : out[j].op = "sub"}
             f == [i \in D |-> out[i].arg]
  <1>1. IsFiniteSet(D)
    <2>1. DOMAIN out = 1 .. Len(out) /\ Len(out) \in Nat
      BY LenProperties
    <2>2. IsFiniteSet(DOMAIN out)
      BY <2>1, FS_Interval
    <2> QED
      BY <2>2, FS_Subset
  <1>2. f \in Surjection(D, SubsOf(out))
    BY DEF Surjection, SubsOf
  <1> HIDE DEF f, D
  <1> QED
    BY <1>1, <1>2, FS_Surjection

\* The subs that are translated come in a sequence, and one that is not empty.
LEMMA TranslatedIsSeq ==
  ASSUME NEW out \in Seq(WrittenLines)
  PROVE  \E n \in Nat : DOMAIN Translated(out) = 1 .. n
  <1> DEFINE S == SubsOf(out) \cap IF optimize THEN Accessed(out) ELSE Sub
  <1>1. IsFiniteSet(S)
    BY SubsFinite, FS_Subset
  <1>2. Translated(out) = <<NoSub>> \o SetToSeq(S)
    BY DEF Translated
  <1> HIDE DEF S
  <1>3. SetToSeq(S) \in Seq(S \cup {NoSub}) /\ <<NoSub>> \in Seq(S \cup {NoSub})
    BY <1>1, SetToSeqTyped, SeqMonotonic
  <1>4. Translated(out) \in Seq(S \cup {NoSub})
    BY <1>2, <1>3, ConcatProperties
  <1> QED
    BY <1>4, LenProperties

\* The assembly is text of the source and the inclusions of runtime files.
CodeOf(out) == FlattenSeq([k \in DOMAIN Translated(out) |-> TextOf(out, Translated(out)[k])])

LEMMA CodeIs ==
  ASSUME TypedInv, Translate, NEW S, \A i \in DOMAIN OUTPUT : OUTPUT[i].op = "text" => OUTPUT[i] \in S
  PROVE  \E code \in Seq(S), required \in Seq(RuntimeLines) :
           /\ Opened(Main, code \o required) /\ code = CodeOf(OUTPUT)
           /\ \A m \in REQUIRES' : \E k \in DOMAIN required : required[k].arg = m
  <1> DEFINE kept == Translated(OUTPUT)
             texts == [k \in DOMAIN kept |-> TextOf(OUTPUT, kept[k])]
             code == FlattenSeq(texts)
             used == UNION {Uses[t] : t \in Texts(code) \cap Basic}
             labels == used \cap DOMAIN Module
             required == [k \in 1 .. Cardinality(REQUIRES') |->
                            [op |-> "include_once", arg |-> SetToSeq(REQUIRES')[k], flag |-> FALSE]]
  <1>1. REQUIRES' = {Module[l] : l \in labels} /\ Opened(Main, code \o required)
    BY DEF Translate
  <1>2. OUTPUT \in Seq(WrittenLines)
    BY DEF TypedInv, TypedText
  <1>3. code = CodeOf(OUTPUT)
    BY DEF CodeOf
  <1>4. code \in Seq(S)
    <2>1. PICK n \in Nat : DOMAIN kept = 1 .. n
      BY <1>2, TranslatedIsSeq
    <2> HIDE DEF kept
    <2>2. texts \in [1 .. n -> Seq(S)]
      BY <1>2, <2>1, TextOfIs
    <2> HIDE DEF texts
    <2>3. texts \in Seq(Seq(S))
      BY <2>2
    <2> QED
      BY <2>3, FlattenTyped
  <1> HIDE DEF code, used
  <1>5. REQUIRES' \subseteq Rel /\ IsFiniteSet(REQUIRES')
    <2>1. labels \subseteq DOMAIN Module
      OBVIOUS
    <2> HIDE DEF labels
    <2>2. IsFiniteSet(labels)
      BY <2>1, FS_Subset, CompilerAssumption
    <2>3. REQUIRES' \subseteq Rel
      BY <1>1, <2>1, CompilerAssumption
    <2> DEFINE f == [l \in labels |-> Module[l]]
    <2>4. f \in Surjection(labels, REQUIRES')
      BY <1>1 DEF Surjection
    <2> HIDE DEF f
    <2> QED
      BY <2>2, <2>3, <2>4, FS_Surjection
  <1>6. required \in Seq(RuntimeLines)
    <2>1. PICK q, n : q = SetToSeq(REQUIRES') /\ n = Cardinality(REQUIRES')
      OBVIOUS
    <2>2. q \in Seq(REQUIRES') /\ Len(q) = n /\ n \in Nat
      BY <1>5, <2>1, SetToSeqTyped, LenProperties
    <2>3. ASSUME NEW k \in 1 .. n
          PROVE  [op |-> "include_once", arg |-> q[k], flag |-> FALSE] \in RuntimeLines
      <3>1. q[k] \in Rel
        BY <1>5, <2>2, ElementOfSeq
      <3> QED
        BY <3>1 DEF RuntimeLines
    <2>4. required = [k \in 1 .. n |-> [op |-> "include_once", arg |-> q[k], flag |-> FALSE]]
      BY <2>1
    <2>5. required \in [1 .. n -> RuntimeLines]
      BY <2>3, <2>4
    <2> HIDE DEF required
    <2> QED
      BY <2>2, <2>5
  <1>7. ASSUME NEW m \in REQUIRES' PROVE \E k \in DOMAIN required : required[k].arg = m
    <2>1. PICK q : q = SetToSeq(REQUIRES')
      OBVIOUS
    <2>2. DOMAIN q = 1 .. Cardinality(REQUIRES')
      BY <1>5, <2>1, SetToSeqTyped, LenProperties
    <2>3. PICK k \in DOMAIN q : q[k] = m
      BY <1>5, <2>1, SetToSeqOnce
    <2>4. required = [j \in 1 .. Cardinality(REQUIRES') |->
                        [op |-> "include_once", arg |-> q[j], flag |-> FALSE]]
      BY <2>1
    <2>5. k \in DOMAIN required /\ required[k].arg = m
      BY <2>2, <2>3, <2>4
    <2> QED
      BY <2>5
  <1> HIDE DEF required
  <1> QED
    BY <1>1, <1>3, <1>4, <1>6, <1>7

\* What the second pass starts from, S being what the text is.
LEMMA LinesAre ==
  ASSUME TypedInv, Translate, NEW S, S \subseteq WrittenLines,
         \A i \in DOMAIN OUTPUT : OUTPUT[i].op = "text" => OUTPUT[i] \in S
  PROVE  \E lines \in Seq(WrittenLines) :
           Opened(Main, lines) /\ \A i \in DOMAIN lines : lines[i] \in S \cup RuntimeLines
  <1>1. PICK code \in Seq(S), required \in Seq(RuntimeLines) : Opened(Main, code \o required)
    BY CodeIs
  <1>2. code \in Seq(S \cup RuntimeLines) /\ required \in Seq(S \cup RuntimeLines)
    BY SeqMonotonic
  <1>3. code \o required \in Seq(S \cup RuntimeLines)
    BY <1>2, ConcatProperties
  <1>4. S \cup RuntimeLines \subseteq WrittenLines
    BY DEF WrittenLines
  <1>5. code \o required \in Seq(WrittenLines)
    BY <1>3, <1>4, SeqMonotonic
  <1>6. \A i \in DOMAIN (code \o required) : (code \o required)[i] \in S \cup RuntimeLines
    <2> DEFINE s == code \o required
               U == S \cup RuntimeLines
    <2>1. s \in Seq(U)
      BY <1>3
    <2> HIDE DEF s, U
    <2>2. \A i \in DOMAIN s : s[i] \in U
      BY <2>1, LenProperties, ElementOfSeq
    <2> QED
      BY <2>2 DEF s, U
  <1> QED
    BY <1>1, <1>5, <1>6

LEMMA TranslateTyped ==
  ASSUME TypedInv, Translate
  PROVE  TypedText' /\ TypedFiles' /\ TypedRest'
  <1>1. /\ REQUIRES' \subseteq {Module[l] : l \in DOMAIN Module}
        /\ defines' = defines \cup OptionsOf(OUTPUT)
        /\ ID_TABLE' = defines'
        /\ OUTPUT' = <<>> /\ phase' = "asm"
        /\ UNCHANGED <<content, INCLUDED, has_errors, optimize>>
    BY DEF Translate, reset_id_table
  <1>2. OUTPUT \in Seq(WrittenLines) /\ \A i \in DOMAIN OUTPUT : OUTPUT[i] \in WrittenLines
    BY LenProperties, ElementOfSeq DEF TypedInv, TypedText
  <1>3. PICK lines \in Seq(WrittenLines) : Opened(Main, lines)
    BY <1>2, LinesAre
  <1>4. TypedText' /\ TypedFiles'
    BY <1>1, <1>3, OpenedTyped, EmptySeq
  <1>5. OptionsOf(OUTPUT) \subseteq Macro
    BY <1>2, LineTyped DEF OptionsOf
  <1>6. REQUIRES' \subseteq Rel
    BY <1>1, CompilerAssumption
  <1>7. TypedRest'
    BY <1>1, <1>5, <1>6 DEF TypedInv, TypedRest
  <1> QED
    BY <1>4, <1>7

LEMMA AssembleTyped ==
  ASSUME TypedInv, Assemble
  PROVE  TypedText' /\ TypedFiles' /\ TypedRest'
  <1>1. /\ has_errors' \in BOOLEAN /\ phase' \in {"built", "failed"}
        /\ UNCHANGED <<content, filestack, constructs, INCLUDED, CURRENT_FILE, CURRENT_DIR,
                       ID_TABLE, OUTPUT, optimize, defines, REQUIRES>>
    BY DEF Assemble, reading, files
  <1> QED
    BY <1>1 DEF TypedInv, TypedText, TypedFiles, TypedRest

LEMMA StopTyped ==
  ASSUME TypedInv, ExitWithErrors \/ UNCHANGED vars
  PROVE  TypedText' /\ TypedFiles' /\ TypedRest'
  <1>1. /\ phase' \in {phase, "failed"}
        /\ UNCHANGED <<content, filestack, constructs, INCLUDED, CURRENT_FILE, CURRENT_DIR,
                       has_errors, ID_TABLE, OUTPUT, optimize, defines, REQUIRES>>
    BY DEF ExitWithErrors, vars, ppvars, reading, files
  <1> QED
    BY <1>1 DEF TypedInv, TypedText, TypedFiles, TypedRest
-----------------------------------------------------------------------------
LEMMA TypedInit == Init => TypedInv
  <1> SUFFICES ASSUME Init PROVE TypedInv
    OBVIOUS
  <1>1. IInv
    BY InitInv
  <1>2. /\ content \in Contents /\ filestack = <<>> /\ constructs = <<>> /\ INCLUDED = <<>>
        /\ CURRENT_FILE = <<>> /\ CURRENT_DIR = LibDir /\ ID_TABLE = Options
        /\ OUTPUT = <<>> /\ has_errors = FALSE /\ phase = "start" /\ optimize \in BOOLEAN
        /\ defines = Options /\ REQUIRES = {}
    BY DEF Init, PreprocessorInit
  <1>3. TypedText
    BY <1>2, EmptySeq DEF TypedText
  <1>4. TypedFiles
    BY <1>2, EmptySeq, PreprocessorAssumption DEF TypedFiles
  <1>5. TypedRest
    BY <1>2, PreprocessorAssumption DEF TypedRest
  <1> QED
    BY <1>1, <1>3, <1>4, <1>5 DEF TypedInv

LEMMA TypedNext == TypedInv /\ [Next]_vars => TypedInv'
  <1> SUFFICES ASSUME TypedInv, [Next]_vars PROVE TypedInv'
    OBVIOUS
  <1>1. IInv'
    BY NextInv DEF TypedInv
  <1>2. CASE PreprocessLine /\ UNCHANGED <<phase, optimize, defines, input_, REQUIRES>>
    BY <1>1, <1>2, PreprocessLineTyped DEF TypedInv, Driver
  <1>3. CASE Preprocess
    BY <1>1, <1>3, PreprocessTyped DEF TypedInv
  <1>4. CASE Translate
    BY <1>1, <1>4, TranslateTyped DEF TypedInv
  <1>5. CASE Assemble
    BY <1>1, <1>5, AssembleTyped DEF TypedInv
  <1>6. CASE ExitWithErrors \/ UNCHANGED vars
    BY <1>1, <1>6, StopTyped DEF TypedInv
  <1> QED
    BY <1>2, <1>3, <1>4, <1>5, <1>6 DEF Next

LEMMA TypedIsTypeOK == TypedInv => TypeOK
  <1> SUFFICES ASSUME TypedInv PROVE TypeOK
    OBVIOUS
  <1>1. Len(constructs) >= Len(filestack)
    <2>1. filestack \in Seq(Frames) /\ constructs \in Seq(Constructs)
          /\ Len(filestack) \in Nat /\ Len(constructs) \in Nat
      BY LenProperties DEF TypedInv, TypedText
    <2>2. CASE filestack = <<>>
      BY <2>1, <2>2, EmptySeq
    <2>3. CASE filestack # <<>>
      <3>1. Shape /\ Balanced
        BY <2>3 DEF TypedInv, IInv
      <3>2. Cardinality(FilesOf(constructs)) <= Len(constructs)
        BY <3>1, FilesAmong DEF Shape, Balanced
      <3> QED
        BY <2>1, <3>1, <3>2 DEF Balanced
    <2> QED
      BY <2>2, <2>3
  <1> QED
    BY <1>1 DEF TypedInv, TypedFiles, TypedRest, IInv, Shape, TypeOK, AnyFile

\* The state keeps its shape through both passes, whatever the files hold: a
\* file that ends always finds below it the name, the directory and the text of
\* the file that includes it (zxbpp.py include_file, include_end, p_include_file;
\* zxbc.py main).
THEOREM CompilerTypes == Spec => []TypeOK
  <1>1. Init => TypedInv
    BY TypedInit
  <1>2. TypedInv /\ [Next]_vars => TypedInv'
    BY TypedNext
  <1>3. TypedInv => TypeOK
    BY TypedIsTypeOK
  <1> QED
    BY <1>1, <1>2, <1>3, PTL DEF Spec
-----------------------------------------------------------------------------
\* ConfiguredAsAsked.  The text of a runtime file that an option asks for is
\* followed through both passes: what has been read of its file, the construct
\* it has gone to, and the file whose text that construct is.
\* A guarded text watched through a pass: the text w.t of the file w.file, its
\* label w.l and the macro w.m; whether the pass is the second, and the option set.
Watched(w) ==
  /\ w.content \in Contents /\ w.second \in BOOLEAN /\ w.asked \in BOOLEAN
  /\ w.file \in Runtime
  /\ Guards(w.content[w.file], w.l, w.m, w.t, w.p, w.r, w.q)
  /\ \A h \in File \ {w.file} : \A x \in Range(w.content[h]) : x.op = "text" => x.arg \notin {w.l, w.t}
  /\ \A h \in Runtime : \A x \in Range(w.content[h]) : x.op \in {"define", "undef"} => x.arg # w.m

Watches(w) ==
  /\ Watched(w)
  /\ w.content = content /\ w.second = (phase \in {"asm", "built"}) /\ w.asked = (w.m \in defines)

Has(out, a) == \E i \in DOMAIN out : out[i].op = "text" /\ out[i].arg = a

\* A text that does not end inside the file: the guarded text comes with the
\* label and, in the second pass, the label with it if the option is set.
Fine(w, out) ==
  /\ Has(out, w.t) => Has(out, w.l)
  /\ w.second => (Has(out, w.t) <=> Has(out, w.l) /\ w.asked)

Unwatched(w, x) == x.op = "text" => x.arg \notin {w.l, w.t}

\* Of the files being read, fs, the first is generated in the second pass.
Given(w, k) == w.second /\ k = 1
Of(w, fs, k) == ~Given(w, k) /\ fs[k].file = w.file
Pos(w, fs, k) == Len(w.content[fs[k].file]) - Len(fs[k].rest)
InGuard(w, fs, k) == InPart(w.content[w.file], w.p, Pos(w, fs, k) + 1)

\* A file being read is one there is, and what is left of it is what it ends with;
\* what is left of the generated one is not watched.
FrameRead(w, fs, k) ==
  IF Given(w, k)
    THEN \A i \in DOMAIN fs[k].rest : Unwatched(w, fs[k].rest[i])
    ELSE /\ fs[k].file \in File
         /\ Len(fs[k].rest) <= Len(w.content[fs[k].file])
         /\ \A i \in DOMAIN fs[k].rest : fs[k].rest[i] = w.content[fs[k].file][Pos(w, fs, k) + i]

\* own[i] is the file being read that construct i is of: the constructs come file
\* by file, the one of the file first.
Owns(own, fs, cs, ifd) ==
  /\ own \in Seq(Nat) /\ Len(own) = Len(cs) /\ Len(cs) > 0
  /\ cs[1].kind = "file" /\ own[1] = 1
  /\ \A i \in 2 .. Len(own) : own[i] = IF cs[i].kind = "file" THEN own[i - 1] + 1 ELSE own[i - 1]
  /\ \A i, j \in 1 .. Len(own) : i <= j => own[i] <= own[j] /\ i - own[i] <= j - own[j]
  /\ own[Len(own)] = Len(fs)
  /\ Len(ifd) = Len(own) - Len(fs)

\* The value of enabled with j - 1 conditionals open.
Value(ifd, en, j) == IF j <= Len(ifd) THEN ifd[j] ELSE en

\* The construct of the watched file: what was read of it, but for an open part.
FileRead(w, fs, cs, i, k) ==
  LET prog == cs[i].prog
      open == i < Len(cs) /\ cs[i + 1].kind # "file"
  IN  /\ Within(w.content[w.file], Pos(w, fs, k) + 1) => open
      /\ open => Within(w.content[w.file], Pos(w, fs, k) + 1)
      /\ Pos(w, fs, k) >= w.q => Has(prog, w.l)
      /\ w.second /\ Has(prog, w.t) => w.asked
      /\ w.second /\ w.asked /\ Pos(w, fs, k) >= w.r /\ ~InGuard(w, fs, k) =>
           Has(prog, w.t) \/ (open /\ Has(cs[i + 1].kept, w.t))

\* A part of a conditional of the watched file.
PartRead(w, fs, cs, ifd, en, i, k) ==
  LET guard == InGuard(w, fs, k)
  IN  /\ Within(w.content[w.file], Pos(w, fs, k) + 1)
      /\ cs[i - 1].kind = "file"
      /\ i < Len(cs) => cs[i + 1].kind = "file"
      /\ guard => cs[i].kind = "if"
      /\ cs[i].kind = "if" => ~Has(cs[i].kept, w.t)
      /\ w.second => 
           /\ Has(cs[i].kept, w.t) => w.asked
           /\ ~guard /\ Has(cs[i].prog, w.t) => w.asked
           /\ guard => cs[i].hdr = w.asked /\ Value(ifd, en, i - k + 1) = w.asked
           /\ guard /\ Pos(w, fs, k) >= w.r => Has(cs[i].prog, w.t)

\* A file is opened where lines are enabled only.
ConstructRead(w, fs, cs, ifd, en, i, k) ==
  /\ cs[i].kind = "file" => Value(ifd, en, i - k + 1) = TRUE
  /\ IF Of(w, fs, k)
       THEN IF cs[i].kind = "file" THEN FileRead(w, fs, cs, i, k) ELSE PartRead(w, fs, cs, ifd, en, i, k)
       ELSE Fine(w, cs[i].prog) /\ Fine(w, cs[i].kept)

StackRead(w, own, fs, cs, ifd, en) ==
  /\ Owns(own, fs, cs, ifd)
  /\ \A k \in DOMAIN fs : FrameRead(w, fs, k)
  /\ \A i \in DOMAIN cs : ConstructRead(w, fs, cs, ifd, en, i, own[i])

\* The second pass reads runtime files only, below the generated one.
RuntimeRead(b) ==
  /\ b \in Nat /\ b + Len(filestack) - 1 <= Len(CURRENT_FILE)
  /\ \A i \in b + 1 .. Len(CURRENT_FILE) : CURRENT_FILE[i] \in Runtime
  /\ Len(filestack) > 1 => \E f \in Runtime : CURRENT_DIR = DirOf[f]
  /\ \A k \in 2 .. Len(filestack) : filestack[k].file \in Runtime
  /\ \A i \in DOMAIN filestack[1].rest :
       LET x == filestack[1].rest[i]
       IN  x.op = "text" \/ (x.op = "include_once" /\ ~x.flag)

RuntimeInv ==
  ~has_errors /\ phase = "asm" /\ filestack # <<>> => \E b \in Nat : RuntimeRead(b)

\* The first pass put neither in, so that both come from the second.
Left(w) == w.second => ~Has(input_, w.l)

StackNow(w) == \E own : StackRead(w, own, filestack, constructs, IFDEFS, enabled)

WatchInv(w) ==
  Watches(w) /\ Left(w) /\ ~has_errors =>
    /\ phase = "start" => OUTPUT = <<>>
    /\ phase \in {"basic", "asm"} => Fine(w, OUTPUT)
    /\ phase \in {"basic", "asm"} /\ filestack # <<>> => StackNow(w)
    /\ phase = "asm" => (w.m \in ID_TABLE <=> w.asked)
    /\ phase = "built" => (Has(OUTPUT, w.t) <=> Has(OUTPUT, w.l) /\ w.asked)
-----------------------------------------------------------------------------
LEMMA WatchedIs ==
  ASSUME NEW w, Watched(w)
  PROVE  /\ w.file \in File /\ w.file # Main /\ w.file \in Runtime
         /\ Len(w.content[w.file]) \in Nat /\ DOMAIN w.content[w.file] = 1 .. Len(w.content[w.file])
         /\ {w.p, w.r, w.q} \subseteq 1 .. Len(w.content[w.file])
         /\ w.second \in BOOLEAN /\ w.asked \in BOOLEAN
  <1>1. w.file \in File /\ w.file # Main /\ w.file \in Runtime
    BY RuntimeAssumption DEF Watched
  <1>2. w.content[w.file] \in Seq(Range(w.content[w.file]))
    BY <1>1, PreprocessorAssumption DEF Watched
  <1>3. Len(w.content[w.file]) \in Nat /\ DOMAIN w.content[w.file] = 1 .. Len(w.content[w.file])
    BY <1>2, LenProperties
  <1>4. {w.p, w.r, w.q} \subseteq DOMAIN w.content[w.file]
    BY DEF Watched, Guards
  <1> QED
    BY <1>1, <1>3, <1>4 DEF Watched

\* What the next line does to the conditional that lines are in.
LEMMA PartNext ==
  ASSUME NEW ls, NEW i \in Nat, i >= 1, NEW j
  PROVE  InPart(ls, j, i + 1) <=>
           IF ls[i].op \in {"if", "else"} THEN j = i
             ELSE InPart(ls, j, i) /\ ls[i].op # "endif"
  BY DEF InPart

LEMMA WithinNext ==
  ASSUME NEW ls, NEW i \in Nat, i >= 1
  PROVE  Within(ls, i + 1) <=>
           ls[i].op \in {"if", "else"} \/ (Within(ls, i) /\ ls[i].op # "endif")
  <1>1. ASSUME ls[i].op \in {"if", "else"} PROVE Within(ls, i + 1)
    <2>1. i \in 1 .. (i + 1) - 1
      OBVIOUS
    <2>2. InPart(ls, i, i + 1)
      BY <1>1, PartNext
    <2> QED
      BY <2>1, <2>2 DEF Within
  <1>2. ASSUME ls[i].op \notin {"if", "else"}
        PROVE  Within(ls, i + 1) <=> Within(ls, i) /\ ls[i].op # "endif"
    <2>1. \A j : InPart(ls, j, i + 1) <=> InPart(ls, j, i) /\ ls[i].op # "endif"
      BY <1>2, PartNext
    <2>2. \A j : InPart(ls, j, i) => j \in 1 .. i - 1 /\ j \in 1 .. (i + 1) - 1
      BY DEF InPart
    <2>3. \A j : InPart(ls, j, i + 1) => j \in 1 .. (i + 1) - 1
      BY DEF InPart
    <2> QED
      BY <2>1, <2>2, <2>3 DEF Within
  <1> QED
    BY <1>1, <1>2

LEMMA PartWithin ==
  ASSUME NEW ls, NEW j, NEW i, InPart(ls, j, i)
  PROVE  Within(ls, i) /\ j \in 1 .. i - 1
  BY DEF InPart, Within

LEMMA HasNone == ASSUME NEW a PROVE ~Has(<<>>, a)
  BY DEF Has

LEMMA HasOne ==
  ASSUME NEW x, NEW a
  PROVE  Has(<<x>>, a) <=> x.op = "text" /\ x.arg = a
  <1>1. DOMAIN <<x>> = {1} /\ <<x>>[1] = x
    OBVIOUS
  <1> QED
    BY <1>1 DEF Has

LEMMA HasMore ==
  ASSUME NEW S, NEW x \in Seq(S), NEW y \in Seq(S), NEW a
  PROVE  Has(x \o y, a) <=> Has(x, a) \/ Has(y, a)
  <1> DEFINE z == x \o y
  <1>1. /\ z \in Seq(S) /\ Len(z) = Len(x) + Len(y) /\ Len(x) \in Nat /\ Len(y) \in Nat
        /\ \A i \in 1 .. Len(x) + Len(y) : z[i] = IF i <= Len(x) THEN x[i] ELSE y[i - Len(x)]
        /\ DOMAIN x = 1 .. Len(x) /\ DOMAIN y = 1 .. Len(y) /\ DOMAIN z = 1 .. Len(x) + Len(y)
    BY ConcatProperties, LenProperties
  <1> HIDE DEF z
  <1>2. ASSUME Has(z, a) PROVE Has(x, a) \/ Has(y, a)
    <2>1. PICK i \in DOMAIN z : z[i].op = "text" /\ z[i].arg = a
      BY <1>2 DEF Has
    <2>2. CASE i <= Len(x)
      BY <1>1, <2>1, <2>2 DEF Has
    <2>3. CASE i > Len(x)
      <3>1. i - Len(x) \in DOMAIN y /\ z[i] = y[i - Len(x)]
        BY <1>1, <2>1, <2>3
      <3> QED
        BY <2>1, <3>1 DEF Has
    <2> QED
      BY <1>1, <2>1, <2>2, <2>3
  <1>3. ASSUME Has(x, a) PROVE Has(z, a)
    <2>1. PICK i \in DOMAIN x : x[i].op = "text" /\ x[i].arg = a
      BY <1>3 DEF Has
    <2>2. i \in DOMAIN z /\ z[i] = x[i]
      BY <1>1, <2>1
    <2> QED
      BY <2>1, <2>2 DEF Has
  <1>4. ASSUME Has(y, a) PROVE Has(z, a)
    <2>1. PICK i \in DOMAIN y : y[i].op = "text" /\ y[i].arg = a
      BY <1>4 DEF Has
    <2>2. i + Len(x) \in DOMAIN z /\ z[i + Len(x)] = y[i]
      BY <1>1, <2>1
    <2> QED
      BY <2>1, <2>2 DEF Has
  <1> QED
    BY <1>2, <1>3, <1>4 DEF z

LEMMA FineNone == ASSUME NEW w PROVE Fine(w, <<>>)
  BY HasNone DEF Fine

LEMMA FineMore ==
  ASSUME NEW S, NEW x \in Seq(S), NEW y \in Seq(S), NEW w, Fine(w, x), Fine(w, y)
  PROVE  Fine(w, x \o y)
  BY HasMore DEF Fine

LEMMA UnwatchedIs ==
  ASSUME NEW x, NEW w, Unwatched(w, x)
  PROVE  Fine(w, <<x>>) /\ ~Has(<<x>>, w.l) /\ ~Has(<<x>>, w.t)
  <1>1. ~Has(<<x>>, w.l) /\ ~Has(<<x>>, w.t)
    BY HasOne DEF Unwatched
  <1> QED
    BY <1>1 DEF Fine

\* The constructs ds are cs with text added to the last.
AddedTo(cs, ds, text) ==
  /\ ds \in Seq(Constructs) /\ Len(ds) = Len(cs) /\ DOMAIN ds = 1 .. Len(cs)
  /\ \A i \in 1 .. Len(cs) : ds[i].kind = cs[i].kind /\ ds[i].kept = cs[i].kept /\ ds[i].hdr = cs[i].hdr
  /\ \A i \in 1 .. Len(cs) - 1 : ds[i] = cs[i]
  /\ ds[Len(cs)].prog = cs[Len(cs)].prog \o text
  /\ \A a : Has(ds[Len(cs)].prog, a) <=> Has(cs[Len(cs)].prog, a) \/ Has(text, a)

LEMMA AddedIs ==
  ASSUME NEW cs \in Seq(Constructs), cs # <<>>, NEW text \in Seq(WrittenLines)
  PROVE  AddedTo(cs, Added(cs, text), text)
  <1> DEFINE ds == Added(cs, text)
  <1>1. Len(cs) \in Nat /\ Len(cs) > 0 /\ DOMAIN cs = 1 .. Len(cs)
        /\ \A i \in 1 .. Len(cs) : cs[i] \in Constructs
    BY EndTyped, ElementOfSeq
  <1>2. PICK c : c = [cs[Len(cs)] EXCEPT !.prog = @ \o text, !.any = TRUE]
    OBVIOUS
  <1>3. Len(cs) \in 1 .. Len(cs) /\ cs[Len(cs)] \in Constructs
    BY <1>1
  <1>4. /\ c.kind = cs[Len(cs)].kind /\ c.kept = cs[Len(cs)].kept /\ c.hdr = cs[Len(cs)].hdr
        /\ c.prog = cs[Len(cs)].prog \o text
    BY <1>2, <1>3 DEF Constructs
  <1>5. ds = [cs EXCEPT ![Len(cs)] = c]
    BY <1>1, <1>2 DEF Added, ds
  <1>6. ds \in Seq(Constructs)
    BY AddedTyped
  <1>7. DOMAIN ds = DOMAIN cs /\ \A i \in DOMAIN cs : ds[i] = IF i = Len(cs) THEN c ELSE cs[i]
    BY <1>5
  <1>8. DOMAIN ds = 1 .. Len(cs) /\ Len(ds) = Len(cs)
    BY <1>1, <1>6, <1>7, LenProperties
  <1>9. \A i \in 1 .. Len(cs) : ds[i].kind = cs[i].kind /\ ds[i].kept = cs[i].kept /\ ds[i].hdr = cs[i].hdr
    BY <1>1, <1>4, <1>7
  <1>10. \A i \in 1 .. Len(cs) - 1 : ds[i] = cs[i]
    BY <1>1, <1>7
  <1>11. ds[Len(cs)].prog = cs[Len(cs)].prog \o text
    BY <1>1, <1>3, <1>4, <1>7
  <1>12. \A a : Has(ds[Len(cs)].prog, a) <=> Has(cs[Len(cs)].prog, a) \/ Has(text, a)
    <2>1. cs[Len(cs)].prog \in Seq(WrittenLines)
      BY <1>3 DEF Constructs
    <2> QED
      BY <1>11, <2>1, HasMore
  <1> HIDE DEF ds
  <1>13. AddedTo(cs, ds, text)
    BY <1>6, <1>8, <1>9, <1>10, <1>11, <1>12 DEF AddedTo
  <1> QED
    BY <1>13 DEF ds
-----------------------------------------------------------------------------
LEMMA OwnsIs ==
  ASSUME NEW own, NEW fs \in Seq(Frames), NEW cs \in Seq(Constructs), NEW ifd, Owns(own, fs, cs, ifd)
  PROVE  /\ Len(cs) \in Nat /\ Len(cs) > 0 /\ Len(own) = Len(cs) /\ DOMAIN cs = 1 .. Len(cs)
         /\ Len(fs) \in Nat /\ DOMAIN fs = 1 .. Len(fs) /\ Len(fs) > 0
         /\ \A i \in 1 .. Len(cs) : own[i] \in 1 .. Len(fs)
         /\ own[Len(cs)] = Len(fs)
         /\ \A i \in 1 .. Len(cs) - 1 :
              own[i + 1] = IF cs[i + 1].kind = "file" THEN own[i] + 1 ELSE own[i]
         /\ \A i \in 1 .. Len(cs) - 1 : own[i] = Len(fs) => cs[i + 1].kind # "file"
         /\ \A i \in 1 .. Len(cs) - 1 : own[i] < Len(fs) => own[i + 1] \in 1 .. Len(fs)
  <1>1. /\ own \in Seq(Nat) /\ Len(own) = Len(cs) /\ Len(cs) > 0 /\ own[1] = 1
        /\ \A i \in 2 .. Len(own) : own[i] = IF cs[i].kind = "file" THEN own[i - 1] + 1 ELSE own[i - 1]
        /\ \A i, j \in 1 .. Len(own) : i <= j => own[i] <= own[j]
        /\ own[Len(own)] = Len(fs)
    BY DEF Owns
  <1>2. Len(cs) \in Nat /\ DOMAIN cs = 1 .. Len(cs) /\ Len(fs) \in Nat /\ DOMAIN fs = 1 .. Len(fs)
    BY LenProperties
  <1>3. \A i \in 1 .. Len(cs) : own[i] \in Nat
    BY <1>1, ElementOfSeq
  <1>4. 1 \in 1 .. Len(cs) /\ Len(cs) \in 1 .. Len(cs)
    BY <1>1, <1>2
  <1>5. ASSUME NEW i \in 1 .. Len(cs) PROVE own[i] \in 1 .. Len(fs)
    <2>1. 1 <= i /\ i <= Len(cs) /\ i \in 1 .. Len(own) /\ 1 \in 1 .. Len(own) /\ Len(cs) \in 1 .. Len(own)
      BY <1>1, <1>2
    <2>2. own[1] <= own[i] /\ own[i] <= own[Len(cs)]
      BY <1>1, <2>1
    <2> QED
      BY <1>1, <1>2, <1>3, <2>2
  <1>6. ASSUME NEW i \in 1 .. Len(cs) - 1
        PROVE  own[i + 1] = IF cs[i + 1].kind = "file" THEN own[i] + 1 ELSE own[i]
    <2>1. i + 1 \in 2 .. Len(own) /\ (i + 1) - 1 = i
      BY <1>1, <1>2
    <2> QED
      BY <1>1, <2>1
  <1>7. ASSUME NEW i \in 1 .. Len(cs) - 1
        PROVE  i \in 1 .. Len(cs) /\ i + 1 \in 1 .. Len(cs)
    BY <1>2
  <1>8. ASSUME NEW i \in 1 .. Len(cs) - 1, own[i] = Len(fs) PROVE cs[i + 1].kind # "file"
    <2>1. SUFFICES ASSUME cs[i + 1].kind = "file" PROVE FALSE
      OBVIOUS
    <2>2. own[i + 1] = own[i] + 1
      BY <1>6, <2>1
    <2>3. own[i + 1] \in 1 .. Len(fs)
      BY <1>5, <1>7
    <2> QED
      BY ONLY <1>2, <1>8, <2>2, <2>3
  <1>9. Len(fs) > 0
    BY <1>2, <1>4, <1>5
  <1> QED
    BY <1>1, <1>2, <1>5, <1>6, <1>7, <1>8, <1>9

\* Reading line x of the last file of fs leaves gs.
NextLine(w, fs, gs, x) ==
  LET n == Len(fs)
  IN  /\ gs \in Seq(Frames) /\ Len(gs) = n /\ DOMAIN gs = DOMAIN fs
      /\ \A k \in 1 .. n - 1 : gs[k] = fs[k]
      /\ gs[n].file = fs[n].file
      /\ \A k \in 1 .. n : FrameRead(w, gs, k)
      /\ ~Of(w, fs, n) => Unwatched(w, x)
      /\ Of(w, fs, n) =>
           /\ Pos(w, fs, n) \in Nat /\ Pos(w, fs, n) + 1 \in 1 .. Len(w.content[w.file])
           /\ Pos(w, gs, n) = Pos(w, fs, n) + 1
           /\ x = w.content[w.file][Pos(w, fs, n) + 1]

LEMMA AdvanceIs ==
  ASSUME NEW w, Watched(w), NEW fs \in Seq(Frames), fs # <<>>, fs[Len(fs)].rest # <<>>,
         \A k \in DOMAIN fs : FrameRead(w, fs, k),
         NEW gs, gs = [fs EXCEPT ![Len(fs)].rest = Tail(@)]
  PROVE  NextLine(w, fs, gs, Head(fs[Len(fs)].rest))
  <1> DEFINE n == Len(fs)
             rest == fs[n].rest
             ls == w.content[fs[n].file]
  <1>1. n \in Nat /\ n > 0 /\ DOMAIN fs = 1 .. n /\ n \in DOMAIN fs /\ fs[n] \in Frames
    BY EndTyped
  <1>2. rest \in Seq(WrittenLines) /\ rest # <<>>
    BY <1>1 DEF Frames
  <1>3. /\ Len(rest) \in Nat /\ Len(rest) > 0 /\ DOMAIN rest = 1 .. Len(rest)
        /\ Head(rest) = rest[1] /\ Tail(rest) \in Seq(WrittenLines) /\ Len(Tail(rest)) = Len(rest) - 1
        /\ \A i \in 1 .. Len(rest) - 1 : Tail(rest)[i] = rest[i + 1]
        /\ DOMAIN Tail(rest) = 1 .. Len(rest) - 1
    BY <1>2, EndTyped, HeadTailProperties, LenProperties
  <1>4. PICK e : e = [fs[n] EXCEPT !.rest = Tail(@)]
    OBVIOUS
  <1>5. e.file = fs[n].file /\ e.rest = Tail(rest) /\ e \in Frames
    BY <1>1, <1>3, <1>4 DEF Frames
  <1>6. gs = [fs EXCEPT ![n] = e]
    BY <1>1, <1>4
  <1>7. /\ gs \in Seq(Frames) /\ Len(gs) = n /\ DOMAIN gs = 1 .. n
        /\ \A k \in 1 .. n - 1 : gs[k] = fs[k]
        /\ gs[n] = e
    <2>1. n \in 1 .. Len(fs) /\ e \in Frames /\ n = Len(fs)
      BY <1>1, <1>5
    <2> HIDE DEF n
    <2>6. [fs EXCEPT ![n] = e] \in Seq(Frames) /\ Len([fs EXCEPT ![n] = e]) = Len(fs)
      BY ONLY fs \in Seq(Frames), <2>1, ExceptSeq
    <2>2. gs \in Seq(Frames) /\ Len(gs) = n
      BY <1>6, <2>1, <2>6
    <2>4. DOMAIN fs = 1 .. n
      BY <2>1, LenProperties
    <2>5. \A k \in 1 .. n : gs[k] = IF k = n THEN e ELSE fs[k]
      BY <1>6, <2>4
    <2>3. DOMAIN gs = 1 .. n
      BY <2>2, LenProperties
    <2> QED
      BY <1>1, <2>2, <2>3, <2>5
  <1>8. FrameRead(w, fs, n)
    BY <1>1
  <1> HIDE DEF n, rest, ls
  <1>9. CASE Given(w, n)
    <2>1. \A i \in DOMAIN rest : Unwatched(w, rest[i])
      BY <1>8, <1>9 DEF FrameRead, rest
    <2>2. Unwatched(w, Head(rest))
      BY <1>3, <2>1
    <2>3. \A i \in DOMAIN e.rest : Unwatched(w, e.rest[i])
      BY <1>3, <1>5, <2>1
    <2>4. FrameRead(w, gs, n)
      BY <1>7, <1>9, <2>3 DEF FrameRead
    <2>5. ASSUME NEW k \in 1 .. n PROVE FrameRead(w, gs, k)
      <3>1. CASE k = n
        BY <2>4, <3>1
      <3>2. CASE k # n
        <4>1. k \in 1 .. n - 1 /\ k \in DOMAIN fs
          BY <1>1, <3>2
        <4>2. gs[k] = fs[k] /\ FrameRead(w, fs, k)
          BY <1>7, <4>1
        <4> QED
          BY <4>2 DEF FrameRead, Pos
      <3> QED
        BY <3>1, <3>2
    <2>6. ~Of(w, fs, n)
      BY <1>9 DEF Of
    <2> QED
      BY <1>1, <1>5, <1>7, <2>2, <2>5, <2>6 DEF NextLine, n, rest
  <1>10. CASE ~Given(w, n)
    <2>1. /\ fs[n].file \in File /\ Len(rest) <= Len(ls)
          /\ \A i \in DOMAIN rest : rest[i] = ls[Pos(w, fs, n) + i]
      BY <1>8, <1>10 DEF FrameRead, rest, ls
    <2>2. ls \in Seq(Range(ls)) /\ Len(ls) \in Nat /\ DOMAIN ls = 1 .. Len(ls)
      BY <2>1, PreprocessorAssumption, LenProperties DEF Watched, ls
    <2>3. Pos(w, fs, n) = Len(ls) - Len(rest) /\ Pos(w, gs, n) = Len(ls) - (Len(rest) - 1)
      BY <1>3, <1>5, <1>7 DEF Pos, ls, rest
    <2>4. /\ Pos(w, fs, n) \in Nat /\ Pos(w, fs, n) + 1 \in 1 .. Len(ls)
          /\ Pos(w, gs, n) = Pos(w, fs, n) + 1
      BY <1>3, <2>1, <2>2, <2>3
    <2>5. Head(rest) = ls[Pos(w, fs, n) + 1]
      BY <1>3, <2>1
    <2>6. ASSUME NEW i \in DOMAIN e.rest PROVE e.rest[i] = ls[Pos(w, gs, n) + i]
      <3>1. e.rest[i] = rest[i + 1] /\ i + 1 \in DOMAIN rest /\ i \in Nat
        BY <1>3, <1>5
      <3>2. rest[i + 1] = ls[Pos(w, fs, n) + (i + 1)]
        BY <2>1, <3>1
      <3>3. Pos(w, fs, n) + (i + 1) = Pos(w, gs, n) + i
        BY <2>4, <3>1
      <3> QED
        BY <3>1, <3>2, <3>3
    <2>7. FrameRead(w, gs, n)
      <3>1. gs[n].file = fs[n].file /\ gs[n].rest = e.rest
        BY <1>5, <1>7
      <3>2. Len(e.rest) <= Len(ls)
        BY <1>3, <1>5, <2>1, <2>2
      <3> QED
        BY <1>10, <2>1, <2>6, <3>1, <3>2 DEF FrameRead, ls
    <2>8. ASSUME NEW k \in 1 .. n PROVE FrameRead(w, gs, k)
      <3>1. CASE k = n
        BY <2>7, <3>1
      <3>2. CASE k # n
        <4>1. k \in 1 .. n - 1 /\ k \in DOMAIN fs
          BY <1>1, <3>2
        <4>2. gs[k] = fs[k] /\ FrameRead(w, fs, k)
          BY <1>7, <4>1
        <4> QED
          BY <4>2 DEF FrameRead, Pos
      <3> QED
        BY <3>1, <3>2
    <2>9. ~Of(w, fs, n) => Unwatched(w, Head(rest))
      <3> SUFFICES ASSUME ~Of(w, fs, n) PROVE Unwatched(w, Head(rest))
        OBVIOUS
      <3>1. fs[n].file \in File \ {w.file}
        BY <1>10, <2>1 DEF Of
      <3>2. Head(rest) \in Range(ls)
        BY <2>2, <2>4, <2>5 DEF Range
      <3> QED
        BY <3>1, <3>2 DEF Watched, Unwatched, ls
    <2>10. Of(w, fs, n) => ls = w.content[w.file]
      BY DEF Of, ls
    <2> QED
      BY <1>1, <1>5, <1>7, <2>4, <2>5, <2>8, <2>9, <2>10 DEF NextLine, n, rest
  <1> QED
    BY <1>9, <1>10

\* Below the last file nothing changes.
LEMMA BelowKept ==
  ASSUME NEW w, NEW fs, NEW gs, NEW k, gs[k] = fs[k]
  PROVE  /\ Pos(w, gs, k) = Pos(w, fs, k) /\ Of(w, gs, k) = Of(w, fs, k)
         /\ InGuard(w, gs, k) = InGuard(w, fs, k)
  BY DEF Pos, Of, InGuard
-----------------------------------------------------------------------------
\* A construct that a step does not change, of a file that it does not read.
LEMMA SameRead ==
  ASSUME NEW w, NEW fs, NEW gs, NEW cs, NEW ds, NEW ifd, NEW jfd, NEW en, NEW fn, NEW i, NEW k,
         ConstructRead(w, fs, cs, ifd, en, i, k), gs[k] = fs[k],
         ds[i] = cs[i], (i < Len(ds)) = (i < Len(cs)),
         i < Len(cs) => ds[i + 1].kind = cs[i + 1].kind /\ ds[i + 1].kept = cs[i + 1].kept,
         cs[i].kind # "file" => ds[i - 1].kind = cs[i - 1].kind,
         Value(jfd, fn, i - k + 1) = Value(ifd, en, i - k + 1)
  PROVE  ConstructRead(w, gs, ds, jfd, fn, i, k)
  <1>1. /\ Pos(w, gs, k) = Pos(w, fs, k) /\ Of(w, gs, k) = Of(w, fs, k)
        /\ InGuard(w, gs, k) = InGuard(w, fs, k)
    BY BelowKept
  <1>2. CASE ~Of(w, fs, k)
    BY <1>1, <1>2 DEF ConstructRead
  <1>3. CASE Of(w, fs, k) /\ cs[i].kind = "file"
    <2>1. FileRead(w, fs, cs, i, k)
      BY <1>3 DEF ConstructRead
    <2>2. FileRead(w, gs, ds, i, k)
      BY <1>1, <2>1 DEF FileRead
    <2> QED
      BY <1>1, <1>3, <2>2 DEF ConstructRead
  <1>4. CASE Of(w, fs, k) /\ cs[i].kind # "file"
    <2>1. PartRead(w, fs, cs, ifd, en, i, k)
      BY <1>4 DEF ConstructRead
    <2>2. PartRead(w, gs, ds, jfd, fn, i, k)
      BY <1>1, <1>4, <2>1 DEF PartRead
    <2> QED
      BY <1>1, <1>4, <2>2 DEF ConstructRead
  <1> QED
    BY <1>2, <1>3, <1>4

\* The lines of the watched file that matter.
LEMMA WatchedLine ==
  ASSUME NEW w, Watched(w), NEW i \in 1 .. Len(w.content[w.file]),
         NEW x, x = w.content[w.file][i]
  PROVE  /\ x.op = "text" /\ x.arg = w.t <=> i = w.r
         /\ i = w.q => x.op = "text" /\ x.arg = w.l /\ ~Within(w.content[w.file], i)
         /\ i = w.r => InPart(w.content[w.file], w.p, i) /\ Within(w.content[w.file], i)
         /\ x.op = "if" => ~Within(w.content[w.file], i)
  <1>1. DOMAIN w.content[w.file] = 1 .. Len(w.content[w.file])
    BY WatchedIs
  <1>2. Guards(w.content[w.file], w.l, w.m, w.t, w.p, w.r, w.q)
    BY DEF Watched
  <1>3. InPart(w.content[w.file], w.p, w.r) => Within(w.content[w.file], w.r)
    BY PartWithin
  <1> QED
    BY <1>1, <1>2, <1>3 DEF Guards

\* The same constructs, of as many files, are of the same files.
LEMMA KindsOwn ==
  ASSUME NEW own, NEW fs, NEW gs, NEW cs, NEW ds, NEW ifd, NEW jfd, Owns(own, fs, cs, ifd),
         Len(cs) \in Nat, Len(ds) = Len(cs), Len(gs) = Len(fs), Len(jfd) = Len(ifd),
         \A i \in 1 .. Len(cs) : ds[i].kind = cs[i].kind \/ {ds[i].kind, cs[i].kind} \subseteq {"if", "else"}
  PROVE  Owns(own, gs, ds, jfd)
  <1>1. /\ own \in Seq(Nat) /\ Len(own) = Len(ds) /\ Len(ds) > 0 /\ cs[1].kind = "file" /\ own[1] = 1
        /\ \A i, j \in 1 .. Len(own) : i <= j => own[i] <= own[j] /\ i - own[i] <= j - own[j]
        /\ own[Len(own)] = Len(gs) /\ Len(jfd) = Len(own) - Len(gs)
    BY DEF Owns
  <1>2. \A i \in 1 .. Len(ds) : ds[i].kind = "file" <=> cs[i].kind = "file"
    OBVIOUS
  <1>3. ds[1].kind = "file"
    BY <1>1, <1>2
  <1>4. ASSUME NEW i \in 2 .. Len(own)
        PROVE  own[i] = IF ds[i].kind = "file" THEN own[i - 1] + 1 ELSE own[i - 1]
    <2>1. i \in 1 .. Len(ds)
      BY <1>1
    <2>2. own[i] = IF cs[i].kind = "file" THEN own[i - 1] + 1 ELSE own[i - 1]
      BY DEF Owns
    <2> QED
      BY <1>2, <2>1, <2>2
  <1> QED
    BY <1>1, <1>3, <1>4 DEF Owns

LEMMA GuardLine ==
  ASSUME NEW w, Watched(w), NEW x, x = w.content[w.file][w.p]
  PROVE  x.op = "if" /\ x.arg = w.m /\ x.flag = FALSE
  BY DEF Watched, Guards

LEMMA SkipRead ==
  ASSUME NEW w, Watched(w), NEW fs \in Seq(Frames), NEW cs \in Seq(Constructs),
         NEW own, NEW ifd, NEW en, StackRead(w, own, fs, cs, ifd, en),
         NEW gs, NEW x \in WrittenLines, NextLine(w, fs, gs, x),
         x.op \notin {"if", "else", "endif"},
         NEW text \in {<<>>, <<x>>}, x.op = "text" => text = <<x>>,
         NEW ds, AddedTo(cs, ds, text)
  PROVE  StackRead(w, own, gs, ds, ifd, en)
  <1> DEFINE n == Len(cs)
             K == Len(fs)
             ls == w.content[w.file]
             at == Pos(w, fs, K) + 1
  <1>1. Owns(own, fs, cs, ifd) /\ \A i \in DOMAIN cs : ConstructRead(w, fs, cs, ifd, en, i, own[i])
    BY DEF StackRead
  <1>2. /\ n \in Nat /\ n > 0 /\ Len(own) = n /\ DOMAIN cs = 1 .. n
        /\ K \in Nat /\ DOMAIN fs = 1 .. K /\ K > 0
        /\ \A i \in 1 .. n : own[i] \in 1 .. K
        /\ own[n] = K
        /\ \A i \in 1 .. n - 1 : own[i] = K => cs[i + 1].kind # "file"
    <2>1. fs \in Seq(Frames) /\ cs \in Seq(Constructs) /\ Owns(own, fs, cs, ifd)
      BY <1>1
    <2> HIDE DEF n, K, ls, at
    <2>2. n = Len(cs) /\ K = Len(fs)
      BY DEF n, K
    <2> QED
      BY ONLY <2>1, <2>2, OwnsIs
  <1>4. /\ ds \in Seq(Constructs) /\ Len(ds) = n /\ DOMAIN ds = 1 .. n
        /\ \A i \in 1 .. n : ds[i].kind = cs[i].kind /\ ds[i].kept = cs[i].kept /\ ds[i].hdr = cs[i].hdr
        /\ \A i \in 1 .. n - 1 : ds[i] = cs[i]
        /\ \A a : Has(ds[n].prog, a) <=> Has(cs[n].prog, a) \/ Has(text, a)
    BY DEF AddedTo
  <1>5. /\ gs \in Seq(Frames) /\ Len(gs) = K /\ DOMAIN gs = 1 .. K
        /\ \A k \in 1 .. K - 1 : gs[k] = fs[k]
        /\ gs[K].file = fs[K].file
        /\ \A k \in 1 .. K : FrameRead(w, gs, k)
        /\ ~Of(w, fs, K) => Unwatched(w, x)
        /\ Of(w, fs, K) => /\ Pos(w, fs, K) \in Nat /\ at \in 1 .. Len(ls)
                           /\ Pos(w, gs, K) = at /\ x = ls[at]
    BY <1>2 DEF NextLine
  <1>6. Owns(own, gs, ds, ifd)
    BY <1>1, <1>2, <1>4, <1>5, KindsOwn
  <1>8. Of(w, gs, K) = Of(w, fs, K)
    BY <1>5 DEF Of
  <1> HIDE DEF n, K, ls, at
  <1>9. ASSUME NEW i \in 1 .. n PROVE ConstructRead(w, gs, ds, ifd, en, i, own[i])
    <2>1. ConstructRead(w, fs, cs, ifd, en, i, own[i])
      BY <1>1, <1>2
    <2>2. CASE own[i] # K
      <3>1. own[i] \in 1 .. K - 1 /\ i \in 1 .. n - 1 /\ i # n
        BY <1>2, <2>2
      <3>2. gs[own[i]] = fs[own[i]] /\ ds[i] = cs[i]
        BY <1>4, <1>5, <3>1
      <3>3. i + 1 \in 1 .. n
        BY <1>2, <3>1
      <3>4. ds[i + 1].kind = cs[i + 1].kind /\ ds[i + 1].kept = cs[i + 1].kept
        BY <1>4, <3>3
      <3>5. cs[i].kind # "file" => ds[i - 1].kind = cs[i - 1].kind
        <4>1. i # 1 => i - 1 \in 1 .. n
          BY <1>2
        <4>2. i = 1 => cs[i].kind = "file"
          BY <1>1 DEF Owns
        <4> QED
          BY <1>4, <4>1, <4>2
      <3> QED
        BY <1>4, <2>1, <3>2, <3>4, <3>5, SameRead DEF n
    <2>3. CASE own[i] = K /\ ~Of(w, fs, K)
      <3>1. Fine(w, cs[i].prog) /\ Fine(w, cs[i].kept)
            /\ (cs[i].kind = "file" => Value(ifd, en, i - K + 1) = TRUE)
        BY <2>1, <2>3 DEF ConstructRead
      <3>2. Fine(w, ds[i].prog)
        <4>1. CASE i = n
          <5>1. ~Has(text, w.l) /\ ~Has(text, w.t)
            BY <1>5, <2>3, UnwatchedIs, HasNone
          <5> QED
            BY <1>4, <3>1, <4>1, <5>1 DEF Fine
        <4>2. CASE i # n
          BY <1>2, <1>4, <3>1, <4>2
        <4> QED
          BY <4>1, <4>2
      <3> QED
        BY <1>4, <1>8, <2>3, <3>1, <3>2 DEF ConstructRead
    <2>4. CASE own[i] = K /\ Of(w, fs, K)
      <3>1. /\ at \in 1 .. Len(ls) /\ x = ls[at] /\ Pos(w, gs, K) = at /\ Pos(w, fs, K) = at - 1
            /\ at \in Nat /\ at >= 1
        <4>1. at \in 1 .. Len(ls) /\ x = ls[at] /\ Pos(w, gs, K) = at /\ Pos(w, fs, K) \in Nat
          BY <1>5, <2>4
        <4>2. at \in Nat /\ at >= 1 /\ Pos(w, fs, K) = at - 1
          BY <4>1 DEF at
        <4> QED
          BY <4>1, <4>2
      <3>2. /\ Within(ls, at + 1) <=> Within(ls, at)
            /\ InPart(ls, w.p, at + 1) <=> InPart(ls, w.p, at)
            /\ InPart(ls, w.p, at) => Within(ls, at)
        BY <3>1, WithinNext, PartNext, PartWithin
      <3>3. InGuard(w, fs, K) = InPart(ls, w.p, at) /\ InGuard(w, gs, K) = InPart(ls, w.p, at + 1)
        BY <3>1 DEF InGuard, ls
      <3>4. /\ x.op = "text" /\ x.arg = w.t <=> at = w.r
            /\ at = w.q => x.op = "text" /\ x.arg = w.l /\ ~Within(ls, at)
            /\ at = w.r => InPart(ls, w.p, at) /\ Within(ls, at)
        <4>1. at \in 1 .. Len(w.content[w.file]) /\ x = w.content[w.file][at]
          BY <3>1 DEF ls
        <4>2. /\ x.op = "text" /\ x.arg = w.t <=> at = w.r
              /\ at = w.q => x.op = "text" /\ x.arg = w.l /\ ~Within(w.content[w.file], at)
              /\ at = w.r => InPart(w.content[w.file], w.p, at) /\ Within(w.content[w.file], at)
          BY <4>1, WatchedLine
        <4> QED
          BY <4>2 DEF ls
      <3>5. Has(text, w.t) <=> at = w.r
        <4>1. text = <<>> \/ text = <<x>>
          OBVIOUS
        <4> QED
          BY <3>4, <4>1, HasOne, HasNone
      <3>6. at = w.q => Has(text, w.l)
        BY <3>4, HasOne
      <3>7. \A a : Has(cs[i].prog, a) => Has(ds[i].prog, a)
        <4>1. CASE i = n
          BY <1>4, <4>1
        <4>2. CASE i # n
          <5>1. i \in 1 .. n - 1
            BY <1>2, <4>2
          <5> QED
            BY <1>4, <5>1
        <4> QED
          BY <4>1, <4>2
      <3>8. w.p \in Nat /\ w.q \in Nat /\ w.r \in Nat
        BY WatchedIs
      <3>9. i < n => cs[i + 1].kind # "file" /\ ds[i + 1].kind # "file"
        <4>1. i < n => i \in 1 .. n - 1 /\ i + 1 \in 1 .. n
          BY <1>2
        <4> QED
          BY <1>2, <1>4, <2>4, <4>1
      <3>10. CASE cs[i].kind = "file"
        <4>1. FileRead(w, fs, cs, i, K) /\ Value(ifd, en, i - K + 1) = TRUE
          BY <2>1, <2>4, <3>10 DEF ConstructRead
        <4>2. Within(ls, at) <=> i < n
          BY <3>1, <3>9, <4>1 DEF FileRead, n, ls
        <4>3. i = n \/ ds[i] = cs[i]
          BY <1>2, <1>4
        <4>4. i < n => ds[i + 1].kept = cs[i + 1].kept
          <5>1. i < n => i + 1 \in 1 .. n
            BY <1>2
          <5> QED
            BY <1>4, <5>1
        <4>5. at >= w.q => Has(ds[i].prog, w.l)
          <5>1. CASE at = w.q
            BY <1>2, <1>4, <3>4, <3>6, <4>2, <5>1
          <5>2. CASE at # w.q /\ at >= w.q
            <6>1. Pos(w, fs, K) >= w.q
              BY <3>1, <3>8, <5>2
            <6> QED
              BY <3>7, <4>1, <6>1 DEF FileRead
          <5> QED
            BY <5>1, <5>2
        <4>6. w.second /\ Has(ds[i].prog, w.t) => w.asked
          <5>1. i = n => ~Has(text, w.t)
            BY <1>2, <3>4, <3>5, <4>2
          <5>2. Has(ds[i].prog, w.t) => Has(cs[i].prog, w.t)
            BY <1>4, <4>3, <5>1
          <5> QED
            BY <4>1, <5>2 DEF FileRead
        <4>7. w.second /\ w.asked /\ at >= w.r /\ ~InGuard(w, gs, K) =>
                Has(ds[i].prog, w.t) \/ (i < n /\ Has(ds[i + 1].kept, w.t))
          <5> SUFFICES ASSUME w.second, w.asked, at >= w.r, ~InGuard(w, gs, K)
                       PROVE  Has(ds[i].prog, w.t) \/ (i < n /\ Has(ds[i + 1].kept, w.t))
            OBVIOUS
          <5>1. at # w.r
            BY <3>2, <3>3, <3>4
          <5>2. Pos(w, fs, K) >= w.r /\ ~InGuard(w, fs, K)
            BY <3>1, <3>2, <3>3, <3>8, <5>1
          <5>3. Has(cs[i].prog, w.t) \/ (i < n /\ Has(cs[i + 1].kept, w.t))
            BY <4>1, <5>2 DEF FileRead, n
          <5> QED
            BY <3>7, <4>4, <5>3
        <4>8. FileRead(w, gs, ds, i, K)
          BY <1>4, <3>1, <3>2, <3>9, <4>2, <4>5, <4>6, <4>7 DEF FileRead, ls
        <4> QED
          BY <1>4, <1>8, <2>4, <3>10, <4>1, <4>8 DEF ConstructRead
      <3>11. CASE cs[i].kind # "file"
        <4>1. PartRead(w, fs, cs, ifd, en, i, K)
          BY <2>1, <2>4, <3>11 DEF ConstructRead
        <4>2. i = n
          BY <1>2, <3>9, <4>1 DEF PartRead, n
        <4>3. i > 1 /\ i - 1 \in 1 .. n - 1
          <5>1. cs[1].kind = "file"
            BY <1>1 DEF Owns
          <5>2. i # 1
            BY <3>11, <5>1
          <5> QED
            BY <1>2, <5>2
        <4>4. ds[i - 1].kind = "file"
          BY <1>4, <4>1, <4>3 DEF PartRead
        <4>5. ~InGuard(w, gs, K) /\ Has(ds[i].prog, w.t) /\ w.second => w.asked
          <5>1. ~InGuard(w, gs, K) => ~Has(text, w.t) /\ ~InGuard(w, fs, K)
            BY <3>2, <3>3, <3>4, <3>5
          <5> QED
            BY <1>4, <4>1, <4>2, <5>1 DEF PartRead
        <4>6. InGuard(w, gs, K) /\ at >= w.r /\ w.second => Has(ds[i].prog, w.t)
          <5>1. at = w.r => Has(ds[i].prog, w.t)
            BY <1>4, <3>5, <4>2
          <5>2. at # w.r /\ at >= w.r => Pos(w, fs, K) >= w.r
            BY <3>1, <3>8
          <5> QED
            BY <3>2, <3>3, <3>7, <4>1, <5>1, <5>2 DEF PartRead
        <4>7. PartRead(w, gs, ds, ifd, en, i, K)
          BY <1>4, <3>1, <3>2, <3>3, <4>1, <4>2, <4>4, <4>5, <4>6 DEF PartRead, ls, n
        <4> QED
          BY <1>4, <1>8, <2>4, <3>11, <4>7 DEF ConstructRead
      <3> QED
        BY <3>10, <3>11
    <2> QED
      BY <2>2, <2>3, <2>4
  <1> QED
    BY <1>4, <1>5, <1>6, <1>9 DEF StackRead
-----------------------------------------------------------------------------
\* The constructs of the file being read are the last ones, and no more
\* conditionals are open in any construct than in the last.
StackFacts(w, own, fs, cs, ifd, en) ==
  /\ Len(cs) \in Nat /\ Len(cs) > 0 /\ Len(own) = Len(cs) /\ DOMAIN cs = 1 .. Len(cs)
  /\ cs # <<>> /\ own \in Seq(Nat) /\ cs[1].kind = "file"
  /\ Len(fs) \in Nat /\ DOMAIN fs = 1 .. Len(fs) /\ Len(fs) > 0
  /\ \A i \in 1 .. Len(cs) : own[i] \in 1 .. Len(fs) /\ cs[i] \in Constructs
  /\ own[Len(cs)] = Len(fs)
  /\ \A i \in 1 .. Len(cs) - 1 :
       own[i + 1] = IF cs[i + 1].kind = "file" THEN own[i] + 1 ELSE own[i]
  /\ \A i \in 1 .. Len(cs) - 1 : own[i] = Len(fs) => cs[i + 1].kind # "file"
  /\ Len(ifd) = Len(cs) - Len(fs) /\ Len(ifd) \in Nat
  /\ \A i \in 1 .. Len(cs) : i - own[i] + 1 \in 1 .. Len(ifd) + 1
  /\ \A i \in 1 .. Len(cs) : ConstructRead(w, fs, cs, ifd, en, i, own[i])

LEMMA StackIs ==
  ASSUME NEW w, NEW fs \in Seq(Frames), NEW cs \in Seq(Constructs),
         NEW own, NEW ifd \in Seq(BOOLEAN), NEW en, StackRead(w, own, fs, cs, ifd, en)
  PROVE  StackFacts(w, own, fs, cs, ifd, en)
  <1>1. /\ Owns(own, fs, cs, ifd) /\ Len(ifd) \in Nat
        /\ \A i \in DOMAIN cs : ConstructRead(w, fs, cs, ifd, en, i, own[i])
    BY LenProperties DEF StackRead
  <1>2. /\ Len(cs) \in Nat /\ Len(cs) > 0 /\ Len(own) = Len(cs) /\ DOMAIN cs = 1 .. Len(cs)
        /\ Len(fs) \in Nat /\ DOMAIN fs = 1 .. Len(fs) /\ Len(fs) > 0
        /\ \A i \in 1 .. Len(cs) : own[i] \in 1 .. Len(fs)
        /\ own[Len(cs)] = Len(fs)
        /\ \A i \in 1 .. Len(cs) - 1 :
              own[i + 1] = IF cs[i + 1].kind = "file" THEN own[i] + 1 ELSE own[i]
        /\ \A i \in 1 .. Len(cs) - 1 : own[i] = Len(fs) => cs[i + 1].kind # "file"
    BY <1>1, OwnsIs
  <1>3. cs # <<>> /\ \A i \in 1 .. Len(cs) : cs[i] \in Constructs
    BY <1>2, EmptySeq, ElementOfSeq
  <1>4. /\ own \in Seq(Nat) /\ cs[1].kind = "file" /\ Len(ifd) = Len(cs) - Len(fs) /\ own[1] = 1
        /\ \A i, j \in 1 .. Len(own) : i <= j => i - own[i] <= j - own[j]
    BY <1>1, <1>2 DEF Owns
  <1>5. ASSUME NEW i \in 1 .. Len(cs)
        PROVE  i - own[i] + 1 \in 1 .. Len(ifd) + 1
    <2>1. /\ i \in 1 .. Len(own) /\ Len(cs) \in 1 .. Len(own) /\ i <= Len(cs) /\ own[i] \in Nat
          /\ 1 \in 1 .. Len(own) /\ 1 <= i /\ i \in Nat
      BY <1>2
    <2>2. i - own[i] <= Len(cs) - own[Len(cs)] /\ 1 - own[1] <= i - own[i]
      BY <1>4, <2>1
    <2>3. 0 <= i - own[i] /\ i - own[i] <= Len(ifd)
      BY <1>2, <1>4, <2>2
    <2> QED
      BY <1>1, <2>1, <2>3
  <1> QED
    BY <1>1, <1>2, <1>3, <1>4, <1>5 DEF StackFacts

\* A new part of a conditional, or of a file, is of the file it is opened in.
LEMMA PushOwns ==
  ASSUME NEW own, NEW fs \in Seq(Frames), NEW cs \in Seq(Constructs), NEW ifd \in Seq(BOOLEAN), 
         Owns(own, fs, cs, ifd), NEW c \in Constructs, NEW en \in BOOLEAN, NEW gs,
         NEW jfd, NEW k, Len(gs) = k,
         IF c.kind = "file" THEN k = Len(fs) + 1 /\ jfd = ifd ELSE k = Len(fs) /\ jfd = Append(ifd, en)
  PROVE  Owns(Append(own, k), gs, Append(cs, c), jfd)
  <1> DEFINE n == Len(cs)
             o == Append(own, k)
             ds == Append(cs, c)
  <1>1. /\ own \in Seq(Nat) /\ Len(own) = n /\ cs[1].kind = "file" /\ own[1] = 1
        /\ \A i \in 2 .. n : own[i] = IF cs[i].kind = "file" THEN own[i - 1] + 1 ELSE own[i - 1]
        /\ \A i, j \in 1 .. n : i <= j => own[i] <= own[j] /\ i - own[i] <= j - own[j]
        /\ own[n] = Len(fs) /\ Len(ifd) = n - Len(fs)
    BY DEF Owns
  <1>2. /\ n \in Nat /\ n > 0 /\ Len(fs) \in Nat /\ k \in Nat /\ \A i \in 1 .. n : own[i] \in Nat
        /\ Len(ifd) \in Nat
    BY <1>1, OwnsIs, LenProperties, ElementOfSeq
  <1>3. /\ Len(ds) = n + 1 /\ \A i \in 1 .. n : ds[i] = cs[i]
        /\ ds[n + 1] = c
    BY AppendProperties
  <1>4. /\ o \in Seq(Nat) /\ Len(o) = n + 1 /\ \A i \in 1 .. n : o[i] = own[i]
        /\ o[n + 1] = k
    BY <1>1, <1>2, AppendProperties
  <1>5. Len(jfd) = (n + 1) - Len(gs)
    <2>1. CASE c.kind = "file"
      BY <1>1, <1>2, <2>1
    <2>2. CASE c.kind # "file"
      <3>1. Len(jfd) = Len(ifd) + 1
        BY <2>2, AppendProperties
      <3>2. k = Len(fs)
        BY <2>2
      <3> QED
        BY <1>1, <1>2, <3>1, <3>2
    <2> QED
      BY <2>1, <2>2
  <1> HIDE DEF n, o, ds
  <1>6. ASSUME NEW i \in 2 .. n + 1
        PROVE  o[i] = IF ds[i].kind = "file" THEN o[i - 1] + 1 ELSE o[i - 1]
    <2>1. CASE i = n + 1
      <3>1. o[i - 1] = Len(fs) /\ o[i] = k /\ ds[i] = c
        BY <1>1, <1>2, <1>3, <1>4, <2>1
      <3> QED
        BY <3>1
    <2>2. CASE i # n + 1
      <3>1. i \in 2 .. n /\ i \in 1 .. n /\ i - 1 \in 1 .. n
        BY <1>2, <2>2
      <3>2. own[i] = IF cs[i].kind = "file" THEN own[i - 1] + 1 ELSE own[i - 1]
        BY <1>1, <3>1
      <3>3. o[i] = own[i] /\ o[i - 1] = own[i - 1]
        BY <1>4, <3>1
      <3>4. ds[i] = cs[i]
        BY <1>3, <3>1
      <3> QED
        BY ONLY <3>2, <3>3, <3>4
    <2> QED
      BY <2>1, <2>2
  <1>7. ASSUME NEW i \in 1 .. n + 1, NEW j \in 1 .. n + 1, i <= j
        PROVE  o[i] <= o[j] /\ i - o[i] <= j - o[j]
    <2>1. CASE j # n + 1
      <3>1. i \in 1 .. n /\ j \in 1 .. n
        BY <1>2, <1>7, <2>1
      <3> QED
        BY <1>1, <1>4, <1>7, <3>1
    <2>2. CASE j = n + 1 /\ i = n + 1
      <3>1. o[i] = k /\ o[j] = k
        BY <1>4, <2>2
      <3> QED
        BY <1>2, <2>2, <3>1
    <2>3. CASE j = n + 1 /\ i # n + 1
      <3>1. i \in 1 .. n /\ n \in 1 .. n /\ i <= n
        BY <1>2, <2>3
      <3>2. own[i] <= own[n] /\ i - own[i] <= n - own[n] /\ own[i] \in Nat
        BY <1>1, <1>2, <3>1
      <3>3. o[j] = k /\ o[i] = own[i] /\ (k = own[n] \/ k = own[n] + 1)
        BY <1>1, <1>4, <2>3, <3>1
      <3>4. \A x, y, z \in Nat : x - y <= z - Len(fs) /\ y <= Len(fs) /\ (k = Len(fs) \/ k = Len(fs) + 1) =>
              y <= k /\ x - y <= (z + 1) - k
        BY <1>2
      <3>5. i \in Nat /\ n \in Nat /\ own[n] = Len(fs)
        BY <1>1, <1>2, <3>1
      <3>6. own[i] <= k /\ i - own[i] <= (n + 1) - k
        BY <3>2, <3>3, <3>4, <3>5
      <3> QED
        BY <2>3, <3>3, <3>6
    <2> QED
      BY <2>1, <2>2, <2>3
  <1>8. o[n + 1] = Len(gs) /\ n + 1 > 0 /\ ds[1].kind = "file" /\ o[1] = 1
    <2>1. 1 \in 1 .. n /\ n + 1 > 0
      BY <1>2
    <2>2. ds[1] = cs[1] /\ o[1] = own[1]
      BY <1>3, <1>4, <2>1
    <2> QED
      BY <1>1, <1>4, <2>1, <2>2
  <1>9. Owns(o, gs, ds, jfd)
    BY <1>3, <1>4, <1>5, <1>6, <1>7, <1>8 DEF Owns
  <1> QED
    BY <1>9 DEF o, ds
-----------------------------------------------------------------------------
LEMMA AppendValue ==
  ASSUME NEW ifd \in Seq(BOOLEAN), NEW en \in BOOLEAN, NEW hdr,
         NEW j \in 1 .. Len(ifd) + 1
  PROVE  Value(Append(ifd, en), hdr, j) = Value(ifd, en, j)
  <1>1. Len(ifd) \in Nat /\ Len(Append(ifd, en)) = Len(ifd) + 1
        /\ Append(ifd, en)[Len(ifd) + 1] = en
        /\ \A i \in 1 .. Len(ifd) : Append(ifd, en)[i] = ifd[i]
    BY AppendProperties, LenProperties
  <1> QED
    BY <1>1 DEF Value

\* Line x of a watched file is directly in the construct of the file or in the
\* part of a conditional that is open in it.
LEMMA WatchedTop ==
  ASSUME NEW w, NEW fs \in Seq(Frames), NEW cs \in Seq(Constructs),
         NEW own, NEW ifd \in Seq(BOOLEAN), NEW en, StackRead(w, own, fs, cs, ifd, en),
         Of(w, fs, Len(fs)), NEW i \in 1 .. Len(cs), own[i] = Len(fs),
         NEW at, at = Pos(w, fs, Len(fs)) + 1
  PROVE  IF Within(w.content[w.file], at)
           THEN IF i = Len(cs) THEN cs[i].kind # "file" 
                  ELSE i = Len(cs) - 1 /\ cs[i].kind = "file"
           ELSE i = Len(cs) /\ cs[i].kind = "file"
  <1> DEFINE n == Len(cs)
             K == Len(fs)
             in == Within(w.content[w.file], at)
  <1>1. /\ n \in Nat /\ n > 0 /\ \A j \in 1 .. n - 1 : own[j] = K => cs[j + 1].kind # "file"
        /\ \A j \in 1 .. n - 1 :
              own[j + 1] = IF cs[j + 1].kind = "file" THEN own[j] + 1 ELSE own[j]
        /\ \A j \in 1 .. n : ConstructRead(w, fs, cs, ifd, en, j, own[j])
    <2>1. StackFacts(w, own, fs, cs, ifd, en)
      BY StackIs
    <2> QED
      BY <2>1 DEF StackFacts
  <1>2. ConstructRead(w, fs, cs, ifd, en, i, K)
    BY <1>1
  <1> HIDE DEF n, K
  <1>3. i < n => cs[i + 1].kind # "file"
    BY <1>1 DEF n, K
  <1>4. CASE cs[i].kind = "file"
    <2>1. FileRead(w, fs, cs, i, K)
      BY <1>2, <1>4 DEF ConstructRead, K
    <2>2. in <=> i < n
      BY <1>3, <2>1 DEF FileRead, n, K
    <2>3. CASE i < n
      <3>1. i \in 1 .. n - 1 /\ i + 1 \in 1 .. n /\ own[i + 1] = K
        BY <1>1, <1>3, <2>3 DEF n, K
      <3>2. ConstructRead(w, fs, cs, ifd, en, i + 1, K)
        BY <1>1, <3>1
      <3>3. PartRead(w, fs, cs, ifd, en, i + 1, K)
        BY <1>3, <2>3, <3>2 DEF ConstructRead, K
      <3>4. i + 1 < n => cs[(i + 1) + 1].kind = "file"
        BY <3>3 DEF PartRead, n
      <3>5. i + 1 < n => i + 1 \in 1 .. n - 1
        BY <1>1, <3>1
      <3>6. i + 1 = n
        BY <1>1, <3>1, <3>4, <3>5
      <3> QED
        BY <1>1, <1>4, <2>2, <2>3, <3>1, <3>6 DEF n
    <2>4. CASE i = n
      BY <1>4, <2>2, <2>4, <1>1 DEF n
    <2> QED
      BY <1>1, <2>3, <2>4 DEF n
  <1>5. CASE cs[i].kind # "file"
    <2>1. PartRead(w, fs, cs, ifd, en, i, K)
      BY <1>2, <1>5 DEF ConstructRead, K
    <2>2. in /\ ~(i < n)
      BY <1>3, <2>1 DEF PartRead, n, K
    <2> QED
      BY <1>1, <1>5, <2>2 DEF n
  <1> QED
    BY <1>4, <1>5

LEMMA IfRead ==
  ASSUME NEW w, Watched(w), NEW fs \in Seq(Frames), NEW cs \in Seq(Constructs),
         NEW own, NEW ifd \in Seq(BOOLEAN), NEW en \in BOOLEAN, StackRead(w, own, fs, cs, ifd, en),
         NEW gs, NEW x \in WrittenLines, NextLine(w, fs, gs, x), x.op = "if",
         NEW ids, w.second => (w.m \in ids <=> w.asked),
         NEW hdr, hdr = (en /\ ((x.arg \in ids) # x.flag))
  PROVE  StackRead(w, Append(own, Len(fs)), gs, Append(cs, Construct("if", hdr, <<>>)),
                   Append(ifd, en), hdr)
  <1> DEFINE n == Len(cs)
             K == Len(fs)
             ls == w.content[w.file]
             at == Pos(w, fs, K) + 1
             c == Construct("if", hdr, <<>>)
             o == Append(own, K)
             ds == Append(cs, c)
             jfd == Append(ifd, en)
  <1>1. /\ n \in Nat /\ n > 0 /\ DOMAIN cs = 1 .. n /\ own \in Seq(Nat) /\ Len(own) = n
        /\ K \in Nat /\ DOMAIN fs = 1 .. K /\ K > 0 /\ cs[1].kind = "file"
        /\ \A i \in 1 .. n : own[i] \in 1 .. K
        /\ own[n] = K /\ Len(ifd) = n - K
        /\ \A i \in 1 .. n : i - own[i] + 1 \in 1 .. Len(ifd) + 1
        /\ \A i \in 1 .. n : ConstructRead(w, fs, cs, ifd, en, i, own[i])
    <2>1. StackFacts(w, own, fs, cs, ifd, en)
      BY StackIs
    <2> QED
      BY <2>1 DEF StackFacts
  <1>2. c \in Constructs /\ c.kind = "if" /\ c.hdr = hdr /\ c.kept = <<>> /\ c.prog = <<>>
    <2>1. hdr \in BOOLEAN /\ "if" \in Kinds /\ <<>> \in Seq(WrittenLines)
      BY EmptySeq DEF Kinds
    <2> QED
      BY <2>1, ConstructTyped DEF Construct
  <1>3. /\ Len(ds) = n + 1 /\ \A i \in 1 .. n : ds[i] = cs[i]
        /\ ds[n + 1] = c /\ ds \in Seq(Constructs)
    BY <1>2, AppendProperties
  <1>4. /\ Len(o) = n + 1 /\ \A i \in 1 .. n : o[i] = own[i]
        /\ o[n + 1] = K
    BY <1>1, AppendProperties
  <1>5. /\ gs \in Seq(Frames) /\ Len(gs) = K /\ DOMAIN gs = 1 .. K
        /\ \A k \in 1 .. K - 1 : gs[k] = fs[k]
        /\ gs[K].file = fs[K].file
        /\ \A k \in 1 .. K : FrameRead(w, gs, k)
        /\ Of(w, fs, K) => /\ Pos(w, fs, K) \in Nat /\ at \in 1 .. Len(ls)
                           /\ Pos(w, gs, K) = at /\ x = ls[at]
    BY <1>1 DEF NextLine
  <1>6. Owns(o, gs, ds, jfd)
    <2>1. Owns(own, fs, cs, ifd)
      BY DEF StackRead
    <2>2. c \in Constructs /\ c.kind = "if" /\ Len(gs) = K /\ en \in BOOLEAN
      BY <1>2, <1>5
    <2>3. fs \in Seq(Frames) /\ cs \in Seq(Constructs) /\ ifd \in Seq(BOOLEAN)
      OBVIOUS
    <2> HIDE DEF n, K, ls, at, c, o, ds, jfd
    <2>4. IF c.kind = "file" THEN K = Len(fs) + 1 /\ jfd = ifd
                             ELSE K = Len(fs) /\ jfd = Append(ifd, en)
      BY <2>2 DEF K, jfd
    <2>5. Owns(Append(own, K), gs, Append(cs, c), jfd)
      BY ONLY <2>1, <2>2, <2>3, <2>4, PushOwns
    <2> QED
      BY <2>5 DEF o, ds
  <1>7. ASSUME NEW i \in 1 .. n
        PROVE  Value(jfd, hdr, i - own[i] + 1) = Value(ifd, en, i - own[i] + 1)
    BY <1>1, AppendValue
  <1>8. Of(w, gs, K) = Of(w, fs, K)
    BY <1>5 DEF Of
  <1> HIDE DEF n, K, ls, at, c, o, ds, jfd
  <1>9. ASSUME NEW i \in 1 .. n PROVE ConstructRead(w, gs, ds, jfd, hdr, i, own[i])
    <2>1. ConstructRead(w, fs, cs, ifd, en, i, own[i]) /\ ds[i] = cs[i]
      BY <1>1, <1>3
    <2>2. CASE own[i] # K
      <3>1. own[i] \in 1 .. K - 1 /\ i + 1 \in 1 .. n /\ i < n
        <4>1. own[i] \in 1 .. K /\ own[n] = K /\ i # n
          BY <1>1, <2>2
        <4>2. i + 1 \in 1 .. n /\ i < n
          BY <1>1, <4>1
        <4>3. own[i] \in 1 .. K - 1
          BY <1>1, <2>2, <4>1
        <4> QED
          BY <4>2, <4>3
      <3>2. gs[own[i]] = fs[own[i]] /\ ds[i + 1] = cs[i + 1] /\ (i < Len(ds)) = (i < Len(cs))
        <4>1. gs[own[i]] = fs[own[i]]
          BY <1>5, <3>1
        <4>2. ds[i + 1] = cs[i + 1]
          BY <1>3, <3>1
        <4>3. i \in Nat /\ Len(ds) = n + 1 /\ Len(cs) = n /\ n \in Nat
          BY <1>1, <1>3 DEF n
        <4> QED
          BY <3>1, <4>1, <4>2, <4>3
      <3>3. cs[i].kind # "file" => ds[i - 1] = cs[i - 1]
        <4>1. i # 1 => i - 1 \in 1 .. n
          BY <1>1
        <4> QED
          BY <1>1, <1>3, <4>1
      <3> QED
        BY <1>7, <2>1, <3>2, <3>3, SameRead
    <2>3. CASE own[i] = K /\ ~Of(w, fs, K)
      <3>1. Fine(w, cs[i].prog) /\ Fine(w, cs[i].kept)
            /\ (cs[i].kind = "file" => Value(ifd, en, i - K + 1) = TRUE)
        BY <2>1, <2>3 DEF ConstructRead
      <3>2. Value(jfd, hdr, i - K + 1) = Value(ifd, en, i - K + 1)
        BY <1>7, <2>3
      <3> QED
        BY <1>8, <2>1, <2>3, <3>1, <3>2 DEF ConstructRead
    <2>4. CASE own[i] = K /\ Of(w, fs, K)
      <3>1. at \in 1 .. Len(ls) /\ x = ls[at] /\ Pos(w, gs, K) = at /\ Pos(w, fs, K) \in Nat
        BY <1>5, <2>4
      <3>2. at \in Nat /\ at >= 1 /\ Pos(w, fs, K) = at - 1
        BY ONLY <3>1 DEF at
      <3>3. at # w.q /\ at # w.r /\ ~Within(ls, at)
        <4>1. at \in 1 .. Len(w.content[w.file]) /\ x = w.content[w.file][at]
          BY <3>1 DEF ls
        <4>2. /\ x.op = "text" /\ x.arg = w.t <=> at = w.r
              /\ at = w.q => x.op = "text"
              /\ x.op = "if" => ~Within(w.content[w.file], at)
          BY <4>1, WatchedLine
        <4> QED
          BY <4>2 DEF ls
      <3>4. i = n /\ cs[i].kind = "file"
        BY <2>4, <3>3, WatchedTop DEF n, K, ls, at
      <3>5. FileRead(w, fs, cs, i, K) /\ Value(ifd, en, i - K + 1) = TRUE
        BY <2>1, <2>4, <3>4 DEF ConstructRead
      <3>6. Within(ls, at + 1)
        BY <3>1, <3>2, WithinNext
      <3>7. ~InGuard(w, fs, K)
        <4>1. ~InPart(ls, w.p, at)
          BY <3>3, PartWithin
        <4> QED
          BY <3>2, <4>1 DEF InGuard, ls
      <3>8. i < Len(ds) /\ ds[i + 1].kind # "file" /\ ds[i].prog = cs[i].prog /\ ~(i < Len(cs))
        BY <1>2, <1>3, <2>1, <3>4 DEF n
      <3>9. w.q \in Nat /\ w.r \in Nat
        BY WatchedIs
      <3>10. /\ at >= w.q => Pos(w, fs, K) >= w.q
             /\ at >= w.r => Pos(w, fs, K) >= w.r
        BY <3>2, <3>3, <3>9
      <3>11. FileRead(w, gs, ds, i, K)
        BY <3>1, <3>5, <3>6, <3>7, <3>8, <3>10 DEF FileRead, ls
      <3>12. Value(jfd, hdr, i - K + 1) = TRUE
        BY <1>7, <2>4, <3>5
      <3> QED
        BY <1>8, <2>1, <2>4, <3>4, <3>11, <3>12 DEF ConstructRead
    <2> QED
      BY <2>2, <2>3, <2>4
  <1>10. ConstructRead(w, gs, ds, jfd, hdr, n + 1, K)
    <2>1. CASE ~Of(w, fs, K)
      BY <1>2, <1>3, <1>8, <2>1, FineNone DEF ConstructRead
    <2>2. CASE Of(w, fs, K)
      <3>1. at \in 1 .. Len(ls) /\ x = ls[at] /\ Pos(w, gs, K) = at /\ Pos(w, fs, K) \in Nat
        BY <1>5, <2>2
      <3>2. at \in Nat /\ at >= 1 /\ Pos(w, fs, K) = at - 1
        <4>1. at = Pos(w, fs, K) + 1
          BY DEF at
        <4> QED
          BY ONLY <3>1, <4>1
      <3>3. ~Within(ls, at)
        <4>1. at \in 1 .. Len(w.content[w.file]) /\ x = w.content[w.file][at]
          BY <3>1 DEF ls
        <4>2. x.op = "if" => ~Within(w.content[w.file], at)
          BY <4>1, WatchedLine
        <4> QED
          BY <4>2 DEF ls
      <3>4. n \in 1 .. n
        BY <1>1
      <3>5. cs[n].kind = "file"
        <4>1. own[n] = K /\ n = Len(cs) /\ K = Len(fs) /\ at = Pos(w, fs, Len(fs)) + 1
          BY <1>1 DEF n, K, at
        <4>2. Of(w, fs, Len(fs)) /\ ~Within(w.content[w.file], at)
          BY <2>2, <3>3 DEF K, ls
        <4> QED
          BY <3>4, <4>1, <4>2, WatchedTop
      <3>6. Value(ifd, en, n - K + 1) = TRUE
        BY <1>1, <3>4, <3>5 DEF ConstructRead
      <3>7. en = TRUE
        BY <1>1, <3>6 DEF Value
      <3>8. Value(jfd, hdr, (n + 1) - K + 1) = hdr
        <4>1. Len(jfd) = Len(ifd) + 1
          BY AppendProperties DEF jfd
        <4> QED
          BY <1>1, <4>1 DEF Value
      <3>9. Within(ls, at + 1) /\ (InPart(ls, w.p, at + 1) <=> w.p = at)
        BY <3>1, <3>2, WithinNext, PartNext
      <3>10. InGuard(w, gs, K) <=> w.p = at
        BY <3>1, <3>9 DEF InGuard, ls
      <3>11. w.p = at /\ w.second => hdr = w.asked
        <4> SUFFICES ASSUME w.p = at, w.second PROVE hdr = w.asked
          OBVIOUS
        <4>1. x.arg = w.m /\ x.flag = FALSE
          BY <3>1, GuardLine DEF ls
        <4>2. w.asked \in BOOLEAN
          BY WatchedIs
        <4>3. hdr = (w.m \in ids)
          <5>1. hdr = (TRUE /\ ((w.m \in ids) # FALSE))
            BY <3>7, <4>1
          <5>2. CASE w.m \in ids
            BY <5>1, <5>2
          <5>3. CASE w.m \notin ids
            <6>1. (w.m \in ids) = FALSE
              BY <5>3
            <6>2. hdr = FALSE
              BY <5>1, <6>1
            <6> QED
              BY <6>1, <6>2
          <5> QED
            BY <5>2, <5>3
        <4> QED
          BY <4>2, <4>3
      <3>12. w.p = at => ~(at >= w.r)
        <4>1. w.p \in 1 .. w.r - 1
          BY DEF Watched, Guards, InPart
        <4>2. w.r \in Nat
          BY WatchedIs
        <4> QED
          BY <3>2, <4>1, <4>2
      <3>13. ~(n + 1 < Len(ds)) /\ ds[(n + 1) - 1].kind = "file"
        <4>1. (n + 1) - 1 = n /\ ds[n] = cs[n] /\ ~(n + 1 < Len(ds))
          BY <1>1, <1>3, <3>4
        <4> QED
          BY <3>5, <4>1
      <3>14. ds[n + 1].kind = "if" /\ ~Has(ds[n + 1].prog, w.t) /\ ~Has(ds[n + 1].kept, w.t)
             /\ ds[n + 1].hdr = hdr
        BY <1>2, <1>3, HasNone
      <3>15. PartRead(w, gs, ds, jfd, hdr, n + 1, K)
        BY <3>1, <3>8, <3>9, <3>10, <3>11, <3>12, <3>13, <3>14 DEF PartRead, ls
      <3> QED
        BY <1>8, <2>2, <3>14, <3>15 DEF ConstructRead
    <2> QED
      BY <2>1, <2>2
  <1>11. ASSUME NEW i \in DOMAIN ds PROVE ConstructRead(w, gs, ds, jfd, hdr, i, o[i])
    <2>1. i \in 1 .. n \/ i = n + 1
      BY <1>1, <1>3, LenProperties
    <2> QED
      BY <1>4, <1>9, <1>10, <2>1
  <1>12. StackRead(w, o, gs, ds, jfd, hdr)
    BY <1>5, <1>6, <1>11 DEF StackRead
  <1> QED
    BY <1>12 DEF o, ds, jfd, c, K
-----------------------------------------------------------------------------
\* Where a conditional is open at the end of the constructs, less are in the others.
LEMMA PartOnTop ==
  ASSUME NEW w, NEW fs \in Seq(Frames), NEW cs \in Seq(Constructs),
         NEW own, NEW ifd \in Seq(BOOLEAN), NEW en, StackRead(w, own, fs, cs, ifd, en),
         cs[Len(cs)].kind # "file"
  PROVE  /\ Len(cs) > 1 /\ own[Len(cs) - 1] = Len(fs) /\ Len(ifd) > 0
         /\ Last(ifd) = ifd[Len(ifd)] /\ Last(ifd) \in BOOLEAN
         /\ \A i \in 1 .. Len(cs) - 1 : i - own[i] + 1 \in 1 .. Len(ifd)
  <1> DEFINE n == Len(cs)
             K == Len(fs)
  <1>1. /\ n \in Nat /\ n > 0 /\ K \in Nat /\ cs[1].kind = "file" /\ Len(own) = n
        /\ \A i \in 1 .. n - 1 : own[i + 1] = IF cs[i + 1].kind = "file" THEN own[i] + 1 ELSE own[i]
        /\ \A i \in 1 .. n : own[i] \in 1 .. K
        /\ own[n] = K /\ Len(ifd) = n - K /\ Len(ifd) \in Nat
        /\ \A i \in 1 .. n : i - own[i] + 1 \in 1 .. Len(ifd) + 1
    <2>1. StackFacts(w, own, fs, cs, ifd, en)
      BY StackIs
    <2> QED
      BY <2>1 DEF StackFacts
  <1>2. \A i, j \in 1 .. n : i <= j => i - own[i] <= j - own[j]
    BY <1>1 DEF StackRead, Owns
  <1> HIDE DEF n, K
  <1>0. n \in Nat /\ n > 0 /\ K \in Nat /\ Len(ifd) = n - K /\ Len(ifd) \in Nat
    BY <1>1
  <1>3. n > 1
    <2>1. n # 1
      BY <1>1 DEF n
    <2> QED
      BY <1>0, <2>1
  <1>4. n - 1 \in 1 .. n - 1 /\ (n - 1) + 1 = n /\ n - 1 \in 1 .. n
    BY <1>0, <1>3
  <1>5. own[n - 1] = K
    BY <1>1, <1>4 DEF n
  <1>6. ASSUME NEW i \in 1 .. n - 1 PROVE i - own[i] + 1 \in 1 .. Len(ifd)
    <2>1. i \in 1 .. n /\ i <= n - 1 /\ i \in Nat
      BY <1>0
    <2>2. own[i] \in 1 .. K
      BY <1>1, <2>1
    <2>3. i - own[i] <= (n - 1) - K
      BY <1>2, <1>4, <1>5, <2>1
    <2>4. i - own[i] + 1 \in 1 .. Len(ifd) + 1
      BY <1>1, <2>1
    <2>5. own[i] \in Nat
      BY <1>0, <2>2
    <2> QED
      BY <1>0, <2>1, <2>3, <2>4, <2>5
  <1>7. Len(ifd) > 0
    BY <1>0, <1>4, <1>6
  <1>8. ifd # <<>>
    BY <1>7, EmptySeq
  <1>9. Last(ifd) = ifd[Len(ifd)] /\ Last(ifd) \in BOOLEAN
    BY <1>8, EndTyped
  <1> QED
    BY <1>3, <1>5, <1>6, <1>7, <1>9 DEF n, K

LEMMA ElseRead ==
  ASSUME NEW w, Watched(w), NEW fs \in Seq(Frames), NEW cs \in Seq(Constructs),
         NEW own, NEW ifd \in Seq(BOOLEAN), NEW en \in BOOLEAN, StackRead(w, own, fs, cs, ifd, en),
         NEW gs, NEW x \in WrittenLines, NextLine(w, fs, gs, x), x.op = "else",
         NEW b, b = cs[Len(cs)], b.kind = "if",
         NEW kept, kept = (IF Last(ifd) /\ b.hdr THEN b.prog ELSE <<>>),
         NEW fn, NEW ds, ds = [cs EXCEPT ![Len(cs)] = Construct("else", FALSE, kept)]
  PROVE  StackRead(w, own, gs, ds, ifd, fn)
  <1> DEFINE n == Len(cs)
             K == Len(fs)
             ls == w.content[w.file]
             at == Pos(w, fs, K) + 1
             c == Construct("else", FALSE, kept)
  <1>1. /\ n \in Nat /\ n > 0 /\ DOMAIN cs = 1 .. n /\ own \in Seq(Nat) /\ Len(own) = n
        /\ K \in Nat /\ DOMAIN fs = 1 .. K /\ K > 0 /\ cs[1].kind = "file"
        /\ \A i \in 1 .. n : own[i] \in 1 .. K /\ cs[i] \in Constructs
        /\ own[n] = K /\ Len(ifd) = n - K /\ Len(ifd) \in Nat
        /\ \A i \in 1 .. n : ConstructRead(w, fs, cs, ifd, en, i, own[i])
    <2>1. StackFacts(w, own, fs, cs, ifd, en)
      BY StackIs
    <2> QED
      BY <2>1 DEF StackFacts
  <1>0. n \in Nat /\ n > 0 /\ K \in Nat /\ Len(ifd) = n - K /\ Len(ifd) \in Nat
    BY <1>1
  <1>2. n \in 1 .. n /\ b = cs[n] /\ b \in Constructs
    BY <1>1
  <1>3. /\ n > 1 /\ own[n - 1] = K /\ Len(ifd) > 0
        /\ Last(ifd) = ifd[Len(ifd)] /\ Last(ifd) \in BOOLEAN
        /\ \A i \in 1 .. n - 1 : i - own[i] + 1 \in 1 .. Len(ifd)
    BY PartOnTop
  <1>4. kept \in Seq(WrittenLines) /\ (Has(kept, w.t) => b.hdr /\ Last(ifd) /\ Has(b.prog, w.t))
    BY <1>2, EmptySeq, HasNone DEF Constructs
  <1>5. c \in Constructs /\ c.kind = "else" /\ c.kept = kept /\ c.prog = <<>>
    <2>1. "else" \in Kinds
      BY DEF Kinds
    <2> QED
      BY <1>4, <2>1, ConstructTyped DEF Construct
  <1> HIDE DEF c
  <1>6. /\ ds \in Seq(Constructs) /\ Len(ds) = n /\ DOMAIN ds = 1 .. n
        /\ \A i \in 1 .. n - 1 : ds[i] = cs[i]
        /\ ds[n] = c
    <2>1. ds = [cs EXCEPT ![n] = c]
      BY DEF c
    <2>5. [cs EXCEPT ![n] = c] \in Seq(Constructs) /\ Len([cs EXCEPT ![n] = c]) = Len(cs)
      BY ONLY cs \in Seq(Constructs), <1>2, <1>5, ExceptSeq
    <2>2. ds \in Seq(Constructs) /\ Len(ds) = n
      BY <2>1, <2>5
    <2>3. DOMAIN ds = 1 .. n /\ \A i \in 1 .. n : ds[i] = IF i = n THEN c ELSE cs[i]
      BY <1>1, <2>1
    <2>4. \A i \in 1 .. n - 1 : i \in 1 .. n /\ i # n
      BY <1>0
    <2> QED
      BY <1>2, <2>2, <2>3, <2>4
  <1>7. /\ gs \in Seq(Frames) /\ Len(gs) = K /\ DOMAIN gs = 1 .. K
        /\ \A k \in 1 .. K - 1 : gs[k] = fs[k]
        /\ gs[K].file = fs[K].file
        /\ \A k \in 1 .. K : FrameRead(w, gs, k)
        /\ Of(w, fs, K) => /\ Pos(w, fs, K) \in Nat /\ at \in 1 .. Len(ls)
                           /\ Pos(w, gs, K) = at /\ x = ls[at]
    BY <1>1 DEF NextLine
  <1>8. \A i \in 1 .. n : ds[i].kind = cs[i].kind \/ {ds[i].kind, cs[i].kind} \subseteq {"if", "else"}
    <2>1. \A i \in 1 .. n : i = n \/ i \in 1 .. n - 1
      BY <1>0
    <2>2. ds[n].kind = "else" /\ cs[n].kind = "if"
      BY <1>2, <1>5, <1>6
    <2>3. \A i \in 1 .. n - 1 : ds[i].kind = cs[i].kind
      BY <1>6
    <2> QED
      BY ONLY <2>1, <2>2, <2>3
  <1>9. Owns(own, gs, ds, ifd)
    <2>1. Owns(own, fs, cs, ifd)
      BY DEF StackRead
    <2> QED
      BY <1>1, <1>6, <1>7, <1>8, <2>1, KindsOwn
  <1>10. \A i \in 1 .. n - 1 : Value(ifd, fn, i - own[i] + 1) = Value(ifd, en, i - own[i] + 1)
    BY <1>3 DEF Value
  <1>11. Of(w, gs, K) = Of(w, fs, K)
    BY <1>7 DEF Of
  <1> HIDE DEF n, K, ls, at
  <1>17. at = Pos(w, fs, K) + 1
    BY DEF at
  <1>18. Len(ls) \in Nat
    BY WatchedIs DEF ls
  <1>12. ASSUME Of(w, fs, K)
         PROVE  /\ at \in Nat /\ at >= 1 /\ Pos(w, fs, K) = at - 1 /\ Pos(w, gs, K) = at
                /\ at # w.q /\ at # w.r /\ w.q \in Nat /\ w.r \in Nat
                /\ Within(ls, at + 1) /\ ~InGuard(w, gs, K) /\ Within(ls, at)
    <2>1. at \in 1 .. Len(ls) /\ x = ls[at] /\ Pos(w, gs, K) = at /\ Pos(w, fs, K) \in Nat
      BY <1>7, <1>12
    <2>2. at \in Nat /\ at >= 1 /\ Pos(w, fs, K) = at - 1
      BY <1>17, <1>18, <2>1
    <2>3. at # w.q /\ at # w.r
      <3>1. at \in 1 .. Len(w.content[w.file]) /\ x = w.content[w.file][at]
        BY <2>1 DEF ls
      <3>2. /\ x.op = "text" /\ x.arg = w.t <=> at = w.r
            /\ at = w.q => x.op = "text"
        BY <3>1, WatchedLine
      <3> QED
        BY <3>2
    <2>4. Within(ls, at + 1) /\ (InPart(ls, w.p, at + 1) <=> w.p = at)
      BY <2>1, <2>2, WithinNext, PartNext
    <2>5. w.p # at
      BY <2>1, GuardLine DEF ls
    <2>6. ~InGuard(w, gs, K)
      BY <2>1, <2>4, <2>5 DEF InGuard, ls
    <2>7. Within(ls, at)
      <3>1. IF Within(ls, at) THEN cs[n].kind # "file" ELSE cs[n].kind = "file"
        <4>1. own[n] = K
          BY <1>1
        <4> QED
          BY <1>2, <1>12, <4>1, WatchedTop DEF n, K, ls, at
      <3> QED
        BY <1>2, <3>1
    <2> QED
      BY <2>1, <2>2, <2>3, <2>4, <2>6, <2>7, WatchedIs
  <1>13. ASSUME NEW i \in 1 .. n - 1, own[i] # K
         PROVE  ConstructRead(w, gs, ds, ifd, fn, i, own[i])
    <2>1. i \in 1 .. n - 2 /\ i \in 1 .. n /\ i + 1 \in 1 .. n - 1
      <3>1. i # n - 1
        BY <1>3, <1>13
      <3> QED
        BY <1>0, <3>1
    <2>2. own[i] \in 1 .. K - 1 /\ ConstructRead(w, fs, cs, ifd, en, i, own[i])
      BY <1>1, <1>13, <2>1
    <2>3. gs[own[i]] = fs[own[i]] /\ ds[i] = cs[i] /\ ds[i + 1] = cs[i + 1]
      BY <1>6, <1>7, <2>1, <2>2
    <2>4. cs[i].kind # "file" => ds[i - 1] = cs[i - 1]
      <3>1. i # 1 => i - 1 \in 1 .. n - 1
        BY <1>0
      <3> QED
        BY <1>1, <1>6, <3>1
    <2>5. (i < Len(ds)) = (i < Len(cs))
      BY <1>6 DEF n
    <2> QED
      <3>1. ds[i + 1].kind = cs[i + 1].kind /\ ds[i + 1].kept = cs[i + 1].kept
        BY <2>3
      <3>2. cs[i].kind # "file" => ds[i - 1].kind = cs[i - 1].kind
        BY <2>4
      <3>3. Value(ifd, fn, i - own[i] + 1) = Value(ifd, en, i - own[i] + 1)
        BY <1>10
      <3> QED
        BY ONLY <2>2, <2>3, <2>5, <3>1, <3>2, <3>3, SameRead
  <1>14. ASSUME NEW i \in 1 .. n - 1, own[i] = K
         PROVE  ConstructRead(w, gs, ds, ifd, fn, i, own[i])
    <2>5. i \in 1 .. n
      BY <1>0
    <2>1. i \in 1 .. n /\ ConstructRead(w, fs, cs, ifd, en, i, K) /\ ds[i] = cs[i]
      BY <1>1, <1>6, <1>14, <2>5
    <2>2. cs[i].kind = "file" => Value(ifd, fn, i - K + 1) = TRUE /\ Value(ifd, en, i - K + 1) = TRUE
      BY <1>10, <1>14, <2>1 DEF ConstructRead
    <2>3. CASE ~Of(w, fs, K)
      BY <1>11, <1>14, <2>1, <2>2, <2>3 DEF ConstructRead
    <2>4. CASE Of(w, fs, K)
      <3>1. i = n - 1 /\ cs[i].kind = "file"
        <4>1. IF i = n THEN cs[i].kind # "file" ELSE i = n - 1 /\ cs[i].kind = "file"
          BY <1>12, <1>14, <2>1, <2>4, WatchedTop DEF n, K, ls, at
        <4> QED
          BY <1>1, <4>1
      <3>2. FileRead(w, fs, cs, i, K)
        BY <2>1, <2>4, <3>1 DEF ConstructRead
      <3>3. i + 1 = n /\ i < n /\ i < Len(ds) /\ cs[i + 1] = b /\ ds[i + 1] = c /\ ds[i + 1].kind # "file"
        <4>1. i + 1 = n /\ i < n
          BY <1>0, <3>1
        <4> QED
          BY <1>2, <1>5, <1>6, <4>1
      <3>4. /\ at >= w.q => Pos(w, fs, K) >= w.q
            /\ at >= w.r => Pos(w, fs, K) >= w.r
        BY <1>12, <2>4
      <3>5. PartRead(w, fs, cs, ifd, en, n, K)
        BY <1>1, <1>2, <2>4 DEF ConstructRead
      <3>6. w.second /\ w.asked /\ at >= w.r => Has(ds[i].prog, w.t) \/ Has(c.kept, w.t)
        <4> SUFFICES ASSUME w.second, w.asked, at >= w.r, ~Has(ds[i].prog, w.t) PROVE Has(c.kept, w.t)
          OBVIOUS
        <4>1. ~InGuard(w, fs, K) => Has(b.kept, w.t)
          BY <2>1, <3>2, <3>3, <3>4 DEF FileRead
        <4>2. ~Has(b.kept, w.t)
          BY <1>2, <3>5 DEF PartRead
        <4>3. Has(b.prog, w.t) /\ b.hdr = w.asked
          BY <1>2, <3>4, <3>5, <4>1, <4>2 DEF PartRead
        <4>4. Value(ifd, en, Len(ifd)) = TRUE
          <5>1. i - K + 1 = Len(ifd)
            BY <1>0, <3>1
          <5> QED
            BY <2>2, <3>1, <5>1
        <4>5. Last(ifd) = TRUE
          BY <1>1, <1>3, <4>4 DEF Value
        <4> QED
          BY <1>5, <4>3, <4>5
      <3>7. FileRead(w, gs, ds, i, K)
        BY <1>12, <2>1, <2>4, <3>2, <3>3, <3>4, <3>6 DEF FileRead, ls
      <3> QED
        BY <1>11, <1>14, <2>1, <2>2, <2>4, <3>1, <3>7 DEF ConstructRead
    <2> QED
      BY <2>3, <2>4
  <1>15. ConstructRead(w, gs, ds, ifd, fn, n, K)
    <2>1. ConstructRead(w, fs, cs, ifd, en, n, K)
      BY <1>1, <1>2
    <2>2. CASE ~Of(w, fs, K)
      <3>1. Fine(w, b.prog)
        BY <1>2, <2>1, <2>2 DEF ConstructRead
      <3>2. Fine(w, kept)
        BY <3>1, FineNone
      <3>3. Fine(w, ds[n].prog) /\ Fine(w, ds[n].kept) /\ ds[n].kind = "else"
        BY <1>5, <1>6, <3>2, FineNone
      <3>4. ~Of(w, gs, K)
        BY <1>11, <2>2
      <3> QED
        BY ONLY <3>3, <3>4 DEF ConstructRead
    <2>3. CASE Of(w, fs, K)
      <3>1. PartRead(w, fs, cs, ifd, en, n, K)
        BY <1>2, <2>1, <2>3 DEF ConstructRead
      <3>2. ds[n - 1].kind = "file"
        <4>1. n - 1 \in 1 .. n - 1
          BY <1>1, <1>3
        <4> QED
          BY <1>6, <3>1, <4>1 DEF PartRead
      <3>3. w.second /\ Has(kept, w.t) => w.asked
        <4> SUFFICES ASSUME w.second, Has(kept, w.t) PROVE w.asked
          OBVIOUS
        <4>1. b.hdr /\ Has(b.prog, w.t)
          BY <1>4
        <4>2. w.asked \in BOOLEAN
          BY WatchedIs
        <4> QED
          BY <1>2, <3>1, <4>1, <4>2 DEF PartRead
      <3>4. ~(n < Len(ds)) /\ ds[n].kept = kept /\ ds[n].kind = "else" /\ ~Has(ds[n].prog, w.t)
        <4>1. ~(n < n)
          BY <1>0
        <4> QED
          BY <1>5, <1>6, <4>1, HasNone
      <3>5. PartRead(w, gs, ds, ifd, fn, n, K)
        BY <1>12, <2>3, <3>2, <3>3, <3>4 DEF PartRead, ls
      <3> QED
        BY <1>11, <2>3, <3>4, <3>5 DEF ConstructRead
    <2> QED
      BY <2>2, <2>3
  <1>16. ASSUME NEW i \in DOMAIN ds PROVE ConstructRead(w, gs, ds, ifd, fn, i, own[i])
    <2>1. i \in 1 .. n - 1 \/ i = n
      BY <1>1, <1>6
    <2> QED
      BY <1>1, <1>13, <1>14, <1>15, <2>1
  <1> QED
    BY <1>7, <1>9, <1>16 DEF StackRead
-----------------------------------------------------------------------------
LEMMA FrontIs ==
  ASSUME NEW S, NEW s \in Seq(S), s # <<>>
  PROVE  /\ Front(s) \in Seq(S) /\ Len(Front(s)) = Len(s) - 1 /\ DOMAIN Front(s) = 1 .. Len(s) - 1
         /\ \A i \in 1 .. Len(s) - 1 : Front(s)[i] = s[i]
         /\ Len(s) \in Nat /\ Len(s) > 0
  <1>1. Front(s) \in Seq(S) /\ Len(Front(s)) = Len(s) - 1 /\ Len(s) \in Nat /\ Len(s) > 0
    BY EndTyped
  <1>2. DOMAIN Front(s) = 1 .. Len(s) - 1
    BY <1>1, LenProperties
  <1>3. ASSUME NEW i \in 1 .. Len(s) - 1 PROVE Front(s)[i] = s[i]
    BY <1>1, <1>3 DEF Front
  <1> QED
    BY <1>1, <1>2, <1>3

LEMMA PopOwns ==
  ASSUME NEW own, NEW fs \in Seq(Frames), NEW cs \in Seq(Constructs), NEW ifd,
         Owns(own, fs, cs, ifd), Len(cs) > 1, NEW gs, NEW jfd,
         IF cs[Len(cs)].kind = "file" THEN Len(gs) = Len(fs) - 1 /\ jfd = ifd
           ELSE Len(gs) = Len(fs) /\ Len(jfd) = Len(ifd) - 1
  PROVE  /\ Owns(Front(own), gs, Front(cs), jfd)
         /\ \A i \in 1 .. Len(cs) - 1 : Front(own)[i] = own[i]
  <1> DEFINE n == Len(cs)
             o == Front(own)
             ds == Front(cs)
  <1>1. /\ own \in Seq(Nat) /\ Len(own) = n /\ cs[1].kind = "file" /\ own[1] = 1
        /\ own[n] = Len(fs) /\ Len(ifd) = n - Len(fs)
    BY DEF Owns
  <1>2. /\ \A i \in 2 .. n : own[i] = IF cs[i].kind = "file" THEN own[i - 1] + 1 ELSE own[i - 1]
        /\ \A i, j \in 1 .. n : i <= j => own[i] <= own[j] /\ i - own[i] <= j - own[j]
    BY <1>1 DEF Owns
  <1>3. n \in Nat /\ n > 1 /\ Len(fs) \in Nat
    BY LenProperties
  <1>4. cs # <<>> /\ own # <<>>
    BY <1>1, <1>3, EmptySeq
  <1>5. /\ ds \in Seq(Constructs) /\ Len(ds) = n - 1
        /\ \A i \in 1 .. n - 1 : ds[i] = cs[i]
    BY <1>4, FrontIs
  <1>6. /\ o \in Seq(Nat) /\ Len(o) = n - 1
        /\ \A i \in 1 .. n - 1 : o[i] = own[i]
    BY <1>1, <1>4, FrontIs
  <1> HIDE DEF n, o, ds
  <1>7. /\ n \in 2 .. n /\ 1 \in 1 .. n - 1 /\ n - 1 \in 1 .. n - 1 /\ n - 1 > 0
        /\ \A i \in 1 .. n - 1 : i \in 1 .. n
        /\ \A i \in 2 .. n - 1 : i \in 2 .. n /\ i \in 1 .. n - 1 /\ i - 1 \in 1 .. n - 1
    BY <1>3
  <1>8. own[n] = IF cs[n].kind = "file" THEN own[n - 1] + 1 ELSE own[n - 1]
    BY <1>2, <1>7
  <1>9. own[n - 1] \in Nat
    BY <1>1, <1>7, ElementOfSeq
  <1>10. o[n - 1] = Len(gs) /\ Len(jfd) = (n - 1) - Len(gs)
    <2>1. CASE cs[n].kind = "file"
      <3>1. Len(gs) = Len(fs) - 1 /\ jfd = ifd /\ own[n - 1] + 1 = Len(fs) /\ o[n - 1] = own[n - 1]
        BY <1>1, <1>6, <1>7, <1>8, <2>1 DEF n
      <3> QED
        BY <1>1, <1>3, <1>9, <3>1
    <2>2. CASE cs[n].kind # "file"
      <3>1. Len(gs) = Len(fs) /\ Len(jfd) = Len(ifd) - 1 /\ own[n - 1] = Len(fs) /\ o[n - 1] = own[n - 1]
        BY <1>1, <1>6, <1>7, <1>8, <2>2 DEF n
      <3> QED
        BY <1>1, <1>3, <1>9, <3>1
    <2> QED
      BY <2>1, <2>2
  <1>11. ASSUME NEW i \in 2 .. n - 1
         PROVE  o[i] = IF ds[i].kind = "file" THEN o[i - 1] + 1 ELSE o[i - 1]
    BY <1>2, <1>5, <1>6, <1>7
  <1>12. ASSUME NEW i \in 1 .. n - 1, NEW j \in 1 .. n - 1, i <= j
         PROVE  o[i] <= o[j] /\ i - o[i] <= j - o[j]
    <2>1. i \in 1 .. n /\ j \in 1 .. n
      BY <1>7
    <2> QED
      BY <1>2, <1>6, <1>12, <2>1
  <1>13. ds[1].kind = "file" /\ o[1] = 1
    BY <1>1, <1>5, <1>6, <1>7
  <1>14. Owns(o, gs, ds, jfd)
    BY <1>5, <1>6, <1>7, <1>10, <1>11, <1>12, <1>13 DEF Owns
  <1> QED
    BY <1>6, <1>14 DEF n, o, ds

LEMMA EndIfRead ==
  ASSUME NEW w, Watched(w), NEW fs \in Seq(Frames), NEW cs \in Seq(Constructs),
         NEW own, NEW ifd \in Seq(BOOLEAN), NEW en \in BOOLEAN, StackRead(w, own, fs, cs, ifd, en),
         NEW gs, NEW x \in WrittenLines, NextLine(w, fs, gs, x), x.op = "endif",
         NEW b, b = cs[Len(cs)], b.kind \in {"if", "else"},
         NEW part, part = (IF en THEN b.prog ELSE <<>>),
         NEW text, text = (IF b.kind = "if" THEN part ELSE IF Last(ifd) THEN b.kept \o part ELSE <<>>),
         NEW ds, ds = Added(Front(cs), text)
  PROVE  StackRead(w, Front(own), gs, ds, Front(ifd), Last(ifd))
  <1> DEFINE n == Len(cs)
             K == Len(fs)
             ls == w.content[w.file]
             at == Pos(w, fs, K) + 1
             o == Front(own)
             jfd == Front(ifd)
             fn == Last(ifd)
  <1>1. /\ n \in Nat /\ n > 0 /\ DOMAIN cs = 1 .. n /\ own \in Seq(Nat) /\ Len(own) = n
        /\ K \in Nat /\ DOMAIN fs = 1 .. K /\ K > 0 /\ cs[1].kind = "file" /\ cs # <<>>
        /\ \A i \in 1 .. n : own[i] \in 1 .. K /\ cs[i] \in Constructs
        /\ own[n] = K /\ Len(ifd) = n - K /\ Len(ifd) \in Nat
        /\ \A i \in 1 .. n : ConstructRead(w, fs, cs, ifd, en, i, own[i])
    <2>1. StackFacts(w, own, fs, cs, ifd, en)
      BY StackIs
    <2> QED
      BY <2>1 DEF StackFacts
  <1>0. n \in Nat /\ n > 0 /\ K \in Nat /\ Len(ifd) = n - K /\ Len(ifd) \in Nat
    BY <1>1
  <1>2. n \in 1 .. n /\ b = cs[n] /\ b \in Constructs
    BY <1>1
  <1>3. /\ n > 1 /\ own[n - 1] = K /\ Len(ifd) > 0
        /\ fn = ifd[Len(ifd)] /\ fn \in BOOLEAN
        /\ \A i \in 1 .. n - 1 : i - own[i] + 1 \in 1 .. Len(ifd)
    BY PartOnTop
  <1>4. /\ text \in Seq(WrittenLines)
        /\ \A a : Has(text, a) <=> (en /\ Has(b.prog, a) /\ (b.kind = "if" \/ fn))
                                     \/ (b.kind = "else" /\ fn /\ Has(b.kept, a))
    <2>1. b.prog \in Seq(WrittenLines) /\ b.kept \in Seq(WrittenLines) /\ <<>> \in Seq(WrittenLines)
      BY <1>2, EmptySeq DEF Constructs
    <2>2. part \in Seq(WrittenLines) /\ \A a : Has(part, a) <=> en /\ Has(b.prog, a)
      BY <2>1, HasNone
    <2>3. /\ b.kept \o part \in Seq(WrittenLines)
          /\ \A a : Has(b.kept \o part, a) <=> Has(b.kept, a) \/ Has(part, a)
      BY <2>1, <2>2, ConcatProperties, HasMore
    <2>4. CASE b.kind = "if"
      BY <2>2, <2>4
    <2>5. CASE b.kind # "if" /\ fn
      BY <2>2, <2>3, <2>5
    <2>6. CASE b.kind # "if" /\ ~fn
      BY <2>1, <2>6, HasNone
    <2> QED
      BY <2>4, <2>5, <2>6
  <1>5. /\ Front(cs) \in Seq(Constructs) /\ Len(Front(cs)) = n - 1 /\ Front(cs) # <<>>
        /\ \A i \in 1 .. n - 1 : Front(cs)[i] = cs[i]
    <2>1. /\ Front(cs) \in Seq(Constructs) /\ Len(Front(cs)) = n - 1
          /\ \A i \in 1 .. n - 1 : Front(cs)[i] = cs[i]
      BY <1>1, FrontIs
    <2> QED
      BY <1>0, <1>3, <2>1, EmptySeq
  <1> HIDE DEF n, K, ls, at, fn, jfd, o
  <1>6. /\ ds \in Seq(Constructs) /\ Len(ds) = n - 1 /\ DOMAIN ds = 1 .. n - 1
        /\ \A i \in 1 .. n - 1 : ds[i].kind = cs[i].kind /\ ds[i].kept = cs[i].kept /\ ds[i].hdr = cs[i].hdr
        /\ \A i \in 1 .. n - 2 : ds[i] = cs[i]
        /\ \A a : Has(ds[n - 1].prog, a) <=> Has(cs[n - 1].prog, a) \/ Has(text, a)
    <2>1. AddedTo(Front(cs), ds, text)
      BY <1>4, <1>5, AddedIs
    <2>2. (n - 1) - 1 = n - 2 /\ n - 1 \in 1 .. n - 1 /\ \A i \in 1 .. n - 2 : i \in 1 .. n - 1
      BY <1>0, <1>3
    <2> DEFINE fr == Front(cs)
    <2>3. Len(fr) = n - 1 /\ \A i \in 1 .. n - 1 : fr[i] = cs[i]
      BY <1>5
    <2>4. AddedTo(fr, ds, text)
      BY <2>1
    <2> HIDE DEF fr
    <2>5. /\ ds \in Seq(Constructs) /\ Len(ds) = n - 1 /\ DOMAIN ds = 1 .. n - 1
          /\ \A i \in 1 .. n - 1 : ds[i].kind = fr[i].kind /\ ds[i].kept = fr[i].kept /\ ds[i].hdr = fr[i].hdr
          /\ \A i \in 1 .. n - 2 : ds[i] = fr[i]
          /\ \A a : Has(ds[n - 1].prog, a) <=> Has(fr[n - 1].prog, a) \/ Has(text, a)
      BY <2>2, <2>3, <2>4 DEF AddedTo
    <2>6. fr[n - 1] = cs[n - 1] /\ \A i \in 1 .. n - 2 : fr[i] = cs[i]
      BY <2>2, <2>3
    <2>7. ASSUME NEW i \in 1 .. n - 1
          PROVE  ds[i].kind = cs[i].kind /\ ds[i].kept = cs[i].kept /\ ds[i].hdr = cs[i].hdr
      <3>1. fr[i] = cs[i]
        BY <2>3
      <3>2. ds[i].kind = fr[i].kind /\ ds[i].kept = fr[i].kept /\ ds[i].hdr = fr[i].hdr
        BY <2>5
      <3> QED
        BY ONLY <3>1, <3>2
    <2> QED
      BY <2>5, <2>6, <2>7
  <1>7. /\ gs \in Seq(Frames) /\ Len(gs) = K /\ DOMAIN gs = 1 .. K
        /\ \A k \in 1 .. K - 1 : gs[k] = fs[k]
        /\ gs[K].file = fs[K].file
        /\ \A k \in 1 .. K : FrameRead(w, gs, k)
        /\ Of(w, fs, K) => /\ Pos(w, fs, K) \in Nat /\ at \in 1 .. Len(ls)
                           /\ Pos(w, gs, K) = at /\ x = ls[at]
    BY <1>1 DEF NextLine, K, ls, at
  <1>8. ifd # <<>> /\ Len(jfd) = Len(ifd) - 1 /\ \A j \in 1 .. Len(ifd) - 1 : jfd[j] = ifd[j]
    <2>1. ifd # <<>>
      BY <1>3, EmptySeq
    <2> QED
      BY <2>1, FrontIs DEF jfd
  <1>9. Owns(o, gs, ds, jfd) /\ \A i \in 1 .. n - 1 : o[i] = own[i]
    <2>1. Owns(own, fs, cs, ifd)
      BY DEF StackRead
    <2>2. Owns(o, gs, Front(cs), jfd) /\ \A i \in 1 .. n - 1 : o[i] = own[i]
      BY <1>2, <1>3, <1>7, <1>8, <2>1, PopOwns DEF n, K, o
    <2> DEFINE fr == Front(cs)
    <2>5. fr \in Seq(Constructs) /\ Len(fr) = n - 1 /\ \A i \in 1 .. n - 1 : fr[i] = cs[i]
      BY <1>5
    <2>6. Owns(o, gs, fr, jfd)
      BY <2>2
    <2> HIDE DEF fr
    <2>3. \A i \in 1 .. Len(fr) : ds[i].kind = fr[i].kind
      <3>1. ASSUME NEW i \in 1 .. n - 1 PROVE ds[i].kind = fr[i].kind
        <4>1. fr[i] = cs[i]
          BY <2>5
        <4>2. ds[i].kind = cs[i].kind
          BY <1>6
        <4> QED
          BY ONLY <4>1, <4>2
      <3> QED
        BY ONLY <2>5, <3>1
    <2>4. Len(fr) \in Nat /\ Len(ds) = Len(fr)
      <3>1. n - 1 \in Nat
        <4>1. n > 1
          BY <1>3
        <4> QED
          BY ONLY <1>0, <4>1
      <3>2. Len(ds) = n - 1
        BY <1>6
      <3> QED
        BY ONLY <2>5, <3>1, <3>2
    <2> QED
      BY <2>2, <2>3, <2>4, <2>5, <2>6, KindsOwn
  <1>10. \A j \in 1 .. Len(ifd) : Value(jfd, fn, j) = Value(ifd, en, j)
    BY <1>0, <1>3, <1>8 DEF Value
  <1>11. Of(w, gs, K) = Of(w, fs, K)
    BY <1>7 DEF Of
  <1>17. at = Pos(w, fs, K) + 1
    BY DEF at
  <1>18. Len(ls) \in Nat
    BY WatchedIs DEF ls
  <1>12. w.q \in Nat /\ w.r \in Nat /\ w.asked \in BOOLEAN
    BY WatchedIs
  <1>13. ASSUME Of(w, fs, K)
         PROVE  /\ at \in Nat /\ at >= 1 /\ Pos(w, fs, K) = at - 1 /\ Pos(w, gs, K) = at
                /\ at # w.q /\ at # w.r
                /\ ~Within(ls, at + 1) /\ ~InGuard(w, gs, K) /\ Within(ls, at)
    <2>1. at \in 1 .. Len(ls) /\ x = ls[at] /\ Pos(w, gs, K) = at /\ Pos(w, fs, K) \in Nat
      BY <1>7, <1>13
    <2>2. at \in Nat /\ at >= 1 /\ Pos(w, fs, K) = at - 1
      BY <1>17, <1>18, <2>1
    <2>3. at # w.q /\ at # w.r
      <3>1. at \in 1 .. Len(w.content[w.file]) /\ x = w.content[w.file][at]
        BY <2>1 DEF ls
      <3>2. /\ x.op = "text" /\ x.arg = w.t <=> at = w.r
            /\ at = w.q => x.op = "text"
        BY <3>1, WatchedLine
      <3> QED
        BY <3>2
    <2>4. ~Within(ls, at + 1)
      BY <2>1, <2>2, WithinNext
    <2>6. ~InGuard(w, gs, K)
      <3>1. ~InPart(ls, w.p, at + 1)
        BY <2>4, PartWithin
      <3> QED
        BY <2>1, <3>1 DEF InGuard, ls
    <2>7. Within(ls, at)
      <3>1. IF Within(ls, at) THEN cs[n].kind # "file" ELSE cs[n].kind = "file"
        <4>1. own[n] = K
          BY <1>1
        <4> QED
          BY <1>2, <1>13, <4>1, WatchedTop DEF n, K, ls, at
      <3> QED
        BY <1>2, <3>1
    <2> QED
      BY <2>1, <2>2, <2>3, <2>4, <2>6, <2>7
  <1>14. ASSUME NEW i \in 1 .. n - 1, own[i] # K
         PROVE  ConstructRead(w, gs, ds, jfd, fn, i, own[i])
    <2>1. i \in 1 .. n - 2 /\ i \in 1 .. n /\ i + 1 \in 1 .. n - 1
      <3>1. i # n - 1
        BY <1>3, <1>14
      <3> QED
        BY <1>0, <3>1
    <2>2. own[i] \in 1 .. K /\ ConstructRead(w, fs, cs, ifd, en, i, own[i])
      BY <1>1, <2>1
    <2>3. own[i] \in 1 .. K - 1
      BY <1>0, <1>14, <2>2
    <2>4. gs[own[i]] = fs[own[i]] /\ ds[i] = cs[i]
          /\ ds[i + 1].kind = cs[i + 1].kind /\ ds[i + 1].kept = cs[i + 1].kept
      BY <1>6, <1>7, <2>1, <2>3
    <2>5. cs[i].kind # "file" => ds[i - 1].kind = cs[i - 1].kind
      <3>1. i # 1 => i - 1 \in 1 .. n - 1
        BY <1>0
      <3>2. i = 1 => cs[i].kind = "file"
        BY <1>1
      <3> QED
        BY <1>6, <3>1, <3>2
    <2>6. (i < Len(ds)) = (i < Len(cs))
      <3>1. i < n - 1 /\ i < n
        BY <1>0, <2>1
      <3> QED
        BY <1>6, <3>1 DEF n
    <2>7. Value(jfd, fn, i - own[i] + 1) = Value(ifd, en, i - own[i] + 1)
      BY <1>3, <1>10
    <2> QED
      BY ONLY <2>2, <2>4, <2>5, <2>6, <2>7, SameRead
  <1>15. ASSUME NEW i \in 1 .. n - 1, own[i] = K
         PROVE  ConstructRead(w, gs, ds, jfd, fn, i, own[i])
    <2>0. i \in 1 .. n
      BY <1>0
    <2>1. ConstructRead(w, fs, cs, ifd, en, i, K) /\ ConstructRead(w, fs, cs, ifd, en, n, K)
          /\ ds[i].kind = cs[i].kind /\ ds[i].kept = cs[i].kept /\ ds[i].hdr = cs[i].hdr
      BY <1>1, <1>2, <1>6, <1>15, <2>0
    <2>2. cs[i].kind = "file" => Value(jfd, fn, i - K + 1) = TRUE /\ Value(ifd, en, i - K + 1) = TRUE
      <3>1. i - K + 1 \in 1 .. Len(ifd)
        BY <1>3, <1>15
      <3> QED
        BY <1>10, <2>1, <3>1 DEF ConstructRead
    <2>3. CASE ~Of(w, fs, K)
      <3>1. Fine(w, cs[i].prog) /\ Fine(w, cs[i].kept) /\ Fine(w, b.prog) /\ Fine(w, b.kept)
        BY <1>2, <2>1, <2>3 DEF ConstructRead
      <3>2. Fine(w, text)
        BY <1>2, <1>4, <3>1 DEF Fine
      <3>3. Fine(w, ds[i].prog)
        <4>1. CASE i = n - 1
          BY <1>6, <3>1, <3>2, <4>1 DEF Fine
        <4>2. CASE i # n - 1
          <5>1. i \in 1 .. n - 2
            BY <1>0, <4>2
          <5> QED
            BY <1>6, <3>1, <5>1
        <4> QED
          BY <4>1, <4>2
      <3> QED
        BY <1>11, <1>15, <2>1, <2>2, <2>3, <3>1, <3>3 DEF ConstructRead
    <2>4. CASE Of(w, fs, K)
      <3>1. i = n - 1 /\ cs[i].kind = "file"
        <4>1. IF i = n THEN cs[i].kind # "file" ELSE i = n - 1 /\ cs[i].kind = "file"
          BY <1>13, <1>15, <2>0, <2>4, WatchedTop DEF n, K, ls, at
        <4> QED
          BY <1>0, <4>1
      <3>2. FileRead(w, fs, cs, i, K)
        BY <2>1, <2>4, <3>1 DEF ConstructRead
      <3>3. i + 1 = n /\ i < n /\ ~(i < Len(ds)) /\ cs[i + 1] = b
        <4>1. i + 1 = n /\ i < n /\ ~(i < n - 1)
          BY <1>0, <3>1
        <4> QED
          BY <1>2, <1>6, <4>1
      <3>4. /\ at >= w.q => Pos(w, fs, K) >= w.q
            /\ at >= w.r => Pos(w, fs, K) >= w.r
        BY <1>12, <1>13, <2>4
      <3>5. PartRead(w, fs, cs, ifd, en, n, K)
        BY <1>2, <2>1, <2>4 DEF ConstructRead
      <3>6. \A a : Has(ds[i].prog, a) <=> Has(cs[i].prog, a) \/ Has(text, a)
        BY <1>6, <3>1
      <3>7. fn = TRUE
        <4>1. i - K + 1 = Len(ifd)
          BY <1>0, <3>1
        <4>2. Value(ifd, en, Len(ifd)) = TRUE
          BY <2>2, <3>1, <4>1
        <4> QED
          BY <1>0, <1>3, <4>2 DEF Value
      <3>8. w.second /\ InGuard(w, fs, K) => en = w.asked
        <4>1. Value(ifd, en, n - K + 1) = en
          BY <1>0 DEF Value
        <4> QED
          BY <3>5, <4>1 DEF PartRead
      <3>9. w.second /\ Has(text, w.t) => w.asked
        <4> SUFFICES ASSUME w.second, Has(text, w.t) PROVE w.asked
          OBVIOUS
        <4>1. (en /\ Has(b.prog, w.t)) \/ Has(b.kept, w.t)
          BY <1>4
        <4>2. CASE Has(b.kept, w.t)
          BY <1>2, <3>5, <4>2 DEF PartRead
        <4>3. CASE en /\ Has(b.prog, w.t)
          BY <1>2, <1>12, <3>5, <3>8, <4>3 DEF PartRead
        <4> QED
          BY <4>1, <4>2, <4>3
      <3>10. w.second /\ w.asked /\ at >= w.r => Has(ds[i].prog, w.t)
        <4> SUFFICES ASSUME w.second, w.asked, at >= w.r, ~Has(cs[i].prog, w.t) PROVE Has(text, w.t)
          BY <3>6
        <4>1. CASE InGuard(w, fs, K)
          <5>1. Has(b.prog, w.t) /\ b.kind = "if" /\ en
            BY <1>2, <1>12, <3>4, <3>5, <3>8, <4>1 DEF PartRead
          <5> QED
            BY <1>4, <5>1
        <4>2. CASE ~InGuard(w, fs, K)
          <5>1. Has(b.kept, w.t)
            BY <3>2, <3>3, <3>4, <4>2 DEF FileRead
          <5>2. b.kind = "else"
            BY <1>2, <3>5, <5>1 DEF PartRead
          <5> QED
            BY <1>4, <3>7, <5>1, <5>2
        <4> QED
          BY <4>1, <4>2
      <3>11. FileRead(w, gs, ds, i, K)
        BY <1>13, <2>4, <3>2, <3>3, <3>4, <3>6, <3>9, <3>10 DEF FileRead, ls
      <3> QED
        BY <1>11, <1>15, <2>1, <2>2, <2>4, <3>1, <3>11 DEF ConstructRead
    <2> QED
      BY <2>3, <2>4
  <1>16. ASSUME NEW i \in DOMAIN ds PROVE ConstructRead(w, gs, ds, jfd, fn, i, o[i])
    <2>1. i \in 1 .. n - 1 /\ o[i] = own[i]
      BY <1>6, <1>9
    <2> QED
      BY <1>14, <1>15, <2>1
  <1> QED
    BY <1>7, <1>9, <1>16 DEF StackRead, o, jfd, fn
-----------------------------------------------------------------------------
\* Opening a file, the line that includes it being read.
LEMMA OpenRead ==
  ASSUME NEW w, Watched(w), NEW fs \in Seq(Frames), NEW cs \in Seq(Constructs),
         NEW own, NEW ifd \in Seq(BOOLEAN), StackRead(w, own, fs, cs, ifd, TRUE),
         NEW f \in File, NEW e \in Frames, e = [file |-> f, rest |-> w.content[f]],
         NEW c \in Constructs, c = Construct("file", FALSE, <<>>)
  PROVE  StackRead(w, Append(own, Len(fs) + 1), Append(fs, e), Append(cs, c), ifd, TRUE)
  <1> DEFINE n == Len(cs)
             K == Len(fs)
             o == Append(own, K + 1)
             gs == Append(fs, e)
             ds == Append(cs, c)
  <1>1. /\ n \in Nat /\ n > 0 /\ DOMAIN cs = 1 .. n /\ own \in Seq(Nat) /\ Len(own) = n
        /\ K \in Nat /\ DOMAIN fs = 1 .. K /\ K > 0 /\ cs[1].kind = "file"
        /\ \A i \in 1 .. n : own[i] \in 1 .. K
        /\ own[n] = K /\ Len(ifd) = n - K /\ Len(ifd) \in Nat
        /\ \A i \in 1 .. n : ConstructRead(w, fs, cs, ifd, TRUE, i, own[i])
    <2>1. StackFacts(w, own, fs, cs, ifd, TRUE)
      BY StackIs
    <2> QED
      BY <2>1 DEF StackFacts
  <1>0. n \in Nat /\ n > 0 /\ K \in Nat /\ K > 0 /\ Len(ifd) = n - K /\ Len(ifd) \in Nat
    BY <1>1
  <1>2. c.kind = "file" /\ c.kept = <<>> /\ c.prog = <<>>
    BY DEF Construct
  <1>3. /\ Len(ds) = n + 1 /\ \A i \in 1 .. n : ds[i] = cs[i]
        /\ ds[n + 1] = c /\ ds \in Seq(Constructs)
    <2>1. /\ Len(Append(cs, c)) = Len(cs) + 1 /\ \A i \in 1 .. Len(cs) : Append(cs, c)[i] = cs[i]
          /\ Append(cs, c)[Len(cs) + 1] = c /\ Append(cs, c) \in Seq(Constructs)
      BY ONLY cs \in Seq(Constructs), c \in Constructs, AppendProperties
    <2> QED
      BY ONLY <2>1
  <1>4. /\ Len(o) = n + 1 /\ \A i \in 1 .. n : o[i] = own[i]
        /\ o[n + 1] = K + 1
    BY <1>1, AppendProperties
  <1>5. /\ gs \in Seq(Frames) /\ Len(gs) = K + 1 /\ DOMAIN gs = 1 .. K + 1
        /\ \A k \in 1 .. K : gs[k] = fs[k]
        /\ gs[K + 1] = e
    BY <1>0, AppendProperties, LenProperties
  <1>6. Owns(o, gs, ds, ifd)
    <2>1. Owns(own, fs, cs, ifd)
      BY DEF StackRead
    <2> QED
      BY <1>2, <1>5, <2>1, PushOwns
  <1> HIDE DEF n, K, o, ds, gs
  <1>7. ASSUME NEW i \in 1 .. n PROVE ConstructRead(w, gs, ds, ifd, TRUE, i, own[i])
    <2>1. /\ ConstructRead(w, fs, cs, ifd, TRUE, i, own[i]) /\ own[i] \in 1 .. K
          /\ ds[i] = cs[i] /\ gs[own[i]] = fs[own[i]]
      BY <1>1, <1>3, <1>5
    <2>2. cs[i].kind # "file" => ds[i - 1].kind = cs[i - 1].kind
      <3>1. i # 1 => i - 1 \in 1 .. n
        BY <1>0
      <3>2. i = 1 => cs[i].kind = "file"
        BY <1>1
      <3> QED
        BY <1>3, <3>1, <3>2
    <2>3. CASE i # n
      <3>1. i + 1 \in 1 .. n /\ i < n + 1 /\ i < n
        BY <1>0, <2>3
      <3>2. ds[i + 1].kind = cs[i + 1].kind /\ ds[i + 1].kept = cs[i + 1].kept
            /\ (i < Len(ds)) = (i < Len(cs))
        BY <1>3, <3>1 DEF n
      <3> QED
        BY ONLY <2>1, <2>2, <3>2, SameRead
    <2>4. CASE i = n
      <3>1. i < Len(ds) /\ ds[i + 1].kind = "file" /\ ~(i < Len(cs))
        <4>1. i < n + 1 /\ ~(i < n)
          BY <1>0, <2>4
        <4> QED
          BY <1>2, <1>3, <2>4, <4>1 DEF n
      <3>2. /\ Pos(w, gs, own[i]) = Pos(w, fs, own[i]) /\ Of(w, gs, own[i]) = Of(w, fs, own[i])
            /\ InGuard(w, gs, own[i]) = InGuard(w, fs, own[i])
        BY <2>1, BelowKept
      <3>3. CASE ~Of(w, fs, own[i])
        BY <2>1, <3>2, <3>3 DEF ConstructRead
      <3>4. CASE Of(w, fs, own[i]) /\ cs[i].kind = "file"
        <4>1. FileRead(w, fs, cs, i, own[i])
          BY <2>1, <3>4 DEF ConstructRead
        <4>2. FileRead(w, gs, ds, i, own[i])
          BY <2>1, <3>1, <3>2, <4>1 DEF FileRead
        <4> QED
          BY <2>1, <3>2, <3>4, <4>2 DEF ConstructRead
      <3>5. CASE Of(w, fs, own[i]) /\ cs[i].kind # "file"
        <4>1. PartRead(w, fs, cs, ifd, TRUE, i, own[i])
          BY <2>1, <3>5 DEF ConstructRead
        <4>2. PartRead(w, gs, ds, ifd, TRUE, i, own[i])
          BY <2>1, <2>2, <3>1, <3>2, <3>5, <4>1 DEF PartRead
        <4> QED
          BY <2>1, <3>2, <3>5, <4>2 DEF ConstructRead
      <3> QED
        BY <3>3, <3>4, <3>5
    <2> QED
      BY <2>3, <2>4
  <1>8. gs[K + 1].file = f /\ gs[K + 1].rest = w.content[f] /\ ~Given(w, K + 1)
    BY <1>0, <1>5 DEF Given
  <1>9. w.content[f] \in Seq(Range(w.content[f])) /\ Len(w.content[f]) \in Nat
    BY PreprocessorAssumption, LenProperties DEF Watched
  <1>10. Pos(w, gs, K + 1) = 0
    BY <1>8, <1>9 DEF Pos
  <1>11. FrameRead(w, gs, K + 1)
    <2>1. Len(w.content[f]) <= Len(w.content[f])
      BY <1>9
    <2>2. \A i \in DOMAIN w.content[f] : i \in Nat /\ 0 + i = i
      BY <1>9, LenProperties
    <2> QED
      BY <1>8, <1>10, <2>1, <2>2 DEF FrameRead
  <1>12. ConstructRead(w, gs, ds, ifd, TRUE, n + 1, K + 1)
    <2>1. Value(ifd, TRUE, (n + 1) - (K + 1) + 1) = TRUE
      <3>1. ~((n + 1) - (K + 1) + 1 <= Len(ifd))
        BY <1>0
      <3> QED
        BY <3>1 DEF Value
    <2>2. CASE ~Of(w, gs, K + 1)
      BY <1>2, <1>3, <2>1, <2>2, FineNone DEF ConstructRead
    <2>3. CASE Of(w, gs, K + 1)
      <3>1. ~Within(w.content[w.file], 0 + 1)
        BY DEF Within
      <3>2. ~(0 >= w.q) /\ ~(0 >= w.r)
        <4>1. w.q \in 1 .. Len(w.content[w.file]) /\ w.r \in 1 .. Len(w.content[w.file])
          BY WatchedIs
        <4>2. Len(w.content[w.file]) \in Nat
          BY WatchedIs
        <4> QED
          BY <4>1, <4>2
      <3>3. ~(n + 1 < Len(ds)) /\ ~Has(ds[n + 1].prog, w.t)
        <4>1. Len(ds) = n + 1 /\ ds[n + 1] = c
          BY <1>3
        <4>2. ~(n + 1 < n + 1)
          BY <1>0
        <4> QED
          BY <1>2, <4>1, <4>2, HasNone
      <3>4. FileRead(w, gs, ds, n + 1, K + 1)
        BY <1>10, <3>1, <3>2, <3>3 DEF FileRead
      <3> QED
        BY <1>2, <1>3, <2>1, <2>3, <3>4 DEF ConstructRead
    <2> QED
      BY <2>2, <2>3
  <1>13. ASSUME NEW k \in DOMAIN gs PROVE FrameRead(w, gs, k)
    <2>1. CASE k = K + 1
      BY <1>11, <2>1
    <2>2. CASE k # K + 1
      <3>1. k \in 1 .. K
        BY <1>0, <1>5, <2>2
      <3>2. gs[k] = fs[k] /\ FrameRead(w, fs, k)
        BY <1>1, <1>5, <3>1 DEF StackRead
      <3> QED
        BY <3>2 DEF FrameRead, Pos
    <2> QED
      BY <2>1, <2>2
  <1>14. ASSUME NEW i \in DOMAIN ds PROVE ConstructRead(w, gs, ds, ifd, TRUE, i, o[i])
    <2>1. DOMAIN ds = 1 .. n + 1
      BY <1>3, LenProperties
    <2>2. i \in 1 .. n \/ i = n + 1
      BY <1>0, <2>1
    <2> QED
      BY <1>4, <1>7, <1>12, <2>2
  <1>15. StackRead(w, o, gs, ds, ifd, TRUE)
    BY <1>6, <1>13, <1>14 DEF StackRead
  <1> QED
    BY <1>15 DEF o, gs, ds, K

\* What a file gives, when its end is read.
LEMMA FineAtEnd ==
  ASSUME NEW w, Watched(w), NEW fs \in Seq(Frames), NEW cs \in Seq(Constructs),
         NEW own, NEW ifd \in Seq(BOOLEAN), NEW en, StackRead(w, own, fs, cs, ifd, en),
         fs[Len(fs)].rest = <<>>, cs[Len(cs)].kind = "file"
  PROVE  Fine(w, cs[Len(cs)].prog)
  <1> DEFINE n == Len(cs)
             K == Len(fs)
             ls == w.content[w.file]
  <1>1. n \in Nat /\ n > 0 /\ n \in 1 .. n /\ ConstructRead(w, fs, cs, ifd, en, n, K)
    <2>1. StackFacts(w, own, fs, cs, ifd, en)
      BY StackIs
    <2> QED
      BY <2>1 DEF StackFacts
  <1>2. CASE ~Of(w, fs, K)
    BY <1>1, <1>2 DEF ConstructRead
  <1>3. CASE Of(w, fs, K)
    <2>1. FileRead(w, fs, cs, n, K) /\ ~(n < Len(cs))
      BY <1>1, <1>3 DEF ConstructRead
    <2>2. Len(ls) \in Nat /\ Pos(w, fs, K) = Len(ls)
      <3>1. Len(ls) \in Nat /\ fs[K].file = w.file
        BY <1>3, WatchedIs DEF Of
      <3>2. Pos(w, fs, K) = Len(ls) - 0
        BY <3>1 DEF Pos
      <3> QED
        BY <3>1, <3>2
    <2>3. Pos(w, fs, K) >= w.q /\ Pos(w, fs, K) >= w.r
      <3>1. w.q \in 1 .. Len(ls) /\ w.r \in 1 .. Len(ls)
        BY WatchedIs
      <3> QED
        BY <2>2, <3>1
    <2>4. ~InGuard(w, fs, K)
      <3>1. ~Within(ls, Pos(w, fs, K) + 1)
        BY <2>1 DEF FileRead
      <3> QED
        BY <3>1, PartWithin DEF InGuard
    <2>5. Has(cs[n].prog, w.l)
      BY <2>1, <2>3 DEF FileRead
    <2>6. w.second /\ Has(cs[n].prog, w.t) => w.asked
      BY <2>1 DEF FileRead
    <2>7. w.second /\ w.asked => Has(cs[n].prog, w.t)
      BY <2>1, <2>3, <2>4 DEF FileRead
    <2> QED
      BY <2>5, <2>6, <2>7 DEF Fine
  <1> QED
    BY <1>2, <1>3

\* The end of a file: its text goes to the construct it is included in.
LEMMA EndFileRead ==
  ASSUME NEW w, Watched(w), NEW fs \in Seq(Frames), NEW cs \in Seq(Constructs),
         NEW own, NEW ifd \in Seq(BOOLEAN), NEW en, StackRead(w, own, fs, cs, ifd, en),
         fs[Len(fs)].rest = <<>>, cs[Len(cs)].kind = "file", Len(fs) > 1,
         NEW ds, ds = Added(Front(cs), cs[Len(cs)].prog)
  PROVE  StackRead(w, Front(own), Front(fs), ds, ifd, en)
  <1> DEFINE n == Len(cs)
             K == Len(fs)
             o == Front(own)
             gs == Front(fs)
             text == cs[Len(cs)].prog
  <1>1. /\ n \in Nat /\ n > 0 /\ DOMAIN cs = 1 .. n /\ own \in Seq(Nat) /\ Len(own) = n
        /\ K \in Nat /\ DOMAIN fs = 1 .. K /\ K > 0 /\ cs[1].kind = "file" /\ cs # <<>>
        /\ \A i \in 1 .. n : own[i] \in 1 .. K /\ cs[i] \in Constructs
        /\ \A i \in 1 .. n - 1 : own[i] = K => cs[i + 1].kind # "file"
        /\ own[n] = K /\ own[1] = 1
        /\ \A i \in 1 .. n - 1 : own[i + 1] = IF cs[i + 1].kind = "file" THEN own[i] + 1 ELSE own[i]
        /\ \A i \in 1 .. n : ConstructRead(w, fs, cs, ifd, en, i, own[i])
    <2>1. StackFacts(w, own, fs, cs, ifd, en) /\ own[1] = 1
      BY StackIs DEF StackRead, Owns
    <2> QED
      BY <2>1 DEF StackFacts
  <1>0. n \in Nat /\ n > 1 /\ K \in Nat /\ K > 1
    <2>1. n # 1
      <3> SUFFICES ASSUME n = 1 PROVE FALSE
        OBVIOUS
      <3>1. own[1] = K /\ own[1] = 1
        BY <1>1
      <3>2. K > 1
        OBVIOUS
      <3> QED
        BY ONLY <3>1, <3>2
    <2>2. n \in Nat /\ n > 0 /\ K \in Nat /\ K > 1
      BY <1>1
    <2> QED
      BY ONLY <2>1, <2>2
  <1>2. Fine(w, text) /\ text \in Seq(WrittenLines)
    <2>1. cs[n] \in Constructs
      BY <1>0, <1>1
    <2> QED
      BY <2>1, FineAtEnd DEF Constructs
  <1>3. /\ Front(cs) \in Seq(Constructs) /\ Len(Front(cs)) = n - 1 /\ Front(cs) # <<>>
        /\ \A i \in 1 .. n - 1 : Front(cs)[i] = cs[i]
    <2>1. /\ Front(cs) \in Seq(Constructs) /\ Len(Front(cs)) = n - 1
          /\ \A i \in 1 .. n - 1 : Front(cs)[i] = cs[i]
      BY <1>1, FrontIs
    <2> QED
      BY <1>0, <2>1, EmptySeq
  <1>4. /\ gs \in Seq(Frames) /\ Len(gs) = K - 1 /\ DOMAIN gs = 1 .. K - 1
        /\ \A k \in 1 .. K - 1 : gs[k] = fs[k]
    <2>1. fs # <<>>
      BY <1>0, EmptySeq
    <2> QED
      BY <2>1, FrontIs
  <1> HIDE DEF n, K, gs, o, text
  <1>5. /\ ds \in Seq(Constructs) /\ Len(ds) = n - 1 /\ DOMAIN ds = 1 .. n - 1
        /\ \A i \in 1 .. n - 1 : ds[i].kind = cs[i].kind /\ ds[i].kept = cs[i].kept /\ ds[i].hdr = cs[i].hdr
        /\ \A i \in 1 .. n - 2 : ds[i] = cs[i]
        /\ \A a : Has(ds[n - 1].prog, a) <=> Has(cs[n - 1].prog, a) \/ Has(text, a)
    <2>1. AddedTo(Front(cs), ds, text)
      BY <1>2, <1>3, AddedIs DEF text
    <2>2. (n - 1) - 1 = n - 2 /\ n - 1 \in 1 .. n - 1 /\ \A i \in 1 .. n - 2 : i \in 1 .. n - 1
      BY <1>0
    <2> DEFINE fr == Front(cs)
    <2>3. Len(fr) = n - 1 /\ \A i \in 1 .. n - 1 : fr[i] = cs[i]
      BY <1>3
    <2>4. AddedTo(fr, ds, text)
      BY <2>1
    <2> HIDE DEF fr
    <2>5. /\ ds \in Seq(Constructs) /\ Len(ds) = n - 1 /\ DOMAIN ds = 1 .. n - 1
          /\ \A i \in 1 .. n - 1 : ds[i].kind = fr[i].kind /\ ds[i].kept = fr[i].kept /\ ds[i].hdr = fr[i].hdr
          /\ \A i \in 1 .. n - 2 : ds[i] = fr[i]
          /\ \A a : Has(ds[n - 1].prog, a) <=> Has(fr[n - 1].prog, a) \/ Has(text, a)
      BY <2>2, <2>3, <2>4 DEF AddedTo
    <2>6. fr[n - 1] = cs[n - 1] /\ \A i \in 1 .. n - 2 : fr[i] = cs[i]
      BY <2>2, <2>3
    <2>7. \A i \in 1 .. n - 1 : ds[i].kind = cs[i].kind /\ ds[i].kept = cs[i].kept /\ ds[i].hdr = cs[i].hdr
      BY <2>3, <2>5
    <2> QED
      BY <2>5, <2>6, <2>7
  <1>6. Owns(o, gs, ds, ifd) /\ \A i \in 1 .. n - 1 : o[i] = own[i]
    <2>1. Owns(own, fs, cs, ifd)
      BY DEF StackRead
    <2>2. Owns(o, gs, Front(cs), ifd) /\ \A i \in 1 .. n - 1 : o[i] = own[i]
      BY <1>0, <1>4, <2>1, PopOwns DEF n, K, o
    <2>3. \A i \in 1 .. Len(Front(cs)) : ds[i].kind = Front(cs)[i].kind
      BY <1>3, <1>5
    <2>4. Len(Front(cs)) \in Nat /\ Len(ds) = Len(Front(cs))
      BY <1>0, <1>3, <1>5
    <2> QED
      BY <2>2, <2>3, <2>4, KindsOwn
  <1>7. ASSUME NEW i \in 1 .. n - 1 PROVE ConstructRead(w, gs, ds, ifd, en, i, own[i])
    <2>1. i \in 1 .. n
      BY <1>0
    <2>2. own[i] \in 1 .. K - 1
      <3>1. own[i] # K
        <4>1. \A j, k \in 1 .. n : j <= k => own[j] <= own[k]
          BY <1>1 DEF StackRead, Owns, n
        <4>2. n - 1 \in 1 .. n - 1 /\ (n - 1) + 1 = n /\ n - 1 \in 1 .. n
          BY <1>0
        <4>3. K = own[n - 1] + 1 /\ own[n - 1] \in 1 .. K
          BY <1>1, <4>2 DEF n
        <4>4. own[i] <= own[n - 1] /\ own[i] \in 1 .. K
          BY <1>1, <2>1, <4>1, <4>2
        <4> QED
          BY <1>0, <4>3, <4>4
      <3>2. own[i] \in 1 .. K
        BY <1>1, <2>1
      <3> QED
        BY <1>0, <3>1, <3>2
    <2>3. ConstructRead(w, fs, cs, ifd, en, i, own[i]) /\ gs[own[i]] = fs[own[i]]
          /\ ds[i].kind = cs[i].kind /\ ds[i].kept = cs[i].kept /\ ds[i].hdr = cs[i].hdr
      BY <1>1, <1>4, <1>5, <2>1, <2>2
    <2>4. cs[i].kind # "file" => ds[i - 1].kind = cs[i - 1].kind
      <3>1. i # 1 => i - 1 \in 1 .. n - 1
        BY <1>0
      <3>2. i = 1 => cs[i].kind = "file"
        BY <1>1
      <3> QED
        BY <1>5, <3>1, <3>2
    <2>5. CASE i # n - 1
      <3>1. i \in 1 .. n - 2 /\ i + 1 \in 1 .. n - 1 /\ i < n - 1 /\ i < n
        BY <1>0, <2>5
      <3>2. /\ ds[i + 1].kind = cs[i + 1].kind /\ ds[i + 1].kept = cs[i + 1].kept
            /\ (i < Len(ds)) = (i < Len(cs)) /\ ds[i] = cs[i]
        BY <1>5, <3>1 DEF n
      <3> QED
        BY ONLY <2>3, <2>4, <3>2, SameRead
    <2>6. CASE i = n - 1
      <3>1. ~(i < Len(ds)) /\ i < Len(cs) /\ cs[i + 1].kind = "file"
        <4>1. ~(i < n - 1) /\ i < n /\ i + 1 = n
          BY <1>0, <2>6
        <4>2. Len(ds) = n - 1 /\ Len(cs) = n
          BY <1>5 DEF n
        <4>3. cs[n].kind = "file"
          BY DEF n
        <4> QED
          BY <4>1, <4>2, <4>3
      <3>2. /\ Pos(w, gs, own[i]) = Pos(w, fs, own[i]) /\ Of(w, gs, own[i]) = Of(w, fs, own[i])
            /\ InGuard(w, gs, own[i]) = InGuard(w, fs, own[i])
        <4>1. gs[own[i]] = fs[own[i]]
          BY <2>3
        <4> QED
          BY ONLY <4>1, BelowKept
      <3>3. \A a : Has(ds[i].prog, a) <=> Has(cs[i].prog, a) \/ Has(text, a)
        BY <1>5, <2>6
      <3>4. CASE ~Of(w, fs, own[i])
        <4>1. Fine(w, cs[i].prog) /\ Fine(w, cs[i].kept)
          BY <2>3, <3>4 DEF ConstructRead
        <4>2. Fine(w, ds[i].prog)
          BY <1>2, <3>3, <4>1 DEF Fine
        <4> QED
          BY <2>3, <3>2, <3>4, <4>1, <4>2 DEF ConstructRead
      <3>5. w.second /\ Has(text, w.t) => w.asked
        BY <1>2 DEF Fine
      <3>6. CASE Of(w, fs, own[i]) /\ cs[i].kind = "file"
        <4>1. FileRead(w, fs, cs, i, own[i])
          BY <2>3, <3>6 DEF ConstructRead
        <4>2. FileRead(w, gs, ds, i, own[i])
          BY <2>3, <3>1, <3>2, <3>3, <3>5, <4>1 DEF FileRead
        <4> QED
          BY <2>3, <3>2, <3>6, <4>2 DEF ConstructRead
      <3>7. CASE Of(w, fs, own[i]) /\ cs[i].kind # "file"
        <4>1. PartRead(w, fs, cs, ifd, en, i, own[i])
          BY <2>3, <3>7 DEF ConstructRead
        <4>2. PartRead(w, gs, ds, ifd, en, i, own[i])
          BY <2>3, <2>4, <3>1, <3>2, <3>3, <3>5, <3>7, <4>1 DEF PartRead
        <4> QED
          BY <2>3, <3>2, <3>7, <4>2 DEF ConstructRead
      <3> QED
        BY <3>4, <3>6, <3>7
    <2> QED
      BY <2>5, <2>6
  <1>8. ASSUME NEW k \in DOMAIN gs PROVE FrameRead(w, gs, k)
    <2>1. k \in 1 .. K - 1 /\ k \in 1 .. K
      BY <1>0, <1>4
    <2>2. gs[k] = fs[k] /\ FrameRead(w, fs, k)
      BY <1>1, <1>4, <2>1 DEF StackRead
    <2> QED
      BY <2>2 DEF FrameRead, Pos
  <1>9. ASSUME NEW i \in DOMAIN ds PROVE ConstructRead(w, gs, ds, ifd, en, i, o[i])
    BY <1>5, <1>6, <1>7
  <1>10. StackRead(w, o, gs, ds, ifd, en)
    BY <1>6, <1>8, <1>9 DEF StackRead
  <1> QED
    BY <1>10 DEF o, gs

\* What a pass starts from.
LEMMA StartRead ==
  ASSUME NEW w, Watched(w), NEW e \in Frames, NEW c \in Constructs,
         c = Construct("file", FALSE, <<>>),
         NEW fs, fs = <<e>>, NEW cs, cs = <<c>>,
         FrameRead(w, fs, 1), e.file = Main
  PROVE  StackRead(w, <<1>>, fs, cs, <<>>, TRUE)
  <1>1. c.kind = "file" /\ c.kept = <<>> /\ c.prog = <<>>
    BY DEF Construct
  <1>2. fs[1] = e /\ Len(fs) = 1 /\ DOMAIN fs = {1} /\ cs[1] = c /\ Len(cs) = 1 /\ DOMAIN cs = {1}
    OBVIOUS
  <1>3. ~Of(w, fs, 1)
    BY <1>2, WatchedIs DEF Of
  <1> DEFINE o == <<1>>
             jfd == <<>>
  <1>4. o \in Seq(Nat) /\ Len(o) = 1 /\ o[1] = 1 /\ Len(jfd) = 0
    OBVIOUS
  <1> HIDE DEF o, jfd
  <1>5. Owns(o, fs, cs, jfd)
    <2>1. \A i \in 2 .. Len(o) : o[i] = IF cs[i].kind = "file" THEN o[i - 1] + 1 ELSE o[i - 1]
      BY <1>4
    <2>2. \A i, j \in 1 .. Len(o) : i <= j => o[i] <= o[j] /\ i - o[i] <= j - o[j]
      <3>1. \A i \in 1 .. Len(o) : i = 1
        BY <1>4
      <3>2. o[1] <= o[1] /\ 1 - o[1] <= 1 - o[1]
        BY <1>4
      <3> QED
        BY <3>1, <3>2
    <2>3. o[Len(o)] = Len(fs) /\ Len(o) = Len(cs) /\ Len(cs) > 0 /\ Len(jfd) = Len(o) - Len(fs)
      BY <1>2, <1>4
    <2>4. cs[1].kind = "file"
      BY <1>1, <1>2
    <2> QED
      BY <1>4, <2>1, <2>2, <2>3, <2>4 DEF Owns
  <1>6. Value(jfd, TRUE, 1 - 1 + 1) = TRUE
    BY <1>4 DEF Value
  <1>7. ConstructRead(w, fs, cs, jfd, TRUE, 1, 1)
    BY <1>1, <1>2, <1>3, <1>6, FineNone DEF ConstructRead
  <1>8. StackRead(w, o, fs, cs, jfd, TRUE)
    BY <1>2, <1>4, <1>5, <1>7 DEF StackRead
  <1> QED
    BY <1>8 DEF o, jfd
-----------------------------------------------------------------------------
\* The state a line is read in.
LEMMA Here ==
  ASSUME TypedInv, filestack # <<>>
  PROVE  /\ filestack \in Seq(Frames) /\ constructs \in Seq(Constructs)
         /\ IFDEFS \in Seq(BOOLEAN) /\ enabled \in BOOLEAN
         /\ Last(filestack) = filestack[Len(filestack)] /\ Top = constructs[Len(constructs)]
         /\ constructs # <<>> /\ content \in Contents
  BY ConstructsOpen, EndTyped DEF TypedInv, TypedText, IInv, Shape, Top, Last

LEMMA ReadLine ==
  ASSUME TypedInv, filestack # <<>>, Last(filestack).rest # <<>>,
         NEW w, Watched(w), NEW own, StackRead(w, own, filestack, constructs, IFDEFS, enabled)
  PROVE  NextLine(w, filestack, Advanced, Line) /\ Line \in WrittenLines
  <1>1. filestack \in Seq(Frames) /\ Last(filestack) = filestack[Len(filestack)]
    BY Here
  <1>2. \A k \in DOMAIN filestack : FrameRead(w, filestack, k)
    BY DEF StackRead
  <1>3. PICK gs : gs = [filestack EXCEPT ![Len(filestack)].rest = Tail(@)]
    OBVIOUS
  <1>4. NextLine(w, filestack, gs, Head(filestack[Len(filestack)].rest))
    BY <1>1, <1>2, <1>3, AdvanceIs
  <1>5. Line \in WrittenLines
    BY LineRead DEF TypedInv
  <1> QED
    BY <1>1, <1>3, <1>4, <1>5 DEF Line, Advanced

LEMMA SkipWatched ==
  ASSUME TypedInv, filestack # <<>>, Last(filestack).rest # <<>>,
         NEW w, Watched(w), StackNow(w), Line.op \notin {"if", "else", "endif"},
         NEW text \in {<<>>, <<Line>>}, Line.op = "text" => text = <<Line>>,
         Skip(text), UNCHANGED conditions
  PROVE  StackNow(w)'
  <1>1. PICK own : StackRead(w, own, filestack, constructs, IFDEFS, enabled)
    BY DEF StackNow
  <1>2. NextLine(w, filestack, Advanced, Line) /\ Line \in WrittenLines
    BY <1>1, ReadLine
  <1>3. /\ filestack \in Seq(Frames) /\ constructs \in Seq(Constructs) /\ constructs # <<>>
    BY Here
  <1>4. text \in Seq(WrittenLines)
    <2>1. <<Line>> \in Seq(WrittenLines)
      BY <1>2
    <2> QED
      BY <2>1, EmptySeq
  <1>5. AddedTo(constructs, constructs', text)
    BY <1>3, <1>4, AddedIs DEF Skip
  <1>6. StackRead(w, own, filestack', constructs', IFDEFS, enabled)
    BY <1>1, <1>2, <1>3, <1>5, SkipRead DEF Skip
  <1>7. StackRead(w, own, filestack', constructs', IFDEFS', enabled')
    BY <1>6 DEF conditions
  <1> QED
    BY <1>7 DEF StackNow

LEMMA IfWatched ==
  ASSUME TypedInv, NEW w, Watched(w), StackNow(w), IfHeader,
         w.second => (w.m \in ID_TABLE <=> w.asked)
  PROVE  StackNow(w)'
  <1> DEFINE hdr == enabled /\ ((Line.arg \in ID_TABLE) # Line.flag)
  <1>1. /\ filestack # <<>> /\ Last(filestack).rest # <<>> /\ Line.op = "if"
        /\ constructs' = Append(constructs, Construct("if", hdr, <<>>))
        /\ IFDEFS' = Append(IFDEFS, enabled) /\ enabled' = hdr
        /\ filestack' = Advanced
    BY DEF IfHeader, Reading
  <1>2. PICK own : StackRead(w, own, filestack, constructs, IFDEFS, enabled)
    BY DEF StackNow
  <1>3. NextLine(w, filestack, Advanced, Line) /\ Line \in WrittenLines
    BY <1>1, <1>2, ReadLine
  <1>4. /\ filestack \in Seq(Frames) /\ constructs \in Seq(Constructs)
        /\ IFDEFS \in Seq(BOOLEAN) /\ enabled \in BOOLEAN
    BY <1>1, Here
  <1>5. PICK h : h = hdr
    OBVIOUS
  <1> HIDE DEF hdr
  <1>6. h = (enabled /\ ((Line.arg \in ID_TABLE) # Line.flag))
    BY <1>5 DEF hdr
  <1>7. StackRead(w, Append(own, Len(filestack)), Advanced, Append(constructs, Construct("if", h, <<>>)),
                  Append(IFDEFS, enabled), h)
    BY <1>1, <1>2, <1>3, <1>4, <1>6, IfRead
  <1>8. StackRead(w, Append(own, Len(filestack)), filestack', constructs', IFDEFS', enabled')
    BY <1>1, <1>5, <1>7
  <1> QED
    BY <1>8 DEF StackNow

LEMMA ElseWatched ==
  ASSUME TypedInv, NEW w, Watched(w), StackNow(w), Else
  PROVE  StackNow(w)'
  <1>1. /\ filestack # <<>> /\ Last(filestack).rest # <<>> /\ Line.op = "else" /\ Top.kind = "if"
        /\ constructs' = [constructs EXCEPT ![Len(constructs)] =
                            Construct("else", FALSE, IF Last(IFDEFS) /\ Top.hdr THEN Top.prog ELSE <<>>)]
        /\ IFDEFS' = IFDEFS
        /\ filestack' = Advanced
    BY DEF Else, Reading
  <1>2. PICK own : StackRead(w, own, filestack, constructs, IFDEFS, enabled)
    BY DEF StackNow
  <1>3. NextLine(w, filestack, Advanced, Line) /\ Line \in WrittenLines
    BY <1>1, <1>2, ReadLine
  <1>4. /\ filestack \in Seq(Frames) /\ constructs \in Seq(Constructs)
        /\ IFDEFS \in Seq(BOOLEAN) /\ enabled \in BOOLEAN /\ Top = constructs[Len(constructs)]
    BY <1>1, Here
  <1>5. PICK kept : kept = (IF Last(IFDEFS) /\ Top.hdr THEN Top.prog ELSE <<>>)
    OBVIOUS
  <1>6. constructs' = [constructs EXCEPT ![Len(constructs)] = Construct("else", FALSE, kept)]
    BY <1>1, <1>5
  <1>7. PICK b, ds, fn : b = Top /\ ds = constructs' /\ fn = enabled'
    OBVIOUS
  <1>8. /\ b = constructs[Len(constructs)] /\ b.kind = "if" /\ Line.op = "else"
        /\ kept = (IF Last(IFDEFS) /\ b.hdr THEN b.prog ELSE <<>>)
        /\ ds = [constructs EXCEPT ![Len(constructs)] = Construct("else", FALSE, kept)]
    BY <1>1, <1>4, <1>5, <1>6, <1>7
  <1>9. StackRead(w, own, Advanced, ds, IFDEFS, fn)
    BY <1>2, <1>3, <1>4, <1>8, ElseRead
  <1>10. StackRead(w, own, Advanced, constructs', IFDEFS, enabled')
    BY <1>7, <1>9
  <1> QED
    BY <1>1, <1>10 DEF StackNow

LEMMA EndIfWatched ==
  ASSUME TypedInv, NEW w, Watched(w), StackNow(w), EndIf
  PROVE  StackNow(w)'
  <1> DEFINE part == IF enabled THEN Top.prog ELSE <<>>
             text == IF Top.kind = "if" THEN part
                     ELSE IF Last(IFDEFS) THEN Top.kept \o part ELSE <<>>
  <1>1. /\ filestack # <<>> /\ Last(filestack).rest # <<>> /\ Line.op = "endif"
        /\ Top.kind \in {"if", "else"}
        /\ constructs' = Added(Front(constructs), text)
        /\ IFDEFS' = Front(IFDEFS) /\ enabled' = Last(IFDEFS)
        /\ filestack' = Advanced
    BY DEF EndIf, Reading
  <1>2. PICK own : StackRead(w, own, filestack, constructs, IFDEFS, enabled)
    BY DEF StackNow
  <1>3. NextLine(w, filestack, Advanced, Line) /\ Line \in WrittenLines
    BY <1>1, <1>2, ReadLine
  <1>4. /\ filestack \in Seq(Frames) /\ constructs \in Seq(Constructs)
        /\ IFDEFS \in Seq(BOOLEAN) /\ enabled \in BOOLEAN /\ Top = constructs[Len(constructs)]
    BY <1>1, Here
  <1>5. PICK p : p = part
    OBVIOUS
  <1>6. PICK t : t = text
    OBVIOUS
  <1>7. /\ p = (IF enabled THEN Top.prog ELSE <<>>)
        /\ t = (IF Top.kind = "if" THEN p ELSE IF Last(IFDEFS) THEN Top.kept \o p ELSE <<>>)
    BY <1>5, <1>6
  <1>8. constructs' = Added(Front(constructs), t)
    BY <1>1, <1>6
  <1> HIDE DEF part, text
  <1>9. StackRead(w, Front(own), Advanced, constructs', Front(IFDEFS), Last(IFDEFS))
    BY <1>1, <1>2, <1>3, <1>4, <1>7, <1>8, EndIfRead
  <1>10. StackRead(w, Front(own), filestack', constructs', IFDEFS', enabled')
    BY <1>1, <1>9
  <1> QED
    BY <1>10 DEF StackNow

LEMMA OpenWatched ==
  ASSUME TypedInv, filestack # <<>>, Last(filestack).rest # <<>>,
         NEW w, Watched(w), w.content = content, StackNow(w), Line.op \notin {"if", "else", "endif", "text"},
         NEW f \in File, Open(f), enabled, UNCHANGED conditions
  PROVE  StackNow(w)'
  <1>1. PICK own : StackRead(w, own, filestack, constructs, IFDEFS, enabled)
    BY DEF StackNow
  <1>2. NextLine(w, filestack, Advanced, Line) /\ Line \in WrittenLines
    BY <1>1, ReadLine
  <1>3. /\ filestack \in Seq(Frames) /\ constructs \in Seq(Constructs) /\ constructs # <<>>
        /\ IFDEFS \in Seq(BOOLEAN) /\ content \in Contents
    BY Here
  <1>4. AddedTo(constructs, constructs, <<>>)
    <2>1. /\ Len(constructs) \in Nat /\ Len(constructs) > 0 /\ DOMAIN constructs = 1 .. Len(constructs)
          /\ constructs[Len(constructs)] \in Constructs
      BY <1>3, EndTyped
    <2>2. constructs[Len(constructs)].prog \in Seq(WrittenLines)
      BY <2>1 DEF Constructs
    <2>3. constructs[Len(constructs)].prog = constructs[Len(constructs)].prog \o <<>>
      BY <2>2, ConcatEmptySeq
    <2>4. \A a : ~Has(<<>>, a)
      BY HasNone
    <2> QED
      BY <1>3, <2>1, <2>3, <2>4 DEF AddedTo
  <1>5. StackRead(w, own, Advanced, constructs, IFDEFS, enabled)
    BY <1>1, <1>2, <1>3, <1>4, SkipRead
  <1>6. Advanced \in Seq(Frames) /\ Len(Advanced) = Len(filestack)
    BY LineRead DEF TypedInv
  <1>7. PICK e : e = [file |-> f, rest |-> content[f]]
    OBVIOUS
  <1>8. f # NoFile /\ f \in AnyFile /\ Lines(f) = content[f]
    BY PreprocessorAssumption DEF Lines, AnyFile
  <1>9. e \in Frames
    BY <1>3, <1>7, <1>8, LinesTyped DEF Frames
  <1>10. Construct("file", FALSE, <<>>) \in Constructs
    BY ConstructTyped, EmptySeq DEF Kinds
  <1>11. filestack' = Append(Advanced, e) /\ constructs' = Append(constructs, Construct("file", FALSE, <<>>))
    BY <1>7, <1>8 DEF Open
  <1>12. enabled = TRUE
    OBVIOUS
  <1>13. StackRead(w, Append(own, Len(Advanced) + 1), Append(Advanced, e),
                   Append(constructs, Construct("file", FALSE, <<>>)), IFDEFS, TRUE)
    BY <1>3, <1>5, <1>6, <1>7, <1>9, <1>10, <1>12, OpenRead
  <1>14. StackRead(w, Append(own, Len(Advanced) + 1), filestack', constructs', IFDEFS', enabled')
    BY <1>11, <1>12, <1>13 DEF conditions
  <1> QED
    BY <1>14 DEF StackNow

LEMMA EndFileWatched ==
  ASSUME TypedInv, NEW w, Watched(w), StackNow(w), EndFile
  PROVE  StackNow(w)'
  <1>1. /\ filestack # <<>> /\ Last(filestack).rest = <<>> /\ Len(filestack) > 1 /\ Top.kind = "file"
        /\ filestack' = Front(filestack) /\ constructs' = Added(Front(constructs), Top.prog)
        /\ IFDEFS' = IFDEFS /\ enabled' = enabled
    BY DEF EndFile, AtEnd, conditions
  <1>2. PICK own : StackRead(w, own, filestack, constructs, IFDEFS, enabled)
    BY DEF StackNow
  <1>3. /\ filestack \in Seq(Frames) /\ constructs \in Seq(Constructs)
        /\ IFDEFS \in Seq(BOOLEAN) /\ Top = constructs[Len(constructs)]
        /\ Last(filestack) = filestack[Len(filestack)]
    BY <1>1, Here
  <1>4. StackRead(w, Front(own), Front(filestack), constructs', IFDEFS, enabled)
    BY <1>1, <1>2, <1>3, EndFileRead
  <1> QED
    BY <1>1, <1>4 DEF StackNow

LEMMA EndInputWatched ==
  ASSUME TypedInv, NEW w, Watched(w), StackNow(w), EndInput, Fine(w, OUTPUT)
  PROVE  Fine(w, OUTPUT')
  <1>1. /\ filestack # <<>> /\ Last(filestack).rest = <<>> /\ Top.kind = "file"
        /\ OUTPUT' = OUTPUT \o Top.prog
    BY DEF EndInput, AtEnd
  <1>2. PICK own : StackRead(w, own, filestack, constructs, IFDEFS, enabled)
    BY DEF StackNow
  <1>3. /\ filestack \in Seq(Frames) /\ constructs \in Seq(Constructs)
        /\ IFDEFS \in Seq(BOOLEAN) /\ Top = constructs[Len(constructs)]
        /\ Last(filestack) = filestack[Len(filestack)]
    BY <1>1, Here
  <1>4. Fine(w, Top.prog)
    BY <1>1, <1>2, <1>3, FineAtEnd
  <1>5. Top.prog \in Seq(WrittenLines) /\ OUTPUT \in Seq(WrittenLines)
    BY <1>1, ConstructsOpen DEF Constructs, TypedInv, TypedText
  <1> QED
    BY <1>1, <1>4, <1>5, FineMore
-----------------------------------------------------------------------------
\* The runtime files that the second pass reads.
LEMMA SearchRuntime ==
  ASSUME TypedInv, NEW b \in Nat, RuntimeRead(b), filestack # <<>>, Last(filestack).rest # <<>>,
         Line.op \in {"include", "include_once"},
         search_filename(Line.arg, Line.flag) # NoFile
  PROVE  search_filename(Line.arg, Line.flag) \in Runtime
  <1>1. Line.arg \in Rel
    BY LineRead, LineTyped DEF TypedInv
  <1>2. /\ filestack \in Seq(Frames) /\ Len(filestack) \in Nat /\ Len(filestack) > 0
        /\ Last(filestack) = filestack[Len(filestack)] /\ Last(filestack) \in Frames
    BY EndTyped DEF TypedInv, TypedText
  <1>3. CASE Len(filestack) > 1
    <2>1. PICK f \in Runtime : CURRENT_DIR = DirOf[f]
      BY <1>3 DEF RuntimeRead
    <2>2. /\ Resolve[DirOf[f]][Line.arg] \in Runtime \cup {NoFile}
          /\ Resolve[LibDir][Line.arg] \in Runtime \cup {NoFile}
      BY <1>1, RuntimeAssumption
    <2> QED
      BY <2>1, <2>2 DEF search_filename
  <1>4. CASE Len(filestack) = 1
    <2>1. filestack[1].rest \in Seq(WrittenLines) /\ filestack[1].rest # <<>> /\ Line = Head(filestack[1].rest)
      BY <1>2, <1>4 DEF Frames, Line
    <2>2. 1 \in DOMAIN filestack[1].rest /\ Line = filestack[1].rest[1]
      BY <2>1, EndTyped, HeadTailProperties
    <2>3. ~Line.flag
      BY <2>2 DEF RuntimeRead
    <2>4. Resolve[LibDir][Line.arg] \in Runtime \cup {NoFile}
      BY <1>1, RuntimeAssumption
    <2> QED
      BY <2>3, <2>4 DEF search_filename
  <1>5. Len(filestack) > 1 \/ Len(filestack) = 1
    <2>1. PICK n : n = Len(filestack)
      OBVIOUS
    <2>2. n \in Nat /\ n > 0
      BY <1>2, <2>1
    <2>3. n > 1 \/ n = 1
      BY ONLY <2>2
    <2> QED
      BY ONLY <2>1, <2>3
  <1> QED
    BY <1>3, <1>4, <1>5

\* The files that are read and what is left of the first, after a line.
LEMMA RuntimeAdvanced ==
  ASSUME TypedInv, filestack # <<>>, Last(filestack).rest # <<>>, NEW b, RuntimeRead(b)
  PROVE  /\ Advanced \in Seq(Frames) /\ Len(Advanced) = Len(filestack) /\ DOMAIN Advanced = DOMAIN filestack
         /\ \A k \in DOMAIN filestack : Advanced[k].file = filestack[k].file
         /\ \A i \in DOMAIN Advanced[1].rest :
              LET x == Advanced[1].rest[i]
              IN  x.op = "text" \/ (x.op = "include_once" /\ ~x.flag)
  <1> DEFINE n == Len(filestack)
  <1>1. /\ filestack \in Seq(Frames) /\ n \in Nat /\ n > 0 /\ DOMAIN filestack = 1 .. n
        /\ Last(filestack) = filestack[n] /\ filestack[n] \in Frames
    BY EndTyped DEF TypedInv, TypedText
  <1>2. /\ Advanced \in Seq(Frames) /\ Len(Advanced) = n /\ DOMAIN Advanced = 1 .. n
    BY LineRead, LenProperties DEF TypedInv
  <1>3. ASSUME NEW k \in DOMAIN filestack
        PROVE  /\ Advanced[k].file = filestack[k].file
               /\ Advanced[k].rest = IF k = n THEN Tail(filestack[n].rest) ELSE filestack[k].rest
    <2>1. PICK e : e = [filestack[n] EXCEPT !.rest = Tail(@)]
      OBVIOUS
    <2>2. e.file = filestack[n].file /\ e.rest = Tail(filestack[n].rest)
      BY <1>1, <2>1 DEF Frames
    <2>3. Advanced = [filestack EXCEPT ![n] = e]
      BY <1>1, <2>1 DEF Advanced
    <2> QED
      BY <1>1, <2>2, <2>3
  <1> HIDE DEF n
  <1>4. ASSUME NEW i \in DOMAIN Advanced[1].rest
        PROVE  LET x == Advanced[1].rest[i]
               IN  x.op = "text" \/ (x.op = "include_once" /\ ~x.flag)
    <2>1. 1 \in DOMAIN filestack
      BY <1>1
    <2>2. CASE n = 1
      <3>1. filestack[1].rest \in Seq(WrittenLines) /\ filestack[1].rest # <<>>
        BY <1>1, <2>2 DEF Frames
      <3>2. PICK s : s = filestack[1].rest
        OBVIOUS
      <3>3. s \in Seq(WrittenLines) /\ s # <<>> /\ Advanced[1].rest = Tail(s)
        BY <1>3, <2>1, <2>2, <3>1, <3>2
      <3>4. /\ Len(s) \in Nat /\ Len(s) > 0 /\ DOMAIN s = 1 .. Len(s)
            /\ Tail(s) \in Seq(WrittenLines) /\ Len(Tail(s)) = Len(s) - 1
            /\ \A j \in 1 .. Len(s) - 1 : Tail(s)[j] = s[j + 1]
        BY <3>3, EndTyped, HeadTailProperties
      <3>5. DOMAIN Tail(s) = 1 .. Len(s) - 1
        BY <3>4, LenProperties
      <3>6. i \in 1 .. Len(s) - 1
        BY <3>3, <3>5
      <3>7. i + 1 \in DOMAIN s /\ Advanced[1].rest[i] = s[i + 1]
        BY <3>3, <3>4, <3>6
      <3> QED
        BY <3>2, <3>7 DEF RuntimeRead
    <2>3. CASE n # 1
      <3>1. Advanced[1].rest = filestack[1].rest
        BY <1>3, <2>1, <2>3
      <3> QED
        BY <3>1 DEF RuntimeRead
    <2> QED
      BY <2>2, <2>3
  <1> QED
    BY <1>1, <1>2, <1>3, <1>4 DEF n

LEMMA AdvancedRuntime ==
  ASSUME TypedInv, filestack # <<>>, Last(filestack).rest # <<>>, NEW b, RuntimeRead(b),
         filestack' = Advanced, UNCHANGED <<CURRENT_FILE, CURRENT_DIR>>
  PROVE  RuntimeRead(b)'
  <1>1. /\ Len(filestack') = Len(filestack) /\ Len(filestack) \in Nat /\ DOMAIN filestack = 1 .. Len(filestack)
        /\ \A k \in DOMAIN filestack : filestack'[k].file = filestack[k].file
        /\ \A i \in DOMAIN filestack'[1].rest :
             LET x == filestack'[1].rest[i]
             IN  x.op = "text" \/ (x.op = "include_once" /\ ~x.flag)
    BY RuntimeAdvanced, LenProperties DEF TypedInv, TypedText
  <1>2. \A k \in 2 .. Len(filestack') : filestack'[k].file \in Runtime
    <2>1. \A k \in 2 .. Len(filestack) : k \in DOMAIN filestack /\ filestack[k].file \in Runtime
      BY <1>1 DEF RuntimeRead
    <2> QED
      BY <1>1, <2>1
  <1> QED
    BY <1>1, <1>2 DEF RuntimeRead

LEMMA OpenRuntime ==
  ASSUME TypedInv, filestack # <<>>, Last(filestack).rest # <<>>, NEW b, RuntimeRead(b),
         NEW f \in Runtime, Open(f)
  PROVE  RuntimeRead(b)'
  <1> DEFINE n == Len(filestack)
  <1>1. /\ Advanced \in Seq(Frames) /\ Len(Advanced) = n /\ n \in Nat /\ n > 0 /\ DOMAIN filestack = 1 .. n
        /\ \A k \in DOMAIN filestack : Advanced[k].file = filestack[k].file
        /\ \A i \in DOMAIN Advanced[1].rest :
             LET x == Advanced[1].rest[i]
             IN  x.op = "text" \/ (x.op = "include_once" /\ ~x.flag)
    BY RuntimeAdvanced, EndTyped DEF TypedInv, TypedText
  <1>2. PICK e : e = [file |-> f, rest |-> Lines(f)]
    OBVIOUS
  <1>3. e \in Frames /\ e.file = f
    <2>1. f \in AnyFile
      BY RuntimeAssumption DEF AnyFile
    <2> QED
      BY <1>2, <2>1, LinesTyped DEF Frames, TypedInv, TypedText
  <1>4. filestack' = Append(Advanced, e) /\ CURRENT_FILE' = Append(CURRENT_FILE, f) /\ CURRENT_DIR' = DirOf[f]
    BY <1>2 DEF Open
  <1>5. /\ Len(filestack') = n + 1 /\ filestack'[n + 1] = e
        /\ \A k \in 1 .. n : filestack'[k] = Advanced[k]
    BY <1>1, <1>3, <1>4, AppendProperties
  <1>6. /\ CURRENT_FILE \in Seq(AnyFile) /\ Len(CURRENT_FILE) \in Nat /\ f \in AnyFile
    BY LenProperties, RuntimeAssumption DEF TypedInv, TypedFiles, AnyFile
  <1>7. /\ Len(CURRENT_FILE') = Len(CURRENT_FILE) + 1 /\ CURRENT_FILE'[Len(CURRENT_FILE) + 1] = f
        /\ \A i \in 1 .. Len(CURRENT_FILE) : CURRENT_FILE'[i] = CURRENT_FILE[i]
    BY <1>4, <1>6, AppendProperties
  <1>8. b \in Nat /\ b + n - 1 <= Len(CURRENT_FILE)
    BY DEF RuntimeRead
  <1> HIDE DEF n
  <1>9. b + Len(filestack') - 1 <= Len(CURRENT_FILE')
    BY <1>1, <1>5, <1>6, <1>7, <1>8
  <1>10. ASSUME NEW i \in b + 1 .. Len(CURRENT_FILE') PROVE CURRENT_FILE'[i] \in Runtime
    <2>1. CASE i = Len(CURRENT_FILE) + 1
      BY <1>7, <2>1
    <2>2. CASE i # Len(CURRENT_FILE) + 1
      <3>1. i \in b + 1 .. Len(CURRENT_FILE) /\ i \in 1 .. Len(CURRENT_FILE)
        BY <1>6, <1>7, <1>8, <2>2
      <3> QED
        BY <1>7, <3>1 DEF RuntimeRead
    <2> QED
      BY <2>1, <2>2
  <1>11. ASSUME NEW k \in 2 .. Len(filestack') PROVE filestack'[k].file \in Runtime
    <2>1. CASE k = n + 1
      BY <1>3, <1>5, <2>1
    <2>2. CASE k # n + 1
      <3>1. k \in 1 .. n /\ k \in 2 .. n
        BY <1>1, <1>5, <2>2
      <3> QED
        BY <1>1, <1>5, <3>1 DEF RuntimeRead, n
    <2> QED
      BY <2>1, <2>2
  <1>12. filestack'[1] = Advanced[1]
    BY <1>1, <1>5
  <1> QED
    BY <1>1, <1>4, <1>8, <1>9, <1>10, <1>11, <1>12 DEF RuntimeRead

LEMMA EndFileRuntime ==
  ASSUME TypedInv, NEW b, RuntimeRead(b), EndFile
  PROVE  RuntimeRead(b)'
  <1> DEFINE n == Len(filestack)
             m == Len(CURRENT_FILE)
  <1>1. /\ filestack # <<>> /\ n > 1 /\ filestack' = Front(filestack)
    BY DEF EndFile, AtEnd
  <1>2. /\ Len(filestack') = n - 1 /\ n \in Nat
        /\ \A k \in 1 .. n - 1 : filestack'[k] = filestack[k]
    BY <1>1, FrontIs DEF TypedInv, TypedText
  <1>3. /\ CURRENT_FILE \in Seq(AnyFile) /\ m \in Nat /\ b \in Nat /\ b + n - 1 <= m
    BY LenProperties DEF RuntimeRead, TypedInv, TypedFiles
  <1> HIDE DEF n, m
  <1>4. \A k \in 2 .. Len(filestack') : filestack'[k].file \in Runtime
    <2>1. \A k \in 2 .. n : filestack[k].file \in Runtime
      BY DEF RuntimeRead, n
    <2> QED
      BY <1>2, <2>1
  <1>5. filestack'[1] = filestack[1]
    BY <1>1, <1>2 DEF n
  <1>6. CASE ~Top.any
    <2>1. UNCHANGED <<CURRENT_FILE, CURRENT_DIR>>
      BY <1>6 DEF EndFile
    <2>2. b + Len(filestack') - 1 <= Len(CURRENT_FILE')
      BY <1>2, <1>3, <2>1 DEF m
    <2> QED
      BY <1>1, <1>4, <1>5, <2>1, <2>2 DEF RuntimeRead, n
  <1>7. CASE Top.any
    <2>1. CURRENT_FILE' = Front(CURRENT_FILE) /\ CURRENT_DIR' = DirOf[Last(Front(CURRENT_FILE))]
      BY <1>7 DEF EndFile
    <2>2. n > 1 /\ m > 0
      BY <1>1, <1>2, <1>3 DEF n
    <2>3. CURRENT_FILE # <<>>
      BY <2>2, EmptySeq DEF m
    <2>4. /\ CURRENT_FILE' \in Seq(AnyFile) /\ Len(CURRENT_FILE') = m - 1
          /\ \A i \in 1 .. m - 1 : CURRENT_FILE'[i] = CURRENT_FILE[i]
      BY <1>3, <2>1, <2>3, FrontIs DEF m
    <2>5. b + Len(filestack') - 1 <= Len(CURRENT_FILE')
      BY <1>2, <1>3, <2>4
    <2>6. ASSUME NEW i \in b + 1 .. Len(CURRENT_FILE') PROVE CURRENT_FILE'[i] \in Runtime
      <3>1. i \in 1 .. m - 1 /\ i \in b + 1 .. m
        BY <1>3, <2>4
      <3> QED
        BY <2>4, <3>1 DEF RuntimeRead, m
    <2>7. ASSUME Len(filestack') > 1 PROVE \E f \in Runtime : CURRENT_DIR' = DirOf[f]
      <3>1. m - 1 \in b + 1 .. m /\ m - 1 \in 1 .. m - 1 /\ m - 1 > 0
        BY <1>2, <1>3, <2>7
      <3>2. Last(CURRENT_FILE') = CURRENT_FILE[m - 1]
        BY <2>4, <3>1 DEF Last
      <3>3. CURRENT_FILE[m - 1] \in Runtime
        BY <3>1 DEF RuntimeRead, m
      <3> QED
        BY <2>1, <3>2, <3>3
    <2> QED
      BY <1>3, <1>4, <1>5, <2>5, <2>6, <2>7 DEF RuntimeRead
  <1> QED
    BY <1>6, <1>7

\* Lines are read, a file is opened or comes to its end, or the pass ends.
LEMMA StepRuntime ==
  ASSUME TypedInv, RuntimeInv, PreprocessLine, UNCHANGED Driver
  PROVE  RuntimeInv'
  <1> SUFFICES ASSUME ~has_errors', phase' = "asm", filestack' # <<>>
               PROVE  (\E b \in Nat : RuntimeRead(b))'
    BY DEF RuntimeInv
  <1>1. phase = "asm" /\ UNCHANGED phase
    BY DEF Driver
  <1>2. ~has_errors
    BY DEF PreprocessLine, Text, MacroCall, Define, Undef, ErrorMsg, PragmaOnce, IfHeader, Else, EndIf,
           UnexpectedDirective, Include, IncludeOnce, EndFile, EndInput, UnexpectedEnd, SyntaxError
  <1>3. filestack # <<>>
    BY DEF PreprocessLine, Text, MacroCall, Define, Undef, ErrorMsg, PragmaOnce, IfHeader, Else, EndIf,
           UnexpectedDirective, Include, IncludeOnce, EndFile, EndInput, UnexpectedEnd, Reading, AtEnd
  <1>4. PICK b \in Nat : RuntimeRead(b)
    BY <1>1, <1>2, <1>3 DEF RuntimeInv
  <1>5. CASE Text \/ MacroCall \/ Define \/ Undef \/ ErrorMsg \/ PragmaOnce \/ IfHeader \/ Else \/ EndIf
    <2>1. /\ Last(filestack).rest # <<>> /\ filestack' = Advanced
          /\ UNCHANGED <<CURRENT_FILE, CURRENT_DIR>>
      BY <1>5 DEF Text, MacroCall, Define, Undef, ErrorMsg, PragmaOnce, IfHeader, Else, EndIf,
                  Reading, Skip, files
    <2> QED
      BY <1>3, <1>4, <2>1, AdvancedRuntime
  <1>6. CASE Include \/ IncludeOnce
    <2>1. /\ Last(filestack).rest # <<>> /\ Line.op \in {"include", "include_once"}
          /\ (enabled /\ Open(Taken)) \/ (Skip(<<>>) /\ UNCHANGED files)
          /\ enabled => Found # NoFile
      BY <1>6, IncludeIs
    <2>2. CASE enabled /\ Open(Taken)
      <3>1. Found \in Runtime
        BY <1>3, <1>4, <2>1, <2>2, SearchRuntime DEF Found
      <3>2. Line.arg \in Rel /\ CURRENT_DIR \in Dir
        BY <1>3, <2>1, LineRead, LineTyped DEF TypedInv, TypedFiles
      <3>3. Taken \in Runtime
        BY <3>1, <3>2, TakenRuntime
      <3> QED
        BY <1>3, <1>4, <2>1, <2>2, <3>3, OpenRuntime
    <2>3. CASE Skip(<<>>) /\ UNCHANGED files
      BY <1>3, <1>4, <2>1, <2>3, AdvancedRuntime DEF Skip, files
    <2> QED
      BY <2>1, <2>2, <2>3
  <1>7. CASE EndFile
    BY <1>4, <1>7, EndFileRuntime
  <1>8. CASE EndInput \/ UnexpectedDirective \/ UnexpectedEnd
    BY <1>8 DEF EndInput, UnexpectedDirective, UnexpectedEnd, SyntaxError
  <1> QED
    BY <1>5, <1>6, <1>7, <1>8 DEF PreprocessLine

\* The macro of a watched text is defined and undefined by no line of the second pass.
LEMMA MacroKept ==
  ASSUME TypedInv, NEW b \in Nat, RuntimeRead(b), NEW w, Watched(w), w.second, StackNow(w),
         filestack # <<>>, Last(filestack).rest # <<>>, Line.op \in {"define", "undef"}
  PROVE  Line.arg # w.m
  <1> DEFINE n == Len(filestack)
             rest == filestack[n].rest
  <1>1. /\ filestack \in Seq(Frames) /\ n \in Nat /\ n > 0 /\ DOMAIN filestack = 1 .. n
        /\ Last(filestack) = filestack[n] /\ filestack[n] \in Frames
    BY EndTyped DEF TypedInv, TypedText
  <1>2. rest \in Seq(WrittenLines) /\ rest # <<>>
    BY <1>1 DEF Frames
  <1>3. Len(rest) \in Nat /\ Len(rest) > 0 /\ 1 \in DOMAIN rest /\ Line = rest[1]
    <2>1. Line = Head(rest)
      BY <1>1 DEF Line
    <2> HIDE DEF rest
    <2> QED
      BY <1>2, <2>1, EndTyped, HeadTailProperties
  <1>4. n > 1
    <2>1. n # 1
      BY <1>3 DEF RuntimeRead
    <2> QED
      BY <1>1, <2>1
  <1>5. n \in 2 .. n /\ filestack[n].file \in Runtime
    <2>1. n \in 2 .. n
      BY <1>1, <1>4
    <2> QED
      BY <2>1 DEF RuntimeRead
  <1>6. FrameRead(w, filestack, n) /\ ~Given(w, n)
    <2>1. PICK own : StackRead(w, own, filestack, constructs, IFDEFS, enabled)
      BY DEF StackNow
    <2> QED
      BY <1>1, <1>4, <2>1 DEF StackRead, Given
  <1> DEFINE ls == w.content[filestack[n].file]
  <1>7. /\ filestack[n].file \in File /\ Len(rest) <= Len(ls)
        /\ rest[1] = ls[Pos(w, filestack, n) + 1]
    BY <1>3, <1>6 DEF FrameRead
  <1>8. ls \in Seq(Range(ls)) /\ Len(ls) \in Nat /\ DOMAIN ls = 1 .. Len(ls)
    BY <1>7, PreprocessorAssumption, LenProperties DEF Watched
  <1>9. Pos(w, filestack, n) = Len(ls) - Len(rest)
    BY DEF Pos
  <1> HIDE DEF n, rest, ls
  <1>10. Pos(w, filestack, n) + 1 \in DOMAIN ls
    BY <1>3, <1>7, <1>8, <1>9
  <1>11. Line \in Range(ls)
    BY <1>3, <1>7, <1>10 DEF Range
  <1> QED
    BY <1>5, <1>11 DEF Watched, ls
-----------------------------------------------------------------------------
\* What a step of the preprocessor needs and leaves.
LEMMA StepRead ==
  ASSUME PreprocessLine, ~has_errors'
  PROVE  ~has_errors /\ filestack # <<>> /\ content' = content
  <1>1. UNCHANGED content
    BY DEF PreprocessLine, Text, MacroCall, Define, Undef, ErrorMsg, PragmaOnce, IfHeader, Else, EndIf,
           UnexpectedDirective, Include, IncludeOnce, EndFile, EndInput, UnexpectedEnd, SyntaxError
  <1>2. ~has_errors
    BY DEF PreprocessLine, Text, MacroCall, Define, Undef, ErrorMsg, PragmaOnce, IfHeader, Else, EndIf,
           UnexpectedDirective, Include, IncludeOnce, EndFile, EndInput, UnexpectedEnd, SyntaxError
  <1>3. filestack # <<>>
    BY DEF PreprocessLine, Text, MacroCall, Define, Undef, ErrorMsg, PragmaOnce, IfHeader, Else, EndIf,
           UnexpectedDirective, Include, IncludeOnce, EndFile, EndInput, UnexpectedEnd, Reading, AtEnd
  <1> QED
    BY <1>1, <1>2, <1>3

LEMMA StepWatched ==
  ASSUME TypedInv, NEW w, Watched(w), w.content = content, StackNow(w), PreprocessLine, ~has_errors',
         filestack' # <<>>, w.second => (w.m \in ID_TABLE <=> w.asked)
  PROVE  StackNow(w)'
  <1>1. filestack # <<>>
    BY StepRead
  <1>2. CASE Text \/ Define \/ Undef \/ ErrorMsg \/ PragmaOnce \/ (MacroCall /\ Line.arg \notin ID_TABLE)
    <2>1. /\ Last(filestack).rest # <<>> /\ UNCHANGED conditions
          /\ Line.op \notin {"if", "else", "endif"}
      BY <1>2 DEF Text, Define, Undef, ErrorMsg, PragmaOnce, MacroCall, Reading
    <2>2. Skip(<<Line>>) \/ (Skip(<<>>) /\ Line.op # "text")
      BY <1>2 DEF Text, Define, Undef, ErrorMsg, PragmaOnce, MacroCall, Reading
    <2>3. CASE Skip(<<Line>>)
      BY <1>1, <2>1, <2>3, SkipWatched
    <2>4. CASE Skip(<<>>) /\ Line.op # "text"
      BY <1>1, <2>1, <2>4, SkipWatched
    <2> QED
      BY <2>2, <2>3, <2>4
  <1>3. CASE MacroCall /\ Line.arg \in ID_TABLE
    BY <1>3 DEF MacroCall
  <1>4. CASE Include \/ IncludeOnce
    <2>6. PICK f : f = Taken
      OBVIOUS
    <2>1. /\ Last(filestack).rest # <<>> /\ Line.op \in {"include", "include_once"}
          /\ (enabled /\ Open(f) /\ f # NoFile) \/ (Skip(<<>>) /\ UNCHANGED files)
          /\ UNCHANGED conditions
      BY <1>4, <2>6, IncludeIs
    <2>2. f \in AnyFile
      <3>1. Line.arg \in Rel
        BY <1>1, <2>1, LineRead, LineTyped DEF TypedInv
      <3> QED
        BY <2>6, <3>1, TakenTyped DEF TypedInv, TypedFiles
    <2>3. Line.op \notin {"if", "else", "endif", "text"}
      BY <2>1
    <2>4. CASE enabled /\ Open(f) /\ f # NoFile
      <3>1. f \in File
        BY <2>1, <2>2, <2>4 DEF AnyFile
      <3> QED
        BY <1>1, <2>1, <2>3, <2>4, <3>1, OpenWatched
    <2>5. CASE Skip(<<>>) /\ UNCHANGED files
      BY <1>1, <2>1, <2>3, <2>5, SkipWatched
    <2> QED
      BY <2>1, <2>4, <2>5
  <1>5. CASE IfHeader
    BY <1>5, IfWatched
  <1>6. CASE Else
    BY <1>6, ElseWatched
  <1>7. CASE EndIf
    BY <1>7, EndIfWatched
  <1>8. CASE EndFile
    BY <1>8, EndFileWatched
  <1>9. CASE EndInput \/ UnexpectedDirective \/ UnexpectedEnd
    BY <1>9 DEF EndInput, UnexpectedDirective, UnexpectedEnd, SyntaxError
  <1> QED
    BY <1>2, <1>3, <1>4, <1>5, <1>6, <1>7, <1>8, <1>9 DEF PreprocessLine

\* The macro is defined after the line as before it.
LEMMA StepMacro ==
  ASSUME TypedInv, NEW w, Watched(w), w.second, StackNow(w), PreprocessLine, ~has_errors',
         NEW b \in Nat, RuntimeRead(b)
  PROVE  w.m \in ID_TABLE' <=> w.m \in ID_TABLE
  <1>1. CASE Define \/ Undef
    <2>1. /\ filestack # <<>> /\ Last(filestack).rest # <<>> /\ Line.op \in {"define", "undef"}
          /\ ID_TABLE' \in {ID_TABLE, ID_TABLE \cup {Line.arg}, ID_TABLE \ {Line.arg}}
      BY <1>1 DEF Define, Undef, Reading
    <2>2. Line.arg # w.m
      BY <2>1, MacroKept
    <2> QED
      BY <2>1, <2>2
  <1>2. CASE ~(Define \/ Undef)
    <2>1. ID_TABLE' = ID_TABLE
      BY <1>2 DEF PreprocessLine, Text, MacroCall, ErrorMsg, PragmaOnce, IfHeader, Else, EndIf,
           UnexpectedDirective, Include, IncludeOnce, EndFile, EndInput, UnexpectedEnd, SyntaxError
    <2> QED
      BY <2>1
  <1> QED
    BY <1>1, <1>2

\* What is produced changes at the end of a pass only.
LEMMA StepOutput ==
  ASSUME TypedInv, NEW w, Watched(w), StackNow(w), PreprocessLine, ~has_errors', Fine(w, OUTPUT)
  PROVE  Fine(w, OUTPUT')
  <1>1. CASE EndInput
    BY <1>1, EndInputWatched
  <1>2. CASE ~EndInput
    <2>1. OUTPUT' = OUTPUT
      BY <1>2 DEF PreprocessLine, Text, MacroCall, Define, Undef, ErrorMsg, PragmaOnce, IfHeader, Else, EndIf,
           UnexpectedDirective, Include, IncludeOnce, EndFile, UnexpectedEnd, SyntaxError
    <2> QED
      BY <2>1
  <1> QED
    BY <1>1, <1>2

LEMMA StepWatch ==
  ASSUME TypedInv, RuntimeInv, NEW w, WatchInv(w), PreprocessLine, UNCHANGED Driver,
         phase \in {"basic", "asm"}
  PROVE  WatchInv(w)'
  <1> SUFFICES ASSUME Watches(w)', Left(w)', ~has_errors' PROVE WatchInv(w)'
    BY DEF WatchInv
  <1>1. UNCHANGED <<phase, optimize, defines, input_, REQUIRES>>
    BY DEF Driver
  <1>2. ~has_errors /\ filestack # <<>> /\ content' = content
    BY StepRead
  <1>3. Watches(w) /\ Left(w)
    BY <1>1, <1>2 DEF Watches, Left
  <1>4. /\ Watched(w) /\ w.content = content /\ (w.second <=> phase = "asm")
        /\ StackNow(w) /\ Fine(w, OUTPUT) /\ (phase = "asm" => (w.m \in ID_TABLE <=> w.asked))
    BY <1>2, <1>3 DEF WatchInv, Watches
  <1>5. Fine(w, OUTPUT')
    BY <1>4, StepOutput
  <1>6. filestack' # <<>> => StackNow(w)'
    BY <1>4, StepWatched
  <1>7. phase = "asm" => (w.m \in ID_TABLE' <=> w.asked)
    <2>1. phase = "asm" => \E b \in Nat : RuntimeRead(b)
      BY <1>2 DEF RuntimeInv
    <2> QED
      BY <1>4, <2>1, StepMacro
  <1>8. phase' \in {"basic", "asm"}
    BY <1>1
  <1> QED
    BY <1>1, <1>5, <1>6, <1>7, <1>8 DEF WatchInv
-----------------------------------------------------------------------------
LEMMA PreprocessWatch ==
  ASSUME TypedInv, NEW w, WatchInv(w), Preprocess
  PROVE  WatchInv(w)'
  <1> SUFFICES ASSUME Watches(w)', ~has_errors' PROVE WatchInv(w)'
    BY DEF WatchInv
  <1>1. /\ phase = "start" /\ phase' = "basic" /\ Opened(Main, content[Main])
        /\ UNCHANGED <<content, IFDEFS, enabled, OUTPUT, has_errors, defines, input_>>
    BY DEF Preprocess, conditions
  <1>2. Watched(w) /\ w.content = content /\ w.second = FALSE
    <2>1. Watched(w) /\ w.content = content' /\ w.second = (phase' \in {"asm", "built"})
      BY DEF Watches
    <2>2. (phase' \in {"asm", "built"}) = FALSE
      BY <1>1
    <2> QED
      BY <1>1, <2>1, <2>2
  <1>3. Watches(w) /\ Left(w)
    BY <1>1, <1>2 DEF Watches, Left
  <1>4. OUTPUT' = <<>>
    BY <1>1, <1>3 DEF WatchInv
  <1>5. IFDEFS = <<>> /\ enabled = TRUE
    BY <1>1 DEF TypedInv, IInv, Shape
  <1>6. PICK e, c : e = [file |-> Main, rest |-> content[Main]] /\ c = Construct("file", FALSE, <<>>)
    OBVIOUS
  <1>7. filestack' = <<e>> /\ constructs' = <<c>>
    BY <1>1, <1>6 DEF Opened
  <1>8. e \in Frames /\ e.file = Main /\ e.rest = content[Main]
    <2>1. Main \in AnyFile /\ Main # NoFile /\ content \in Contents
      BY PreprocessorAssumption DEF AnyFile, TypedInv, TypedText
    <2>2. Lines(Main) = content[Main]
      BY <2>1 DEF Lines
    <2>3. content[Main] \in Seq(WrittenLines)
      BY <2>1, <2>2, LinesTyped
    <2> QED
      BY <1>6, <2>1, <2>3 DEF Frames
  <1>9. c \in Constructs
    BY <1>6, ConstructTyped, EmptySeq DEF Kinds
  <1>10. PICK fs, cs : fs = <<e>> /\ cs = <<c>>
    OBVIOUS
  <1>11. FrameRead(w, fs, 1)
    <2>1. Main \in File /\ content[Main] \in Seq(Range(content[Main]))
      BY PreprocessorAssumption DEF TypedInv, TypedText
    <2>2. Len(content[Main]) \in Nat /\ DOMAIN content[Main] = 1 .. Len(content[Main])
      BY <2>1, LenProperties
    <2>3. fs[1].file = Main /\ fs[1].rest = content[Main]
      BY <1>8, <1>10
    <2>4. Pos(w, fs, 1) = 0
      BY <1>2, <2>2, <2>3 DEF Pos
    <2>5. Len(content[Main]) <= Len(content[Main]) /\ \A i \in DOMAIN content[Main] : 0 + i = i
      BY <2>2
    <2> QED
      BY <1>2, <2>1, <2>3, <2>4, <2>5 DEF FrameRead, Given
  <1>12. StackRead(w, <<1>>, fs, cs, <<>>, TRUE)
    BY <1>2, <1>6, <1>8, <1>9, <1>10, <1>11, StartRead
  <1>13. StackRead(w, <<1>>, filestack', constructs', IFDEFS', enabled')
    BY <1>1, <1>5, <1>7, <1>10, <1>12
  <1>14. StackNow(w)'
    BY <1>13 DEF StackNow
  <1>15. Fine(w, OUTPUT')
    BY <1>4, FineNone
  <1> QED
    BY <1>1, <1>14, <1>15 DEF WatchInv

LEMMA TranslateRuntime ==
  ASSUME TypedInv, Translate
  PROVE  RuntimeInv'
  <1> DEFINE S == {x \in WrittenLines : x.op = "text"}
  <1>1. ASSUME NEW i \in DOMAIN OUTPUT, OUTPUT[i].op = "text" PROVE OUTPUT[i] \in S
    <2>1. OUTPUT[i] \in WrittenLines
      BY LenProperties, ElementOfSeq DEF TypedInv, TypedText
    <2> QED
      BY <1>1, <2>1
  <1>2. S \subseteq WrittenLines /\ \A x \in S \cup RuntimeLines : x.op = "text" \/ (x.op = "include_once" /\ ~x.flag)
    BY DEF RuntimeLines
  <1> HIDE DEF S
  <1>3. PICK lines \in Seq(WrittenLines) :
           Opened(Main, lines) /\ \A i \in DOMAIN lines : lines[i] \in S \cup RuntimeLines
    BY <1>1, <1>2, LinesAre
  <1>4. /\ filestack' = <<[file |-> Main, rest |-> lines]>>
        /\ CURRENT_FILE' = Append(CURRENT_FILE, Main)
    BY <1>3 DEF Opened
  <1>5. Len(filestack') = 1 /\ filestack'[1].rest = lines
    BY <1>4
  <1>6. Len(CURRENT_FILE') \in Nat
    <2>1. CURRENT_FILE \in Seq(AnyFile) /\ Main \in AnyFile
      BY PreprocessorAssumption DEF TypedInv, TypedFiles, AnyFile
    <2> QED
      BY <1>4, <2>1, AppendProperties, LenProperties
  <1>7. PICK b : b = Len(CURRENT_FILE')
    OBVIOUS
  <1>8. b + 1 - 1 <= b /\ b \in Nat /\ b + 1 .. b = {}
    BY <1>6, <1>7
  <1>9. \A i \in DOMAIN lines : lines[i].op = "text" \/ (lines[i].op = "include_once" /\ ~lines[i].flag)
    BY <1>2, <1>3
  <1>10. RuntimeRead(b)'
    BY <1>5, <1>7, <1>8, <1>9 DEF RuntimeRead
  <1> QED
    BY <1>8, <1>10 DEF RuntimeInv

\* The watched text of the first pass, if the label did not come.
LEMMA FirstPass ==
  ASSUME TypedInv, NEW w, Watched(w), w.content = content, phase = "basic", ~has_errors,
         \A v : WatchInv(v)
  PROVE  Has(OUTPUT, w.t) => Has(OUTPUT, w.l)
  <1> DEFINE v == [content |-> w.content, second |-> FALSE, asked |-> w.m \in defines,
                   file |-> w.file, l |-> w.l, m |-> w.m, t |-> w.t, p |-> w.p, r |-> w.r, q |-> w.q]
  <1>1. /\ v.content = w.content /\ v.second = FALSE /\ v.asked = (w.m \in defines) /\ v.file = w.file
        /\ v.l = w.l /\ v.m = w.m /\ v.t = w.t /\ v.p = w.p /\ v.r = w.r /\ v.q = w.q
    OBVIOUS
  <1>2. WatchInv(v)
    OBVIOUS
  <1> HIDE DEF v
  <1>3. Watched(v)
    <2>1. (w.m \in defines) \in BOOLEAN /\ FALSE \in BOOLEAN
      OBVIOUS
    <2>2. v.second \in BOOLEAN /\ v.asked \in BOOLEAN
      BY <1>1, <2>1, Zenon
    <2> QED
      BY <1>1, <2>2 DEF Watched
  <1>4. Watches(v) /\ Left(v)
    <2>1. v.second = (phase \in {"asm", "built"})
      <3>1. (phase \in {"asm", "built"}) = FALSE
        OBVIOUS
      <3> QED
        BY <1>1, <3>1, Zenon
    <2>2. v.asked = (v.m \in defines)
      BY <1>1
    <2>3. ~v.second
      BY <1>1
    <2> QED
      BY <1>1, <1>3, <2>1, <2>2, <2>3 DEF Watches, Left
  <1>5. Fine(v, OUTPUT)
    BY <1>2, <1>4 DEF WatchInv
  <1> QED
    BY <1>1, <1>5 DEF Fine

LEMMA TranslateWatch ==
  ASSUME TypedInv, NEW w, \A v : WatchInv(v), Translate
  PROVE  WatchInv(w)'
  <1> SUFFICES ASSUME Watches(w)', Left(w)' PROVE WatchInv(w)'
    BY DEF WatchInv
  <1>1. /\ phase = "basic" /\ phase' = "asm" /\ Idle /\ ~has_errors /\ input_' = OUTPUT
        /\ ID_TABLE' = defines' /\ OUTPUT' = <<>> /\ IFDEFS' = IFDEFS /\ enabled' = enabled
        /\ content' = content
    BY DEF Translate, reset_id_table, conditions
  <1>2. Watched(w) /\ w.content = content /\ w.second = TRUE /\ w.asked = (w.m \in defines')
    BY <1>1 DEF Watches
  <1>3. ~Has(OUTPUT, w.l) /\ ~Has(OUTPUT, w.t)
    <2>1. ~Has(OUTPUT, w.l)
      BY <1>1, <1>2 DEF Left
    <2> QED
      BY <1>1, <1>2, <2>1, FirstPass
  <1> DEFINE S == {x \in WrittenLines : Unwatched(w, x)}
  <1>4. ASSUME NEW i \in DOMAIN OUTPUT, OUTPUT[i].op = "text" PROVE OUTPUT[i] \in S
    <2>1. OUTPUT[i] \in WrittenLines
      BY LenProperties, ElementOfSeq DEF TypedInv, TypedText
    <2>2. OUTPUT[i].arg \notin {w.l, w.t}
      BY <1>3, <1>4 DEF Has
    <2> QED
      BY <2>1, <2>2 DEF Unwatched
  <1>5. S \subseteq WrittenLines /\ \A x \in S \cup RuntimeLines : Unwatched(w, x)
    BY DEF RuntimeLines, Unwatched
  <1> HIDE DEF S
  <1>6. PICK lines \in Seq(WrittenLines) :
           Opened(Main, lines) /\ \A i \in DOMAIN lines : lines[i] \in S \cup RuntimeLines
    BY <1>4, <1>5, LinesAre
  <1>7. PICK e, c : e = [file |-> Main, rest |-> lines] /\ c = Construct("file", FALSE, <<>>)
    OBVIOUS
  <1>8. filestack' = <<e>> /\ constructs' = <<c>> /\ e.file = Main /\ e.rest = lines
    BY <1>6, <1>7 DEF Opened
  <1>9. e \in Frames
    <2>1. Main \in AnyFile
      BY PreprocessorAssumption DEF AnyFile
    <2> QED
      BY <1>7, <2>1 DEF Frames
  <1>10. c \in Constructs
    BY <1>7, ConstructTyped, EmptySeq DEF Kinds
  <1>11. PICK fs, cs : fs = <<e>> /\ cs = <<c>>
    OBVIOUS
  <1>12. FrameRead(w, fs, 1)
    <2>1. fs[1].rest = lines /\ Given(w, 1)
      BY <1>2, <1>8, <1>11 DEF Given
    <2> QED
      BY <1>5, <1>6, <2>1 DEF FrameRead
  <1>13. StackRead(w, <<1>>, fs, cs, <<>>, TRUE)
    BY <1>2, <1>7, <1>8, <1>9, <1>10, <1>11, <1>12, StartRead
  <1>14. IFDEFS = <<>> /\ enabled = TRUE
    BY <1>1 DEF TypedInv, IInv, Shape
  <1>15. StackRead(w, <<1>>, filestack', constructs', IFDEFS', enabled')
    BY <1>1, <1>8, <1>11, <1>13, <1>14
  <1>16. StackNow(w)'
    BY <1>15 DEF StackNow
  <1>17. Fine(w, OUTPUT')
    BY <1>1, FineNone
  <1> QED
    BY <1>1, <1>2, <1>16, <1>17 DEF WatchInv
-----------------------------------------------------------------------------
LEMMA AssembleWatch ==
  ASSUME NEW w, WatchInv(w), Assemble
  PROVE  WatchInv(w)'
  <1> SUFFICES ASSUME Watches(w)', Left(w)', ~has_errors' PROVE WatchInv(w)'
    BY DEF WatchInv
  <1>1. /\ phase = "asm" /\ phase' \in {"built", "failed"} /\ (phase' = "failed" => has_errors') /\ ~has_errors
        /\ UNCHANGED <<content, OUTPUT, defines, input_>>
    BY DEF Assemble
  <1>2. phase' = "built"
    BY <1>1
  <1>3. Watches(w) /\ Left(w) /\ w.second
    <2>1. Watched(w) /\ w.content = content' /\ w.second = (phase' \in {"asm", "built"})
          /\ w.asked = (w.m \in defines')
      BY DEF Watches
    <2>2. (phase' \in {"asm", "built"}) = TRUE /\ (phase \in {"asm", "built"}) = TRUE
      BY <1>1, <1>2
    <2>3. w.second = (phase \in {"asm", "built"}) /\ w.second = TRUE
      BY <2>1, <2>2, Zenon
    <2>4. Watches(w)
      BY <1>1, <2>1, <2>3 DEF Watches
    <2> QED
      BY <1>1, <2>3, <2>4 DEF Left
  <1>4. Fine(w, OUTPUT)
    BY <1>1, <1>3 DEF WatchInv
  <1>5. Has(OUTPUT, w.t) <=> Has(OUTPUT, w.l) /\ w.asked
    BY <1>3, <1>4 DEF Fine
  <1>6. Has(OUTPUT', w.t) <=> Has(OUTPUT', w.l) /\ w.asked
    BY <1>1, <1>5
  <1> QED
    BY <1>2, <1>6 DEF WatchInv

\* Nothing is read once the program is built or the build has failed.
Ended == phase \in {"built", "failed"} => Idle /\ (phase = "built" => ~has_errors)

ConfiguredInv == TypedInv /\ Ended /\ RuntimeInv /\ \A w : WatchInv(w)

LEMMA ConfiguredInit == Init => ConfiguredInv
  <1> SUFFICES ASSUME Init PROVE ConfiguredInv
    OBVIOUS
  <1>1. phase = "start" /\ OUTPUT = <<>>
    BY DEF Init, PreprocessorInit
  <1>2. Ended /\ RuntimeInv /\ \A w : WatchInv(w)
    BY <1>1 DEF Ended, RuntimeInv, WatchInv
  <1> QED
    BY <1>2, TypedInit DEF ConfiguredInv

LEMMA ConfiguredNext == ConfiguredInv /\ [Next]_vars => ConfiguredInv'
  <1> SUFFICES ASSUME ConfiguredInv, [Next]_vars PROVE ConfiguredInv'
    OBVIOUS
  <1>1. TypedInv /\ Ended /\ RuntimeInv /\ (\A w : WatchInv(w)) /\ TypedInv'
    BY TypedNext DEF ConfiguredInv
  <1>2. CASE PreprocessLine /\ UNCHANGED <<phase, optimize, defines, input_, REQUIRES>>
    <2>1. UNCHANGED Driver
      BY <1>2 DEF Driver
    <2>2. filestack # <<>>
      BY <1>2 DEF PreprocessLine, Text, MacroCall, Define, Undef, ErrorMsg, PragmaOnce, IfHeader, Else, EndIf,
             UnexpectedDirective, Include, IncludeOnce, EndFile, EndInput, UnexpectedEnd, Reading, AtEnd
    <2>3. phase \in {"basic", "asm"}
      BY <1>1, <2>2 DEF TypedInv, TypedRest, IInv, Ended, Idle
    <2>4. RuntimeInv'
      BY <1>1, <1>2, <2>1, StepRuntime
    <2>5. ASSUME NEW w PROVE WatchInv(w)'
      BY <1>1, <1>2, <2>1, <2>3, StepWatch
    <2>6. Ended'
      BY <1>2, <2>3 DEF Ended
    <2> QED
      BY <1>1, <2>4, <2>5, <2>6 DEF ConfiguredInv
  <1>3. CASE Preprocess
    <2>1. phase' = "basic"
      BY <1>3 DEF Preprocess
    <2>2. ASSUME NEW w PROVE WatchInv(w)'
      BY <1>1, <1>3, PreprocessWatch
    <2>3. Ended' /\ RuntimeInv'
      BY <2>1 DEF Ended, RuntimeInv
    <2> QED
      BY <1>1, <2>2, <2>3 DEF ConfiguredInv
  <1>4. CASE Translate
    <2>1. phase' = "asm"
      BY <1>4 DEF Translate
    <2>2. ASSUME NEW w PROVE WatchInv(w)'
      BY <1>1, <1>4, TranslateWatch
    <2>3. Ended' /\ RuntimeInv'
      BY <1>1, <1>4, <2>1, TranslateRuntime DEF Ended
    <2> QED
      BY <1>1, <2>2, <2>3 DEF ConfiguredInv
  <1>5. CASE Assemble
    <2>1. /\ phase' \in {"built", "failed"} /\ (phase' = "built" => ~has_errors')
          /\ Idle /\ filestack' = filestack
      BY <1>5 DEF Assemble, reading
    <2>2. ASSUME NEW w PROVE WatchInv(w)'
      BY <1>1, <1>5, AssembleWatch
    <2>3. Ended' /\ RuntimeInv'
      BY <2>1 DEF Ended, RuntimeInv, Idle
    <2> QED
      BY <1>1, <2>2, <2>3 DEF ConfiguredInv
  <1>6. CASE ExitWithErrors
    <2>1. /\ phase' = "failed" /\ has_errors' = has_errors /\ has_errors
          /\ Idle /\ filestack' = filestack
      BY <1>6 DEF ExitWithErrors, ppvars, reading
    <2>2. ASSUME NEW w PROVE WatchInv(w)'
      BY <2>1 DEF WatchInv
    <2>3. Ended' /\ RuntimeInv'
      BY <2>1 DEF Ended, RuntimeInv, Idle
    <2> QED
      BY <1>1, <2>2, <2>3 DEF ConfiguredInv
  <1>7. CASE UNCHANGED vars
    <2>1. UNCHANGED <<content, filestack, constructs, CURRENT_FILE, CURRENT_DIR, IFDEFS, enabled,
                      ID_TABLE, OUTPUT, has_errors, phase, defines, input_>>
      BY <1>7 DEF vars, ppvars, reading, files, conditions
    <2>2. ASSUME NEW w PROVE WatchInv(w)'
      BY <1>1, <2>1 DEF WatchInv, Watches, Left, StackNow
    <2>3. Ended' /\ RuntimeInv'
      BY <1>1, <2>1 DEF Ended, RuntimeInv, RuntimeRead, Idle
    <2> QED
      BY <1>1, <2>2, <2>3 DEF ConfiguredInv
  <1> QED
    BY <1>2, <1>3, <1>4, <1>5, <1>6, <1>7 DEF Next

LEMMA TextsHas == ASSUME NEW out, NEW a PROVE a \in Texts(out) <=> Has(out, a)
  BY DEF Texts, Has

LEMMA ConfiguredIsAsAsked == ConfiguredInv => ConfiguredAsAsked
  <1> SUFFICES ASSUME ConfiguredInv, phase = "built", NEW g \in Guarded,
                      g[1] \in Texts(OUTPUT), g[1] \notin Texts(input_)
               PROVE  (g[3] \in Texts(OUTPUT)) = (g[2] \in defines)
    BY DEF ConfiguredAsAsked
  <1>1. content \in Contents /\ ~has_errors
    BY DEF ConfiguredInv, Ended, TypedInv, TypedText
  <1>2. PICK f \in Runtime :
          /\ \E p, r, q \in DOMAIN content[f] : Guards(content[f], g[1], g[2], g[3], p, r, q)
          /\ \A h \in File \ {f} : \A x \in Range(content[h]) : x.op = "text" => x.arg \notin {g[1], g[3]}
          /\ \A h \in Runtime : \A x \in Range(content[h]) : x.op \in {"define", "undef"} => x.arg # g[2]
    BY <1>1, RuntimeAssumption
  <1>3. PICK p, r, q \in DOMAIN content[f] : Guards(content[f], g[1], g[2], g[3], p, r, q)
    BY <1>2
  <1> DEFINE w == [content |-> content, second |-> TRUE, asked |-> g[2] \in defines, file |-> f,
                   l |-> g[1], m |-> g[2], t |-> g[3], p |-> p, r |-> r, q |-> q]
  <1>4. /\ w.content = content /\ w.second = TRUE /\ w.asked = (g[2] \in defines) /\ w.file = f
        /\ w.l = g[1] /\ w.m = g[2] /\ w.t = g[3] /\ w.p = p /\ w.r = r /\ w.q = q
    OBVIOUS
  <1>5. WatchInv(w)
    BY DEF ConfiguredInv
  <1> HIDE DEF w
  <1>6. Watched(w)
    <2>1. (g[2] \in defines) \in BOOLEAN /\ TRUE \in BOOLEAN
      OBVIOUS
    <2>2. w.second \in BOOLEAN /\ w.asked \in BOOLEAN
      BY <1>4, <2>1, Zenon
    <2> QED
      BY <1>1, <1>2, <1>3, <1>4, <2>2 DEF Watched
  <1>7. Watches(w)
    <2>1. (phase \in {"asm", "built"}) = TRUE
      OBVIOUS
    <2>2. w.second = (phase \in {"asm", "built"}) /\ w.asked = (w.m \in defines)
      BY <1>4, <2>1, Zenon
    <2> QED
      BY <1>4, <1>6, <2>2 DEF Watches
  <1>8. Left(w) /\ Has(OUTPUT, w.l)
    BY <1>4, TextsHas DEF Left
  <1>9. Has(OUTPUT, w.t) <=> w.asked
    BY <1>1, <1>5, <1>7, <1>8 DEF WatchInv
  <1>10. g[3] \in Texts(OUTPUT) <=> g[2] \in defines
    BY <1>4, <1>9, TextsHas
  <1> QED
    BY <1>10

\* A runtime file is assembled as the options ask, those set by a #pragma of the
\* program included, whatever files there are and however they include each
\* other (args_config.py set_option_defines, zxbc.py main, zxbpp.py p_ifdef).
THEOREM CompilerConfiguresAsAsked == Spec => []ConfiguredAsAsked
  <1>1. Init => ConfiguredInv
    BY ConfiguredInit
  <1>2. ConfiguredInv /\ [Next]_vars => ConfiguredInv'
    BY ConfiguredNext
  <1>3. ConfiguredInv => ConfiguredAsAsked
    BY ConfiguredIsAsAsked
  <1> QED
    BY <1>1, <1>2, <1>3, PTL DEF Spec
-----------------------------------------------------------------------------
\* RequiredOnce.  The line that declares a label is in one place: in what is left
\* of a file, in the text of a construct whose lines are enabled, or nowhere yet.
TextLine(x, a) == x.op = "text" /\ x.arg = a
One(s, a) == \E i \in DOMAIN s : \A j \in DOMAIN s : TextLine(s[j], a) <=> j = i

\* vs[i] is the value of enabled directly in construct i, pos[i] the number of
\* conditionals open there: the text of a part goes where the part is enabled.
Levels(vs, pos, cs, ifd, en) ==
  /\ vs \in Seq(BOOLEAN) /\ pos \in Seq(Nat) /\ Len(vs) = Len(cs) /\ Len(pos) = Len(cs) /\ Len(cs) > 0
  /\ cs[1].kind = "file" /\ pos[1] = 0
  /\ vs[Len(cs)] = en /\ pos[Len(cs)] = Len(ifd)
  /\ \A i, j \in 1 .. Len(cs) : i <= j => pos[i] <= pos[j]
  /\ \A i \in 2 .. Len(cs) :
       /\ vs[i] = TRUE => vs[i - 1] = TRUE
       /\ cs[i].kind = "file" => pos[i] = pos[i - 1]
       /\ cs[i].kind # "file" => pos[i] = pos[i - 1] + 1 /\ ifd[pos[i]] = vs[i - 1]
  /\ \A i \in 1 .. Len(cs) :
       /\ cs[i].kind = "file" => vs[i] = TRUE
       /\ cs[i].kind = "if" => cs[i].hdr = vs[i]

\* base[k] is the construct of the k-th file being read.
Bases(base, K, cs) ==
  /\ base \in Seq(Nat) /\ Len(base) = K /\ K > 0
  /\ \A k \in 1 .. K : base[k] \in 1 .. Len(cs)
  /\ \A k \in 1 .. K - 1 : base[k] < base[k + 1]
  /\ \A i \in 1 .. Len(cs) : cs[i].kind = "file" <=> \E k \in 1 .. K : base[k] = i

\* The parts of conditionals that are open in the k-th file.
Parts(base, n, k) == (IF k = Len(base) THEN n ELSE base[k + 1] - 1) - base[k]

\* Line j of r is read with no conditional open of the d there are now and those
\* in between.
Turn(x) == IF x.op = "if" THEN 1 ELSE IF x.op = "endif" THEN -1 ELSE 0
Apart(r, d, j) ==
  \E dep : dep[1] = d /\ dep[j] = 0 /\ \A i \in 1 .. j - 1 : dep[i + 1] = dep[i] + Turn(r[i])

\* The line that declares l is one of r, and a line of r includes f.
Comes(l, r, d) == \E j \in DOMAIN r : Apart(r, d, j) /\ \A i \in DOMAIN r : TextLine(r[i], l) <=> i = j
Reaches(f, r, d) == \E j \in DOMAIN r : Apart(r, d, j) /\ Asks(r[j], f)

Quiet(l, cs) == \A i \in DOMAIN cs : ~Has(cs[i].prog, l) /\ ~Has(cs[i].kept, l)

\* The line has gone to one construct, where its text is not dropped.
Held(l, vs, cs) ==
  \E i \in DOMAIN cs :
    /\ \A j \in DOMAIN cs : j # i => ~Has(cs[j].prog, l) /\ ~Has(cs[j].kept, l)
    /\ \/ One(cs[i].prog, l) /\ ~Has(cs[i].kept, l) /\ vs[i] = TRUE
       \/ One(cs[i].kept, l) /\ ~Has(cs[i].prog, l) /\ cs[i].kind = "else" /\ vs[i - 1] = TRUE

NoRest(l, fs) == \A k \in DOMAIN fs : ~Has(fs[k].rest, l)

Coming(l, base, fs, n) ==
  \E k \in DOMAIN fs :
    /\ Comes(l, fs[k].rest, Parts(base, n, k))
    /\ \A h \in DOMAIN fs : h # k => ~Has(fs[h].rest, l)

Awaits(f, base, fs, n) == \E k \in DOMAIN fs : Reaches(f, fs[k].rest, Parts(base, n, k))
-----------------------------------------------------------------------------
LEMMA OneHas ==
  ASSUME NEW s, NEW a, One(s, a)
  PROVE  Has(s, a)
  BY DEF One, Has, TextLine

LEMMA OneOnly ==
  ASSUME NEW x, NEW a, TextLine(x, a)
  PROVE  One(<<x>>, a)
  <1>1. DOMAIN <<x>> = {1} /\ <<x>>[1] = x
    OBVIOUS
  <1> QED
    BY <1>1 DEF One

\* Of two texts put together, one has the line and the other has not.
LEMMA OneMore ==
  ASSUME NEW S, NEW x \in Seq(S), NEW y \in Seq(S), NEW a,
         (One(x, a) /\ ~Has(y, a)) \/ (~Has(x, a) /\ One(y, a))
  PROVE  One(x \o y, a)
  <1> DEFINE z == x \o y
  <1>1. /\ z \in Seq(S) /\ Len(z) = Len(x) + Len(y) /\ Len(x) \in Nat /\ Len(y) \in Nat
        /\ \A i \in 1 .. Len(x) + Len(y) : z[i] = IF i <= Len(x) THEN x[i] ELSE y[i - Len(x)]
        /\ DOMAIN x = 1 .. Len(x) /\ DOMAIN y = 1 .. Len(y) /\ DOMAIN z = 1 .. Len(x) + Len(y)
    BY ConcatProperties, LenProperties
  <1> HIDE DEF z
  <1>2. /\ ~Has(x, a) => \A i \in DOMAIN x : ~TextLine(x[i], a)
        /\ ~Has(y, a) => \A i \in DOMAIN y : ~TextLine(y[i], a)
    BY DEF Has, TextLine
  <1>3. \A j \in DOMAIN z : /\ j <= Len(x) => j \in DOMAIN x /\ z[j] = x[j]
                            /\ ~(j <= Len(x)) => j - Len(x) \in DOMAIN y /\ z[j] = y[j - Len(x)]
    BY <1>1
  <1>4. CASE One(x, a) /\ ~Has(y, a)
    <2>1. PICK i \in DOMAIN x : \A j \in DOMAIN x : TextLine(x[j], a) <=> j = i
      BY <1>4 DEF One
    <2>2. i \in DOMAIN z /\ i <= Len(x)
      BY <1>1
    <2>3. ASSUME NEW j \in DOMAIN z PROVE TextLine(z[j], a) <=> j = i
      BY <1>2, <1>3, <1>4, <2>1, <2>2
    <2> QED
      BY <2>2, <2>3 DEF One, z
  <1>5. CASE ~Has(x, a) /\ One(y, a)
    <2>1. PICK i \in DOMAIN y : \A j \in DOMAIN y : TextLine(y[j], a) <=> j = i
      BY <1>5 DEF One
    <2>2. i + Len(x) \in DOMAIN z /\ ~(i + Len(x) <= Len(x)) /\ i \in Nat
      BY <1>1
    <2>3. ASSUME NEW j \in DOMAIN z PROVE TextLine(z[j], a) <=> j = i + Len(x)
      <3>1. CASE j <= Len(x)
        BY <1>2, <1>3, <1>5, <2>2, <3>1
      <3>2. CASE ~(j <= Len(x))
        <4>1. TextLine(z[j], a) <=> j - Len(x) = i
          BY <1>3, <2>1, <3>2
        <4>2. j \in Nat /\ Len(x) \in Nat /\ i \in Nat
          BY <1>1, <2>2
        <4> QED
          BY ONLY <4>1, <4>2
      <3> QED
        BY <3>1, <3>2
    <2> QED
      BY <2>2, <2>3 DEF One, z
  <1> QED
    BY <1>4, <1>5

LEMMA OneCount ==
  ASSUME NEW S, NEW s \in Seq(S), NEW a, One(s, a)
  PROVE  Count(s, a) = 1
  <1>1. PICK i \in DOMAIN s : \A j \in DOMAIN s : TextLine(s[j], a) <=> j = i
    BY DEF One
  <1>2. {j \in DOMAIN s : s[j].op = "text" /\ s[j].arg = a} = {i}
    BY <1>1 DEF TextLine
  <1> QED
    BY <1>2, FS_Singleton DEF Count

LEMMA TailHas ==
  ASSUME NEW S, NEW s \in Seq(S), s # <<>>, NEW a
  PROVE  Has(s, a) <=> TextLine(Head(s), a) \/ Has(Tail(s), a)
  <1>1. /\ Len(s) \in Nat /\ Len(s) > 0 /\ DOMAIN s = 1 .. Len(s) /\ Head(s) = s[1]
        /\ DOMAIN Tail(s) = 1 .. Len(s) - 1 /\ \A i \in 1 .. Len(s) - 1 : Tail(s)[i] = s[i + 1]
    BY EndTyped, HeadTailProperties, LenProperties
  <1>2. ASSUME Has(s, a) PROVE TextLine(Head(s), a) \/ Has(Tail(s), a)
    <2>1. PICK i \in DOMAIN s : TextLine(s[i], a)
      BY <1>2 DEF Has, TextLine
    <2>2. CASE i = 1
      BY <1>1, <2>1, <2>2
    <2>3. CASE i # 1
      <3>1. i - 1 \in 1 .. Len(s) - 1 /\ (i - 1) + 1 = i
        BY <1>1, <2>3
      <3>2. i - 1 \in DOMAIN Tail(s) /\ Tail(s)[i - 1] = s[i]
        BY <1>1, <3>1
      <3> QED
        BY <2>1, <3>2 DEF Has, TextLine
    <2> QED
      BY <2>2, <2>3
  <1>3. ASSUME TextLine(Head(s), a) PROVE Has(s, a)
    <2>1. 1 \in DOMAIN s
      BY <1>1
    <2> QED
      BY <1>1, <1>3, <2>1 DEF Has, TextLine
  <1>4. ASSUME Has(Tail(s), a) PROVE Has(s, a)
    <2>1. PICK i \in DOMAIN Tail(s) : TextLine(Tail(s)[i], a)
      BY <1>4 DEF Has, TextLine
    <2>2. i + 1 \in DOMAIN s /\ Tail(s)[i] = s[i + 1]
      BY <1>1
    <2> QED
      BY <2>1, <2>2 DEF Has, TextLine
  <1> QED
    BY <1>2, <1>3, <1>4
-----------------------------------------------------------------------------
LEMMA ComesHas ==
  ASSUME NEW l, NEW r, NEW d, Comes(l, r, d)
  PROVE  Has(r, l)
  BY DEF Comes, Has, TextLine

LEMMA ApartNext ==
  ASSUME NEW S, NEW r \in Seq(S), r # <<>>, NEW d, NEW j \in DOMAIN r, Apart(r, d, j)
  PROVE  IF j = 1 THEN d = 0 ELSE j - 1 \in DOMAIN Tail(r) /\ Apart(Tail(r), d + Turn(Head(r)), j - 1)
  <1>1. PICK dep : dep[1] = d /\ dep[j] = 0 /\ \A i \in 1 .. j - 1 : dep[i + 1] = dep[i] + Turn(r[i])
    BY DEF Apart
  <1>2. PICK t : t = Tail(r)
    OBVIOUS
  <1>3. PICK m : m = Len(r)
    OBVIOUS
  <1>4. /\ m \in Nat /\ m > 0 /\ DOMAIN r = 1 .. m /\ Head(r) = r[1]
        /\ DOMAIN t = 1 .. m - 1 /\ \A i \in 1 .. m - 1 : t[i] = r[i + 1]
    BY <1>2, <1>3, EndTyped, HeadTailProperties, LenProperties
  <1>5. CASE j = 1
    BY <1>1, <1>5
  <1>6. CASE j # 1
    <2>1. j - 1 \in DOMAIN t /\ (j - 1) + 1 = j /\ j \in Nat /\ j > 1
      BY <1>4, <1>6
    <2>2. PICK e : e = [i \in 1 .. j - 1 |-> dep[i + 1]]
      OBVIOUS
    <2>3. \A i \in 1 .. j - 1 : e[i] = dep[i + 1]
      BY <2>2
    <2>4. e[1] = d + Turn(Head(r))
      <3>1. 1 \in 1 .. j - 1
        BY <2>1
      <3>2. dep[1 + 1] = dep[1] + Turn(r[1]) /\ e[1] = dep[1 + 1]
        BY <1>1, <2>3, <3>1
      <3> QED
        BY <1>1, <1>4, <3>2
    <2>5. e[j - 1] = 0
      <3>1. j - 1 \in 1 .. j - 1
        BY <2>1
      <3> QED
        BY <1>1, <2>1, <2>3, <3>1
    <2>6. ASSUME NEW i \in 1 .. (j - 1) - 1 PROVE e[i + 1] = e[i] + Turn(t[i])
      <3>1. i \in 1 .. j - 1 /\ i + 1 \in 1 .. j - 1 /\ i \in 1 .. m - 1
        BY <1>4, <2>1
      <3>2. e[i] = dep[i + 1] /\ e[i + 1] = dep[(i + 1) + 1] /\ t[i] = r[i + 1]
        BY <1>4, <2>3, <3>1
      <3>3. dep[(i + 1) + 1] = dep[i + 1] + Turn(r[i + 1])
        BY <1>1, <3>1
      <3> QED
        BY <3>2, <3>3
    <2>7. Apart(t, d + Turn(Head(r)), j - 1)
      BY <2>4, <2>5, <2>6 DEF Apart
    <2> QED
      BY <1>2, <1>6, <2>1, <2>7
  <1> QED
    BY <1>5, <1>6

\* The line comes next, with no conditional open, or is still to come.
LEMMA ComesNext ==
  ASSUME NEW S, NEW r \in Seq(S), r # <<>>, NEW l, NEW d, Comes(l, r, d)
  PROVE  IF TextLine(Head(r), l) THEN d = 0 /\ ~Has(Tail(r), l)
                                 ELSE Comes(l, Tail(r), d + Turn(Head(r)))
  <1>1. PICK j \in DOMAIN r : Apart(r, d, j) /\ \A i \in DOMAIN r : TextLine(r[i], l) <=> i = j
    BY DEF Comes
  <1>2. PICK t : t = Tail(r)
    OBVIOUS
  <1>3. PICK m : m = Len(r)
    OBVIOUS
  <1>4. /\ m \in Nat /\ m > 0 /\ DOMAIN r = 1 .. m /\ Head(r) = r[1]
        /\ DOMAIN t = 1 .. m - 1 /\ \A i \in 1 .. m - 1 : t[i] = r[i + 1]
    BY <1>2, <1>3, EndTyped, HeadTailProperties, LenProperties
  <1>5. 1 \in DOMAIN r /\ (TextLine(Head(r), l) <=> j = 1)
    BY <1>1, <1>4
  <1>6. \A i \in DOMAIN t : TextLine(t[i], l) <=> i + 1 = j
    BY <1>1, <1>4
  <1>7. IF j = 1 THEN d = 0 ELSE j - 1 \in DOMAIN t /\ Apart(t, d + Turn(Head(r)), j - 1)
    BY <1>1, <1>2, ApartNext
  <1>8. CASE j = 1
    <2>1. \A i \in DOMAIN t : i + 1 # 1
      BY <1>4
    <2>2. ~Has(t, l)
      BY <1>6, <1>8, <2>1 DEF Has, TextLine
    <2> QED
      BY <1>2, <1>5, <1>7, <1>8, <2>2
  <1>9. CASE j # 1
    <2>1. \A i \in DOMAIN t : i + 1 = j <=> i = j - 1
      BY <1>4
    <2>2. \A i \in DOMAIN t : TextLine(t[i], l) <=> i = j - 1
      BY <1>6, <2>1
    <2>3. Comes(l, t, d + Turn(Head(r)))
      BY <1>7, <1>9, <2>2 DEF Comes
    <2> QED
      BY <1>2, <1>5, <1>9, <2>3
  <1> QED
    BY <1>8, <1>9

LEMMA ReachesNext ==
  ASSUME NEW S, NEW r \in Seq(S), r # <<>>, NEW f, NEW d, Reaches(f, r, d)
  PROVE  (Asks(Head(r), f) /\ d = 0) \/ Reaches(f, Tail(r), d + Turn(Head(r)))
  <1>1. PICK j \in DOMAIN r : Apart(r, d, j) /\ Asks(r[j], f)
    BY DEF Reaches
  <1>2. PICK t : t = Tail(r)
    OBVIOUS
  <1>3. IF j = 1 THEN d = 0 ELSE j - 1 \in DOMAIN t /\ Apart(t, d + Turn(Head(r)), j - 1)
    BY <1>1, <1>2, ApartNext
  <1>4. Head(r) = r[1]
    OBVIOUS
  <1>5. CASE j # 1
    <2>1. Len(r) \in Nat /\ DOMAIN t = 1 .. Len(r) - 1 /\ \A i \in 1 .. Len(r) - 1 : t[i] = r[i + 1]
      BY <1>2, HeadTailProperties, LenProperties
    <2>2. t[j - 1] = r[j]
      <3>1. (j - 1) + 1 = j
        BY LenProperties
      <3> QED
        BY <1>3, <1>5, <2>1, <3>1
    <2>3. Reaches(f, t, d + Turn(Head(r)))
      BY <1>1, <1>3, <1>5, <2>2 DEF Reaches
    <2> QED
      BY <1>2, <2>3
  <1> QED
    BY <1>1, <1>3, <1>4, <1>5

LEMMA ApartIs ==
  ASSUME NEW S, NEW ls \in Seq(S), NEW q \in DOMAIN ls, Depth(ls, q) = 0
  PROVE  Apart(ls, 0, q)
  <1> DEFINE If(i) == {j \in 1 .. i - 1 : ls[j].op = "if"}
             End(i) == {j \in 1 .. i - 1 : ls[j].op = "endif"}
             dep == [i \in 1 .. q |-> Depth(ls, i)]
  <1>1. q \in Nat /\ q > 0
    BY LenProperties
  <1>2. Depth(ls, q) = 0
    OBVIOUS
  <1>3. ASSUME NEW i \in Nat
        PROVE  IsFiniteSet(If(i)) /\ IsFiniteSet(End(i))
               /\ Cardinality(If(i)) \in Nat /\ Cardinality(End(i)) \in Nat
    <2>1. IsFiniteSet(1 .. i - 1)
      BY FS_Interval
    <2>2. If(i) \subseteq 1 .. i - 1 /\ End(i) \subseteq 1 .. i - 1
      OBVIOUS
    <2> HIDE DEF If, End
    <2> QED
      BY <2>1, <2>2, FS_Subset, FS_CardinalityType
  <1>4. ASSUME NEW i \in Nat, i >= 1 PROVE Depth(ls, i + 1) = Depth(ls, i) + Turn(ls[i])
    <2>1. If(i + 1) = IF ls[i].op = "if" THEN If(i) \cup {i} ELSE If(i)
      BY <1>4
    <2>2. End(i + 1) = IF ls[i].op = "endif" THEN End(i) \cup {i} ELSE End(i)
      BY <1>4
    <2>3. i \notin If(i) /\ i \notin End(i)
      BY <1>4
    <2>4. /\ Depth(ls, i) = Cardinality(If(i)) - Cardinality(End(i))
          /\ Depth(ls, i + 1) = Cardinality(If(i + 1)) - Cardinality(End(i + 1))
      BY DEF Depth
    <2>5. PICK a, b, c, e : a = If(i) /\ b = If(i + 1) /\ c = End(i) /\ e = End(i + 1)
      OBVIOUS
    <2>6. IsFiniteSet(a) /\ IsFiniteSet(c) /\ Cardinality(a) \in Nat /\ Cardinality(c) \in Nat
      BY <1>3, <2>5
    <2> HIDE DEF If, End
    <2>7. /\ b = (IF ls[i].op = "if" THEN a \cup {i} ELSE a) /\ i \notin a
          /\ e = (IF ls[i].op = "endif" THEN c \cup {i} ELSE c) /\ i \notin c
      BY <2>1, <2>2, <2>3, <2>5
    <2>8. Cardinality(b) = Cardinality(a) + (IF ls[i].op = "if" THEN 1 ELSE 0)
      <3>1. CASE ls[i].op = "if"
        BY <2>6, <2>7, <3>1, FS_AddElement
      <3>2. CASE ls[i].op # "if"
        BY <2>6, <2>7, <3>2
      <3> QED
        BY <3>1, <3>2
    <2>9. Cardinality(e) = Cardinality(c) + (IF ls[i].op = "endif" THEN 1 ELSE 0)
      <3>1. CASE ls[i].op = "endif"
        BY <2>6, <2>7, <3>1, FS_AddElement
      <3>2. CASE ls[i].op # "endif"
        BY <2>6, <2>7, <3>2
      <3> QED
        BY <3>1, <3>2
    <2>10. /\ Depth(ls, i) = Cardinality(a) - Cardinality(c)
           /\ Depth(ls, i + 1) = Cardinality(b) - Cardinality(e)
      BY <2>4, <2>5
    <2> QED
      BY <2>6, <2>8, <2>9, <2>10 DEF Turn
  <1>5. Depth(ls, 1) = 0
    <2>1. If(1) = {} /\ End(1) = {}
      OBVIOUS
    <2> QED
      BY <2>1, FS_EmptySet DEF Depth
  <1>6. \A i \in 1 .. q : dep[i] = Depth(ls, i)
    OBVIOUS
  <1> HIDE DEF dep
  <1>7. dep[1] = 0 /\ dep[q] = 0
    <2>1. 1 \in 1 .. q /\ q \in 1 .. q
      BY <1>1
    <2> QED
      BY <1>2, <1>5, <1>6, <2>1
  <1>8. ASSUME NEW i \in 1 .. q - 1 PROVE dep[i + 1] = dep[i] + Turn(ls[i])
    <2>1. i \in Nat /\ i >= 1 /\ i \in 1 .. q /\ i + 1 \in 1 .. q
      BY <1>1
    <2> QED
      BY <1>4, <1>6, <2>1
  <1> QED
    BY <1>7, <1>8 DEF Apart

\* In the generated code there are no conditionals.
LEMMA ApartGiven ==
  ASSUME NEW S, NEW r \in Seq(S), \A i \in DOMAIN r : r[i].op \notin {"if", "endif"}, NEW j \in DOMAIN r
  PROVE  Apart(r, 0, j)
  <1>1. DOMAIN r = 1 .. Len(r) /\ Len(r) \in Nat /\ j \in Nat /\ j > 0
    BY LenProperties
  <1>2. PICK dep : dep = [i \in 1 .. j |-> 0]
    OBVIOUS
  <1>3. dep[1] = 0 /\ dep[j] = 0
    BY <1>1, <1>2
  <1>4. ASSUME NEW i \in 1 .. j - 1 PROVE dep[i + 1] = dep[i] + Turn(r[i])
    <2>1. i \in 1 .. j /\ i + 1 \in 1 .. j /\ i \in DOMAIN r
      BY <1>1
    <2>2. Turn(r[i]) = 0
      BY <2>1 DEF Turn
    <2> QED
      BY <1>2, <2>1, <2>2
  <1> QED
    BY <1>3, <1>4 DEF Apart

LEMMA ComesGiven ==
  ASSUME NEW S, NEW r \in Seq(S), \A i \in DOMAIN r : r[i].op \notin {"if", "endif"}, NEW l, One(r, l)
  PROVE  Comes(l, r, 0)
  BY ApartGiven DEF Comes, One
-----------------------------------------------------------------------------
LEMMA LevelsIs ==
  ASSUME NEW vs, NEW pos, NEW cs \in Seq(Constructs), NEW ifd \in Seq(BOOLEAN), NEW en, Levels(vs, pos, cs, ifd, en)
  PROVE  /\ Len(cs) \in Nat /\ Len(cs) > 0 /\ DOMAIN cs = 1 .. Len(cs) /\ cs # <<>>
         /\ Len(ifd) \in Nat /\ DOMAIN vs = 1 .. Len(cs) /\ DOMAIN pos = 1 .. Len(cs)
         /\ \A i \in 1 .. Len(cs) : vs[i] \in BOOLEAN /\ pos[i] \in Nat /\ cs[i] \in Constructs
         /\ vs # <<>> /\ pos # <<>>
  <1>1. vs \in Seq(BOOLEAN) /\ pos \in Seq(Nat) /\ Len(vs) = Len(cs) /\ Len(pos) = Len(cs) /\ Len(cs) > 0
    BY DEF Levels
  <1>2. Len(cs) \in Nat /\ DOMAIN cs = 1 .. Len(cs) /\ Len(ifd) \in Nat
        /\ DOMAIN vs = 1 .. Len(cs) /\ DOMAIN pos = 1 .. Len(cs)
    BY <1>1, LenProperties
  <1>3. \A i \in 1 .. Len(cs) : vs[i] \in BOOLEAN /\ pos[i] \in Nat /\ cs[i] \in Constructs
    BY <1>1, ElementOfSeq
  <1>4. cs # <<>> /\ vs # <<>> /\ pos # <<>>
    BY <1>1, EmptySeq
  <1> QED
    BY <1>1, <1>2, <1>3, <1>4

\* More text in a construct, or another part in the place of one.
LEMMA LevelsSame ==
  ASSUME NEW vs, NEW pos, NEW cs, NEW ifd, NEW en, Levels(vs, pos, cs, ifd, en),
         NEW ds, Len(ds) = Len(cs), Len(cs) \in Nat,
         \A i \in 1 .. Len(cs) : ds[i].kind = cs[i].kind /\ ds[i].hdr = cs[i].hdr
  PROVE  Levels(vs, pos, ds, ifd, en)
  <1>1. 1 \in 1 .. Len(cs) /\ \A i \in 2 .. Len(cs) : i \in 1 .. Len(cs)
    BY DEF Levels
  <1>2. ds[1].kind = "file"
    BY <1>1 DEF Levels
  <1>3. ASSUME NEW i \in 2 .. Len(ds)
        PROVE  /\ vs[i] = TRUE => vs[i - 1] = TRUE
               /\ ds[i].kind = "file" => pos[i] = pos[i - 1]
               /\ ds[i].kind # "file" => pos[i] = pos[i - 1] + 1 /\ ifd[pos[i]] = vs[i - 1]
    BY <1>1 DEF Levels
  <1>4. ASSUME NEW i \in 1 .. Len(ds)
        PROVE  /\ ds[i].kind = "file" => vs[i] = TRUE
               /\ ds[i].kind = "if" => ds[i].hdr = vs[i]
    BY DEF Levels
  <1> QED
    BY <1>2, <1>3, <1>4 DEF Levels

\* A part is opened where lines are enabled or not, a file where they are.
LEMMA PushLevels ==
  ASSUME NEW vs, NEW pos, NEW cs \in Seq(Constructs), NEW ifd \in Seq(BOOLEAN), NEW en \in BOOLEAN,
         Levels(vs, pos, cs, ifd, en), NEW c \in Constructs, NEW h \in BOOLEAN, NEW jfd,
         h = TRUE => en = TRUE,
         IF c.kind = "file" THEN jfd = ifd /\ h = TRUE
                            ELSE jfd = Append(ifd, en) /\ c.hdr = h
  PROVE  Levels(Append(vs, h), Append(pos, Len(jfd)), Append(cs, c), jfd, h)
  <1> DEFINE us == Append(vs, h)
             qos == Append(pos, Len(jfd))
             ds == Append(cs, c)
  <1>1. PICK n : n = Len(cs)
    OBVIOUS
  <1>2. n \in Nat /\ n > 0 /\ Len(ifd) \in Nat /\ DOMAIN cs = 1 .. n
        /\ \A i \in 1 .. n : vs[i] \in BOOLEAN /\ pos[i] \in Nat
    BY <1>1, LevelsIs
  <1>3. /\ vs \in Seq(BOOLEAN) /\ pos \in Seq(Nat) /\ Len(vs) = n /\ Len(pos) = n
        /\ cs[1].kind = "file" /\ pos[1] = 0
        /\ vs[n] = en /\ pos[n] = Len(ifd)
        /\ \A i, j \in 1 .. n : i <= j => pos[i] <= pos[j]
    BY <1>1 DEF Levels
  <1>4. ASSUME NEW i \in 2 .. n
        PROVE  /\ vs[i] = TRUE => vs[i - 1] = TRUE
               /\ cs[i].kind = "file" => pos[i] = pos[i - 1]
               /\ cs[i].kind # "file" => pos[i] = pos[i - 1] + 1 /\ ifd[pos[i]] = vs[i - 1]
    BY <1>1 DEF Levels
  <1>5. ASSUME NEW i \in 1 .. n
        PROVE  /\ cs[i].kind = "file" => vs[i] = TRUE
               /\ cs[i].kind = "if" => cs[i].hdr = vs[i]
    BY <1>1 DEF Levels
  <1>6. /\ Len(jfd) \in Nat
        /\ Len(jfd) = IF c.kind = "file" THEN Len(ifd) ELSE Len(ifd) + 1
        /\ \A i \in 1 .. Len(ifd) : jfd[i] = ifd[i]
        /\ c.kind # "file" => jfd[Len(jfd)] = en
    <2>1. CASE c.kind = "file"
      BY <1>2, <2>1
    <2>2. CASE c.kind # "file"
      <3>1. jfd = Append(ifd, en)
        BY <2>2
      <3>2. /\ Len(jfd) = Len(ifd) + 1 /\ jfd[Len(ifd) + 1] = en
            /\ \A i \in 1 .. Len(ifd) : jfd[i] = ifd[i]
        BY ONLY <3>1, ifd \in Seq(BOOLEAN), en \in BOOLEAN, AppendProperties
      <3> QED
        BY ONLY <1>2, <2>2, <3>2
    <2> QED
      BY <2>1, <2>2
  <1>7. /\ us \in Seq(BOOLEAN) /\ Len(us) = n + 1 /\ us[n + 1] = h
        /\ \A i \in 1 .. n : us[i] = vs[i]
    BY <1>3, AppendProperties
  <1>8. /\ qos \in Seq(Nat) /\ Len(qos) = n + 1 /\ qos[n + 1] = Len(jfd)
        /\ \A i \in 1 .. n : qos[i] = pos[i]
    BY <1>3, <1>6, AppendProperties
  <1>9. /\ Len(ds) = n + 1 /\ ds[n + 1] = c
        /\ \A i \in 1 .. n : ds[i] = cs[i]
    BY <1>1, AppendProperties
  <1> HIDE DEF us, qos, ds
  <1>10. 1 \in 1 .. n /\ n \in 1 .. n /\ n + 1 > 0 /\ (n + 1) - 1 = n
    BY <1>2
  <1>11. ASSUME NEW i \in 2 .. n + 1
         PROVE  /\ us[i] = TRUE => us[i - 1] = TRUE
                /\ ds[i].kind = "file" => qos[i] = qos[i - 1]
                /\ ds[i].kind # "file" => qos[i] = qos[i - 1] + 1 /\ jfd[qos[i]] = us[i - 1]
    <2>1. CASE i = n + 1
      <3>1. i - 1 = n /\ us[i] = h /\ us[i - 1] = en /\ ds[i] = c /\ qos[i] = Len(jfd) /\ qos[i - 1] = Len(ifd)
        BY <1>3, <1>7, <1>8, <1>9, <1>10, <2>1
      <3> QED
        BY <1>6, <3>1
    <2>2. CASE i # n + 1
      <3>1. i \in 2 .. n /\ i \in 1 .. n /\ i - 1 \in 1 .. n
        BY <1>2, <2>2
      <3>2. us[i] = vs[i] /\ us[i - 1] = vs[i - 1] /\ ds[i] = cs[i] /\ qos[i] = pos[i] /\ qos[i - 1] = pos[i - 1]
        BY <1>7, <1>8, <1>9, <3>1
      <3>3. cs[i].kind # "file" => pos[i] \in 1 .. Len(ifd)
        <4>1. pos[i] <= Len(ifd) /\ pos[i] \in Nat /\ pos[i - 1] \in Nat
          <5>1. i <= n
            BY <3>1
          <5>2. pos[i] <= pos[n]
            BY <1>3, <1>10, <3>1, <5>1
          <5> QED
            BY <1>2, <1>3, <3>1, <5>2
        <4>2. cs[i].kind # "file" => pos[i] = pos[i - 1] + 1
          BY <1>4, <3>1
        <4> QED
          BY ONLY <4>1, <4>2, <1>2
      <3>4. /\ vs[i] = TRUE => vs[i - 1] = TRUE
            /\ cs[i].kind = "file" => pos[i] = pos[i - 1]
            /\ cs[i].kind # "file" => pos[i] = pos[i - 1] + 1 /\ ifd[pos[i]] = vs[i - 1]
        BY <1>4, <3>1
      <3>5. cs[i].kind # "file" => jfd[pos[i]] = ifd[pos[i]]
        BY <1>6, <3>3
      <3> QED
        BY ONLY <3>2, <3>4, <3>5
    <2> QED
      BY <2>1, <2>2
  <1>12. ASSUME NEW i \in 1 .. n + 1
         PROVE  /\ ds[i].kind = "file" => us[i] = TRUE
                /\ ds[i].kind = "if" => ds[i].hdr = us[i]
    <2>1. CASE i = n + 1
      BY <1>7, <1>9, <2>1
    <2>2. CASE i # n + 1
      <3>1. i \in 1 .. n
        BY <1>2, <2>2
      <3> QED
        BY <1>5, <1>7, <1>9, <3>1
    <2> QED
      BY <2>1, <2>2
  <1>13. ASSUME NEW i \in 1 .. n + 1, NEW j \in 1 .. n + 1, i <= j PROVE qos[i] <= qos[j]
    <2>1. CASE j = n + 1 /\ i = n + 1
      BY <1>6, <1>8, <2>1
    <2>2. CASE j = n + 1 /\ i # n + 1
      <3>1. i \in 1 .. n /\ i <= n
        BY <1>2, <2>2
      <3>2. pos[i] <= pos[n] /\ pos[i] \in Nat
        BY <1>2, <1>3, <1>10, <3>1
      <3>3. qos[i] = pos[i] /\ qos[j] = Len(jfd)
        BY <1>8, <2>2, <3>1
      <3> QED
        BY <1>2, <1>3, <1>6, <3>2, <3>3
    <2>3. CASE j # n + 1
      <3>1. i \in 1 .. n /\ j \in 1 .. n
        BY <1>2, <1>13, <2>3
      <3> QED
        BY <1>3, <1>8, <1>13, <3>1
    <2> QED
      BY <2>1, <2>2, <2>3
  <1>14. ds[1].kind = "file" /\ qos[1] = 0
    BY <1>3, <1>8, <1>9, <1>10
  <1>15. Levels(us, qos, ds, jfd, h)
    BY <1>7, <1>8, <1>9, <1>10, <1>11, <1>12, <1>13, <1>14 DEF Levels
  <1> QED
    BY <1>15 DEF us, qos, ds

\* At its end a part gives enabled back as it was around it, a file as it is.
LEMMA PopLevels ==
  ASSUME NEW vs, NEW pos, NEW cs \in Seq(Constructs), NEW ifd \in Seq(BOOLEAN), NEW en,
         Levels(vs, pos, cs, ifd, en), Len(cs) > 1, NEW jfd, NEW fn,
         IF cs[Len(cs)].kind = "file" THEN jfd = ifd /\ fn = en ELSE jfd = Front(ifd) /\ fn = Last(ifd)
  PROVE  /\ Levels(Front(vs), Front(pos), Front(cs), jfd, fn)
         /\ \A i \in 1 .. Len(cs) - 1 : Front(vs)[i] = vs[i]
         /\ vs[Len(cs) - 1] = fn
  <1> DEFINE us == Front(vs)
             qos == Front(pos)
             ds == Front(cs)
  <1>1. PICK n : n = Len(cs)
    OBVIOUS
  <1>2. n \in Nat /\ n > 1 /\ Len(ifd) \in Nat /\ DOMAIN cs = 1 .. n
        /\ \A i \in 1 .. n : vs[i] \in BOOLEAN /\ pos[i] \in Nat
        /\ vs # <<>> /\ pos # <<>> /\ cs # <<>>
    BY <1>1, LevelsIs
  <1>3. /\ vs \in Seq(BOOLEAN) /\ pos \in Seq(Nat) /\ Len(vs) = n /\ Len(pos) = n
        /\ cs[1].kind = "file" /\ pos[1] = 0
        /\ vs[n] = en /\ pos[n] = Len(ifd)
        /\ \A i, j \in 1 .. n : i <= j => pos[i] <= pos[j]
    BY <1>1 DEF Levels
  <1>4. ASSUME NEW i \in 2 .. n
        PROVE  /\ vs[i] = TRUE => vs[i - 1] = TRUE
               /\ cs[i].kind = "file" => pos[i] = pos[i - 1]
               /\ cs[i].kind # "file" => pos[i] = pos[i - 1] + 1 /\ ifd[pos[i]] = vs[i - 1]
    BY <1>1 DEF Levels
  <1>5. ASSUME NEW i \in 1 .. n
        PROVE  /\ cs[i].kind = "file" => vs[i] = TRUE
               /\ cs[i].kind = "if" => cs[i].hdr = vs[i]
    BY <1>1 DEF Levels
  <1>6. /\ us \in Seq(BOOLEAN) /\ Len(us) = n - 1
        /\ \A i \in 1 .. n - 1 : us[i] = vs[i]
    <2>1. vs \in Seq(BOOLEAN) /\ vs # <<>> /\ Len(vs) = n
      BY <1>2, <1>3
    <2>2. PICK B : B = BOOLEAN
      OBVIOUS
    <2>3. vs \in Seq(B)
      BY <2>1, <2>2
    <2>4. Front(vs) \in Seq(B) /\ Len(Front(vs)) = Len(vs) - 1 /\ \A i \in 1 .. Len(vs) - 1 : Front(vs)[i] = vs[i]
      BY ONLY <2>1, <2>3, FrontIs
    <2> QED
      BY <2>1, <2>2, <2>4
  <1>7. /\ qos \in Seq(Nat) /\ Len(qos) = n - 1
        /\ \A i \in 1 .. n - 1 : qos[i] = pos[i]
    <2>1. pos \in Seq(Nat) /\ pos # <<>> /\ Len(pos) = n
      BY <1>2, <1>3
    <2> QED
      BY ONLY <2>1, FrontIs
  <1>8. /\ Len(ds) = n - 1
        /\ \A i \in 1 .. n - 1 : ds[i] = cs[i]
    BY <1>1, <1>2, FrontIs
  <1> HIDE DEF us, qos, ds
  <1>9. /\ n \in 2 .. n /\ n \in 1 .. n /\ n - 1 \in 1 .. n /\ 1 \in 1 .. n - 1 /\ n - 1 \in 1 .. n - 1 /\ n - 1 > 0
        /\ \A i \in 2 .. n - 1 : i \in 2 .. n /\ i \in 1 .. n - 1 /\ i - 1 \in 1 .. n - 1
        /\ \A i \in 1 .. n - 1 : i \in 1 .. n
    BY <1>2
  <1>10. /\ Len(jfd) = pos[n - 1] /\ vs[n - 1] = fn
         /\ \A i \in 1 .. Len(jfd) : jfd[i] = ifd[i]
    <2>1. CASE cs[n].kind = "file"
      <3>1. jfd = ifd /\ fn = en
        BY <1>1, <2>1
      <3>2. pos[n] = pos[n - 1] /\ vs[n] = TRUE /\ vs[n - 1] = TRUE
        BY <1>4, <1>5, <1>9, <2>1
      <3> QED
        BY <1>3, <3>1, <3>2
    <2>2. CASE cs[n].kind # "file"
      <3>1. jfd = Front(ifd) /\ fn = Last(ifd)
        BY <1>1, <2>2
      <3>2. pos[n] = pos[n - 1] + 1 /\ ifd[pos[n]] = vs[n - 1] /\ pos[n - 1] \in Nat
        BY <1>2, <1>4, <1>9, <2>2
      <3>3. Len(ifd) > 0 /\ Len(ifd) - 1 = pos[n - 1] /\ ifd[Len(ifd)] = vs[n - 1]
        BY <1>2, <1>3, <3>2
      <3>4. ifd # <<>>
        BY <3>3, EmptySeq
      <3> QED
        BY <3>1, <3>3, <3>4, FrontIs DEF Last
    <2> QED
      BY <2>1, <2>2
  <1>11. ASSUME NEW i \in 2 .. n - 1
         PROVE  /\ us[i] = TRUE => us[i - 1] = TRUE
                /\ ds[i].kind = "file" => qos[i] = qos[i - 1]
                /\ ds[i].kind # "file" => qos[i] = qos[i - 1] + 1 /\ jfd[qos[i]] = us[i - 1]
    <2>1. i \in 2 .. n /\ i \in 1 .. n - 1 /\ i - 1 \in 1 .. n - 1
      BY <1>9
    <2>2. us[i] = vs[i] /\ us[i - 1] = vs[i - 1] /\ ds[i] = cs[i] /\ qos[i] = pos[i] /\ qos[i - 1] = pos[i - 1]
      BY <1>6, <1>7, <1>8, <2>1
    <2>3. cs[i].kind # "file" => pos[i] \in 1 .. Len(jfd)
      <3>1. pos[i] \in Nat /\ pos[i - 1] \in Nat /\ pos[n - 1] \in Nat
        BY <1>2, <1>9, <2>1
      <3>2. i <= n - 1 /\ i \in 1 .. n
        BY <1>9, <2>1
      <3>3. pos[i] <= pos[n - 1]
        BY <1>3, <1>9, <3>2
      <3>4. cs[i].kind # "file" => pos[i] = pos[i - 1] + 1
        BY <1>4, <2>1
      <3> QED
        BY ONLY <1>10, <3>1, <3>3, <3>4
    <2>4. /\ vs[i] = TRUE => vs[i - 1] = TRUE
          /\ cs[i].kind = "file" => pos[i] = pos[i - 1]
          /\ cs[i].kind # "file" => pos[i] = pos[i - 1] + 1 /\ ifd[pos[i]] = vs[i - 1]
      BY <1>4, <2>1
    <2>5. cs[i].kind # "file" => jfd[pos[i]] = ifd[pos[i]]
      BY <1>10, <2>3
    <2> QED
      BY ONLY <2>2, <2>4, <2>5
  <1>12. ASSUME NEW i \in 1 .. n - 1
         PROVE  /\ ds[i].kind = "file" => us[i] = TRUE
                /\ ds[i].kind = "if" => ds[i].hdr = us[i]
    BY <1>5, <1>6, <1>8, <1>9
  <1>13. ASSUME NEW i \in 1 .. n - 1, NEW j \in 1 .. n - 1, i <= j PROVE qos[i] <= qos[j]
    BY <1>3, <1>7, <1>9, <1>13
  <1>14. ds[1].kind = "file" /\ qos[1] = 0 /\ us[n - 1] = fn /\ qos[n - 1] = Len(jfd)
    BY <1>3, <1>6, <1>7, <1>8, <1>9, <1>10
  <1>15. Levels(us, qos, ds, jfd, fn)
    BY <1>6, <1>7, <1>8, <1>9, <1>11, <1>12, <1>13, <1>14 DEF Levels
  <1> QED
    BY <1>1, <1>6, <1>10, <1>15 DEF us, qos, ds

\* #else: the last construct is the other part, enabled if the first was not.
Turned(vs, pos, cs, ifd, en, ds, fn) ==
  /\ cs \in Seq(Constructs) /\ ifd \in Seq(BOOLEAN) /\ en \in BOOLEAN /\ fn \in BOOLEAN
  /\ Levels(vs, pos, cs, ifd, en) /\ cs[Len(cs)].kind = "if"
  /\ fn = TRUE => Last(ifd) = TRUE \/ en = TRUE
  /\ Len(ds) = Len(cs) /\ ds[Len(cs)].kind = "else"
  /\ \A i \in 1 .. Len(cs) - 1 : ds[i] = cs[i]

LEMMA TurnLevels ==
  ASSUME NEW vs, NEW pos, NEW cs, NEW ifd, NEW en, NEW ds, NEW fn, Turned(vs, pos, cs, ifd, en, ds, fn)
  PROVE  \E us : /\ Levels(us, pos, ds, ifd, fn)
                 /\ Len(cs) > 1 /\ vs[Len(cs) - 1] = Last(ifd)
                 /\ \A i \in 1 .. Len(cs) - 1 : us[i] = vs[i]
  <1>0. /\ cs \in Seq(Constructs) /\ ifd \in Seq(BOOLEAN) /\ en \in BOOLEAN /\ fn \in BOOLEAN
        /\ Levels(vs, pos, cs, ifd, en) /\ cs[Len(cs)].kind = "if"
        /\ fn = TRUE => Last(ifd) = TRUE \/ en = TRUE
        /\ Len(ds) = Len(cs) /\ ds[Len(cs)].kind = "else"
        /\ \A i \in 1 .. Len(cs) - 1 : ds[i] = cs[i]
    BY DEF Turned
  <1>1. PICK n : n = Len(cs)
    OBVIOUS
  <1>2. n \in Nat /\ n > 0 /\ Len(ifd) \in Nat /\ DOMAIN cs = 1 .. n /\ DOMAIN vs = 1 .. n
        /\ \A i \in 1 .. n : vs[i] \in BOOLEAN /\ pos[i] \in Nat
    BY <1>0, <1>1, LevelsIs
  <1>3. /\ vs \in Seq(BOOLEAN) /\ pos \in Seq(Nat) /\ Len(vs) = n /\ Len(pos) = n
        /\ cs[1].kind = "file" /\ pos[1] = 0
        /\ vs[n] = en /\ pos[n] = Len(ifd)
        /\ \A i, j \in 1 .. n : i <= j => pos[i] <= pos[j]
    BY <1>0, <1>1 DEF Levels
  <1>4. ASSUME NEW i \in 2 .. n
        PROVE  /\ vs[i] = TRUE => vs[i - 1] = TRUE
               /\ cs[i].kind = "file" => pos[i] = pos[i - 1]
               /\ cs[i].kind # "file" => pos[i] = pos[i - 1] + 1 /\ ifd[pos[i]] = vs[i - 1]
    BY <1>0, <1>1 DEF Levels
  <1>5. ASSUME NEW i \in 1 .. n
        PROVE  /\ cs[i].kind = "file" => vs[i] = TRUE
               /\ cs[i].kind = "if" => cs[i].hdr = vs[i]
    BY <1>0, <1>1 DEF Levels
  <1>6. cs[n].kind = "if" /\ ds[n].kind = "else" /\ n > 1
    <2>1. cs[n].kind = "if" /\ ds[n].kind = "else" /\ n # 1
      BY <1>0, <1>1, <1>3
    <2> QED
      BY <1>2, <2>1
  <1>7. /\ n \in 2 .. n /\ n \in 1 .. n /\ n - 1 \in 1 .. n /\ 1 \in 1 .. n - 1
        /\ \A i \in 1 .. n : i = n \/ i \in 1 .. n - 1
        /\ \A i \in 2 .. n - 1 : i \in 2 .. n /\ i \in 1 .. n - 1 /\ i - 1 \in 1 .. n - 1
    BY <1>2, <1>6
  <1>8. pos[n] = pos[n - 1] + 1 /\ ifd[pos[n]] = vs[n - 1] /\ Last(ifd) = vs[n - 1]
    <2>1. pos[n] = pos[n - 1] + 1 /\ ifd[pos[n]] = vs[n - 1]
      BY <1>4, <1>6, <1>7
    <2> QED
      BY <1>3, <2>1 DEF Last
  <1>9. cs[n].hdr = vs[n] /\ vs[n - 1] \in BOOLEAN
    BY <1>2, <1>5, <1>6, <1>7
  <1>10. fn = TRUE => vs[n - 1] = TRUE
    <2>1. vs[n] = TRUE => vs[n - 1] = TRUE
      BY <1>4, <1>7
    <2> QED
      BY <1>0, <1>1, <1>3, <1>8, <1>9, <2>1
  <1>11. PICK us : us = [vs EXCEPT ![n] = fn]
    OBVIOUS
  <1>12. us \in Seq(BOOLEAN) /\ Len(us) = n /\ us[n] = fn /\ \A i \in 1 .. n - 1 : us[i] = vs[i]
    <2>1. us \in Seq(BOOLEAN) /\ Len(us) = n
      BY ONLY <1>0, <1>3, <1>7, <1>11, ExceptSeq
    <2>2. \A i \in 1 .. n - 1 : i \in 1 .. n /\ i # n
      BY <1>2
    <2> QED
      BY <1>2, <1>7, <1>11, <2>1, <2>2
  <1>13. \A i \in 1 .. n - 1 : ds[i] = cs[i]
    BY <1>0, <1>1
  <1>14. ASSUME NEW i \in 2 .. n
         PROVE  /\ us[i] = TRUE => us[i - 1] = TRUE
                /\ ds[i].kind = "file" => pos[i] = pos[i - 1]
                /\ ds[i].kind # "file" => pos[i] = pos[i - 1] + 1 /\ ifd[pos[i]] = us[i - 1]
    <2>1. i - 1 \in 1 .. n - 1
      BY <1>2
    <2>2. us[i - 1] = vs[i - 1]
      BY <1>12, <2>1
    <2>3. CASE i = n
      BY <1>6, <1>8, <1>10, <1>12, <2>2, <2>3
    <2>4. CASE i # n
      <3>1. i \in 1 .. n - 1
        BY <1>2, <2>4
      <3>2. us[i] = vs[i] /\ ds[i] = cs[i]
        BY <1>12, <1>13, <3>1
      <3> QED
        BY <1>4, <2>2, <3>2
    <2> QED
      BY <2>3, <2>4
  <1>15. ASSUME NEW i \in 1 .. n
         PROVE  /\ ds[i].kind = "file" => us[i] = TRUE
                /\ ds[i].kind = "if" => ds[i].hdr = us[i]
    <2>1. CASE i = n
      BY <1>6, <2>1
    <2>2. CASE i \in 1 .. n - 1
      BY <1>5, <1>12, <1>13, <2>2
    <2> QED
      BY <1>7, <2>1, <2>2
  <1>16. ds[1].kind = "file" /\ Len(ds) = n
    BY <1>0, <1>1, <1>3, <1>7, <1>13
  <1>17. Levels(us, pos, ds, ifd, fn)
    BY <1>2, <1>3, <1>12, <1>14, <1>15, <1>16 DEF Levels
  <1> QED
    BY <1>1, <1>6, <1>8, <1>12, <1>17
-----------------------------------------------------------------------------
LEMMA BasesIs ==
  ASSUME NEW base, NEW K \in Nat, NEW cs, Len(cs) \in Nat, Bases(base, K, cs)
  PROVE  /\ base \in Seq(Nat) /\ Len(base) = K /\ K > 0 /\ base[K] \in 1 .. Len(cs)
         /\ \A k \in 1 .. K : base[k] \in 1 .. Len(cs)
         /\ \A k \in 1 .. K - 1 : base[k] \in 1 .. Len(cs) - 1
         /\ cs[Len(cs)].kind = "file" <=> base[K] = Len(cs)
  <1>1. /\ base \in Seq(Nat) /\ Len(base) = K /\ K > 0
        /\ \A k \in 1 .. K : base[k] \in 1 .. Len(cs)
        /\ \A k \in 1 .. K - 1 : base[k] < base[k + 1]
        /\ \A i \in 1 .. Len(cs) : cs[i].kind = "file" <=> \E k \in 1 .. K : base[k] = i
    BY DEF Bases
  <1>2. K \in 1 .. K
    BY <1>1
  <1>3. base[K] \in 1 .. Len(cs)
    BY <1>1, <1>2
  <1>4. ASSUME NEW k \in 1 .. K - 1 PROVE base[k] \in 1 .. Len(cs) - 1
    <2>1. k \in 1 .. K /\ k + 1 \in 1 .. K
      BY <1>1
    <2>2. base[k] \in 1 .. Len(cs) /\ base[k + 1] \in 1 .. Len(cs) /\ base[k] < base[k + 1]
      BY <1>1, <2>1
    <2> QED
      BY <2>2
  <1>5. cs[Len(cs)].kind = "file" <=> base[K] = Len(cs)
    <2>1. Len(cs) \in 1 .. Len(cs)
      BY <1>3
    <2>2. cs[Len(cs)].kind = "file" <=> \E k \in 1 .. K : base[k] = Len(cs)
      BY <1>1, <2>1
    <2>3. ASSUME NEW k \in 1 .. K, base[k] = Len(cs) PROVE k = K
      <3>1. k \notin 1 .. K - 1
        BY <1>4, <2>3
      <3> QED
        BY <1>1, <3>1
    <2> QED
      BY <1>2, <2>2, <2>3
  <1> QED
    BY <1>1, <1>3, <1>4, <1>5

LEMMA BasesSame ==
  ASSUME NEW base, NEW K, NEW cs, Bases(base, K, cs), NEW ds, Len(ds) = Len(cs),
         \A i \in 1 .. Len(cs) : ds[i].kind = "file" <=> cs[i].kind = "file"
  PROVE  Bases(base, K, ds)
  BY DEF Bases

LEMMA PushFileBases ==
  ASSUME NEW base, NEW K \in Nat, NEW cs \in Seq(Constructs), Bases(base, K, cs),
         NEW c \in Constructs, c.kind = "file"
  PROVE  /\ Bases(Append(base, Len(cs) + 1), K + 1, Append(cs, c))
         /\ \A k \in 1 .. K + 1 : Parts(Append(base, Len(cs) + 1), Len(cs) + 1, k) =
              IF k = K + 1 THEN 0 ELSE Parts(base, Len(cs), k)
  <1> DEFINE bas == Append(base, Len(cs) + 1)
             ds == Append(cs, c)
  <1>1. PICK n : n = Len(cs)
    OBVIOUS
  <1>2. n \in Nat
    BY <1>1, LenProperties
  <1>3. /\ base \in Seq(Nat) /\ Len(base) = K /\ K > 0
        /\ \A k \in 1 .. K : base[k] \in 1 .. n
        /\ \A k \in 1 .. K - 1 : base[k] < base[k + 1]
        /\ \A i \in 1 .. n : cs[i].kind = "file" <=> \E k \in 1 .. K : base[k] = i
    BY <1>1 DEF Bases
  <1>4. /\ bas \in Seq(Nat) /\ Len(bas) = K + 1 /\ bas[K + 1] = n + 1
        /\ \A k \in 1 .. K : bas[k] = base[k]
    BY <1>1, <1>2, <1>3, AppendProperties
  <1>5. /\ Len(ds) = n + 1 /\ ds[n + 1] = c
        /\ \A i \in 1 .. n : ds[i] = cs[i]
    BY <1>1, AppendProperties
  <1> HIDE DEF bas, ds
  <1>6. /\ K + 1 > 0 /\ K + 1 \in 1 .. K + 1 /\ \A k \in 1 .. K : k \in 1 .. K + 1
        /\ \A k \in 1 .. K + 1 : k = K + 1 \/ k \in 1 .. K
        /\ \A i \in 1 .. n + 1 : i = n + 1 \/ i \in 1 .. n
        /\ n + 1 \in 1 .. n + 1 /\ \A i \in 1 .. n : i \in 1 .. n + 1 /\ i # n + 1 /\ i < n + 1
    BY <1>2, <1>3
  <1>7. \A k \in 1 .. K + 1 : bas[k] \in 1 .. n + 1
    BY <1>3, <1>4, <1>6
  <1>8. ASSUME NEW k \in 1 .. (K + 1) - 1 PROVE bas[k] < bas[k + 1]
    <2>1. k \in 1 .. K
      OBVIOUS
    <2>2. CASE k = K
      BY <1>3, <1>4, <1>6, <2>1, <2>2
    <2>3. CASE k # K
      <3>1. k \in 1 .. K - 1 /\ k + 1 \in 1 .. K
        BY <2>1, <2>3
      <3> QED
        BY <1>3, <1>4, <2>1, <3>1
    <2> QED
      BY <2>2, <2>3
  <1>9. ASSUME NEW i \in 1 .. n + 1
        PROVE  ds[i].kind = "file" <=> \E k \in 1 .. K + 1 : bas[k] = i
    <2>1. CASE i = n + 1
      BY <1>4, <1>5, <1>6, <2>1
    <2>2. CASE i \in 1 .. n
      <3>1. ds[i].kind = "file" <=> \E k \in 1 .. K : base[k] = i
        BY <1>3, <1>5, <2>2
      <3>2. ASSUME NEW k \in 1 .. K, base[k] = i PROVE \E j \in 1 .. K + 1 : bas[j] = i
        BY <1>4, <1>6, <3>2
      <3>3. ASSUME NEW j \in 1 .. K + 1, bas[j] = i PROVE \E k \in 1 .. K : base[k] = i
        <4>1. j # K + 1
          BY <1>4, <1>6, <2>2, <3>3
        <4>2. j \in 1 .. K
          BY <1>6, <4>1
        <4> QED
          BY <1>4, <3>3, <4>2
      <3> QED
        BY <3>1, <3>2, <3>3
    <2> QED
      BY <1>6, <2>1, <2>2
  <1>10. Bases(bas, K + 1, ds)
    BY <1>4, <1>5, <1>6, <1>7, <1>8, <1>9 DEF Bases
  <1>11. ASSUME NEW k \in 1 .. K + 1
         PROVE  Parts(bas, n + 1, k) = IF k = K + 1 THEN 0 ELSE Parts(base, n, k)
    <2>1. CASE k = K + 1
      BY <1>2, <1>4, <2>1 DEF Parts
    <2>2. CASE k = K
      <3>1. K \in 1 .. K /\ K # K + 1
        BY <1>3
      <3>2. Parts(bas, n + 1, k) = (bas[K + 1] - 1) - bas[K]
        BY <1>4, <2>2, <3>1 DEF Parts
      <3>3. Parts(base, n, k) = n - base[K]
        BY <1>3, <2>2 DEF Parts
      <3>4. bas[K] = base[K] /\ bas[K + 1] = n + 1 /\ base[K] \in Nat
        BY <1>3, <1>4, <3>1
      <3> QED
        BY <1>2, <2>2, <3>1, <3>2, <3>3, <3>4
    <2>3. CASE k # K /\ k # K + 1
      <3>1. k \in 1 .. K /\ k + 1 \in 1 .. K
        BY <2>3
      <3> QED
        BY <1>3, <1>4, <2>3, <3>1 DEF Parts
    <2> QED
      BY <2>1, <2>2, <2>3
  <1> QED
    BY <1>1, <1>10, <1>11 DEF bas, ds

LEMMA PushPartBases ==
  ASSUME NEW base, NEW K \in Nat, NEW cs \in Seq(Constructs), Bases(base, K, cs),
         NEW c \in Constructs, c.kind # "file"
  PROVE  Bases(base, K, Append(cs, c))
  <1> DEFINE ds == Append(cs, c)
  <1>1. PICK n : n = Len(cs)
    OBVIOUS
  <1>2. n \in Nat
    BY <1>1, LenProperties
  <1>3. /\ base \in Seq(Nat) /\ Len(base) = K /\ K > 0
        /\ \A k \in 1 .. K : base[k] \in 1 .. n
        /\ \A k \in 1 .. K - 1 : base[k] < base[k + 1]
        /\ \A i \in 1 .. n : cs[i].kind = "file" <=> \E k \in 1 .. K : base[k] = i
    BY <1>1 DEF Bases
  <1>4. /\ Len(ds) = n + 1 /\ ds[n + 1] = c
        /\ \A i \in 1 .. n : ds[i] = cs[i]
    BY <1>1, AppendProperties
  <1> HIDE DEF ds
  <1>5. \A i \in 1 .. n : i \in 1 .. n + 1 /\ i # n + 1
    BY <1>2
  <1>6. ASSUME NEW i \in 1 .. n + 1
        PROVE  ds[i].kind = "file" <=> \E k \in 1 .. K : base[k] = i
    <2>1. CASE i = n + 1
      BY <1>3, <1>4, <1>5, <2>1
    <2>2. CASE i # n + 1
      <3>1. i \in 1 .. n
        BY <1>2, <2>2
      <3> QED
        BY <1>3, <1>4, <3>1
    <2> QED
      BY <2>1, <2>2
  <1>7. Bases(base, K, ds)
    BY <1>3, <1>4, <1>5, <1>6 DEF Bases
  <1> QED
    BY <1>7 DEF ds

LEMMA PopFileBases ==
  ASSUME NEW base, NEW K \in Nat, K > 1, NEW cs \in Seq(Constructs), cs # <<>>, Bases(base, K, cs),
         cs[Len(cs)].kind = "file"
  PROVE  /\ Bases(Front(base), K - 1, Front(cs))
         /\ \A k \in 1 .. K - 1 : Parts(Front(base), Len(cs) - 1, k) = Parts(base, Len(cs), k)
  <1> DEFINE bas == Front(base)
             ds == Front(cs)
  <1>1. PICK n : n = Len(cs)
    OBVIOUS
  <1>2. n \in Nat
    BY <1>1, LenProperties
  <1>3. /\ base \in Seq(Nat) /\ Len(base) = K /\ K > 0 /\ base[K] = n
        /\ \A k \in 1 .. K - 1 : base[k] \in 1 .. n - 1
    BY <1>1, <1>2, BasesIs
  <1>4. /\ \A k \in 1 .. K - 1 : base[k] < base[k + 1]
        /\ \A i \in 1 .. n : cs[i].kind = "file" <=> \E k \in 1 .. K : base[k] = i
    BY <1>1 DEF Bases
  <1>5. base # <<>>
    BY <1>3, EmptySeq
  <1>6. /\ bas \in Seq(Nat) /\ Len(bas) = K - 1
        /\ \A k \in 1 .. K - 1 : bas[k] = base[k]
    BY <1>3, <1>5, FrontIs
  <1>7. Len(ds) = n - 1 /\ \A i \in 1 .. n - 1 : ds[i] = cs[i]
    BY <1>1, FrontIs
  <1> HIDE DEF bas, ds
  <1>8. /\ \A i \in 1 .. n - 1 : i \in 1 .. n /\ i # n
        /\ \A k \in 1 .. K : k = K \/ k \in 1 .. K - 1
        /\ \A k \in 1 .. K - 1 : k \in 1 .. K
        /\ \A k \in 1 .. (K - 1) - 1 : k \in 1 .. K - 1 /\ k + 1 \in 1 .. K - 1
        /\ K - 1 > 0 /\ K - 1 \in 1 .. K - 1 /\ (K - 1) + 1 = K
    BY <1>2
  <1>9. ASSUME NEW i \in 1 .. n - 1
        PROVE  ds[i].kind = "file" <=> \E k \in 1 .. K - 1 : bas[k] = i
    <2>1. ds[i].kind = "file" <=> \E k \in 1 .. K : base[k] = i
      BY <1>4, <1>7, <1>8
    <2>2. ASSUME NEW k \in 1 .. K, base[k] = i PROVE \E j \in 1 .. K - 1 : bas[j] = i
      <3>1. k # K
        BY <1>3, <1>8, <2>2
      <3> QED
        BY <1>6, <1>8, <2>2, <3>1
    <2>3. ASSUME NEW j \in 1 .. K - 1, bas[j] = i PROVE \E k \in 1 .. K : base[k] = i
      BY <1>6, <1>8, <2>3
    <2> QED
      BY <2>1, <2>2, <2>3
  <1>10. \A k \in 1 .. K - 1 : bas[k] \in 1 .. n - 1
    BY <1>3, <1>6
  <1>11. \A k \in 1 .. (K - 1) - 1 : bas[k] < bas[k + 1]
    BY <1>4, <1>6, <1>8
  <1>12. Bases(bas, K - 1, ds)
    BY <1>6, <1>7, <1>8, <1>9, <1>10, <1>11 DEF Bases
  <1>13. ASSUME NEW k \in 1 .. K - 1 PROVE Parts(bas, n - 1, k) = Parts(base, n, k)
    <2>1. k # K
      BY <1>8
    <2>2. Parts(base, n, k) = (base[k + 1] - 1) - base[k]
      BY <1>3, <2>1 DEF Parts
    <2>3. CASE k = K - 1
      <3>1. Parts(bas, n - 1, k) = (n - 1) - bas[k]
        BY <1>6, <2>3 DEF Parts
      <3>2. base[k + 1] = n /\ bas[k] = base[k]
        BY <1>3, <1>6, <1>8, <2>3
      <3> QED
        BY <2>2, <3>1, <3>2
    <2>4. CASE k # K - 1
      <3>1. k \in 1 .. (K - 1) - 1
        BY <2>4
      <3>2. bas[k] = base[k] /\ bas[k + 1] = base[k + 1]
        BY <1>6, <1>8, <3>1
      <3> QED
        BY <1>6, <2>2, <2>4, <3>2 DEF Parts
    <2> QED
      BY <2>3, <2>4
  <1> QED
    BY <1>1, <1>12, <1>13 DEF bas, ds

LEMMA PopPartBases ==
  ASSUME NEW base, NEW K \in Nat, NEW cs \in Seq(Constructs), cs # <<>>, Bases(base, K, cs),
         cs[Len(cs)].kind # "file"
  PROVE  Bases(base, K, Front(cs))
  <1> DEFINE ds == Front(cs)
  <1>1. PICK n : n = Len(cs)
    OBVIOUS
  <1>2. n \in Nat
    BY <1>1, LenProperties
  <1>3. /\ base \in Seq(Nat) /\ Len(base) = K /\ K > 0 /\ base[K] # n /\ base[K] \in 1 .. n
        /\ \A k \in 1 .. K - 1 : base[k] \in 1 .. n - 1
    BY <1>1, <1>2, BasesIs
  <1>4. /\ \A k \in 1 .. K - 1 : base[k] < base[k + 1]
        /\ \A i \in 1 .. n : cs[i].kind = "file" <=> \E k \in 1 .. K : base[k] = i
    BY <1>1 DEF Bases
  <1>5. Len(ds) = n - 1 /\ \A i \in 1 .. n - 1 : ds[i] = cs[i]
    BY <1>1, FrontIs
  <1> HIDE DEF ds
  <1>6. base[K] \in 1 .. n - 1 /\ \A i \in 1 .. n - 1 : i \in 1 .. n
        /\ \A k \in 1 .. K : k = K \/ k \in 1 .. K - 1
    BY <1>2, <1>3
  <1>7. \A k \in 1 .. K : base[k] \in 1 .. n - 1
    BY <1>3, <1>6
  <1>8. \A i \in 1 .. n - 1 : ds[i].kind = "file" <=> \E k \in 1 .. K : base[k] = i
    BY <1>4, <1>5, <1>6
  <1>9. Bases(base, K, ds)
    BY <1>3, <1>4, <1>5, <1>7, <1>8 DEF Bases
  <1> QED
    BY <1>9 DEF ds
-----------------------------------------------------------------------------
\* Reading line x of the last file of fs leaves gs.
Read(fs, gs, x) ==
  LET K == Len(fs)
  IN  /\ gs \in Seq(Frames) /\ Len(gs) = K /\ K \in Nat /\ K > 0
      /\ DOMAIN fs = 1 .. K /\ DOMAIN gs = 1 .. K
      /\ \A k \in 1 .. K - 1 : gs[k] = fs[k]
      /\ fs[K].rest \in Seq(WrittenLines) /\ fs[K].rest # <<>>
      /\ x = Head(fs[K].rest) /\ gs[K].rest = Tail(fs[K].rest)

LEMMA ReadIs ==
  ASSUME TypedInv, filestack # <<>>, Last(filestack).rest # <<>>
  PROVE  Read(filestack, Advanced, Line)
  <1>1. PICK n : n = Len(filestack)
    OBVIOUS
  <1>2. /\ filestack \in Seq(Frames) /\ n \in Nat /\ n > 0 /\ DOMAIN filestack = 1 .. n /\ n \in 1 .. n
        /\ Last(filestack) = filestack[n] /\ filestack[n] \in Frames
    BY <1>1, EndTyped DEF TypedInv, TypedText
  <1>3. Advanced \in Seq(Frames) /\ Len(Advanced) = n
    BY <1>1, LineRead DEF TypedInv
  <1>4. DOMAIN Advanced = 1 .. n
    BY <1>3, LenProperties
  <1>5. PICK e : e = [filestack[n] EXCEPT !.rest = Tail(@)]
    OBVIOUS
  <1>6. e.rest = Tail(filestack[n].rest)
    BY <1>2, <1>5 DEF Frames
  <1>7. Advanced = [filestack EXCEPT ![n] = e]
    BY <1>1, <1>2, <1>5 DEF Advanced
  <1>8. Advanced[n].rest = Tail(filestack[n].rest) /\ \A k \in 1 .. n - 1 : Advanced[k] = filestack[k]
    BY <1>2, <1>6, <1>7
  <1>9. filestack[n].rest \in Seq(WrittenLines) /\ filestack[n].rest # <<>> /\ Line = Head(filestack[n].rest)
    BY <1>2 DEF Frames, Line
  <1> QED
    BY <1>1, <1>2, <1>3, <1>4, <1>8, <1>9 DEF Read

LEMMA RestNone ==
  ASSUME NEW fs, NEW gs, NEW x, Read(fs, gs, x), NEW l, NoRest(l, fs)
  PROVE  ~TextLine(x, l) /\ NoRest(l, gs)
  <1>1. PICK K, r : K = Len(fs) /\ r = fs[K].rest
    OBVIOUS
  <1>2. /\ K \in Nat /\ K > 0 /\ DOMAIN fs = 1 .. K /\ DOMAIN gs = 1 .. K
        /\ \A k \in 1 .. K - 1 : gs[k] = fs[k]
        /\ r \in Seq(WrittenLines) /\ r # <<>> /\ x = Head(r) /\ gs[K].rest = Tail(r)
    BY <1>1 DEF Read
  <1>3. ~Has(r, l)
    BY <1>1, <1>2 DEF NoRest
  <1>4. ~TextLine(x, l) /\ ~Has(Tail(r), l)
    BY <1>2, <1>3, TailHas
  <1>5. ASSUME NEW k \in DOMAIN gs PROVE ~Has(gs[k].rest, l)
    <2>1. CASE k = K
      BY <1>2, <1>4, <2>1
    <2>2. CASE k # K
      BY <1>2, <2>2 DEF NoRest
    <2> QED
      BY <2>1, <2>2
  <1> QED
    BY <1>4, <1>5 DEF NoRest

\* A line that starts or ends a part changes the parts open in its file only.
LEMMA PartsTurn ==
  ASSUME NEW base \in Seq(Nat), Len(base) > 0, NEW n \in Nat, NEW d \in Int, NEW k \in 1 .. Len(base)
  PROVE  Parts(base, n + d, k) = IF k = Len(base) THEN Parts(base, n, k) + d ELSE Parts(base, n, k)
  <1>1. base[k] \in Nat
    BY ElementOfSeq
  <1>2. CASE k = Len(base)
    BY <1>1, <1>2 DEF Parts
  <1>3. CASE k # Len(base)
    BY <1>3 DEF Parts
  <1> QED
    BY <1>2, <1>3

LEMMA RestComing ==
  ASSUME NEW fs, NEW gs, NEW x, Read(fs, gs, x), NEW base \in Seq(Nat), Len(base) = Len(fs),
         NEW n \in Nat, NEW l, Coming(l, base, fs, n)
  PROVE  IF TextLine(x, l) THEN Parts(base, n, Len(fs)) = 0 /\ NoRest(l, gs)
                           ELSE Coming(l, base, gs, n + Turn(x))
  <1>1. PICK K, r : K = Len(fs) /\ r = fs[K].rest
    OBVIOUS
  <1>2. /\ K \in Nat /\ K > 0 /\ DOMAIN fs = 1 .. K /\ DOMAIN gs = 1 .. K
        /\ \A k \in 1 .. K - 1 : gs[k] = fs[k]
        /\ r \in Seq(WrittenLines) /\ r # <<>> /\ x = Head(r) /\ gs[K].rest = Tail(r)
    BY <1>1 DEF Read
  <1>3. PICK k \in DOMAIN fs :
          /\ Comes(l, fs[k].rest, Parts(base, n, k))
          /\ \A h \in DOMAIN fs : h # k => ~Has(fs[h].rest, l)
    BY DEF Coming
  <1>4. Turn(x) \in Int
    BY DEF Turn
  <1>5. \A h \in 1 .. K : Parts(base, n + Turn(x), h) = IF h = K THEN Parts(base, n, h) + Turn(x) ELSE Parts(base, n, h)
    BY <1>1, <1>2, <1>4, PartsTurn
  <1>6. CASE k = K
    <2>1. Comes(l, r, Parts(base, n, K))
      BY <1>1, <1>3, <1>6
    <2>2. IF TextLine(x, l) THEN Parts(base, n, K) = 0 /\ ~Has(Tail(r), l)
                            ELSE Comes(l, Tail(r), Parts(base, n, K) + Turn(x))
      BY <1>2, <2>1, ComesNext
    <2>3. ASSUME NEW h \in 1 .. K, h # K PROVE ~Has(gs[h].rest, l)
      <3>1. h \in 1 .. K - 1 /\ h \in DOMAIN fs
        BY <1>2, <2>3
      <3>2. gs[h] = fs[h] /\ ~Has(fs[h].rest, l)
        BY <1>2, <1>3, <1>6, <2>3, <3>1
      <3> QED
        BY <3>2
    <2>4. CASE TextLine(x, l)
      BY <1>1, <1>2, <2>2, <2>3, <2>4 DEF NoRest
    <2>5. CASE ~TextLine(x, l)
      <3>1. K \in DOMAIN gs /\ Comes(l, gs[K].rest, Parts(base, n + Turn(x), K))
        BY <1>2, <1>5, <2>2, <2>5
      <3>2. \A h \in DOMAIN gs : h # K => ~Has(gs[h].rest, l)
        BY <1>2, <2>3
      <3> QED
        BY <2>5, <3>1, <3>2 DEF Coming
    <2> QED
      BY <2>4, <2>5
  <1>7. CASE k # K
    <2>1. ~Has(r, l)
      BY <1>1, <1>2, <1>3, <1>7
    <2>2. ~TextLine(x, l) /\ ~Has(Tail(r), l)
      BY <1>2, <2>1, TailHas
    <2>3. k \in DOMAIN gs /\ Comes(l, gs[k].rest, Parts(base, n + Turn(x), k))
      BY <1>2, <1>3, <1>5, <1>7
    <2>4. ASSUME NEW h \in DOMAIN gs, h # k PROVE ~Has(gs[h].rest, l)
      <3>1. CASE h = K
        BY <1>2, <2>2, <3>1
      <3>2. CASE h # K
        <4>1. h \in 1 .. K - 1 /\ h \in DOMAIN fs
          BY <1>2, <3>2
        <4>2. gs[h] = fs[h] /\ ~Has(fs[h].rest, l)
          BY <1>2, <1>3, <2>4, <4>1
        <4> QED
          BY <4>2
      <3> QED
        BY <3>1, <3>2
    <2> QED
      BY <2>2, <2>3, <2>4 DEF Coming
  <1> QED
    BY <1>6, <1>7

LEMMA RestAwaits ==
  ASSUME NEW fs, NEW gs, NEW x, Read(fs, gs, x), NEW base \in Seq(Nat), Len(base) = Len(fs),
         NEW n \in Nat, NEW f, Awaits(f, base, fs, n)
  PROVE  (Asks(x, f) /\ Parts(base, n, Len(fs)) = 0) \/ Awaits(f, base, gs, n + Turn(x))
  <1>1. PICK K, r : K = Len(fs) /\ r = fs[K].rest
    OBVIOUS
  <1>2. /\ K \in Nat /\ K > 0 /\ DOMAIN fs = 1 .. K /\ DOMAIN gs = 1 .. K
        /\ \A k \in 1 .. K - 1 : gs[k] = fs[k]
        /\ r \in Seq(WrittenLines) /\ r # <<>> /\ x = Head(r) /\ gs[K].rest = Tail(r)
    BY <1>1 DEF Read
  <1>3. PICK k \in DOMAIN fs : Reaches(f, fs[k].rest, Parts(base, n, k))
    BY DEF Awaits
  <1>4. Turn(x) \in Int
    BY DEF Turn
  <1>5. \A h \in 1 .. K : Parts(base, n + Turn(x), h) = IF h = K THEN Parts(base, n, h) + Turn(x) ELSE Parts(base, n, h)
    BY <1>1, <1>2, <1>4, PartsTurn
  <1>6. CASE k = K
    <2>1. Reaches(f, r, Parts(base, n, K))
      BY <1>1, <1>3, <1>6
    <2>2. (Asks(x, f) /\ Parts(base, n, K) = 0) \/ Reaches(f, Tail(r), Parts(base, n, K) + Turn(x))
      BY <1>2, <2>1, ReachesNext
    <2>3. K \in DOMAIN gs /\ Parts(base, n + Turn(x), K) = Parts(base, n, K) + Turn(x)
      BY <1>2, <1>5
    <2> QED
      BY <1>1, <1>2, <2>2, <2>3 DEF Awaits
  <1>7. CASE k # K
    <2>1. k \in DOMAIN gs /\ Reaches(f, gs[k].rest, Parts(base, n + Turn(x), k))
      BY <1>2, <1>3, <1>5, <1>7
    <2> QED
      BY <2>1 DEF Awaits
  <1> QED
    BY <1>6, <1>7
-----------------------------------------------------------------------------
\* A file is opened.
LEMMA OpenRests ==
  ASSUME NEW fs \in Seq(Frames), Len(fs) > 0, NEW e \in Frames, NEW base, NEW bas, NEW n, NEW m, NEW l, NEW f,
         \A k \in 1 .. Len(fs) + 1 : Parts(bas, m, k) = IF k = Len(fs) + 1 THEN 0 ELSE Parts(base, n, k)
  PROVE  /\ NoRest(l, fs) /\ ~Has(e.rest, l) => NoRest(l, Append(fs, e))
         /\ Coming(l, base, fs, n) /\ ~Has(e.rest, l) => Coming(l, bas, Append(fs, e), m)
         /\ NoRest(l, fs) /\ Comes(l, e.rest, 0) => Coming(l, bas, Append(fs, e), m)
         /\ Awaits(f, base, fs, n) => Awaits(f, bas, Append(fs, e), m)
         /\ Reaches(f, e.rest, 0) => Awaits(f, bas, Append(fs, e), m)
  <1> DEFINE gs == Append(fs, e)
  <1>1. PICK K : K = Len(fs)
    OBVIOUS
  <1>2. K \in Nat /\ K > 0 /\ DOMAIN fs = 1 .. K
    BY <1>1, LenProperties
  <1>3. gs \in Seq(Frames) /\ Len(gs) = K + 1 /\ gs[K + 1] = e /\ \A k \in 1 .. K : gs[k] = fs[k]
    BY <1>1, AppendProperties
  <1>4. DOMAIN gs = 1 .. K + 1
    BY <1>3, LenProperties
  <1> HIDE DEF gs
  <1>5. /\ \A k \in 1 .. K : k \in 1 .. K + 1 /\ k # K + 1
        /\ \A k \in 1 .. K + 1 : k = K + 1 \/ k \in 1 .. K
        /\ K + 1 \in 1 .. K + 1 /\ 1 \in 1 .. K
    BY <1>2
  <1>6. /\ \A k \in 1 .. K : Parts(bas, m, k) = Parts(base, n, k)
        /\ Parts(bas, m, K + 1) = 0
    BY <1>1, <1>5
  <1>7. ASSUME NoRest(l, fs), ~Has(e.rest, l) PROVE NoRest(l, gs)
    BY <1>2, <1>3, <1>4, <1>5, <1>7 DEF NoRest
  <1>8. ASSUME Coming(l, base, fs, n), ~Has(e.rest, l) PROVE Coming(l, bas, gs, m)
    <2>1. PICK k \in 1 .. K :
          /\ Comes(l, fs[k].rest, Parts(base, n, k))
          /\ \A h \in 1 .. K : h # k => ~Has(fs[h].rest, l)
      BY <1>2, <1>8 DEF Coming
    <2>2. k \in DOMAIN gs /\ Comes(l, gs[k].rest, Parts(bas, m, k))
      BY <1>3, <1>4, <1>5, <1>6, <2>1
    <2>3. \A h \in DOMAIN gs : h # k => ~Has(gs[h].rest, l)
      BY <1>3, <1>4, <1>5, <1>8, <2>1
    <2> QED
      BY <2>2, <2>3 DEF Coming
  <1>9. ASSUME NoRest(l, fs), Comes(l, e.rest, 0) PROVE Coming(l, bas, gs, m)
    <2>1. K + 1 \in DOMAIN gs /\ Comes(l, gs[K + 1].rest, Parts(bas, m, K + 1))
      BY <1>3, <1>4, <1>5, <1>6, <1>9
    <2>2. \A h \in DOMAIN gs : h # K + 1 => ~Has(gs[h].rest, l)
      BY <1>2, <1>3, <1>4, <1>5, <1>9 DEF NoRest
    <2> QED
      BY <2>1, <2>2 DEF Coming
  <1>10. ASSUME Awaits(f, base, fs, n) PROVE Awaits(f, bas, gs, m)
    <2>1. PICK k \in 1 .. K : Reaches(f, fs[k].rest, Parts(base, n, k))
      BY <1>2, <1>10 DEF Awaits
    <2>2. k \in DOMAIN gs /\ Reaches(f, gs[k].rest, Parts(bas, m, k))
      BY <1>3, <1>4, <1>5, <1>6, <2>1
    <2> QED
      BY <2>2 DEF Awaits
  <1>11. ASSUME Reaches(f, e.rest, 0) PROVE Awaits(f, bas, gs, m)
    <2>1. K + 1 \in DOMAIN gs /\ Reaches(f, gs[K + 1].rest, Parts(bas, m, K + 1))
      BY <1>3, <1>4, <1>5, <1>6, <1>11
    <2> QED
      BY <2>1 DEF Awaits
  <1> QED
    BY <1>7, <1>8, <1>9, <1>10, <1>11 DEF gs

\* The last file is at its end.
LEMMA CloseRests ==
  ASSUME NEW fs \in Seq(Frames), Len(fs) > 1, fs[Len(fs)].rest = <<>>,
         NEW base, NEW bas, NEW n, NEW m, NEW l, NEW f,
         \A k \in 1 .. Len(fs) - 1 : Parts(bas, m, k) = Parts(base, n, k)
  PROVE  /\ NoRest(l, fs) => NoRest(l, Front(fs))
         /\ Coming(l, base, fs, n) => Coming(l, bas, Front(fs), m)
         /\ Awaits(f, base, fs, n) => Awaits(f, bas, Front(fs), m)
  <1> DEFINE gs == Front(fs)
  <1>1. PICK K : K = Len(fs)
    OBVIOUS
  <1>2. K \in Nat /\ K > 1 /\ DOMAIN fs = 1 .. K /\ fs # <<>>
    BY <1>1, LenProperties, EmptySeq
  <1>3. DOMAIN gs = 1 .. K - 1 /\ \A k \in 1 .. K - 1 : gs[k] = fs[k]
    BY <1>1, <1>2, FrontIs
  <1> HIDE DEF gs
  <1>4. /\ \A k \in 1 .. K - 1 : k \in 1 .. K /\ Parts(bas, m, k) = Parts(base, n, k)
        /\ \A k \in 1 .. K : k = K \/ k \in 1 .. K - 1
        /\ 1 \in 1 .. K - 1
    BY <1>1, <1>2
  <1>5. ASSUME NoRest(l, fs) PROVE NoRest(l, gs)
    BY <1>2, <1>3, <1>4, <1>5 DEF NoRest
  <1>6. ASSUME Coming(l, base, fs, n) PROVE Coming(l, bas, gs, m)
    <2>1. PICK k \in 1 .. K :
          /\ Comes(l, fs[k].rest, Parts(base, n, k))
          /\ \A h \in 1 .. K : h # k => ~Has(fs[h].rest, l)
      BY <1>2, <1>6 DEF Coming
    <2>2. k # K
      <3>1. Has(fs[k].rest, l)
        BY <2>1, ComesHas
      <3> QED
        BY <1>1, <3>1, HasNone
    <2>3. k \in 1 .. K - 1
      BY <1>4, <2>2
    <2>4. k \in DOMAIN gs /\ Comes(l, gs[k].rest, Parts(bas, m, k))
      BY <1>3, <1>4, <2>1, <2>3
    <2>5. \A h \in DOMAIN gs : h # k => ~Has(gs[h].rest, l)
      BY <1>3, <1>4, <2>1
    <2> QED
      BY <2>4, <2>5 DEF Coming
  <1>7. ASSUME Awaits(f, base, fs, n) PROVE Awaits(f, bas, gs, m)
    <2>1. PICK k \in 1 .. K : Reaches(f, fs[k].rest, Parts(base, n, k))
      BY <1>2, <1>7 DEF Awaits
    <2>2. k # K
      <3>1. DOMAIN fs[k].rest # {}
        BY <2>1 DEF Reaches
      <3> QED
        BY <1>1, <3>1
    <2>3. k \in DOMAIN gs /\ Reaches(f, gs[k].rest, Parts(bas, m, k))
      BY <1>3, <1>4, <2>1, <2>2
    <2> QED
      BY <2>3 DEF Awaits
  <1> QED
    BY <1>5, <1>6, <1>7 DEF gs
-----------------------------------------------------------------------------
\* Where the line is in construct i, vs being as before.
HeldAt(l, vs, cs, i) ==
  /\ \A j \in DOMAIN cs : j # i => ~Has(cs[j].prog, l) /\ ~Has(cs[j].kept, l)
  /\ \/ One(cs[i].prog, l) /\ ~Has(cs[i].kept, l) /\ vs[i] = TRUE
     \/ One(cs[i].kept, l) /\ ~Has(cs[i].prog, l) /\ cs[i].kind = "else" /\ vs[i - 1] = TRUE

LEMMA HeldIs ==
  ASSUME NEW l, NEW vs, NEW cs
  PROVE  Held(l, vs, cs) <=> \E i \in DOMAIN cs : HeldAt(l, vs, cs, i)
  BY DEF Held, HeldAt

\* Text is added to the last construct.
LEMMA AddTexts ==
  ASSUME NEW cs \in Seq(Constructs), cs # <<>>, NEW text \in Seq(WrittenLines), NEW ds, AddedTo(cs, ds, text),
         NEW l, NEW vs
  PROVE  /\ Quiet(l, cs) /\ ~Has(text, l) => Quiet(l, ds)
         /\ Held(l, vs, cs) /\ ~Has(text, l) => Held(l, vs, ds)
         /\ Quiet(l, cs) /\ One(text, l) /\ vs[Len(cs)] = TRUE => Held(l, vs, ds)
  <1>1. PICK n : n = Len(cs)
    OBVIOUS
  <1>2. n \in Nat /\ n > 0 /\ DOMAIN cs = 1 .. n /\ n \in 1 .. n /\ cs[n] \in Constructs
    BY <1>1, EndTyped, ElementOfSeq
  <1>3. /\ DOMAIN ds = 1 .. n
        /\ \A i \in 1 .. n : ds[i].kind = cs[i].kind /\ ds[i].kept = cs[i].kept
        /\ \A i \in 1 .. n - 1 : ds[i] = cs[i]
        /\ ds[n].prog = cs[n].prog \o text
        /\ Has(ds[n].prog, l) <=> Has(cs[n].prog, l) \/ Has(text, l)
    BY <1>1 DEF AddedTo
  <1>4. \A i \in 1 .. n : i # n => i \in 1 .. n - 1
    BY <1>2
  <1>5. cs[n].prog \in Seq(WrittenLines)
    BY <1>2 DEF Constructs
  <1>6. \A i \in 1 .. n : i # n => ds[i].prog = cs[i].prog
    BY <1>3, <1>4
  <1>7. ASSUME NEW i \in 1 .. n, ~Has(cs[i].prog, l), ~Has(cs[i].kept, l), ~Has(text, l)
        PROVE  ~Has(ds[i].prog, l) /\ ~Has(ds[i].kept, l)
    <2>1. CASE i = n
      BY <1>3, <1>7, <2>1
    <2>2. CASE i # n
      BY <1>3, <1>6, <1>7, <2>2
    <2> QED
      BY <2>1, <2>2
  <1>8. ASSUME Quiet(l, cs), ~Has(text, l) PROVE Quiet(l, ds)
    BY <1>2, <1>3, <1>7, <1>8 DEF Quiet
  <1>9. ASSUME Held(l, vs, cs), ~Has(text, l) PROVE Held(l, vs, ds)
    <2>1. PICK i \in 1 .. n : HeldAt(l, vs, cs, i)
      BY <1>2, <1>9, HeldIs
    <2>2. \A j \in DOMAIN ds : j # i => ~Has(ds[j].prog, l) /\ ~Has(ds[j].kept, l)
      BY <1>2, <1>3, <1>7, <1>9, <2>1 DEF HeldAt
    <2>3. ds[i].kept = cs[i].kept /\ ds[i].kind = cs[i].kind
      BY <1>3
    <2>4. One(cs[i].prog, l) => One(ds[i].prog, l)
      <3>1. One(cs[n].prog, l) => One(cs[n].prog \o text, l)
        BY <1>5, <1>9, OneMore
      <3>3. CASE i = n
        BY <1>3, <3>1, <3>3
      <3>2. CASE i # n
        BY <1>6, <3>2
      <3> QED
        BY <3>2, <3>3
    <2>5. ~Has(cs[i].prog, l) => ~Has(ds[i].prog, l)
      <3>1. CASE i = n
        BY <1>3, <1>9, <3>1
      <3>2. CASE i # n
        BY <1>6, <3>2
      <3> QED
        BY <3>1, <3>2
    <2>6. HeldAt(l, vs, ds, i)
      BY <2>1, <2>2, <2>3, <2>4, <2>5 DEF HeldAt
    <2> QED
      BY <1>3, <2>6, HeldIs
  <1>10. ASSUME Quiet(l, cs), One(text, l), vs[n] = TRUE PROVE Held(l, vs, ds)
    <2>1. \A j \in DOMAIN ds : j # n => ~Has(ds[j].prog, l) /\ ~Has(ds[j].kept, l)
      BY <1>2, <1>3, <1>6, <1>10 DEF Quiet
    <2>2. ~Has(cs[n].prog, l) /\ ~Has(cs[n].kept, l)
      BY <1>2, <1>10 DEF Quiet
    <2>3. One(ds[n].prog, l)
      BY <1>3, <1>5, <1>10, <2>2, OneMore
    <2>4. ~Has(ds[n].kept, l)
      BY <1>2, <1>3, <2>2
    <2>5. HeldAt(l, vs, ds, n)
      BY <1>10, <2>1, <2>3, <2>4 DEF HeldAt
    <2> QED
      BY <1>2, <1>3, <2>5, HeldIs
  <1> QED
    BY <1>1, <1>8, <1>9, <1>10

\* A construct is opened, without text.
LEMMA PushTexts ==
  ASSUME NEW cs \in Seq(Constructs), cs # <<>>, cs[1].kind = "file", NEW c \in Constructs,
         c.prog = <<>>, c.kept = <<>>, NEW l, NEW vs, NEW us, \A i \in 1 .. Len(cs) : us[i] = vs[i]
  PROVE  /\ Quiet(l, cs) => Quiet(l, Append(cs, c))
         /\ Held(l, vs, cs) => Held(l, us, Append(cs, c))
  <1> DEFINE ds == Append(cs, c)
  <1>1. PICK n : n = Len(cs)
    OBVIOUS
  <1>2. n \in Nat /\ n > 0 /\ DOMAIN cs = 1 .. n
    BY <1>1, EndTyped
  <1>3. /\ ds \in Seq(Constructs) /\ Len(ds) = n + 1 /\ ds[n + 1] = c
        /\ \A i \in 1 .. n : ds[i] = cs[i]
    BY <1>1, AppendProperties
  <1>4. DOMAIN ds = 1 .. n + 1
    BY <1>3, LenProperties
  <1> HIDE DEF ds
  <1>5. /\ \A i \in 1 .. n + 1 : i = n + 1 \/ i \in 1 .. n
        /\ \A i \in 1 .. n : i \in 1 .. n + 1 /\ (i # 1 => i - 1 \in 1 .. n)
    BY <1>2
  <1>6. ~Has(c.prog, l) /\ ~Has(c.kept, l)
    BY HasNone
  <1>7. ASSUME Quiet(l, cs) PROVE Quiet(l, ds)
    BY <1>2, <1>3, <1>4, <1>5, <1>6, <1>7 DEF Quiet
  <1>8. ASSUME Held(l, vs, cs) PROVE Held(l, us, ds)
    <2>1. PICK i \in 1 .. n : HeldAt(l, vs, cs, i)
      BY <1>2, <1>8, HeldIs
    <2>2. \A j \in DOMAIN ds : j # i => ~Has(ds[j].prog, l) /\ ~Has(ds[j].kept, l)
      BY <1>2, <1>3, <1>4, <1>5, <1>6, <2>1 DEF HeldAt
    <2>3. ds[i] = cs[i] /\ us[i] = vs[i] /\ (cs[i].kind = "else" => us[i - 1] = vs[i - 1])
      <3>1. cs[i].kind = "else" => i # 1
        OBVIOUS
      <3> QED
        BY <1>1, <1>3, <1>5, <3>1
    <2>4. HeldAt(l, us, ds, i)
      BY <2>1, <2>2, <2>3 DEF HeldAt
    <2> QED
      BY <1>4, <1>5, <2>4, HeldIs
  <1> QED
    BY <1>7, <1>8 DEF ds

\* #else keeps the text of the part before it if that part was enabled.
LEMMA ElseTexts ==
  ASSUME NEW cs \in Seq(Constructs), cs # <<>>, cs[1].kind = "file", Len(cs) > 1, cs[Len(cs)].kind = "if",
         NEW vs, NEW kept, kept = cs[Len(cs)].prog \/ kept = <<>>,
         vs[Len(cs)] = TRUE => kept = cs[Len(cs)].prog /\ vs[Len(cs) - 1] = TRUE,
         NEW ds, DOMAIN ds = DOMAIN cs, \A i \in 1 .. Len(cs) - 1 : ds[i] = cs[i],
         ds[Len(cs)] = Construct("else", FALSE, kept),
         NEW us, \A i \in 1 .. Len(cs) - 1 : us[i] = vs[i], NEW l
  PROVE  /\ Quiet(l, cs) => Quiet(l, ds)
         /\ Held(l, vs, cs) => Held(l, us, ds)
  <1>1. PICK n : n = Len(cs)
    OBVIOUS
  <1>2. n \in Nat /\ n > 1 /\ DOMAIN cs = 1 .. n /\ DOMAIN ds = 1 .. n
    BY <1>1, EndTyped
  <1>3. ds[n].kind = "else" /\ ds[n].kept = kept /\ ds[n].prog = <<>>
    BY <1>1 DEF Construct
  <1>4. /\ \A i \in 1 .. n : i = n \/ i \in 1 .. n - 1
        /\ \A i \in 1 .. n - 1 : i \in 1 .. n /\ i # n /\ (i # 1 => i - 1 \in 1 .. n - 1)
        /\ n \in 1 .. n /\ n - 1 \in 1 .. n - 1
    BY <1>2
  <1>5. kept = cs[n].prog \/ kept = <<>>
    BY <1>1
  <1>6. ~Has(cs[n].prog, l) => ~Has(ds[n].prog, l) /\ ~Has(ds[n].kept, l)
    BY <1>3, <1>5, HasNone
  <1>7. ASSUME Quiet(l, cs) PROVE Quiet(l, ds)
    BY <1>1, <1>2, <1>4, <1>6, <1>7 DEF Quiet
  <1>8. ASSUME Held(l, vs, cs) PROVE Held(l, us, ds)
    <2>1. PICK i \in 1 .. n : HeldAt(l, vs, cs, i)
      BY <1>2, <1>8, HeldIs
    <2>2. \A j \in DOMAIN ds : j # i => ~Has(ds[j].prog, l) /\ ~Has(ds[j].kept, l)
      BY <1>1, <1>2, <1>4, <1>6, <2>1 DEF HeldAt
    <2>3. CASE i = n
      <3>1. One(cs[n].prog, l) /\ vs[n] = TRUE
        BY <1>1, <2>1, <2>3 DEF HeldAt
      <3>2. kept = cs[n].prog /\ vs[n - 1] = TRUE /\ us[n - 1] = TRUE
        BY <1>1, <1>4, <3>1
      <3>3. One(ds[n].kept, l) /\ ~Has(ds[n].prog, l) /\ ds[n].kind = "else"
        BY <1>3, <3>1, <3>2, HasNone
      <3> QED
        BY <1>2, <2>2, <2>3, <3>2, <3>3, HeldIs DEF HeldAt
    <2>4. CASE i # n
      <3>1. ds[i] = cs[i] /\ us[i] = vs[i] /\ (cs[i].kind = "else" => us[i - 1] = vs[i - 1])
        <4>1. cs[i].kind = "else" => i # 1
          OBVIOUS
        <4> QED
          BY <1>1, <1>4, <2>4, <4>1
      <3>2. HeldAt(l, us, ds, i)
        BY <2>1, <2>2, <3>1 DEF HeldAt
      <3> QED
        BY <1>2, <3>2, HeldIs
    <2> QED
      BY <2>3, <2>4
  <1> QED
    BY <1>7, <1>8

\* A construct ends, and its text goes to the one around it.
LEMMA PopTexts ==
  ASSUME NEW cs \in Seq(Constructs), Len(cs) > 1, cs[1].kind = "file",
         NEW text \in Seq(WrittenLines), NEW ds, AddedTo(Front(cs), ds, text), NEW l,
         ~Has(cs[Len(cs)].prog, l) /\ ~Has(cs[Len(cs)].kept, l) => ~Has(text, l),
         NEW vs, NEW us, \A i \in 1 .. Len(cs) - 1 : us[i] = vs[i],
         HeldAt(l, vs, cs, Len(cs)) => One(text, l) /\ vs[Len(cs) - 1] = TRUE
  PROVE  /\ Quiet(l, cs) => Quiet(l, ds)
         /\ Held(l, vs, cs) => Held(l, us, ds)
  <1> DEFINE bs == Front(cs)
  <1>1. PICK n : n = Len(cs)
    OBVIOUS
  <1>2. n \in Nat /\ n > 1 /\ DOMAIN cs = 1 .. n /\ cs # <<>>
    BY <1>1, LenProperties, EmptySeq
  <1>3. bs \in Seq(Constructs) /\ Len(bs) = n - 1 /\ DOMAIN bs = 1 .. n - 1
        /\ \A i \in 1 .. n - 1 : bs[i] = cs[i]
    BY <1>1, <1>2, FrontIs
  <1>4. AddedTo(bs, ds, text)
    OBVIOUS
  <1> HIDE DEF bs
  <1>5. bs # <<>>
    BY <1>2, <1>3, EmptySeq
  <1>6. /\ \A i \in 1 .. n : i = n \/ i \in 1 .. n - 1
        /\ \A i \in 1 .. n - 1 : i \in 1 .. n /\ i # n /\ (i # 1 => i - 1 \in 1 .. n - 1)
        /\ n \in 1 .. n /\ n - 1 \in 1 .. n - 1
    BY <1>2
  <1>7. ASSUME Quiet(l, cs) PROVE Quiet(l, ds)
    <2>1. Quiet(l, bs)
      BY <1>2, <1>3, <1>6, <1>7 DEF Quiet
    <2>2. ~Has(text, l)
      BY <1>1, <1>2, <1>6, <1>7 DEF Quiet
    <2> QED
      BY <1>3, <1>4, <1>5, <2>1, <2>2, AddTexts
  <1>8. ASSUME Held(l, vs, cs) PROVE Held(l, us, ds)
    <2>1. PICK i \in 1 .. n : HeldAt(l, vs, cs, i)
      BY <1>2, <1>8, HeldIs
    <2>2. CASE i = n
      <3>1. Quiet(l, bs)
        BY <1>2, <1>3, <1>6, <2>1, <2>2 DEF HeldAt, Quiet
      <3>2. One(text, l) /\ us[Len(bs)] = TRUE
        BY <1>1, <1>3, <1>6, <2>1, <2>2
      <3> QED
        BY <1>3, <1>4, <1>5, <3>1, <3>2, AddTexts
    <2>3. CASE i # n
      <3>1. i \in 1 .. n - 1 /\ bs[i] = cs[i] /\ us[i] = vs[i] /\ (cs[i].kind = "else" => us[i - 1] = vs[i - 1])
        <4>1. cs[i].kind = "else" => i # 1
          OBVIOUS
        <4> QED
          BY <1>1, <1>3, <1>6, <2>3, <4>1
      <3>2. HeldAt(l, us, bs, i)
        BY <1>2, <1>3, <1>6, <2>1, <3>1 DEF HeldAt
      <3>3. Held(l, us, bs)
        BY <1>3, <3>1, <3>2, HeldIs
      <3>4. ~Has(text, l)
        BY <1>1, <1>2, <1>6, <2>1, <2>3 DEF HeldAt
      <3> QED
        BY <1>3, <1>4, <1>5, <3>3, <3>4, AddTexts
    <2> QED
      BY <2>2, <2>3
  <1> QED
    BY <1>7, <1>8
-----------------------------------------------------------------------------
\* The file that declares l: the one it is listed with, or one that file includes.
Home(l) == CHOOSE h \in Runtime : \A c \in Contents : Declaring(c, l, h)

\* The generated code includes the file of l if it is one the code requires.
Due(l) == phase = "asm" /\ Module[l] \in REQUIRES

\* The file that declares l has not been opened, its line is still to be read,
\* or has been.
Awaited(l, base) ==
  /\ Home(l) \notin DOMAIN INCLUDED
  /\ Quiet(l, constructs) /\ NoRest(l, filestack)
  /\ FileOf(l) \in DOMAIN INCLUDED => Awaits(Home(l), base, filestack, Len(constructs))
  /\ Due(l) /\ FileOf(l) \notin DOMAIN INCLUDED => Awaits(FileOf(l), base, filestack, Len(constructs))

Arriving(l, base) ==
  /\ Home(l) \in DOMAIN INCLUDED
  /\ Quiet(l, constructs) /\ Coming(l, base, filestack, Len(constructs))

Arrived(l, vs) ==
  /\ Home(l) \in DOMAIN INCLUDED
  /\ Held(l, vs, constructs) /\ NoRest(l, filestack)

OnceNow(l) ==
  \E vs, pos, base :
    /\ Levels(vs, pos, constructs, IFDEFS, enabled) /\ Bases(base, Len(filestack), constructs)
    /\ Awaited(l, base) \/ Arriving(l, base) \/ Arrived(l, vs)

\* A file that is not open in any conditional is read where lines are enabled.
LEMMA OnTop ==
  ASSUME NEW vs, NEW pos, NEW cs \in Seq(Constructs), NEW ifd, NEW en \in BOOLEAN,
         Levels(vs, pos, cs, ifd, en), NEW base, NEW K \in Nat, Bases(base, K, cs), Parts(base, Len(cs), K) = 0
  PROVE  vs[Len(cs)] = TRUE /\ en = TRUE
  <1>1. PICK n : n = Len(cs)
    OBVIOUS
  <1>2. n \in Nat
    BY <1>1, LenProperties
  <1>3. Len(base) = K /\ base[K] \in 1 .. n /\ (cs[n].kind = "file" <=> base[K] = n)
    BY <1>1, <1>2, BasesIs
  <1>4. base[K] = n
    BY <1>1, <1>2, <1>3 DEF Parts
  <1>5. cs[n].kind = "file" /\ n \in 1 .. n
    BY <1>3, <1>4
  <1> QED
    BY <1>1, <1>5 DEF Levels

\* A line is read, which is not the one that declares l and opens no file.
LEMMA LineOnce ==
  ASSUME TypedInv, ~has_errors, filestack # <<>>, Last(filestack).rest # <<>>,
         filestack' = Advanced, UNCHANGED Driver, NEW l, ~TextLine(Line, l),
         \A f \in {FileOf(l), Home(l)} : f \in DOMAIN INCLUDED' <=> f \in DOMAIN INCLUDED,
         enabled /\ Line.op = "include_once" /\ Found \in {FileOf(l), Home(l)} => Found \in DOMAIN INCLUDED,
         NEW vs, NEW pos, NEW base,
         Levels(vs, pos, constructs, IFDEFS, enabled), Bases(base, Len(filestack), constructs),
         Awaited(l, base) \/ Arriving(l, base) \/ Arrived(l, vs),
         NEW us, NEW qos, Levels(us, qos, constructs', IFDEFS', enabled'),
         Bases(base, Len(filestack), constructs'),
         Len(constructs') = Len(constructs) + Turn(Line),
         Quiet(l, constructs) => Quiet(l, constructs'),
         Held(l, vs, constructs) => Held(l, us, constructs')
  PROVE  OnceNow(l)'
  <1>1. PICK K, n : K = Len(filestack) /\ n = Len(constructs)
    OBVIOUS
  <1>2. constructs \in Seq(Constructs) /\ n \in Nat /\ K \in Nat /\ Read(filestack, Advanced, Line)
    BY <1>1, ReadIs, ConstructsOpen DEF Read
  <1>3. base \in Seq(Nat) /\ Len(base) = K /\ K > 0
    BY <1>1 DEF Bases
  <1>4. /\ NoRest(l, filestack) => NoRest(l, filestack')
        /\ Coming(l, base, filestack, n) => Coming(l, base, filestack', n + Turn(Line))
    BY <1>1, <1>2, <1>3, RestNone, RestComing
  <1>5. UNCHANGED <<phase, REQUIRES>>
    BY DEF Driver
  <1>6. CASE Awaited(l, base)
    <2>1. ASSUME NEW f \in {FileOf(l), Home(l)}, f \notin DOMAIN INCLUDED, Awaits(f, base, filestack, n)
          PROVE  Awaits(f, base, filestack', n + Turn(Line))
      <3>1. \/ Asks(Line, f) /\ Parts(base, n, Len(filestack)) = 0
            \/ Awaits(f, base, Advanced, n + Turn(Line))
        BY <1>1, <1>2, <1>3, <2>1, RestAwaits
      <3>2. ASSUME Asks(Line, f), Parts(base, n, K) = 0 PROVE FALSE
        <4>1. Line.op = "include_once" /\ Found = f
          BY <3>2 DEF Found, search_filename, Asks
        <4>2. Parts(base, Len(constructs), K) = 0
          BY <1>1, <3>2
        <4>3. enabled = TRUE
          <5>1. Bases(base, K, constructs) /\ enabled \in BOOLEAN
            BY <1>1, Here
          <5> QED
            BY ONLY <1>2, <4>2, <5>1, Levels(vs, pos, constructs, IFDEFS, enabled), OnTop
        <4> QED
          BY <2>1, <4>1, <4>3
      <3> QED
        BY <1>1, <3>1, <3>2
    <2>3. /\ (FileOf(l) \in DOMAIN INCLUDED)' => Awaits(Home(l), base, filestack', n + Turn(Line))
          /\ (Due(l) /\ FileOf(l) \notin DOMAIN INCLUDED)' => Awaits(FileOf(l), base, filestack', n + Turn(Line))
      BY <1>1, <1>5, <1>6, <2>1 DEF Awaited, Due, FileOf
    <2>2. Awaited(l, base)'
      BY <1>1, <1>4, <1>6, <2>3 DEF Awaited, Due, FileOf, Home
    <2> QED
      BY <1>1, <1>2, <2>2 DEF OnceNow, Read
  <1>7. CASE Arriving(l, base)
    <2>1. Arriving(l, base)'
      BY <1>1, <1>4, <1>7 DEF Arriving, Home
    <2> QED
      BY <1>1, <1>2, <2>1 DEF OnceNow, Read
  <1>8. CASE Arrived(l, vs)
    <2>1. Arrived(l, us)'
      BY <1>4, <1>8 DEF Arrived, Home
    <2> QED
      BY <1>1, <1>2, <2>1 DEF OnceNow, Read
  <1> QED
    BY <1>6, <1>7, <1>8

LEMMA SkipOnce ==
  ASSUME TypedInv, ~has_errors, filestack # <<>>, Last(filestack).rest # <<>>,
         NEW l, OnceNow(l), Line.op \notin {"if", "else", "endif"},
         NEW text \in {<<>>, <<Line>>}, Line.op = "text" => text = <<Line>>,
         Skip(text), UNCHANGED conditions, UNCHANGED Driver,
         \A f \in {FileOf(l), Home(l)} : f \in DOMAIN INCLUDED' <=> f \in DOMAIN INCLUDED,
         enabled /\ Line.op = "include_once" /\ Found \in {FileOf(l), Home(l)} => Found \in DOMAIN INCLUDED
  PROVE  OnceNow(l)'
  <1>1. PICK vs, pos, base :
          /\ Levels(vs, pos, constructs, IFDEFS, enabled) /\ Bases(base, Len(filestack), constructs)
          /\ Awaited(l, base) \/ Arriving(l, base) \/ Arrived(l, vs)
    BY DEF OnceNow
  <1>2. PICK K, n : K = Len(filestack) /\ n = Len(constructs)
    OBVIOUS
  <1>3. /\ constructs \in Seq(Constructs) /\ constructs # <<>> /\ n \in Nat /\ K \in Nat
        /\ Read(filestack, Advanced, Line) /\ Line \in WrittenLines
    BY <1>2, ReadIs, ConstructsOpen, LineRead DEF Read, TypedInv
  <1>4. text \in Seq(WrittenLines)
    <2>1. <<Line>> \in Seq(WrittenLines)
      BY <1>3
    <2> QED
      BY <2>1, EmptySeq
  <1>5. AddedTo(constructs, constructs', text)
    BY <1>3, <1>4, AddedIs DEF Skip
  <1>6. /\ Len(constructs') = n
        /\ \A i \in 1 .. n : constructs'[i].kind = constructs[i].kind /\ constructs'[i].hdr = constructs[i].hdr
    BY <1>2, <1>5 DEF AddedTo
  <1>7. Levels(vs, pos, constructs', IFDEFS', enabled')
    <2>1. Levels(vs, pos, constructs', IFDEFS, enabled)
      BY <1>1, <1>2, <1>3, <1>6, LevelsSame
    <2> QED
      BY <2>1 DEF conditions
  <1>8. Bases(base, K, constructs')
    BY <1>1, <1>2, <1>6, BasesSame
  <1>9. Turn(Line) = 0 /\ n + 0 = n
    BY <1>3 DEF Turn
  <1>10. filestack' = Advanced
    BY DEF Skip
  <1>11. CASE ~TextLine(Line, l)
    <2>1. ~Has(text, l)
      BY <1>11, HasOne, HasNone DEF TextLine
    <2>2. /\ Quiet(l, constructs) => Quiet(l, constructs')
          /\ Held(l, vs, constructs) => Held(l, vs, constructs')
      BY <1>3, <1>4, <1>5, <2>1, AddTexts
    <2> QED
      BY <1>1, <1>2, <1>6, <1>7, <1>8, <1>9, <1>10, <1>11, <2>2, LineOnce
  <1>12. CASE TextLine(Line, l)
    <2>1. text = <<Line>> /\ One(text, l)
      BY <1>12, OneOnly DEF TextLine
    <2>2. base \in Seq(Nat) /\ Len(base) = K
      BY <1>1, <1>2 DEF Bases
    <2>3. ~NoRest(l, filestack)
      BY <1>3, <1>12, RestNone
    <2>4. Arriving(l, base)
      BY <1>1, <2>3 DEF Awaited, Arrived
    <2>5. Parts(base, n, K) = 0 /\ NoRest(l, Advanced)
      <3>1. Coming(l, base, filestack, n)
        BY <1>2, <2>4 DEF Arriving
      <3> QED
        BY <1>2, <1>3, <1>12, <2>2, <3>1, RestComing
    <2>6. vs[n] = TRUE
      <3>1. enabled \in BOOLEAN
        BY Here
      <3> QED
        BY <1>1, <1>2, <1>3, <2>5, <3>1, OnTop
    <2>7. Held(l, vs, constructs')
      BY <1>2, <1>3, <1>4, <1>5, <2>1, <2>4, <2>6, AddTexts DEF Arriving
    <2>8. Arrived(l, vs)'
      BY <1>10, <2>4, <2>5, <2>7 DEF Arrived, Arriving, Home
    <2>9. Len(filestack') = K
      BY <1>2, <1>3, <1>10 DEF Read
    <2> QED
      BY <1>7, <1>8, <2>8, <2>9 DEF OnceNow
  <1> QED
    BY <1>11, <1>12

LEMMA IfOnce ==
  ASSUME TypedInv, ~has_errors, NEW l, OnceNow(l), IfHeader, UNCHANGED Driver
  PROVE  OnceNow(l)'
  <1> DEFINE hdr == enabled /\ ((Line.arg \in ID_TABLE) # Line.flag)
  <1>1. /\ filestack # <<>> /\ Last(filestack).rest # <<>> /\ Line.op = "if"
        /\ constructs' = Append(constructs, Construct("if", hdr, <<>>))
        /\ IFDEFS' = Append(IFDEFS, enabled) /\ enabled' = hdr
        /\ filestack' = Advanced /\ UNCHANGED INCLUDED
    BY DEF IfHeader, Reading, files
  <1>2. PICK vs, pos, base :
          /\ Levels(vs, pos, constructs, IFDEFS, enabled) /\ Bases(base, Len(filestack), constructs)
          /\ Awaited(l, base) \/ Arriving(l, base) \/ Arrived(l, vs)
    BY DEF OnceNow
  <1>3. PICK K, n : K = Len(filestack) /\ n = Len(constructs)
    OBVIOUS
  <1>4. /\ constructs \in Seq(Constructs) /\ constructs # <<>> /\ n \in Nat /\ K \in Nat
        /\ IFDEFS \in Seq(BOOLEAN) /\ enabled \in BOOLEAN
    BY <1>1, <1>3, Here, ReadIs, ConstructsOpen DEF Read
  <1>5. PICK h : h = hdr
    OBVIOUS
  <1>6. h \in BOOLEAN /\ (h = TRUE => enabled = TRUE)
    BY <1>4, <1>5
  <1> HIDE DEF hdr
  <1>7. PICK c : c = Construct("if", h, <<>>)
    OBVIOUS
  <1>8. c \in Constructs /\ c.kind = "if" /\ c.hdr = h /\ c.prog = <<>> /\ c.kept = <<>>
    <2>1. c \in Constructs
      BY <1>6, <1>7, ConstructTyped, EmptySeq DEF Kinds
    <2> QED
      BY <1>7, <2>1 DEF Construct
  <1>9. PICK jfd : jfd = Append(IFDEFS, enabled)
    OBVIOUS
  <1>10. constructs' = Append(constructs, c) /\ IFDEFS' = jfd /\ enabled' = h
    BY <1>1, <1>5, <1>7, <1>9
  <1>11. Levels(Append(vs, h), Append(pos, Len(jfd)), Append(constructs, c), jfd, h)
    BY <1>2, <1>4, <1>6, <1>8, <1>9, PushLevels
  <1>12. Bases(base, K, Append(constructs, c))
    BY <1>2, <1>3, <1>4, <1>8, PushPartBases
  <1>13. \A i \in 1 .. n : Append(vs, h)[i] = vs[i]
    <2>1. vs \in Seq(BOOLEAN) /\ Len(vs) = n
      BY <1>2, <1>3 DEF Levels
    <2> QED
      BY <1>6, <2>1, AppendProperties
  <1>14. constructs[1].kind = "file"
    BY <1>2 DEF Levels
  <1>15. /\ Quiet(l, constructs) => Quiet(l, Append(constructs, c))
         /\ Held(l, vs, constructs) => Held(l, Append(vs, h), Append(constructs, c))
    BY <1>3, <1>4, <1>8, <1>13, <1>14, PushTexts
  <1>16. Turn(Line) = 1 /\ ~TextLine(Line, l)
    BY <1>1 DEF Turn, TextLine
  <1>17. Len(constructs') = n + Turn(Line)
    BY <1>3, <1>4, <1>8, <1>10, <1>16, AppendProperties
  <1>18. Line.op # "include_once"
    BY <1>1
  <1> QED
    BY <1>1, <1>2, <1>3, <1>10, <1>11, <1>12, <1>15, <1>16, <1>17, <1>18, LineOnce

LEMMA ElseOnce ==
  ASSUME TypedInv, ~has_errors, NEW l, OnceNow(l), Else, UNCHANGED Driver
  PROVE  OnceNow(l)'
  <1>1. /\ filestack # <<>> /\ Last(filestack).rest # <<>> /\ Line.op = "else" /\ Top.kind = "if"
        /\ constructs' = [constructs EXCEPT ![Len(constructs)] =
                            Construct("else", FALSE, IF Last(IFDEFS) /\ Top.hdr THEN Top.prog ELSE <<>>)]
        /\ enabled' = (IF Last(IFDEFS) THEN ~Top.hdr ELSE enabled)
        /\ IFDEFS' = IFDEFS
        /\ filestack' = Advanced /\ UNCHANGED INCLUDED
    BY DEF Else, Reading, files
  <1>2. PICK vs, pos, base :
          /\ Levels(vs, pos, constructs, IFDEFS, enabled) /\ Bases(base, Len(filestack), constructs)
          /\ Awaited(l, base) \/ Arriving(l, base) \/ Arrived(l, vs)
    BY DEF OnceNow
  <1>3. PICK K, n : K = Len(filestack) /\ n = Len(constructs)
    OBVIOUS
  <1>4. /\ constructs \in Seq(Constructs) /\ constructs # <<>> /\ n \in Nat /\ n > 0 /\ K \in Nat
        /\ DOMAIN constructs = 1 .. n /\ constructs[n] \in Constructs
        /\ IFDEFS \in Seq(BOOLEAN) /\ enabled \in BOOLEAN /\ Top = constructs[n]
    BY <1>1, <1>3, Here, ReadIs, EndTyped, ConstructsOpen DEF Read
  <1>5. PICK kept : kept = (IF Last(IFDEFS) /\ Top.hdr THEN Top.prog ELSE <<>>)
    OBVIOUS
  <1>6. PICK ds, fn : ds = constructs' /\ fn = enabled'
    OBVIOUS
  <1>7. ds = [constructs EXCEPT ![n] = Construct("else", FALSE, kept)]
    BY <1>1, <1>3, <1>5, <1>6
  <1>8. kept \in Seq(WrittenLines)
    <2>1. constructs[n].prog \in Seq(WrittenLines)
      BY <1>4 DEF Constructs
    <2> QED
      BY <1>4, <1>5, <2>1, EmptySeq
  <1>9. Construct("else", FALSE, kept) \in Constructs
    BY <1>8, ConstructTyped DEF Kinds
  <1>10. ds \in Seq(Constructs) /\ Len(ds) = n
    <2>1. n \in 1 .. Len(constructs) /\ constructs \in Seq(Constructs)
      BY <1>3, <1>4
    <2>2. PICK c : c = Construct("else", FALSE, kept)
      OBVIOUS
    <2>3. c \in Constructs /\ ds = [constructs EXCEPT ![n] = c]
      BY <1>7, <1>9, <2>2
    <2>4. /\ [constructs EXCEPT ![n] = c] \in Seq(Constructs)
          /\ Len([constructs EXCEPT ![n] = c]) = Len(constructs)
      BY ONLY <2>1, <2>3, ExceptSeq
    <2> QED
      BY <1>3, <2>3, <2>4
  <1>11. /\ ds[n] = Construct("else", FALSE, kept) /\ ds[n].kind = "else"
         /\ \A i \in 1 .. n - 1 : ds[i] = constructs[i]
         /\ DOMAIN ds = 1 .. n
    <2>1. ds[n] = Construct("else", FALSE, kept)
      <3>1. n \in DOMAIN constructs
        BY <1>4
      <3> QED
        BY ONLY <1>7, <3>1
    <2>2. ds[n].kind = "else"
      BY <2>1 DEF Construct
    <2>3. \A i \in 1 .. n - 1 : i \in 1 .. n /\ i # n
      BY <1>4
    <2> QED
      BY <1>4, <1>7, <2>1, <2>2, <2>3
  <1>12. fn = (IF Last(IFDEFS) THEN ~constructs[n].hdr ELSE enabled) /\ constructs[n].kind = "if"
    BY <1>1, <1>4, <1>6
  <1>13. constructs[n].hdr \in BOOLEAN
    BY <1>4 DEF Constructs
  <1>14. fn \in BOOLEAN
    BY <1>4, <1>12, <1>13
  <1>22. IFDEFS # <<>>
    <2>1. constructs[1].kind = "file" /\ pos[n] = Len(IFDEFS) /\ pos \in Seq(Nat) /\ Len(pos) = n
      BY <1>2, <1>3 DEF Levels
    <2>2. n # 1
      BY <1>12, <2>1
    <2>3. n \in 2 .. n /\ n - 1 \in 1 .. n
      BY <1>4, <2>2
    <2>4. pos[n] = pos[n - 1] + 1
      BY <1>2, <1>3, <1>12, <2>3 DEF Levels
    <2>5. pos[n - 1] \in Nat
      BY <2>1, <2>3, ElementOfSeq
    <2>6. Len(IFDEFS) # 0
      BY <2>1, <2>4, <2>5
    <2> QED
      BY <2>6, EmptySeq
  <1>15. PICK us : /\ Levels(us, pos, ds, IFDEFS, fn)
                   /\ n > 1 /\ vs[n - 1] = Last(IFDEFS)
                   /\ \A i \in 1 .. n - 1 : us[i] = vs[i]
    <2>1. /\ Levels(vs, pos, constructs, IFDEFS, enabled) /\ constructs[Len(constructs)].kind = "if"
          /\ Last(IFDEFS) = TRUE \/ fn = enabled
          /\ Len(ds) = Len(constructs) /\ ds[Len(constructs)].kind = "else"
          /\ \A i \in 1 .. Len(constructs) - 1 : ds[i] = constructs[i]
      <3>1. Last(IFDEFS) \in BOOLEAN
        BY <1>4, <1>22, EndTyped
      <3>2. Last(IFDEFS) = TRUE \/ fn = enabled
        BY <1>12, <3>1
      <3> QED
        BY <1>2, <1>3, <1>10, <1>11, <1>12, <3>2
    <2>2. PICK cs, jfd, en : cs = constructs /\ jfd = IFDEFS /\ en = enabled
      OBVIOUS
    <2>3. Turned(vs, pos, cs, jfd, en, ds, fn)
      BY <1>4, <1>14, <2>1, <2>2 DEF Turned
    <2>4. PICK us : /\ Levels(us, pos, ds, jfd, fn)
                    /\ Len(cs) > 1 /\ vs[Len(cs) - 1] = Last(jfd)
                    /\ \A i \in 1 .. Len(cs) - 1 : us[i] = vs[i]
      BY ONLY <2>3, TurnLevels
    <2> QED
      BY <1>3, <2>2, <2>4
  <1>16. /\ constructs[1].kind = "file" /\ constructs[n].hdr = vs[n]
         /\ vs[n] = TRUE => vs[n - 1] = TRUE
    <2>1. n \in 1 .. n /\ n \in 2 .. n
      BY <1>4, <1>15
    <2> QED
      BY <1>2, <1>3, <1>12, <2>1 DEF Levels
  <1>17. kept = (IF vs[n - 1] /\ constructs[n].hdr THEN constructs[n].prog ELSE <<>>)
    BY <1>4, <1>5, <1>15
  <1>18. /\ Quiet(l, constructs) => Quiet(l, ds)
         /\ Held(l, vs, constructs) => Held(l, us, ds)
    <2>1. /\ Len(constructs) > 1 /\ constructs[Len(constructs)].kind = "if"
          /\ kept = constructs[Len(constructs)].prog \/ kept = <<>>
          /\ vs[Len(constructs)] = TRUE =>
               kept = constructs[Len(constructs)].prog /\ vs[Len(constructs) - 1] = TRUE
          /\ DOMAIN ds = DOMAIN constructs
          /\ \A i \in 1 .. Len(constructs) - 1 : ds[i] = constructs[i]
          /\ ds[Len(constructs)] = Construct("else", FALSE, kept)
          /\ \A i \in 1 .. Len(constructs) - 1 : us[i] = vs[i]
      BY <1>3, <1>4, <1>11, <1>12, <1>15, <1>16, <1>17
    <2> QED
      <3>1. constructs \in Seq(Constructs) /\ constructs # <<>> /\ constructs[1].kind = "file"
        BY <1>4, <1>16
      <3> QED
        BY ONLY <2>1, <3>1, ElseTexts
  <1>19. Bases(base, K, ds)
    <2>1. ASSUME NEW i \in 1 .. n PROVE ds[i].kind = "file" <=> constructs[i].kind = "file"
      <3>1. CASE i = n
        BY <1>11, <1>12, <3>1
      <3>2. CASE i # n
        <4>1. i \in 1 .. n - 1
          BY <1>4, <3>2
        <4> QED
          BY <1>11, <4>1
      <3> QED
        BY <3>1, <3>2
    <2> QED
      BY <1>2, <1>3, <1>10, <2>1, BasesSame
  <1>20. Turn(Line) = 0 /\ ~TextLine(Line, l) /\ Line.op # "include_once" /\ n + 0 = n
    BY <1>1, <1>4 DEF Turn, TextLine
  <1>21. Levels(us, pos, constructs', IFDEFS', enabled')
    BY <1>1, <1>6, <1>15
  <1> QED
    BY <1>1, <1>2, <1>3, <1>6, <1>10, <1>18, <1>19, <1>20, <1>21, LineOnce

LEMMA EndIfOnce ==
  ASSUME TypedInv, ~has_errors, NEW l, OnceNow(l), EndIf, UNCHANGED Driver
  PROVE  OnceNow(l)'
  <1> DEFINE part == IF enabled THEN Top.prog ELSE <<>>
             text == IF Top.kind = "if" THEN part
                     ELSE IF Last(IFDEFS) THEN Top.kept \o part ELSE <<>>
  <1>1. /\ filestack # <<>> /\ Last(filestack).rest # <<>> /\ Line.op = "endif"
        /\ Top.kind \in {"if", "else"}
        /\ constructs' = Added(Front(constructs), text)
        /\ IFDEFS' = Front(IFDEFS) /\ enabled' = Last(IFDEFS)
        /\ filestack' = Advanced /\ UNCHANGED INCLUDED
    BY DEF EndIf, Reading, files
  <1>2. PICK vs, pos, base :
          /\ Levels(vs, pos, constructs, IFDEFS, enabled) /\ Bases(base, Len(filestack), constructs)
          /\ Awaited(l, base) \/ Arriving(l, base) \/ Arrived(l, vs)
    BY DEF OnceNow
  <1>3. PICK K, n : K = Len(filestack) /\ n = Len(constructs)
    OBVIOUS
  <1>4. /\ constructs \in Seq(Constructs) /\ constructs # <<>> /\ n \in Nat /\ n > 0 /\ K \in Nat
        /\ DOMAIN constructs = 1 .. n /\ constructs[n] \in Constructs
        /\ IFDEFS \in Seq(BOOLEAN) /\ enabled \in BOOLEAN /\ Top = constructs[n]
    BY <1>1, <1>3, Here, ReadIs, EndTyped, ConstructsOpen DEF Read
  <1>5. PICK p : p = part
    OBVIOUS
  <1>6. PICK t : t = text
    OBVIOUS
  <1>7. /\ p = (IF enabled THEN constructs[n].prog ELSE <<>>)
        /\ t = (IF constructs[n].kind = "if" THEN p ELSE IF Last(IFDEFS) THEN constructs[n].kept \o p ELSE <<>>)
    BY <1>4, <1>5, <1>6
  <1>8. constructs' = Added(Front(constructs), t)
    BY <1>1, <1>6
  <1> HIDE DEF part, text
  <1>9. constructs[n].kind \in {"if", "else"} /\ constructs[1].kind = "file" /\ n > 1
    <2>1. constructs[n].kind \in {"if", "else"} /\ constructs[1].kind = "file"
      BY <1>1, <1>2, <1>4 DEF Levels
    <2>2. n # 1
      BY <2>1
    <2> QED
      BY <1>4, <2>1, <2>2
  <1>10. /\ constructs[n].prog \in Seq(WrittenLines) /\ constructs[n].kept \in Seq(WrittenLines)
         /\ p \in Seq(WrittenLines) /\ t \in Seq(WrittenLines)
    <2>1. constructs[n].prog \in Seq(WrittenLines) /\ constructs[n].kept \in Seq(WrittenLines)
      BY <1>4 DEF Constructs
    <2>2. p \in Seq(WrittenLines)
      BY <1>7, <2>1, EmptySeq
    <2> QED
      BY <1>7, <2>1, <2>2, EmptySeq, ConcatProperties
  <1>11. Front(constructs) \in Seq(Constructs) /\ Len(Front(constructs)) = n - 1
         /\ \A i \in 1 .. n - 1 : Front(constructs)[i] = constructs[i]
    BY <1>3, <1>4, FrontIs
  <1>12. Front(constructs) # <<>>
    BY <1>4, <1>9, <1>11, EmptySeq
  <1>13. AddedTo(Front(constructs), constructs', t)
    BY <1>8, <1>10, <1>11, <1>12, AddedIs
  <1>14. /\ Levels(Front(vs), Front(pos), Front(constructs), Front(IFDEFS), Last(IFDEFS))
         /\ \A i \in 1 .. n - 1 : Front(vs)[i] = vs[i]
         /\ vs[n - 1] = Last(IFDEFS)
    <2>1. PICK jfd, fn : jfd = Front(IFDEFS) /\ fn = Last(IFDEFS)
      OBVIOUS
    <2>2. Len(constructs) > 1 /\ constructs[Len(constructs)].kind # "file"
      BY <1>3, <1>9
    <2>3. /\ Levels(Front(vs), Front(pos), Front(constructs), jfd, fn)
          /\ \A i \in 1 .. Len(constructs) - 1 : Front(vs)[i] = vs[i]
          /\ vs[Len(constructs) - 1] = fn
      <3>1. constructs \in Seq(Constructs) /\ IFDEFS \in Seq(BOOLEAN)
        BY <1>4
      <3>2. IF constructs[Len(constructs)].kind = "file"
              THEN jfd = IFDEFS /\ fn = enabled ELSE jfd = Front(IFDEFS) /\ fn = Last(IFDEFS)
        BY <2>1, <2>2
      <3> QED
        BY ONLY <1>2, <2>2, <3>1, <3>2, PopLevels
    <2> QED
      BY <1>3, <2>1, <2>3
  <1>15. /\ Len(constructs') = n - 1
         /\ \A i \in 1 .. n - 1 : /\ constructs'[i].kind = Front(constructs)[i].kind
                                  /\ constructs'[i].hdr = Front(constructs)[i].hdr
    BY <1>11, <1>13 DEF AddedTo
  <1>16. Levels(Front(vs), Front(pos), constructs', IFDEFS', enabled')
    <2>1. n - 1 \in Nat
      BY <1>4
    <2>2. Levels(Front(vs), Front(pos), constructs', Front(IFDEFS), Last(IFDEFS))
      BY <1>11, <1>14, <1>15, <2>1, LevelsSame
    <2> QED
      BY <1>1, <2>2
  <1>17. Bases(base, K, constructs')
    <2>1. constructs[n].kind # "file"
      BY <1>9
    <2>2. Bases(base, K, Front(constructs))
      BY <1>2, <1>3, <1>4, <2>1, PopPartBases
    <2> QED
      BY <1>11, <1>15, <2>2, BasesSame
  <1>18. ASSUME ~Has(constructs[n].prog, l), ~Has(constructs[n].kept, l) PROVE ~Has(t, l)
    <2>1. ~Has(p, l)
      BY <1>7, <1>18, HasNone
    <2>2. ~Has(constructs[n].kept \o p, l)
      BY <1>10, <1>18, <2>1, HasMore
    <2>3. t = p \/ t = constructs[n].kept \o p \/ t = <<>>
      BY <1>7
    <2> QED
      BY <2>1, <2>2, <2>3, HasNone
  <1>19. ASSUME HeldAt(l, vs, constructs, n) PROVE One(t, l) /\ vs[n - 1] = TRUE
    <2>1. vs[n] = enabled /\ (vs[n] = TRUE => vs[n - 1] = TRUE)
      <3>1. n \in 2 .. n
        BY <1>4, <1>9
      <3> QED
        BY <1>2, <1>3, <3>1 DEF Levels
    <2>2. CASE One(constructs[n].prog, l) /\ ~Has(constructs[n].kept, l) /\ vs[n] = TRUE
      <3>1. p = constructs[n].prog /\ vs[n - 1] = TRUE
        BY <1>7, <2>1, <2>2
      <3>2. One(constructs[n].kept \o p, l)
        BY <1>10, <2>2, <3>1, OneMore
      <3>3. t = p \/ t = constructs[n].kept \o p
        BY <1>7, <1>14, <3>1
      <3> QED
        BY <2>2, <3>1, <3>2, <3>3
    <2>3. CASE /\ One(constructs[n].kept, l) /\ ~Has(constructs[n].prog, l)
               /\ constructs[n].kind = "else" /\ vs[n - 1] = TRUE
      <3>1. ~Has(p, l)
        BY <1>7, <2>3, HasNone
      <3>2. One(constructs[n].kept \o p, l)
        BY <1>10, <2>3, <3>1, OneMore
      <3>3. t = constructs[n].kept \o p
        BY <1>7, <1>14, <2>3
      <3> QED
        BY <2>3, <3>2, <3>3
    <2> QED
      BY <1>19, <2>2, <2>3 DEF HeldAt
  <1>20. /\ Quiet(l, constructs) => Quiet(l, constructs')
         /\ Held(l, vs, constructs) => Held(l, Front(vs), constructs')
    BY <1>3, <1>4, <1>9, <1>10, <1>13, <1>14, <1>18, <1>19, PopTexts
  <1>21. Turn(Line) = -1 /\ ~TextLine(Line, l) /\ Line.op # "include_once" /\ n + (-1) = n - 1
    BY <1>1, <1>4 DEF Turn, TextLine
  <1> QED
    BY <1>1, <1>2, <1>3, <1>15, <1>16, <1>17, <1>20, <1>21, LineOnce
-----------------------------------------------------------------------------
LEMMA HomeIs ==
  ASSUME NEW l \in DOMAIN Module
  PROVE  /\ Home(l) \in Runtime /\ FileOf(l) \in Runtime
         /\ \A c \in Contents : Declaring(c, l, Home(l))
  <1>1. FileOf(l) \in Runtime /\ \E h \in Runtime : \A c \in Contents : Declaring(c, l, h)
    BY LabelAssumption
  <1> QED
    BY <1>1 DEF Home

LEMMA LabelIs ==
  ASSUME NEW l \in DOMAIN Module, NEW c \in Contents
  PROVE  /\ FileOf(l) \in File /\ FileOf(l) # Main /\ Home(l) \in File /\ Home(l) # Main
         /\ Home(l) = FileOf(l) \/ Reaches(Home(l), c[FileOf(l)], 0)
         /\ Comes(l, c[Home(l)], 0)
         /\ \A f \in File \ {Home(l)} : ~Has(c[f], l)
  <1>1. PICK h, g : h = Home(l) /\ g = FileOf(l)
    OBVIOUS
  <1>2. h \in Runtime /\ g \in Runtime /\ Declaring(c, l, h)
    BY <1>1, HomeIs
  <1>3. h \in File /\ h # Main /\ g \in File /\ g # Main
    BY <1>2, RuntimeAssumption
  <1>4. c[h] \in Seq(Range(c[h])) /\ c[g] \in Seq(Range(c[g]))
    BY <1>3, PreprocessorAssumption
  <1>5. h = g \/ Reaches(h, c[g], 0)
    <2>1. h = g \/ \E q \in DOMAIN c[g] : Depth(c[g], q) = 0 /\ Asks(c[g][q], h)
      BY <1>1, <1>2 DEF Declaring
    <2>2. ASSUME NEW q \in DOMAIN c[g], Depth(c[g], q) = 0, Asks(c[g][q], h) PROVE Reaches(h, c[g], 0)
      <3>1. Apart(c[g], 0, q)
        BY <1>4, <2>2, ApartIs
      <3> QED
        BY <2>2, <3>1 DEF Reaches
    <2> QED
      BY <2>1, <2>2
  <1>6. Comes(l, c[h], 0)
    <2>1. PICK q \in DOMAIN c[h] : Declares(c[h], l, q)
      BY <1>2 DEF Declaring
    <2>2. Depth(c[h], q) = 0 /\ \A i \in DOMAIN c[h] : TextLine(c[h][i], l) <=> i = q
      BY <2>1 DEF Declares, TextLine
    <2>3. Apart(c[h], 0, q)
      BY <1>4, <2>2, ApartIs
    <2> QED
      BY <2>2, <2>3 DEF Comes
  <1>7. ASSUME NEW f \in File \ {h} PROVE ~Has(c[f], l)
    <2>1. \A x \in Range(c[f]) : x.op = "text" => x.arg # l
      BY <1>2 DEF Declaring
    <2>2. \A i \in DOMAIN c[f] : c[f][i] \in Range(c[f])
      BY DEF Range
    <2> QED
      BY <2>1, <2>2 DEF Has
  <1> QED
    BY <1>1, <1>3, <1>5, <1>6, <1>7

\* An #include that is not once opens no file that declares a label.
LEMMA IncludeOther ==
  ASSUME TypedInv, filestack # <<>>, Last(filestack).rest # <<>>, Line.op = "include",
         NEW l \in DOMAIN Module
  PROVE  Found # Home(l)
  <1>1. Line \in WrittenLines
    BY LineRead DEF TypedInv
  <1>2. Line \in FileLines
    <2>1. Line # Blank /\ Line \notin RuntimeLines
      <3>1. PICK x : x = Line
        OBVIOUS
      <3>2. x.op = "include"
        BY <3>1
      <3>3. x # Blank
        <4>1. Blank.op = "text"
          BY DEF Blank
        <4> QED
          BY <3>2, <4>1
      <3>4. \A y \in RuntimeLines : y.op = "include_once"
        BY DEF RuntimeLines
      <3>5. x \notin RuntimeLines
        BY <3>2, <3>4
      <3> QED
        BY <3>1, <3>3, <3>5
    <2> QED
      BY <1>1, <2>1 DEF WrittenLines
  <1>3. PICK c \in Contents : \E f \in File : Line \in Range(c[f])
    BY <1>2 DEF FileLines
  <1>4. \A d \in Dir : Resolve[d][Line.arg] # Home(l)
    BY <1>3, HomeIs DEF Declaring
  <1>5. CURRENT_DIR \in Dir /\ LibDir \in Dir
    BY PreprocessorAssumption DEF TypedInv, TypedFiles
  <1> QED
    BY <1>4, <1>5 DEF Found, search_filename

\* A file is opened: the one that declares l, whose line is to come, or another.
LEMMA OpenOnce ==
  ASSUME TypedInv, ~has_errors, filestack # <<>>, Last(filestack).rest # <<>>,
         NEW l \in DOMAIN Module, OnceNow(l), Line.op \in {"include", "include_once"},
         enabled, NEW f \in File, \A g \in {FileOf(l), Home(l)} : f = g <=> Found = g,
         Line.op = "include_once" => Found \notin DOMAIN INCLUDED,
         Open(f), UNCHANGED conditions, UNCHANGED Driver
  PROVE  OnceNow(l)'
  <1>1. PICK vs, pos, base :
          /\ Levels(vs, pos, constructs, IFDEFS, enabled) /\ Bases(base, Len(filestack), constructs)
          /\ Awaited(l, base) \/ Arriving(l, base) \/ Arrived(l, vs)
    BY DEF OnceNow
  <1>2. PICK K, n : K = Len(filestack) /\ n = Len(constructs)
    OBVIOUS
  <1>3. /\ constructs \in Seq(Constructs) /\ constructs # <<>> /\ n \in Nat /\ K \in Nat
        /\ Read(filestack, Advanced, Line) /\ content \in Contents
        /\ IFDEFS \in Seq(BOOLEAN) /\ enabled \in BOOLEAN /\ enabled = TRUE
    BY <1>2, ReadIs, ConstructsOpen, Here DEF Read
  <1>4. PICK e, c : e = [file |-> f, rest |-> content[f]] /\ c = Construct("file", FALSE, <<>>)
    OBVIOUS
  <1>5. e \in Frames /\ e.rest = content[f] /\ Lines(f) = content[f]
    <2>1. f # NoFile /\ f \in AnyFile
      BY PreprocessorAssumption DEF AnyFile
    <2>2. Lines(f) = content[f]
      BY <2>1 DEF Lines
    <2> QED
      BY <1>3, <1>4, <2>1, <2>2, LinesTyped DEF Frames
  <1>6. c \in Constructs /\ c.kind = "file" /\ c.prog = <<>> /\ c.kept = <<>>
    <2>1. c \in Constructs
      BY <1>4, ConstructTyped, EmptySeq DEF Kinds
    <2> QED
      BY <1>4, <2>1 DEF Construct
  <1>7. /\ filestack' = Append(Advanced, e) /\ constructs' = Append(constructs, c)
        /\ DOMAIN INCLUDED' = DOMAIN INCLUDED \cup {f}
    BY <1>4, <1>5 DEF Open
  <1>8. PICK us, qos, bas : /\ us = Append(vs, TRUE) /\ qos = Append(pos, Len(IFDEFS))
                            /\ bas = Append(base, n + 1)
    OBVIOUS
  <1>9. Levels(us, qos, constructs', IFDEFS', enabled')
    <2>1. Levels(us, qos, Append(constructs, c), IFDEFS, TRUE)
      BY <1>1, <1>3, <1>6, <1>8, PushLevels
    <2> QED
      BY <1>3, <1>7, <2>1 DEF conditions
  <1>10. /\ Bases(bas, K + 1, constructs')
         /\ \A k \in 1 .. K + 1 : Parts(bas, n + 1, k) = IF k = K + 1 THEN 0 ELSE Parts(base, n, k)
    <2>1. Bases(base, K, constructs)
      BY <1>1, <1>2
    <2>2. /\ Bases(Append(base, Len(constructs) + 1), K + 1, Append(constructs, c))
          /\ \A k \in 1 .. K + 1 : Parts(Append(base, Len(constructs) + 1), Len(constructs) + 1, k) =
               IF k = K + 1 THEN 0 ELSE Parts(base, Len(constructs), k)
      BY ONLY <1>3, <1>6, <2>1, PushFileBases
    <2> QED
      BY <1>2, <1>7, <1>8, <2>2
  <1>11. Len(Advanced) = K /\ Advanced \in Seq(Frames) /\ K > 0
    BY <1>2, <1>3 DEF Read
  <1>12. Len(filestack') = K + 1 /\ Len(constructs') = n + 1
    <2>1. PICK cs, fs : cs = constructs /\ fs = Advanced
      OBVIOUS
    <2>2. Len(Append(cs, c)) = Len(cs) + 1 /\ Len(Append(fs, e)) = Len(fs) + 1
      BY <1>3, <1>5, <1>6, <1>11, <2>1, AppendProperties
    <2> QED
      BY <1>2, <1>7, <1>11, <2>1, <2>2
  <1>13. /\ Quiet(l, constructs) => Quiet(l, constructs')
         /\ Held(l, vs, constructs) => Held(l, us, constructs')
    <2>1. constructs[1].kind = "file" /\ vs \in Seq(BOOLEAN) /\ Len(vs) = n
      BY <1>1, <1>2 DEF Levels
    <2>2. \A i \in 1 .. Len(constructs) : us[i] = vs[i]
      <3>1. PICK h \in BOOLEAN : us = Append(vs, h)
        BY <1>8
      <3>2. \A i \in 1 .. Len(vs) : us[i] = vs[i]
        BY ONLY <2>1, <3>1, AppendProperties
      <3> QED
        BY <1>2, <2>1, <3>2
    <2> QED
      BY <1>3, <1>6, <1>7, <2>1, <2>2, PushTexts
  <1>14. base \in Seq(Nat) /\ Len(base) = K
    BY <1>1, <1>2 DEF Bases
  <1>15. Turn(Line) = 0 /\ n + 0 = n /\ ~TextLine(Line, l)
    BY <1>3 DEF Turn, TextLine
  <1>16. /\ NoRest(l, filestack) => NoRest(l, Advanced)
         /\ Coming(l, base, filestack, n) => Coming(l, base, Advanced, n)
    BY <1>2, <1>3, <1>14, <1>15, RestNone, RestComing
  <1>17. ASSUME NEW g
         PROVE  /\ NoRest(l, Advanced) /\ ~Has(e.rest, l) => NoRest(l, filestack')
                /\ Coming(l, base, Advanced, n) /\ ~Has(e.rest, l) => Coming(l, bas, filestack', n + 1)
                /\ NoRest(l, Advanced) /\ Comes(l, e.rest, 0) => Coming(l, bas, filestack', n + 1)
                /\ Awaits(g, base, Advanced, n) => Awaits(g, bas, filestack', n + 1)
                /\ Reaches(g, e.rest, 0) => Awaits(g, bas, filestack', n + 1)
    BY <1>5, <1>7, <1>10, <1>11, OpenRests
  <1>18. UNCHANGED <<phase, REQUIRES>>
    BY DEF Driver
  <1>19. /\ Home(l) = FileOf(l) \/ Reaches(Home(l), content[FileOf(l)], 0)
         /\ Comes(l, content[Home(l)], 0)
         /\ \A g \in File \ {Home(l)} : ~Has(content[g], l)
    BY <1>3, LabelIs
  <1>20. CASE f = Home(l)
    <2>1. Line.op = "include_once"
      BY <1>20, IncludeOther
    <2>2. Awaited(l, base)
      BY <1>1, <1>20, <2>1 DEF Arriving, Arrived
    <2>3. Coming(l, bas, filestack', n + 1)
      BY <1>5, <1>16, <1>17, <1>19, <1>20, <2>2 DEF Awaited
    <2>4. Quiet(l, constructs') /\ Home(l) \in DOMAIN INCLUDED'
      BY <1>7, <1>13, <1>20, <2>2 DEF Awaited
    <2>5. Arriving(l, bas)'
      BY <1>12, <2>3, <2>4 DEF Arriving, Home
    <2> QED
      BY <1>9, <1>10, <1>12, <2>5 DEF OnceNow
  <1>21. CASE f # Home(l)
    <2>1. ~Has(e.rest, l) /\ (Home(l) \in DOMAIN INCLUDED' <=> Home(l) \in DOMAIN INCLUDED)
      BY <1>5, <1>7, <1>19, <1>21
    <2>2. CASE Awaited(l, base)
      <3>1. ASSUME NEW g \in {FileOf(l), Home(l)}, g # f, Awaits(g, base, filestack, n)
            PROVE  Awaits(g, bas, filestack', n + 1)
        <4>1. (Asks(Line, g) /\ Parts(base, n, Len(filestack)) = 0) \/ Awaits(g, base, Advanced, n + Turn(Line))
          BY <1>2, <1>3, <1>14, <3>1, RestAwaits
        <4>2. ~Asks(Line, g)
          BY <3>1 DEF Asks, Found, search_filename
        <4> QED
          BY <1>15, <1>17, <4>1, <4>2
      <3>2. (FileOf(l) \in DOMAIN INCLUDED)' => Awaits(Home(l), bas, filestack', n + 1)
        <4>1. CASE FileOf(l) \in DOMAIN INCLUDED
          BY <1>2, <1>21, <2>2, <3>1, <4>1 DEF Awaited
        <4>2. CASE FileOf(l) = f
          BY <1>5, <1>17, <1>19, <1>21, <4>2
        <4> QED
          BY <1>7, <4>1, <4>2 DEF FileOf
      <3>3. (Due(l) /\ FileOf(l) \notin DOMAIN INCLUDED)' => Awaits(FileOf(l), bas, filestack', n + 1)
        <4> SUFFICES ASSUME (Due(l) /\ FileOf(l) \notin DOMAIN INCLUDED)'
                     PROVE  Awaits(FileOf(l), bas, filestack', n + 1)
          OBVIOUS
        <4>1. Due(l) /\ FileOf(l) \notin DOMAIN INCLUDED /\ FileOf(l) # f
          BY <1>7, <1>18 DEF Due, FileOf
        <4> QED
          BY <1>2, <2>2, <3>1, <4>1 DEF Awaited
      <3>4. Awaited(l, bas)'
        BY <1>12, <1>13, <1>16, <1>17, <2>1, <2>2, <3>2, <3>3 DEF Awaited, Due, FileOf, Home
      <3> QED
        BY <1>9, <1>10, <1>12, <3>4 DEF OnceNow
    <2>3. CASE Arriving(l, base)
      <3>1. Arriving(l, bas)'
        BY <1>2, <1>12, <1>13, <1>16, <1>17, <2>1, <2>3 DEF Arriving, Home
      <3> QED
        BY <1>9, <1>10, <1>12, <3>1 DEF OnceNow
    <2>4. CASE Arrived(l, vs)
      <3>1. Arrived(l, us)'
        BY <1>13, <1>16, <1>17, <2>1, <2>4 DEF Arrived, Home
      <3> QED
        BY <1>9, <1>10, <1>12, <3>1 DEF OnceNow
    <2> QED
      BY <1>1, <2>2, <2>3, <2>4
  <1> QED
    BY <1>20, <1>21

\* A file is at its end, and its text goes to the one that includes it.
LEMMA EndFileOnce ==
  ASSUME TypedInv, ~has_errors, NEW l, OnceNow(l), EndFile, UNCHANGED Driver
  PROVE  OnceNow(l)'
  <1>1. /\ filestack # <<>> /\ Last(filestack).rest = <<>> /\ Len(filestack) > 1 /\ Top.kind = "file"
        /\ filestack' = Front(filestack) /\ constructs' = Added(Front(constructs), Top.prog)
        /\ IFDEFS' = IFDEFS /\ enabled' = enabled /\ INCLUDED' = INCLUDED
    BY DEF EndFile, AtEnd, conditions
  <1>2. PICK vs, pos, base :
          /\ Levels(vs, pos, constructs, IFDEFS, enabled) /\ Bases(base, Len(filestack), constructs)
          /\ Awaited(l, base) \/ Arriving(l, base) \/ Arrived(l, vs)
    BY DEF OnceNow
  <1>3. PICK K, n : K = Len(filestack) /\ n = Len(constructs)
    OBVIOUS
  <1>4. /\ constructs \in Seq(Constructs) /\ constructs # <<>> /\ n \in Nat /\ n > 0
        /\ filestack \in Seq(Frames) /\ K \in Nat /\ K > 1
        /\ DOMAIN constructs = 1 .. n /\ constructs[n] \in Constructs
        /\ IFDEFS \in Seq(BOOLEAN) /\ enabled \in BOOLEAN /\ Top = constructs[n]
        /\ filestack[K].rest = <<>> /\ constructs[n].kind = "file"
    BY <1>1, <1>3, Here, EndTyped, LenProperties
  <1>5. PICK t : t = constructs[n].prog
    OBVIOUS
  <1>6. t \in Seq(WrittenLines) /\ constructs' = Added(Front(constructs), t)
    BY <1>1, <1>4, <1>5 DEF Constructs
  <1>7. base[K] = n /\ base[K - 1] \in 1 .. n - 1
    <2>1. PICK cs : cs = constructs
      OBVIOUS
    <2>2. Len(cs) = n /\ Bases(base, K, cs) /\ cs[n].kind = "file"
      BY <1>2, <1>3, <1>4, <2>1
    <2>3. base[K] = n /\ \A k \in 1 .. K - 1 : base[k] \in 1 .. n - 1
      BY ONLY <1>4, <2>2, BasesIs
    <2>4. K - 1 \in 1 .. K - 1
      BY <1>4
    <2> QED
      BY <2>3, <2>4
  <1>8. n > 1 /\ constructs[1].kind = "file"
    BY <1>2, <1>4, <1>7 DEF Levels
  <1>9. /\ Front(constructs) \in Seq(Constructs) /\ Len(Front(constructs)) = n - 1
        /\ \A i \in 1 .. n - 1 : Front(constructs)[i] = constructs[i]
    BY <1>3, <1>4, FrontIs
  <1>10. Front(constructs) # <<>>
    BY <1>4, <1>8, <1>9, EmptySeq
  <1>11. AddedTo(Front(constructs), constructs', t)
    BY <1>6, <1>9, <1>10, AddedIs
  <1>12. /\ Levels(Front(vs), Front(pos), Front(constructs), IFDEFS, enabled)
         /\ \A i \in 1 .. n - 1 : Front(vs)[i] = vs[i]
    <2>1. PICK jfd, fn : jfd = IFDEFS /\ fn = enabled
      OBVIOUS
    <2>2. Len(constructs) > 1 /\ constructs[Len(constructs)].kind = "file"
      BY <1>3, <1>4, <1>8
    <2>3. IF constructs[Len(constructs)].kind = "file"
            THEN jfd = IFDEFS /\ fn = enabled ELSE jfd = Front(IFDEFS) /\ fn = Last(IFDEFS)
      BY <2>1, <2>2
    <2>4. constructs \in Seq(Constructs) /\ IFDEFS \in Seq(BOOLEAN)
      BY <1>4
    <2>5. /\ Levels(Front(vs), Front(pos), Front(constructs), jfd, fn)
          /\ \A i \in 1 .. Len(constructs) - 1 : Front(vs)[i] = vs[i]
      BY ONLY <1>2, <2>2, <2>3, <2>4, PopLevels
    <2> QED
      BY <1>3, <2>1, <2>5
  <1>13. /\ Len(constructs') = n - 1
         /\ \A i \in 1 .. n - 1 : /\ constructs'[i].kind = Front(constructs)[i].kind
                                  /\ constructs'[i].hdr = Front(constructs)[i].hdr
    BY <1>9, <1>11 DEF AddedTo
  <1>14. Levels(Front(vs), Front(pos), constructs', IFDEFS', enabled')
    <2>1. n - 1 \in Nat
      BY <1>4
    <2>2. Levels(Front(vs), Front(pos), constructs', IFDEFS, enabled)
      BY <1>9, <1>12, <1>13, <2>1, LevelsSame
    <2> QED
      BY <1>1, <2>2
  <1>15. PICK bas : bas = Front(base)
    OBVIOUS
  <1>16. /\ Bases(bas, K - 1, constructs')
         /\ \A k \in 1 .. K - 1 : Parts(bas, n - 1, k) = Parts(base, n, k)
    <2>1. /\ Bases(bas, K - 1, Front(constructs))
          /\ \A k \in 1 .. K - 1 : Parts(bas, n - 1, k) = Parts(base, n, k)
      BY <1>2, <1>3, <1>4, <1>15, PopFileBases
    <2> QED
      BY <1>9, <1>13, <2>1, BasesSame
  <1>17. Len(filestack') = K - 1
    BY <1>1, <1>3, <1>4, FrontIs
  <1>18. vs[n] = TRUE /\ vs[n - 1] = TRUE
    <2>1. n \in 1 .. n /\ n \in 2 .. n
      BY <1>4, <1>8
    <2> QED
      BY <1>2, <1>3, <1>4, <2>1 DEF Levels
  <1>19. HeldAt(l, vs, constructs, n) => One(t, l) /\ vs[n - 1] = TRUE
    BY <1>4, <1>5, <1>18 DEF HeldAt
  <1>20. /\ Quiet(l, constructs) => Quiet(l, constructs')
         /\ Held(l, vs, constructs) => Held(l, Front(vs), constructs')
    BY <1>3, <1>4, <1>5, <1>6, <1>8, <1>11, <1>12, <1>19, PopTexts
  <1>21. ASSUME NEW f
         PROVE  /\ NoRest(l, filestack) => NoRest(l, filestack')
                /\ Coming(l, base, filestack, n) => Coming(l, bas, filestack', n - 1)
                /\ Awaits(f, base, filestack, n) => Awaits(f, bas, filestack', n - 1)
    BY <1>1, <1>3, <1>4, <1>16, CloseRests
  <1>22. UNCHANGED <<phase, REQUIRES>>
    BY DEF Driver
  <1>23. CASE Awaited(l, base)
    <2>1. Awaited(l, bas)'
      BY <1>1, <1>3, <1>13, <1>20, <1>21, <1>22, <1>23 DEF Awaited, Due, FileOf, Home
    <2> QED
      BY <1>14, <1>16, <1>17, <2>1 DEF OnceNow
  <1>24. CASE Arriving(l, base)
    <2>1. Arriving(l, bas)'
      BY <1>1, <1>3, <1>13, <1>20, <1>21, <1>24 DEF Arriving, Home
    <2> QED
      BY <1>14, <1>16, <1>17, <2>1 DEF OnceNow
  <1>25. CASE Arrived(l, vs)
    <2>1. Arrived(l, Front(vs))'
      BY <1>1, <1>20, <1>21, <1>25 DEF Arrived, Home
    <2> QED
      BY <1>14, <1>16, <1>17, <2>1 DEF OnceNow
  <1> QED
    BY <1>2, <1>23, <1>24, <1>25
-----------------------------------------------------------------------------
\* What a pass gives, at its end.
OnceOut(l) ==
  IF Home(l) \in DOMAIN INCLUDED THEN One(OUTPUT, l)
  ELSE ~Has(OUTPUT, l) /\ ~Due(l) /\ FileOf(l) \notin DOMAIN INCLUDED

LEMMA EndInputOnce ==
  ASSUME TypedInv, NEW l, OnceNow(l), EndInput, OUTPUT = <<>>, UNCHANGED Driver
  PROVE  OnceOut(l)'
  <1>1. /\ filestack # <<>> /\ Last(filestack).rest = <<>> /\ Len(filestack) = 1 /\ Top.kind = "file"
        /\ OUTPUT' = OUTPUT \o Top.prog /\ INCLUDED' = INCLUDED
    BY DEF EndInput, AtEnd
  <1>2. PICK vs, pos, base :
          /\ Levels(vs, pos, constructs, IFDEFS, enabled) /\ Bases(base, Len(filestack), constructs)
          /\ Awaited(l, base) \/ Arriving(l, base) \/ Arrived(l, vs)
    BY DEF OnceNow
  <1>3. PICK n : n = Len(constructs)
    OBVIOUS
  <1>4. /\ constructs \in Seq(Constructs) /\ constructs # <<>> /\ n \in Nat /\ n > 0
        /\ filestack \in Seq(Frames) /\ DOMAIN filestack = 1 .. 1
        /\ DOMAIN constructs = 1 .. n /\ constructs[n] \in Constructs
        /\ Top = constructs[n] /\ filestack[1].rest = <<>> /\ constructs[n].kind = "file"
    BY <1>1, <1>3, Here, EndTyped, LenProperties
  <1>5. n = 1
    <2>1. constructs[1].kind = "file" /\ 1 \in 1 .. n /\ n \in 1 .. n
      BY <1>2, <1>4 DEF Levels
    <2>2. \A i \in 1 .. n : constructs[i].kind = "file" <=> \E k \in 1 .. 1 : base[k] = i
      BY <1>1, <1>2, <1>3 DEF Bases
    <2>3. base[1] = 1 /\ base[1] = n
      BY <1>4, <2>1, <2>2
    <2> QED
      BY <2>3
  <1>6. PICK p : p = constructs[1].prog
    OBVIOUS
  <1>7. p \in Seq(WrittenLines) /\ OUTPUT' = p
    <2>1. p \in Seq(WrittenLines)
      BY <1>4, <1>5, <1>6 DEF Constructs
    <2>2. OUTPUT' = <<>> \o p
      BY <1>1, <1>4, <1>5, <1>6
    <2> QED
      BY <2>1, <2>2, ConcatEmptySeq
  <1>8. 1 \in DOMAIN constructs /\ 1 \in DOMAIN filestack
    BY <1>4
  <1>9. ~Has(filestack[1].rest, l)
    BY <1>4, HasNone
  <1>10. UNCHANGED <<phase, REQUIRES>>
    BY DEF Driver
  <1>11. CASE Awaited(l, base)
    <2>1. ~Has(p, l)
      BY <1>6, <1>8, <1>11 DEF Awaited, Quiet
    <2>2. ASSUME NEW f PROVE ~Awaits(f, base, filestack, n)
      <3>1. \A k \in DOMAIN filestack : DOMAIN filestack[k].rest = {}
        BY <1>4
      <3> QED
        BY <3>1 DEF Awaits, Reaches
    <2>3. ~Due(l) /\ FileOf(l) \notin DOMAIN INCLUDED /\ Home(l) \notin DOMAIN INCLUDED
      BY <1>3, <1>11, <2>2 DEF Awaited
    <2> QED
      BY <1>1, <1>7, <1>10, <2>1, <2>3 DEF OnceOut, Due, FileOf, Home
  <1>12. CASE Arriving(l, base)
    <2>1. PICK k \in DOMAIN filestack : Comes(l, filestack[k].rest, Parts(base, n, k))
      BY <1>3, <1>12 DEF Arriving, Coming
    <2>2. k = 1
      BY <1>4
    <2> QED
      BY <1>9, <2>1, <2>2, ComesHas
  <1>13. CASE Arrived(l, vs)
    <2>1. PICK i \in DOMAIN constructs : HeldAt(l, vs, constructs, i)
      BY <1>13, HeldIs DEF Arrived
    <2>2. i = 1
      BY <1>4, <1>5
    <2>3. One(p, l)
      BY <1>4, <1>5, <1>6, <2>1, <2>2 DEF HeldAt
    <2> QED
      BY <1>1, <1>7, <1>13, <2>3 DEF OnceOut, Arrived, Home
  <1> QED
    BY <1>2, <1>11, <1>12, <1>13

\* The files whose lines are being read, or were, are included or the input.
Named == \A i \in DOMAIN CURRENT_FILE : CURRENT_FILE[i] \in DOMAIN INCLUDED \cup {Main}

\* #pragma once marks a file that is included, or the input.
LEMMA MarkedNamed ==
  ASSUME TypedInv, Named, filestack # <<>>
  PROVE  Last(CURRENT_FILE) \in DOMAIN INCLUDED \cup {Main}
  <1>1. /\ CURRENT_FILE \in Seq(AnyFile) /\ Len(filestack) <= Len(CURRENT_FILE)
        /\ filestack \in Seq(Frames)
    BY DEF TypedInv, TypedFiles, TypedText
  <1>2. Len(filestack) \in Nat /\ Len(filestack) > 0 /\ Len(CURRENT_FILE) \in Nat
    BY <1>1, EndTyped, LenProperties
  <1>3. CURRENT_FILE # <<>>
    BY <1>1, <1>2, EmptySeq
  <1>4. Last(CURRENT_FILE) = CURRENT_FILE[Len(CURRENT_FILE)] /\ Len(CURRENT_FILE) \in DOMAIN CURRENT_FILE
    BY <1>1, <1>3, EndTyped
  <1> QED
    BY <1>4 DEF Named

LEMMA OpenNamed ==
  ASSUME TypedInv, Named, NEW f \in AnyFile, CURRENT_FILE' = Append(CURRENT_FILE, f),
         DOMAIN INCLUDED \subseteq DOMAIN INCLUDED', f \in DOMAIN INCLUDED' \cup {Main}
  PROVE  Named'
  <1>1. PICK cf : cf = CURRENT_FILE
    OBVIOUS
  <1>2. cf \in Seq(AnyFile) /\ Len(cf) \in Nat /\ DOMAIN cf = 1 .. Len(cf)
    BY <1>1, LenProperties DEF TypedInv, TypedFiles
  <1>3. /\ Append(cf, f) \in Seq(AnyFile) /\ Len(Append(cf, f)) = Len(cf) + 1
        /\ Append(cf, f)[Len(cf) + 1] = f /\ \A i \in 1 .. Len(cf) : Append(cf, f)[i] = cf[i]
    BY <1>2, AppendProperties
  <1>4. DOMAIN Append(cf, f) = 1 .. Len(cf) + 1
    BY <1>3, LenProperties
  <1>5. ASSUME NEW i \in 1 .. Len(cf) + 1 PROVE Append(cf, f)[i] \in DOMAIN INCLUDED' \cup {Main}
    <2>1. CASE i = Len(cf) + 1
      BY <1>3, <2>1
    <2>2. CASE i # Len(cf) + 1
      <3>1. i \in 1 .. Len(cf)
        BY <1>2, <2>2
      <3>2. cf[i] \in DOMAIN INCLUDED \cup {Main}
        BY <1>1, <1>2, <3>1 DEF Named
      <3> QED
        BY <1>3, <3>1, <3>2
    <2> QED
      BY <2>1, <2>2
  <1> QED
    BY <1>1, <1>4, <1>5 DEF Named

LEMMA CloseNamed ==
  ASSUME TypedInv, Named, filestack # <<>>, CURRENT_FILE' = Front(CURRENT_FILE), INCLUDED' = INCLUDED
  PROVE  Named'
  <1>1. PICK cf : cf = CURRENT_FILE
    OBVIOUS
  <1>2. /\ cf \in Seq(AnyFile) /\ Len(filestack) <= Len(cf)
        /\ filestack \in Seq(Frames)
    BY <1>1 DEF TypedInv, TypedFiles, TypedText
  <1>3. Len(filestack) \in Nat /\ Len(filestack) > 0 /\ Len(cf) \in Nat
    BY <1>2, EndTyped, LenProperties
  <1>4. cf # <<>> /\ DOMAIN cf = 1 .. Len(cf)
    BY <1>2, <1>3, EmptySeq, LenProperties
  <1>5. /\ DOMAIN Front(cf) = 1 .. Len(cf) - 1
        /\ \A i \in 1 .. Len(cf) - 1 : Front(cf)[i] = cf[i]
    BY <1>2, <1>4, FrontIs
  <1>6. \A i \in DOMAIN cf : cf[i] \in DOMAIN INCLUDED' \cup {Main}
    BY <1>1 DEF Named
  <1>7. \A i \in 1 .. Len(cf) - 1 : i \in 1 .. Len(cf)
    BY <1>3
  <1> QED
    BY <1>1, <1>4, <1>5, <1>6, <1>7 DEF Named

LEMMA StepNamed ==
  ASSUME TypedInv, Named, PreprocessLine
  PROVE  Named'
  <1>1. filestack # <<>>
    BY DEF PreprocessLine, Text, MacroCall, Define, Undef, ErrorMsg, PragmaOnce, IfHeader, Else, EndIf,
           UnexpectedDirective, Include, IncludeOnce, EndFile, EndInput, UnexpectedEnd, Reading, AtEnd
  <1>2. CASE UNCHANGED <<INCLUDED, CURRENT_FILE>>
    BY <1>2 DEF Named
  <1>3. CASE PragmaOnce
    <2>1. /\ CURRENT_FILE' = CURRENT_FILE
          /\ DOMAIN INCLUDED' = DOMAIN INCLUDED \cup {Last(CURRENT_FILE)}
      BY <1>3 DEF PragmaOnce
    <2> QED
      BY <2>1 DEF Named
  <1>4. CASE Include \/ IncludeOnce
    <2>4. PICK f : f = Taken
      OBVIOUS
    <2>1. /\ Last(filestack).rest # <<>> /\ Line.op \in {"include", "include_once"}
          /\ Open(f) \/ UNCHANGED files
      BY <1>4, <2>4, IncludeIs
    <2>2. f \in AnyFile
      <3>1. Line.arg \in Rel
        BY <1>1, <2>1, LineRead, LineTyped DEF TypedInv
      <3> QED
        BY <2>4, <3>1, TakenTyped DEF TypedInv, TypedFiles
    <2>3. CASE Open(f)
      <3>1. CURRENT_FILE' = Append(CURRENT_FILE, f) /\ DOMAIN INCLUDED' = DOMAIN INCLUDED \cup {f}
        BY <2>3 DEF Open
      <3> QED
        BY <2>2, <3>1, OpenNamed
    <2> QED
      BY <1>2, <2>1, <2>3 DEF files
  <1>5. CASE EndFile
    <2>1. INCLUDED' = INCLUDED /\ (CURRENT_FILE' = Front(CURRENT_FILE) \/ CURRENT_FILE' = CURRENT_FILE)
      BY <1>5 DEF EndFile
    <2> QED
      BY <1>1, <1>2, <2>1, CloseNamed
  <1>6. CASE EndInput
    BY <1>1, <1>6, CloseNamed DEF EndInput
  <1>7. CASE Text \/ MacroCall \/ Define \/ Undef \/ ErrorMsg \/ IfHeader \/ Else \/ EndIf
             \/ UnexpectedDirective \/ UnexpectedEnd
    BY <1>2, <1>7 DEF Text, MacroCall, Define, Undef, ErrorMsg, IfHeader, Else, EndIf,
                      UnexpectedDirective, UnexpectedEnd, SyntaxError, files
  <1> QED
    BY <1>3, <1>4, <1>5, <1>6, <1>7 DEF PreprocessLine

\* Lines are read, a file is opened or comes to its end.
LEMMA StepOnce ==
  ASSUME TypedInv, Named, NEW l \in DOMAIN Module, OnceNow(l), PreprocessLine, ~has_errors',
         filestack' # <<>>, UNCHANGED Driver
  PROVE  OnceNow(l)'
  <1>1. filestack # <<>> /\ ~has_errors
    BY StepRead
  <1>2. CASE Text \/ Define \/ Undef \/ ErrorMsg \/ PragmaOnce \/ (MacroCall /\ Line.arg \notin ID_TABLE)
    <2>1. /\ Last(filestack).rest # <<>> /\ UNCHANGED conditions
          /\ Line.op \notin {"if", "else", "endif", "include_once"}
      BY <1>2 DEF Text, Define, Undef, ErrorMsg, PragmaOnce, MacroCall, Reading
    <2>2. Skip(<<Line>>) \/ (Skip(<<>>) /\ Line.op # "text")
      BY <1>2 DEF Text, Define, Undef, ErrorMsg, PragmaOnce, MacroCall, Reading
    <2>3. \A f \in {FileOf(l), Home(l)} : f \in DOMAIN INCLUDED' <=> f \in DOMAIN INCLUDED
      <3>1. CASE PragmaOnce
        <4>1. DOMAIN INCLUDED' = DOMAIN INCLUDED \cup {Last(CURRENT_FILE)}
          BY <3>1 DEF PragmaOnce
        <4>2. Last(CURRENT_FILE) \in DOMAIN INCLUDED \cup {Main}
          BY <1>1, MarkedNamed
        <4>3. FileOf(l) # Main /\ Home(l) # Main
          BY LabelIs DEF TypedInv, TypedText
        <4> QED
          BY <4>1, <4>2, <4>3
      <3>2. CASE ~PragmaOnce
        BY <1>2, <3>2 DEF Text, Define, Undef, ErrorMsg, MacroCall, files
      <3> QED
        BY <3>1, <3>2
    <2>4. CASE Skip(<<Line>>)
      BY <1>1, <2>1, <2>3, <2>4, SkipOnce
    <2>5. CASE Skip(<<>>) /\ Line.op # "text"
      BY <1>1, <2>1, <2>3, <2>5, SkipOnce
    <2> QED
      BY <2>2, <2>4, <2>5
  <1>3. CASE MacroCall /\ Line.arg \in ID_TABLE
    BY <1>3 DEF MacroCall
  <1>4. CASE Include \/ IncludeOnce
    <2>6. PICK f : f = Taken
      OBVIOUS
    <2>1. /\ Last(filestack).rest # <<>> /\ Line.op \in {"include", "include_once"}
          /\ \/ /\ enabled /\ Open(f) /\ f # NoFile
                /\ Line.op = "include_once" => Found \notin DOMAIN INCLUDED
             \/ /\ Skip(<<>>) /\ UNCHANGED files
                /\ enabled /\ Line.op = "include_once" => Found \in DOMAIN INCLUDED \/ f \in DOMAIN INCLUDED
          /\ UNCHANGED conditions
      BY <1>4, <2>6, IncludeIs
    <2>7. Line.arg \in Rel /\ CURRENT_DIR \in Dir
      BY <1>1, <2>1, LineRead, LineTyped DEF TypedInv, TypedFiles
    <2>2. f \in AnyFile
      BY <2>6, <2>7, TakenTyped
    <2>3. Line.op \notin {"if", "else", "endif", "text"}
      BY <2>1
    <2>8. \A g \in {FileOf(l), Home(l)} : f = g <=> Found = g
      BY <2>6, <2>7, HomeIs, TakenRuntime
    <2>4. CASE /\ enabled /\ Open(f) /\ f # NoFile
               /\ Line.op = "include_once" => Found \notin DOMAIN INCLUDED
      <3>1. f \in File
        BY <2>2, <2>4 DEF AnyFile
      <3> QED
        BY <1>1, <2>1, <2>3, <2>4, <2>8, <3>1, OpenOnce
    <2>5. CASE /\ Skip(<<>>) /\ UNCHANGED files
               /\ enabled /\ Line.op = "include_once" => Found \in DOMAIN INCLUDED \/ f \in DOMAIN INCLUDED
      <3>1. INCLUDED' = INCLUDED
        BY <2>5 DEF files
      <3>2. enabled /\ Line.op = "include_once" /\ Found \in {FileOf(l), Home(l)} => Found \in DOMAIN INCLUDED
        BY <2>5, <2>8
      <3> QED
        BY <1>1, <2>1, <2>3, <2>5, <3>1, <3>2, SkipOnce
    <2> QED
      BY <2>1, <2>4, <2>5
  <1>5. CASE IfHeader
    BY <1>1, <1>5, IfOnce
  <1>6. CASE Else
    BY <1>1, <1>6, ElseOnce
  <1>7. CASE EndIf
    BY <1>1, <1>7, EndIfOnce
  <1>8. CASE EndFile
    BY <1>1, <1>8, EndFileOnce
  <1>9. CASE EndInput \/ UnexpectedDirective \/ UnexpectedEnd
    BY <1>9 DEF EndInput, UnexpectedDirective, UnexpectedEnd, SyntaxError
  <1> QED
    BY <1>2, <1>3, <1>4, <1>5, <1>6, <1>7, <1>8, <1>9 DEF PreprocessLine
-----------------------------------------------------------------------------
\* What a pass starts from: the line of l is in the code it is given, or its
\* file is not included and the code includes it where it is needed.
Starts(l, lines) ==
  \/ /\ Home(l) \notin DOMAIN INCLUDED /\ FileOf(l) \notin DOMAIN INCLUDED /\ ~Has(lines, l)
     /\ Due(l) => Reaches(FileOf(l), lines, 0)
  \/ Home(l) \in DOMAIN INCLUDED /\ Comes(l, lines, 0)

LEMMA StartOnce ==
  ASSUME NEW l, NEW e, e = [file |-> Main, rest |-> e.rest], NEW c, c = Construct("file", FALSE, <<>>),
         filestack' = <<e>>, constructs' = <<c>>, IFDEFS' = <<>>, enabled' = TRUE, Starts(l, e.rest)'
  PROVE  OnceNow(l)'
  <1>1. PICK vs, pos, base, fs, cs, ifd :
          vs = <<TRUE>> /\ pos = <<0>> /\ base = <<1>> /\ fs = <<e>> /\ cs = <<c>> /\ ifd = <<>>
    OBVIOUS
  <1>2. /\ Len(vs) = 1 /\ Len(pos) = 1 /\ Len(base) = 1 /\ Len(cs) = 1 /\ Len(fs) = 1 /\ Len(ifd) = 0
        /\ DOMAIN cs = {1} /\ DOMAIN fs = {1} /\ cs[1] = c /\ fs[1] = e
        /\ pos[1] = 0 /\ base[1] = 1 /\ vs \in Seq(BOOLEAN) /\ pos \in Seq(Nat) /\ base \in Seq(Nat)
    BY <1>1
  <1>3. vs[1] = TRUE
    BY <1>1
  <1>4. c.kind = "file" /\ c.prog = <<>> /\ c.kept = <<>>
    BY DEF Construct
  <1>5. Levels(vs, pos, cs, ifd, TRUE)
    <2>1. \A i \in 2 .. Len(cs) : FALSE
      BY <1>2
    <2>2. \A i \in 1 .. Len(cs) : i = 1
      BY <1>2
    <2>3. \A i, j \in 1 .. Len(cs) : i <= j => pos[i] <= pos[j]
      BY <1>2, <2>2
    <2>4. ASSUME NEW i \in 1 .. Len(cs)
          PROVE  /\ cs[i].kind = "file" => vs[i] = TRUE
                 /\ cs[i].kind = "if" => cs[i].hdr = vs[i]
      <3>1. i = 1
        BY <2>2
      <3> QED
        BY <1>2, <1>3, <1>4, <3>1
    <2>5. cs[1].kind = "file" /\ vs[Len(cs)] = TRUE /\ pos[Len(cs)] = Len(ifd)
      BY <1>2, <1>3, <1>4
    <2>6. ASSUME NEW i \in 2 .. Len(cs)
          PROVE  /\ vs[i] = TRUE => vs[i - 1] = TRUE
                 /\ cs[i].kind = "file" => pos[i] = pos[i - 1]
                 /\ cs[i].kind # "file" => pos[i] = pos[i - 1] + 1 /\ ifd[pos[i]] = vs[i - 1]
      BY <2>1
    <2>7. /\ vs \in Seq(BOOLEAN) /\ pos \in Seq(Nat) /\ Len(vs) = Len(cs) /\ Len(pos) = Len(cs)
          /\ Len(cs) > 0 /\ pos[1] = 0
      BY <1>2
    <2> QED
      BY ONLY <2>3, <2>4, <2>5, <2>6, <2>7 DEF Levels
  <1>6. Bases(base, 1, cs)
    <2>1. \A k \in 1 .. 1 : base[k] \in 1 .. Len(cs)
      BY <1>2
    <2>2. \A k \in 1 .. 1 - 1 : base[k] < base[k + 1]
      OBVIOUS
    <2>3. ASSUME NEW i \in 1 .. Len(cs) PROVE cs[i].kind = "file" <=> \E k \in 1 .. 1 : base[k] = i
      <3>1. i = 1 /\ 1 \in 1 .. 1
        BY <1>2
      <3> QED
        BY <1>2, <1>4, <3>1
    <2> QED
      BY <1>2, <2>1, <2>2, <2>3 DEF Bases
  <1>7. Parts(base, 1, 1) = 0
    BY <1>2 DEF Parts
  <1>8. Quiet(l, cs)
    BY <1>2, <1>4, HasNone DEF Quiet
  <1>9. filestack' = fs /\ constructs' = cs /\ IFDEFS' = ifd /\ Len(filestack') = 1 /\ Len(constructs') = 1
    BY <1>1, <1>2
  <1>10. CASE /\ Home(l) \notin DOMAIN INCLUDED' /\ FileOf(l) \notin DOMAIN INCLUDED' /\ ~Has(e.rest, l)
              /\ Due(l)' => Reaches(FileOf(l), e.rest, 0)
    <2>1. NoRest(l, fs)
      BY <1>2, <1>10 DEF NoRest
    <2>2. Due(l)' => Awaits(FileOf(l), base, fs, 1)
      BY <1>2, <1>7, <1>10 DEF Awaits
    <2>3. Awaited(l, base)'
      BY <1>8, <1>9, <1>10, <2>1, <2>2 DEF Awaited, Due, FileOf, Home
    <2> QED
      BY <1>5, <1>6, <1>9, <2>3 DEF OnceNow
  <1>11. CASE Home(l) \in DOMAIN INCLUDED' /\ Comes(l, e.rest, 0)
    <2>1. Coming(l, base, fs, 1)
      <3>1. Comes(l, fs[1].rest, Parts(base, 1, 1)) /\ 1 \in DOMAIN fs
        BY <1>2, <1>7, <1>11
      <3>2. \A h \in DOMAIN fs : h = 1
        BY <1>2
      <3> QED
        BY <3>1, <3>2 DEF Coming
    <2>2. Arriving(l, base)'
      BY <1>8, <1>9, <1>11, <2>1 DEF Arriving, Home
    <2> QED
      BY <1>5, <1>6, <1>9, <2>2 DEF OnceNow
  <1> QED
    BY <1>10, <1>11 DEF Starts, Due, FileOf, Home
-----------------------------------------------------------------------------
\* Of the texts put together, that of k has the line and the others have not.
OneOf(ss, k, a) == \A j \in DOMAIN ss : IF j = k THEN One(ss[j], a) ELSE ~Has(ss[j], a)

LEMMA FlattenOne ==
  ASSUME NEW L, NEW ss \in Seq(Seq(L)), NEW a, NEW k, OneOf(ss, k, a)
  PROVE  IF k \in DOMAIN ss THEN One(FlattenSeq(ss), a) ELSE ~Has(FlattenSeq(ss), a)
  <1>1. Len(ss) \in Nat /\ DOMAIN ss = 1 .. Len(ss) /\ \A i \in 1 .. Len(ss) : ss[i] \in Seq(L)
    OBVIOUS
  <1>2. CASE Len(ss) = 0
    <2>1. ss = <<>>
      BY <1>2, EmptySeq
    <2>2. FlattenSeq(ss) = <<>>
      BY <1>2, <2>1 DEF FlattenSeq
    <2> QED
      BY <1>1, <1>2, <2>2, HasNone
  <1>3. CASE Len(ss) # 0
    <2> DEFINE g == CHOOSE f : Flattens(ss, f)
    <2>1. FlattenSeq(ss) = g[Len(ss)]
      BY <1>3 DEF FlattenSeq, Flattens
    <2>2. Flattens(ss, g)
      BY FlattensExists
    <2> HIDE DEF g
    <2>3. \A i \in 1 .. Len(ss) : g[i] \in Seq(L)
      BY <2>2, FlattensTyped
    <2> DEFINE Upto(n) == IF k \in 1 .. n THEN One(g[n], a) ELSE ~Has(g[n], a)
               X == {n \in Nat : n \in 1 .. Len(ss) => Upto(n)}
    <2>4. 0 \in X
      BY <1>1
    <2>5. ASSUME NEW n \in Nat, n \in X PROVE n + 1 \in X
      <3> SUFFICES ASSUME n + 1 \in 1 .. Len(ss) PROVE Upto(n + 1)
        BY <1>1
      <3>1. g[n + 1] = IF n + 1 = 1 THEN ss[n + 1] ELSE g[(n + 1) - 1] \o ss[n + 1]
        BY <2>2 DEF Flattens
      <3>2. ss[n + 1] \in Seq(L) /\ IF n + 1 = k THEN One(ss[n + 1], a) ELSE ~Has(ss[n + 1], a)
        BY <1>1 DEF OneOf
      <3>3. CASE n = 0
        <4>1. k \in 1 .. n + 1 <=> n + 1 = k
          BY <3>3
        <4> QED
          BY <3>1, <3>2, <3>3, <4>1
      <3>4. CASE n # 0
        <4>1. n \in 1 .. Len(ss) /\ (n + 1) - 1 = n /\ n + 1 # 1
          BY <1>1, <3>4
        <4>2. g[n] \in Seq(L) /\ g[n + 1] = g[n] \o ss[n + 1]
          BY <2>3, <3>1, <4>1
        <4>3. Upto(n)
          BY <2>5, <4>1
        <4>4. k \in 1 .. n + 1 <=> k \in 1 .. n \/ n + 1 = k
          OBVIOUS
        <4>5. n + 1 \notin 1 .. n
          OBVIOUS
        <4>6. PICK x, y : x = g[n] /\ y = ss[n + 1]
          OBVIOUS
        <4>7. x \in Seq(L) /\ y \in Seq(L) /\ g[n + 1] = x \o y
          BY <3>2, <4>2, <4>6
        <4>8. CASE n + 1 = k
          <5>1. ~Has(x, a) /\ One(y, a)
            BY <3>2, <4>3, <4>5, <4>6, <4>8
          <5>2. One(x \o y, a)
            BY <4>7, <5>1, OneMore
          <5> QED
            BY <4>4, <4>7, <4>8, <5>2
        <4>9. CASE n + 1 # k /\ k \in 1 .. n
          <5>1. One(x, a) /\ ~Has(y, a)
            BY <3>2, <4>3, <4>6, <4>9
          <5>2. One(x \o y, a)
            BY <4>7, <5>1, OneMore
          <5> QED
            BY <4>4, <4>7, <4>9, <5>2
        <4>10. CASE n + 1 # k /\ k \notin 1 .. n
          <5>1. ~Has(x, a) /\ ~Has(y, a)
            BY <3>2, <4>3, <4>6, <4>10
          <5>2. ~Has(x \o y, a)
            BY <4>7, <5>1, HasMore
          <5> QED
            BY <4>4, <4>7, <4>10, <5>2
        <4> QED
          BY <4>8, <4>9, <4>10
      <3> QED
        BY <3>3, <3>4
    <2> HIDE DEF X
    <2>6. Nat \subseteq X
      BY <2>4, <2>5, Induction
    <2>7. Len(ss) \in 1 .. Len(ss)
      BY <1>1, <1>3
    <2>8. Upto(Len(ss))
      BY <1>1, <2>6, <2>7 DEF X
    <2> QED
      BY <1>1, <2>1, <2>8
  <1> QED
    BY <1>2, <1>3
-----------------------------------------------------------------------------
LEMMA TextOfOne ==
  ASSUME NEW out \in Seq(WrittenLines), NEW l, NEW i \in DOMAIN out,
         \A j \in DOMAIN out : TextLine(out[j], l) <=> j = i, NEW u
  PROVE  IF SubOf(out, i) = u THEN One(TextOf(out, u), l) ELSE ~Has(TextOf(out, u), l)
  <1> DEFINE pieces == [j \in DOMAIN out |->
                          IF out[j].op = "text" /\ SubOf(out, j) = u THEN <<out[j]>> ELSE <<>>]
  <1>1. Len(out) \in Nat /\ DOMAIN out = 1 .. Len(out) /\ \A j \in DOMAIN out : out[j] \in WrittenLines
    BY LenProperties, ElementOfSeq
  <1>2. TextOf(out, u) = FlattenSeq(pieces)
    BY DEF TextOf
  <1>3. \A j \in DOMAIN out : pieces[j] = IF out[j].op = "text" /\ SubOf(out, j) = u THEN <<out[j]>> ELSE <<>>
    OBVIOUS
  <1>4. pieces = [j \in 1 .. Len(out) |-> pieces[j]]
    BY <1>1
  <1> HIDE DEF pieces
  <1>5. ASSUME NEW j \in DOMAIN out PROVE pieces[j] \in Seq(WrittenLines)
    <2>1. <<out[j]>> \in Seq(WrittenLines) /\ <<>> \in Seq(WrittenLines)
      BY <1>1, EmptySeq
    <2> QED
      BY <1>3, <2>1
  <1>6. pieces \in [1 .. Len(out) -> Seq(WrittenLines)]
    BY <1>1, <1>4, <1>5
  <1>7. pieces \in Seq(Seq(WrittenLines)) /\ DOMAIN pieces = DOMAIN out
    BY <1>1, <1>6
  <1>8. PICK k : k = IF SubOf(out, i) = u THEN i ELSE 0
    OBVIOUS
  <1>9. k \in DOMAIN pieces <=> SubOf(out, i) = u
    BY <1>1, <1>7, <1>8
  <1>10. ASSUME NEW j \in DOMAIN pieces PROVE IF j = k THEN One(pieces[j], l) ELSE ~Has(pieces[j], l)
    <2>1. j \in DOMAIN out /\ j # 0 /\ i # 0
      BY <1>1, <1>7
    <2>2. CASE j = k
      <3>1. j = i /\ SubOf(out, j) = u
        BY <1>8, <2>1, <2>2
      <3>2. TextLine(out[j], l)
        BY <2>1, <3>1
      <3>3. pieces[j] = <<out[j]>>
        BY <1>3, <2>1, <3>1, <3>2 DEF TextLine
      <3> QED
        BY <2>2, <3>2, <3>3, OneOnly
    <2>3. CASE j # k
      <3>1. CASE j = i
        <4>1. SubOf(out, j) # u
          BY <1>8, <2>3, <3>1
        <4>2. pieces[j] = <<>>
          BY <1>3, <2>1, <4>1
        <4> QED
          BY <2>3, <4>2, HasNone
      <3>2. CASE j # i
        <4>1. ~TextLine(out[j], l)
          BY <2>1, <3>2
        <4>2. ~Has(<<out[j]>>, l) /\ ~Has(<<>>, l)
          BY <4>1, HasOne, HasNone DEF TextLine
        <4> QED
          BY <1>3, <2>1, <2>3, <4>2
      <3> QED
        BY <3>1, <3>2
    <2> QED
      BY <2>2, <2>3
  <1>11. OneOf(pieces, k, l)
    BY <1>10 DEF OneOf
  <1> QED
    BY <1>2, <1>7, <1>9, <1>11, FlattenOne
-----------------------------------------------------------------------------
LEMMA MaxIs ==
  ASSUME NEW S, NEW n \in Nat, S \subseteq 1 .. n, S # {}
  PROVE  Max(S) \in S
  <1> DEFINE Top1(T) == \E x \in T : \A y \in T : x >= y
             X == {m \in Nat : \A T \in SUBSET (1 .. m) : T # {} => Top1(T)}
  <1>1. 0 \in X
    <2>1. \A T \in SUBSET (1 .. 0) : T = {}
      OBVIOUS
    <2> QED
      BY <2>1
  <1>2. ASSUME NEW m \in Nat, m \in X PROVE m + 1 \in X
    <2> SUFFICES ASSUME NEW T \in SUBSET (1 .. m + 1), T # {} PROVE Top1(T)
      OBVIOUS
    <2>1. CASE m + 1 \in T
      <3>1. \A y \in T : m + 1 >= y
        OBVIOUS
      <3> QED
        BY <2>1, <3>1
    <2>2. CASE m + 1 \notin T
      <3>1. ASSUME NEW y \in T PROVE y \in 1 .. m
        <4>1. y \in 1 .. m + 1 /\ y # m + 1
          BY <2>2
        <4> QED
          BY <4>1
      <3> QED
        BY <1>2, <3>1
    <2> QED
      BY <2>1, <2>2
  <1> HIDE DEF X
  <1>3. Nat \subseteq X
    BY <1>1, <1>2, Induction
  <1>4. Top1(S)
    BY <1>3 DEF X
  <1> QED
    BY <1>4 DEF Max

LEMMA SubOfIs ==
  ASSUME NEW out \in Seq(WrittenLines), NEW i \in DOMAIN out
  PROVE  SubOf(out, i) \in {NoSub} \cup SubsOf(out)
  <1> DEFINE marks == {j \in 1 .. i : out[j].op \in {"sub", "endsub"}}
  <1>1. DOMAIN out = 1 .. Len(out) /\ Len(out) \in Nat
    BY LenProperties
  <1>2. i \in Nat /\ marks \subseteq 1 .. i /\ \A j \in 1 .. i : j \in DOMAIN out
    BY <1>1
  <1>3. SubOf(out, i) = IF marks = {} \/ out[Max(marks)].op = "endsub" THEN NoSub ELSE out[Max(marks)].arg
    BY DEF SubOf
  <1>4. \A j \in marks : j \in DOMAIN out /\ out[j].op \in {"sub", "endsub"}
    BY <1>2
  <1> HIDE DEF marks
  <1>5. CASE marks # {} /\ out[Max(marks)].op # "endsub"
    <2>1. Max(marks) \in marks
      BY <1>2, <1>5, MaxIs
    <2>2. Max(marks) \in DOMAIN out /\ out[Max(marks)].op = "sub"
      BY <1>4, <1>5, <2>1
    <2>3. out[Max(marks)].arg \in SubsOf(out)
      BY <2>2 DEF SubsOf
    <2> QED
      BY <1>3, <1>5, <2>3
  <1> QED
    BY <1>3, <1>5

\* The subs that are not dropped.
Kept(out) == IF optimize THEN Accessed(out) ELSE Sub

LEMMA TranslatedOne ==
  ASSUME NEW out \in Seq(WrittenLines), NEW u \in {NoSub} \cup (SubsOf(out) \cap Kept(out))
  PROVE  \E k \in DOMAIN Translated(out) : \A j \in DOMAIN Translated(out) : Translated(out)[j] = u <=> j = k
  <1>1. PICK S : S = SubsOf(out) \cap Kept(out)
    OBVIOUS
  <1>2. IsFiniteSet(S)
    BY <1>1, SubsFinite, FS_Subset
  <1>3. NoSub \notin S
    <2>1. Kept(out) \subseteq Sub
      BY DEF Kept, Accessed
    <2> QED
      BY <1>1, <2>1, LabelAssumption
  <1>4. PICK q, t : q = SetToSeq(S) /\ t = Translated(out)
    OBVIOUS
  <1>5. t = <<NoSub>> \o q
    BY <1>1, <1>4 DEF Translated, Kept
  <1>6. q \in Seq(S) /\ Len(q) \in Nat /\ DOMAIN q = 1 .. Len(q) /\ \A k \in DOMAIN q : q[k] \in S
    BY <1>2, <1>4, SetToSeqTyped, LenProperties, ElementOfSeq
  <1>7. /\ DOMAIN t = 1 .. Len(q) + 1 /\ t[1] = NoSub
        /\ \A j \in 2 .. Len(q) + 1 : j - 1 \in DOMAIN q /\ t[j] = q[j - 1]
    BY <1>5, <1>6
  <1>8. CASE u = NoSub
    <2>1. ASSUME NEW j \in DOMAIN t PROVE t[j] = u <=> j = 1
      <3>1. CASE j = 1
        BY <1>7, <1>8, <3>1
      <3>2. CASE j # 1
        <4>1. j \in 2 .. Len(q) + 1
          BY <1>6, <1>7, <3>2
        <4>2. t[j] \in S
          BY <1>6, <1>7, <4>1
        <4> QED
          BY <1>3, <1>8, <3>2, <4>2
      <3> QED
        BY <3>1, <3>2
    <2>2. 1 \in DOMAIN t
      BY <1>6, <1>7
    <2> QED
      BY <1>4, <2>1, <2>2
  <1>9. CASE u # NoSub
    <2>1. u \in S
      BY <1>1, <1>9
    <2>2. PICK k \in DOMAIN q : q[k] = u /\ \A j \in DOMAIN q : j # k => q[j] # u
      BY <1>2, <1>4, <2>1, SetToSeqOnce
    <2>3. ASSUME NEW j \in DOMAIN t PROVE t[j] = u <=> j = k + 1
      <3>1. CASE j = 1
        <4>1. k + 1 # 1
          BY <1>6
        <4> QED
          BY <1>7, <1>9, <3>1, <4>1
      <3>2. CASE j # 1
        <4>1. j \in 2 .. Len(q) + 1
          BY <1>6, <1>7, <3>2
        <4>2. j - 1 \in DOMAIN q /\ t[j] = q[j - 1]
          BY <1>7, <4>1
        <4>3. j - 1 = k <=> j = k + 1
          BY <1>6, <4>1
        <4> QED
          BY <2>2, <4>2, <4>3
      <3> QED
        BY <3>1, <3>2
    <2>4. k + 1 \in DOMAIN t
      BY <1>6, <1>7
    <2> QED
      BY <1>4, <2>3, <2>4
  <1> QED
    BY <1>8, <1>9

\* The line is in the code once, unless the sub it is in is dropped.
LEMMA CodeOne ==
  ASSUME NEW out \in Seq(WrittenLines), NEW l, One(out, l),
         NEW v \in {NoSub} \cup Kept(out), Has(TextOf(out, v), l)
  PROVE  One(CodeOf(out), l)
  <1>1. PICK i \in DOMAIN out : \A j \in DOMAIN out : TextLine(out[j], l) <=> j = i
    BY DEF One
  <1>2. PICK u : u = SubOf(out, i)
    OBVIOUS
  <1>3. \A a : IF u = a THEN One(TextOf(out, a), l) ELSE ~Has(TextOf(out, a), l)
    BY <1>1, <1>2, TextOfOne
  <1>4. u = v
    BY <1>3
  <1>5. u \in {NoSub} \cup (SubsOf(out) \cap Kept(out))
    BY <1>2, <1>4, SubOfIs
  <1>6. PICK t : t = Translated(out)
    OBVIOUS
  <1>7. PICK k \in DOMAIN t : \A j \in DOMAIN t : t[j] = u <=> j = k
    BY <1>5, <1>6, TranslatedOne
  <1>8. PICK ss : ss = [j \in DOMAIN t |-> TextOf(out, t[j])]
    OBVIOUS
  <1>9. ss \in Seq(Seq(WrittenLines)) /\ DOMAIN ss = DOMAIN t
    <2>1. PICK n \in Nat : DOMAIN t = 1 .. n
      BY <1>6, TranslatedIsSeq
    <2>2. \A j \in DOMAIN out : out[j] \in WrittenLines
      BY LenProperties, ElementOfSeq
    <2>3. \A j \in DOMAIN t : TextOf(out, t[j]) \in Seq(WrittenLines)
      BY <2>2, TextOfIs
    <2>4. ss \in [1 .. n -> Seq(WrittenLines)]
      BY <1>8, <2>1, <2>3
    <2> QED
      BY <1>8, <2>4
  <1>10. ASSUME NEW j \in DOMAIN ss PROVE IF j = k THEN One(ss[j], l) ELSE ~Has(ss[j], l)
    <2>1. ss[j] = TextOf(out, t[j]) /\ (t[j] = u <=> j = k)
      BY <1>7, <1>8, <1>9
    <2> QED
      BY <1>3, <2>1
  <1>11. OneOf(ss, k, l)
    BY <1>10 DEF OneOf
  <1>12. One(FlattenSeq(ss), l)
    BY <1>9, <1>11, FlattenOne
  <1> QED
    BY <1>6, <1>8, <1>12 DEF CodeOf
-----------------------------------------------------------------------------
LEMMA OpenedOnce ==
  ASSUME NEW l, NEW lines, Opened(Main, lines), IFDEFS' = <<>>, enabled' = TRUE, Starts(l, lines)'
  PROVE  OnceNow(l)'
  <1>1. PICK e, c : e = [file |-> Main, rest |-> lines] /\ c = Construct("file", FALSE, <<>>)
    OBVIOUS
  <1>2. filestack' = <<e>> /\ constructs' = <<c>> /\ e.rest = lines
    BY <1>1 DEF Opened
  <1> QED
    BY <1>1, <1>2, StartOnce

\* The second pass starts from code that has the line, if the first put its
\* file in, or includes the file, if the code needs it.
LEMMA TranslateOnce ==
  ASSUME TypedInv, Translate, NEW l \in DOMAIN Module, OnceOut(l), l \notin Dropped'
  PROVE  OnceNow(l)'
  <1>1. /\ phase' = "asm" /\ input_' = OUTPUT /\ Idle /\ ~has_errors /\ IFDEFS' = IFDEFS /\ enabled' = enabled
        /\ optimize' = optimize /\ INCLUDED' = INCLUDED
    BY DEF Translate, conditions
  <1>2. IFDEFS' = <<>> /\ enabled' = TRUE
    BY <1>1 DEF TypedInv, IInv, Shape
  <1>3. OUTPUT \in Seq(WrittenLines) /\ \A i \in DOMAIN OUTPUT : OUTPUT[i] \in WrittenLines
    BY LenProperties, ElementOfSeq DEF TypedInv, TypedText
  <1> DEFINE S == {x \in WrittenLines : x.op = "text" /\ (Home(l) \in DOMAIN INCLUDED \/ ~TextLine(x, l))}
  <1>4. ASSUME NEW i \in DOMAIN OUTPUT, OUTPUT[i].op = "text" PROVE OUTPUT[i] \in S
    <2>1. Home(l) \notin DOMAIN INCLUDED => ~TextLine(OUTPUT[i], l)
      BY DEF OnceOut, Has, TextLine
    <2> QED
      BY <1>3, <1>4, <2>1
  <1>5. PICK code \in Seq(S), required \in Seq(RuntimeLines) :
           /\ Opened(Main, code \o required) /\ code = CodeOf(OUTPUT)
           /\ \A m \in REQUIRES' : \E k \in DOMAIN required : required[k].arg = m
    BY <1>4, CodeIs
  <1>6. \A x \in S : x \in WrittenLines /\ x.op = "text" /\ (Home(l) \in DOMAIN INCLUDED \/ ~TextLine(x, l))
    OBVIOUS
  <1> HIDE DEF S
  <1>7. PICK lines : lines = code \o required
    OBVIOUS
  <1>8. code \in Seq(WrittenLines) /\ required \in Seq(WrittenLines)
    <2>1. S \subseteq WrittenLines /\ RuntimeLines \subseteq WrittenLines
      BY <1>6 DEF WrittenLines
    <2> QED
      BY <2>1, SeqMonotonic
  <1>9. /\ lines \in Seq(WrittenLines) /\ Len(code) \in Nat /\ Len(required) \in Nat
        /\ DOMAIN code = 1 .. Len(code) /\ DOMAIN required = 1 .. Len(required)
        /\ DOMAIN lines = 1 .. Len(code) + Len(required)
        /\ \A i \in 1 .. Len(code) + Len(required) :
             lines[i] = IF i <= Len(code) THEN code[i] ELSE required[i - Len(code)]
    BY <1>7, <1>8, ConcatProperties, LenProperties
  <1>10. /\ \A i \in DOMAIN code : code[i] \in S
         /\ \A i \in DOMAIN required : required[i].op = "include_once" /\ required[i].flag = FALSE
    <2>1. \A x \in RuntimeLines : x.op = "include_once" /\ x.flag = FALSE
      BY DEF RuntimeLines
    <2>2. \A i \in DOMAIN code : code[i] \in S
      BY <1>9, ElementOfSeq
    <2>3. \A i \in DOMAIN required : required[i] \in RuntimeLines
      BY <1>9, ElementOfSeq
    <2> QED
      BY <2>1, <2>2, <2>3
  <1>11. ~Has(required, l)
    BY <1>10 DEF Has
  <1>14. ASSUME NEW i \in DOMAIN lines PROVE lines[i].op \notin {"if", "endif"}
    <2>1. CASE i <= Len(code)
      <3>1. i \in DOMAIN code /\ lines[i] = code[i]
        BY <1>9, <2>1
      <3>2. lines[i].op = "text"
        BY <1>6, <1>10, <3>1
      <3> QED
        BY <3>2
    <2>2. CASE ~(i <= Len(code))
      <3>1. i - Len(code) \in DOMAIN required /\ lines[i] = required[i - Len(code)]
        BY <1>9, <2>2
      <3>2. lines[i].op = "include_once"
        BY <1>10, <3>1
      <3> QED
        BY <3>2
    <2> QED
      BY <2>1, <2>2
  <1>12. CASE Home(l) \notin DOMAIN INCLUDED
    <2>1. ~Has(code, l)
      <3>1. \A i \in DOMAIN code : ~TextLine(code[i], l)
        BY <1>6, <1>10, <1>12
      <3> QED
        BY <3>1 DEF Has, TextLine
    <2>2. ~Has(lines, l)
      BY <1>7, <1>8, <1>11, <2>1, HasMore
    <2>3. ASSUME Module[l] \in REQUIRES' PROVE Reaches(FileOf(l), lines, 0)
      <3>1. PICK k \in DOMAIN required : required[k].arg = Module[l]
        BY <1>5, <2>3
      <3>2. k + Len(code) \in DOMAIN lines /\ lines[k + Len(code)] = required[k]
        BY <1>9
      <3>3. Asks(lines[k + Len(code)], FileOf(l))
        BY <1>10, <3>1, <3>2 DEF Asks, FileOf
      <3>4. Apart(lines, 0, k + Len(code))
        BY <1>9, <1>14, <3>2, ApartGiven
      <3> QED
        BY <3>2, <3>3, <3>4 DEF Reaches
    <2>5. FileOf(l) \notin DOMAIN INCLUDED
      BY <1>12 DEF OnceOut
    <2>4. Starts(l, lines)'
      BY <1>1, <1>12, <2>2, <2>3, <2>5 DEF Starts, Due, FileOf, Home
    <2> QED
      BY <1>2, <1>5, <1>7, <2>4, OpenedOnce
  <1>13. CASE Home(l) \in DOMAIN INCLUDED
    <2>1. One(OUTPUT, l) /\ l \in Texts(OUTPUT)
      BY <1>13, OneHas, TextsHas DEF OnceOut
    <2>2. PICK v \in {NoSub} \cup Kept(OUTPUT) : l \in Texts(TextOf(OUTPUT, v))
      BY <1>1, <2>1 DEF Dropped, Kept
    <2>3. One(code, l)
      BY <1>3, <1>5, <2>1, <2>2, CodeOne, TextsHas
    <2>4. One(lines, l)
      BY <1>7, <1>8, <1>11, <2>3, OneMore
    <2>6. Comes(l, lines, 0)
      BY <1>9, <1>14, <2>4, ComesGiven
    <2>7. Starts(l, lines)'
      BY <1>1, <1>13, <2>6 DEF Starts, Home
    <2> QED
      BY <1>2, <1>5, <1>7, <2>7, OpenedOnce
  <1> QED
    BY <1>12, <1>13

LEMMA PreprocessOnce ==
  ASSUME TypedInv, Preprocess, NEW l \in DOMAIN Module,
         FileOf(l) \notin DOMAIN INCLUDED, Home(l) \notin DOMAIN INCLUDED
  PROVE  OnceNow(l)'
  <1>1. /\ phase = "start" /\ phase' = "basic" /\ Opened(Main, content[Main])
        /\ UNCHANGED <<content, INCLUDED, IFDEFS, enabled>>
    BY DEF Preprocess, conditions
  <1>2. IFDEFS' = <<>> /\ enabled' = TRUE
    BY <1>1 DEF TypedInv, IInv, Shape
  <1>3. content \in Contents /\ Main \in File
    BY PreprocessorAssumption DEF TypedInv, TypedText
  <1>4. ~Has(content[Main], l)
    BY <1>3, LabelIs
  <1>5. PICK lines : lines = content[Main]
    OBVIOUS
  <1>6. Starts(l, lines)'
    BY <1>1, <1>4, <1>5 DEF Starts, Due, FileOf, Home
  <1> QED
    BY <1>1, <1>2, <1>5, <1>6, OpenedOnce
-----------------------------------------------------------------------------
\* A pass that is asked about: not the second, of a label dropped before it.
Judged(l) == phase = "basic" \/ (phase = "asm" /\ l \notin Dropped)

OnceInv(l) ==
  ~has_errors =>
    /\ phase = "start" => OUTPUT = <<>> /\ INCLUDED = <<>> /\ CURRENT_FILE = <<>>
    /\ Judged(l) /\ ~Idle => OUTPUT = <<>> /\ OnceNow(l)
    /\ Judged(l) /\ Idle => OnceOut(l)

RequiredInv == TypedInv /\ Ended /\ Named /\ \A l \in DOMAIN Module : OnceInv(l)

LEMMA RequiredInit == Init => RequiredInv
  <1> SUFFICES ASSUME Init PROVE RequiredInv
    OBVIOUS
  <1>1. phase = "start" /\ OUTPUT = <<>> /\ INCLUDED = <<>> /\ CURRENT_FILE = <<>>
    BY DEF Init, PreprocessorInit
  <1>2. Ended
    BY <1>1 DEF Ended
  <1>3. Named
    <2>1. DOMAIN CURRENT_FILE = {}
      BY <1>1
    <2> QED
      BY <2>1 DEF Named
  <1>4. \A l : OnceInv(l)
    BY <1>1 DEF OnceInv, Judged
  <1> QED
    BY <1>2, <1>3, <1>4, TypedInit DEF RequiredInv

LEMMA StepJudged ==
  ASSUME TypedInv, Named, NEW l \in DOMAIN Module, OnceInv(l), PreprocessLine, UNCHANGED Driver,
         phase \in {"basic", "asm"}
  PROVE  OnceInv(l)'
  <1> SUFFICES ASSUME ~has_errors' PROVE OnceInv(l)'
    BY DEF OnceInv
  <1>1. UNCHANGED <<phase, optimize, defines, input_, REQUIRES>>
    BY DEF Driver
  <1>2. ~has_errors /\ filestack # <<>>
    BY StepRead
  <1>3. phase' # "start" /\ (Judged(l)' <=> Judged(l))
    BY <1>1 DEF Judged, Dropped, Accessed, CalledBy
  <1> SUFFICES ASSUME Judged(l) PROVE (~Idle => OUTPUT = <<>> /\ OnceNow(l))' /\ (Idle => OnceOut(l))'
    BY <1>3 DEF OnceInv
  <1>4. OUTPUT = <<>> /\ OnceNow(l)
    BY <1>2 DEF OnceInv, Idle
  <1>5. CASE EndInput
    <2>1. filestack' = <<>>
      BY <1>5 DEF EndInput
    <2>2. OnceOut(l)'
      BY <1>4, <1>5, EndInputOnce
    <2> QED
      BY <2>1, <2>2 DEF Idle
  <1>6. CASE ~EndInput
    <2>1. OUTPUT' = OUTPUT
      BY <1>6 DEF PreprocessLine, Text, MacroCall, Define, Undef, ErrorMsg, PragmaOnce, IfHeader, Else, EndIf,
           UnexpectedDirective, Include, IncludeOnce, EndFile, UnexpectedEnd, SyntaxError
    <2>2. filestack' # <<>>
      <3>1. CASE UnexpectedDirective \/ UnexpectedEnd
        BY <3>1 DEF UnexpectedDirective, UnexpectedEnd, SyntaxError
      <3>2. CASE EndFile
        <4>1. filestack' = Front(filestack) /\ Len(filestack) > 1 /\ filestack \in Seq(Frames)
          BY <3>2 DEF EndFile, TypedInv, TypedText
        <4>2. Len(filestack') = Len(filestack) - 1 /\ Len(filestack) \in Nat
          BY <1>2, <4>1, FrontIs, LenProperties
        <4> QED
          BY <4>1, <4>2
      <3>3. CASE ~(UnexpectedDirective \/ UnexpectedEnd \/ EndFile)
        <4>1. filestack' = Advanced \/ \E f : filestack' = Append(Advanced, [file |-> f, rest |-> Lines(f)])
          BY <1>6, <3>3 DEF PreprocessLine, Text, MacroCall, Define, Undef, ErrorMsg, PragmaOnce, IfHeader,
               Else, EndIf, Include, IncludeOnce, Skip, Open
        <4>2. Advanced # <<>> /\ \A x : Append(Advanced, x) # <<>>
          BY <1>2 DEF Advanced
        <4> QED
          BY <4>1, <4>2
      <3> QED
        BY <3>1, <3>2, <3>3
    <2>3. OnceNow(l)'
      BY <1>4, <2>2, StepOnce
    <2> QED
      BY <1>4, <2>1, <2>2, <2>3 DEF Idle
  <1> QED
    BY <1>5, <1>6

LEMMA RequiredNext == RequiredInv /\ [Next]_vars => RequiredInv'
  <1> SUFFICES ASSUME RequiredInv, [Next]_vars PROVE RequiredInv'
    OBVIOUS
  <1>1. /\ TypedInv /\ Ended /\ Named /\ TypedInv'
        /\ \A l \in DOMAIN Module : OnceInv(l)
    BY TypedNext DEF RequiredInv
  <1>2. CASE PreprocessLine /\ UNCHANGED <<phase, optimize, defines, input_, REQUIRES>>
    <2>1. UNCHANGED Driver
      BY <1>2 DEF Driver
    <2>2. filestack # <<>>
      BY <1>2 DEF PreprocessLine, Text, MacroCall, Define, Undef, ErrorMsg, PragmaOnce, IfHeader, Else, EndIf,
             UnexpectedDirective, Include, IncludeOnce, EndFile, EndInput, UnexpectedEnd, Reading, AtEnd
    <2>3. phase \in {"basic", "asm"}
      BY <1>1, <2>2 DEF TypedInv, TypedRest, IInv, Ended, Idle
    <2>5. Named'
      BY <1>1, <1>2, StepNamed
    <2>6. ASSUME NEW l \in DOMAIN Module PROVE OnceInv(l)'
      BY <1>1, <1>2, <2>1, <2>3, StepJudged
    <2>7. Ended'
      BY <1>2, <2>3 DEF Ended
    <2> QED
      BY <1>1, <2>5, <2>6, <2>7 DEF RequiredInv
  <1>3. CASE Preprocess
    <2>1. /\ phase = "start" /\ phase' = "basic" /\ filestack' # <<>>
          /\ CURRENT_FILE' = Append(CURRENT_FILE, Main)
          /\ UNCHANGED <<INCLUDED, OUTPUT, has_errors>>
      BY <1>3 DEF Preprocess, Opened
    <2>2. Named'
      <3>1. Main \in AnyFile
        BY PreprocessorAssumption DEF AnyFile
      <3> QED
        BY <1>1, <2>1, <3>1, OpenNamed
    <2>3. ASSUME NEW l \in DOMAIN Module PROVE OnceInv(l)'
      <3> SUFFICES ASSUME ~has_errors' PROVE OnceInv(l)'
        BY DEF OnceInv
      <3>1. OUTPUT = <<>> /\ INCLUDED = <<>>
        BY <1>1, <2>1 DEF OnceInv
      <3>2. FileOf(l) \notin DOMAIN INCLUDED /\ Home(l) \notin DOMAIN INCLUDED
        <4>1. DOMAIN INCLUDED = {}
          BY <3>1
        <4> QED
          BY <4>1
      <3>3. OnceNow(l)'
        BY <1>1, <1>3, <3>2, PreprocessOnce
      <3> QED
        BY <2>1, <3>1, <3>3 DEF OnceInv, Idle
    <2>4. Ended'
      BY <2>1 DEF Ended
    <2> QED
      BY <1>1, <2>2, <2>3, <2>4 DEF RequiredInv
  <1>4. CASE Translate
    <2>1. /\ phase = "basic" /\ phase' = "asm" /\ Idle /\ ~has_errors /\ filestack' # <<>> /\ OUTPUT' = <<>>
          /\ CURRENT_FILE' = Append(CURRENT_FILE, Main) /\ INCLUDED' = INCLUDED
      BY <1>4 DEF Translate, Opened
    <2>2. Named'
      <3>1. Main \in AnyFile
        BY PreprocessorAssumption DEF AnyFile
      <3> QED
        BY <1>1, <2>1, <3>1, OpenNamed
    <2>3. ASSUME NEW l \in DOMAIN Module PROVE OnceInv(l)'
      <3> SUFFICES ASSUME Judged(l)' PROVE OnceInv(l)'
        BY <2>1 DEF OnceInv
      <3>1. l \notin Dropped'
        BY <2>1 DEF Judged
      <3>2. OnceOut(l)
        BY <1>1, <2>1 DEF OnceInv, Judged
      <3>3. OnceNow(l)'
        BY <1>1, <1>4, <3>1, <3>2, TranslateOnce
      <3> QED
        BY <2>1, <3>3 DEF OnceInv, Idle
    <2>4. Ended'
      BY <1>1, <1>4, <2>1 DEF Ended
    <2> QED
      BY <1>1, <2>2, <2>3, <2>4 DEF RequiredInv
  <1>5. CASE Assemble \/ ExitWithErrors
    <2>1. /\ phase' \in {"built", "failed"} /\ (phase' = "built" => ~has_errors')
          /\ Idle /\ filestack' = filestack /\ UNCHANGED <<INCLUDED, CURRENT_FILE>>
      BY <1>5 DEF Assemble, ExitWithErrors, ppvars, reading, files
    <2>2. ASSUME NEW l PROVE OnceInv(l)'
      BY <2>1 DEF OnceInv, Judged
    <2>3. Ended' /\ Named'
      BY <1>1, <2>1 DEF Ended, Idle, Named
    <2> QED
      BY <1>1, <2>2, <2>3 DEF RequiredInv
  <1>6. CASE UNCHANGED vars
    <2>1. UNCHANGED <<content, filestack, constructs, INCLUDED, CURRENT_FILE, CURRENT_DIR, IFDEFS, enabled,
                      ID_TABLE, OUTPUT, has_errors, phase, optimize, defines, input_, REQUIRES>>
      BY <1>6 DEF vars, ppvars, reading, files, conditions
    <2>2. ASSUME NEW l \in DOMAIN Module PROVE OnceInv(l)'
      <3>1. /\ Judged(l)' <=> Judged(l)
            /\ OnceNow(l)' <=> OnceNow(l)
            /\ OnceOut(l)' <=> OnceOut(l)
        BY <2>1 DEF Judged, Dropped, Accessed, CalledBy, OnceNow, Awaited, Arriving, Arrived, OnceOut, Due, FileOf, Home
      <3> QED
        BY <1>1, <2>1, <3>1 DEF OnceInv, Idle
    <2>3. Ended' /\ Named'
      BY <1>1, <2>1 DEF Ended, Idle, Named
    <2> QED
      BY <1>1, <2>2, <2>3 DEF RequiredInv
  <1> QED
    BY <1>2, <1>3, <1>4, <1>5, <1>6 DEF Next

LEMMA RequiredIsOnce == RequiredInv => RequiredOnce
  <1> SUFFICES ASSUME RequiredInv, phase = "asm", Idle, ~has_errors,
                      NEW l \in DOMAIN Module, Module[l] \in REQUIRES, l \notin Dropped
               PROVE  Count(OUTPUT, l) = 1
    BY DEF RequiredOnce
  <1>1. OnceOut(l) /\ Due(l) /\ OUTPUT \in Seq(WrittenLines)
    BY DEF RequiredInv, OnceInv, Judged, Due, TypedInv, TypedText
  <1>2. One(OUTPUT, l)
    BY <1>1 DEF OnceOut
  <1> QED
    BY <1>1, <1>2, OneCount

\* Every runtime file the generated code requires is assembled once, whatever
\* files there are and however they include each other, in conditionals or not
\* (backend/main.py emit, zxbpp.py include_once, and INCLUDED, which the second
\* pass takes over from the first).
THEOREM CompilerRequiresOnce == Spec => []RequiredOnce
  <1>1. Init => RequiredInv
    BY RequiredInit
  <1>2. RequiredInv /\ [Next]_vars => RequiredInv'
    BY RequiredNext
  <1>3. RequiredInv => RequiredOnce
    BY RequiredIsOnce
  <1> QED
    BY <1>1, <1>2, <1>3, PTL DEF Spec
=============================================================================
