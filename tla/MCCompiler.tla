----------------------------- MODULE MCCompiler -----------------------------
(* Two families of sources.  In the first, main surrounds with a conditional *)
(* the lines whose effect may leak out of it, between lines before and after *)
(* that would show it; a and s/b are the files it includes, and s has an a   *)
(* of its own.  In the second, subs that may not be called have asm blocks   *)
(* that include the runtime files rt or rt2, which the program needs or not; *)
(* label rt3 is listed with rt and declared by rt2, which rt includes.       *)
(* A file is named by its path; NoFile, the empty name, looked up as a path  *)
(* leads to a directory, which is read as one blank line.                    *)
EXTENDS Expansion

MCFile == {"main", "a", "s/a", "s/b", "/lib/rt", "/lib/rt2", "s/", "/lib/"}
MCDir == {"", "s", "/lib"}
MCRel == {"a", "s/b", "zz", "rt", "rt2"}
MCResolve ==
  [d \in MCDir |-> [r \in MCRel \cup MCFile \cup {"none"} |->
     CASE d = "" /\ r \in {"main", "a", "s/a", "s/b", "s/"} -> r
       [] d = "s" /\ r = "a" -> "s/a"
       [] d = "/lib" /\ r = "rt" -> "/lib/rt"
       [] d = "/lib" /\ r = "rt2" -> "/lib/rt2"
       [] r \in {"/lib/rt", "/lib/rt2"} -> r
       [] d = "s" /\ r = "none" -> "s/"
       [] d = "/lib" /\ r = "none" -> "/lib/"
       [] OTHER -> "none"]]
MCDirOf == [f \in MCFile \cup {"none"} |->
              CASE f \in {"s/a", "s/b", "s/"} -> "s" [] f \in {"/lib/rt", "/lib/rt2", "/lib/"} -> "/lib"
                [] OTHER -> ""]

L(op, arg) == [op |-> op, arg |-> arg, flag |-> FALSE]
T(t) == L("text", t)
If(m) == L("if", m)
IfNot(m) == [op |-> "if", arg |-> m, flag |-> TRUE]
ElseLine == L("else", "")
EndIfLine == L("endif", "")
Quoted(op, r) == [op |-> op, arg |-> r, flag |-> TRUE]

Before == {<<>>, <<L("define", "A")>>, <<Quoted("include", "s/b")>>, <<Quoted("include_once", "a")>>}
Part == {<<T("t1")>>, <<L("define", "A")>>, <<L("undef", "A")>>, <<L("call", "A")>>,
         <<L("error", "")>>, <<L("once", "")>>, <<Quoted("include", "a")>>,
         <<Quoted("include_once", "s/b")>>, <<Quoted("include", "zz")>>,
         <<If("A"), T("t2"), ElseLine, L("define", "A"), EndIfLine>>, <<>>}
OtherPart == {<<>>, <<ElseLine>>, <<ElseLine, T("t4")>>, <<ElseLine, Quoted("include", "s/b")>>,
              <<ElseLine, IfNot("A"), T("t5"), EndIfLine>>}
After == {<<>>, <<Quoted("include", "a")>>, <<Quoted("include_once", "s/b"), L("call", "A")>>,
          <<EndIfLine>>, <<If("A"), T("t6")>>}

Sources == {p \o <<c>> \o b \o o \o <<EndIfLine>> \o q :
              p \in Before, c \in {If("A"), IfNot("A")}, b \in Part, o \in OtherPart, q \in After}

InA == {<<T("a1")>>, <<L("once", ""), T("a1")>>, 
        <<IfNot("A"), L("define", "A"), Quoted("include", "a"), T("a1"), EndIfLine, T("a2")>>}
InSB == {<<>>, <<Quoted("include", "a"), T("sb1")>>, <<Quoted("include_once", "a")>>,
         <<If("A"), L("once", ""), EndIfLine, T("sb1")>>}
RuntimeText == <<If("K"), T("chk"), ElseLine, T("nochk"), EndIfLine, L("include_once", "rt2"), T("rt")>>

InSub == {<<T("t1")>>, <<L("include_once", "rt")>>, <<T("cv"), L("include_once", "rt2")>>}
Program == {<<T("cu")>>, <<T("cv")>>, <<L("include_once", "rt"), T("r2")>>, <<T("p")>>, <<T("cu"), T("p")>>}
Sources2 == {k \o <<L("sub", "u")>> \o b \o <<L("endsub", ""), L("sub", "v")>> \o c
               \o <<L("endsub", "")>> \o m \o <<T("end")>> :
               k \in {<<>>, <<L("option", "K")>>, <<L("define", "K")>>},
               b \in InSub, c \in InSub, m \in Program}

Source(main, a, sb) == [f \in MCFile |->
  CASE f = "main" -> main [] f = "a" -> a [] f = "s/a" -> <<T("sa1")>> [] f = "s/b" -> sb
    [] f = "/lib/rt" -> RuntimeText [] f = "/lib/rt2" -> <<T("rt2"), T("rt3")>> [] OTHER -> <<Blank>>]
MCContents == {Source(m, a, sb) : m \in Sources, a \in InA, sb \in InSB}
                \cup {Source(m, <<T("a1")>>, <<T("sb1")>>) : m \in Sources2}

Texts0 == {"t1", "t2", "t4", "t5", "t6", "a1", "a2", "sa1", "sb1", "chk", "nochk", "rt", "rt2", "rt3",
           "cu", "cv", "p", "r2", "end", ""}
MCCalls == [t \in Texts0 |-> CASE t = "cu" -> {"u"} [] t = "cv" -> {"v"} [] OTHER -> {}]
MCUses == [t \in Texts0 |-> CASE t = "p" -> {"rt"} [] t = "cu" -> {"rt3"} [] t \in {"cv", "r2", "rt"} -> {"rt2"}
                          [] OTHER -> {}]
MCModule == [l \in {"rt", "rt2", "rt3"} |-> IF l = "rt2" THEN "rt2" ELSE "rt"]
MCGuarded == {<<"rt", "K", "chk">>}
=============================================================================
