----------------------------- MODULE MCFlowRun ------------------------------
EXTENDS FlowRun

L(l) == Instr("label", l, None)
Jp(l) == Instr("jp", l, None)
JpIf(c, l) == Instr("jp", l, c)
Call(l) == Instr("call", l, None)
CallIf(c, l) == Instr("call", l, c)
Ret == Instr("ret", None, None)
RetIf(c) == Instr("ret", None, c)
Set == Instr("set", None, None)
Use == Instr("use", None, None)
UserAsm == Instr("asm", None, None)

(* A program: a load, a branch, what is between it and label m, *)
(* what is behind m, and a routine f.                                        *)
Start == {<<Set>>}
Branch == {<<JpIf(c, l)>> : c \in {"z", "nz"}, l \in {"m", "n"}} \cup
          {<<Call("f")>>, <<CallIf("z", "f")>>, <<Call("x")>>, <<Jp("n")>>}
Middle == {<<>>, <<Use>>, <<Set>>, <<Jp("m")>>, <<UserAsm>>, <<L("n"), Jp("m")>>, <<Set, L("n")>>,
           <<L("n"), JpIf("z", "m"), Use>>}
Behind == {<<Use>>, <<Set, Use>>, <<JpIf("z", "n")>>, <<Jp("n")>>, <<Use, Jp("m")>>, <<Call("f"), Use>>}
Ending == {<<Ret>>, <<L("n"), Ret>>, <<L("n"), Jp("m")>>, <<L("n"), Use, Ret>>}
Routine == {<<L("f"), Ret>>, <<L("f"), RetIf("z"), Set, Ret>>, <<L("f"), Use, Set, Ret>>,
            <<L("f"), CallIf("nz", "x"), Ret>>, <<L("f"), JpIf("z", "x"), Set, Ret>>, <<L("f"), Jp("m")>>}

Shapes == {s \o b \o d \o <<L("m")>> \o h \o t \o r :
          s \in Start, b \in Branch, d \in Middle, h \in Behind, t \in Ending, r \in Routine}
MCPrograms == {p \in Shapes : Cardinality({i \in DOMAIN p : p[i] = L("n")}) <= 1}
=============================================================================
