------------------------------- MODULE Z80Flow -------------------------------
(***************************************************************************)
(* What a program of labels, jumps, calls and loads does on the Z80: the   *)
(* meaning against which the optimizer's changes are judged.  It follows   *)
(* one register and the Z flag.  "use" reads the register and changes the  *)
(* flag as the value has it, "set" loads the register, "asm" is a piece of *)
(* the user's assembly, which may read and change both, "nop" is an        *)
(* instruction that was removed.                                           *)
(***************************************************************************)
EXTENDS Naturals, Sequences, FiniteSets, FiniteSetsExt, SequencesExt

None == "none"      \* no label, or no condition

CONSTANTS
  Labels,           \* the names jumps and calls go to, in the program or not
  MaxCalls          \* calls open at once: a bound

ASSUME Z80FlowAssumption == None \notin Labels /\ MaxCalls \in Nat

Operations == {"label", "nop", "use", "set", "asm", "jp", "call", "ret"}
Instruction == [op : Operations, arg : Labels \cup {None}, cond : {None, "z", "nz"}]
Instr(o, l, c) == [op |-> o, arg |-> l, cond |-> c]
Enders == {"jp", "call", "ret"}
IsEnder(i) == i.op \in Enders
Conditional(i) == i.cond # None

Defined(p) == {p[i].arg : i \in {j \in DOMAIN p : p[j].op = "label"}}
LabelPlaces(p, l) == {i \in DOMAIN p : p[i].op = "label" /\ p[i].arg = l}
Position(p, l) == CHOOSE i \in LabelPlaces(p, l) : TRUE
Holds(c, z) == c = None \/ (c = "z" /\ z) \/ (c = "nz" /\ ~z)

(* A state of the machine: where it is, the flag, the return addresses and  *)
(* the instruction that loaded the register last, 0 for none of these.  A   *)
(* routine that is not in the program is named by out.                      *)
At(pc, z, stack, v) == [pc |-> pc, out |-> None, z |-> z, stack |-> stack, v |-> v]
To(p, l, z, stack, v) ==
  IF l \in Defined(p) THEN At(Position(p, l), z, stack, v)
  ELSE [pc |-> 0, out |-> l, z |-> z, stack |-> stack, v |-> v]

Back(s, z, v) == IF s.stack = <<>> THEN {} ELSE {At(Last(s.stack), z, Front(s.stack), v)}
On(s, z, v) == {[s EXCEPT !.pc = @ + 1, !.z = z, !.v = v]}

Steps(p, s) ==
  IF s.out # None THEN UNION {Back(s, z, 0) : z \in BOOLEAN}
  ELSE LET i == p[s.pc] IN
    IF IsEnder(i) /\ ~Holds(i.cond, s.z) THEN On(s, s.z, s.v)
    ELSE CASE i.op = "use" -> UNION {On(s, z, s.v) : z \in BOOLEAN}
           [] i.op = "set" -> On(s, s.z, s.pc)
           [] i.op = "asm" -> UNION {On(s, z, s.pc) : z \in BOOLEAN}
           [] i.op = "jp" -> {To(p, i.arg, s.z, s.stack, s.v)}
           [] i.op = "call" -> IF Len(s.stack) = MaxCalls THEN {}
                               ELSE {To(p, i.arg, s.z, Append(s.stack, s.pc + 1), s.v)}
           [] i.op = "ret" -> Back(s, s.z, s.v)
           [] OTHER -> On(s, s.z, s.v)

(* Where labels and jumps lead from a state, and where they end: no further  *)
(* than the program has places, or they go in a circle.                      *)
Moving(p, s) == s.out = None /\ p[s.pc].op \in {"label", "nop", "jp"}

Trail(p, s) ==
  LET trail[n \in Nat] ==
        IF n = 0 THEN s
        ELSE LET last == trail[n - 1]
             IN  IF Moving(p, last) THEN CHOOSE t \in Steps(p, last) : TRUE ELSE last
  IN  trail

Settled(p, s) ==
  LET end == Trail(p, s)[Len(p)]
  IN  IF Moving(p, end) THEN [end EXCEPT !.pc = 0] ELSE end

SettledAt(p, i, z) == Settled(p, At(i, z, <<>>, 0))
SettledTo(p, l, z) == Settled(p, To(p, l, z, <<>>, 0))
=============================================================================
