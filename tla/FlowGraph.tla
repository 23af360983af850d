------------------------------ MODULE FlowGraph ------------------------------
(***************************************************************************)
(* The optimizer of level 3, arch/z80/optimizer: the program is split into *)
(* basic blocks, the blocks become a graph, jumps to jumps are shortened   *)
(* and loads of a register nobody reads later are removed.                 *)
(*                                                                         *)
(* A block is named by the place of its first instruction.  Sets that the  *)
(* code pops from or iterates over have no order here either, as they have *)
(* none in Python.  Of the patterns there is number 15, which removes      *)
(* `ld a, n`; the register it asks about is the one Z80Flow follows.       *)
(***************************************************************************)
EXTENDS Z80Flow

CONSTANT
  Programs     \* programs of the backend: the last instruction never goes on

ASSUME FlowGraphAssumption ==
  \A p \in Programs :
    /\ p \in Seq(Instruction) /\ p # <<>>
    /\ Last(p).op \in {"jp", "ret"} /\ ~Conditional(Last(p))
    /\ \A i \in DOMAIN p : p[i].op \in {"label", "jp", "call"} => p[i].arg \in Labels

VARIABLES
  phase,
  prog,      \* the program as it was given
  code,      \* the program as it is
  blocks,    \* the first places of the blocks
  goes_to,   \* the edges between blocks
  pending,   \* the pairs of caller and block still to be traced
  visited,   \* the pairs traced
  todo       \* the labels, or blocks, still to be worked on

vars == <<phase, prog, code, blocks, goes_to, pending, visited, todo>>

Unknown == 0    \* the dummy block of the labels that are not in the program

JUMP_LABELS == {prog[i].arg : i \in {j \in DOMAIN prog : prog[j].op \in {"jp", "call"}}}
End(b) == Min({c \in blocks : c > b} \cup {Len(prog) + 1}) - 1
NextBlock(b) == IF End(b) < Len(prog) THEN {End(b) + 1} ELSE {}
BlockOf(i) == Max({b \in blocks : b <= i})
LabelBlock(l) == IF l \in Defined(prog) THEN BlockOf(Position(prog, l)) ELSE Unknown
Ender(b) == code[End(b)]
Callers == {b \in blocks : prog[End(b)].op = "call"}
LastOf(b) == IF b = Unknown THEN Instr("ret", None, None) ELSE Ender(b)
-----------------------------------------------------------------------------
Init ==
  /\ prog \in Programs
  /\ code = prog
  /\ phase = "split"
  /\ blocks = {1} /\ goes_to = {}
  /\ pending = {} /\ visited = {} /\ todo = {}

(* get_first_partition_idx, of the last block. *)
PartitionPoints ==
  LET b == Max(blocks)
  IN  {i \in DOMAIN prog : i > b /\ prog[i].op = "label" /\ prog[i].arg \in JUMP_LABELS}
        \cup {i \in DOMAIN prog : i > b /\ (IsEnder(prog[i - 1]) \/ prog[i - 1].op = "asm")}

split_block ==
  /\ phase = "split" /\ PartitionPoints # {}
  /\ LET b == Max(blocks)
         n == Min(PartitionPoints)
     IN  /\ blocks' = blocks \cup {n}
         /\ goes_to' = IF IsEnder(prog[n - 1]) /\ ~Conditional(prog[n - 1])
                         THEN goes_to
                         ELSE goes_to \cup {<<b, n>>}
  /\ UNCHANGED <<phase, prog, code, pending, visited, todo>>

TraceEveryJump ==                                         \* mutant of AnnotateJumps
  /\ phase = "split" /\ PartitionPoints = {}
  /\ LET jumps == {b \in blocks : Ender(b).op \in {"jp", "call"}}
     IN  /\ goes_to' = goes_to \cup {<<b, LabelBlock(Ender(b).arg)>> : b \in jumps}
         /\ pending' = {<<b, LabelBlock(Ender(b).arg)>> : b \in jumps}
  /\ phase' = "trace"
  /\ UNCHANGED <<prog, code, blocks, visited, todo>>

(* The first part of _compute_calls: the edges of jumps, and the calls.  An *)
(* undefined label has a block too, a dummy that ends in a ret.             *)
AnnotateJumps ==
  /\ phase = "split" /\ PartitionPoints = {}
  /\ LET jumps == {b \in blocks : Ender(b).op \in {"jp", "call"}}
     IN  goes_to' = goes_to \cup {<<b, LabelBlock(Ender(b).arg)>> : b \in jumps}
  /\ pending' = {<<b, LabelBlock(Ender(b).arg)>> : b \in Callers}
  /\ phase' = "trace"
  /\ UNCHANGED <<prog, code, blocks, visited, todo>>

TraceToFirstRet ==                                        \* mutant of Trace
  /\ phase = "trace"
  /\ \E p \in pending :
       LET e == LastOf(p[2])
           on == ~IsEnder(e) \/ (e.op = "call" /\ Conditional(e))
       IN  /\ visited' = visited \cup {p}
           /\ pending' = (pending \ {p}) \cup (IF on THEN {p[1]} \X NextBlock(p[2]) ELSE {})
           /\ goes_to' = IF e.op = "ret" THEN goes_to \cup ({p[2]} \X NextBlock(p[1])) ELSE goes_to
  /\ UNCHANGED <<phase, prog, code, blocks, todo>>

(* One pass of the loop of _compute_calls. *)
Trace ==
  /\ phase = "trace"
  /\ \E p \in pending :
       LET caller == p[1]
           b == p[2]
           e == LastOf(b)
           on == ~IsEnder(e) \/ (e.op \in {"ret", "call"} /\ Conditional(e))
       IN  IF p \in visited
             THEN pending' = pending \ {p} /\ UNCHANGED <<visited, goes_to>>
             ELSE /\ visited' = visited \cup {p}
                  /\ pending' = (pending \ {p}) \cup (IF on THEN {caller} \X NextBlock(b) ELSE {})
                  /\ goes_to' = IF e.op = "ret" THEN goes_to \cup ({b} \X NextBlock(caller)) ELSE goes_to
  /\ UNCHANGED <<phase, prog, code, blocks, todo>>

Traced ==
  /\ phase = "trace" /\ pending = {}
  /\ phase' = "thread"
  /\ todo' = JUMP_LABELS
  /\ UNCHANGED <<prog, code, blocks, goes_to, pending, visited>>

(* get_next_exec_instruction: the first instruction behind a label. *)
FirstBehind(l) ==
  LET i == Position(prog, l)
  IN  Min({j \in DOMAIN prog : j > i /\ prog[j].op # "label"})

UsedBy(l) == {b \in blocks : Ender(b).op \in {"jp", "call"} /\ Ender(b).arg = l}

ShortenAny ==                                             \* mutant of Shorten
  /\ phase = "thread"
  /\ \E l \in todo :
       /\ todo' = todo \ {l}
       /\ IF l \in Defined(prog) /\ prog[FirstBehind(l)].op = "jp"
            THEN LET first == prog[FirstBehind(l)]
                     ends == {End(b) : b \in UsedBy(l)}
                 IN  /\ code' = [i \in DOMAIN code |-> IF i \in ends THEN [code[i] EXCEPT !.arg = first.arg] ELSE code[i]]
                     /\ goes_to' = (goes_to \ (UsedBy(l) \X {LabelBlock(l)})) \cup (UsedBy(l) \X {LabelBlock(first.arg)})
            ELSE UNCHANGED <<code, goes_to>>
  /\ UNCHANGED <<phase, prog, blocks, pending, visited>>

(* A jump to a label with a jump behind it goes where that one went when   *)
(* the program was read: the operands of an instruction are kept.          *)
Shorten ==
  /\ phase = "thread"
  /\ \E l \in todo :
       /\ todo' = todo \ {l}
       /\ IF l \in Defined(prog) /\ prog[FirstBehind(l)].op = "jp"
            THEN LET first == prog[FirstBehind(l)]
                     users == {b \in UsedBy(l) : ~Conditional(first) \/ Ender(b).cond = first.cond}
                     ends == {End(b) : b \in users}
                 IN  /\ code' = [i \in DOMAIN code |-> IF i \in ends THEN [code[i] EXCEPT !.arg = first.arg] ELSE code[i]]
                     /\ goes_to' = (goes_to \ (users \X {LabelBlock(l)})) \cup (users \X {LabelBlock(first.arg)})
            ELSE UNCHANGED <<code, goes_to>>
  /\ UNCHANGED <<phase, prog, blocks, pending, visited>>

Shortened ==
  /\ phase = "thread" /\ todo = {}
  /\ phase' = "optimize"
  /\ todo' = blocks
  /\ UNCHANGED <<prog, code, blocks, goes_to, pending, visited>>
-----------------------------------------------------------------------------
(* BasicBlock.is_used: the block itself from place i on, then the blocks it *)
(* goes to, and so on.  A block that is being asked already answers yes, so  *)
(* a block answers no only after all that it asks have: round n finds those  *)
(* that ask no further than n blocks away.                                   *)
GoesTo(b) == {e[2] : e \in {d \in goes_to : d[1] = b}}

NotUsedByOne(b, i, no) ==                                 \* mutant of NotUsed
  LET mine == {j \in i..End(b) : code[j].op \in {"use", "set", "asm"}}
  IN  IF mine # {} THEN code[Min(mine)].op = "set" ELSE GoesTo(b) \cap no # {}

NotUsed(b, i, no) ==
  LET mine == {j \in i..End(b) : code[j].op \in {"use", "set", "asm"}}
  IN  IF mine # {} THEN code[Min(mine)].op = "set" ELSE GoesTo(b) \subseteq no

is_used(b, i) ==
  LET no[n \in Nat] == IF n = 0 THEN {}
                       ELSE LET found == no[n - 1] IN {c \in blocks \ {b} : NotUsed(c, c, found)}
  IN  ~NotUsed(b, i, no[Cardinality(blocks)])

Removable(b) == {i \in b..End(b) : code[i].op = "set" /\ ~is_used(b, i + 1)}

(* BasicBlock.optimize, the blocks in their order: the first load that is   *)
(* not required goes, until there is none.                                  *)
RemoveLoad ==
  /\ phase = "optimize" /\ todo # {}
  /\ Removable(Min(todo)) # {}
  /\ code' = [code EXCEPT ![Min(Removable(Min(todo)))] = Instr("nop", None, None)]
  /\ UNCHANGED <<phase, prog, blocks, goes_to, pending, visited, todo>>

BlockDone ==
  /\ phase = "optimize" /\ todo # {}
  /\ Removable(Min(todo)) = {}
  /\ todo' = todo \ {Min(todo)}
  /\ UNCHANGED <<phase, prog, code, blocks, goes_to, pending, visited>>

Next ==
  \/ split_block \/ AnnotateJumps \/ Trace \/ Traced
  \/ Shorten \/ Shortened \/ RemoveLoad \/ BlockDone

Spec == Init /\ [][Next]_vars
-----------------------------------------------------------------------------
(* The type of the state: edges join blocks of the program and the dummy    *)
(* block of undefined labels, and the routines traced are those of blocks   *)
(* that end in a call.                                                      *)
TypeOK ==
  /\ phase \in {"split", "trace", "thread", "optimize"}
  /\ Len(code) = Len(prog)
  /\ blocks \subseteq DOMAIN prog /\ 1 \in blocks
  /\ goes_to \subseteq (blocks \X (blocks \cup {Unknown})) \cup ({Unknown} \X blocks)
  /\ pending \cup visited \subseteq Callers \X (blocks \cup {Unknown})
  /\ todo \subseteq IF phase = "thread" THEN JUMP_LABELS ELSE blocks

(* Shortening a jump never changes where it leads, whatever the order of the *)
(* labels and however jumps chain or circle: from every instruction, and for *)
(* every call, the next instruction done is the one it was.                  *)
JumpsAlike ==
  phase = "thread" =>
  \A i \in DOMAIN prog, z \in BOOLEAN :
    /\ SettledAt(code, i, z) = SettledAt(prog, i, z)
    /\ prog[i].op = "call" /\ Holds(prog[i].cond, z) =>
         SettledTo(code, code[i].arg, z) = SettledTo(prog, prog[i].arg, z)

(* Every routine called gets to an unconditional ret before anything that   *)
(* ends its trace, a jump or a call without condition.                      *)
PlainRoutines ==
  \A i \in DOMAIN prog : prog[i].op = "call" /\ prog[i].arg \in Defined(prog) =>
    LET ends == {j \in DOMAIN prog : j > Position(prog, prog[i].arg) /\ IsEnder(prog[j])
                                       /\ (prog[j].op = "jp" \/ ~Conditional(prog[j]))}
    IN  prog[Min(ends)].op = "ret"

(* No conditional jump or call stands before a label with a jump behind it: *)
(* shortening the jumps to that label drops the edge of falling into it.    *)
NoJumpInto ==
  \A i \in DOMAIN prog : IsEnder(prog[i]) /\ Conditional(prog[i]) /\ prog[i + 1].op = "label" =>
    prog[FirstBehind(prog[i + 1].arg)].op # "jp"
=============================================================================
