------------------------------- MODULE FlowRun -------------------------------
(***************************************************************************)
(* A program and what the optimizer made of it, run side by side on the    *)
(* Z80: after the graph was traced, when nothing is changed yet, or after  *)
(* the optimization.  Where the register is read, what is read decides the *)
(* flag, so both runs get the same flag.  A jump that was shortened skips  *)
(* labels and jumps, over which the original catches up.  A run strays     *)
(* when it leaves a block by a way the graph has no edge for.              *)
(***************************************************************************)
EXTENDS FlowGraph

VARIABLES
  running,   \* what is run: nothing yet, the program "traced" or "optimized"
  was,       \* the state of the program as it was given
  is,        \* the state of the program as it is
  strayed    \* the run of the program as it is went a way without an edge

runvars == <<vars, running, was, is, strayed>>

RunInit ==
  /\ Init
  /\ running = "no"
  /\ was = At(1, FALSE, <<>>, 0) /\ is = was
  /\ strayed = FALSE

Optimize == running = "no" /\ Next /\ UNCHANGED <<running, was, is, strayed>>

Run ==
  /\ running = "no"
  /\ \/ phase = "thread" /\ todo = JUMP_LABELS /\ running' = "traced"
     \/ phase = "optimize" /\ todo = {} /\ running' = "optimized"
  /\ \E z \in BOOLEAN : was' = At(1, z, <<>>, 0) /\ is' = was'
  /\ UNCHANGED <<vars, strayed>>

SamePlace == was.out = is.out /\ was.pc = is.pc
BlockAt(s) == IF s.out # None THEN Unknown ELSE BlockOf(s.pc)

(* A step to the next place of a block, or from a block to one it has an    *)
(* edge to, or by a routine that is not in the program.                     *)
OnGraph(s, t) ==
  \/ s.out # None
  \/ t.out = None /\ t.pc = s.pc + 1 /\ BlockOf(t.pc) = BlockOf(s.pc)
  \/ <<BlockOf(s.pc), BlockAt(t)>> \in goes_to

Together ==
  /\ running # "no" /\ SamePlace
  /\ was' \in Steps(prog, was) /\ is' \in Steps(code, is) /\ was'.z = is'.z
  /\ strayed' = (strayed \/ ~OnGraph(is, is'))
  /\ UNCHANGED <<vars, running>>

CatchUp ==
  /\ running # "no" /\ ~SamePlace
  /\ was' \in Steps(prog, was)
  /\ UNCHANGED <<vars, running, is, strayed>>

RunNext == Optimize \/ Run \/ Together \/ CatchUp

RunSpec == RunInit /\ [][RunNext]_runvars
-----------------------------------------------------------------------------
Reading(p, s) == s.out # None \/ p[s.pc].op \in {"use", "asm"}

(* The graph has an edge for every way a run of the program leaves a block,  *)
(* through returns too, if its routines are plain; shortening and removing   *)
(* keep it so if NoJumpInto (flow_graph.py _compute_calls, main.py).         *)
FlowCovered ==
  running # "no" /\ PlainRoutines /\ (running = "optimized" => NoJumpInto) => ~strayed

(* A program does after the optimization what it did before: its jumps lead  *)
(* where they led with the flag the same and the same calls open, what it    *)
(* leaves out in between are labels and jumps, and as long as its run has    *)
(* not gone a way the graph has no edge for, it finds in the register at     *)
(* every read what the same load put in (main.py, basicblock.py is_used).    *)
ReadsAlike ==
  running = "optimized" =>
    /\ is.z = was.z /\ is.stack = was.stack
    /\ IF SamePlace THEN Reading(code, is) /\ ~strayed => is = was
                    ELSE Moving(prog, was)
=============================================================================
