------------------------------ MODULE Expansion ------------------------------
(***************************************************************************)
(* What preprocessing a file is expected to give, read off the lines: a    *)
(* line counts where every condition around it holds, an #include stands   *)
(* for the lines of the file, looked up first beside the file it is        *)
(* written in, and a file marked or asked for once is not repeated.        *)
(***************************************************************************)
EXTENDS Compiler

(* A state of the expansion.  live holds the conditions that are open; odd  *)
(* tells that the source has a line that takes effect where it should not:  *)
(* a #pragma once or a bad macro call under a false condition, or the       *)
(* inclusion of a file without lines.  lost tells that an #include once     *)
(* takes a file whose path is not that file beside the one it is written in.*)
Nothing == [out |-> <<>>, defs |-> Options, seen |-> {}, once |-> {},
            live |-> <<>>, err |-> FALSE, odd |-> FALSE, lost |-> FALSE]

Counts(st) == \A i \in DOMAIN st.live : st.live[i]
CountsOutside(st) == \A i \in 1..Len(st.live) - 1 : st.live[i]

Beside(f, n, local_first) == IF local_first /\ Resolve[DirOf[f]][n] # NoFile
                               THEN Resolve[DirOf[f]][n] ELSE Resolve[LibDir][n]

RECURSIVE Expand(_, _, _)
Expand(f, ls, st) ==
  IF ls = <<>> THEN st
  ELSE LET l == Head(ls)
           g == Beside(f, l.arg, l.flag)
           next ==
             CASE l.op = "if" ->
                    [st EXCEPT !.live = Append(@, (l.arg \in st.defs) # l.flag)]
               [] l.op = "else" ->
                    [st EXCEPT !.live = IF @ = <<>> THEN @ ELSE Append(Front(@), ~Last(@))]
               [] l.op = "endif" ->
                    [st EXCEPT !.live = IF @ = <<>> THEN @ ELSE Front(@)]
               [] ~Counts(st) ->
                    [st EXCEPT !.odd = @ \/ l.op = "once" \/ (l.op = "call" /\ l.arg \in st.defs)]
               [] l.op \in {"include", "include_once"} /\ g = NoFile ->
                    [st EXCEPT !.err = TRUE]
               [] \/ l.op = "include" /\ g \in st.once
                  \/ l.op = "include_once" /\ g \in st.seen -> st
               [] l.op \in {"include", "include_once"} ->
                    Expand(g, Lines(g), [st EXCEPT !.seen = @ \cup {g},
                                                   !.odd = @ \/ Lines(g) = <<>>,
                                                   !.lost = @ \/ (l.op = "include_once" /\
                                                                   Beside(f, g, l.flag) # g)])
               [] l.op = "once" -> [st EXCEPT !.once = @ \cup {f}, !.seen = @ \cup {f}]
               [] l.op = "define" -> [st EXCEPT !.defs = @ \cup {l.arg}]
               [] l.op = "undef" -> [st EXCEPT !.defs = @ \ {l.arg}]
               [] l.op = "error" \/ (l.op = "call" /\ l.arg \in st.defs) -> [st EXCEPT !.err = TRUE]
               [] OTHER -> [st EXCEPT !.out = Append(@, l)]
       IN  Expand(f, Tail(ls), next)

Expected == Expand(Main, content[Main], Nothing)

(* Every conditional of the lines is closed in them, with one #else at most *)
(* and a line in each part.                                                 *)

WellFormed(ls) ==
  LET depth(i) == Cardinality({j \in 1..i : ls[j].op = "if"})
                  - Cardinality({j \in 1..i : ls[j].op = "endif"})
      at(op) == {i \in DOMAIN ls : ls[i].op = op}
  IN  /\ depth(Len(ls)) = 0
      /\ \A i \in DOMAIN ls : depth(i) >= 0
      /\ \A i \in at("else") \cup at("endif") : i > 1 /\ ls[i - 1].op \notin {"if", "else"}
      /\ \A i \in at("else") : depth(i) > 0
      /\ \A i, j \in at("else") :
           i < j /\ depth(i) = depth(j) => \E k \in i..j : depth(k) < depth(i)

(* What the first pass gives is the text the source asks for, each line in   *)
(* its place and no other, with every #include taken from beside the file it *)
(* is written in; and it reports an error only if there is one.  Left out    *)
(* are sources with a line that takes effect under a false condition, that   *)
(* include a file without lines, or that ask once for a file whose path is   *)
(* relative, where it is then looked up again (listed hazards).              *)
ExpandedAsWritten ==
  phase = "basic" /\ Idle /\ ~Expected.odd /\ ~Expected.lost =>
    IF has_errors THEN Expected.err \/ \E f \in File : ~WellFormed(content[f])
                  ELSE ~Expected.err /\ OUTPUT = Expected.out
=============================================================================
