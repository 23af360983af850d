------------------------------ MODULE Compiler ------------------------------
(***************************************************************************)
(* The compiler driver, zxbc/zxbc.py: the source goes through the          *)
(* preprocessor, is parsed, loses the subs that are not called, becomes    *)
(* assembly followed by an #include once for each runtime file it needs,   *)
(* goes through the preprocessor again and is assembled.  The second pass  *)
(* has its own lexer and macros, but INCLUDED is the first one's: an asm   *)
(* block that includes a runtime file has its text put in by the first.    *)
(*                                                                         *)
(* Of parsing and code generation there is what the passes depend on: the  *)
(* options set by #pragma, the text of each sub, the calls between subs    *)
(* and the runtime labels the text uses.  A line of text stands for one    *)
(* statement or instruction and, for a runtime file, for the label it      *)
(* declares.                                                               *)
(***************************************************************************)
EXTENDS Preprocessor

CONSTANTS
  Sub,        \* sub names
  Calls,      \* the subs the text of a line calls
  Uses,       \* the runtime labels the text of a line uses
  Basic,      \* the lines that are BASIC; the others are assembly
  Module,     \* LABEL_REQUIRED_MODULES, the runtime file of a label, but for
              \* the two arrayalloc.asm declares under an #ifdef
  Runtime,    \* the files of the runtime library, which INCLUDEPATH finds
  Guarded     \* <<l, m, t>>: the file of label l has the text t where m is defined

ASSUME CompilerAssumption ==
  /\ IsFiniteSet(DOMAIN Module)
  /\ \A l \in DOMAIN Module : Module[l] \in Rel

(* Line i is in the part that the #ifdef or #else of line j starts, in a    *)
(* file whose conditionals are not inside each other.                       *)
InPart(ls, j, i) ==
  /\ j \in 1 .. i - 1 /\ ls[j].op \in {"if", "else"}
  /\ \A h \in j + 1 .. i - 1 : ls[h].op \notin {"if", "else", "endif"}

Within(ls, i) == \E j \in 1 .. i - 1 : InPart(ls, j, i)

(* The text t is line r only, under #ifdef m of line p; line q, under none, *)
(* declares l.                                                              *)
Guards(ls, l, m, t, p, r, q) ==
  /\ {p, r, q} \subseteq DOMAIN ls
  /\ ls[p].op = "if" /\ ls[p].arg = m /\ ls[p].flag = FALSE
  /\ InPart(ls, p, r) /\ ~Within(ls, q)
  /\ \A i \in DOMAIN ls : ls[i].op = "text" /\ ls[i].arg = t <=> i = r
  /\ ls[q].op = "text" /\ ls[q].arg = l
  /\ \A i \in DOMAIN ls : ls[i].op = "if" => ~Within(ls, i)

(* Runtime files include each other only and have absolute paths, the same  *)
(* in every directory; no other path leads to one.  A label or guarded text *)
(* is of one file, like __MEM_ALLOC and what __MEMORY_CHECK__ adds in       *)
(* alloc.asm; none changes the macro that guards a text: set_option_defines *)
(* alone sets it.                                                           *)
ASSUME RuntimeAssumption ==
  /\ Runtime \subseteq File \ {Main}
  /\ \A d \in {LibDir} \cup {DirOf[f] : f \in Runtime} : \A n \in Rel :
       Resolve[d][n] \in Runtime \cup {NoFile}
  /\ \A d \in Dir : \A f \in Runtime : Resolve[d][f] = f
  /\ \A d \in Dir : \A n \in Rel :
       LET f == Resolve[d][n]
       IN  f \notin Runtime =>
             (IF Resolve[d][f] # NoFile THEN Resolve[d][f] ELSE Resolve[LibDir][f]) \notin Runtime
  /\ \A c \in Contents : \A g \in Guarded : \E f \in Runtime :
       /\ \E p, r, q \in DOMAIN c[f] : Guards(c[f], g[1], g[2], g[3], p, r, q)
       /\ \A h \in File \ {f} : \A x \in Range(c[h]) : x.op = "text" => x.arg \notin {g[1], g[3]}
       /\ \A h \in Runtime : \A x \in Range(c[h]) : x.op \in {"define", "undef"} => x.arg # g[2]

NoSub == ""

(* Line q declares l, with none of the conditionals before it left open.    *)
Depth(ls, i) ==
  Cardinality({j \in 1 .. i - 1 : ls[j].op = "if"}) - Cardinality({j \in 1 .. i - 1 : ls[j].op = "endif"})

Declares(ls, l, q) ==
  /\ Depth(ls, q) = 0
  /\ \A i \in DOMAIN ls : ls[i].op = "text" /\ ls[i].arg = l <=> i = q

Asks(x, f) == x.op = "include_once" /\ x.flag = FALSE /\ Resolve[LibDir][x.arg] = f

FileOf(l) == Resolve[LibDir][Module[l]]

(* Label l is declared by file h and no other; h is the file l is listed     *)
(* with or one it includes, as printu8.asm includes printi8.asm for          *)
(* __PRINTU8, and wherever a file includes h, it does so once.               *)
Declaring(c, l, h) ==
  /\ h = FileOf(l) \/ \E q \in DOMAIN c[FileOf(l)] :
                        Depth(c[FileOf(l)], q) = 0 /\ Asks(c[FileOf(l)][q], h)
  /\ \E q \in DOMAIN c[h] : Declares(c[h], l, q)
  /\ \A f \in File \ {h} : \A x \in Range(c[f]) : x.op = "text" => x.arg # l
  /\ \A f \in File : \A x \in Range(c[f]) :
       x.op = "include" => \A d \in Dir : Resolve[d][x.arg] # h

ASSUME LabelAssumption ==
  /\ NoSub \notin Sub
  /\ \A l \in DOMAIN Module :
       FileOf(l) \in Runtime /\ \E h \in Runtime : \A c \in Contents : Declaring(c, l, h)

VARIABLES
  phase,
  optimize,   \* OPTIONS.optimization_level > 1
  defines,    \* OPTIONS.__DEFINES
  input_,     \* what the first pass gave
  REQUIRES    \* the runtime files the generated code needs

vars == <<ppvars, phase, optimize, defines, input_, REQUIRES>>

Texts(out) == {out[i].arg : i \in {j \in DOMAIN out : out[j].op = "text"}}

(* The sub line i of the source is in. *)
SubOf(out, i) ==
  LET marks == {j \in 1..i : out[j].op \in {"sub", "endsub"}}
  IN  IF marks = {} \/ out[Max(marks)].op = "endsub" THEN NoSub ELSE out[Max(marks)].arg

TextOf(out, u) == FlattenSeq([i \in DOMAIN out |->
                    IF out[i].op = "text" /\ SubOf(out, i) = u THEN <<out[i]>> ELSE <<>>])

CalledBy(out, u) == UNION {Calls[t] : t \in Texts(TextOf(out, u))}

(* FunctionGraphVisitor: the subs called from the program, and from those. *)
Accessed(out) ==
  {s \in Sub : \A S \in SUBSET Sub :
     CalledBy(out, NoSub) \subseteq S /\ (\A u \in S : CalledBy(out, u) \subseteq S) => s \in S}

SubsOf(out) == {out[i].arg : i \in {j \in DOMAIN out : out[j].op = "sub"}}

Translated(out) == <<NoSub>> \o SetToSeq(SubsOf(out) \cap IF optimize THEN Accessed(out) ELSE Sub)

OptionsOf(out) == {out[i].arg : i \in {j \in DOMAIN out : out[j].op = "option"}}
-----------------------------------------------------------------------------
Idle == filestack = <<>>

(* zxbpp.main *)
Preprocess ==
  /\ phase = "start"
  /\ phase' = "basic"
  /\ Opened(Main, content[Main])
  /\ UNCHANGED <<content, INCLUDED, conditions, ID_TABLE, OUTPUT, has_errors,
                 optimize, defines, input_, REQUIRES>>

NoReset(defs) == UNCHANGED ID_TABLE                            \* mutant of reset_id_table
reset_id_table(defs) == ID_TABLE' = defs

(* From the parser to the start of the second pass. *)
Translate ==
  /\ phase = "basic" /\ Idle /\ ~has_errors
  /\ LET kept == Translated(OUTPUT)
         code == FlattenSeq([k \in DOMAIN kept |-> TextOf(OUTPUT, kept[k])])
         labels == (UNION {Uses[t] : t \in Texts(code) \cap Basic}) \cap DOMAIN Module
         asm_output == code \o [k \in 1..Cardinality(REQUIRES') |->
                         [op |-> "include_once", arg |-> SetToSeq(REQUIRES')[k], flag |-> FALSE]]
     IN  /\ REQUIRES' = {Module[l] : l \in labels}
         /\ defines' = defines \cup OptionsOf(OUTPUT)
         /\ reset_id_table(defines')
         /\ input_' = OUTPUT
         /\ Opened(Main, asm_output)
  /\ OUTPUT' = <<>>
  /\ phase' = "asm"
  /\ UNCHANGED <<content, INCLUDED, conditions, has_errors, optimize>>

(* asmparse.assemble reports a label the program uses and nothing declares. *)
Assemble ==
  /\ phase = "asm" /\ Idle /\ ~has_errors
  /\ LET undefined == UNION {Uses[t] : t \in Texts(OUTPUT)} \ Texts(OUTPUT)
     IN  /\ has_errors' = (undefined # {})
         /\ phase' = IF undefined # {} THEN "failed" ELSE "built"
  /\ UNCHANGED <<content, reading, files, conditions, ID_TABLE, OUTPUT,
                 optimize, defines, input_, REQUIRES>>

ExitWithErrors ==
  /\ phase \in {"basic", "asm"} /\ Idle /\ has_errors
  /\ phase' = "failed"
  /\ UNCHANGED <<ppvars, optimize, defines, input_, REQUIRES>>

Init ==
  /\ PreprocessorInit
  /\ phase = "start"
  /\ optimize \in BOOLEAN
  /\ defines = Options
  /\ input_ = <<>>
  /\ REQUIRES = {}

Next ==
  \/ PreprocessLine /\ UNCHANGED <<phase, optimize, defines, input_, REQUIRES>>
  \/ Preprocess
  \/ Translate
  \/ Assemble
  \/ ExitWithErrors

Spec == Init /\ [][Next]_vars
-----------------------------------------------------------------------------
TypeOK ==
  /\ phase \in {"start", "basic", "asm", "built", "failed"}
  /\ optimize \in BOOLEAN /\ enabled \in BOOLEAN /\ has_errors \in BOOLEAN
  /\ DOMAIN INCLUDED \subseteq File \cup {NoFile}
  /\ \A f \in DOMAIN INCLUDED : INCLUDED[f] \in BOOLEAN
  /\ CURRENT_FILE \in Seq(File \cup {NoFile}) /\ CURRENT_DIR \in Dir
  /\ IFDEFS \in Seq(BOOLEAN)
  /\ ID_TABLE \subseteq Macro /\ defines \subseteq Macro
  /\ REQUIRES \subseteq Rel
  /\ Len(constructs) >= Len(filestack)

Conditionals == {i \in DOMAIN constructs : constructs[i].kind \in {"if", "else"}}

(* IFDEFS has one entry for each conditional open in the parser, in files    *)
(* that include each other too; a line is enabled only if all that surrounds *)
(* it is; and the second pass starts with none open (zxbpp.py p_ifdef,       *)
(* p_ifdef_else, which restore what if_header saved, and zxbc.py, which      *)
(* does not reset them).                                                     *)
ConditionsMatch ==
  /\ filestack # <<>> =>
       /\ Len(IFDEFS) = Cardinality(Conditionals)
       /\ enabled => \A i \in DOMAIN IFDEFS : IFDEFS[i]
       /\ \A i \in 2..Len(IFDEFS) : IFDEFS[i] => IFDEFS[i - 1]
  /\ Idle /\ ~has_errors => IFDEFS = <<>> /\ enabled

Count(out, t) == Cardinality({i \in DOMAIN out : out[i].op = "text" /\ out[i].arg = t})
Dropped == Texts(input_) \ UNION {Texts(TextOf(input_, u)) : u \in {NoSub} \cup
             IF optimize THEN Accessed(input_) ELSE Sub}

(* Every runtime file the generated code requires is in the assembly that is *)
(* assembled, once (backend/main.py emit, backend/common.py REQUIRES).  Left *)
(* out is a sub that is never called and whose asm block includes the file:  *)
(* the first pass marked it and its text went with the sub.                  *)
RequiredOnce ==
  phase = "asm" /\ Idle /\ ~has_errors =>
    \A l \in DOMAIN Module : Module[l] \in REQUIRES /\ l \notin Dropped => Count(OUTPUT, l) = 1

(* A runtime file is assembled as the options of the program ask, those set  *)
(* by a #pragma included (args_config.py set_option_defines, called again    *)
(* before the second pass).  Left out is a file that an asm block includes,  *)
(* which the first pass reads with the options of the command line.          *)
ConfiguredAsAsked ==
  phase = "built" =>
    \A g \in Guarded : g[1] \in Texts(OUTPUT) \ Texts(input_) =>
                         (g[3] \in Texts(OUTPUT)) = (g[2] \in defines)
=============================================================================
