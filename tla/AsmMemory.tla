------------------------------ MODULE AsmMemory ------------------------------
(***************************************************************************)
(* The memory of the assembler, zxbasm/memory.py: the labels of the open   *)
(* PROC scopes, the instructions assembled so far and, at the end, the     *)
(* binary.  One action per statement of an assembly source; any sequence   *)
(* of statements is a source.  Label objects are shared, so a reference    *)
(* made before its label is declared is a reference to the object.         *)
(*                                                                         *)
(* An instruction takes one cell, and its operand is a label; a source is  *)
(* one file with a statement per line, without namespaces and END.  When   *)
(* the source is assembled, zxbasm.py puts a call of each #init routine    *)
(* and a jump to the beginning behind it, and starts the program there.    *)
(***************************************************************************)
EXTENDS Integers, Sequences, FiniteSets

CONSTANTS Names,          \* labels a source may use
          Origins,        \* addresses ORG may name
          MaxStatements,  \* bound: statements of a source
          MaxScopes,      \* bound: PROCs open at once
          MaxInits,       \* bound: #init lines of a source
          Undefined       \* the value None

ASSUME MemoryAssumption ==
  /\ Origins \subseteq Nat
  /\ MaxStatements \in Nat /\ MaxScopes \in Nat /\ MaxInits \in Nat
  /\ Undefined \notin Nat

VARIABLES
  index,          \* the current address
  labels,         \* the label objects, in the order they were made
  local_labels,   \* for each open scope, the object of each name; the first is global
  tmp_labels,     \* _tmp_labels: line and address of the temporary labels
  tmp_pending,    \* _tmp_pending_labels: references to temporary labels
  orgs,           \* the instructions at each address; none where only a label is
  memory_bytes,   \* operands as they were when the instruction was assembled
  INITS,          \* the labels of the #init lines
  called,         \* how many of them are called
  current_org,    \* the address behind the source, when the first is called
  AUTORUN_ADDR,   \* where the program is started
  errors,         \* the first error reported
  binary,         \* what dump returned: the lowest address and the bytes
  prog,           \* the source so far
  scopes          \* the lines of the PROCs that are open

tables == <<labels, local_labels, tmp_labels, tmp_pending>>
memory == <<index, orgs, memory_bytes>>
starting == <<INITS, called, current_org, AUTORUN_ADDR>>
vars == <<tables, memory, starting, errors, binary, prog, scopes>>

NoError == "none"
NoBinary == [org |-> Undefined, output |-> <<>>]
Line == Len(prog) + 1
Top == Len(local_labels)
DefinedTruthy(id) == labels[id].value \notin {Undefined, 0}       \* mutant of Defined
Defined(id) == labels[id].value # Undefined
Object(name, value, local) == [name |-> name, value |-> value, local |-> local]

-----------------------------------------------------------------------------
Init ==
  /\ index = 0
  /\ labels = <<>>
  /\ local_labels = << <<>> >>
  /\ tmp_labels = <<>>
  /\ tmp_pending = {}
  /\ orgs = <<>>
  /\ memory_bytes = <<>>
  /\ INITS = <<>> /\ called = 0
  /\ current_org = 0 /\ AUTORUN_ADDR = Undefined
  /\ errors = NoError
  /\ binary = NoBinary
  /\ prog = <<>>
  /\ scopes = <<>>

\* The next statement of the source.
Reads(statement, name) ==
  /\ errors = NoError
  /\ binary = NoBinary
  /\ called = 0
  /\ Len(prog) < MaxStatements
  /\ prog' = Append(prog, [is |-> statement, name |-> name, at |-> index, path |-> scopes])

Fails(error) == errors' = error

\* f with x mapped to v.
With(f, x, v) == [y \in DOMAIN f \cup {x} |-> IF y = x THEN v ELSE f[y]]

\* set_memory_slot.
Slot(f, empty) == IF index \in DOMAIN orgs THEN f ELSE With(f, index, empty)

-----------------------------------------------------------------------------
EnterUncounted ==                                          \* mutant of enter_proc
  /\ Reads("PROC", Undefined)
  /\ Len(scopes) < MaxScopes
  /\ local_labels' = Append(local_labels, <<>>)
  /\ UNCHANGED <<starting, labels, tmp_labels, tmp_pending, memory, errors, binary, scopes>>

enter_proc ==
  /\ Reads("PROC", Undefined)
  /\ Len(scopes) < MaxScopes
  /\ local_labels' = Append(local_labels, <<>>)
  /\ scopes' = Append(scopes, Line)
  /\ UNCHANGED <<starting, labels, tmp_labels, tmp_pending, memory, errors, binary>>

ExitGlobal ==
  /\ Reads("ENDP", Undefined)
  /\ Top = 1
  /\ Fails("ExtraEndp")
  /\ UNCHANGED <<starting, tables, memory, binary, scopes>>

\* The labels of the scope that ends, in the order they were made; exit_proc
\* stops at the first LOCAL one without a value.
Going == {local_labels[Top][x] : x \in DOMAIN local_labels[Top]}
UndefinedLocals == {id \in Going : labels[id].local /\ ~Defined(id)}
Transferred ==
  {id \in Going : ~labels[id].local /\ \A stop \in UndefinedLocals : id < stop}

\* The labels transferred to a global label of the name, which is defined again,
\* and those the global table has no name for.
GlobalObject(id) == local_labels[1][labels[id].name]
Merged == {id \in Transferred : labels[id].name \in DOMAIN local_labels[1]}
Globals ==
  [x \in DOMAIN local_labels[1] \cup {labels[id].name : id \in Transferred} |->
     IF x \in DOMAIN local_labels[1] THEN local_labels[1][x]
     ELSE CHOOSE id \in Transferred : labels[id].name = x]

exit_proc ==
  /\ Reads("ENDP", Undefined)
  /\ Top > 1
  /\ errors' = IF \E id \in Merged : Defined(GlobalObject(id)) THEN "AlreadyDefined"
               ELSE IF UndefinedLocals # {} THEN "UndefinedLocal" ELSE NoError
  /\ labels' = [g \in DOMAIN labels |->
                  IF \E id \in Merged : GlobalObject(id) = g
                  THEN [labels[g] EXCEPT !.value =
                          labels[CHOOSE id \in Merged : GlobalObject(id) = g].value]
                  ELSE labels[g]]
  /\ LET open == IF UndefinedLocals = {} THEN Top - 1 ELSE Top
     IN /\ local_labels' = [SubSeq(local_labels, 1, open) EXCEPT ![1] = Globals]
        /\ scopes' = SubSeq(scopes, 1, open - 1)
  /\ UNCHANGED <<starting, tmp_labels, tmp_pending, memory, binary>>

\* LOCAL x: the label of this scope, made if there is none, becomes local.
set_label(x) ==
  /\ Reads("LOCAL", x)
  /\ IF x \in DOMAIN local_labels[Top]
     THEN /\ labels' = [labels EXCEPT ![local_labels[Top][x]].local = TRUE]
          /\ UNCHANGED local_labels
     ELSE /\ labels' = Append(labels, Object(x, Undefined, TRUE))
          /\ local_labels' = [local_labels EXCEPT ![Top] = With(@, x, Len(labels) + 1)]
  /\ UNCHANGED <<starting, tmp_labels, tmp_pending, memory, errors, binary, scopes>>

\* x: at the current address.
declare_label(x) ==
  /\ Reads("label", x)
  /\ IF x \in DOMAIN local_labels[Top]
     THEN LET id == local_labels[Top][x]
          IN /\ IF Defined(id) THEN Fails("AlreadyDefined") ELSE UNCHANGED errors
             /\ labels' = [labels EXCEPT ![id].value = index]
             /\ UNCHANGED local_labels
     ELSE /\ labels' = Append(labels, Object(x, index, FALSE))
          /\ local_labels' = [local_labels EXCEPT ![Top] = With(@, x, Len(labels) + 1)]
          /\ UNCHANGED errors
  /\ orgs' = Slot(orgs, <<>>)
  /\ memory_bytes' = Slot(memory_bytes, 0)
  /\ UNCHANGED <<starting, index, tmp_labels, tmp_pending, binary, scopes>>

declare_temporary ==
  /\ Reads("1:", Undefined)
  /\ tmp_labels' = Append(tmp_labels, [line |-> Line, value |-> index])
  /\ UNCHANGED <<starting, labels, local_labels, tmp_pending, memory, errors, binary, scopes>>

-----------------------------------------------------------------------------
\* add_instruction: an operand that is known is written now, the others are
\* written by dump.
Assembled(id, objects) ==
  /\ orgs' = With(orgs, index, Append(Slot(orgs, <<>>)[index],
                    [arg |-> id, pending |-> objects[id].value = Undefined]))
  /\ memory_bytes' = With(memory_bytes, index,
                       IF objects[id].value = Undefined THEN 0 ELSE objects[id].value)
  /\ index' = index + 1

\* The scopes where get_label finds x: the innermost counts.
SearchGlobal(x) == {1} \cap {s \in 1 .. Top : x \in DOMAIN local_labels[s]}  \* mutant of Searched
Searched(x) == {s \in 1 .. Top : x \in DOMAIN local_labels[s]}

\* An instruction whose operand is x: get_label and add_instruction.
Refers(x) ==
  /\ IF Searched(x) # {}
     THEN /\ Assembled(local_labels[CHOOSE s \in Searched(x) : \A t \in Searched(x) : t <= s][x], labels)
          /\ UNCHANGED <<labels, local_labels>>
     ELSE /\ labels' = Append(labels, Object(x, Undefined, FALSE))
          /\ local_labels' = [local_labels EXCEPT ![Top] = With(@, x, Len(labels) + 1)]
          /\ Assembled(Len(labels) + 1, labels')
  /\ UNCHANGED <<tmp_labels, tmp_pending>>

refer(x) ==
  /\ Reads("use", x)
  /\ Refers(x)
  /\ UNCHANGED <<starting, errors, binary, scopes>>

\* An instruction whose operand is 1B or 1F.
refer_temporary(direction) ==
  /\ Reads(direction, Undefined)
  /\ labels' = Append(labels, Object(direction, Undefined, FALSE))
  /\ tmp_pending' = tmp_pending \cup {[id |-> Len(labels) + 1, line |-> Line]}
  /\ Assembled(Len(labels) + 1, labels')
  /\ UNCHANGED <<starting, local_labels, tmp_labels, errors, binary, scopes>>

\* ORG, and ALIGN too: the temporary labels and the references to them are
\* dropped.
set_org(a) ==
  /\ Reads("ORG", Undefined)
  /\ index' = a
  /\ tmp_labels' = <<>>
  /\ tmp_pending' = {}
  /\ UNCHANGED <<starting, labels, local_labels, orgs, memory_bytes, errors, binary, scopes>>

\* #init x: the routine at x is to run before the program.  Only the name is
\* kept, so where the line stands means nothing: here #init lines come first.
init(x) ==
  /\ Reads("#init", x)
  /\ Len(prog) = Len(INITS) /\ Len(INITS) < MaxInits
  /\ INITS' = Append(INITS, x)
  /\ UNCHANGED <<called, current_org, AUTORUN_ADDR, tables, memory, errors, binary, scopes>>

-----------------------------------------------------------------------------
(* The end of the source: assemble's check, the calls of the #init routines *)
(* and dump.                                                                *)

\* resolve_temporary_label: the nearest one on an earlier or a later line.
Candidates(r) ==
  {k \in DOMAIN tmp_labels :
     IF labels[r.id].name = "1B" THEN tmp_labels[k].line <= r.line ELSE tmp_labels[k].line >= r.line}
FarthestOne(r) ==                                           \* mutant of Nearest
  IF labels[r.id].name = "1B" THEN CHOOSE k \in Candidates(r) : \A j \in Candidates(r) : k <= j
  ELSE CHOOSE k \in Candidates(r) : \A j \in Candidates(r) : j <= k
Nearest(r) ==
  IF labels[r.id].name = "1B" THEN CHOOSE k \in Candidates(r) : \A j \in Candidates(r) : j <= k
  ELSE CHOOSE k \in Candidates(r) : \A j \in Candidates(r) : k <= j

Resolved ==
  [id \in DOMAIN labels |->
     IF \E r \in tmp_pending : r.id = id
     THEN LET r == CHOOSE x \in tmp_pending : x.id = id
          IN [labels[id] EXCEPT !.value =
                IF Candidates(r) = {} THEN Undefined ELSE tmp_labels[Nearest(r)].value]
     ELSE labels[id]]

UndefinedGlobals(objects) ==
  {x \in DOMAIN local_labels[1] : objects[local_labels[1][x]].value = Undefined}

\* The byte dump leaves at a: a pending instruction is written again.
ByteAt(objects, a) ==
  IF orgs[a][1].pending THEN objects[orgs[a][1].arg].value ELSE memory_bytes[a]

Lowest(S) == CHOOSE a \in S : \A b \in S : a <= b
Highest(S) == CHOOSE a \in S : \A b \in S : b <= a
Zeroes(n) == [i \in 1 .. n |-> 0]

\* The loop of dump after address a: the bytes put out, and how many zeroes of
\* places with no more than a label are held back until an instruction follows.
Dumped(objects) ==
  LET first == Lowest(DOMAIN memory_bytes)
      loop[a \in first - 1 .. Highest(DOMAIN memory_bytes)] ==
        IF a < first THEN [output |-> <<>>, align |-> 0]
        ELSE LET before == loop[a - 1]
             IN IF a \notin DOMAIN orgs
                THEN [before EXCEPT !.output = Append(@, 0)]
                ELSE IF orgs[a] = <<>>
                THEN [before EXCEPT !.align = @ + 1]
                ELSE [output |-> before.output \o Zeroes(before.align) \o <<ByteAt(objects, a)>>,
                      align |-> 0]
  IN [org |-> first, output |-> loop[Highest(DOMAIN memory_bytes)].output]

MissingEndp ==
  /\ errors = NoError /\ binary = NoBinary
  /\ scopes # <<>>
  /\ Fails("MissingEndp")
  /\ UNCHANGED <<tables, memory, starting, binary, prog, scopes>>

Assembling ==
  /\ errors = NoError /\ binary = NoBinary
  /\ scopes = <<>>
  /\ memory_bytes # <<>>

CallBehind ==                                               \* mutant of call_init
  /\ Assembling /\ called < Len(INITS)
  /\ Refers(INITS[called + 1])
  /\ current_org' = Highest(DOMAIN memory_bytes') + 1
  /\ called' = called + 1
  /\ UNCHANGED <<INITS, AUTORUN_ADDR, errors, binary, prog, scopes>>

\* A pass of the loop of zxbasm.main over INITS.
call_init ==
  /\ Assembling /\ called < Len(INITS)
  /\ current_org' = IF called = 0 THEN Highest(DOMAIN memory_bytes) + 1 ELSE current_org
  /\ Refers(INITS[called + 1])
  /\ called' = called + 1
  /\ UNCHANGED <<INITS, AUTORUN_ADDR, errors, binary, prog, scopes>>

\* The jump behind the calls, to the beginning of the binary.
jump_to_start ==
  /\ Assembling /\ called = Len(INITS) /\ INITS # <<>>
  /\ AUTORUN_ADDR = Undefined
  /\ orgs' = With(orgs, index, Append(Slot(orgs, <<>>)[index], [arg |-> 0, pending |-> FALSE]))
  /\ memory_bytes' = With(memory_bytes, index, Lowest(DOMAIN orgs))
  /\ index' = index + 1
  /\ AUTORUN_ADDR' = current_org
  /\ UNCHANGED <<tables, INITS, called, current_org, errors, binary, prog, scopes>>

\* generate_binary and dump.
dump ==
  /\ Assembling
  /\ INITS # <<>> => AUTORUN_ADDR # Undefined
  /\ LET objects == Resolved
     IN IF (\E r \in tmp_pending : Candidates(r) = {}) \/ UndefinedGlobals(objects) # {}
             \/ \E a \in DOMAIN orgs : orgs[a] # <<>> /\ orgs[a][1].pending
                                         /\ objects[orgs[a][1].arg].value = Undefined
        THEN Fails("Undefined") /\ UNCHANGED <<binary, AUTORUN_ADDR>>
        ELSE /\ binary' = Dumped(objects)
             /\ AUTORUN_ADDR' = IF AUTORUN_ADDR = Undefined THEN binary'.org ELSE AUTORUN_ADDR
             /\ UNCHANGED errors
  /\ UNCHANGED <<tables, memory, INITS, called, current_org, prog, scopes>>

Next ==
  \/ enter_proc \/ ExitGlobal \/ exit_proc
  \/ \E x \in Names : set_label(x) \/ declare_label(x) \/ refer(x) \/ init(x)
  \/ declare_temporary
  \/ \E d \in {"1B", "1F"} : refer_temporary(d)
  \/ \E a \in Origins : set_org(a)
  \/ MissingEndp \/ call_init \/ jump_to_start \/ dump

Spec == Init /\ [][Next]_vars

-----------------------------------------------------------------------------
(* What a source means, by its text alone: a label belongs to the PROC it is *)
(* declared in if that PROC has it LOCAL and is global otherwise, and a use   *)
(* means the label of the innermost PROC around it that has the name LOCAL,   *)
(* the global one if there is none.                                           *)

Statements == DOMAIN prog
Innermost(path) == IF path = <<>> THEN 0 ELSE path[Len(path)]
IsLocal(x, proc) ==
  \E j \in Statements : prog[j].is = "LOCAL" /\ prog[j].name = x /\ Innermost(prog[j].path) = proc

DeclaredIn(j) == LET proc == Innermost(prog[j].path)
                 IN IF proc # 0 /\ IsLocal(prog[j].name, proc) THEN proc ELSE 0
Declarations(x, proc) ==
  {j \in Statements : prog[j].is = "label" /\ prog[j].name = x /\ DeclaredIn(j) = proc}

MeantIn(j) ==
  LET path == prog[j].path
      around == {i \in DOMAIN path : IsLocal(prog[j].name, path[i])}
  IN IF around = {} THEN 0 ELSE path[Highest(around)]

\* The statements that declare what the use in line j means.
Meant(j) ==
  CASE prog[j].is = "use" -> Declarations(prog[j].name, MeantIn(j))
    [] prog[j].is = "1B" ->
         LET before == {k \in Statements : k < j /\ prog[k].is = "1:"}
         IN IF before = {} THEN {} ELSE {Highest(before)}
    [] prog[j].is = "1F" ->
         LET after == {k \in Statements : k > j /\ prog[k].is = "1:"}
         IN IF after = {} THEN {} ELSE {Lowest(after)}
Uses == {j \in Statements : prog[j].is \in {"use", "1B", "1F"}}

Procs == {j \in Statements : prog[j].is = "PROC"}
Twice == \E x \in Names, proc \in Procs \cup {0} : Cardinality(Declarations(x, proc)) > 1
Unknown == \/ \E j \in Uses : Meant(j) = {}
           \/ \E k \in DOMAIN INITS : Declarations(INITS[k], 0) = {}
LocalUnknown == \E x \in Names, proc \in Procs : IsLocal(x, proc) /\ Declarations(x, proc) = {}
Unbalanced == scopes # <<>> \/ \E j \in Statements : prog[j].is = "ENDP" /\ prog[j].path = <<>>

\* Where the calls of the #init routines begin, and whether they come next to
\* the highest address the source puts anything at, labels included.
InitsAt == index - Len(INITS) - 1
InitsOnTop ==
  Highest({prog[j].at : j \in Uses \cup {k \in Statements : prog[k].is = "label"}}) = InitsAt - 1

Overlap == \/ \E j, k \in Uses : j # k /\ prog[j].at = prog[k].at
           \/ INITS # <<>> /\ \E j \in Uses : prog[j].at >= InitsAt

\* LOCAL stands at the beginning of its PROC, as in the runtime library.
LocalFirst ==
  \A j \in Statements : prog[j].is = "LOCAL" =>
    j > 1 /\ prog[j].path # <<>> /\ prog[j - 1].is \in {"PROC", "LOCAL"}

\* No PROC inside one that has a name LOCAL declares that name for itself.
NotShadowed ==
  \A j \in Statements : prog[j].is = "label" =>
    \A i \in 1 .. Len(prog[j].path) - 1 :
      IsLocal(prog[j].name, prog[j].path[i]) => DeclaredIn(j) # 0

Plain == LocalFirst /\ NotShadowed

\* Types: the scopes and the tables of labels go in step, a table gives each
\* name an object of that name, and a place in the memory has both its entries.
TypeOK ==
  /\ index \in Nat
  /\ Len(local_labels) = Len(scopes) + 1
  /\ \A s \in 1 .. Top : \A x \in DOMAIN local_labels[s] :
       local_labels[s][x] \in DOMAIN labels /\ labels[local_labels[s][x]].name = x
  /\ DOMAIN orgs = DOMAIN memory_bytes

\* The binary has v at address a.
Puts(a, v) ==
  LET i == a - binary.org + 1
  IN  i \in DOMAIN binary.output /\ binary.output[i] = v

\* In the binary of an accepted source, if its LOCALs are Plain and no two of its
\* instructions overlap, every operand is the address of the label its text means:
\* the objects shared between scopes, the transfers of ENDP, the deferred operands
\* and the zeroes dump holds back end in the byte the programmer asked for (get_label, exit_proc, resolve_temporary_label, dump).
AcceptedRight ==
  binary # NoBinary /\ Plain /\ ~Overlap =>
    \A j \in Uses :
      \E k \in Meant(j) : Puts(prog[j].at, prog[k].at)

\* A program with #init lines starts with the calls of their routines, in their
\* order, and a jump to its beginning, at the addresses the labels got when the
\* source ended.  Left out are sources that end with a label, or somewhere
\* else after an ORG: AUTORUN_ADDR is then not where the calls are (zxbasm.py
\* main).
StartsWithInits ==
  binary # NoBinary /\ INITS # <<>> /\ Plain /\ InitsOnTop =>
    /\ \A k \in DOMAIN INITS :
         \E d \in Declarations(INITS[k], 0) : Puts(AUTORUN_ADDR + k - 1, prog[d].at)
    /\ Puts(AUTORUN_ADDR + Len(INITS), binary.org)

\* No source whose LOCALs are Plain gets a binary if it declares a label twice, or
\* leaves a LOCAL one without a declaration, whichever of declare_label, exit_proc
\* and dump has to notice it.
RejectsWrong == binary # NoBinary /\ Plain => ~Twice /\ ~LocalUnknown

\* An error is only reported of a Plain source that has one.  It does not hold: a
\* label used in a PROC and declared in a PROC inside it is transferred to the
\* global scope twice, and the second time exit_proc reports it as defined
\* already; and ORG drops the references to temporary labels.
NoSpuriousErrors == errors # NoError /\ Plain => Twice \/ Unknown \/ LocalUnknown \/ Unbalanced
=============================================================================
