---------------------------- MODULE Preprocessor ----------------------------
(***************************************************************************)
(* The preprocessor, zxbpp/zxbpp.py, over the lines of a tree of files.    *)
(* The lexer keeps a stack of files being read (filestack); the parser     *)
(* keeps, for each construct that is open - a file, the part of a          *)
(* conditional before #else, the part after it - the text reduced in it    *)
(* so far (constructs).  The rest are the module's global variables, which *)
(* the rules change when they are reduced.  The text of a region that is   *)
(* not enabled is produced like any other and dropped when the region ends.*)
(*                                                                         *)
(* A line is [op, arg, flag]; a name in an #include is looked up in        *)
(* directories, and so is the path of a file, for which the file stands:   *)
(* each is found by one path.  Line numbers, warnings, macro bodies and    *)
(* the text of a line are left out; a macro is defined or not, and a line  *)
(* may call one with the wrong number of arguments.                        *)
(***************************************************************************)
EXTENDS Naturals, Sequences, FiniteSets, SequencesExt

CONSTANTS
  File,       \* the files there are
  NoFile,     \* the empty name search_filename answers when there is none
  Main,       \* the file given to the compiler
  Dir,        \* directories
  Rel,        \* the names written in #include
  Resolve,    \* what a name, or a path, is in a directory: a file, or NoFile
  DirOf,      \* the directory of a file
  LibDir,     \* INCLUDEPATH
  Macro,      \* macro names
  Options,    \* the macros set by options, when the compiler starts
  Contents    \* the contents the files may have

ASSUME PreprocessorAssumption ==
  /\ NoFile \notin File /\ Main \in File /\ LibDir \in Dir
  /\ Resolve \in [Dir -> [Rel \cup File \cup {NoFile} -> File \cup {NoFile}]]
  /\ DirOf \in [File \cup {NoFile} -> Dir]
  /\ Options \subseteq Macro
  /\ \A c \in Contents : \A f \in File :
       /\ c[f] \in Seq(Range(c[f]))
       /\ \A l \in Range(c[f]) :
            /\ l.op \in {"define", "option"} => l.arg \in Macro
            /\ l.op \in {"include", "include_once"} => l.arg \in Rel

VARIABLES
  content,       \* the lines of each file
  filestack,     \* the files being read, with the lines left of each
  constructs,    \* the constructs open in the parser
  INCLUDED,      \* the files included, and whether they are marked once
  CURRENT_FILE,
  CURRENT_DIR,
  IFDEFS,        \* the value of enabled outside each open conditional
  enabled,       \* ENABLED: the lines being read take effect
  ID_TABLE,      \* the macros defined
  OUTPUT,        \* the text produced
  has_errors

reading == <<filestack, constructs>>
files == <<INCLUDED, CURRENT_FILE, CURRENT_DIR>>
conditions == <<IFDEFS, enabled>>
ppvars == <<content, reading, files, conditions, ID_TABLE, OUTPUT, has_errors>>

Construct(k, hdr, kept) == [kind |-> k, hdr |-> hdr, kept |-> kept, prog |-> <<>>, any |-> FALSE]
Blank == [op |-> "text", arg |-> "", flag |-> FALSE]
Lines(f) == IF f = NoFile THEN <<Blank>> ELSE content[f]

Line == Head(Last(filestack).rest)
Top == Last(constructs)

Reading(op) ==
  /\ filestack # <<>> /\ Last(filestack).rest # <<>>
  /\ Line.op = op

Advanced == [filestack EXCEPT ![Len(filestack)].rest = Tail(@)]
(* The text of a construct after one more line, or item, was reduced in it. *)
Added(cs, text) == [cs EXCEPT ![Len(cs)].prog = @ \o text, ![Len(cs)].any = TRUE]

Skip(text) ==
  /\ filestack' = Advanced
  /\ constructs' = Added(constructs, text)

(* A token the parser does not expect there: the stack is dropped, and what *)
(* the rest of the input gives is used by nobody.                           *)
SyntaxError ==
  /\ has_errors' = TRUE
  /\ filestack' = <<>> /\ constructs' = <<>>
  /\ UNCHANGED <<content, files, conditions, ID_TABLE, OUTPUT>>
-----------------------------------------------------------------------------
(* A line of text; so are #pragma of an option and the SUB and END SUB lines, *)
(* which the compiler reads.                                                 *)
Text ==
  /\ \E op \in {"text", "option", "sub", "endsub"} : Reading(op)
  /\ Skip(<<Line>>)
  /\ UNCHANGED <<content, files, conditions, ID_TABLE, OUTPUT, has_errors>>

(* A line that calls macro arg with the wrong number of arguments. *)
MacroCall ==
  /\ Reading("call")
  /\ IF Line.arg \in ID_TABLE
       THEN /\ has_errors' = TRUE
            /\ filestack' = Advanced
            /\ constructs' = [constructs EXCEPT ![Len(constructs)].prog = <<>>,
                                                ![Len(constructs)].any = TRUE]
       ELSE Skip(<<Line>>) /\ UNCHANGED has_errors
  /\ UNCHANGED <<content, files, conditions, ID_TABLE, OUTPUT>>

Define ==
  /\ Reading("define")
  /\ Skip(<<>>)
  /\ ID_TABLE' = IF enabled THEN ID_TABLE \cup {Line.arg} ELSE ID_TABLE
  /\ UNCHANGED <<content, files, conditions, OUTPUT, has_errors>>

Undef ==
  /\ Reading("undef")
  /\ Skip(<<>>)
  /\ ID_TABLE' = IF enabled THEN ID_TABLE \ {Line.arg} ELSE ID_TABLE
  /\ UNCHANGED <<content, files, conditions, OUTPUT, has_errors>>

ErrorMsg ==
  /\ Reading("error")
  /\ Skip(<<>>)
  /\ has_errors' = (has_errors \/ enabled)
  /\ UNCHANGED <<content, files, conditions, ID_TABLE, OUTPUT>>

(* #pragma once marks the file on top of CURRENT_FILE. *)
PragmaOnce ==
  /\ Reading("once")
  /\ Skip(<<>>)
  /\ INCLUDED' = [f \in DOMAIN INCLUDED \cup {Last(CURRENT_FILE)} |->
                    f = Last(CURRENT_FILE) \/ INCLUDED[f]]
  /\ UNCHANGED <<content, CURRENT_FILE, CURRENT_DIR, conditions, ID_TABLE, OUTPUT, has_errors>>
-----------------------------------------------------------------------------
(* #ifdef, and #ifndef when the flag is set. *)
IfHeader ==
  /\ Reading("if")
  /\ LET hdr == enabled /\ ((Line.arg \in ID_TABLE) # Line.flag) IN
       /\ IFDEFS' = Append(IFDEFS, enabled)
       /\ enabled' = hdr
       /\ constructs' = Append(constructs, Construct("if", hdr, <<>>))
  /\ filestack' = Advanced
  /\ UNCHANGED <<content, files, ID_TABLE, OUTPUT, has_errors>>

ElseEnables ==                                                 \* mutant of Else
  /\ Reading("else")
  /\ Top.kind = "if" /\ Top.any
  /\ LET kept == IF Last(IFDEFS) /\ Top.hdr THEN Top.prog ELSE <<>>
     IN  /\ enabled' = ~Top.hdr
         /\ constructs' = [constructs EXCEPT ![Len(constructs)] = Construct("else", FALSE, kept)]
  /\ filestack' = Advanced
  /\ UNCHANGED <<content, files, IFDEFS, ID_TABLE, OUTPUT, has_errors>>

(* #else and #endif need at least one line before them in their part. *)
Else ==
  /\ Reading("else")
  /\ Top.kind = "if" /\ Top.any
  /\ LET outer == Last(IFDEFS)
         kept == IF outer /\ Top.hdr THEN Top.prog ELSE <<>>
     IN  /\ enabled' = IF outer THEN ~Top.hdr ELSE enabled
         /\ constructs' = [constructs EXCEPT ![Len(constructs)] = Construct("else", FALSE, kept)]
  /\ filestack' = Advanced
  /\ UNCHANGED <<content, files, IFDEFS, ID_TABLE, OUTPUT, has_errors>>

EndIf ==
  /\ Reading("endif")
  /\ Top.kind \in {"if", "else"} /\ Top.any
  /\ LET part == IF enabled THEN Top.prog ELSE <<>>
         text == IF Top.kind = "if" THEN part
                 ELSE IF Last(IFDEFS) THEN Top.kept \o part ELSE <<>>
     IN  constructs' = Added(Front(constructs), text)
  /\ enabled' = Last(IFDEFS)
  /\ IFDEFS' = Front(IFDEFS)
  /\ filestack' = Advanced
  /\ UNCHANGED <<content, files, ID_TABLE, OUTPUT, has_errors>>

UnexpectedDirective ==
  /\ \/ Reading("else") /\ ~(Top.kind = "if" /\ Top.any)
     \/ Reading("endif") /\ ~(Top.kind \in {"if", "else"} /\ Top.any)
  /\ SyntaxError
-----------------------------------------------------------------------------
(* search_filename: the directory of the current file first when the name   *)
(* is written in quotes, the library directory in any case.                 *)
search_filename(r, local_first) ==
  IF local_first /\ Resolve[CURRENT_DIR][r] # NoFile
    THEN Resolve[CURRENT_DIR][r]
    ELSE Resolve[LibDir][r]

OpenUnregistered(f) ==                                         \* mutant of Open
  /\ CURRENT_FILE' = Append(CURRENT_FILE, f)
  /\ CURRENT_DIR' = DirOf[f]
  /\ filestack' = Append(Advanced, [file |-> f, rest |-> Lines(f)])
  /\ constructs' = Append(constructs, Construct("file", FALSE, <<>>))
  /\ UNCHANGED INCLUDED

(* The part of include_file that opens the file. *)
Open(f) ==
  /\ INCLUDED' = [g \in DOMAIN INCLUDED \cup {f} |-> g \in DOMAIN INCLUDED /\ INCLUDED[g]]
  /\ CURRENT_FILE' = Append(CURRENT_FILE, f)
  /\ CURRENT_DIR' = DirOf[f]
  /\ filestack' = Append(Advanced, [file |-> f, rest |-> Lines(f)])
  /\ constructs' = Append(constructs, Construct("file", FALSE, <<>>))

Include ==
  /\ Reading("include")
  /\ LET f == search_filename(Line.arg, Line.flag) IN
       /\ IF enabled /\ ~(f \in DOMAIN INCLUDED /\ INCLUDED[f])
            THEN Open(f)
            ELSE Skip(<<>>) /\ UNCHANGED files
       /\ has_errors' = (has_errors \/ (enabled /\ f = NoFile))
  /\ UNCHANGED <<content, conditions, ID_TABLE, OUTPUT>>

(* include_once gives the path it found to include_file, which looks it up  *)
(* again: one that is relative is taken from the current directory twice.   *)
IncludeOnce ==
  /\ Reading("include_once")
  /\ LET f == search_filename(Line.arg, Line.flag)
         g == search_filename(f, Line.flag)
         new == enabled /\ f \notin DOMAIN INCLUDED
     IN  /\ IF new /\ ~(g \in DOMAIN INCLUDED /\ INCLUDED[g])
              THEN Open(g)
              ELSE Skip(<<>>) /\ UNCHANGED files
         /\ has_errors' = (has_errors \/ (enabled /\ f = NoFile) \/ (new /\ g = NoFile))
  /\ UNCHANGED <<content, conditions, ID_TABLE, OUTPUT>>

AtEnd == filestack # <<>> /\ Last(filestack).rest = <<>>

EndFileStays ==                                                \* mutant of EndFile
  /\ AtEnd /\ Len(filestack) > 1 /\ Top.kind = "file"
  /\ filestack' = Front(filestack)
  /\ constructs' = Added(Front(constructs), Top.prog)
  /\ IF Top.any
       THEN /\ CURRENT_FILE' = Front(CURRENT_FILE)
            /\ UNCHANGED CURRENT_DIR
       ELSE UNCHANGED <<CURRENT_FILE, CURRENT_DIR>>
  /\ UNCHANGED <<content, INCLUDED, conditions, ID_TABLE, OUTPUT, has_errors>>

EndFileName ==                                                 \* mutant of EndFile
  /\ AtEnd /\ Len(filestack) > 1 /\ Top.kind = "file"
  /\ filestack' = Front(filestack)
  /\ constructs' = Added(Front(constructs), Top.prog)
  /\ IF Top.any
       THEN /\ CURRENT_FILE' = Front(CURRENT_FILE)
            /\ CURRENT_DIR' = Last(Front(CURRENT_FILE))
       ELSE UNCHANGED <<CURRENT_FILE, CURRENT_DIR>>
  /\ UNCHANGED <<content, INCLUDED, conditions, ID_TABLE, OUTPUT, has_errors>>

(* The end of an included file.  One without any line is reduced by the     *)
(* rule for an include that was skipped, which leaves CURRENT_FILE alone.   *)
EndFile ==
  /\ AtEnd /\ Len(filestack) > 1 /\ Top.kind = "file"
  /\ filestack' = Front(filestack)
  /\ constructs' = Added(Front(constructs), Top.prog)
  /\ IF Top.any
       THEN /\ CURRENT_FILE' = Front(CURRENT_FILE)
            /\ CURRENT_DIR' = DirOf[Last(Front(CURRENT_FILE))]
       ELSE UNCHANGED <<CURRENT_FILE, CURRENT_DIR>>
  /\ UNCHANGED <<content, INCLUDED, conditions, ID_TABLE, OUTPUT, has_errors>>

(* The end of the input of a pass. *)
EndInput ==
  /\ AtEnd /\ Len(filestack) = 1 /\ Top.kind = "file" /\ Top.any
  /\ OUTPUT' = OUTPUT \o Top.prog
  /\ filestack' = <<>> /\ constructs' = <<>>
  /\ CURRENT_FILE' = Front(CURRENT_FILE)
  /\ UNCHANGED <<content, INCLUDED, CURRENT_DIR, conditions, ID_TABLE, has_errors>>

UnexpectedEnd ==
  /\ AtEnd
  /\ Top.kind # "file" \/ (Len(filestack) = 1 /\ ~Top.any)
  /\ SyntaxError

PreprocessLine ==
  \/ Text \/ MacroCall \/ Define \/ Undef \/ ErrorMsg \/ PragmaOnce
  \/ IfHeader \/ Else \/ EndIf \/ UnexpectedDirective
  \/ Include \/ IncludeOnce \/ EndFile \/ EndInput \/ UnexpectedEnd
-----------------------------------------------------------------------------
(* What a pass starts from: the lines of f on a lexer of its own. *)
Opened(f, lines) ==
  /\ filestack' = <<[file |-> f, rest |-> lines]>>
  /\ constructs' = <<Construct("file", FALSE, <<>>)>>
  /\ CURRENT_FILE' = Append(CURRENT_FILE, f)
  /\ CURRENT_DIR' = DirOf[f]

PreprocessorInit ==
  /\ content \in Contents
  /\ filestack = <<>> /\ constructs = <<>>
  /\ INCLUDED = <<>>
  /\ CURRENT_FILE = <<>>
  /\ CURRENT_DIR = LibDir
  /\ IFDEFS = <<>> /\ enabled = TRUE
  /\ ID_TABLE = Options
  /\ OUTPUT = <<>>
  /\ has_errors = FALSE
=============================================================================
