----------------------------- MODULE NextBuild -----------------------------
(***************************************************************************)
(* The part of Scripts/nextbuild.py that turns a compiled program into a   *)
(* NEX file: ParseNEXCfg reads the LoadSDBank lines of the source and      *)
(* writes trimmed copies of files and the .cfg file, CreateNEXFile runs    *)
(* nextcreator on it (NexCreator).  The compiler has written the program   *)
(* for address org, and it ends below 64K.                                 *)
(***************************************************************************)
EXTENDS NexCreator

CONSTANTS Files,       \* the data files that exist
          Size,        \* cells of each
          Stem,        \* partname[:-4] of each: the name without extension
          Lines,       \* LoadSDBank lines the source may have
          MaxLines,    \* bound: LoadSDBank lines of a source
          Orgs,        \* addresses the program may be compiled for
          CodeSizes,   \* cells the compiled program may take
          SysvarsAt,   \* $1C00, where sysvars.bin goes in 8K bank 10
          Code,        \* <program>.bin
          Sysvars      \* sysvars.bin

VARIABLES
  source,      \* the LoadSDBank lines read so far
  outstring,   \* the .cfg file being put together
  org,
  size,        \* cells of the compiled program
  stage        \* "config", "create", "done" or "failed"

vars == <<disk, cfg, creator, nex, source, outstring, org, size, stage>>

Content(file, n) == [i \in 1 .. n |-> <<file, i - 1>>]

\* filename of the copy: './data/tr_' + partname[:-4] + str(trimmed) + '.bnk',
\* where trimmed is always 0.
Trimmed(l) == <<"tr", Stem[l.file]>>

FileLimit == (BigBanks - Banks - 1) * Page

\* A line names a file, an address, a length or 0, an offset in the file and an
\* 8K bank; it may be a comment, and it may have "sub" somewhere in it.  bigFile
\* is a gigabyte, so there is room for every file behind the last bank.
ASSUME LinesAssumption ==
  /\ \A l \in Lines : {l.at, l.length, l.from} \subseteq Nat /\ l.bank \in 0 .. 2 * Banks - 1
  /\ SysvarsAt \in 0 .. Half - 1
  /\ \A o \in Orgs : o \in 2 .. Z80Space - 1
  /\ \A o \in Orgs, n \in CodeSizes : o + n <= Z80Space
  /\ \A n \in CodeSizes : n \in 1 .. FileLimit
  /\ \A f \in Files : Size[f] \in 0 .. FileLimit
  /\ \A l \in Lines : Trimmed(l) \notin {Code, Sysvars}         \* ".bnk" and ".bin"
  /\ Code \notin Files /\ Sysvars \notin Files /\ Code # Sysvars

Init ==
  /\ CreatorInit
  /\ org \in Orgs /\ size \in CodeSizes
  /\ disk = [f \in Files \cup {Code, Sysvars} |->
               CASE f = Code -> Content(f, size)
                 [] f = Sysvars -> Content(f, 1)
                 [] OTHER -> Content(f, Size[f])]
  /\ source = <<>>
  /\ outstring \in {<<MMULine(Sysvars, 10, SysvarsAt)>>,
                    <<MMULine(Sysvars, 10, SysvarsAt), BMPLine>>}
  /\ stage = "config"

-----------------------------------------------------------------------------
(* ParseNEXCfg.                                                            *)

ReadsLine(l) ==
  /\ stage = "config"
  /\ Len(source) < MaxLines
  /\ source' = Append(source, l)
  /\ UNCHANGED <<cfg, creator, nex, org, size>>

SkipLine(l) ==
  /\ ReadsLine(l)
  /\ l.comment \/ l.sub
  /\ UNCHANGED <<disk, outstring, stage>>

\* "##ERROR - Failed to find file": exit, with no .cfg file written.
FileMissing(l) ==
  /\ ReadsLine(l)
  /\ ~l.comment /\ ~l.sub /\ l.file \notin Files
  /\ stage' = "failed"
  /\ UNCHANGED <<disk, outstring>>

UnmaskedAddress(l, file) ==                                \* mutant of IncludeFile
  /\ ReadsLine(l)
  /\ outstring' = Append(outstring, MMULine(file, l.bank, l.at))
  /\ UNCHANGED stage

\* The address is taken within its 8K: & 0x1fff.
IncludeFile(l, file) ==
  /\ ReadsLine(l)
  /\ outstring' = Append(outstring, MMULine(file, l.bank, l.at % Half))
  /\ UNCHANGED stage

IncludeWhole(l) ==
  /\ ~l.comment /\ ~l.sub /\ l.file \in Files /\ l.from = 0
  /\ IncludeFile(l, l.file)
  /\ UNCHANGED disk

IncludeTrimmed(l) ==
  /\ ~l.comment /\ ~l.sub /\ l.file \in Files /\ l.from > 0
  /\ LET rest == SubSeq(disk[l.file], l.from + 1, Len(disk[l.file]))
     IN disk' = [f \in DOMAIN disk \cup {Trimmed(l)} |-> IF f = Trimmed(l) THEN rest ELSE disk[f]]
  /\ IncludeFile(l, Trimmed(l))

\* The program goes in last; below 0x4000 there is no rambank for it.
EndOfSource ==
  /\ stage = "config"
  /\ IF org < Page
     THEN stage' = "failed" /\ UNCHANGED <<cfg, outstring>>
     ELSE /\ stage' = "create"
          /\ outstring' = outstring \o
               <<PCSPLine(org), FileLine(Code, BankAt(org), org % Page)>>
          /\ cfg' = outstring'
  /\ UNCHANGED <<disk, creator, nex, source, org, size>>

-----------------------------------------------------------------------------
\* CreateNEXFile: nextcreator.parse_file and generate_file.
ParseLine ==
  /\ stage = "create"
  /\ load_mmu \/ add_file \/ set_PCSP \/ load_bmp \/ CopyChunk
  /\ UNCHANGED <<source, outstring, org, size, stage>>

Generate ==
  /\ stage = "create"
  /\ generate_file
  /\ stage' = "done"
  /\ UNCHANGED <<source, outstring, org, size>>

Next ==
  \/ \E l \in Lines : SkipLine(l) \/ FileMissing(l) \/ IncludeWhole(l) \/ IncludeTrimmed(l)
  \/ EndOfSource
  \/ ParseLine
  \/ Generate

Spec == Init /\ [][Next]_vars

-----------------------------------------------------------------------------
OnDisk == UNION {{disk[f][i] : i \in DOMAIN disk[f]} : f \in DOMAIN disk}

\* Types: whatever the source loads, add_file stays inside bigFile and flags no
\* bank that the header of a NEX file has no place for.
TypeOK ==
  /\ current_bank \in 0 .. BigBanks - 1
  /\ current_address \in 0 .. Z80Space - 1
  /\ bigFile \in [0 .. BigBanks * Page - 1 -> OnDisk \cup {Blank}]
  /\ banks \subseteq 0 .. Banks - 1
  /\ stage \in {"config", "create", "done", "failed"}

(* What a LoadSDBank line asks for: byte i of what is left of the file, or   *)
(* of as much of it as the line's length says, goes to the 8K banks from     *)
(* l.bank on, one after the other, as LoadSDBank itself loads it when the    *)
(* program is not built as a NEX file.                                       *)

Place(l, i) == l.bank * Half + (l.at % Half) + i
Asked(l) == ~l.comment
Rest(l) == Size[l.file] - l.from
Left(l) == IF l.length = 0 \/ l.length > Rest(l) THEN Rest(l) ELSE l.length
Covers(l, cell) == Asked(l) /\ cell - Place(l, 0) \in 0 .. Left(l) - 1

\* The program's byte i is where the Z80 finds address org + i.
CodeCell(i) == BankAt(org + i) * Page + ((org + i) % Page)
Program == {CodeCell(i) : i \in 0 .. size - 1}

\* The memory of the machine after the NEX file was loaded, as one run of 8K
\* banks, holds each byte a line asks for, unless a later line or the program
\* covers it.
\* CHANGELOG.md: LoadSDBank "instructs NextBuild to include the file into the
\* NEX at the correct memory location".
LoadedAsAsked ==
  stage = "done" =>
    LET ram == Loaded(nex)
    IN \A j \in {k \in DOMAIN source : Asked(source[k])} :
         LET l == source[j]
         IN /\ l.file \in Files
            /\ \A i \in 0 .. Left(l) - 1 :
                 LET cell == Place(l, i)
                 IN (/\ cell < Banks * Page
                     /\ cell \notin Program
                     /\ \A k \in j + 1 .. Len(source) : ~Covers(source[k], cell))
                    => ram[cell \div Page][cell % Page] = <<l.file, l.from + i>>

\* No line says "sub", no two trimmed files have the same stem, no file runs out
\* of one of the banks 0 to 7, which NEX files keep in another order, and no line
\* asks for a part of a file that ends before the file, where another line asks
\* for something: ParseNEXCfg does not read the length.
PlainSource ==
  /\ \A j \in DOMAIN source : ~source[j].sub
  /\ \A j, k \in DOMAIN source :
       LET l == source[j]  m == source[k]
       IN Asked(l) /\ Asked(m) /\ l.from > 0 /\ m.from > 0 /\ Trimmed(l) = Trimmed(m)
          => l.file = m.file /\ l.from = m.from
  /\ \A j \in DOMAIN source :
       LET l == source[j]
       IN Asked(l) /\ l.bank < 16 => Place(l, Rest(l) - 1) \div Page = l.bank \div 2
  /\ \A j, k \in DOMAIN source :
       LET l == source[j]  m == source[k]
       IN j < k /\ Asked(l) /\ Asked(m) /\ {l.file, m.file} \subseteq Files =>
            \A i \in Left(m) .. Rest(m) - 1 : ~Covers(l, Place(m, i))

\* LoadedAsAsked, of the sources NextBuild gets right.
LoadedAsAskedPlain == PlainSource => LoadedAsAsked

\* Whatever the source loads and wherever the program crosses a 16K boundary,
\* it starts at its first byte and is whole in the address space of the Z80.
CodeInPlace ==
  stage = "done" =>
    \A i \in 0 .. size - 1 :
      Loaded(nex)[BankAt(nex.PC + i)][(nex.PC + i) % Page] = <<Code, i>>

\* The file has the pages its header announces, no more and no fewer.
BodyMatchesHeader ==
  stage = "done" =>
    /\ nex.num = Cardinality(nex.banks)
    /\ Len(nex.body) = nex.num + (IF nex.screen THEN 2 ELSE 0)
=============================================================================
