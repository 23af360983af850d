----------------------------- MODULE NexCreator -----------------------------
(***************************************************************************)
(* tools/nextcreator.py as NextBuild drives it: the lines of a .cfg file   *)
(* are read one by one, files are copied in chunks that end at 16K bank    *)
(* boundaries into one large image kept in loading order, and the image is *)
(* written out as a NEX file.  One action per line, chunk and output.      *)
(*                                                                         *)
(* An address is a number of cells: Half cells are the 8K of the machine,  *)
(* a cell holds <<file, position>>, a byte and where it came from.         *)
(***************************************************************************)
EXTENDS Integers, Sequences, FiniteSets

CONSTANTS Half,        \* cells of an 8K bank
          Banks,       \* 16K banks a NEX file can name: 64 + 48 in the code
          BigBanks,    \* 16K banks bigFile has room for
          Blank        \* a byte no file was copied to

ASSUME NexAssumption ==
  /\ Half \in Nat \ {0}
  /\ Banks \in Nat /\ Banks > 8
  /\ BigBanks \in Nat /\ BigBanks > Banks + 1

Page == 2 * Half          \* 0x4000
Z80Space == 4 * Page      \* 0x10000

VARIABLES
  disk,             \* the files: name to contents
  cfg,              \* lines of the .cfg file still to be read
  fin,              \* what is still to be read of the file being added
  current_bank,
  current_address,
  bigFile,
  banks,            \* HEADER512.banks: the banks flagged to be loaded
  PC,               \* HEADER512.PC
  screen,           \* HEADER512.loading_screen has the Layer 2 bit
  nex               \* the NEX file written

creator == <<fin, current_bank, current_address, bigFile, banks, PC, screen>>

NoNex == [banks |-> {}, num |-> 0, PC |-> 0, screen |-> FALSE, body |-> <<>>]

MMULine(file, bank8k, at) == [kind |-> "MMU", file |-> file, bank |-> bank8k, at |-> at]
FileLine(file, bank, at) == [kind |-> "file", file |-> file, bank |-> bank, at |-> at]
PCSPLine(pc) == [kind |-> "PCSP", pc |-> pc]
BMPLine == [kind |-> "BMP8"]

-----------------------------------------------------------------------------
(* Banks, and their place in a NEX file.                                   *)

get_real_bank(bank) ==
  IF bank > 7 THEN bank ELSE <<2, 3, 1, 4, 5, 0, 6, 7>>[bank + 1]
get_bank_order(i) ==
  IF i > 7 THEN i ELSE <<5, 2, 0, 1, 3, 4, 6, 7>>[i + 1]

Following(bank) == bank + 1                          \* mutant of get_next_bank
get_next_bank(bank) ==
  IF bank > 7 THEN bank + 1 ELSE <<1, 3, 0, 4, 6, 2, 7, 8>>[bank + 1]

-----------------------------------------------------------------------------
CreatorInit ==
  /\ cfg = <<>>
  /\ fin = <<>>
  /\ current_bank = 0 /\ current_address = 0
  /\ bigFile = [a \in 0 .. BigBanks * Page - 1 |-> Blank]
  /\ banks = {}
  /\ PC = 0
  /\ screen = FALSE
  /\ nex = NoNex

\* The next line is of this kind, and no file is being added.
Reads(kind) ==
  /\ fin = <<>>
  /\ cfg # <<>>
  /\ Head(cfg).kind = kind
  /\ cfg' = Tail(cfg)

\* An 8K bank is one half of a 16K bank.
load_mmu ==
  /\ Reads("MMU")
  /\ LET bank8k == Head(cfg).bank
     IN /\ current_bank' = bank8k \div 2
        /\ current_address' = Head(cfg).at + (IF bank8k = 2 * (bank8k \div 2) THEN 0 ELSE Half)
  /\ fin' = disk[Head(cfg).file]
  /\ UNCHANGED <<disk, bigFile, banks, PC, screen, nex>>

\* A line without a command: a file, a 16K bank and an address.
add_file ==
  /\ Reads("file")
  /\ current_bank' = Head(cfg).bank
  /\ current_address' = Head(cfg).at
  /\ fin' = disk[Head(cfg).file]
  /\ UNCHANGED <<disk, bigFile, banks, PC, screen, nex>>

set_PCSP ==
  /\ Reads("PCSP")
  /\ PC' = Head(cfg).pc
  /\ UNCHANGED <<disk, fin, current_bank, current_address, bigFile, banks, screen, nex>>

load_bmp ==
  /\ Reads("BMP8")
  /\ screen' = TRUE
  /\ UNCHANGED <<disk, fin, current_bank, current_address, bigFile, banks, PC, nex>>

\* The next chunk starts at a multiple of 16K, within 64K.
NextAddress(address) == ((address \div Page) * Page + Page) % Z80Space

FlaggedAlways(bank) == {bank}                              \* mutant of Flagged
\* A bank past the last one is copied to, but not flagged.
Flagged(bank) == IF bank < Banks THEN {bank} ELSE {}

\* One pass of add_file's loop.
CopyChunk ==
  /\ fin # <<>>
  /\ LET offset == get_real_bank(current_bank) * Page + (current_address % Page)
         room == Page - (current_address % Page)
         length == IF Len(fin) < room THEN Len(fin) ELSE room
     IN /\ bigFile' = [a \in DOMAIN bigFile |->
                         IF a \in offset .. offset + length - 1 THEN fin[a - offset + 1]
                         ELSE bigFile[a]]
        /\ fin' = SubSeq(fin, length + 1, Len(fin))
  /\ banks' = banks \cup Flagged(current_bank)
  /\ current_address' = NextAddress(current_address)
  /\ current_bank' = get_next_bank(current_bank)
  /\ UNCHANGED <<disk, cfg, PC, screen, nex>>

\* The pages of a set's banks that generate_file has written when its loop has
\* passed i, the loading order's i-th bank.
Written(set, i) == Cardinality({j \in 0 .. i : get_bank_order(j) \in set})

PageAt(i) == [o \in 0 .. Page - 1 |-> bigFile[i * Page + o]]

\* The k-th page written is that of the i at which the loop writes it.
PageOf(set, k) ==
  PageAt(CHOOSE i \in 0 .. Banks - 1 : get_bank_order(i) \in set /\ Written(set, i) = k)

PagesButLast(set) ==                                        \* mutant of Pages
  [k \in 1 .. Written(set, Banks - 2) |-> PageOf(set, k)]

\* bigFile[i * 16384 : (i + 1) * 16384] for every i whose bank is flagged.
Pages(set) == [k \in 1 .. Written(set, Banks - 1) |-> PageOf(set, k)]

generate_file ==
  /\ fin = <<>> /\ cfg = <<>>
  /\ nex' = [banks |-> banks, num |-> Cardinality(banks), PC |-> PC, screen |-> screen,
             body |-> (IF screen THEN <<"palette", "loading">> ELSE <<>>) \o Pages(banks)]
  /\ UNCHANGED <<disk, cfg, creator>>

-----------------------------------------------------------------------------
(* The loader of the machine, which reads what generate_file writes.       *)

\* The RAM after the NEX file was loaded: the flagged banks are read in order
\* from behind the loading screen, the others stay as they were.
Loaded(file) ==
  LET skip == IF file.screen THEN 2 ELSE 0
      Content(bank) ==
        file.body[skip + Written(file.banks, CHOOSE i \in 0 .. Banks - 1 : get_bank_order(i) = bank)]
  IN [bank \in 0 .. Banks - 1 |->
        IF bank \in file.banks THEN Content(bank) ELSE [o \in 0 .. Page - 1 |-> Blank]]

\* The bank a program finds at a Z80 address when it starts.
BankAt(address) == CASE address \div Page = 1 -> 5
                     [] address \div Page = 2 -> 2
                     [] address \div Page = 3 -> 0
=============================================================================
