-------------------------- MODULE NextBuildProofs --------------------------
(***************************************************************************)
(* Theorems of NextBuild, for every size of the banks, every set of files  *)
(* and lines and every program: the types, the pages a NEX file announces, *)
(* the program found where it was compiled for, and each line's bytes      *)
(* found where the line asks for them.                                     *)
(***************************************************************************)
EXTENDS NextBuild, SequenceTheorems, FiniteSetTheorems, TLAPS

(* The cell of bigFile the next byte goes to, and the cell of address a.   *)
Offset == get_real_bank(current_bank) * Page + (current_address % Page)

Names == Files \cup {Code, Sysvars} \cup {Trimmed(l) : l \in Lines}
Bytes == Names \X Nat
CfgLines ==
  [kind : {"MMU"}, file : Names, bank : 0 .. 2 * Banks - 1, at : 0 .. Half - 1]
  \cup [kind : {"file"}, file : Names, bank : 0 .. Banks - 1, at : 0 .. Page - 1]
  \cup [kind : {"PCSP"}, pc : Nat]
  \cup {BMPLine}

-----------------------------------------------------------------------------
(* Arithmetic of pages.                                                    *)

LEMMA PageSize ==
  /\ Half \in Nat /\ Half > 0
  /\ Page \in Nat /\ Page > 0 /\ Page = 2 * Half
  /\ Z80Space \in Nat /\ Z80Space = 4 * Page
  /\ Banks \in Nat /\ Banks > 8 /\ BigBanks \in Nat /\ BigBanks > Banks + 1
  BY NexAssumption DEF Page, Z80Space

LEMMA Division ==
  ASSUME NEW R \in Nat, R > 0, NEW x \in Nat
  PROVE  /\ x % R \in 0 .. R - 1
         /\ x \div R \in Nat
         /\ x = (x \div R) * R + (x % R)
  OBVIOUS

LEMMA TimesLess ==
  ASSUME NEW R \in Nat, NEW a \in Nat, NEW b \in Nat, a + 1 <= b
  PROVE  a * R + R <= b * R
  <1>1. PICK k \in Nat : b = a + 1 + k
    BY b - a - 1 \in Nat
  <1>2. b * R = a * R + R + k * R
    BY <1>1
  <1>3. k * R >= 0
    OBVIOUS
  <1> QED
    BY <1>2, <1>3

\* A number has one quotient and one remainder.
LEMMA Quotient ==
  ASSUME NEW R \in Nat, R > 0, NEW q \in Nat, NEW r \in 0 .. R - 1
  PROVE  /\ (q * R + r) % R = r
         /\ (q * R + r) \div R = q
  <1> DEFINE x == q * R + r
             d == x \div R
             m == x % R
  <1>1. x \in Nat
    OBVIOUS
  <1>2. m \in 0 .. R - 1 /\ d \in Nat /\ x = d * R + m
    BY <1>1, Division
  <1>3. ~ (q + 1 <= d)
    BY <1>2, TimesLess
  <1>4. ~ (d + 1 <= q)
    BY <1>2, TimesLess
  <1>5. d = q
    BY <1>2, <1>3, <1>4
  <1> QED
    BY <1>2, <1>5

LEMMA SamePlace ==
  ASSUME NEW R \in Nat, R > 0, NEW q \in Nat, NEW r \in 0 .. R - 1,
         NEW d \in Nat, NEW m \in 0 .. R - 1, q * R + r = d * R + m
  PROVE  q = d /\ r = m
  BY Quotient

LEMMA SmallRemainder ==
  ASSUME NEW R \in Nat, R > 0, NEW r \in 0 .. R - 1
  PROVE  r % R = r
  <1>1. (0 * R + r) % R = r
    BY Quotient
  <1>2. 0 * R + r = r
    OBVIOUS
  <1> QED
    BY <1>1, <1>2

LEMMA NextAddressIsAligned ==
  ASSUME NEW a \in Nat
  PROVE  /\ NextAddress(a) \in 0 .. Z80Space - 1
         /\ NextAddress(a) % Page = 0
  <1> DEFINE k == (a \div Page) + 1
             q == k \div 4
             m == k % 4
  <1>1. k \in Nat /\ (a \div Page) * Page + Page = k * Page
    BY PageSize, Division
  <1>2. q \in Nat /\ m \in 0 .. 3 /\ k = q * 4 + m
    <2> HIDE DEF k
    <2> QED
      BY <1>1, Division
  <1>3. k * Page = q * Z80Space + m * Page
    <2> HIDE DEF k, q, m
    <2> QED
      BY <1>2, PageSize
  <1>4. m * Page \in 0 .. Z80Space - 1
    BY <1>2, PageSize
  <1>5. NextAddress(a) = m * Page
    <2>1. (q * Z80Space + m * Page) % Z80Space = m * Page
      <3> HIDE DEF k, q, m
      <3> QED
        BY <1>2, <1>4, PageSize, Quotient
    <2>2. NextAddress(a) = (k * Page) % Z80Space
      BY <1>1 DEF NextAddress
    <2> QED
      BY <1>3, <2>1, <2>2
  <1>6. (m * Page + 0) % Page = 0
    BY <1>2, PageSize, Quotient
  <1> QED
    BY <1>2, <1>4, <1>5, <1>6, PageSize

-----------------------------------------------------------------------------
(* The order of the banks.                                                 *)

LEMMA RealBank ==
  ASSUME NEW b \in Nat
  PROVE  /\ get_real_bank(b) \in Nat
         /\ b < 8 => get_real_bank(b) < 8
         /\ b >= 8 => get_real_bank(b) = b
         /\ get_bank_order(get_real_bank(b)) = b
         /\ get_next_bank(b) \in Nat
         /\ get_real_bank(get_next_bank(b)) = get_real_bank(b) + 1
  <1>1. CASE b > 7
    BY <1>1 DEF get_real_bank, get_bank_order, get_next_bank
  <1>2. CASE b \in {0, 1, 2, 3, 4, 5, 6, 7}
    BY <1>2 DEF get_real_bank, get_bank_order, get_next_bank
  <1> QED
    BY <1>1, <1>2

LEMMA BankOrder ==
  ASSUME NEW i \in Nat
  PROVE  /\ get_bank_order(i) \in Nat
         /\ i < 8 => get_bank_order(i) < 8
         /\ i >= 8 => get_bank_order(i) = i
         /\ get_real_bank(get_bank_order(i)) = i
  <1>1. CASE i > 7
    BY <1>1 DEF get_real_bank, get_bank_order
  <1>2. CASE i \in {0, 1, 2, 3, 4, 5, 6, 7}
    BY <1>2 DEF get_real_bank, get_bank_order
  <1> QED
    BY <1>1, <1>2

LEMMA RealBankBound ==
  ASSUME NEW b \in Nat, NEW n \in Nat, n > 7
  PROVE  b < n <=> get_real_bank(b) < n
  BY RealBank

\* The Z80 finds its 64K less the first 16K in the first three pages of bigFile.
LEMMA BankOfAddress ==
  ASSUME NEW a \in Page .. Z80Space - 1
  PROVE  /\ BankAt(a) \in 0 .. Banks - 1
         /\ get_real_bank(BankAt(a)) * Page + (a % Page) = a - Page
  <1> DEFINE q == a \div Page
  <1>1. a \in Nat /\ q \in Nat /\ a = q * Page + (a % Page) /\ a % Page \in 0 .. Page - 1
    BY PageSize, Division
  <1>2. q # 0
    BY <1>1, PageSize
  <1>3. ~ (q >= 4)
    <2>1. q >= 4 => 3 * Page + Page <= q * Page
      BY <1>1, TimesLess, PageSize
    <2> QED
      BY <2>1, <1>1, PageSize
  <1>4. q \in {1, 2, 3}
    BY <1>1, <1>2, <1>3
  <1>5. CASE q = 1
    <2>1. BankAt(a) = 5
      BY <1>5 DEF BankAt
    <2>2. get_real_bank(5) = 0
      BY DEF get_real_bank
    <2> QED
      BY <1>5, <1>1, <2>1, <2>2, PageSize
  <1>6. CASE q = 2
    <2>1. BankAt(a) = 2
      BY <1>6 DEF BankAt
    <2>2. get_real_bank(2) = 1
      BY DEF get_real_bank
    <2> QED
      BY <1>6, <1>1, <2>1, <2>2, PageSize
  <1>7. CASE q = 3
    <2>1. BankAt(a) = 0
      BY <1>7 DEF BankAt
    <2>2. get_real_bank(0) = 2
      BY DEF get_real_bank
    <2> QED
      BY <1>7, <1>1, <2>1, <2>2, PageSize
  <1> QED
    BY <1>4, <1>5, <1>6, <1>7

-----------------------------------------------------------------------------
(* Types.                                                                  *)

DiskOK ==
  /\ Files \cup {Code, Sysvars} \subseteq DOMAIN disk
  /\ DOMAIN disk \subseteq Names
  /\ \A f \in DOMAIN disk : disk[f] \in Seq(Bytes) /\ Len(disk[f]) <= FileLimit

\* The lines of a .cfg file name files there are.
CfgOK(lines) ==
  /\ lines \in Seq(CfgLines)
  /\ \A k \in 1 .. Len(lines) : lines[k].kind \in {"MMU", "file"} => lines[k].file \in DOMAIN disk

\* What is left of a file ends in front of the last bank of bigFile.
CursorOK ==
  /\ fin \in Seq(OnDisk)
  /\ current_bank \in 0 .. BigBanks - 1
  /\ current_address \in 0 .. Z80Space - 1
  /\ fin # <<>> => Offset + Len(fin) <= (BigBanks - 1) * Page

ImageOK ==
  /\ bigFile \in [0 .. BigBanks * Page - 1 -> OnDisk \cup {Blank}]
  /\ banks \subseteq 0 .. Banks - 1

\* Nothing is copied while the source is read.
Unstarted ==
  stage = "config" =>
    cfg = <<>> /\ fin = <<>> /\ bigFile = [a \in 0 .. BigBanks * Page - 1 |-> Blank]

Typing ==
  /\ DiskOK
  /\ CfgOK(cfg) /\ CfgOK(outstring)
  /\ CursorOK
  /\ ImageOK
  /\ Unstarted
  /\ screen \in BOOLEAN
  /\ org \in Orgs /\ size \in CodeSizes
  /\ source \in Seq(Lines)
  /\ stage \in {"config", "create", "done", "failed"}

LEMMA OnDiskFile ==
  ASSUME DiskOK, NEW f \in DOMAIN disk
  PROVE  disk[f] \in Seq(OnDisk)
  <1> DEFINE s == disk[f]
  <1>1. s \in Seq(Bytes) /\ Len(s) \in Nat /\ DOMAIN s = 1 .. Len(s)
    BY DEF DiskOK
  <1>2. \A i \in 1 .. Len(s) : s[i] \in OnDisk
    BY <1>1 DEF OnDisk
  <1> HIDE DEF s
  <1>3. SubSeq(s, 1, Len(s)) \in Seq(OnDisk)
    BY <1>1, <1>2, SubSeqProperties
  <1>4. SubSeq(s, 1, Len(s)) = s
    BY <1>1, SubSeqFull
  <1>5. s \in Seq(OnDisk)
    BY <1>3, <1>4
  <1> QED
    BY <1>5 DEF s

LEMMA ContentType ==
  ASSUME NEW f \in Names, NEW n \in Nat
  PROVE  /\ Content(f, n) \in Seq(Bytes)
         /\ Len(Content(f, n)) = n
  BY DEF Content, Bytes

LEMMA LimitType == FileLimit \in Nat /\ FileLimit > 0
                   /\ FileLimit + Banks * Page = (BigBanks - 1) * Page
  <1>1. PICK k \in Nat : BigBanks = Banks + 2 + k
    BY PageSize, BigBanks - Banks - 2 \in Nat
  <1>2. FileLimit = (k + 1) * Page
    BY <1>1, PageSize DEF FileLimit
  <1>3. k * Page \in Nat /\ (k + 1) * Page = k * Page + Page
    BY PageSize
  <1>4. (BigBanks - 1) * Page = (k + 1) * Page + Banks * Page
    BY <1>1, PageSize
  <1> QED
    BY <1>2, <1>3, <1>4, PageSize

LEMMA InitTyping == Init => Typing
  <1> SUFFICES ASSUME Init PROVE Typing
    OBVIOUS
  <1> USE DEF Init, CreatorInit
  <1>1. DiskOK
    <2>1. DOMAIN disk = Files \cup {Code, Sysvars}
      OBVIOUS
    <2>2. ASSUME NEW f \in DOMAIN disk
          PROVE  disk[f] \in Seq(Bytes) /\ Len(disk[f]) <= FileLimit
      <3>1. f \in Names
        BY <2>1 DEF Names
      <3>2. \E n \in 0 .. FileLimit : disk[f] = Content(f, n)
        <4>1. CASE f = Code
          BY <4>1, LinesAssumption, LimitType
        <4>2. CASE f = Sysvars
          <5>1. disk[f] = Content(f, 1)
            BY <4>2, LinesAssumption
          <5> QED
            BY <5>1, LimitType
        <4>3. CASE f \in Files
          <5>1. disk[f] = Content(f, Size[f])
            BY <4>3, LinesAssumption
          <5> QED
            BY <4>3, <5>1, LinesAssumption
        <4> QED
          BY <2>1, <4>1, <4>2, <4>3
      <3> QED
        BY <3>1, <3>2, ContentType, LimitType
    <2> QED
      BY <2>1, <2>2 DEF DiskOK, Names
  <1>2. CfgOK(cfg)
    BY DEF CfgOK
  <1>3. CfgOK(outstring)
    <2>1. Sysvars \in Names /\ Sysvars \in DOMAIN disk
      BY DEF Names
    <2>2. MMULine(Sysvars, 10, SysvarsAt) \in CfgLines /\ BMPLine \in CfgLines
      BY <2>1, PageSize, LinesAssumption DEF CfgLines, MMULine, BMPLine
    <2>3. /\ MMULine(Sysvars, 10, SysvarsAt).file = Sysvars
          /\ BMPLine.kind \notin {"MMU", "file"}
      BY DEF MMULine, BMPLine
    <2>4. PICK first \in CfgLines, second \in CfgLines :
            /\ outstring \in {<<first>>, <<first, second>>}
            /\ first.file = Sysvars
            /\ second.kind \notin {"MMU", "file"}
      BY <2>2, <2>3
    <2> HIDE DEF Init, CreatorInit
    <2>5. CASE outstring = <<first>>
      BY <2>1, <2>4, <2>5 DEF CfgOK
    <2>6. CASE outstring = <<first, second>>
      <3>1. outstring \in Seq(CfgLines) /\ Len(outstring) = 2
        BY <2>6
      <3>2. \A k \in 1 .. 2 : outstring[k].kind \in {"MMU", "file"} => outstring[k].file = Sysvars
        BY <2>4, <2>6
      <3> QED
        BY <2>1, <3>1, <3>2 DEF CfgOK
    <2> QED
      BY <2>4, <2>5, <2>6
  <1>4. CursorOK
    BY PageSize DEF CursorOK
  <1>5. ImageOK
    BY DEF ImageOK
  <1>6. Unstarted
    BY DEF Unstarted
  <1>7. screen \in BOOLEAN
    BY Zenon
  <1> QED
    BY <1>1, <1>2, <1>3, <1>4, <1>5, <1>6, <1>7 DEF Typing


LEMMA ReadTyping ==
  ASSUME NEW l \in Lines, Typing,
         SkipLine(l) \/ FileMissing(l) \/ IncludeWhole(l) \/ IncludeTrimmed(l)
  PROVE  Typing'
  <1>1. source' = Append(source, l) /\ source' \in Seq(Lines)
    <2>1. source' = Append(source, l)
      BY DEF SkipLine, FileMissing, IncludeWhole, IncludeTrimmed, IncludeFile, ReadsLine
    <2>2. source \in Seq(Lines)
      BY DEF Typing
    <2> QED
      BY <2>1, <2>2, AppendProperties
  <1>2. stage = "config" /\ UNCHANGED <<cfg, creator, nex, org, size>>
    BY DEF SkipLine, FileMissing, IncludeWhole, IncludeTrimmed, IncludeFile, ReadsLine
  <1>3. stage' \in {"config", "failed"}
    BY <1>2 DEF SkipLine, FileMissing, IncludeWhole, IncludeTrimmed, IncludeFile
  <1>4. DiskOK' /\ DOMAIN disk \subseteq DOMAIN disk'
    <2>1. CASE SkipLine(l) \/ FileMissing(l) \/ IncludeWhole(l)
      <3>1. UNCHANGED disk
        BY <2>1 DEF SkipLine, FileMissing, IncludeWhole
      <3> QED
        BY <3>1 DEF Typing, DiskOK
    <2>2. CASE IncludeTrimmed(l)
      <3> DEFINE whole == disk[l.file]
                 rest == SubSeq(whole, l.from + 1, Len(whole))
      <3>1. /\ l.file \in DOMAIN disk /\ l.from \in Nat
            /\ disk' = [f \in DOMAIN disk \cup {Trimmed(l)} |->
                          IF f = Trimmed(l) THEN rest ELSE disk[f]]
        BY <2>2, LinesAssumption DEF IncludeTrimmed, Typing, DiskOK
      <3>2. whole \in Seq(Bytes) /\ Len(whole) \in Nat /\ Len(whole) <= FileLimit
        BY <3>1 DEF Typing, DiskOK
      <3>3. rest \in Seq(Bytes) /\ Len(rest) <= Len(whole)
        <4> HIDE DEF whole
        <4>1. \A i \in l.from + 1 .. Len(whole) : whole[i] \in Bytes
          BY <3>1, <3>2, ElementOfSeq
        <4> QED
          BY <3>1, <3>2, <4>1, SubSeqProperties
      <3>4. Len(rest) <= FileLimit
        <4> HIDE DEF rest, whole
        <4> QED
          BY <3>2, <3>3, LimitType
      <3>5. DOMAIN disk' = DOMAIN disk \cup {Trimmed(l)} /\ Trimmed(l) \in Names
        BY <3>1 DEF Names
      <3>6. ASSUME NEW f \in DOMAIN disk'
            PROVE  disk'[f] \in Seq(Bytes) /\ Len(disk'[f]) <= FileLimit
        <4>1. CASE f = Trimmed(l)
          <5>1. disk'[f] = rest
            BY <3>1, <4>1
          <5> QED
            BY <5>1, <3>3, <3>4
        <4>2. CASE f # Trimmed(l)
          <5>1. disk'[f] = disk[f] /\ f \in DOMAIN disk
            BY <3>1, <4>2
          <5> QED
            BY <5>1 DEF Typing, DiskOK
        <4> QED
          BY <4>1, <4>2
      <3> QED
        BY <3>5, <3>6 DEF Typing, DiskOK
    <2> QED
      BY <2>1, <2>2
  <1>5. CfgOK(cfg)'
    <2>1. cfg = <<>> /\ cfg' = <<>>
      BY <1>2 DEF Typing, Unstarted
    <2> QED
      BY <2>1 DEF CfgOK
  <1>6. CfgOK(outstring)'
    <2>1. CASE SkipLine(l) \/ FileMissing(l)
      <3>1. UNCHANGED outstring
        BY <2>1 DEF SkipLine, FileMissing
      <3> QED
        BY <3>1, <1>4 DEF Typing, CfgOK
    <2>2. CASE IncludeWhole(l) \/ IncludeTrimmed(l)
      <3>1. PICK file \in {l.file, Trimmed(l)} :
              /\ file \in DOMAIN disk'
              /\ outstring' = Append(outstring, MMULine(file, l.bank, l.at % Half))
        <4>1. CASE IncludeWhole(l)
          BY <4>1 DEF IncludeWhole, IncludeFile, Typing, DiskOK
        <4>2. CASE IncludeTrimmed(l)
          <5>1. Trimmed(l) \in DOMAIN disk'
            BY <4>2 DEF IncludeTrimmed
          <5> QED
            BY <4>2, <5>1 DEF IncludeTrimmed, IncludeFile
        <4> QED
          BY <2>2, <4>1, <4>2
      <3> DEFINE line == MMULine(file, l.bank, l.at % Half)
      <3>2. line \in CfgLines /\ line.file = file
        <4>1. file \in Names
          BY <1>4, <3>1 DEF DiskOK
        <4>2. l.at % Half \in 0 .. Half - 1 /\ l.bank \in 0 .. 2 * Banks - 1
          BY PageSize, LinesAssumption
        <4> QED
          BY <4>1, <4>2 DEF MMULine, CfgLines
      <3> HIDE DEF line
      <3>3. outstring \in Seq(CfgLines) /\ outstring' = Append(outstring, line)
        BY <3>1 DEF line, Typing, CfgOK
      <3>4. /\ outstring' \in Seq(CfgLines)
            /\ Len(outstring') = Len(outstring) + 1
            /\ \A k \in 1 .. Len(outstring) : outstring'[k] = outstring[k]
            /\ outstring'[Len(outstring) + 1] = line
        BY <3>2, <3>3, AppendProperties
      <3>5. \A k \in 1 .. Len(outstring') :
               k \in 1 .. Len(outstring) \/ k = Len(outstring) + 1
        BY <3>3, <3>4
      <3>6. ASSUME NEW k \in 1 .. Len(outstring'), outstring'[k].kind \in {"MMU", "file"}
            PROVE  outstring'[k].file \in DOMAIN disk'
        <4>1. CASE k \in 1 .. Len(outstring)
          BY <3>4, <3>6, <4>1, <1>4 DEF Typing, CfgOK
        <4>2. CASE k = Len(outstring) + 1
          BY <3>1, <3>2, <3>4, <4>2
        <4> QED
          BY <3>5, <4>1, <4>2
      <3> QED
        BY <3>4, <3>6 DEF CfgOK
    <2> QED
      BY <2>1, <2>2
  <1>7. fin' = <<>> /\ fin = <<>> /\ bigFile' = bigFile
        /\ bigFile = [a \in 0 .. BigBanks * Page - 1 |-> Blank]
    BY <1>2 DEF Typing, Unstarted, creator
  <1>8. CursorOK' /\ ImageOK'
    <2>1. CursorOK'
      BY <1>2, <1>7 DEF creator, Typing, CursorOK, OnDisk
    <2>2. ImageOK'
      BY <1>2, <1>7 DEF creator, Typing, ImageOK
    <2> QED
      BY <2>1, <2>2
  <1>9. Unstarted'
    BY <1>2, <1>5, <1>7 DEF Unstarted, Typing
  <1>10. screen' \in BOOLEAN
    BY <1>2, Zenon DEF Typing, creator
  <1> QED
    BY <1>1, <1>2, <1>3, <1>4, <1>5, <1>6, <1>8, <1>9, <1>10 DEF Typing

LEMMA EndOfSourceTyping ==
  ASSUME Typing, EndOfSource
  PROVE  Typing'
  <1>1. UNCHANGED <<disk, creator, nex, source, org, size>> /\ stage' \in {"create", "failed"}
    BY DEF EndOfSource
  <1>2. DiskOK' /\ CursorOK' /\ ImageOK' /\ Unstarted'
    <2>1. DiskOK'
      BY <1>1 DEF Typing, DiskOK
    <2>2. CursorOK'
      BY <1>1 DEF Typing, CursorOK, creator, OnDisk, Offset
    <2>3. ImageOK'
      BY <1>1 DEF Typing, ImageOK, creator, OnDisk
    <2>4. Unstarted'
      BY <1>1 DEF Unstarted
    <2> QED
      BY <2>1, <2>2, <2>3, <2>4
  <1>3. CfgOK(cfg)' /\ CfgOK(outstring)'
    <2>1. CASE org < Page
      BY <2>1, <1>1 DEF EndOfSource, Typing, CfgOK
    <2>2. CASE ~ (org < Page)
      <3> DEFINE first == PCSPLine(org)
                 second == FileLine(Code, BankAt(org), org % Page)
                 old == outstring
      <3>1. old \in Seq(CfgLines) /\ outstring' = old \o <<first, second>> /\ cfg' = outstring'
        BY <2>2 DEF EndOfSource, Typing, CfgOK
      <3>2. org \in Page .. Z80Space - 1 /\ org % Page \in 0 .. Page - 1
        BY <2>2, LinesAssumption, PageSize DEF Typing
      <3>3. first \in CfgLines /\ first.kind \notin {"MMU", "file"}
        BY <3>2, PageSize DEF PCSPLine, CfgLines
      <3>4. second \in CfgLines /\ second.file = Code
        <4>1. Code \in Names /\ BankAt(org) \in 0 .. Banks - 1
          BY <3>2, BankOfAddress DEF Names
        <4> QED
          BY <4>1, <3>2 DEF FileLine, CfgLines
      <3> HIDE DEF first, second, old
      <3>5. /\ outstring' \in Seq(CfgLines)
            /\ Len(outstring') = Len(old) + 2
            /\ \A k \in 1 .. Len(old) + 2 :
                 outstring'[k] = IF k <= Len(old) THEN old[k] ELSE <<first, second>>[k - Len(old)]
        <4>1. <<first, second>> \in Seq(CfgLines) /\ Len(<<first, second>>) = 2
          BY <3>3, <3>4
        <4> HIDE DEF first, second
        <4> QED
          BY <3>1, <4>1, ConcatProperties
      <3>6. ASSUME NEW k \in 1 .. Len(outstring'), outstring'[k].kind \in {"MMU", "file"}
            PROVE  outstring'[k].file \in DOMAIN disk'
        <4>1. Len(old) \in Nat
          BY <3>1
        <4>2. CASE k <= Len(old)
          BY <3>5, <3>6, <4>1, <4>2, <1>1 DEF Typing, CfgOK, old
        <4>3. CASE k = Len(old) + 1
          <5>1. outstring'[k] = first
            BY <3>5, <4>1, <4>3
          <5> QED
            BY <5>1, <3>3, <3>6
        <4>4. CASE k = Len(old) + 2
          <5>1. outstring'[k] = second
            BY <3>5, <4>1, <4>4
          <5> QED
            BY <5>1, <3>4, <1>1 DEF Typing, DiskOK
        <4> QED
          BY <3>5, <4>1, <4>2, <4>3, <4>4
      <3> QED
        BY <3>1, <3>5, <3>6 DEF CfgOK
    <2> QED
      BY <2>1, <2>2
  <1>4. screen' \in BOOLEAN
    BY <1>1, Zenon DEF Typing, creator
  <1> QED
    BY <1>1, <1>2, <1>3, <1>4 DEF Typing

\* Reading a line leaves the rest of the .cfg file well formed.
LEMMA ReadsRest ==
  ASSUME Typing, cfg # <<>>, cfg' = Tail(cfg), UNCHANGED disk
  PROVE  /\ CfgOK(cfg)'
         /\ Head(cfg) \in CfgLines
         /\ Head(cfg).kind \in {"MMU", "file"} => Head(cfg).file \in DOMAIN disk
  <1>1. /\ cfg \in Seq(CfgLines)
        /\ \A k \in 1 .. Len(cfg) : cfg[k].kind \in {"MMU", "file"} => cfg[k].file \in DOMAIN disk
    BY DEF Typing, CfgOK
  <1>2. /\ cfg' \in Seq(CfgLines) /\ Len(cfg') = Len(cfg) - 1
        /\ \A k \in 1 .. Len(cfg') : cfg'[k] = cfg[k + 1]
        /\ Head(cfg) \in CfgLines
    BY <1>1, HeadTailProperties
  <1>3. Head(cfg) = cfg[1] /\ Len(cfg) \in Nat /\ Len(cfg) > 0
    BY <1>1, EmptySeq
  <1>4. \A k \in 1 .. Len(cfg') : k + 1 \in 1 .. Len(cfg)
    BY <1>2, <1>3
  <1>5. CfgOK(cfg)'
    BY <1>1, <1>2, <1>4 DEF CfgOK
  <1> QED
    BY <1>1, <1>2, <1>3, <1>5

\* A file is added where it ends in front of the last bank of bigFile.
LEMMA AddedFits ==
  ASSUME Typing, NEW f \in DOMAIN disk, fin' = disk[f],
         current_bank' \in 0 .. Banks - 1, current_address' \in 0 .. Page - 1,
         UNCHANGED disk
  PROVE  CursorOK'
  <1>1. fin' \in Seq(OnDisk) /\ Len(fin') \in Nat /\ Len(fin') <= FileLimit
    BY OnDiskFile DEF Typing, DiskOK
  <1>2. OnDisk' = OnDisk
    BY DEF OnDisk
  <1>3. get_real_bank(current_bank') + 1 <= Banks /\ get_real_bank(current_bank') \in Nat
    BY PageSize, RealBank, RealBankBound
  <1>4. current_address' % Page = current_address'
    <2>1. \A x \in 0 .. Page - 1 : x % Page = x
      BY PageSize, SmallRemainder
    <2> QED
      BY <2>1
  <1>5. get_real_bank(current_bank') * Page + Page <= Banks * Page
    BY <1>3, TimesLess, PageSize
  <1> DEFINE r == get_real_bank(current_bank')
  <1> HIDE DEF r
  <1>6. r * Page \in Nat /\ r * Page + Page <= Banks * Page
    BY <1>3, <1>5, PageSize DEF r
  <1>7. r * Page + current_address' + Len(fin') <= (BigBanks - 1) * Page
    BY <1>1, <1>6, LimitType, PageSize
  <1>8. Offset' + Len(fin') <= (BigBanks - 1) * Page
    BY <1>4, <1>7 DEF Offset, r
  <1>9. current_bank' \in 0 .. BigBanks - 1 /\ current_address' \in 0 .. Z80Space - 1
    BY PageSize
  <1> QED
    BY <1>1, <1>2, <1>8, <1>9 DEF CursorOK

LEMMA ReadsTyping ==
  ASSUME Typing, cfg # <<>>, cfg' = Tail(cfg), CursorOK', screen' \in BOOLEAN, stage = "create",
         UNCHANGED <<disk, bigFile, banks, source, outstring, org, size, stage>>
  PROVE  Typing'
  <1>1. DiskOK' /\ CfgOK(cfg)' /\ CfgOK(outstring)'
    BY ReadsRest DEF Typing, DiskOK, CfgOK
  <1>2. ImageOK' /\ Unstarted'
    BY DEF Typing, ImageOK, OnDisk, Unstarted
  <1> QED
    BY <1>1, <1>2 DEF Typing

LEMMA ParseLineTyping ==
  ASSUME Typing, stage = "create", load_mmu \/ add_file \/ set_PCSP \/ load_bmp,
         UNCHANGED <<source, outstring, org, size, stage>>
  PROVE  Typing'
  <1>1. cfg # <<>> /\ cfg' = Tail(cfg) /\ UNCHANGED <<disk, bigFile, banks>>
    BY DEF load_mmu, add_file, set_PCSP, load_bmp, Reads
  <1>2. /\ Head(cfg) \in CfgLines
        /\ Head(cfg).kind \in {"MMU", "file"} => Head(cfg).file \in DOMAIN disk
    BY <1>1, ReadsRest
  <1>3. CursorOK'
    <2>1. CASE load_mmu
      <3> DEFINE line == Head(cfg)
                 b == line.bank
      <3>1. line.kind = "MMU" /\ line.file \in DOMAIN disk /\ fin' = disk[line.file]
        BY <1>2, <2>1 DEF load_mmu, Reads
      <3>2. b \in 0 .. 2 * Banks - 1 /\ line.at \in 0 .. Half - 1
        BY <1>2, <3>1 DEF CfgLines, BMPLine
      <3>3. b \div 2 \in 0 .. Banks - 1
        BY <3>2, PageSize
      <3>4. /\ current_bank' = b \div 2
            /\ current_address' \in {line.at, line.at + Half}
        BY <2>1, <3>2, PageSize DEF load_mmu
      <3>5. current_address' \in 0 .. Page - 1
        BY <3>2, <3>4, PageSize
      <3> HIDE DEF line, b
      <3> QED
        BY <1>1, <3>1, <3>3, <3>4, <3>5, AddedFits
    <2>2. CASE add_file
      <3> DEFINE line == Head(cfg)
      <3>1. line.kind = "file" /\ line.file \in DOMAIN disk /\ fin' = disk[line.file]
        BY <1>2, <2>2 DEF add_file, Reads
      <3>2. line.bank \in 0 .. Banks - 1 /\ line.at \in 0 .. Page - 1
        BY <1>2, <3>1 DEF CfgLines, BMPLine
      <3>3. current_bank' = line.bank /\ current_address' = line.at
        BY <2>2 DEF add_file
      <3> HIDE DEF line
      <3> QED
        BY <1>1, <3>1, <3>2, <3>3, AddedFits
    <2>3. CASE set_PCSP \/ load_bmp
      <3>1. UNCHANGED <<fin, current_bank, current_address>>
        BY <2>3 DEF set_PCSP, load_bmp
      <3> QED
        BY <1>1, <3>1 DEF Typing, CursorOK, Offset, OnDisk
    <2> QED
      BY <2>1, <2>2, <2>3
  <1>4. screen' \in BOOLEAN
    BY Zenon DEF Typing, load_mmu, add_file, set_PCSP, load_bmp
  <1> QED
    BY <1>1, <1>3, <1>4, ReadsTyping

-----------------------------------------------------------------------------
(* One chunk of a file.                                                    *)

Room == Page - (current_address % Page)
Length == IF Len(fin) < Room THEN Len(fin) ELSE Room

\* A chunk is what is left of the file or what is left of its bank; the next one
\* is put behind it in bigFile.
LEMMA Chunk ==
  ASSUME Typing, CopyChunk
  PROVE  /\ Offset \in Nat /\ Length \in 1 .. Len(fin)
         /\ current_address % Page \in 0 .. Page - 1
         /\ Length + (current_address % Page) <= Page
         /\ Offset + Len(fin) <= (BigBanks - 1) * Page
         /\ Len(fin') = Len(fin) - Length
         /\ fin' \in Seq(OnDisk)
         /\ \A i \in 1 .. Len(fin') : fin'[i] = fin[Length + i]
         /\ bigFile' = [a \in DOMAIN bigFile |->
                          IF a \in Offset .. Offset + Length - 1 THEN fin[a - Offset + 1]
                          ELSE bigFile[a]]
         /\ banks' = banks \cup Flagged(current_bank)
         /\ fin' # <<>> => Offset' = Offset + Length
         /\ current_bank' \in 0 .. BigBanks - 1
         /\ current_address' \in 0 .. Z80Space - 1
         /\ UNCHANGED <<disk, cfg, PC, screen, nex>>
  <1> DEFINE r == get_real_bank(current_bank)
             x == current_address % Page
  <1>1. fin \in Seq(OnDisk) /\ fin # <<>> /\ Len(fin) \in Nat /\ Len(fin) > 0
    BY EmptySeq DEF Typing, CursorOK, CopyChunk
  <1>2. r \in Nat /\ x \in 0 .. Page - 1 /\ Offset = r * Page + x /\ r * Page \in Nat
    <2>1. current_bank \in Nat /\ current_address \in Nat
      BY PageSize DEF Typing, CursorOK
    <2>2. r \in Nat /\ x \in 0 .. Page - 1 /\ Offset = r * Page + x
      BY <2>1, PageSize, RealBank, Division DEF Offset
    <2> HIDE DEF r, x
    <2>3. r * Page \in Nat
      BY <2>2, PageSize
    <2> QED
      BY <2>2, <2>3
  <1>3. Offset + Len(fin) <= (BigBanks - 1) * Page
    BY <1>1 DEF Typing, CursorOK
  <1>4. /\ bigFile' = [a \in DOMAIN bigFile |->
                         IF a \in Offset .. Offset + Length - 1 THEN fin[a - Offset + 1]
                         ELSE bigFile[a]]
        /\ fin' = SubSeq(fin, Length + 1, Len(fin))
        /\ banks' = banks \cup Flagged(current_bank)
        /\ current_address' = NextAddress(current_address)
        /\ current_bank' = get_next_bank(current_bank)
        /\ UNCHANGED <<disk, cfg, PC, screen, nex>>
    BY DEF CopyChunk, Offset, Length, Room
  <1>5. Room = Page - x /\ Length = IF Len(fin) < Room THEN Len(fin) ELSE Room
    BY DEF Room, Length
  <1> HIDE DEF r, x
  <1>6. Length \in 1 .. Len(fin) /\ Length + x <= Page
    BY <1>1, <1>2, <1>5, PageSize
  <1>7. /\ Len(fin') = Len(fin) - Length
        /\ fin' \in Seq(OnDisk)
        /\ \A i \in 1 .. Len(fin') : fin'[i] = fin[Length + i]
    <2>1. \A i \in Length + 1 .. Len(fin) : fin[i] \in OnDisk
      BY <1>1, <1>6, ElementOfSeq
    <2> DEFINE len == Length  n == Len(fin)
    <2>2. len \in Nat /\ n \in Nat /\ len <= n
      BY <1>1, <1>6
    <2> HIDE DEF len, n
    <2>3. /\ SubSeq(fin, len + 1, n) \in Seq(OnDisk)
          /\ Len(SubSeq(fin, len + 1, n)) = n - len
          /\ \A i \in 1 .. n - len : SubSeq(fin, len + 1, n)[i] = fin[len + i]
      <3>1. \A i \in len + 1 .. n : fin[i] \in OnDisk
        BY <2>1 DEF len, n
      <3>2. /\ SubSeq(fin, len + 1, n) \in Seq(OnDisk)
            /\ Len(SubSeq(fin, len + 1, n)) = IF len + 1 <= n THEN n - (len + 1) + 1 ELSE 0
            /\ \A i \in 1 .. n - (len + 1) + 1 : SubSeq(fin, len + 1, n)[i] = fin[len + 1 + i - 1]
        BY <2>2, <3>1, SubSeqProperties
      <3> QED
        BY <2>2, <3>2
    <2> QED
      BY <1>4, <2>3 DEF len, n
  <1>8. current_bank \in Nat /\ current_address \in Nat
    BY PageSize DEF Typing, CursorOK
  <1>9. /\ get_real_bank(current_bank') = r + 1
        /\ current_address' % Page = 0
        /\ current_address' \in 0 .. Z80Space - 1
    BY <1>4, <1>8, RealBank, NextAddressIsAligned DEF r
  <1>10. Offset' = r * Page + Page
    <2>1. Offset' = (r + 1) * Page + 0
      BY <1>9 DEF Offset
    <2> QED
      BY <2>1, <1>2, PageSize
  <1>11. fin' # <<>> => Offset' = Offset + Length
    <2> SUFFICES ASSUME fin' # <<>> PROVE Offset' = Offset + Length
      OBVIOUS
    <2>1. Len(fin') > 0
      BY <1>7, EmptySeq
    <2>2. Length = Page - x
      BY <2>1, <1>1, <1>5, <1>6, <1>7
    <2> QED
      BY <2>2, <1>2, <1>10, PageSize
  <1>12. current_bank' \in 0 .. BigBanks - 1
    <2>1. current_bank' \in Nat
      BY <1>4, <1>8, RealBank
    <2>2. ~ (BigBanks - 1 <= r)
      <3> SUFFICES ASSUME BigBanks - 1 <= r PROVE FALSE
        OBVIOUS
      <3>1. (BigBanks - 1) * Page <= r * Page
        <4>1. CASE BigBanks - 1 = r
          BY <4>1, <1>2, PageSize
        <4>2. CASE BigBanks <= r
          <5>1. (BigBanks - 1) * Page + Page <= r * Page
            BY <4>2, <1>2, PageSize, TimesLess
          <5> QED
            BY <5>1, <1>2, PageSize
        <4> QED
          BY <4>1, <4>2, <1>2, PageSize
      <3> QED
        BY <3>1, <1>1, <1>2, <1>3, PageSize
    <2>3. get_real_bank(current_bank') < BigBanks
      BY <2>2, <1>2, <1>9, PageSize
    <2> QED
      BY <2>1, <2>3, RealBankBound, PageSize
  <1>13. Offset \in Nat
    BY <1>2, PageSize
  <1>14. current_address % Page \in 0 .. Page - 1 /\ Length + (current_address % Page) <= Page
    BY <1>2, <1>6 DEF x
  <1> QED
    BY <1>3, <1>4, <1>6, <1>7, <1>9, <1>11, <1>12, <1>13, <1>14

LEMMA CopyTyping ==
  ASSUME Typing, stage = "create", CopyChunk, UNCHANGED <<source, outstring, org, size, stage>>
  PROVE  Typing'
  <1>1. UNCHANGED <<disk, cfg>>
    BY DEF CopyChunk
  <1>2. OnDisk' = OnDisk
    BY <1>1 DEF OnDisk
  <1>3. CursorOK'
    BY <1>2, Chunk DEF CursorOK
  <1>4. ImageOK'
    <2>1. ASSUME NEW a \in DOMAIN bigFile, a \in Offset .. Offset + Length - 1
          PROVE  fin[a - Offset + 1] \in OnDisk
      <3>1. fin \in Seq(OnDisk) /\ Len(fin) \in Nat
        BY DEF Typing, CursorOK
      <3>2. Offset \in Nat /\ Length \in 1 .. Len(fin)
        BY Chunk
      <3>3. a - Offset + 1 \in 1 .. Len(fin)
        BY <2>1, <3>1, <3>2
      <3> QED
        BY <3>1, <3>3, ElementOfSeq
    <2>2. bigFile' \in [0 .. BigBanks * Page - 1 -> OnDisk \cup {Blank}]
      <3>1. bigFile \in [0 .. BigBanks * Page - 1 -> OnDisk \cup {Blank}]
        BY DEF Typing, ImageOK
      <3>2. bigFile' = [a \in DOMAIN bigFile |->
                          IF a \in Offset .. Offset + Length - 1 THEN fin[a - Offset + 1]
                          ELSE bigFile[a]]
        BY Chunk
      <3> QED
        BY <2>1, <3>1, <3>2
    <2>3. banks' \subseteq 0 .. Banks - 1
      <3>1. banks' = banks \cup Flagged(current_bank) /\ banks \subseteq 0 .. Banks - 1
        BY Chunk DEF Typing, ImageOK
      <3>2. current_bank \in Nat
        BY PageSize DEF Typing, CursorOK
      <3>3. Flagged(current_bank) \subseteq 0 .. Banks - 1
        BY <3>2, PageSize DEF Flagged
      <3> QED
        BY <3>1, <3>3
    <2> QED
      BY <1>2, <2>2, <2>3 DEF ImageOK
  <1>5. DiskOK' /\ CfgOK(cfg)' /\ CfgOK(outstring)' /\ Unstarted'
    BY <1>1 DEF Typing, DiskOK, CfgOK, Unstarted
  <1>6. screen' \in BOOLEAN
    BY Zenon DEF Typing, CopyChunk
  <1> QED
    BY <1>3, <1>4, <1>5, <1>6 DEF Typing

LEMMA GenerateTyping ==
  ASSUME Typing, Generate
  PROVE  Typing'
  <1>1. UNCHANGED <<disk, cfg, creator, source, outstring, org, size>> /\ stage' = "done"
    BY DEF Generate, generate_file
  <1>2. DiskOK' /\ CfgOK(cfg)' /\ CfgOK(outstring)' /\ Unstarted'
    BY <1>1 DEF Typing, DiskOK, CfgOK, Unstarted
  <1>3. CursorOK' /\ ImageOK'
    BY <1>1 DEF Typing, CursorOK, ImageOK, Offset, OnDisk, creator
  <1>4. screen' \in BOOLEAN
    BY <1>1, Zenon DEF Typing, creator
  <1> QED
    BY <1>1, <1>2, <1>3, <1>4 DEF Typing

LEMMA StepTyping == Typing /\ [Next]_vars => Typing'
  <1> SUFFICES ASSUME Typing, [Next]_vars PROVE Typing'
    OBVIOUS
  <1>1. ASSUME NEW l \in Lines,
               SkipLine(l) \/ FileMissing(l) \/ IncludeWhole(l) \/ IncludeTrimmed(l)
        PROVE  Typing'
    BY <1>1, ReadTyping
  <1>2. CASE EndOfSource
    BY <1>2, EndOfSourceTyping
  <1>3. CASE ParseLine
    <2>1. stage = "create" /\ UNCHANGED <<source, outstring, org, size, stage>>
      BY <1>3 DEF ParseLine
    <2>2. CASE CopyChunk
      BY <2>1, <2>2, CopyTyping
    <2>3. CASE load_mmu \/ add_file \/ set_PCSP \/ load_bmp
      BY <2>1, <2>3, ParseLineTyping
    <2> QED
      BY <1>3, <2>2, <2>3 DEF ParseLine
  <1>4. CASE Generate
    BY <1>4, GenerateTyping
  <1>5. CASE UNCHANGED vars
    BY <1>5 DEF vars, creator, Typing, DiskOK, CfgOK, CursorOK, ImageOK, Unstarted, Offset, OnDisk
  <1> QED
    BY <1>1, <1>2, <1>3, <1>4, <1>5 DEF Next

\* Whatever the source loads, add_file stays inside bigFile and flags no bank the
\* header of a NEX file has no place for.
THEOREM TypeCorrect == Spec => []TypeOK
  <1>1. Typing => TypeOK
    BY DEF Typing, CursorOK, ImageOK, TypeOK
  <1> QED
    BY <1>1, InitTyping, StepTyping, PTL DEF Spec

-----------------------------------------------------------------------------
(* The pages of a NEX file.                                                *)

Flags(set, i) == {j \in 0 .. i : get_bank_order(j) \in set}

LEMMA FlagsFinite ==
  ASSUME NEW set, NEW i \in Nat
  PROVE  /\ IsFiniteSet(Flags(set, i))
         /\ Written(set, i) = Cardinality(Flags(set, i))
         /\ Written(set, i) \in Nat
  <1>1. IsFiniteSet(0 .. i)
    BY FS_Interval
  <1>2. Flags(set, i) \in SUBSET (0 .. i)
    BY DEF Flags
  <1>3. IsFiniteSet(Flags(set, i))
    BY <1>1, <1>2, FS_Subset
  <1>4. Written(set, i) = Cardinality(Flags(set, i))
    BY DEF Written, Flags
  <1> QED
    BY <1>3, <1>4, FS_CardinalityType

\* The loop writes one page more at a flagged bank than at those before it.
LEMMA WrittenGrows ==
  ASSUME NEW set, NEW i \in Nat, NEW j \in Nat, i < j, get_bank_order(j) \in set
  PROVE  Written(set, i) < Written(set, j)
  <1>1. Flags(set, i) \in SUBSET Flags(set, j)
    BY DEF Flags
  <1>2. j \in Flags(set, j) /\ j \notin Flags(set, i)
    BY DEF Flags
  <1>3. /\ Cardinality(Flags(set, i)) <= Cardinality(Flags(set, j))
        /\ Cardinality(Flags(set, i)) # Cardinality(Flags(set, j))
    BY <1>1, <1>2, FlagsFinite, FS_Subset
  <1> QED
    BY <1>3, FlagsFinite

LEMMA WrittenMonotone ==
  ASSUME NEW set, NEW i \in Nat, NEW j \in Nat, i <= j
  PROVE  Written(set, i) <= Written(set, j)
  <1>1. Flags(set, i) \in SUBSET Flags(set, j)
    BY DEF Flags
  <1> QED
    BY <1>1, FlagsFinite, FS_Subset

LEMMA WrittenPositive ==
  ASSUME NEW set, NEW i \in Nat, get_bank_order(i) \in set
  PROVE  Written(set, i) > 0
  <1>1. i \in Flags(set, i)
    BY DEF Flags
  <1>2. Cardinality(Flags(set, i)) # 0
    BY <1>1, FlagsFinite, FS_EmptySet
  <1> QED
    BY <1>2, FlagsFinite

\* The loading order names every bank of the header once.
LEMMA AllWritten ==
  ASSUME NEW set \in SUBSET (0 .. Banks - 1)
  PROVE  /\ Written(set, Banks - 1) = Cardinality(set)
         /\ IsFiniteSet(set)
  <1> DEFINE S == Flags(set, Banks - 1)
             f == [j \in S |-> get_bank_order(j)]
  <1>1. Banks - 1 \in Nat
    BY PageSize
  <1>2. IsFiniteSet(S) /\ Written(set, Banks - 1) = Cardinality(S)
    BY <1>1, FlagsFinite
  <1>3. \A j \in S : j \in Nat /\ f[j] = get_bank_order(j) /\ get_bank_order(j) \in set
    BY <1>1 DEF Flags
  <1>4. f \in [S -> set]
    BY <1>3
  <1>5. \A i, j \in S : f[i] = f[j] => i = j
    BY <1>3, BankOrder
  <1>6. \A b \in set : \E j \in S : f[j] = b
    <2> SUFFICES ASSUME NEW b \in set PROVE \E j \in S : f[j] = b
      OBVIOUS
    <2> DEFINE j == get_real_bank(b)
    <2>1. b \in Nat /\ b < Banks
      BY <1>1, PageSize
    <2>2. j \in Nat /\ j < Banks /\ get_bank_order(j) = b
      BY <2>1, RealBank, RealBankBound, PageSize
    <2>3. j \in S
      BY <2>2, PageSize DEF Flags
    <2> QED
      BY <2>2, <2>3
  <1> HIDE DEF S, f
  <1>7. f \in Bijection(S, set)
    BY <1>4, <1>5, <1>6 DEF Bijection, Injection, Surjection, IsInjective
  <1>8. ExistsBijection(S, set)
    BY <1>7 DEF ExistsBijection
  <1> QED
    BY <1>2, <1>8, FS_Bijection

\* The page of a flagged bank is written at its place.
LEMMA PageOfBank ==
  ASSUME NEW set, NEW i \in 0 .. Banks - 1, get_bank_order(i) \in set
  PROVE  /\ Written(set, i) \in 1 .. Written(set, Banks - 1)
         /\ PageOf(set, Written(set, i)) = PageAt(i)
  <1> DEFINE P(j) == get_bank_order(j) \in set /\ Written(set, j) = Written(set, i)
             c == CHOOSE j \in 0 .. Banks - 1 : P(j)
  <1>1. i \in Nat /\ Banks - 1 \in Nat /\ i <= Banks - 1
    BY PageSize
  <1>2. Written(set, i) \in 1 .. Written(set, Banks - 1)
    BY <1>1, WrittenMonotone, WrittenPositive, FlagsFinite
  <1>3. c \in 0 .. Banks - 1 /\ P(c)
    <2>1. \E j \in 0 .. Banks - 1 : P(j)
      OBVIOUS
    <2> HIDE DEF P
    <2> QED
      BY <2>1
  <1>4. c = i
    <2> HIDE DEF c
    <2>1. c \in Nat /\ Written(set, c) \in Nat
      BY <1>3, FlagsFinite
    <2>2. ~ (c < i)
      BY <1>1, <1>3, <2>1, WrittenGrows
    <2>3. ~ (i < c)
      BY <1>1, <1>3, <2>1, WrittenGrows
    <2> QED
      BY <1>1, <2>1, <2>2, <2>3
  <1>5. PageOf(set, Written(set, i)) = PageAt(c)
    BY DEF PageOf
  <1> QED
    BY <1>2, <1>4, <1>5

\* The NEX file is what generate_file writes of bigFile as it is.
NexWritten ==
  stage = "done" =>
    nex = [banks |-> banks, num |-> Cardinality(banks), PC |-> PC, screen |-> screen,
           body |-> (IF screen THEN <<"palette", "loading">> ELSE <<>>) \o Pages(banks)]

LEMMA BodyShape ==
  ASSUME NEW set \in SUBSET (0 .. Banks - 1), NEW b \in BOOLEAN
  PROVE  LET body == (IF b THEN <<"palette", "loading">> ELSE <<>>) \o Pages(set)
             skip == IF b THEN 2 ELSE 0
         IN  /\ Len(body) = skip + Cardinality(set)
             /\ \A k \in 1 .. Cardinality(set) : body[skip + k] = PageOf(set, k)
  <1> DEFINE front == IF b THEN <<"palette", "loading">> ELSE <<>>
             skip == IF b THEN 2 ELSE 0
             n == Cardinality(set)
             T == {"palette", "loading"} \cup {PageOf(set, k) : k \in 1 .. n}
             pages == Pages(set)
  <1>1. n \in Nat
    BY AllWritten, FS_CardinalityType
  <1>2. pages = [k \in 1 .. n |-> PageOf(set, k)]
    BY AllWritten DEF Pages
  <1>3. front \in Seq(T) /\ Len(front) = skip /\ skip \in Nat
    <2>1. {"palette", "loading"} \subseteq T
      OBVIOUS
    <2> HIDE DEF T
    <2>2. CASE b
      BY <2>1, <2>2
    <2>3. CASE ~ b
      BY <2>3
    <2> QED
      BY <2>2, <2>3
  <1>4. pages \in Seq(T) /\ Len(pages) = n /\ \A k \in 1 .. n : pages[k] = PageOf(set, k)
    <2> HIDE DEF n, pages
    <2> QED
      BY <1>1, <1>2
  <1> HIDE DEF front, skip, n, T, pages
  <1>5. /\ Len(front \o pages) = skip + n
        /\ \A i \in 1 .. skip + n :
             (front \o pages)[i] = IF i <= skip THEN front[i] ELSE pages[i - skip]
    BY <1>3, <1>4, ConcatProperties
  <1>6. ASSUME NEW k \in 1 .. n
        PROVE  (front \o pages)[skip + k] = PageOf(set, k)
    <2> DEFINE i == skip + k
    <2>1. i \in 1 .. skip + n /\ ~ (i <= skip) /\ i - skip = k
      BY <1>1, <1>3
    <2> HIDE DEF i
    <2>2. (front \o pages)[i] = pages[k]
      BY <1>5, <2>1
    <2> QED
      BY <1>4, <2>2 DEF i
  <1>7. Len(front \o pages) = skip + n
    BY <1>5
  <1> QED
    BY <1>6, <1>7 DEF front, skip, n, pages

LEMMA StepNexWritten == NexWritten /\ [Next]_vars => NexWritten'
  <1> SUFFICES ASSUME NexWritten, [Next]_vars, stage' = "done"
               PROVE  nex' = [banks |-> banks', num |-> Cardinality(banks'), PC |-> PC',
                              screen |-> screen',
                              body |-> (IF screen' THEN <<"palette", "loading">> ELSE <<>>)
                                       \o Pages(banks)']
    BY DEF NexWritten
  <1>1. CASE Generate
    <2>1. UNCHANGED <<banks, PC, screen, bigFile>>
      BY <1>1 DEF Generate, generate_file, creator
    <2>2. Pages(banks)' = Pages(banks)
      BY <2>1 DEF Pages, PageOf, PageAt
    <2> QED
      BY <1>1, <2>1, <2>2 DEF Generate, generate_file
  <1>2. CASE UNCHANGED vars
    <2>1. UNCHANGED <<banks, PC, screen, bigFile, nex, stage>>
      BY <1>2 DEF vars, creator
    <2>2. Pages(banks)' = Pages(banks)
      BY <2>1 DEF Pages, PageOf, PageAt
    <2> QED
      BY <2>1, <2>2 DEF NexWritten
  <1>3. ASSUME NEW l \in Lines,
               SkipLine(l) \/ FileMissing(l) \/ IncludeWhole(l) \/ IncludeTrimmed(l)
        PROVE  FALSE
    BY <1>3 DEF SkipLine, FileMissing, IncludeWhole, IncludeTrimmed, IncludeFile, ReadsLine
  <1>4. CASE EndOfSource
    BY <1>4 DEF EndOfSource
  <1>5. CASE ParseLine
    BY <1>5 DEF ParseLine
  <1> QED
    BY <1>1, <1>2, <1>3, <1>4, <1>5 DEF Next

\* Whichever banks the files of a source flag, the NEX file has the pages its
\* header announces.
THEOREM PagesAnnounced == Spec => []BodyMatchesHeader
  <1>1. Typing /\ NexWritten => BodyMatchesHeader
    <2> SUFFICES ASSUME Typing, NexWritten, stage = "done"
                 PROVE  /\ nex.num = Cardinality(nex.banks)
                        /\ Len(nex.body) = nex.num + (IF nex.screen THEN 2 ELSE 0)
      BY DEF BodyMatchesHeader
    <2>1. banks \in SUBSET (0 .. Banks - 1) /\ screen \in BOOLEAN
      BY DEF Typing, ImageOK
    <2>2. Cardinality(banks) \in Nat
      BY <2>1, AllWritten, FS_CardinalityType
    <2>3. Len((IF screen THEN <<"palette", "loading">> ELSE <<>>) \o Pages(banks))
            = (IF screen THEN 2 ELSE 0) + Cardinality(banks)
      BY <2>1, BodyShape
    <2>4. /\ nex.banks = banks /\ nex.num = Cardinality(banks) /\ nex.screen = screen
          /\ nex.body = (IF screen THEN <<"palette", "loading">> ELSE <<>>) \o Pages(banks)
      BY DEF NexWritten
    <2> QED
      BY <2>2, <2>3, <2>4
  <1>2. Init => NexWritten
    BY DEF Init, NexWritten
  <1> QED
    BY <1>1, <1>2, InitTyping, StepTyping, StepNexWritten, PTL DEF Spec

\* The machine finds in a flagged bank what bigFile holds at the bank's place.
LEMMA RamCell ==
  ASSUME Typing, NexWritten, stage = "done", NEW b \in banks, NEW x \in 0 .. Page - 1
  PROVE  Loaded(nex)[b][x] = bigFile[get_real_bank(b) * Page + x]
  <1> DEFINE i == get_real_bank(b)
             skip == IF screen THEN 2 ELSE 0
             c == CHOOSE j \in 0 .. Banks - 1 : get_bank_order(j) = b
             body == (IF screen THEN <<"palette", "loading">> ELSE <<>>) \o Pages(banks)
  <1>1. banks \in SUBSET (0 .. Banks - 1) /\ screen \in BOOLEAN
    BY DEF Typing, ImageOK
  <1>2. b \in Nat /\ b < Banks /\ b \in 0 .. Banks - 1
    BY <1>1, PageSize
  <1>3. i \in 0 .. Banks - 1 /\ get_bank_order(i) = b
    BY <1>2, RealBank, RealBankBound, PageSize
  <1>4. c = i
    <2>1. c \in 0 .. Banks - 1 /\ get_bank_order(c) = b
      <3> HIDE DEF i
      <3> QED
        BY <1>3
    <2> QED
      BY <2>1, <1>3, BankOrder, PageSize
  <1>5. /\ nex.banks = banks /\ nex.screen = screen /\ nex.body = body
    BY DEF NexWritten
  <1>6. Loaded(nex)[b] = body[skip + Written(banks, c)]
    BY <1>2, <1>5 DEF Loaded
  <1>7. /\ Written(banks, i) \in 1 .. Cardinality(banks)
        /\ PageOf(banks, Written(banks, i)) = PageAt(i)
    BY <1>1, <1>3, PageOfBank, AllWritten
  <1>8. body[skip + Written(banks, i)] = PageAt(i)
    BY <1>1, <1>7, BodyShape
  <1>9. Loaded(nex)[b] = PageAt(i)
    BY <1>4, <1>6, <1>8
  <1> HIDE DEF i
  <1> QED
    BY <1>9 DEF PageAt, i

-----------------------------------------------------------------------------
(* What nextcreator makes of a .cfg file, whatever its lines are.          *)

Adds(line) == line.kind \in {"MMU", "file"}

\* The 16K bank a line starts at, the address in it, and its cell of bigFile.
BankOf(line) == IF line.kind = "MMU" THEN line.bank \div 2 ELSE line.bank
InBank(line) ==
  line.at + (IF line.kind = "MMU" /\ line.bank # 2 * (line.bank \div 2) THEN Half ELSE 0)
Start(line) == get_real_bank(BankOf(line)) * Page + InBank(line)

File(line) == disk[line.file]
CellsOf(line) == Start(line) .. Start(line) + Len(File(line)) - 1

\* Lines of the .cfg file that have been read, and how much of the file of one of
\* them has been copied.
Read == Len(outstring) - Len(cfg)
CopiedOf(q) ==
  IF q < Read THEN Len(File(outstring[q])) ELSE Len(File(outstring[q])) - Len(fin)

\* No line after the q-th puts a byte in a cell.
LastTo(q, a) ==
  \A s \in q + 1 .. Len(outstring) : Adds(outstring[s]) => a \notin CellsOf(outstring[s])

\* The byte is in bigFile, if no later line puts another there, and in a bank that
\* is loaded, if the header has a place for it.
InImage(q, i) ==
  LET a == Start(outstring[q]) + i
      bank == get_bank_order(a \div Page)
  IN /\ LastTo(q, a) => bigFile[a] = File(outstring[q])[i + 1]
     /\ bank < Banks => bank \in banks

\* The rest of the file of the line read last is to go where its bytes belong.
InCopy ==
  LET line == outstring[Read]
      n == Len(File(line)) - Len(fin)
  IN /\ Read > 0 /\ Adds(line)
     /\ n >= 0
     /\ \A k \in 1 .. Len(fin) : fin[k] = File(line)[n + k]
     /\ Offset = Start(line) + n

Suffix ==
  /\ Len(cfg) <= Len(outstring)
  /\ \A k \in 1 .. Len(cfg) : cfg[k] = outstring[Read + k]

AllInImage ==
  \A q \in 1 .. Read : Adds(outstring[q]) => \A i \in 0 .. CopiedOf(q) - 1 : InImage(q, i)

Honoured ==
  stage \in {"create", "done"} =>
    /\ Suffix
    /\ fin # <<>> => InCopy
    /\ AllInImage
    /\ stage = "done" => fin = <<>> /\ cfg = <<>>

LEMMA LineTypes ==
  ASSUME NEW line \in CfgLines, Adds(line)
  PROVE  /\ BankOf(line) \in 0 .. Banks - 1
         /\ InBank(line) \in 0 .. Page - 1
         /\ Start(line) \in Nat
  <1>1. BankOf(line) \in 0 .. Banks - 1 /\ InBank(line) \in 0 .. Page - 1
    <2>1. CASE line.kind = "MMU"
      <3>1. line.bank \in 0 .. 2 * Banks - 1 /\ line.at \in 0 .. Half - 1
        BY <2>1 DEF CfgLines, BMPLine
      <3> QED
        BY <2>1, <3>1, PageSize DEF BankOf, InBank
    <2>2. CASE line.kind = "file"
      <3>1. line.bank \in 0 .. Banks - 1 /\ line.at \in 0 .. Page - 1
        BY <2>2 DEF CfgLines, BMPLine
      <3> QED
        BY <2>2, <3>1, PageSize DEF BankOf, InBank
    <2> QED
      BY <2>1, <2>2 DEF Adds
  <1> DEFINE r == get_real_bank(BankOf(line))  x == InBank(line)
  <1>2. r \in Nat /\ x \in Nat
    BY <1>1, RealBank, PageSize
  <1> HIDE DEF r, x
  <1>3. r * Page + x \in Nat
    BY <1>2, PageSize
  <1> QED
    BY <1>1, <1>3 DEF Start, r, x

LEMMA LineFile ==
  ASSUME Typing, NEW q \in 1 .. Len(outstring), Adds(outstring[q])
  PROVE  /\ outstring[q] \in CfgLines
         /\ outstring[q].file \in DOMAIN disk
         /\ Len(File(outstring[q])) \in Nat
         /\ Start(outstring[q]) \in Nat
  <1>1. outstring[q] \in CfgLines
    BY ElementOfSeq DEF Typing, CfgOK
  <1>2. outstring[q].file \in DOMAIN disk
    BY DEF Typing, CfgOK, Adds
  <1>3. disk[outstring[q].file] \in Seq(Bytes)
    BY <1>2 DEF Typing, DiskOK
  <1> QED
    BY <1>1, <1>2, <1>3, LineTypes DEF File

LEMMA Lengths ==
  ASSUME Typing
  PROVE  /\ Len(outstring) \in Nat /\ Len(cfg) \in Nat /\ Len(fin) \in Nat
         /\ outstring \in Seq(CfgLines) /\ cfg \in Seq(CfgLines)
         /\ Read \in Int
  BY DEF Typing, CfgOK, CursorOK, Read

\* What has been copied is not disturbed by a step that changes neither the lines,
\* the files nor the image.
LEMMA InImageKept ==
  ASSUME NEW q, NEW i, InImage(q, i), UNCHANGED <<outstring, disk, bigFile, banks>>
  PROVE  InImage(q, i)'
  BY DEF InImage, LastTo, CellsOf, File

LEMMA HonouredRead ==
  ASSUME Typing, Honoured, stage = "create", load_mmu \/ add_file \/ set_PCSP \/ load_bmp,
         UNCHANGED <<outstring, stage>>
  PROVE  Honoured'
  <1>1. /\ fin = <<>> /\ cfg # <<>> /\ cfg' = Tail(cfg)
        /\ UNCHANGED <<disk, bigFile, banks, outstring>>
    BY DEF load_mmu, add_file, set_PCSP, load_bmp, Reads
  <1>2. Suffix /\ AllInImage
    BY DEF Honoured
  <1>0. PICK n, m, line : n = Len(outstring) /\ m = Len(cfg) /\ line = Head(cfg)
    OBVIOUS
  <1>3. /\ n \in Nat /\ m \in Nat /\ m > 0 /\ m <= n /\ Read = n - m
        /\ cfg \in Seq(CfgLines)
    BY <1>0, <1>1, <1>2, Lengths, EmptySeq DEF Suffix, Read
  <1>4. /\ Len(cfg') = m - 1
        /\ \A k \in 1 .. m - 1 : cfg'[k] = cfg[k + 1]
        /\ line = cfg[1]
    BY <1>0, <1>1, <1>3, HeadTailProperties
  <1>5. Read' = Read + 1 /\ Read \in Nat /\ Read + 1 \in 1 .. n
    BY <1>1, <1>3, <1>4, <1>0 DEF Read
  <1>6. Suffix'
    <2>1. Len(cfg') <= Len(outstring')
      BY <1>1, <1>3, <1>4, <1>0
    <2>2. ASSUME NEW k \in 1 .. Len(cfg')
          PROVE  cfg'[k] = outstring[Read + 1 + k]
      <3>1. k \in 1 .. m - 1 /\ k + 1 \in 1 .. m /\ Read + (k + 1) = Read + 1 + k
        BY <1>3, <1>4, <1>5
      <3>2. cfg[k + 1] = outstring[Read + (k + 1)]
        BY <1>2, <3>1, <1>0 DEF Suffix
      <3> QED
        BY <1>4, <3>1, <3>2
    <2> QED
      BY <1>1, <1>5, <2>1, <2>2 DEF Suffix
  <1>7. line = outstring[Read + 1]
    <2>1. 1 \in 1 .. m
      BY <1>3
    <2> QED
      BY <1>2, <1>4, <2>1, <1>0 DEF Suffix
  <1>8. fin' # <<>> => /\ Adds(line) /\ fin' = File(line)
                       /\ current_bank' = BankOf(line) /\ current_address' = InBank(line)
    <2> SUFFICES ASSUME fin' # <<>>
                 PROVE  /\ Adds(line) /\ fin' = File(line)
                        /\ current_bank' = BankOf(line) /\ current_address' = InBank(line)
      OBVIOUS
    <2>1. line \in CfgLines
      BY <1>1, <1>3, HeadTailProperties, <1>0
    <2>2. load_mmu \/ add_file
      BY <1>1 DEF set_PCSP, load_bmp
    <2>3. CASE load_mmu
      <3>1. line.kind = "MMU"
        BY <2>3, <1>0 DEF load_mmu, Reads
      <3>2. line.bank \in Nat /\ line.at \in Nat
        BY <2>1, <3>1, PageSize DEF CfgLines, BMPLine
      <3> QED
        BY <2>3, <3>1, <3>2, PageSize, <1>0 DEF load_mmu, Adds, File, BankOf, InBank
    <2>4. CASE add_file
      <3>1. line.kind = "file"
        BY <2>4, <1>0 DEF add_file, Reads
      <3>2. line.bank \in Nat /\ line.at \in Nat
        BY <2>1, <3>1, PageSize DEF CfgLines, BMPLine
      <3> QED
        BY <2>4, <3>1, <3>2, <1>0 DEF add_file, Adds, File, BankOf, InBank
    <2> QED
      BY <2>2, <2>3, <2>4
  <1>9. fin' # <<>> => InCopy'
    <2> SUFFICES ASSUME fin' # <<>> PROVE InCopy'
      OBVIOUS
    <2>1. outstring'[Read'] = line /\ Read' > 0
      BY <1>1, <1>5, <1>7
    <2>2. Len(File(line)) \in Nat /\ line \in CfgLines /\ Adds(line)
      BY <1>5, <1>7, <1>8, LineFile, <1>0
    <2>3. fin' = File(line) /\ File(line)' = File(line)
      BY <1>1, <1>8 DEF File
    <2>4. Len(File(line)) - Len(fin') = 0 /\ \A k \in 1 .. Len(fin') : 0 + k = k
      BY <2>2, <2>3
    <2>5. Offset' = Start(line)
      <3>1. InBank(line) % Page = InBank(line)
        BY <2>2, LineTypes, SmallRemainder, PageSize
      <3> QED
        BY <1>8, <3>1 DEF Offset, Start
    <2>6. Start(line) \in Nat
      BY <2>2, LineTypes
    <2>7. \A k \in 1 .. Len(fin') : fin'[k] = File(line)[0 + k]
      BY <2>3, <2>4
    <2>8. Offset' = Start(line) + 0
      BY <2>5, <2>6
    <2>9. Start(line)' = Start(line)
      BY DEF Start
    <2> QED
      BY <2>1, <2>2, <2>3, <2>4, <2>7, <2>8, <2>9 DEF InCopy
  <1>10. AllInImage'
    <2> SUFFICES ASSUME NEW q \in 1 .. Read + 1, Adds(outstring[q]), NEW i \in 0 .. CopiedOf(q)' - 1
                 PROVE  InImage(q, i)'
      BY <1>1, <1>5 DEF AllInImage
    <2>1. q \in 1 .. Len(outstring)
      BY <1>3, <1>5, <1>0
    <2>2. Len(File(outstring[q])) \in Nat
      BY <2>1, LineFile
    <2>3. CASE q <= Read
      <3>1. CopiedOf(q)' = Len(File(outstring[q])) /\ CopiedOf(q) = Len(File(outstring[q]))
        BY <1>1, <1>5, <2>2, <2>3 DEF CopiedOf, File
      <3>2. q \in 1 .. Read
        BY <1>5, <2>3
      <3>3. InImage(q, i)
        BY <1>2, <3>1, <3>2 DEF AllInImage
      <3> QED
        BY <1>1, <3>3, InImageKept
    <2>4. CASE q = Read + 1
      <3>1. outstring[q] = line
        BY <1>7, <2>4
      <3>2. fin' = File(line)
        BY <3>1, <1>1, <1>0 DEF load_mmu, add_file, set_PCSP, load_bmp, Reads, Adds, File
      <3>3. CopiedOf(q)' = Len(File(line)) - Len(fin')
        BY <1>1, <1>5, <2>4, <3>1 DEF CopiedOf, File
      <3> QED
        BY <2>2, <3>1, <3>2, <3>3
    <2> QED
      BY <1>5, <2>3, <2>4
  <1> QED
    BY <1>6, <1>9, <1>10 DEF Honoured

LEMMA InsideImage ==
  ASSUME Typing, NEW q \in 1 .. Len(outstring), Adds(outstring[q]),
         NEW i \in 0 .. Len(File(outstring[q])) - 1
  PROVE  /\ Start(outstring[q]) + i \in DOMAIN bigFile
         /\ Start(outstring[q]) + i \in CellsOf(outstring[q])
  <1>0. PICK line, st, len :
          line = outstring[q] /\ st = Start(line) /\ len = Len(File(line))
    OBVIOUS
  <1>1. line \in CfgLines /\ len \in Nat /\ st \in Nat /\ len <= FileLimit
    BY <1>0, LineFile DEF File, Typing, DiskOK
  <1>2. PICK r, x : /\ r = get_real_bank(BankOf(line)) /\ x = InBank(line)
                    /\ r \in Nat /\ r + 1 <= Banks /\ x \in 0 .. Page - 1
                    /\ st = r * Page + x
    <2>1. BankOf(line) \in 0 .. Banks - 1 /\ InBank(line) \in 0 .. Page - 1
      BY <1>0, <1>1, LineTypes
    <2>2. get_real_bank(BankOf(line)) \in Nat /\ get_real_bank(BankOf(line)) < Banks
      <3>1. \A b \in 0 .. Banks - 1 : get_real_bank(b) \in Nat /\ get_real_bank(b) < Banks
        <4> SUFFICES ASSUME NEW b \in 0 .. Banks - 1
                     PROVE  get_real_bank(b) \in Nat /\ get_real_bank(b) < Banks
          OBVIOUS
        <4>1. b \in Nat /\ b < Banks /\ Banks \in Nat /\ Banks > 7
          BY PageSize
        <4> QED
          BY <4>1, RealBank, RealBankBound
      <3> QED
        BY <2>1, <3>1
    <2>3. get_real_bank(BankOf(line)) + 1 <= Banks
      BY <2>2, PageSize
    <2> QED
      BY <1>0, <2>1, <2>2, <2>3 DEF Start
  <1>3. r * Page \in Nat /\ r * Page + Page <= Banks * Page
    <2>1. r * Page \in Nat
      <3>1. r \in Nat /\ Page \in Nat
        BY <1>2, PageSize
      <3> QED
        BY <3>1
    <2>2. r * Page + Page <= Banks * Page
      BY <1>2, TimesLess, PageSize
    <2> QED
      BY <2>1, <2>2
  <1>4. (BigBanks - 1) * Page + Page = BigBanks * Page
    BY PageSize
  <1>5. PICK top : top = BigBanks * Page /\ top \in Nat
    BY PageSize
  <1>6. FileLimit + Banks * Page = (BigBanks - 1) * Page /\ FileLimit \in Nat
    BY LimitType
  <1>7. Banks * Page \in Nat /\ (BigBanks - 1) * Page \in Nat
    BY PageSize
  <1>8. i \in 0 .. len - 1
    BY <1>0
  <1>9. st + i \in 0 .. top - 1
    <2>1. PICK rp, bp, bb : rp = r * Page /\ bp = Banks * Page /\ bb = (BigBanks - 1) * Page
      OBVIOUS
    <2>2. /\ rp \in Nat /\ bp \in Nat /\ bb \in Nat /\ rp + Page <= bp
          /\ FileLimit + bp = bb /\ bb + Page = top /\ st = rp + x
      BY <1>2, <1>3, <1>4, <1>5, <1>6, <1>7, <2>1
    <2>3. /\ Page \in Nat /\ x \in 0 .. Page - 1 /\ top \in Nat /\ FileLimit \in Nat
          /\ len \in Nat /\ len <= FileLimit /\ i \in 0 .. len - 1
      BY <1>1, <1>2, <1>5, <1>6, <1>8, PageSize
    <2> QED
      BY <2>2, <2>3
  <1>10. st + i \in st .. st + len - 1
    BY <1>1, <1>8
  <1> QED
    BY <1>0, <1>5, <1>9, <1>10 DEF Typing, ImageOK, CellsOf

LEMMA HonouredCopied ==
  ASSUME Typing, Honoured, stage = "create", CopyChunk, UNCHANGED <<outstring, stage>>
  PROVE  Honoured'
  <1>1. /\ Suffix /\ AllInImage /\ InCopy
        /\ fin # <<>> /\ UNCHANGED <<disk, cfg, outstring>> /\ Read' = Read
    BY Chunk DEF Honoured, CopyChunk, Read
  <1>2. PICK line, st, all, left, n, len, p, a0 :
          /\ line = outstring[Read] /\ st = Start(line) /\ all = Len(File(line))
          /\ left = Len(fin) /\ n = all - left /\ len = Length /\ p = Read
          /\ a0 = Offset
    OBVIOUS
  <1>3. p \in 1 .. Len(outstring) /\ Adds(line) /\ p \in Int
    <2>1. Read \in Int /\ Read > 0 /\ Read <= Len(outstring)
      BY <1>1, Lengths DEF InCopy, Suffix, Read
    <2> QED
      BY <1>1, <1>2, <2>1 DEF InCopy
  <1>4. /\ line = outstring[p] /\ line \in CfgLines /\ all \in Nat /\ st \in Nat
        /\ left \in Nat /\ len \in 1 .. left
    BY <1>2, <1>3, LineFile, Chunk, Lengths
  <1>5. /\ n \in Nat /\ n + left = all /\ a0 = st + n
        /\ \A k \in 1 .. left : fin[k] = File(line)[n + k]
    BY <1>1, <1>2, <1>4 DEF InCopy
  <1>6. /\ Len(fin') = left - len
        /\ \A i \in 1 .. Len(fin') : fin'[i] = fin[len + i]
        /\ fin' # <<>> => Offset' = a0 + len
        /\ banks' = banks \cup Flagged(current_bank)
        /\ bigFile' = [a \in DOMAIN bigFile |->
                         IF a \in a0 .. a0 + len - 1 THEN fin[a - a0 + 1] ELSE bigFile[a]]
    BY <1>2, Chunk
  <1>7. Suffix'
    BY <1>1 DEF Suffix
  <1>8. ASSUME fin' # <<>> PROVE InCopy'
    <2>1. File(line)' = File(line) /\ Start(line)' = Start(line) /\ Adds(line)'
      BY <1>1, <1>3 DEF File, Start, Adds
    <2>2. all - Len(fin') = n + len
      BY <1>4, <1>5, <1>6
    <2>3. \A k \in 1 .. Len(fin') : fin'[k] = File(line)[n + len + k]
      <3> SUFFICES ASSUME NEW k \in 1 .. Len(fin') PROVE fin'[k] = File(line)[n + len + k]
        OBVIOUS
      <3>1. len + k \in 1 .. left /\ n + (len + k) = n + len + k
        BY <1>4, <1>5, <1>6
      <3> QED
        BY <1>5, <1>6, <3>1
    <2>4. Offset' = st + (n + len)
      BY <1>4, <1>5, <1>6, <1>8
    <2>5. n + len >= 0
      BY <1>4, <1>5
    <2>6. outstring'[Read'] = line /\ Read' > 0
      BY <1>1, <1>2, <1>3
    <2> QED
      BY <1>2, <1>3, <2>1, <2>2, <2>3, <2>4, <2>5, <2>6 DEF InCopy
  <1>9. AllInImage'
    <2> SUFFICES ASSUME NEW q \in 1 .. Read, Adds(outstring[q]), NEW i \in 0 .. CopiedOf(q)' - 1
                 PROVE  InImage(q, i)'
      BY <1>1 DEF AllInImage
    <2>1. q \in 1 .. Len(outstring) /\ q <= p
      BY <1>2, <1>3, Lengths
    <2>2. PICK own, start, a, bank :
            /\ own = File(outstring[q]) /\ start = Start(outstring[q]) /\ a = start + i
            /\ bank = get_bank_order(a \div Page)
      OBVIOUS
    <2>3. Len(own) \in Nat /\ start \in Nat
      BY <2>1, <2>2, LineFile
    <2>4. /\ InImage(q, i) <=> /\ LastTo(q, a) => bigFile[a] = own[i + 1]
                               /\ bank < Banks => bank \in banks
          /\ InImage(q, i)' <=> /\ LastTo(q, a) => bigFile'[a] = own[i + 1]
                                /\ bank < Banks => bank \in banks'
      <3>1. InImage(q, i) <=> /\ LastTo(q, a) => bigFile[a] = own[i + 1]
                              /\ bank < Banks => bank \in banks
        BY <2>2 DEF InImage
      <3>2. LastTo(q, a)' <=> LastTo(q, a)
        BY <1>1 DEF LastTo, CellsOf, File, Start, Adds
      <3>3. File(outstring[q])' = own /\ Start(outstring[q])' = start
        BY <1>1, <2>2 DEF File, Start
      <3>4. InImage(q, i)' <=> /\ LastTo(q, a)' => bigFile'[a] = own[i + 1]
                               /\ bank < Banks => bank \in banks'
        BY <2>2, <3>3 DEF InImage
      <3> QED
        BY <3>1, <3>2, <3>4, Zenon
    <2>5. banks \subseteq banks'
      BY <1>6
    <2>6. CASE q < p
      <3>1. CopiedOf(q)' = Len(own) /\ CopiedOf(q) = Len(own)
        BY <1>1, <1>2, <2>2, <2>6 DEF CopiedOf, File
      <3>2. InImage(q, i)
        BY <1>1, <3>1 DEF AllInImage
      <3>3. a \in DOMAIN bigFile
        BY <2>1, <2>2, <3>1, InsideImage
      <3>4. ASSUME LastTo(q, a) PROVE bigFile'[a] = bigFile[a]
        <4>1. p \in q + 1 .. Len(outstring)
          BY <1>3, <2>1, <2>6, Lengths
        <4>2. a \notin CellsOf(line)
          BY <1>3, <1>4, <3>4, <4>1 DEF LastTo
        <4>3. a \notin st .. st + all - 1
          BY <1>2, <4>2 DEF CellsOf
        <4>4. a \notin a0 .. a0 + len - 1
          BY <1>4, <1>5, <2>2, <2>3, <3>1, <4>3
        <4> QED
          BY <1>6, <3>3, <4>4
      <3> QED
        BY <2>4, <2>5, <3>2, <3>4
    <2>7. CASE q = p
      <3>1. own = File(line) /\ start = st /\ a = st + i
        BY <1>2, <1>4, <2>2, <2>7
      <3>2. CopiedOf(q)' = n + len
        <4>1. CopiedOf(q)' = Len(File(line)') - Len(fin')
          BY <1>1, <1>2, <1>3, <1>4, <2>7 DEF CopiedOf, File
        <4>2. File(line)' = File(line)
          BY <1>1 DEF File
        <4>3. Len(File(line)') = all
          BY <1>2, <4>2
        <4>4. all - (left - len) = n + len
          BY <1>4, <1>5
        <4> QED
          BY <1>6, <4>1, <4>3, <4>4
      <3>3. i \in 0 .. n + len - 1 /\ i \in 0 .. all - 1
        BY <1>4, <1>5, <3>2
      <3>4. a \in DOMAIN bigFile
        BY <1>2, <2>1, <2>2, <3>1, <3>3, InsideImage
      <3>5. CASE i < n
        <4>1. CopiedOf(q) = n
          BY <1>2, <1>3, <2>7 DEF CopiedOf
        <4>2. i \in 0 .. CopiedOf(q) - 1
          BY <1>5, <3>3, <3>5, <4>1
        <4>3. InImage(q, i)
          BY <1>1, <4>2 DEF AllInImage
        <4>4. a \notin a0 .. a0 + len - 1
          BY <1>4, <1>5, <3>1, <3>3, <3>5
        <4>5. bigFile'[a] = bigFile[a]
          BY <1>6, <3>4, <4>4
        <4> QED
          BY <2>4, <2>5, <4>3, <4>5
      <3>6. CASE i >= n
        <4>1. /\ a \in a0 .. a0 + len - 1 /\ a - a0 + 1 = i - n + 1
              /\ i - n + 1 \in 1 .. left /\ n + (i - n + 1) = i + 1
              /\ i - n \in 0 .. len - 1
          BY <1>4, <1>5, <3>1, <3>3, <3>6
        <4>2. bigFile'[a] = own[i + 1]
          <5>1. bigFile'[a] = fin[i - n + 1]
            BY <1>6, <3>4, <4>1
          <5> QED
            BY <1>5, <3>1, <4>1, <5>1
        <4>3. bank < Banks => bank \in banks'
          <5>1. PICK r, x : /\ r = get_real_bank(current_bank) /\ x = current_address % Page
                            /\ r \in Nat /\ x \in 0 .. Page - 1 /\ x + len <= Page
                            /\ a0 = r * Page + x /\ get_bank_order(r) = current_bank
            <6>1. current_bank \in Nat
              BY PageSize DEF Typing, CursorOK
            <6>2. /\ current_address % Page \in 0 .. Page - 1
                  /\ (current_address % Page) + len <= Page
              <7>1. /\ current_address % Page \in 0 .. Page - 1
                    /\ Length + (current_address % Page) <= Page
                BY Chunk
              <7> QED
                BY <1>2, <1>4, <7>1, PageSize
            <6> QED
              BY <1>2, <6>1, <6>2, RealBank DEF Offset
          <5>2. r * Page \in Nat
            BY <5>1, PageSize
          <5>3. x + (i - n) \in 0 .. Page - 1 /\ a = r * Page + (x + (i - n))
            BY <1>4, <1>5, <3>1, <4>1, <5>1, <5>2, PageSize
          <5>4. a \div Page = r
            BY <5>1, <5>3, Quotient, PageSize
          <5> QED
            BY <1>6, <2>2, <5>1, <5>4 DEF Flagged
        <4> QED
          BY <2>4, <4>2, <4>3
      <3> QED
        BY <1>5, <3>3, <3>5, <3>6
    <2> QED
      BY <1>3, <2>1, <2>6, <2>7
  <1> QED
    BY <1>7, <1>8, <1>9 DEF Honoured

LEMMA StepHonoured == Typing /\ Honoured /\ [Next]_vars => Honoured'
  <1> SUFFICES ASSUME Typing, Honoured, [Next]_vars PROVE Honoured'
    OBVIOUS
  <1>1. ASSUME NEW l \in Lines,
               SkipLine(l) \/ FileMissing(l) \/ IncludeWhole(l) \/ IncludeTrimmed(l)
        PROVE  Honoured'
    <2>1. stage' \notin {"create", "done"}
      BY <1>1 DEF SkipLine, FileMissing, IncludeWhole, IncludeTrimmed, IncludeFile, ReadsLine
    <2> QED
      BY <2>1 DEF Honoured
  <1>2. CASE EndOfSource
    <2>1. CASE org < Page
      BY <1>2, <2>1 DEF EndOfSource, Honoured
    <2>2. CASE ~ (org < Page)
      <3>1. stage = "config" /\ stage' = "create" /\ cfg' = outstring' /\ fin' = fin
        BY <1>2, <2>2 DEF EndOfSource, creator
      <3>2. fin' = <<>>
        BY <3>1 DEF Typing, Unstarted
      <3>3. Len(outstring') \in Nat
        BY <1>2, EndOfSourceTyping DEF Typing, CfgOK
      <3>4. Read' = 0
        BY <3>1, <3>3 DEF Read
      <3>5. Suffix'
        BY <3>1, <3>3, <3>4 DEF Suffix
      <3>6. AllInImage'
        BY <3>4 DEF AllInImage
      <3> QED
        BY <3>1, <3>2, <3>5, <3>6 DEF Honoured
    <2> QED
      BY <2>1, <2>2
  <1>3. CASE ParseLine
    <2>1. stage = "create" /\ UNCHANGED <<outstring, stage>>
      BY <1>3 DEF ParseLine
    <2>2. CASE CopyChunk
      BY <2>1, <2>2, HonouredCopied
    <2>3. CASE load_mmu \/ add_file \/ set_PCSP \/ load_bmp
      BY <2>1, <2>3, HonouredRead
    <2> QED
      BY <1>3, <2>2, <2>3 DEF ParseLine
  <1>4. CASE Generate \/ UNCHANGED vars
    <2>1. UNCHANGED <<disk, cfg, creator, outstring>>
      BY <1>4 DEF Generate, generate_file, vars
    <2>2. stage' \in {"create", "done"} => stage \in {"create", "done"}
      BY <1>4 DEF Generate, vars
    <2>3. Honoured => \/ stage' \notin {"create", "done"}
                      \/ Suffix /\ (fin # <<>> => InCopy) /\ AllInImage
      BY <2>2 DEF Honoured
    <2>4. (Suffix => Suffix') /\ (InCopy => InCopy')
      BY <2>1 DEF Suffix, InCopy, Read, File, Adds, Offset, Start, creator
    <2>5. AllInImage => AllInImage'
      <3> SUFFICES ASSUME AllInImage, NEW q \in 1 .. Read, Adds(outstring[q]),
                          NEW i \in 0 .. CopiedOf(q) - 1
                   PROVE  InImage(q, i)'
        BY <2>1 DEF AllInImage, Read, CopiedOf, File, creator
      <3>1. InImage(q, i)
        BY DEF AllInImage
      <3> QED
        BY <2>1, <3>1, InImageKept DEF creator
    <2>6. stage' = "done" => fin' = <<>> /\ cfg' = <<>>
      BY <1>4, <2>1 DEF Generate, generate_file, vars, creator, Honoured
    <2>7. fin' = fin
      BY <2>1 DEF creator
    <2> QED
      BY <2>3, <2>4, <2>5, <2>6, <2>7 DEF Honoured
  <1> QED
    BY <1>1, <1>2, <1>3, <1>4 DEF Next

-----------------------------------------------------------------------------
(* What ParseNEXCfg makes of a source.                                     *)

CodeLine == FileLine(Code, BankAt(org), org % Page)

Included(l) == ~ l.comment /\ ~ l.sub
NameOf(l) == IF l.from = 0 THEN l.file ELSE Trimmed(l)
LineOf(l) == MMULine(NameOf(l), l.bank, l.at % Half)

\* Behind the first line, the lines of the .cfg file that add files are those of
\* the source that are included, in the source's order: at says where each is.
MatchedBy(at, n) ==
  /\ \A j \in 1 .. Len(source) : Included(source[j]) =>
       /\ at[j] \in 2 .. n /\ source[j].file \in Files
       /\ outstring[at[j]] = LineOf(source[j])
  /\ \A j, k \in 1 .. Len(source) :
       j < k /\ Included(source[j]) /\ Included(source[k]) => at[j] < at[k]
  /\ \A q \in 2 .. n : Adds(outstring[q]) =>
       \E j \in 1 .. Len(source) : Included(source[j]) /\ at[j] = q

Matched(n) == n >= 1 /\ \E at \in [1 .. Len(source) -> Nat] : MatchedBy(at, n)

\* Two lines more for the program, which the header's PC is read from.
ProgramLines(n) ==
  /\ org >= Page
  /\ outstring[n + 1] = PCSPLine(org)
  /\ outstring[n + 2] = CodeLine
  /\ Read >= n + 1 => PC = org

CfgWritten ==
  /\ stage = "config" => Matched(Len(outstring))
  /\ stage \in {"create", "done"} =>
       \E n \in Nat : Len(outstring) = n + 2 /\ Matched(n) /\ ProgramLines(n)

LEMMA InitCfgWritten == Init => CfgWritten
  <1> SUFFICES ASSUME Init PROVE CfgWritten
    OBVIOUS
  <1>1. PICK first, second :
          outstring \in {<<first>>, <<first, second>>} /\ ~ Adds(second)
    <2>1. outstring \in {<<MMULine(Sysvars, 10, SysvarsAt)>>,
                         <<MMULine(Sysvars, 10, SysvarsAt), BMPLine>>}
      BY DEF Init
    <2>2. ~ Adds(BMPLine)
      BY DEF BMPLine, Adds
    <2> QED
      BY <2>1, <2>2
  <1>2. source = <<>> /\ stage = "config" /\ Len(source) = 0
    BY DEF Init
  <1>3. Len(outstring) \in 1 .. 2
        /\ \A q \in 2 .. Len(outstring) : ~ Adds(outstring[q])
    <2>1. CASE outstring = <<first>>
      BY <2>1
    <2>2. CASE outstring = <<first, second>>
      <3>1. Len(outstring) = 2 /\ outstring[2] = second
        BY <2>2
      <3> QED
        BY <1>1, <3>1
    <2> QED
      BY <1>1, <2>1, <2>2
  <1> DEFINE at == [j \in 1 .. Len(source) |-> 0]
  <1>4. at \in [1 .. Len(source) -> Nat]
    OBVIOUS
  <1>5. MatchedBy(at, Len(outstring))
    BY <1>2, <1>3 DEF MatchedBy
  <1>6. Len(outstring) >= 1
    BY <1>3
  <1> QED
    BY <1>2, <1>4, <1>5, <1>6 DEF CfgWritten, Matched

LEMMA LinesMatched ==
  ASSUME Typing, CfgWritten, NEW l \in Lines,
         SkipLine(l) \/ FileMissing(l) \/ IncludeWhole(l) \/ IncludeTrimmed(l)
  PROVE  CfgWritten'
  <1>1. stage = "config" /\ stage' \notin {"create", "done"} /\ source' = Append(source, l)
    BY DEF SkipLine, FileMissing, IncludeWhole, IncludeTrimmed, IncludeFile, ReadsLine
  <1>2. PICK m, n : m = Len(source) /\ n = Len(outstring)
    OBVIOUS
  <1>3. n >= 1 /\ \E at \in [1 .. m -> Nat] : MatchedBy(at, n)
    BY <1>1, <1>2 DEF CfgWritten, Matched
  <1>4. PICK at \in [1 .. m -> Nat] : MatchedBy(at, n)
    BY <1>3
  <1>5. /\ m \in Nat /\ n \in Nat /\ Len(source') = m + 1
        /\ source'[m + 1] = l
        /\ \A j \in 1 .. m : source'[j] = source[j]
    <2>1. source \in Seq(Lines)
      BY DEF Typing
    <2> QED
      BY <1>1, <1>2, <2>1, AppendProperties, Lengths
  <1>6. /\ \A j \in 1 .. m : Included(source'[j]) =>
             /\ at[j] \in 2 .. n /\ source'[j].file \in Files
             /\ outstring[at[j]] = LineOf(source'[j])
        /\ \A j, k \in 1 .. m :
             j < k /\ Included(source'[j]) /\ Included(source'[k]) => at[j] < at[k]
        /\ \A q \in 2 .. n : Adds(outstring[q]) =>
             \E j \in 1 .. m : Included(source'[j]) /\ at[j] = q
    BY <1>2, <1>4, <1>5 DEF MatchedBy
  <1>7. \A j \in 1 .. m + 1 : j \in 1 .. m \/ j = m + 1
    BY <1>5
  <1> DEFINE new == [j \in 1 .. m + 1 |-> IF j = m + 1 THEN n + 1 ELSE at[j]]
  <1>8. /\ new \in [1 .. m + 1 -> Nat] /\ new[m + 1] = n + 1
        /\ \A j \in 1 .. m : new[j] = at[j]
    BY <1>5, <1>7
  <1> HIDE DEF new
  <1>9. CASE SkipLine(l)
    <2>1. ~ Included(l) /\ UNCHANGED outstring
      BY <1>9 DEF SkipLine, Included
    <2>2. MatchedBy(new, n)'
      <3>1. \A j \in 1 .. m + 1 : Included(source'[j]) => j \in 1 .. m
        BY <1>5, <1>7, <2>1
      <3>2. \A j \in 1 .. m + 1 : Included(source'[j]) =>
              /\ new[j] \in 2 .. n /\ source'[j].file \in Files
              /\ outstring'[new[j]] = LineOf(source'[j])
        BY <1>6, <1>8, <2>1, <3>1
      <3>3. \A j, k \in 1 .. m + 1 :
              j < k /\ Included(source'[j]) /\ Included(source'[k]) => new[j] < new[k]
        BY <1>6, <1>8, <3>1
      <3>4. \A q \in 2 .. n : Adds(outstring'[q]) =>
              \E j \in 1 .. m + 1 : Included(source'[j]) /\ new[j] = q
        <4> SUFFICES ASSUME NEW q \in 2 .. n, Adds(outstring[q])
                     PROVE  \E j \in 1 .. m + 1 : Included(source'[j]) /\ new[j] = q
          BY <2>1
        <4>1. PICK j \in 1 .. m : Included(source'[j]) /\ at[j] = q
          BY <1>6
        <4>2. j \in 1 .. m + 1
          BY <1>5
        <4> QED
          BY <1>8, <4>1, <4>2
      <3> QED
        BY <1>5, <3>2, <3>3, <3>4 DEF MatchedBy
    <2>3. Len(outstring') = n
      BY <1>2, <2>1
    <2> QED
      BY <1>1, <1>3, <1>5, <1>8, <2>2, <2>3 DEF CfgWritten, Matched
  <1>10. CASE FileMissing(l)
    BY <1>10 DEF FileMissing, CfgWritten
  <1>11. CASE IncludeWhole(l) \/ IncludeTrimmed(l)
    <2>1. Included(l) /\ l.file \in Files /\ outstring' = Append(outstring, LineOf(l))
      <3>1. l.from \in Nat
        BY LinesAssumption
      <3> QED
        BY <1>11, <3>1 DEF IncludeWhole, IncludeTrimmed, IncludeFile, Included, LineOf, NameOf
    <2>2. LineOf(l) \in CfgLines
      <3>1. NameOf(l) \in Names
        BY <2>1 DEF NameOf, Names
      <3>2. l.at % Half \in 0 .. Half - 1 /\ l.bank \in 0 .. 2 * Banks - 1
        BY PageSize, LinesAssumption
      <3> QED
        BY <3>1, <3>2 DEF LineOf, MMULine, CfgLines
    <2>3. /\ Len(outstring') = n + 1 /\ outstring'[n + 1] = LineOf(l)
          /\ \A q \in 1 .. n : outstring'[q] = outstring[q]
      BY <1>2, <2>1, <2>2, Lengths, AppendProperties
    <2>4. MatchedBy(new, n + 1)'
      <3>1. \A j \in 1 .. m + 1 : Included(source'[j]) =>
              /\ new[j] \in 2 .. n + 1 /\ source'[j].file \in Files
              /\ outstring'[new[j]] = LineOf(source'[j])
        <4> SUFFICES ASSUME NEW j \in 1 .. m + 1, Included(source'[j])
                     PROVE  /\ new[j] \in 2 .. n + 1 /\ source'[j].file \in Files
                            /\ outstring'[new[j]] = LineOf(source'[j])
          OBVIOUS
        <4>1. CASE j = m + 1
          BY <1>3, <1>5, <1>8, <2>1, <2>3, <4>1
        <4>2. CASE j \in 1 .. m
          <5>1. at[j] \in 2 .. n /\ at[j] \in 1 .. n /\ at[j] \in 2 .. n + 1
            BY <1>5, <1>6, <4>2
          <5> QED
            BY <1>6, <1>8, <2>3, <4>2, <5>1
        <4> QED
          BY <1>7, <4>1, <4>2
      <3>2. \A j, k \in 1 .. m + 1 :
              j < k /\ Included(source'[j]) /\ Included(source'[k]) => new[j] < new[k]
        <4> SUFFICES ASSUME NEW j \in 1 .. m + 1, NEW k \in 1 .. m + 1, j < k,
                            Included(source'[j]), Included(source'[k])
                     PROVE  new[j] < new[k]
          OBVIOUS
        <4>1. j \in 1 .. m
          BY <1>5, <1>7
        <4>2. CASE k \in 1 .. m
          BY <1>6, <1>8, <4>1, <4>2
        <4>3. CASE k = m + 1
          <5>1. at[j] \in 2 .. n
            BY <1>6, <4>1
          <5> QED
            BY <1>5, <1>8, <4>1, <4>3, <5>1
        <4> QED
          BY <1>7, <4>2, <4>3
      <3>3. \A q \in 2 .. n + 1 : Adds(outstring'[q]) =>
              \E j \in 1 .. m + 1 : Included(source'[j]) /\ new[j] = q
        <4> SUFFICES ASSUME NEW q \in 2 .. n + 1, Adds(outstring'[q])
                     PROVE  \E j \in 1 .. m + 1 : Included(source'[j]) /\ new[j] = q
          OBVIOUS
        <4>1. CASE q = n + 1
          BY <1>5, <1>8, <2>1, <4>1
        <4>2. CASE q \in 2 .. n
          <5>1. outstring'[q] = outstring[q]
            BY <1>5, <2>3, <4>2
          <5>2. PICK j \in 1 .. m : Included(source'[j]) /\ at[j] = q
            BY <1>6, <4>2, <5>1
          <5>3. j \in 1 .. m + 1
            BY <1>5
          <5> QED
            BY <1>8, <5>2, <5>3
        <4> QED
          BY <1>5, <4>1, <4>2
      <3> QED
        BY <1>5, <3>1, <3>2, <3>3 DEF MatchedBy
    <2>5. n + 1 >= 1
      BY <1>5
    <2> QED
      BY <1>1, <1>5, <1>8, <2>3, <2>4, <2>5 DEF CfgWritten, Matched
  <1> QED
    BY <1>9, <1>10, <1>11

LEMMA MatchedKept ==
  ASSUME NEW n, UNCHANGED source, NEW m \in Nat, n <= m, n \in Nat,
         \A q \in 1 .. m : outstring'[q] = outstring[q], Matched(n)
  PROVE  Matched(n)'
  <1>1. PICK at \in [1 .. Len(source) -> Nat] : MatchedBy(at, n)
    BY DEF Matched
  <1>2. \A q \in 2 .. n : outstring'[q] = outstring[q]
    OBVIOUS
  <1>3. MatchedBy(at, n)'
    <2>1. \A j \in 1 .. Len(source) : Included(source[j]) =>
            /\ at[j] \in 2 .. n /\ source[j].file \in Files
            /\ outstring'[at[j]] = LineOf(source[j])
      BY <1>1, <1>2 DEF MatchedBy
    <2>2. \A q \in 2 .. n : Adds(outstring'[q]) =>
            \E j \in 1 .. Len(source) : Included(source[j]) /\ at[j] = q
      BY <1>1, <1>2 DEF MatchedBy
    <2> QED
      BY <1>1, <2>1, <2>2 DEF MatchedBy
  <1> QED
    BY <1>1, <1>3 DEF Matched

LEMMA ProgramLinesAdded ==
  ASSUME Typing, CfgWritten, EndOfSource
  PROVE  CfgWritten'
  <1>1. CASE org < Page
    BY <1>1 DEF EndOfSource, CfgWritten
  <1>2. CASE ~ (org < Page)
    <2>1. PICK n, first, second :
            n = Len(outstring) /\ first = PCSPLine(org) /\ second = CodeLine
      OBVIOUS
    <2>2. /\ stage = "config" /\ stage' = "create" /\ cfg' = outstring'
          /\ outstring' = outstring \o <<first, second>>
          /\ UNCHANGED <<source, org>>
      BY <1>2, <2>1 DEF EndOfSource, CodeLine
    <2>3. n \in Nat /\ outstring \in Seq(CfgLines) /\ outstring' \in Seq(CfgLines)
      BY <2>1, Lengths, EndOfSourceTyping DEF Typing, CfgOK
    <2>4. /\ Len(outstring') = n + 2
          /\ \A q \in 1 .. n : outstring'[q] = outstring[q]
          /\ outstring'[n + 1] = first /\ outstring'[n + 2] = second
      BY <2>1, <2>2, <2>3
    <2>5. Matched(n)
      BY <2>1, <2>2 DEF CfgWritten
    <2>6. Matched(n)'
      <3>1. /\ source' = source /\ n \in Nat /\ n <= n
            /\ \A q \in 1 .. n : outstring'[q] = outstring[q]
        BY <2>2, <2>3, <2>4
      <3> QED
        BY <2>5, <3>1, MatchedKept
    <2>7. ProgramLines(n)'
      <3>1. org >= Page
        BY <1>2, PageSize, LinesAssumption DEF Typing
      <3>2. Read' = 0
        BY <2>2, <2>3, <2>4 DEF Read
      <3>3. ~ (0 >= n + 1)
        BY <2>3
      <3> QED
        BY <2>1, <2>2, <2>4, <3>1, <3>2, <3>3 DEF ProgramLines, CodeLine, PCSPLine
    <2> QED
      BY <2>2, <2>3, <2>4, <2>6, <2>7 DEF CfgWritten
  <1> QED
    BY <1>1, <1>2

LEMMA ProgramLinesRead ==
  ASSUME Typing, Honoured, CfgWritten, stage = "create",
         load_mmu \/ add_file \/ set_PCSP \/ load_bmp \/ CopyChunk,
         UNCHANGED <<source, outstring, org, size, stage>>
  PROVE  CfgWritten'
  <1>1. PICK n \in Nat : Len(outstring) = n + 2 /\ Matched(n) /\ ProgramLines(n)
    BY DEF CfgWritten
  <1>2. Matched(n)'
    BY <1>1, MatchedKept
  <1>3. ASSUME Read' >= n + 1 PROVE PC' = org
    <2>1. CASE CopyChunk
      <3>1. Read' = Read /\ PC' = PC
        BY <2>1 DEF CopyChunk, Read
      <3> QED
        BY <1>1, <1>3, <3>1 DEF ProgramLines
    <2>2. CASE load_mmu \/ add_file \/ set_PCSP \/ load_bmp
      <3>1. /\ cfg # <<>> /\ cfg' = Tail(cfg)
            /\ PC' = IF Head(cfg).kind = "PCSP" THEN Head(cfg).pc ELSE PC
        BY <2>2 DEF load_mmu, add_file, set_PCSP, load_bmp, Reads
      <3>2. PICK m, r : m = Len(cfg) /\ r = Read
        OBVIOUS
      <3>3. /\ m \in Nat /\ m > 0 /\ Len(cfg') = m - 1 /\ Head(cfg) = cfg[1]
            /\ r = n + 2 - m /\ r \in Int
        BY <1>1, <3>1, <3>2, Lengths, EmptySeq, HeadTailProperties DEF Read
      <3>4. Read' = r + 1
        BY <1>1, <3>3 DEF Read
      <3>5. Head(cfg) = outstring[r + 1]
        <4>1. 1 \in 1 .. m
          BY <3>3
        <4>2. Suffix
          BY DEF Honoured
        <4> QED
          BY <3>2, <3>3, <4>1, <4>2 DEF Suffix
      <3>6. r = n \/ r = n + 1
        BY <1>1, <1>3, <3>3, <3>4
      <3>7. CASE r = n
        BY <1>1, <3>1, <3>5, <3>7 DEF ProgramLines, PCSPLine
      <3>8. CASE r = n + 1
        <4>1. Head(cfg).kind # "PCSP"
          <5>1. outstring[n + 2] = CodeLine /\ r + 1 = n + 2
            BY <1>1, <3>8 DEF ProgramLines
          <5> QED
            BY <3>5, <5>1 DEF CodeLine, FileLine
        <4>2. PC = org
          BY <1>1, <3>2, <3>8 DEF ProgramLines
        <4> QED
          BY <3>1, <4>1, <4>2
      <3> QED
        BY <3>6, <3>7, <3>8
    <2> QED
      BY <2>1, <2>2
  <1>4. ProgramLines(n)'
    BY <1>1, <1>3 DEF ProgramLines, CodeLine, PCSPLine
  <1> QED
    BY <1>1, <1>2, <1>4 DEF CfgWritten

LEMMA StepCfgWritten == Typing /\ Honoured /\ CfgWritten /\ [Next]_vars => CfgWritten'
  <1> SUFFICES ASSUME Typing, Honoured, CfgWritten, [Next]_vars PROVE CfgWritten'
    OBVIOUS
  <1>1. ASSUME NEW l \in Lines,
               SkipLine(l) \/ FileMissing(l) \/ IncludeWhole(l) \/ IncludeTrimmed(l)
        PROVE  CfgWritten'
    BY <1>1, LinesMatched
  <1>2. CASE EndOfSource
    BY <1>2, ProgramLinesAdded
  <1>3. CASE ParseLine
    BY <1>3, ProgramLinesRead DEF ParseLine
  <1>4. CASE Generate \/ UNCHANGED vars
    <2>1. UNCHANGED <<cfg, creator, source, outstring, org>>
      BY <1>4 DEF Generate, generate_file, vars
    <2>2. stage' \in {"create", "done"} => stage \in {"create", "done"}
      BY <1>4 DEF Generate, vars
    <2>3. stage' = "config" => stage = "config"
      BY <1>4 DEF Generate, vars
    <2>4. \A n : (Matched(n) => Matched(n)') /\ (ProgramLines(n) => ProgramLines(n)')
      BY <2>1 DEF Matched, MatchedBy, ProgramLines, CodeLine, Read, creator
    <2> QED
      BY <2>1, <2>2, <2>3, <2>4 DEF CfgWritten
  <1> QED
    BY <1>1, <1>2, <1>3, <1>4 DEF Next

\* No line asks for a file that is called like the copy of a part of a file.
Apart == \A l, m \in Lines : m.file # Trimmed(l)

\* The file a line adds holds what the line asks for from its offset on.
IsPart(s, l) ==
  /\ Len(s) = IF Rest(l) > 0 THEN Rest(l) ELSE 0
  /\ \A i \in 1 .. Len(s) : s[i] = <<l.file, l.from + (i - 1)>>

PartsOnDisk ==
  \A j \in 1 .. Len(source) : Included(source[j]) /\ source[j].file \in Files =>
     /\ NameOf(source[j]) \in DOMAIN disk
     /\ IsPart(disk[NameOf(source[j])], source[j])

FilesKept ==
  /\ disk[Code] = Content(Code, size)
  /\ Apart => \A m \in Lines : m.file \in Files => disk[m.file] = Content(m.file, Size[m.file])
  /\ Apart /\ PlainSource => PartsOnDisk

LEMMA PlainBefore ==
  ASSUME NEW l \in Lines, source \in Seq(Lines), source' = Append(source, l), PlainSource'
  PROVE  PlainSource
  <1>1. PICK m : m = Len(source)
    OBVIOUS
  <1>2. /\ m \in Nat /\ DOMAIN source = 1 .. m /\ DOMAIN source' = 1 .. m + 1
        /\ \A j \in 1 .. m : source'[j] = source[j]
    BY <1>1, AppendProperties, LenProperties
  <1>3. \A j \in DOMAIN source : j \in DOMAIN source' /\ source'[j] = source[j]
    BY <1>2
  <1>4. \A j \in DOMAIN source : ~ source[j].sub
    BY <1>3 DEF PlainSource
  <1>5. \A j, k \in DOMAIN source :
          LET s == source[j]  t == source[k]
          IN Asked(s) /\ Asked(t) /\ s.from > 0 /\ t.from > 0 /\ Trimmed(s) = Trimmed(t)
             => s.file = t.file /\ s.from = t.from
    BY <1>3 DEF PlainSource
  <1>6. \A j \in DOMAIN source :
          LET s == source[j]
          IN Asked(s) /\ s.bank < 16 => Place(s, Rest(s) - 1) \div Page = s.bank \div 2
    BY <1>3 DEF PlainSource
  <1>7. \A j, k \in DOMAIN source :
          LET s == source[j]  t == source[k]
          IN j < k /\ Asked(s) /\ Asked(t) /\ {s.file, t.file} \subseteq Files =>
               \A i \in Left(t) .. Rest(t) - 1 : ~ Covers(s, Place(t, i))
    BY <1>3 DEF PlainSource
  <1> QED
    BY <1>4, <1>5, <1>6, <1>7 DEF PlainSource

LEMMA WholeIsPart ==
  ASSUME NEW l \in Lines, l.file \in Files, l.from = 0
  PROVE  IsPart(Content(l.file, Size[l.file]), l)
  <1>1. Size[l.file] \in Nat /\ Rest(l) = Size[l.file]
    BY LinesAssumption, LimitType DEF Rest
  <1> QED
    BY <1>1 DEF IsPart, Content

LEMMA TrimmedIsPart ==
  ASSUME NEW l \in Lines, l.file \in Files, l.from \in Nat
  PROVE  LET whole == Content(l.file, Size[l.file])
         IN IsPart(SubSeq(whole, l.from + 1, Len(whole)), l)
  <1>1. PICK whole, n, from :
          whole = Content(l.file, Size[l.file]) /\ n = Size[l.file] /\ from = l.from
    OBVIOUS
  <1>2. n \in Nat /\ from \in Nat /\ Rest(l) = n - from
    BY <1>1, LinesAssumption, LimitType DEF Rest
  <1>3. Len(whole) = n /\ \A i \in 1 .. n : whole[i] = <<l.file, i - 1>>
    BY <1>1, <1>2 DEF Content
  <1>4. PICK part : part = SubSeq(whole, from + 1, n)
    OBVIOUS
  <1>5. /\ Len(part) = IF from + 1 <= n THEN n - (from + 1) + 1 ELSE 0
        /\ \A i \in 1 .. n - (from + 1) + 1 : part[i] = whole[from + 1 + i - 1]
    <2>1. \A i \in from + 1 .. n : i \in 1 .. n /\ i - 1 \in Nat
      BY <1>2
    <2>2. \A i \in from + 1 .. n : whole[i] = <<l.file, i - 1>>
      BY <1>3, <2>1
    <2>3. ASSUME NEW i \in from + 1 .. n
          PROVE  whole[i] \in {l.file} \X Nat
      <3>1. i - 1 \in Nat /\ whole[i] = <<l.file, i - 1>>
        BY <2>1, <2>2
      <3>2. \A x \in Nat : <<l.file, x>> \in {l.file} \X Nat
        OBVIOUS
      <3> QED
        BY <3>1, <3>2
    <2> QED
      BY <1>2, <1>4, <2>3, SubSeqProperties
  <1>6. Len(part) = IF Rest(l) > 0 THEN Rest(l) ELSE 0
    BY <1>2, <1>5
  <1>7. ASSUME NEW i \in 1 .. Len(part)
        PROVE  part[i] = <<l.file, l.from + (i - 1)>>
    <2>1. PICK k : k = from + 1 + i - 1
      OBVIOUS
    <2>2. i \in 1 .. n - (from + 1) + 1 /\ k \in 1 .. n /\ k - 1 = from + (i - 1)
      BY <1>2, <1>5, <2>1
    <2>3. part[i] = whole[k]
      BY <1>5, <2>1, <2>2
    <2>4. whole[k] = <<l.file, k - 1>>
      BY <1>3, <2>2
    <2> QED
      BY <1>1, <2>2, <2>3, <2>4
  <1> QED
    BY <1>1, <1>3, <1>4, <1>6, <1>7 DEF IsPart

LEMMA FilesRead ==
  ASSUME Typing, FilesKept, NEW l \in Lines,
         SkipLine(l) \/ FileMissing(l) \/ IncludeWhole(l) \/ IncludeTrimmed(l)
  PROVE  FilesKept'
  <1>1. source' = Append(source, l) /\ source \in Seq(Lines) /\ size' = size
    BY DEF SkipLine, FileMissing, IncludeWhole, IncludeTrimmed, IncludeFile, ReadsLine, Typing
  <1>2. PICK m : m = Len(source)
    OBVIOUS
  <1>3. /\ m \in Nat /\ Len(source') = m + 1 /\ source'[m + 1] = l
        /\ \A j \in 1 .. m : source'[j] = source[j] /\ source[j] \in Lines
        /\ \A j \in 1 .. m + 1 : j \in 1 .. m \/ j = m + 1
        /\ DOMAIN source' = 1 .. m + 1
    BY <1>1, <1>2, AppendProperties, LenProperties, ElementOfSeq
  <1>4. DOMAIN disk \subseteq DOMAIN disk'
        /\ \A f \in DOMAIN disk : f # Trimmed(l) => disk'[f] = disk[f]
    BY DEF SkipLine, FileMissing, IncludeWhole, IncludeTrimmed
  <1>5. Files \cup {Code} \subseteq DOMAIN disk /\ Code # Trimmed(l)
    BY LinesAssumption DEF Typing, DiskOK
  <1>6. disk'[Code] = Content(Code, size)'
    BY <1>1, <1>4, <1>5 DEF FilesKept, Content
  <1>7. ASSUME Apart, NEW t \in Lines, t.file \in Files
        PROVE  disk'[t.file] = Content(t.file, Size[t.file])
    BY <1>4, <1>5, <1>7 DEF FilesKept, Apart
  <1>8. ASSUME Apart, PlainSource' PROVE PartsOnDisk'
    <2>1. PartsOnDisk
      BY <1>1, <1>8, PlainBefore DEF FilesKept
    <2> SUFFICES ASSUME NEW j \in 1 .. m + 1, Included(source'[j]), source'[j].file \in Files
                 PROVE  /\ NameOf(source'[j]) \in DOMAIN disk'
                        /\ IsPart(disk'[NameOf(source'[j])], source'[j])
      BY <1>3 DEF PartsOnDisk
    <2>2. PICK s : s = source'[j]
      OBVIOUS
    <2>3. s \in Lines /\ s.from \in Nat
      BY <1>3, <2>2, LinesAssumption
    <2>4. CASE s.from = 0
      <3>1. NameOf(s) = s.file /\ disk'[s.file] = Content(s.file, Size[s.file])
        BY <1>7, <1>8, <2>2, <2>3, <2>4 DEF NameOf
      <3> QED
        BY <1>4, <1>5, <2>2, <2>3, <2>4, <3>1, WholeIsPart
    <2>5. CASE s.from # 0 /\ IncludeTrimmed(l) /\ Trimmed(s) = Trimmed(l)
      <3>1. NameOf(s) = Trimmed(l) /\ s.from > 0 /\ l.from > 0
        BY <2>3, <2>5 DEF NameOf, IncludeTrimmed
      <3>2. Asked(s) /\ Asked(l)
        BY <2>2, <2>5 DEF Included, Asked, IncludeTrimmed
      <3>3. s.file = l.file /\ s.from = l.from
        <4>1. /\ j \in DOMAIN source' /\ m + 1 \in DOMAIN source'
              /\ source'[j] = s /\ source'[m + 1] = l
          BY <1>3, <2>2
        <4> QED
          BY <1>8, <2>5, <3>1, <3>2, <4>1 DEF PlainSource
      <3>4. l.file \in Files /\ disk[l.file] = Content(l.file, Size[l.file])
        BY <1>8, <2>5 DEF IncludeTrimmed, FilesKept
      <3>5. disk'[Trimmed(l)] = SubSeq(disk[l.file], l.from + 1, Len(disk[l.file]))
        BY <2>5 DEF IncludeTrimmed
      <3>6. IsPart(disk'[Trimmed(l)], l)
        BY <2>3, <3>3, <3>4, <3>5, TrimmedIsPart
      <3>7. IsPart(disk'[Trimmed(l)], s)
        BY <3>3, <3>6 DEF IsPart, Rest
      <3>8. Trimmed(l) \in DOMAIN disk'
        BY <2>5 DEF IncludeTrimmed
      <3> QED
        BY <2>2, <3>1, <3>7, <3>8
    <2>6. CASE s.from # 0 /\ ~ (IncludeTrimmed(l) /\ Trimmed(s) = Trimmed(l))
      <3>1. j # m + 1
        <4> SUFFICES ASSUME j = m + 1 PROVE FALSE
          OBVIOUS
        <4>1. s = l
          BY <1>3, <2>2
        <4> QED
          BY <2>2, <2>6, <4>1 DEF Included, SkipLine, FileMissing, IncludeWhole
      <3>2. j \in 1 .. m /\ source[j] = s /\ NameOf(s) = Trimmed(s)
        BY <1>3, <2>2, <2>6, <3>1 DEF NameOf
      <3>3. Trimmed(s) \in DOMAIN disk /\ IsPart(disk[Trimmed(s)], s)
        BY <1>2, <2>1, <2>2, <3>2 DEF PartsOnDisk
      <3>4. disk'[Trimmed(s)] = disk[Trimmed(s)]
        <4>1. CASE ~ IncludeTrimmed(l)
          BY <4>1 DEF SkipLine, FileMissing, IncludeWhole
        <4>2. CASE IncludeTrimmed(l)
          BY <1>4, <2>6, <3>3, <4>2
        <4> QED
          BY <4>1, <4>2
      <3> QED
        BY <1>4, <2>2, <3>2, <3>3, <3>4
    <2> QED
      BY <2>4, <2>5, <2>6
  <1> QED
    BY <1>6, <1>7, <1>8 DEF FilesKept

LEMMA InitFilesKept == Init => FilesKept
  <1> SUFFICES ASSUME Init PROVE FilesKept
    OBVIOUS
  <1>1. disk[Code] = Content(Code, size)
    BY LinesAssumption DEF Init
  <1>2. \A f \in Files : disk[f] = Content(f, Size[f])
    BY LinesAssumption DEF Init
  <1>3. PartsOnDisk
    BY DEF Init, PartsOnDisk
  <1> QED
    BY <1>1, <1>2, <1>3 DEF FilesKept

LEMMA StepFilesKept == Typing /\ FilesKept /\ [Next]_vars => FilesKept'
  <1> SUFFICES ASSUME Typing, FilesKept, [Next]_vars PROVE FilesKept'
    OBVIOUS
  <1>1. ASSUME NEW l \in Lines,
               SkipLine(l) \/ FileMissing(l) \/ IncludeWhole(l) \/ IncludeTrimmed(l)
        PROVE  FilesKept'
    BY <1>1, FilesRead
  <1>2. CASE UNCHANGED <<disk, source, size>>
    <2>1. Content(Code, size)' = Content(Code, size)
      BY <1>2 DEF Content
    <2>2. PlainSource' <=> PlainSource
      BY <1>2 DEF PlainSource
    <2>3. PartsOnDisk' <=> PartsOnDisk
      BY <1>2 DEF PartsOnDisk
    <2> QED
      BY <1>2, <2>1, <2>2, <2>3 DEF FilesKept
  <1>3. EndOfSource \/ ParseLine \/ Generate \/ UNCHANGED vars
        => UNCHANGED <<disk, source, size>>
    BY DEF EndOfSource, ParseLine, Generate, vars, load_mmu, add_file, set_PCSP, load_bmp,
           CopyChunk, generate_file
  <1> QED
    BY <1>1, <1>2, <1>3 DEF Next

-----------------------------------------------------------------------------
(* Where a line's bytes belong.                                            *)

\* The cell of bigFile for a cell of the machine.
Cell(place) == get_real_bank(place \div Page) * Page + (place % Page)

LEMMA CellOf ==
  ASSUME NEW b \in Nat, NEW x \in 0 .. Page - 1
  PROVE  Cell(b * Page + x) = get_real_bank(b) * Page + x
  BY Quotient, PageSize DEF Cell

LEMMA CellType ==
  ASSUME NEW place \in Nat
  PROVE  /\ place \div Page \in Nat /\ place % Page \in 0 .. Page - 1
         /\ Cell(place) \in Nat
         /\ get_bank_order(Cell(place) \div Page) = place \div Page
  <1>1. PICK d, x, r : /\ d = place \div Page /\ x = place % Page /\ r = get_real_bank(d)
    OBVIOUS
  <1>2. d \in Nat /\ x \in 0 .. Page - 1 /\ Page \in Nat /\ Page > 0
    BY <1>1, Division, PageSize
  <1>3. r \in Nat /\ get_bank_order(r) = d
    BY <1>1, <1>2, RealBank
  <1>4. Cell(place) = r * Page + x
    BY <1>1 DEF Cell
  <1>5. Cell(place) \in Nat
    BY <1>2, <1>3, <1>4
  <1>6. (r * Page + x) \div Page = r
    BY <1>2, <1>3, Quotient
  <1> QED
    BY <1>1, <1>2, <1>3, <1>4, <1>5, <1>6

LEMMA CellInjective ==
  ASSUME NEW p \in Nat, NEW q \in Nat, Cell(p) = Cell(q)
  PROVE  p = q
  <1>1. PICK r, t \in Nat : r = get_real_bank(p \div Page) /\ t = get_real_bank(q \div Page)
    BY CellType, RealBank
  <1>2. r * Page + (p % Page) = t * Page + (q % Page)
    BY <1>1 DEF Cell
  <1>3. p % Page = q % Page /\ r = t
    BY <1>1, <1>2, CellType, SamePlace, PageSize
  <1>4. p \div Page = q \div Page
    BY <1>1, <1>3, CellType, RealBank
  <1>5. /\ p = (p \div Page) * Page + (p % Page)
        /\ q = (q \div Page) * Page + (q % Page)
    BY Division, PageSize
  <1> QED
    BY <1>3, <1>4, <1>5

\* A line's address is that of its bank and of its place in it.
LEMMA PlaceOfLine ==
  ASSUME NEW l \in Lines
  PROVE  /\ LineOf(l) = MMULine(NameOf(l), l.bank, l.at % Half)
         /\ BankOf(LineOf(l)) \in Nat
         /\ BankOf(LineOf(l)) = l.bank \div 2
         /\ l.bank < 16 \/ BankOf(LineOf(l)) >= 8
         /\ InBank(LineOf(l)) \in 0 .. Page - 1
         /\ Place(l, 0) \in Nat
         /\ Place(l, 0) = BankOf(LineOf(l)) * Page + InBank(LineOf(l))
         /\ \A i \in Int : Place(l, i) = Place(l, 0) + i
  <1>1. l.bank \in Nat /\ l.at \in Nat
    BY LinesAssumption, PageSize
  <1>2. PICK b, h : b = l.bank /\ h = l.at % Half /\ b \in Nat /\ h \in 0 .. Half - 1
    BY <1>1, PageSize, Division
  <1>3. PICK d : d = b \div 2
    OBVIOUS
  <1>4. d \in Nat /\ (b = 2 * d \/ b = 2 * d + 1) /\ (b < 16 \/ d >= 8)
    BY <1>2, <1>3
  <1>5. LineOf(l).kind = "MMU" /\ LineOf(l).bank = b /\ LineOf(l).at = h
    BY <1>2 DEF LineOf, MMULine
  <1>6. BankOf(LineOf(l)) = d
    BY <1>3, <1>5 DEF BankOf
  <1>7. InBank(LineOf(l)) = h + (IF b # 2 * d THEN Half ELSE 0)
    BY <1>3, <1>5 DEF InBank
  <1>8. InBank(LineOf(l)) \in 0 .. Page - 1
    BY <1>2, <1>7, PageSize
  <1>9. b * Half + h = d * Page + InBank(LineOf(l)) /\ b * Half \in Nat
    <2>1. b * Half \in Nat
      BY <1>2, PageSize
    <2>2. CASE b = 2 * d
      <3>1. b * Half = d * Page
        BY <1>4, <2>2, PageSize
      <3> QED
        BY <1>2, <1>7, <2>1, <2>2, <3>1
    <2>3. CASE b = 2 * d + 1
      <3>1. b * Half = d * Page + Half
        BY <1>4, <2>3, PageSize
      <3>2. b # 2 * d /\ d * Page \in Nat
        BY <1>4, <2>3, PageSize
      <3> QED
        BY <1>2, <1>7, <2>1, <3>1, <3>2, PageSize
    <2> QED
      BY <1>4, <2>1, <2>2, <2>3
  <1>10. \A i \in Int : Place(l, i) = b * Half + h + i
    BY <1>2 DEF Place
  <1>11. Place(l, 0) = b * Half + h /\ b * Half + h \in Nat
    BY <1>2, <1>9, <1>10
  <1>12. \A i \in Int : Place(l, i) = Place(l, 0) + i
    BY <1>10, <1>11
  <1> QED
    BY <1>2, <1>3, <1>4, <1>6, <1>8, <1>9, <1>11, <1>12 DEF LineOf

\* bigFile keeps the banks in another order only up to the eighth: what does not
\* run out of one of those is in bigFile as it is in the machine.
LEMMA Placed ==
  ASSUME NEW l \in Lines, NEW i \in 0 .. Rest(l) - 1, Rest(l) \in Int,
         l.bank < 16 => Place(l, Rest(l) - 1) \div Page = l.bank \div 2
  PROVE  /\ Place(l, i) \in Nat
         /\ Start(LineOf(l)) + i = Cell(Place(l, i))
  <1>1. PICK b, x, p, z : /\ b = BankOf(LineOf(l)) /\ x = InBank(LineOf(l)) /\ p = Place(l, 0)
                          /\ z = Rest(l) - 1
    OBVIOUS
  <1>2. b \in Nat /\ x \in 0 .. Page - 1 /\ p = b * Page + x /\ p \in Nat
    BY <1>1, PlaceOfLine
  <1>3. i \in Nat /\ z \in Nat /\ i <= z /\ i \in Int /\ z \in Int
    BY <1>1
  <1>4. Place(l, i) = p + i /\ Place(l, z) = p + z
    BY <1>1, <1>3, PlaceOfLine
  <1>5. Start(LineOf(l)) = get_real_bank(b) * Page + x
    BY <1>1 DEF Start
  <1>6. get_real_bank(b) \in Nat /\ b * Page \in Nat /\ get_real_bank(b) * Page \in Nat
    <2>1. get_real_bank(b) \in Nat
      BY <1>2, RealBank
    <2> QED
      BY <1>2, <2>1, PageSize
  <1>7. CASE l.bank < 16
    <2>1. (p + z) \div Page = b
      BY <1>1, <1>4, <1>7, PlaceOfLine
    <2>2. p + z \in Nat
      BY <1>2, <1>3
    <2>3. p + z = b * Page + ((p + z) % Page) /\ (p + z) % Page \in 0 .. Page - 1
      BY <2>1, <2>2, Division, PageSize
    <2>4. x + i \in 0 .. Page - 1 /\ p + i = b * Page + (x + i)
      BY <1>2, <1>3, <1>6, <2>3, PageSize
    <2>5. Cell(b * Page + (x + i)) = get_real_bank(b) * Page + (x + i)
      BY <1>2, <2>4, CellOf
    <2> QED
      BY <1>2, <1>3, <1>4, <1>5, <1>6, <2>4, <2>5
  <1>8. CASE ~ (l.bank < 16)
    <2>1. b >= 8 /\ get_real_bank(b) = b
      BY <1>1, <1>2, <1>8, PlaceOfLine, RealBank
    <2>2. PICK d, m : d = (p + i) \div Page /\ m = (p + i) % Page
      OBVIOUS
    <2>3. p + i = d * Page + m /\ d \in Nat /\ m \in 0 .. Page - 1
      BY <1>2, <1>3, <2>2, Division, PageSize
    <2>4. d >= 8
      <3>1. d + 1 <= 8 => d * Page + Page <= 8 * Page
        BY <2>3, TimesLess, PageSize
      <3>2. 8 * Page <= b * Page
        <4>1. CASE b = 8
          BY <4>1, PageSize
        <4>2. CASE 8 + 1 <= b
          <5>1. 8 * Page + Page <= b * Page
            BY <1>2, <4>2, TimesLess, PageSize
          <5> QED
            BY <1>6, <5>1, PageSize
        <4> QED
          BY <1>2, <2>1, <4>1, <4>2
      <3>3. d * Page \in Nat
        BY <2>3, PageSize
      <3> QED
        BY <1>2, <1>3, <1>6, <2>3, <3>1, <3>2, <3>3, PageSize
    <2>5. get_real_bank(d) = d
      BY <2>3, <2>4, RealBank
    <2>6. Cell(p + i) = p + i
      BY <2>2, <2>3, <2>5 DEF Cell
    <2> QED
      BY <1>2, <1>3, <1>4, <1>5, <1>6, <2>1, <2>6
  <1> QED
    BY <1>7, <1>8

\* The program's bytes, too.
LEMMA ProgramPlaced ==
  ASSUME Typing, org >= Page
  PROVE  /\ size \in Nat /\ size > 0 /\ org \in Nat
         /\ Start(CodeLine) = org - Page
         /\ \A i \in 0 .. size - 1 :
              /\ org + i \in Page .. Z80Space - 1
              /\ BankAt(org + i) \in 0 .. Banks - 1
              /\ CodeCell(i) \in Nat
              /\ Cell(CodeCell(i)) = org - Page + i
              /\ get_real_bank(BankAt(org + i)) * Page + ((org + i) % Page) = org - Page + i
  <1>1. org \in Page .. Z80Space - 1 /\ size \in Nat /\ size > 0 /\ org + size <= Z80Space
    BY LinesAssumption, LimitType, PageSize DEF Typing
  <1>2. Start(CodeLine) = org - Page
    <2>1. BankOf(CodeLine) = BankAt(org) /\ InBank(CodeLine) = org % Page
      <3>1. (org % Page) \in Nat
        BY <1>1, PageSize, Division
      <3> QED
        BY <3>1 DEF CodeLine, FileLine, BankOf, InBank
    <2> QED
      BY <1>1, <2>1, BankOfAddress DEF Start
  <1>3. ASSUME NEW i \in 0 .. size - 1
        PROVE  /\ org + i \in Page .. Z80Space - 1
               /\ BankAt(org + i) \in 0 .. Banks - 1
               /\ CodeCell(i) \in Nat
               /\ Cell(CodeCell(i)) = org - Page + i
               /\ get_real_bank(BankAt(org + i)) * Page + ((org + i) % Page) = org - Page + i
    <2>1. PICK z : z = org + i
      OBVIOUS
    <2>2. z \in Page .. Z80Space - 1 /\ z \in Nat /\ z - Page = org - Page + i
      BY <1>1, <2>1, PageSize
    <2>3. PICK b, x : b = BankAt(z) /\ x = z % Page
      OBVIOUS
    <2>4. /\ b \in 0 .. Banks - 1 /\ x \in 0 .. Page - 1
          /\ get_real_bank(b) * Page + x = z - Page
      BY <2>2, <2>3, BankOfAddress, PageSize, Division
    <2>5. b \in Nat /\ b * Page + x \in Nat
      BY <2>4, PageSize
    <2>6. CodeCell(i) = b * Page + x
      BY <2>1, <2>3 DEF CodeCell
    <2>7. Cell(b * Page + x) = get_real_bank(b) * Page + x
      BY <2>4, <2>5, CellOf
    <2> QED
      BY <2>1, <2>2, <2>3, <2>4, <2>5, <2>6, <2>7
  <1> QED
    BY <1>1, <1>2, <1>3, PageSize

-----------------------------------------------------------------------------
(* The memory of the machine after the NEX file was loaded.                *)

Built == Typing /\ NexWritten /\ Honoured /\ CfgWritten /\ FilesKept

LEMMA AllCopied ==
  ASSUME Built, stage = "done", NEW q \in 1 .. Len(outstring), Adds(outstring[q]),
         NEW i \in 0 .. Len(File(outstring[q])) - 1
  PROVE  InImage(q, i)
  <1>1. fin = <<>> /\ cfg = <<>> /\ AllInImage
    BY DEF Built, Honoured
  <1>2. Len(cfg) = 0 /\ Len(fin) = 0 /\ Len(outstring) \in Nat
    BY <1>1, Lengths DEF Built
  <1>3. Read = Len(outstring)
    BY <1>2 DEF Read
  <1>4. Len(File(outstring[q])) \in Nat
    BY LineFile DEF Built
  <1>5. CopiedOf(q) = Len(File(outstring[q]))
    BY <1>2, <1>4 DEF CopiedOf
  <1> QED
    BY <1>1, <1>3, <1>5 DEF AllInImage

\* A byte of a line is in the RAM, in a cell no later line's file is copied to.
LEMMA ByteInRam ==
  ASSUME Built, stage = "done", NEW q \in 1 .. Len(outstring), Adds(outstring[q]),
         NEW i \in 0 .. Len(File(outstring[q])) - 1,
         NEW place \in Nat, Cell(place) = Start(outstring[q]) + i,
         place \div Page < Banks, LastTo(q, Cell(place))
  PROVE  Loaded(nex)[place \div Page][place % Page] = File(outstring[q])[i + 1]
  <1>1. InImage(q, i)
    BY AllCopied
  <1>2. get_bank_order(Cell(place) \div Page) = place \div Page
    BY CellType
  <1>3. /\ bigFile[Cell(place)] = File(outstring[q])[i + 1]
        /\ place \div Page \in banks
    BY <1>1, <1>2 DEF InImage
  <1>4. place % Page \in 0 .. Page - 1
    BY CellType
  <1>5. Loaded(nex)[place \div Page][place % Page]
          = bigFile[get_real_bank(place \div Page) * Page + (place % Page)]
    BY <1>3, <1>4, RamCell DEF Built
  <1> QED
    BY <1>3, <1>5 DEF Cell

\* The program is in the last line of the .cfg file, where no other can cover it.
LEMMA ProgramLast ==
  ASSUME Built, stage \in {"create", "done"}
  PROVE  \E n \in Nat :
           /\ n >= 1 /\ Len(outstring) = n + 2 /\ Matched(n)
           /\ org >= Page /\ (Read >= n + 1 => PC = org)
           /\ ~ Adds(outstring[n + 1])
           /\ outstring[n + 2] = CodeLine /\ Adds(outstring[n + 2])
           /\ Len(File(CodeLine)) = size
           /\ \A i \in 0 .. size - 1 : File(CodeLine)[i + 1] = <<Code, i>>
  <1>1. PICK n \in Nat : Len(outstring) = n + 2 /\ Matched(n) /\ ProgramLines(n)
    BY DEF Built, CfgWritten
  <1>2. n >= 1
    BY <1>1 DEF Matched
  <1>3. /\ org >= Page /\ (Read >= n + 1 => PC = org)
        /\ outstring[n + 1] = PCSPLine(org) /\ outstring[n + 2] = CodeLine
    BY <1>1 DEF ProgramLines
  <1>4. ~ Adds(PCSPLine(org)) /\ Adds(CodeLine)
    BY DEF Adds, PCSPLine, CodeLine, FileLine
  <1>5. File(CodeLine) = Content(Code, size)
    BY DEF Built, FilesKept, File, CodeLine, FileLine
  <1>6. size \in Nat
    BY <1>3, ProgramPlaced DEF Built
  <1>7. Len(File(CodeLine)) = size
    BY <1>5, <1>6 DEF Content
  <1>8. \A i \in 0 .. size - 1 : File(CodeLine)[i + 1] = <<Code, i>>
    BY <1>5, <1>6 DEF Content
  <1> QED
    BY <1>1, <1>2, <1>3, <1>4, <1>7, <1>8

LEMMA BuiltCodeInPlace == Built => CodeInPlace
  <1> SUFFICES ASSUME Built, stage = "done", NEW i \in 0 .. size - 1
               PROVE  Loaded(nex)[BankAt(nex.PC + i)][(nex.PC + i) % Page] = <<Code, i>>
    BY DEF CodeInPlace
  <1>1. PICK n \in Nat :
          /\ Len(outstring) = n + 2
          /\ org >= Page /\ (Read >= n + 1 => PC = org)
          /\ outstring[n + 2] = CodeLine /\ Adds(outstring[n + 2])
          /\ Len(File(CodeLine)) = size
          /\ File(CodeLine)[i + 1] = <<Code, i>>
    BY ProgramLast
  <1>2. cfg = <<>>
    BY DEF Built, Honoured
  <1>3. Read = n + 2
    BY <1>1, <1>2 DEF Read
  <1>4. nex.PC = org
    BY <1>1, <1>3 DEF Built, NexWritten
  <1>5. PICK z, b, x : z = org + i /\ b = BankAt(z) /\ x = z % Page
    OBVIOUS
  <1>6. /\ z \in Page .. Z80Space - 1 /\ b \in 0 .. Banks - 1
        /\ get_real_bank(b) * Page + x = org - Page + i
        /\ Start(CodeLine) = org - Page /\ org \in Nat /\ size \in Nat
    BY <1>1, <1>5, ProgramPlaced DEF Built
  <1>7. x \in 0 .. Page - 1 /\ b \in Nat /\ b < Banks
    BY <1>5, <1>6, PageSize, Division
  <1>8. PICK place : place = b * Page + x
    OBVIOUS
  <1>9. place \in Nat /\ place \div Page = b /\ place % Page = x
        /\ Cell(place) = Start(CodeLine) + i
    <2>1. b * Page + x \in Nat
      BY <1>7, PageSize
    <2>2. (b * Page + x) \div Page = b /\ (b * Page + x) % Page = x
      BY <1>7, PageSize, Quotient
    <2>3. Cell(b * Page + x) = get_real_bank(b) * Page + x
      BY <1>7, CellOf
    <2> QED
      BY <1>6, <1>8, <2>1, <2>2, <2>3
  <1>10. LastTo(n + 2, Cell(place))
    BY <1>1 DEF LastTo
  <1>11. n + 2 \in 1 .. Len(outstring)
    BY <1>1
  <1>12. Loaded(nex)[place \div Page][place % Page] = File(outstring[n + 2])[i + 1]
    BY <1>1, <1>7, <1>9, <1>10, <1>11, ByteInRam
  <1> QED
    BY <1>1, <1>4, <1>5, <1>9, <1>12

LEMMA RestType ==
  ASSUME NEW l \in Lines, l.file \in Files
  PROVE  Rest(l) \in Int /\ Left(l) \in Int /\ Left(l) <= Rest(l)
  <1>1. l.from \in Nat /\ l.length \in Nat /\ Size[l.file] \in Nat
    BY LinesAssumption, LimitType
  <1>2. Rest(l) \in Int
    BY <1>1 DEF Rest
  <1> QED
    BY <1>1, <1>2 DEF Left

\* No line of the .cfg file behind that of a source line puts a byte in a cell the
\* line asks for, unless a later line or the program covers it.
LEMMA LineLast ==
  ASSUME Built, stage = "done", Apart, PlainSource,
         NEW n \in Nat, Len(outstring) = n + 2, ~ Adds(outstring[n + 1]),
         outstring[n + 2] = CodeLine, org >= Page, Len(File(CodeLine)) = size,
         NEW at \in [1 .. Len(source) -> Nat], MatchedBy(at, n),
         NEW j \in 1 .. Len(source), Included(source[j]),
         NEW i \in 0 .. Left(source[j]) - 1, NEW place,
         place \in Nat, place = Place(source[j], i),
         place \notin Program,
         \A k \in j + 1 .. Len(source) : ~ Covers(source[k], place)
  PROVE  LastTo(at[j], Cell(place))
  <1> SUFFICES ASSUME NEW s \in at[j] + 1 .. n + 2, Adds(outstring[s]),
                      Cell(place) \in CellsOf(outstring[s])
               PROVE  FALSE
    BY DEF LastTo
  <1>1. at[j] \in 2 .. n /\ source \in Seq(Lines) /\ source[j].file \in Files
    BY DEF MatchedBy, Built, Typing
  <1>2. s \in 2 .. n \/ s = n + 2
    <2>1. s # n + 1
      OBVIOUS
    <2>2. PICK q : q = at[j] /\ q \in 2 .. n /\ s \in q + 1 .. n + 2
      BY <1>1
    <2> QED
      BY <2>1, <2>2
  <1>3. CASE s \in 2 .. n
    <2>1. PICK k \in 1 .. Len(source) : Included(source[k]) /\ at[k] = s
      BY <1>3 DEF MatchedBy
    <2>2. k > j
      <3>1. at[j] < at[k]
        BY <1>1, <2>1
      <3>2. ~ (k < j)
        BY <1>1, <2>1, <3>1 DEF MatchedBy
      <3>3. k # j
        BY <1>1, <2>1, <3>1
      <3> QED
        BY <3>2, <3>3
    <2>3. PICK l, m : l = source[j] /\ m = source[k]
      OBVIOUS
    <2>4. /\ l \in Lines /\ m \in Lines /\ Asked(l) /\ Asked(m) /\ Included(m)
          /\ {l.file, m.file} \subseteq Files
          /\ outstring[s] = LineOf(m)
      BY <1>1, <2>1, <2>3, ElementOfSeq DEF MatchedBy, Included, Asked
    <2>5. IsPart(disk[NameOf(m)], m)
      BY <2>3, <2>4 DEF Built, FilesKept, PartsOnDisk
    <2>6. Rest(m) \in Int /\ Left(m) \in Int
      BY <2>4, RestType
    <2>7. PICK len : len = Len(disk[NameOf(m)]) /\ len = IF Rest(m) > 0 THEN Rest(m) ELSE 0
      BY <2>5 DEF IsPart
    <2>8. File(LineOf(m)) = disk[NameOf(m)]
      BY DEF File, LineOf, MMULine
    <2>9. Start(LineOf(m)) \in Nat
      BY <2>1, <2>4, LineFile, Lengths, <1>3 DEF Built
    <2>10. PICK x : x = Cell(place) - Start(LineOf(m))
      OBVIOUS
    <2>11. Cell(place) \in Nat
      BY CellType
    <2>12. x \in 0 .. Rest(m) - 1 /\ Cell(place) = Start(LineOf(m)) + x
      <3>1. Cell(place) \in Start(LineOf(m)) .. Start(LineOf(m)) + len - 1
        BY <2>4, <2>7, <2>8 DEF CellsOf
      <3>2. PICK c, st, rest :
              c = Cell(place) /\ st = Start(LineOf(m)) /\ rest = Rest(m)
        OBVIOUS
      <3>3. /\ c \in Nat /\ st \in Nat /\ rest \in Int /\ x = c - st
            /\ c \in st .. st + len - 1 /\ len = IF rest > 0 THEN rest ELSE 0
        BY <2>6, <2>7, <2>9, <2>10, <2>11, <3>1, <3>2
      <3>4. x \in 0 .. rest - 1 /\ c = st + x
        BY <3>3
      <3> QED
        BY <3>2, <3>4
    <2>13. m.bank < 16 => Place(m, Rest(m) - 1) \div Page = m.bank \div 2
      BY <1>1, <2>3, <2>4 DEF PlainSource
    <2>14. Place(m, x) \in Nat /\ Start(LineOf(m)) + x = Cell(Place(m, x))
      BY <2>4, <2>6, <2>12, <2>13, Placed
    <2>15. place = Place(m, x)
      BY <2>12, <2>14, CellInjective
    <2>16. /\ place - Place(m, 0) = x /\ place - Place(l, 0) = i
           /\ i \in 0 .. Left(l) - 1 /\ x \in Int
      <3>1. /\ Place(m, 0) \in Nat /\ Place(m, x) = Place(m, 0) + x
            /\ Place(l, 0) \in Nat /\ Place(l, i) = Place(l, 0) + i
        BY <2>4, <2>12, PlaceOfLine
      <3>2. PICK p, r : p = Place(m, 0) /\ r = Place(l, 0)
        OBVIOUS
      <3>3. p \in Nat /\ r \in Nat /\ place = p + x /\ place = r + i
        BY <2>3, <2>15, <3>1, <3>2
      <3>4. x \in Int /\ i \in Int /\ i \in 0 .. Left(l) - 1
        BY <2>3, <2>4, <2>12, RestType
      <3>5. place - p = x /\ place - r = i
        BY <3>3, <3>4
      <3> QED
        BY <3>2, <3>4, <3>5
    <2>17. CASE x < Left(m)
      <3>1. x \in 0 .. Left(m) - 1
        BY <2>6, <2>12, <2>17
      <3>2. Covers(m, place)
        BY <2>4, <2>16, <3>1 DEF Covers
      <3>3. k \in j + 1 .. Len(source)
        BY <2>1, <2>2
      <3> QED
        BY <2>3, <3>2, <3>3
    <2>18. CASE ~ (x < Left(m))
      <3>1. x \in Left(m) .. Rest(m) - 1
        BY <2>6, <2>12, <2>18
      <3>2. ~ Covers(l, Place(m, x))
        <4>1. /\ j \in DOMAIN source /\ k \in DOMAIN source /\ j < k
              /\ source[j] = l /\ source[k] = m
          BY <1>1, <2>1, <2>2, <2>3
        <4>2. \A y \in Left(m) .. Rest(m) - 1 : ~ Covers(l, Place(m, y))
          BY <2>4, <4>1 DEF PlainSource
        <4> QED
          BY <3>1, <4>2
      <3>3. Covers(l, place)
        BY <2>4, <2>16 DEF Covers
      <3> QED
        BY <2>15, <3>2, <3>3
    <2> QED
      BY <2>17, <2>18
  <1>4. CASE s = n + 2
    <2>1. /\ size \in Nat /\ org \in Nat /\ Start(CodeLine) = org - Page
          /\ \A y \in 0 .. size - 1 : CodeCell(y) \in Nat /\ Cell(CodeCell(y)) = org - Page + y
      BY ProgramPlaced DEF Built
    <2>2. Cell(place) \in Nat /\ Cell(place) \in Start(CodeLine) .. Start(CodeLine) + size - 1
      BY <1>4, CellType DEF CellsOf
    <2>3. PICK y : y = Cell(place) - (org - Page)
      OBVIOUS
    <2>4. y \in 0 .. size - 1 /\ Cell(place) = org - Page + y
      BY <2>1, <2>2, <2>3, PageSize
    <2>5. place = CodeCell(y)
      BY <2>1, <2>4, CellInjective
    <2> QED
      BY <2>4, <2>5 DEF Program
  <1> QED
    BY <1>2, <1>3, <1>4

LEMMA BuiltLoadedAsAsked == Built /\ Apart => LoadedAsAskedPlain
  <1> SUFFICES ASSUME Built, Apart, PlainSource, stage = "done",
                      NEW j \in DOMAIN source, Asked(source[j])
               PROVE  /\ source[j].file \in Files
                      /\ \A i \in 0 .. Left(source[j]) - 1 :
                           LET cell == Place(source[j], i)
                           IN (/\ cell < Banks * Page
                               /\ cell \notin Program
                               /\ \A k \in j + 1 .. Len(source) : ~ Covers(source[k], cell))
                              => Loaded(nex)[cell \div Page][cell % Page]
                                   = <<source[j].file, source[j].from + i>>
    BY DEF LoadedAsAskedPlain, LoadedAsAsked
  <1>1. PICK n \in Nat :
          /\ n >= 1 /\ Len(outstring) = n + 2 /\ Matched(n) /\ org >= Page
          /\ ~ Adds(outstring[n + 1]) /\ outstring[n + 2] = CodeLine
          /\ Len(File(CodeLine)) = size
    BY ProgramLast
  <1>2. PICK at \in [1 .. Len(source) -> Nat] : MatchedBy(at, n)
    BY <1>1 DEF Matched
  <1>3. PICK l : l = source[j]
    OBVIOUS
  <1>4. j \in 1 .. Len(source) /\ l \in Lines /\ source \in Seq(Lines)
    BY <1>3, ElementOfSeq DEF Built, Typing
  <1>5. Included(l)
    BY <1>3 DEF PlainSource, Asked, Included
  <1>6. at[j] \in 2 .. n /\ l.file \in Files /\ outstring[at[j]] = LineOf(l)
    BY <1>2, <1>3, <1>4, <1>5 DEF MatchedBy
  <1>7. Rest(l) \in Int /\ Left(l) \in Int /\ Left(l) <= Rest(l)
    BY <1>4, <1>6, RestType
  <1>8. IsPart(disk[NameOf(l)], l)
    BY <1>3, <1>4, <1>5, <1>6 DEF Built, FilesKept, PartsOnDisk
  <1>9. ASSUME NEW i \in 0 .. Left(l) - 1, NEW cell, cell = Place(l, i), cell < Banks * Page,
               cell \notin Program,
               \A k \in j + 1 .. Len(source) : ~ Covers(source[k], cell)
        PROVE  Loaded(nex)[cell \div Page][cell % Page] = <<l.file, l.from + i>>
    <2>1. i \in 0 .. Rest(l) - 1 /\ i \in Nat /\ Rest(l) > 0
      BY <1>7
    <2>2. l.bank < 16 => Place(l, Rest(l) - 1) \div Page = l.bank \div 2
      BY <1>3, <1>5 DEF PlainSource, Asked, Included
    <2>3. cell \in Nat /\ Start(LineOf(l)) + i = Cell(cell)
      BY <1>4, <1>7, <1>9, <2>1, <2>2, Placed
    <2>4. cell \div Page < Banks
      <3>1. cell \div Page \in Nat /\ cell = (cell \div Page) * Page + (cell % Page)
            /\ cell % Page \in 0 .. Page - 1
        BY <2>3, Division, PageSize
      <3>2. ~ (cell \div Page >= Banks)
        <4>1. PICK d : d = cell \div Page
          OBVIOUS
        <4>2. d \in Nat /\ d * Page \in Nat /\ d * Page <= cell
          <5>1. d \in Nat /\ Page \in Nat /\ cell = d * Page + (cell % Page)
            BY <3>1, <4>1, PageSize
          <5>2. PICK p, y : p = d * Page /\ y = cell % Page
            OBVIOUS
          <5>3. p \in Nat /\ y \in Nat
            BY <3>1, <5>1, <5>2
          <5>4. p <= p + y
            BY <5>3
          <5> QED
            BY <5>1, <5>2, <5>3, <5>4
        <4>3. d >= Banks => Banks * Page <= d * Page
          <5>1. d = Banks \/ d >= Banks + 1 \/ d < Banks
            BY <4>2, PageSize
          <5>2. d >= Banks + 1 => Banks * Page + Page <= d * Page
            BY <4>2, TimesLess, PageSize
          <5>3. Banks * Page \in Nat
            BY PageSize
          <5> QED
            BY <4>2, <5>1, <5>2, <5>3, PageSize
        <4>4. Banks * Page \in Nat
          BY PageSize
        <4> QED
          BY <1>9, <2>3, <4>1, <4>2, <4>3, <4>4
      <3> QED
        BY <3>1, <3>2, PageSize
    <2>5. LastTo(at[j], Cell(cell))
      BY <1>1, <1>2, <1>3, <1>4, <1>5, <1>9, <2>3, LineLast
    <2>6. File(LineOf(l)) = disk[NameOf(l)] /\ Adds(LineOf(l))
      BY DEF File, LineOf, MMULine, Adds
    <2>7. /\ Len(disk[NameOf(l)]) = Rest(l)
          /\ disk[NameOf(l)][i + 1] = <<l.file, l.from + i>>
      <3>1. Len(disk[NameOf(l)]) = Rest(l)
        BY <1>8, <2>1 DEF IsPart
      <3>2. i + 1 \in 1 .. Rest(l) /\ (i + 1) - 1 = i
        BY <1>7, <2>1
      <3> QED
        BY <1>8, <3>1, <3>2 DEF IsPart
    <2>8. at[j] \in 1 .. Len(outstring) /\ i \in 0 .. Len(File(LineOf(l))) - 1
      BY <1>1, <1>6, <2>1, <2>6, <2>7
    <2> QED
      BY <1>6, <2>3, <2>4, <2>5, <2>6, <2>7, <2>8, ByteInRam
  <1> QED
    BY <1>3, <1>6, <1>9

LEMMA AlwaysBuilt == Spec => []Built
  <1>1. Init => Built
    <2>1. Init => NexWritten /\ Honoured
      BY DEF Init, NexWritten, Honoured
    <2> QED
      BY <2>1, InitTyping, InitCfgWritten, InitFilesKept DEF Built
  <1>2. Built /\ [Next]_vars => Built'
    BY StepTyping, StepNexWritten, StepHonoured, StepCfgWritten, StepFilesKept DEF Built
  <1> QED
    BY <1>1, <1>2, PTL DEF Spec

\* Whatever the source loads and wherever the program crosses a 16K boundary, the
\* machine has the whole program where PC says it starts.
THEOREM CodeFound == Spec => []CodeInPlace
  BY AlwaysBuilt, BuiltCodeInPlace, PTL

\* When no line asks for a file called like a trimmed copy, each byte that a line
\* of a plain source asks for is in the machine where it asks for it, unless a later
\* line or the program covers it.
THEOREM LinesHonoured == ASSUME Apart PROVE Spec => []LoadedAsAskedPlain
  <1>1. Apart
    OBVIOUS
  <1>2. Built => LoadedAsAskedPlain
    BY <1>1, BuiltLoadedAsAsked
  <1> QED
    BY <1>2, AlwaysBuilt, PTL
=============================================================================
