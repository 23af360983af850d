-------------------------- MODULE NextlibIMProofs --------------------------
(***************************************************************************)
(* Theorems of NextlibIM, for any number of channels, any effects, banks   *)
(* and byte values, and wherever interrupts come: each invariant of the    *)
(* module holds.  That the right channel is chosen needs effects that are  *)
(* shorter than the low byte of their time.                                *)
(***************************************************************************)
EXTENDS NextlibIM, FiniteSetTheorems, TLAPS

\* The variables PlaySFX keeps in registers have their types too.
TypeInv ==
  /\ TypeOK
  /\ fx \in Effects \cup {Free}
  /\ DOMAIN kept = {1, 2}
  /\ best \in Byte \X Byte

\* Between checkints and the di that follows it, itbuff is what it found.
IntsInv ==
  /\ "stale_itbuff" \notin hits => iff = ints
  /\ pc \in {"InitSFX", "InitMusic"} => itbuff = iff

\* The effects are in slots 1 and 2 while a channel is searched and loaded.
Launching == {"time_low", "time_high", "store_low", "store_high", "zero_time_low", "zero_time_high"}

\* A bank is the program's own unless an interrupt spoiled the reading of slot 1.
Own(bank, s) == bank = OwnBanks[s] \/ (s = 1 /\ "slot_1" \in hits)

\* Slots not paged over hold the program's banks, and the operands that are going
\* to put slots back hold them too, because the right register was read.
SlotsInv ==
  /\ \A s \in {6, 7} : mmu[s] = IF "music" \in hits THEN s - 6 ELSE OwnBanks[s]
  /\ pc \notin Launching \cup {"back_51"} => Own(mmu[1], 1)
  /\ pc \notin Launching \cup {"back_51", "back_52", "tile_back"} => Own(mmu[2], 2)
  /\ pc \in Launching \cup {"read_52", "back_51"} => Own(kept[1], 1)
  /\ pc \in Launching \cup {"back_51", "back_52", "tile_back"} => Own(kept[2], 2)
  /\ pc = "read_51" => select = 1 \/ "slot_1" \in hits
  /\ pc \in {"read_52", "tile_read_52"} => select = 2

\* Unless an interrupt fell between the stores into a channel that played, only
\* the channel being loaded may have an address made of two.
LaunchInv ==
  "launch" \notin hits =>
     /\ \A c \in Channels :
          Playing(c) => chan[c].lo = chan[c].hi \/ (pc = "store_high" /\ c = found)
     /\ pc = "store_high" => chan[found].lo = fx

\* No effect plays so long that the low byte of its time is that of a free channel.
ShortEffects == MaxFrames <= Radix - 4

\* The time of a channel that plays counts its frames; a free one has $fdfd or $ffff.
Timed(c) ==
  IF Playing(c) THEN chan[c].thi = 0 /\ chan[c].tlo <= chan[c].age
  ELSE chan[c].tlo = chan[c].thi /\ chan[c].tlo \in {Radix - 1, Radix - 3}

\* The times are right but for what is left to zero in the channel being loaded.
TimesInv ==
  /\ pc \in {"read_51", "read_52"} \cup Launching => fx \in Effects
  /\ "ended" \notin hits =>
        \A c \in Channels :
          IF c = found /\ pc \in {"zero_time_low", "zero_time_high"}
          THEN Playing(c) /\ (pc = "zero_time_high" => chan[c].tlo <= chan[c].age)
          ELSE Timed(c)

\* Of the channels up to n, c is one PlaySFX may choose.
Longest(c, n) ==
  \A d \in 1 .. n : IF Playing(d) THEN Playing(c) => chan[d].tlo <= chan[c].tlo
                    ELSE ~ Playing(c)

Undisturbed == hits \cap {"search", "ended"} = {}

\* The search starts with the first channel and knows the best of those behind it.
SearchInv ==
  /\ pc \notin Launching \cup {"back_51", "back_52", "ReenableInts"} =>
        seek = 1 /\ best = <<0, 0>> /\ found = 1
  /\ pc \in {"time_low", "time_high"} /\ Undisturbed =>
        \/ seek = 1 /\ best = <<0, 0>> /\ found = 1
        \/ /\ seek > 1 /\ found \in 1 .. seek - 1
           /\ best = <<chan[found].tlo, chan[found].thi>>
           /\ Longest(found, seek - 1)
  /\ pc = "time_high" /\ Undisturbed => chan[seek].tlo >= best[1]
  /\ pc = "store_low" /\ Undisturbed => Longest(found, Last)

-----------------------------------------------------------------------------
(* Arithmetic of two-byte times.                                           *)

LEMMA Division ==
  ASSUME NEW R \in Nat, R > 0, NEW x \in Nat
  PROVE  /\ x % R \in 0 .. R - 1
         /\ x \div R \in Nat
         /\ x = R * (x \div R) + (x % R)
  OBVIOUS

LEMMA RadixTimesLess ==
  ASSUME NEW R \in Nat, NEW a \in Nat, NEW b \in Nat, a + 1 <= b
  PROVE  R * a + R <= R * b
  <1>1. PICK k \in Nat : b = a + 1 + k
    BY b - a - 1 \in Nat
  <1>2. R * b = R * a + R + R * k
    BY <1>1
  <1>3. R * k >= 0
    OBVIOUS
  <1> QED
    BY <1>2, <1>3

LEMMA HighByte ==
  ASSUME NEW R \in Nat, R > 0, NEW x \in Nat, x < R * R
  PROVE  x \div R \in 0 .. R - 1
  <1> DEFINE q == x \div R
  <1>1. q \in Nat /\ x = R * q + (x % R) /\ (x % R) >= 0
    BY Division
  <1>2. ~ (R <= q)
    <2> SUFFICES ASSUME R <= q PROVE FALSE
      OBVIOUS
    <2>1. PICK k \in Nat : q = R + k
      BY <1>1, q - R \in Nat
    <2>2. R * q = R * R + R * k
      BY <2>1
    <2> QED
      BY <1>1, <2>2
  <1> QED
    BY <1>1, <1>2

LEMMA LowAndHigh ==
  ASSUME NEW R \in Nat, R > 0, NEW a \in 0 .. R - 1, NEW b \in 0 .. R - 1
  PROVE  /\ a + R * b \in 0 .. R * R - 1
         /\ (a + R * b) % R = a
         /\ (a + R * b) \div R = b
  <1> DEFINE x == a + R * b
             q == x \div R
             r == x % R
  <1>1. x \in Nat
    OBVIOUS
  <1>2. r \in 0 .. R - 1 /\ q \in Nat /\ x = R * q + r
    BY <1>1, Division
  <1>3. ~ (q + 1 <= b) /\ ~ (b + 1 <= q)
    BY <1>2, RadixTimesLess
  <1>4. q = b
    BY <1>2, <1>3
  <1>5. R * b + R <= R * R
    BY RadixTimesLess
  <1> QED
    BY <1>1, <1>2, <1>4, <1>5

\* A frame of a time whose low byte is not full counts the low byte up.
LEMMA NextTime ==
  ASSUME NEW R \in Nat, R > 0, NEW a \in 0 .. R - 1, NEW b \in 0 .. R - 1
  PROVE  LET t == (a + R * b + 1) % (R * R)
         IN  /\ t % R \in 0 .. R - 1
             /\ t \div R \in 0 .. R - 1
             /\ a < R - 1 => t % R = a + 1 /\ t \div R = b
  <1> DEFINE t == (a + R * b + 1) % (R * R)
  <1>1. a + R * b + 1 \in Nat /\ R * R \in Nat /\ R * R > 0
    OBVIOUS
  <1>2. t \in 0 .. R * R - 1
    BY <1>1, Division
  <1>3. t % R \in 0 .. R - 1 /\ t \div R \in 0 .. R - 1
    BY <1>2, Division, HighByte
  <1>4. ASSUME a < R - 1
        PROVE  t % R = a + 1 /\ t \div R = b
    <2>1. a + 1 \in 0 .. R - 1
      BY <1>4
    <2>2. (a + 1) + R * b \in 0 .. R * R - 1
      BY <2>1, LowAndHigh
    <2>3. a + R * b + 1 = (a + 1) + R * b
      OBVIOUS
    <2>4. t = (a + 1) + R * b
      BY <1>1, <2>2, <2>3
    <2> QED
      BY <2>1, <2>4, LowAndHigh
  <1> QED
    BY <1>3, <1>4

-----------------------------------------------------------------------------
LEMMA Constants ==
  /\ Radix \in Nat /\ Radix > 3 /\ MaxFrames \in Nat
  /\ Last \in Nat /\ Last > 0 /\ Channels = 1 .. Last
  /\ Free \notin Effects /\ Astray \notin Effects
  /\ {0, Radix - 1, Radix - 3} \subseteq Byte
  <1>1. Last \in Nat
    BY SoundAssumption, FS_CardinalityType DEF Last
  <1>2. Channels = 1 .. Last /\ Channels # {}
    BY SoundAssumption DEF Last
  <1>3. Last > 0
    BY <1>1, <1>2
  <1> QED
    BY <1>1, <1>2, <1>3, SoundAssumption DEF Byte

\* A frame on a channel that plays: the effect goes on or ends.
LEMMA FramePlaying ==
  ASSUME NEW d \in Descriptor, d.hi # Free, NEW e \in Frames(d)
  PROVE  /\ e \in Descriptor
         /\ d.lo = d.hi => e.lo = d.lo
         /\ \/ e.hi = Free /\ e.tlo = Radix - 3 /\ e.thi = Radix - 3
            \/ /\ e.hi = d.hi /\ e.age = d.age + 1
               /\ d.tlo < Radix - 1 => e.tlo = d.tlo + 1 /\ e.thi = d.thi
  <1> DEFINE time == (d.tlo + Radix * d.thi + 1) % (Radix * Radix)
             lo == IF d.lo = d.hi THEN d.lo ELSE Astray
             on == [lo |-> lo, hi |-> d.hi, tlo |-> time % Radix, thi |-> time \div Radix,
                    age |-> d.age + 1]
             off == [lo |-> lo, hi |-> Free, tlo |-> Radix - 3, thi |-> Radix - 3, age |-> 0]
  <1>1. e = off \/ (e = on /\ d.age < MaxFrames)
    BY DEF Frames
  <1>2. /\ d.tlo \in 0 .. Radix - 1 /\ d.thi \in 0 .. Radix - 1 /\ d.age \in 0 .. MaxFrames
        /\ d.lo \in Effects \cup {Free, Astray} /\ d.hi \in Effects \cup {Free}
    BY DEF Descriptor, Byte
  <1>3. /\ time % Radix \in 0 .. Radix - 1
        /\ time \div Radix \in 0 .. Radix - 1
        /\ d.tlo < Radix - 1 => time % Radix = d.tlo + 1 /\ time \div Radix = d.thi
    <2>1. \A a, b \in 0 .. Radix - 1 :
            LET t == (a + Radix * b + 1) % (Radix * Radix)
            IN  /\ t % Radix \in 0 .. Radix - 1
                /\ t \div Radix \in 0 .. Radix - 1
                /\ a < Radix - 1 => t % Radix = a + 1 /\ t \div Radix = b
      BY NextTime, Constants
    <2> QED
      BY <1>2, <2>1, Zenon
  <1> HIDE DEF time
  <1>4. lo \in Effects \cup {Free, Astray} /\ (d.lo = d.hi => lo = d.lo)
    BY <1>2
  <1> HIDE DEF lo
  <1>5. CASE e = off
    BY <1>2, <1>4, <1>5, Constants DEF Descriptor
  <1>6. CASE e = on /\ d.age < MaxFrames
    <2>1. d.age + 1 \in 0 .. MaxFrames
      BY <1>2, <1>6, Constants
    <2>2. e \in Descriptor
      BY <1>2, <1>3, <1>4, <1>6, <2>1 DEF Descriptor, Byte
    <2>3. /\ e.lo = lo /\ e.hi = d.hi /\ e.age = d.age + 1
          /\ e.tlo = time % Radix /\ e.thi = time \div Radix
      BY <1>6
    <2> QED
      BY <1>3, <1>4, <2>2, <2>3
  <1> QED
    BY <1>1, <1>5, <1>6

\* What an interrupt does to the channels.
LEMMA Callback ==
  ASSUME TypeInv, CallbackSFX
  PROVE  /\ chan' \in [Channels -> Descriptor]
         /\ \A c \in Channels : chan'[c] \in Frames(chan[c]) \/ chan'[c] = chan[c]
         /\ \A c \in Channels : ~ Playing(c) => chan'[c] = chan[c]
         /\ ~ sfxOn => chan' = chan
  <1>1. chan \in [Channels -> Descriptor]
    BY DEF TypeInv, TypeOK
  <1>2. CASE ~ sfxOn
    BY <1>1, <1>2 DEF CallbackSFX
  <1>3. CASE sfxOn
    <2>1. /\ chan' \in [Channels -> UNION {Frames(chan[c]) : c \in Channels}]
          /\ \A c \in Channels : chan'[c] \in Frames(chan[c])
      BY <1>3, Zenon DEF CallbackSFX
    <2>2. \A c \in Channels : ~ Playing(c) => chan'[c] = chan[c]
      BY <2>1 DEF Frames, Playing
    <2>3. \A c \in Channels : chan'[c] \in Descriptor
      BY <1>1, <2>1, <2>2, FramePlaying DEF Playing
    <2> QED
      BY <1>3, <2>1, <2>2, <2>3
  <1> QED
    BY <1>2, <1>3

LEMMA TypeInit == Init => TypeInv
  <1> SUFFICES ASSUME Init PROVE TypeInv
    OBVIOUS
  <1>1. {iff, itbuff, sfxOn, ints} \subseteq BOOLEAN
    BY Zenon DEF Init
  <1>2. Empty \in Descriptor
    BY Constants DEF Empty, Descriptor
  <1>3. chan \in [Channels -> Descriptor]
    BY <1>2 DEF Init
  <1>4. DOMAIN mmu = Slots
    BY SoundAssumption DEF Init
  <1>5. {seek, found} \subseteq Channels
    BY Constants DEF Init
  <1>6. select \in Slots /\ music \in 0 .. 2
    BY DEF Init, Slots
  <1>7. fx \in Effects \cup {Free} /\ DOMAIN kept = {1, 2} /\ best \in Byte \X Byte
    BY Constants DEF Init
  <1> QED
    BY <1>1, <1>3, <1>4, <1>5, <1>6, <1>7 DEF TypeInv, TypeOK

\* What PlaySFX stores leaves a descriptor a descriptor.
LEMMA StoredTypes ==
  ASSUME NEW d \in Descriptor, NEW f \in Effects \cup {Free}
  PROVE  /\ [d EXCEPT !.lo = f] \in Descriptor
         /\ [d EXCEPT !.hi = f, !.age = 0] \in Descriptor
         /\ [d EXCEPT !.tlo = 0] \in Descriptor
         /\ [d EXCEPT !.thi = 0] \in Descriptor
  <1>1. 0 \in Byte /\ 0 \in 0 .. MaxFrames
    BY Constants
  <1>2. [d EXCEPT !.lo = f] \in Descriptor
    BY DEF Descriptor
  <1>3. [d EXCEPT !.hi = f, !.age = 0] \in Descriptor
    BY <1>1 DEF Descriptor
  <1>4. [d EXCEPT !.tlo = 0] \in Descriptor
    BY <1>1 DEF Descriptor
  <1>5. [d EXCEPT !.thi = 0] \in Descriptor
    BY <1>1 DEF Descriptor
  <1> QED
    BY <1>2, <1>3, <1>4, <1>5

LEMMA NextChannelType ==
  ASSUME TypeInv, NextChannel
  PROVE  seek' \in Channels
  <1>1. seek \in 1 .. Last
    BY Constants DEF TypeInv, TypeOK
  <1>2. seek' = IF seek < Last THEN seek + 1 ELSE 1
    BY DEF NextChannel
  <1> QED
    BY <1>1, <1>2, Constants

LEMMA TypeStep == TypeInv /\ [Next]_vars => TypeInv'
  <1> SUFFICES ASSUME TypeInv, [Next]_vars PROVE TypeInv'
    OBVIOUS
  <1> USE DEF TypeInv, TypeOK, hardware, flags, play, history, Goto
  <1>1. CASE Interrupt
    <2>1. chan' \in [Channels -> Descriptor]
      BY <1>1, Callback DEF Interrupt
    <2>2. DOMAIN mmu' = Slots
      BY <1>1 DEF Interrupt, PlayMusic, PageAndBack
    <2>3. select' \in Slots /\ music' \in 0 .. 2
      BY <1>1 DEF Interrupt, LastSelect, Slots
    <2>4. UNCHANGED <<iff, itbuff, sfxOn, play, ints>>
      BY <1>1, Zenon DEF Interrupt
    <2> QED
      BY <2>1, <2>2, <2>3, <2>4
  <1>2. CASE SwitchInterrupts \/ SetUpIM \/ SwitchSFX \/ SwitchMusic
    <2>1. {iff, itbuff, sfxOn, ints}' \subseteq BOOLEAN
      BY <1>2, Zenon DEF SwitchInterrupts, SetUpIM, SwitchSFX, SwitchMusic
    <2>2. music' \in 0 .. 2
      BY <1>2 DEF SwitchInterrupts, SetUpIM, SwitchSFX, SwitchMusic
    <2>3. UNCHANGED <<mmu, select, chan, play>>
      BY <1>2, Zenon DEF SwitchInterrupts, SetUpIM, SwitchSFX, SwitchMusic
    <2> QED
      BY <2>1, <2>2, <2>3
  <1>3. ASSUME NEW routine \in {"InitSFX", "InitMusic"}, CheckInts(routine)
        PROVE  TypeInv'
    <2>1. {iff, itbuff, sfxOn, ints}' \subseteq BOOLEAN
      BY <1>3, Zenon DEF CheckInts
    <2>2. UNCHANGED <<mmu, select, music, chan, play>>
      BY <1>3, Zenon DEF CheckInts
    <2> QED
      BY <2>1, <2>2
  <1>4. CASE InitSFX \/ InitMusic
    <2>1. {iff, itbuff, sfxOn, ints}' \subseteq BOOLEAN
      BY <1>4, Zenon DEF InitSFX, InitMusic, ReenableInts
    <2>2. DOMAIN mmu' = Slots /\ select' \in Slots
      BY <1>4 DEF InitSFX, InitMusic, PageAndBack, Slots
    <2>3. chan' \in [Channels -> Descriptor]
      <3>1. Empty \in Descriptor
        BY Constants DEF Empty, Descriptor
      <3>2. chan' = [c \in Channels |-> Empty] \/ chan' = chan
        BY <1>4, Zenon DEF InitSFX, InitMusic
      <3>3. chan \in [Channels -> Descriptor]
        OBVIOUS
      <3> HIDE DEF TypeInv, TypeOK
      <3> QED
        BY <3>1, <3>2, <3>3
    <2>4. UNCHANGED <<music, play>>
      BY <1>4, Zenon DEF InitSFX, InitMusic
    <2> QED
      BY <2>1, <2>2, <2>3, <2>4
  <1>5. CASE TileSelect \/ TileRead \/ TileBack
    <2>1. UNCHANGED <<iff, flags, chan, ints, fx, seek, best, found>>
      BY <1>5, Zenon DEF TileSelect, TileRead, TileBack
    <2>2. DOMAIN mmu' = Slots /\ select' \in Slots /\ DOMAIN kept' = {1, 2}
      BY <1>5 DEF TileSelect, TileRead, TileBack, PageAndBack, Slots
    <2> QED
      BY <2>1, <2>2
  <1>6. ASSUME NEW f \in Effects, PlaySFX(f)
        PROVE  TypeInv'
    <2>1. UNCHANGED <<mmu, iff, flags, chan, kept, seek, best, found, history>>
      BY <1>6, Zenon DEF PlaySFX
    <2>2. fx' \in Effects \cup {Free} /\ select' \in Slots
      BY <1>6 DEF PlaySFX, Slots
    <2> QED
      BY <2>1, <2>2
  <1>7. CASE Read51 \/ Read52
    <2>1. UNCHANGED <<iff, flags, chan, fx, seek, best, found, history>>
      BY <1>7, Zenon DEF Read51, Read52
    <2>2. DOMAIN mmu' = Slots /\ select' \in Slots /\ DOMAIN kept' = {1, 2}
      BY <1>7 DEF Read51, Read52, PageAndBack, Slots
    <2> QED
      BY <2>1, <2>2
  <1>8. CASE TimeLow \/ TimeHigh
    <2>1. UNCHANGED <<hardware, flags, chan, fx, kept, history>>
      BY <1>8, Zenon DEF TimeLow, TimeHigh
    <2>2. seek' \in Channels
      BY <1>8, NextChannelType DEF TimeLow, TimeHigh
    <2>3. found' \in Channels
      BY <1>8 DEF TimeLow, TimeHigh
    <2>4. chan[seek].tlo \in Byte /\ chan[seek].thi \in Byte
      BY DEF Descriptor
    <2>5. best' = best \/ best' = <<chan[seek].tlo, chan[seek].thi>>
      BY <1>8, Zenon DEF TimeLow, TimeHigh
    <2>6. best' \in Byte \X Byte
      BY <2>4, <2>5
    <2> QED
      BY <2>1, <2>2, <2>3, <2>6
  <1>9. CASE StoreLow \/ StoreHigh \/ ZeroTimeLow \/ ZeroTimeHigh
    <2>1. UNCHANGED <<hardware, flags, play, history>>
      BY <1>9, Zenon DEF StoreLow, StoreHigh, ZeroTimeLow, ZeroTimeHigh
    <2>2. chan' \in [Channels -> Descriptor]
      <3>1. \A d \in Descriptor : /\ [d EXCEPT !.lo = fx] \in Descriptor
                                  /\ [d EXCEPT !.hi = fx, !.age = 0] \in Descriptor
                                  /\ [d EXCEPT !.tlo = 0] \in Descriptor
                                  /\ [d EXCEPT !.thi = 0] \in Descriptor
        BY StoredTypes
      <3>2. chan[found] \in Descriptor
        OBVIOUS
      <3>3. CASE StoreLow
        BY <3>1, <3>2, <3>3 DEF StoreLow
      <3>4. CASE StoreHigh
        BY <3>1, <3>2, <3>4 DEF StoreHigh
      <3>5. CASE ZeroTimeLow
        BY <3>1, <3>2, <3>5 DEF ZeroTimeLow
      <3>6. CASE ZeroTimeHigh
        BY <3>1, <3>2, <3>6 DEF ZeroTimeHigh
      <3> QED
        BY <1>9, <3>3, <3>4, <3>5, <3>6
    <2> QED
      BY <2>1, <2>2
  <1>10. CASE Back51 \/ Back52
    <2>1. UNCHANGED <<select, iff, flags, chan, play, history>>
      BY <1>10, Zenon DEF Back51, Back52
    <2>2. DOMAIN mmu' = Slots
      BY <1>10 DEF Back51, Back52
    <2> QED
      BY <2>1, <2>2
  <1>11. CASE PlayReturns
    <2>1. {iff, itbuff, sfxOn, ints}' \subseteq BOOLEAN
      BY <1>11, Zenon DEF PlayReturns
    <2>2. UNCHANGED <<mmu, select, music, chan>>
      BY <1>11, Zenon DEF PlayReturns
    <2>3. /\ fx' = Free /\ kept' = [s \in {1, 2} |-> 0]
          /\ seek' = 1 /\ best' = <<0, 0>> /\ found' = 1
      BY <1>11, Zenon DEF PlayReturns
    <2>4. {seek, found}' \subseteq Channels /\ best' \in Byte \X Byte
      BY <2>3, Constants
    <2>5. fx' \in Effects \cup {Free} /\ DOMAIN kept' = {1, 2}
      BY <2>3
    <2> QED
      BY <2>1, <2>2, <2>4, <2>5
  <1>12. CASE UNCHANGED vars
    BY <1>12 DEF vars
  <1> QED
    BY <1>1, <1>2, <1>3, <1>4, <1>5, <1>6, <1>7, <1>8, <1>9, <1>10, <1>11, <1>12, Zenon
       DEF Next, Program

\* Every byte of a descriptor, the select port and the search of PlaySFX stay
\* in their ranges: the search never looks behind the last channel.
THEOREM SoundTypeCorrect == Spec => []TypeOK
  <1>1. TypeInv => TypeOK
    BY DEF TypeInv
  <1> QED
    BY <1>1, TypeInit, TypeStep, PTL DEF Spec

LEMMA TypeAlways == Spec => []TypeInv
  BY TypeInit, TypeStep, PTL DEF Spec

-----------------------------------------------------------------------------
(* Interrupts are left as the program set them.                            *)

LEMMA IntsInit == Init => IntsInv
  BY DEF Init, IntsInv

LEMMA IntsStep == TypeInv /\ IntsInv /\ [Next]_vars => IntsInv'
  <1> SUFFICES ASSUME TypeInv, IntsInv, [Next]_vars PROVE IntsInv'
    OBVIOUS
  <1> USE DEF IntsInv, Idle, Goto, hardware, flags, play, history
  <1>1. CASE Interrupt
    <2>1. UNCHANGED <<iff, itbuff, ints, pc>> /\ hits' = hits \cup Windows
      BY <1>1 DEF Interrupt
    <2>2. "stale_itbuff" \notin hits' => "stale_itbuff" \notin hits
      BY <2>1
    <2> QED
      BY <2>1, <2>2, Zenon
  <1>2. CASE SwitchInterrupts
    BY <1>2, Zenon DEF SwitchInterrupts
  <1>3. CASE SetUpIM
    BY <1>3, Zenon DEF SetUpIM
  <1>4. ASSUME NEW routine \in {"InitSFX", "InitMusic"}, CheckInts(routine)
        PROVE  IntsInv'
    BY <1>4, Zenon DEF CheckInts
  <1>5. CASE InitSFX \/ InitMusic
    <2>1. pc \in {"InitSFX", "InitMusic"} /\ pc' = "idle" /\ iff' = itbuff
      BY <1>5, Zenon DEF InitSFX, InitMusic, ReenableInts
    <2>2. UNCHANGED <<itbuff, ints, hits>>
      BY <1>5, Zenon DEF InitSFX, InitMusic
    <2> QED
      BY <2>1, <2>2, Zenon
  <1>6. CASE PlayReturns
    <2>1. pc' = "idle" /\ ints' = ints /\ iff' = (iff \/ itbuff)
      BY <1>6, Zenon DEF PlayReturns, ReenableInts
    <2>2. CASE itbuff /\ ~ iff
      <3>1. hits' = hits \cup {"stale_itbuff"}
        BY <1>6, <2>2, Zenon DEF PlayReturns, ReenableInts
      <3> QED
        BY <2>1, <3>1
    <2>3. CASE ~ (itbuff /\ ~ iff)
      <3>1. hits' = hits
        BY <1>6, <2>3, Zenon DEF PlayReturns, ReenableInts
      <3>2. iff \in BOOLEAN /\ itbuff \in BOOLEAN
        BY DEF TypeInv, TypeOK
      <3>3. iff' = iff
        BY <2>1, <2>3, <3>2, Zenon
      <3> QED
        BY <2>1, <3>1, <3>3
    <2> QED
      BY <2>2, <2>3
  <1>7. ASSUME UNCHANGED <<iff, itbuff, ints, hits>>, pc' \notin {"InitSFX", "InitMusic"} \/ pc' = pc
        PROVE  IntsInv'
    BY <1>7, Zenon
  <1>8. CASE SwitchSFX \/ SwitchMusic \/ TileSelect \/ TileRead \/ TileBack \/ Read51 \/ Read52
    BY <1>7, <1>8, Zenon DEF SwitchSFX, SwitchMusic, TileSelect, TileRead, TileBack, Read51, Read52
  <1>9. ASSUME NEW f \in Effects, PlaySFX(f)
        PROVE  IntsInv'
    BY <1>7, <1>9, Zenon DEF PlaySFX
  <1>10. CASE TimeLow \/ TimeHigh
    <2>1. UNCHANGED <<iff, itbuff, ints, hits>>
      BY <1>10, Zenon DEF TimeLow, TimeHigh
    <2>2. pc' \notin {"InitSFX", "InitMusic"}
      BY <1>10 DEF TimeLow, TimeHigh, NextChannel
    <2> QED
      BY <1>7, <2>1, <2>2
  <1>11. CASE StoreLow \/ StoreHigh \/ ZeroTimeLow \/ ZeroTimeHigh \/ Back51 \/ Back52
    BY <1>7, <1>11, Zenon DEF StoreLow, StoreHigh, ZeroTimeLow, ZeroTimeHigh, Back51, Back52
  <1>12. CASE UNCHANGED vars
    BY <1>7, <1>12, Zenon DEF vars
  <1> QED
    BY <1>1, <1>2, <1>3, <1>4, <1>5, <1>6, <1>8, <1>9, <1>10, <1>11, <1>12, Zenon
       DEF Next, Program

\* The library leaves interrupts as the program set them, wherever they come,
\* but for what PlaySFX makes of an itbuff left over from another call.
THEOREM SoundInterruptsKept == Spec => []InterruptsKept
  <1>1. IntsInv => InterruptsKept
    BY DEF IntsInv, InterruptsKept
  <1> QED
    BY <1>1, TypeAlways, IntsInit, IntsStep, PTL DEF Spec

-----------------------------------------------------------------------------
(* The slots are put back.                                                 *)

LEMMA SlotsInit == Init => SlotsInv
  BY DEF Init, SlotsInv, Own, Launching

LEMMA Paging ==
  ASSUME NEW slots, NEW banks, NEW back, NEW s \in Slots, s \notin DOMAIN banks \/ s \in back
  PROVE  PageAndBack(slots, banks, back)[s] = slots[s]
  BY DEF PageAndBack

\* The music routine keeps slots 1 and 2 and leaves banks 0 and 1 in 6 and 7.
LEMMA PlayMusicSlots ==
  ASSUME NEW slots
  PROVE  /\ PlayMusic(slots)[1] = slots[1] /\ PlayMusic(slots)[2] = slots[2]
         /\ music = 0 => PlayMusic(slots)[6] = slots[6] /\ PlayMusic(slots)[7] = slots[7]
         /\ music # 0 => PlayMusic(slots)[6] = 0 /\ PlayMusic(slots)[7] = 1
  <1>1. CASE music = 0
    BY <1>1 DEF PlayMusic
  <1>2. CASE music # 0
    <2> DEFINE paged == PageAndBack(slots, SongBanks, {2})
    <2>1. PlayMusic(slots) = [paged EXCEPT ![6] = 0, ![7] = 1]
      BY <1>2 DEF PlayMusic
    <2>2. paged[1] = slots[1] /\ paged[2] = slots[2]
      BY Paging, SoundAssumption DEF Slots
    <2>3. DOMAIN paged = {1, 2, 6, 7}
      BY DEF PageAndBack, Slots
    <2> HIDE DEF paged
    <2> QED
      BY <1>2, <2>1, <2>2, <2>3
  <1> QED
    BY <1>1, <1>2

\* An interrupt leaves slots 1 and 2 alone, and 6 and 7 unless it plays music; the
\* select port it leaves at 2.
LEMMA SlotsInterrupt == TypeInv /\ SlotsInv /\ Interrupt => SlotsInv'
  <1> SUFFICES ASSUME TypeInv, SlotsInv, Interrupt PROVE SlotsInv'
    OBVIOUS
  <1>1. DOMAIN mmu = Slots
    BY DEF TypeInv, TypeOK
  <1>2. UNCHANGED <<pc, kept>> /\ hits \subseteq hits'
    BY DEF Interrupt, play
  <1> DEFINE effects == IF sfxOn THEN PageAndBack(mmu, SfxBanks, {1, 2}) ELSE mmu
  <1>3. \A s \in Slots : effects[s] = mmu[s]
    <2>1. \A s \in Slots : PageAndBack(mmu, SfxBanks, {1, 2})[s] = mmu[s]
      BY Paging, SoundAssumption
    <2> QED
      BY <2>1
  <1>4. mmu' = PlayMusic(effects)
    BY DEF Interrupt
  <1> HIDE DEF effects
  <1>5. /\ mmu'[1] = mmu[1] /\ mmu'[2] = mmu[2]
        /\ music = 0 => mmu'[6] = mmu[6] /\ mmu'[7] = mmu[7]
        /\ music # 0 => mmu'[6] = 0 /\ mmu'[7] = 1
    BY <1>3, <1>4, PlayMusicSlots DEF Slots
  <1>6. /\ pc = "read_51" => select' = 1 \/ "slot_1" \in hits'
        /\ "music" \in hits' <=> "music" \in hits \/ music # 0
    BY DEF Interrupt, Windows
  <1>7. select = 2 => select' = 2
    BY DEF Interrupt, LastSelect
  <1> QED
    BY <1>2, <1>5, <1>6, <1>7 DEF SlotsInv, Own, Launching

LEMMA SlotsStep == TypeInv /\ SlotsInv /\ [Next]_vars => SlotsInv'
  <1> SUFFICES ASSUME TypeInv, SlotsInv, [Next]_vars PROVE SlotsInv'
    OBVIOUS
  <1> USE DEF hardware, flags, play, history, Idle, Goto
  <1>0. DOMAIN mmu = Slots /\ DOMAIN kept = {1, 2}
    BY DEF TypeInv, TypeOK
  <1>1. CASE Interrupt
    BY <1>1, SlotsInterrupt
  <1>2. CASE SwitchInterrupts \/ SetUpIM \/ SwitchSFX \/ SwitchMusic
    <2>1. UNCHANGED <<mmu, select, pc, kept, hits>>
      BY <1>2, Zenon DEF SwitchInterrupts, SetUpIM, SwitchSFX, SwitchMusic
    <2> QED
      BY <2>1 DEF SlotsInv, Own
  <1>3. ASSUME NEW routine \in {"InitSFX", "InitMusic"}, CheckInts(routine)
        PROVE  SlotsInv'
    <2>1. UNCHANGED <<mmu, hits>> /\ pc = "idle" /\ pc' \in {"InitSFX", "InitMusic"}
      BY <1>3, Zenon DEF CheckInts
    <2> QED
      BY <2>1 DEF SlotsInv, Own, Launching
  <1>4. CASE InitSFX \/ InitMusic
    <2>1. UNCHANGED <<hits>> /\ pc \in {"InitSFX", "InitMusic"} /\ pc' = "idle"
      BY <1>4, Zenon DEF InitSFX, InitMusic
    <2>2. \A s \in Slots : mmu'[s] = mmu[s]
      BY <1>4, SoundAssumption DEF InitSFX, InitMusic, PageAndBack
    <2> QED
      BY <2>1, <2>2 DEF SlotsInv, Own, Launching, Slots
  <1>5. CASE TileSelect
    BY <1>5 DEF TileSelect, SlotsInv, Own, Launching
  <1>6. CASE TileRead
    <2>1. UNCHANGED <<hits>> /\ pc = "tile_read_52" /\ pc' = "tile_back"
      BY <1>6, Zenon DEF TileRead
    <2>2. kept'[2] = mmu[2]
      BY <1>0, <1>6 DEF TileRead, SlotsInv
    <2>3. mmu' = PageAndBack(mmu, TileBanks, {})
      BY <1>6 DEF TileRead
    <2>4. \A s \in {1, 6, 7} : mmu'[s] = mmu[s]
      BY <2>3, Paging, SoundAssumption DEF Slots
    <2> QED
      BY <2>1, <2>2, <2>4 DEF SlotsInv, Own, Launching
  <1>7. CASE TileBack
    BY <1>0, <1>7 DEF TileBack, SlotsInv, Own, Launching, Slots
  <1>8. ASSUME NEW f \in Effects, PlaySFX(f)
        PROVE  SlotsInv'
    <2>1. UNCHANGED <<mmu, hits>> /\ pc = "idle" /\ pc' = "read_51" /\ select' = 1
      BY <1>8, Zenon DEF PlaySFX
    <2> QED
      BY <2>1 DEF SlotsInv, Own, Launching
  <1>9. CASE Read51
    <2>1. UNCHANGED <<mmu, hits>> /\ pc = "read_51" /\ pc' = "read_52" /\ select' = 2
      BY <1>9, Zenon DEF Read51
    <2>2. kept'[1] = mmu[1] \/ "slot_1" \in hits
      BY <1>0, <1>9 DEF Read51, SlotsInv
    <2> QED
      BY <2>1, <2>2 DEF SlotsInv, Own, Launching
  <1>10. CASE Read52
    <2>1. UNCHANGED <<hits>> /\ pc = "read_52" /\ pc' = "time_low"
      BY <1>10, Zenon DEF Read52
    <2>2. kept' = [kept EXCEPT ![2] = mmu[2]]
      BY <1>10 DEF Read52, SlotsInv
    <2>3. kept'[2] = mmu[2] /\ kept'[1] = kept[1]
      BY <1>0, <2>2
    <2>4. mmu' = PageAndBack(mmu, SfxBanks, {})
      BY <1>10 DEF Read52
    <2>5. \A s \in {6, 7} : mmu'[s] = mmu[s]
      BY <2>4, Paging, SoundAssumption DEF Slots
    <2> QED
      BY <2>1, <2>3, <2>5 DEF SlotsInv, Own, Launching
  <1>11. ASSUME UNCHANGED <<mmu, hits, kept>>, pc \in Launching, pc' \in Launching \cup {"back_51"}
         PROVE  SlotsInv'
    BY <1>11 DEF SlotsInv, Own, Launching
  <1>12. CASE TimeLow \/ TimeHigh
    <2>1. UNCHANGED <<mmu, hits, kept>>
      BY <1>12, Zenon DEF TimeLow, TimeHigh
    <2>2. pc \in Launching /\ pc' \in Launching
      BY <1>12 DEF TimeLow, TimeHigh, NextChannel, Launching
    <2> QED
      BY <1>11, <2>1, <2>2
  <1>13. CASE StoreLow \/ StoreHigh \/ ZeroTimeLow \/ ZeroTimeHigh
    <2>1. UNCHANGED <<mmu, hits, kept>>
      BY <1>13, Zenon DEF StoreLow, StoreHigh, ZeroTimeLow, ZeroTimeHigh
    <2>2. pc \in Launching /\ pc' \in Launching \cup {"back_51"}
      BY <1>13 DEF StoreLow, StoreHigh, ZeroTimeLow, ZeroTimeHigh, Launching
    <2> QED
      BY <1>11, <2>1, <2>2
  <1>14. CASE Back51
    BY <1>0, <1>14 DEF Back51, SlotsInv, Own, Launching, Slots
  <1>15. CASE Back52
    BY <1>0, <1>15 DEF Back52, SlotsInv, Own, Launching, Slots
  <1>16. CASE PlayReturns
    <2>1. mmu' = mmu /\ pc = "ReenableInts" /\ pc' = "idle"
      BY <1>16, Zenon DEF PlayReturns
    <2>2. hits \subseteq hits' /\ ("music" \in hits' => "music" \in hits)
      BY <1>16 DEF PlayReturns
    <2> QED
      BY <2>1, <2>2 DEF SlotsInv, Own, Launching
  <1>17. CASE UNCHANGED vars
    BY <1>17 DEF vars, SlotsInv, Own
  <1> QED
    BY <1>1, <1>2, <1>3, <1>4, <1>5, <1>6, <1>7, <1>8, <1>9, <1>10, <1>12, <1>13, <1>14, <1>15,
       <1>16, <1>17, Zenon DEF Next, Program

\* Whatever interrupts do to the select port, the program finds its own banks
\* in slots 1 and 2 again, but for slot 1 read with an interrupt in between; in
\* slots 6 and 7 it finds them until an interrupt has played music, and banks 0
\* and 1 from then on.
THEOREM SoundSlotsKept == Spec => []SlotsKept
  <1>1. SlotsInv => SlotsKept
    BY DEF SlotsInv, SlotsKept, Own, Launching, Idle, Slots
  <1> QED
    BY <1>1, TypeAlways, SlotsInit, SlotsStep, PTL DEF Spec

-----------------------------------------------------------------------------
(* Effects start at their own address.                                     *)

LEMMA LaunchInit == Init => LaunchInv
  BY Constants DEF Init, LaunchInv, Empty, Playing

\* A frame keeps the address bytes of a channel together; it parts those of the
\* channel being loaded only if that channel plays, which is a hit.
LEMMA LaunchInterrupt == TypeInv /\ LaunchInv /\ Interrupt => LaunchInv'
  <1> SUFFICES ASSUME TypeInv, LaunchInv, Interrupt, "launch" \notin hits'
               PROVE  /\ \A c \in Channels :
                           Playing(c)' => chan'[c].lo = chan'[c].hi \/ (pc = "store_high" /\ c = found)
                      /\ pc = "store_high" => chan'[found].lo = fx
    BY DEF LaunchInv, Interrupt, play
  <1>1. hits' = hits \cup Windows /\ CallbackSFX
    BY DEF Interrupt
  <1>2. "launch" \notin hits /\ ~ (pc = "store_high" /\ sfxOn /\ Playing(found))
    BY <1>1 DEF Windows
  <1>3. /\ chan \in [Channels -> Descriptor] /\ found \in Channels
        /\ \A c \in Channels : chan'[c] \in Frames(chan[c]) \/ chan'[c] = chan[c]
        /\ \A c \in Channels : ~ Playing(c) => chan'[c] = chan[c]
        /\ ~ sfxOn => chan' = chan
    BY <1>1, Callback DEF TypeInv, TypeOK
  <1>4. ASSUME NEW c \in Channels, Playing(c)', ~ (pc = "store_high" /\ c = found)
        PROVE  chan'[c].lo = chan'[c].hi
    <2>1. Playing(c)
      BY <1>3, <1>4 DEF Playing
    <2>2. chan[c].lo = chan[c].hi
      BY <1>2, <1>4, <2>1 DEF LaunchInv
    <2>3. CASE chan'[c] \in Frames(chan[c])
      BY <1>3, <1>4, <2>1, <2>2, <2>3, FramePlaying DEF Playing
    <2> QED
      BY <1>3, <2>2, <2>3
  <1>5. ASSUME pc = "store_high"
        PROVE  chan'[found].lo = fx
    <2>1. chan'[found] = chan[found]
      BY <1>2, <1>3, <1>5
    <2> QED
      BY <1>2, <1>5, <2>1 DEF LaunchInv
  <1> QED
    BY <1>4, <1>5

LEMMA LaunchStep == TypeInv /\ LaunchInv /\ [Next]_vars => LaunchInv'
  <1> SUFFICES ASSUME TypeInv, LaunchInv, [Next]_vars PROVE LaunchInv'
    OBVIOUS
  <1> USE DEF hardware, flags, play, history, Idle, Goto
  <1>0. chan \in [Channels -> Descriptor] /\ found \in Channels
    BY DEF TypeInv, TypeOK
  <1>1. CASE Interrupt
    BY <1>1, LaunchInterrupt
  <1>2. ASSUME chan' = chan, hits \subseteq hits', pc # "store_high", pc' # "store_high"
        PROVE  LaunchInv'
    BY <1>2 DEF LaunchInv, Playing
  <1>3. ASSUME UNCHANGED <<chan, hits, pc, found, fx>>
        PROVE  LaunchInv'
    BY <1>3 DEF LaunchInv, Playing
  <1>4. CASE SwitchInterrupts \/ SetUpIM \/ SwitchSFX \/ SwitchMusic
    BY <1>3, <1>4, Zenon DEF SwitchInterrupts, SetUpIM, SwitchSFX, SwitchMusic
  <1>5. ASSUME NEW routine \in {"InitSFX", "InitMusic"}, CheckInts(routine)
        PROVE  LaunchInv'
    <2>1. UNCHANGED <<chan, hits>> /\ pc = "idle" /\ pc' \in {"InitSFX", "InitMusic"}
      BY <1>5, Zenon DEF CheckInts
    <2> QED
      BY <1>2, <2>1
  <1>6. CASE InitSFX
    BY <1>6, Constants DEF InitSFX, LaunchInv, Playing, Empty
  <1>7. CASE InitMusic \/ TileSelect \/ TileRead \/ TileBack \/ Read51 \/ Read52 \/ Back51 \/ Back52
    <2>1. UNCHANGED <<chan, hits>>
      BY <1>7, Zenon DEF InitMusic, TileSelect, TileRead, TileBack, Read51, Read52, Back51, Back52
    <2>2. pc # "store_high" /\ pc' # "store_high"
      BY <1>7 DEF InitMusic, TileSelect, TileRead, TileBack, Read51, Read52, Back51, Back52
    <2> QED
      BY <1>2, <2>1, <2>2
  <1>8. ASSUME NEW f \in Effects, PlaySFX(f)
        PROVE  LaunchInv'
    <2>1. UNCHANGED <<chan, hits>> /\ pc = "idle" /\ pc' = "read_51"
      BY <1>8, Zenon DEF PlaySFX
    <2> QED
      BY <1>2, <2>1
  <1>9. CASE TimeLow \/ TimeHigh
    <2>1. UNCHANGED <<chan, hits>>
      BY <1>9, Zenon DEF TimeLow, TimeHigh
    <2>2. pc # "store_high" /\ pc' # "store_high"
      BY <1>9 DEF TimeLow, TimeHigh, NextChannel
    <2> QED
      BY <1>2, <2>1, <2>2
  <1>10. CASE StoreLow
    <2>1. UNCHANGED <<hits, found, fx>> /\ pc = "store_low" /\ pc' = "store_high"
      BY <1>10, Zenon DEF StoreLow
    <2>2. chan' = [chan EXCEPT ![found].lo = fx]
      BY <1>10 DEF StoreLow
    <2>3. chan'[found].lo = fx /\ \A c \in Channels \ {found} : chan'[c] = chan[c]
      BY <1>0, <2>2 DEF Descriptor
    <2> QED
      BY <2>1, <2>3 DEF LaunchInv, Playing
  <1>11. CASE StoreHigh
    <2>1. UNCHANGED <<hits, found, fx>> /\ pc = "store_high" /\ pc' = "zero_time_low"
      BY <1>11, Zenon DEF StoreHigh
    <2>2. chan' = [chan EXCEPT ![found].hi = fx, ![found].age = 0]
      BY <1>11 DEF StoreHigh
    <2>3. /\ chan'[found].lo = chan[found].lo /\ chan'[found].hi = fx
          /\ \A c \in Channels \ {found} : chan'[c] = chan[c]
      BY <1>0, <2>2 DEF Descriptor
    <2> QED
      BY <2>1, <2>3 DEF LaunchInv, Playing
  <1>12. CASE ZeroTimeLow \/ ZeroTimeHigh
    <2>1. UNCHANGED hits /\ pc \in {"zero_time_low", "zero_time_high"} /\ pc' # "store_high"
      BY <1>12 DEF ZeroTimeLow, ZeroTimeHigh
    <2>2. chan' = [chan EXCEPT ![found].tlo = 0] \/ chan' = [chan EXCEPT ![found].thi = 0]
      BY <1>12, Zenon DEF ZeroTimeLow, ZeroTimeHigh
    <2>3. \A c \in Channels : chan'[c].lo = chan[c].lo /\ chan'[c].hi = chan[c].hi
      BY <1>0, <2>2 DEF Descriptor
    <2> QED
      BY <2>1, <2>3 DEF LaunchInv, Playing
  <1>13. CASE PlayReturns
    <2>1. chan' = chan /\ hits \subseteq hits'
      BY <1>13 DEF PlayReturns
    <2>2. pc = "ReenableInts" /\ pc' = "idle"
      BY <1>13, Zenon DEF PlayReturns
    <2> QED
      BY <1>2, <2>1, <2>2
  <1>14. CASE UNCHANGED vars
    BY <1>3, <1>14, Zenon DEF vars
  <1> QED
    BY <1>1, <1>4, <1>5, <1>6, <1>7, <1>8, <1>9, <1>10, <1>11, <1>12, <1>13, <1>14, Zenon
       DEF Next, Program

\* No channel ever plays from an address made of two effects, but for an
\* interrupt between the two stores of PlaySFX into a channel that played.
THEOREM SoundLaunchWhole == Spec => []LaunchWhole
  <1>1. LaunchInv => LaunchWhole
    BY DEF LaunchInv, LaunchWhole, Idle
  <1> QED
    BY <1>1, TypeAlways, LaunchInit, LaunchStep, PTL DEF Spec

-----------------------------------------------------------------------------
(* The right channel is chosen.                                            *)

LEMMA TimesInit == Init => TimesInv
  BY Constants DEF Init, TimesInv, Timed, Empty, Playing, Launching

\* A frame of a short effect counts the time of its channel up by one.
LEMMA TimesInterrupt == ShortEffects /\ TypeInv /\ TimesInv /\ Interrupt => TimesInv'
  <1> SUFFICES ASSUME ShortEffects, TypeInv, TimesInv, Interrupt PROVE TimesInv'
    OBVIOUS
  <1>1. /\ hits' = hits \cup Windows /\ CallbackSFX
        /\ UNCHANGED <<pc, fx, found>>
    BY DEF Interrupt, play
  <1>2. /\ chan \in [Channels -> Descriptor] /\ found \in Channels
        /\ \A c \in Channels : chan'[c] \in Frames(chan[c]) \/ chan'[c] = chan[c]
        /\ \A c \in Channels : ~ Playing(c) => chan'[c] = chan[c]
    BY <1>1, Callback DEF TypeInv, TypeOK
  <1> DEFINE Loaded(c) == c = found /\ pc \in {"zero_time_low", "zero_time_high"}
  <1>3. ASSUME "ended" \notin hits', NEW c \in Channels
        PROVE  IF Loaded(c)
               THEN Playing(c)' /\ (pc = "zero_time_high" => chan'[c].tlo <= chan'[c].age)
               ELSE Timed(c)'
    <2>1. /\ "ended" \notin hits
          /\ pc \in {"zero_time_low", "zero_time_high"} /\ Playing(found) => Playing(found)'
      BY <1>1, <1>3 DEF Windows, Playing
    <2>2. IF Loaded(c)
          THEN Playing(c) /\ (pc = "zero_time_high" => chan[c].tlo <= chan[c].age)
          ELSE Timed(c)
      BY <1>3, <2>1 DEF TimesInv
    <2>3. CASE chan'[c] = chan[c]
      BY <2>2, <2>3 DEF Timed, Playing
    <2>4. CASE chan'[c] \in Frames(chan[c]) /\ Playing(c)
      <3>1. /\ chan[c].tlo \in 0 .. Radix - 1 /\ chan[c].age \in 0 .. MaxFrames
            /\ chan[c] \in Descriptor
        BY <1>2 DEF Descriptor, Byte
      <3>2. \/ chan'[c].hi = Free /\ chan'[c].tlo = Radix - 3 /\ chan'[c].thi = Radix - 3
            \/ /\ chan'[c].hi = chan[c].hi /\ chan'[c].age = chan[c].age + 1
               /\ chan[c].tlo < Radix - 1 => chan'[c].tlo = chan[c].tlo + 1 /\ chan'[c].thi = chan[c].thi
        BY <2>4, <3>1, FramePlaying DEF Playing
      <3>3. chan[c].tlo <= chan[c].age => chan[c].tlo < Radix - 1
        BY <3>1, Constants DEF ShortEffects
      <3>4. CASE chan'[c].hi = Free /\ chan'[c].tlo = Radix - 3 /\ chan'[c].thi = Radix - 3
        <4>1. ASSUME Loaded(c) PROVE FALSE
          <5>1. Playing(c)'
            BY <1>1, <2>1, <2>4, <4>1 DEF Playing
          <5> QED
            BY <3>4, <5>1 DEF Playing
        <4> QED
          BY <3>4, <4>1 DEF Timed, Playing
      <3>5. CASE /\ chan'[c].hi = chan[c].hi /\ chan'[c].age = chan[c].age + 1
                 /\ chan[c].tlo < Radix - 1 => chan'[c].tlo = chan[c].tlo + 1 /\ chan'[c].thi = chan[c].thi
        <4>1. Playing(c)'
          BY <2>4, <3>5 DEF Playing
        <4>2. chan[c].tlo <= chan[c].age => chan'[c].tlo <= chan'[c].age /\ chan'[c].thi = chan[c].thi
          BY <3>1, <3>3, <3>5
        <4> QED
          BY <2>2, <2>4, <4>1, <4>2 DEF Timed
      <3> QED
        BY <3>2, <3>4, <3>5
    <2> QED
      BY <1>2, <2>3, <2>4
  <1> QED
    BY <1>1, <1>3 DEF TimesInv

LEMMA TimesStep == ShortEffects /\ TypeInv /\ TimesInv /\ [Next]_vars => TimesInv'
  <1> SUFFICES ASSUME ShortEffects, TypeInv, TimesInv, [Next]_vars PROVE TimesInv'
    OBVIOUS
  <1> USE DEF hardware, flags, play, history, Idle, Goto
  <1> DEFINE Zeroing == {"zero_time_low", "zero_time_high"}
             Needed == {"read_51", "read_52"} \cup Launching
  <1>0. chan \in [Channels -> Descriptor] /\ found \in Channels
    BY DEF TypeInv, TypeOK
  <1>1. CASE Interrupt
    BY <1>1, TimesInterrupt
  <1>2. ASSUME chan' = chan, hits \subseteq hits', pc \notin Zeroing, pc' \notin Zeroing,
               pc' \in Needed => pc \in Needed /\ fx' = fx
        PROVE  TimesInv'
    <2>1. pc' \in Needed => fx' \in Effects
      BY <1>2 DEF TimesInv
    <2>2. "ended" \notin hits' => \A c \in Channels : Timed(c)
      BY <1>2 DEF TimesInv
    <2> QED
      BY <1>2, <2>1, <2>2 DEF TimesInv, Timed, Playing
  <1>3. ASSUME UNCHANGED <<chan, hits, pc, found, fx>>
        PROVE  TimesInv'
    BY <1>3 DEF TimesInv, Timed, Playing
  <1>4. CASE SwitchInterrupts \/ SetUpIM \/ SwitchSFX \/ SwitchMusic
    BY <1>3, <1>4, Zenon DEF SwitchInterrupts, SetUpIM, SwitchSFX, SwitchMusic
  <1>5. ASSUME NEW routine \in {"InitSFX", "InitMusic"}, CheckInts(routine)
        PROVE  TimesInv'
    <2>1. UNCHANGED <<chan, hits>> /\ pc = "idle" /\ pc' \in {"InitSFX", "InitMusic"}
      BY <1>5, Zenon DEF CheckInts
    <2> QED
      BY <1>2, <2>1 DEF Launching
  <1>6. CASE InitSFX
    BY <1>6, Constants DEF InitSFX, TimesInv, Timed, Playing, Empty, Launching
  <1>7. CASE InitMusic \/ TileSelect \/ TileRead \/ TileBack \/ Back51 \/ Back52
    <2>1. UNCHANGED <<chan, hits>>
      BY <1>7, Zenon DEF InitMusic, TileSelect, TileRead, TileBack, Back51, Back52
    <2>2. pc \notin Zeroing /\ pc' \notin Needed \cup Zeroing
      BY <1>7 DEF InitMusic, TileSelect, TileRead, TileBack, Back51, Back52, Launching
    <2> QED
      BY <1>2, <2>1, <2>2
  <1>8. CASE Read51 \/ Read52
    <2>1. UNCHANGED <<chan, hits, fx>>
      BY <1>8, Zenon DEF Read51, Read52
    <2>2. pc \in {"read_51", "read_52"} /\ pc' \notin Zeroing
      BY <1>8 DEF Read51, Read52
    <2> QED
      BY <1>2, <2>1, <2>2
  <1>9. ASSUME NEW f \in Effects, PlaySFX(f)
        PROVE  TimesInv'
    <2>1. UNCHANGED <<chan, hits>> /\ pc = "idle" /\ pc' = "read_51" /\ fx' = f
      BY <1>9, Zenon DEF PlaySFX
    <2> QED
      BY <1>9, <2>1 DEF TimesInv, Timed, Playing
  <1>10. CASE TimeLow \/ TimeHigh
    <2>1. UNCHANGED <<chan, hits, fx>>
      BY <1>10, Zenon DEF TimeLow, TimeHigh
    <2>2. pc \in {"time_low", "time_high"} /\ pc' \notin Zeroing
      BY <1>10 DEF TimeLow, TimeHigh, NextChannel
    <2> QED
      BY <1>2, <2>1, <2>2 DEF Launching
  <1>11. CASE StoreLow
    <2>1. UNCHANGED <<hits, found, fx>> /\ pc = "store_low" /\ pc' = "store_high"
      BY <1>11, Zenon DEF StoreLow
    <2>2. chan' = [chan EXCEPT ![found].lo = fx]
      BY <1>11 DEF StoreLow
    <2>3. \A c \in Channels : /\ chan'[c].hi = chan[c].hi /\ chan'[c].tlo = chan[c].tlo
                              /\ chan'[c].thi = chan[c].thi /\ chan'[c].age = chan[c].age
      BY <1>0, <2>2 DEF Descriptor
    <2> QED
      BY <2>1, <2>3 DEF TimesInv, Timed, Playing, Launching
  <1>12. CASE StoreHigh
    <2>1. UNCHANGED <<hits, found, fx>> /\ pc = "store_high" /\ pc' = "zero_time_low"
      BY <1>12, Zenon DEF StoreHigh
    <2>2. chan' = [chan EXCEPT ![found].hi = fx, ![found].age = 0]
      BY <1>12 DEF StoreHigh
    <2>3. chan'[found].hi = fx /\ \A c \in Channels \ {found} : chan'[c] = chan[c]
      BY <1>0, <2>2 DEF Descriptor
    <2>4. fx \in Effects
      BY <2>1 DEF TimesInv, Launching
    <2> QED
      BY <2>1, <2>3, <2>4, Constants DEF TimesInv, Timed, Playing
  <1>13. CASE ZeroTimeLow
    <2>1. UNCHANGED <<hits, found, fx>> /\ pc = "zero_time_low" /\ pc' = "zero_time_high"
      BY <1>13, Zenon DEF ZeroTimeLow
    <2>2. chan' = [chan EXCEPT ![found].tlo = 0]
      BY <1>13 DEF ZeroTimeLow
    <2>3. /\ chan'[found].tlo = 0 /\ chan'[found].hi = chan[found].hi
          /\ chan'[found].age = chan[found].age /\ chan[found].age >= 0
          /\ \A c \in Channels \ {found} : chan'[c] = chan[c]
      BY <1>0, <2>2, Constants DEF Descriptor
    <2> QED
      BY <2>1, <2>3 DEF TimesInv, Timed, Playing, Launching
  <1>14. CASE ZeroTimeHigh
    <2>1. UNCHANGED <<hits, found, fx>> /\ pc = "zero_time_high" /\ pc' = "back_51"
      BY <1>14, Zenon DEF ZeroTimeHigh
    <2>2. chan' = [chan EXCEPT ![found].thi = 0]
      BY <1>14 DEF ZeroTimeHigh
    <2>3. /\ chan'[found].thi = 0 /\ chan'[found].hi = chan[found].hi
          /\ chan'[found].age = chan[found].age /\ chan'[found].tlo = chan[found].tlo
          /\ \A c \in Channels \ {found} : chan'[c] = chan[c]
      BY <1>0, <2>2 DEF Descriptor
    <2> QED
      BY <2>1, <2>3 DEF TimesInv, Timed, Playing, Launching
  <1>15. CASE PlayReturns
    <2>1. chan' = chan /\ hits \subseteq hits'
      BY <1>15 DEF PlayReturns
    <2>2. pc = "ReenableInts" /\ pc' = "idle"
      BY <1>15, Zenon DEF PlayReturns
    <2> QED
      BY <1>2, <2>1, <2>2 DEF Launching
  <1>16. CASE UNCHANGED vars
    BY <1>3, <1>16, Zenon DEF vars
  <1> QED
    BY <1>1, <1>4, <1>5, <1>6, <1>7, <1>8, <1>9, <1>10, <1>11, <1>12, <1>13, <1>14, <1>15, <1>16, Zenon
       DEF Next, Program

\* The low byte of a channel that plays is below that of every free one.
Ranked ==
  \A c \in Channels :
    /\ chan[c].tlo \in 0 .. Radix - 1 /\ chan[c].thi \in 0 .. Radix - 1
    /\ IF Playing(c) THEN chan[c].thi = 0 /\ chan[c].tlo < Radix - 3
       ELSE chan[c].thi = chan[c].tlo /\ chan[c].tlo >= Radix - 3

LEMMA LowBytes ==
  ASSUME ShortEffects, TypeInv, TimesInv, "ended" \notin hits,
         pc \notin {"zero_time_low", "zero_time_high"}
  PROVE  Ranked
  <1> SUFFICES ASSUME NEW c \in Channels
               PROVE  /\ chan[c].tlo \in 0 .. Radix - 1 /\ chan[c].thi \in 0 .. Radix - 1
                      /\ IF Playing(c) THEN chan[c].thi = 0 /\ chan[c].tlo < Radix - 3
                         ELSE chan[c].thi = chan[c].tlo /\ chan[c].tlo >= Radix - 3
    BY DEF Ranked
  <1>1. /\ chan[c].tlo \in 0 .. Radix - 1 /\ chan[c].thi \in 0 .. Radix - 1
        /\ chan[c].age \in 0 .. MaxFrames
    BY DEF TypeInv, TypeOK, Descriptor, Byte
  <1>2. Timed(c)
    BY DEF TimesInv
  <1> QED
    BY <1>1, <1>2, Constants DEF Timed, ShortEffects

LEMMA SearchInit == Init => SearchInv
  BY DEF Init, SearchInv, Launching

\* Going on with the next channel: the best channel may be kept or replaced.
LEMMA SearchGoesOn ==
  ASSUME TypeInv, SearchInv, NextChannel, UNCHANGED <<chan, hits>>,
         pc \in {"time_low", "time_high"},
         Undisturbed => /\ found' \in 1 .. seek
                        /\ best' = <<chan[found'].tlo, chan[found'].thi>>
                        /\ Longest(found', seek)
  PROVE  SearchInv'
  <1>1. seek \in 1 .. Last /\ Last \in Nat
    BY Constants DEF TypeInv, TypeOK
  <1>2. CASE seek < Last
    <2>1. seek' = seek + 1 /\ pc' = "time_low"
      BY <1>2 DEF NextChannel, Goto
    <2>2. seek' > 1 /\ seek' - 1 = seek
      BY <1>1, <2>1
    <2>3. Undisturbed' => Undisturbed
      BY DEF Undisturbed
    <2>4. Undisturbed' => Longest(found, seek - 1)'
      BY <2>2, <2>3 DEF Longest, Playing
    <2> QED
      BY <2>1, <2>2, <2>3, <2>4 DEF SearchInv, Launching
  <1>3. CASE ~ (seek < Last)
    <2>1. seek = Last /\ pc' = "store_low"
      BY <1>1, <1>3 DEF NextChannel, Goto
    <2>2. Undisturbed' => Longest(found, Last)'
      BY <2>1 DEF Longest, Playing, Undisturbed
    <2> QED
      BY <2>1, <2>2 DEF SearchInv, Launching
  <1> QED
    BY <1>2, <1>3

LEMMA SearchLow == ShortEffects /\ TypeInv /\ TimesInv /\ SearchInv /\ TimeLow => SearchInv'
  <1> SUFFICES ASSUME ShortEffects, TypeInv, TimesInv, SearchInv, TimeLow PROVE SearchInv'
    OBVIOUS
  <1>1. UNCHANGED <<chan, hits>> /\ pc = "time_low"
    BY DEF TimeLow, history
  <1>2. seek \in 1 .. Last /\ found \in Channels /\ Channels = 1 .. Last /\ Last \in Nat
    BY Constants DEF TypeInv, TypeOK
  <1>3. CASE chan[seek].tlo < best[1]
    <2>1. NextChannel /\ UNCHANGED <<best, found>>
      BY <1>3 DEF TimeLow
    <2>2. ASSUME Undisturbed
          PROVE  found \in 1 .. seek /\ best = <<chan[found].tlo, chan[found].thi>> /\ Longest(found, seek)
      <3>1. Ranked
        BY <1>1, <2>2, LowBytes DEF Undisturbed
      <3>2. /\ seek > 1 /\ found \in 1 .. seek - 1
            /\ best = <<chan[found].tlo, chan[found].thi>>
            /\ Longest(found, seek - 1)
        <4>1. best # <<0, 0>>
          BY <1>2, <1>3, <3>1 DEF Ranked
        <4> QED
          BY <1>1, <2>2, <4>1 DEF SearchInv
      <3>3. chan[seek].tlo < chan[found].tlo
        BY <1>3, <3>2
      <3>4. IF Playing(seek) THEN Playing(found) => chan[seek].tlo <= chan[found].tlo ELSE ~ Playing(found)
        BY <1>2, <3>1, <3>2, <3>3, Constants DEF Ranked
      <3>5. Longest(found, seek)
        BY <1>2, <3>2, <3>4 DEF Longest
      <3> QED
        BY <1>2, <3>2, <3>5
    <2> QED
      BY <1>1, <2>1, <2>2, SearchGoesOn
  <1>4. CASE ~ (chan[seek].tlo < best[1])
    <2>1. pc' = "time_high" /\ UNCHANGED <<seek, best, found>>
      BY <1>4 DEF TimeLow, Goto
    <2>2. chan[seek].tlo \in Int /\ best[1] \in Int
      BY DEF TypeInv, TypeOK, Descriptor, Byte
    <2>3. chan[seek].tlo >= best[1]
      BY <1>4, <2>2
    <2> QED
      BY <1>1, <2>1, <2>3 DEF SearchInv, Launching, Undisturbed, Longest, Playing
  <1> QED
    BY <1>3, <1>4

LEMMA SearchHigh == ShortEffects /\ TypeInv /\ TimesInv /\ SearchInv /\ TimeHigh => SearchInv'
  <1> SUFFICES ASSUME ShortEffects, TypeInv, TimesInv, SearchInv, TimeHigh PROVE SearchInv'
    OBVIOUS
  <1>1. UNCHANGED <<chan, hits>> /\ pc = "time_high" /\ NextChannel
    BY DEF TimeHigh, history
  <1>2. seek \in 1 .. Last /\ found \in Channels /\ Channels = 1 .. Last /\ Last \in Nat
    BY Constants DEF TypeInv, TypeOK
  <1>3. ASSUME Undisturbed
        PROVE  /\ Ranked
               /\ chan[seek].tlo >= best[1]
               /\ \/ seek = 1 /\ best = <<0, 0>> /\ found = 1
                  \/ /\ seek > 1 /\ found \in 1 .. seek - 1
                     /\ best = <<chan[found].tlo, chan[found].thi>>
                     /\ Longest(found, seek - 1)
    BY <1>1, <1>3, LowBytes DEF SearchInv, Undisturbed
  <1>4. CASE chan[seek].thi < best[2]
    <2>1. UNCHANGED <<best, found>>
      BY <1>4 DEF TimeHigh
    <2>2. ASSUME Undisturbed
          PROVE  found \in 1 .. seek /\ best = <<chan[found].tlo, chan[found].thi>> /\ Longest(found, seek)
      <3>1. best # <<0, 0>>
        BY <1>2, <1>3, <1>4, <2>2 DEF Ranked
      <3>2. /\ seek > 1 /\ found \in 1 .. seek - 1
            /\ best = <<chan[found].tlo, chan[found].thi>>
            /\ Longest(found, seek - 1)
        BY <1>3, <2>2, <3>1
      <3>3. chan[seek].thi < chan[found].thi
        BY <1>4, <3>2
      <3>4. ~ Playing(found)
        BY <1>2, <1>3, <2>2, <3>3 DEF Ranked
      <3>5. Longest(found, seek)
        BY <3>4 DEF Longest
      <3> QED
        BY <1>2, <3>2, <3>5
    <2> QED
      BY <1>1, <2>1, <2>2, SearchGoesOn
  <1>5. CASE ~ (chan[seek].thi < best[2])
    <2>1. best' = <<chan[seek].tlo, chan[seek].thi>> /\ found' = seek
      BY <1>5 DEF TimeHigh
    <2>2. ASSUME Undisturbed, NEW c \in 1 .. seek
          PROVE  IF Playing(c) THEN Playing(seek) => chan[c].tlo <= chan[seek].tlo ELSE ~ Playing(seek)
      <3>1. Ranked /\ c \in Channels
        BY <1>2, <1>3, <2>2
      <3>2. CASE c = seek
        BY <1>2, <3>1, <3>2 DEF Ranked
      <3>3. CASE c # seek
        <4>1. /\ seek > 1 /\ c \in 1 .. seek - 1 /\ found \in 1 .. seek - 1
              /\ chan[seek].tlo >= chan[found].tlo /\ Longest(found, seek - 1)
          BY <1>2, <1>3, <2>2, <3>3
        <4>2. IF Playing(c) THEN Playing(found) => chan[c].tlo <= chan[found].tlo ELSE ~ Playing(found)
          BY <4>1 DEF Longest
        <4>3. Playing(seek) => Playing(found)
          BY <1>2, <3>1, <4>1, Constants DEF Ranked
        <4>4. /\ chan[c].tlo \in 0 .. Radix - 1 /\ chan[found].tlo \in 0 .. Radix - 1
              /\ chan[seek].tlo \in 0 .. Radix - 1
          BY <1>2, <3>1 DEF Ranked
        <4> QED
          BY <4>1, <4>2, <4>3, <4>4, Constants
      <3> QED
        BY <3>2, <3>3
    <2>3. Undisturbed => Longest(seek, seek)
      BY <2>2 DEF Longest
    <2> QED
      BY <1>1, <1>2, <2>1, <2>3, SearchGoesOn
  <1> QED
    BY <1>4, <1>5

LEMMA SearchStep == ShortEffects /\ TypeInv /\ TimesInv /\ SearchInv /\ [Next]_vars => SearchInv'
  <1> SUFFICES ASSUME ShortEffects, TypeInv, TimesInv, SearchInv, [Next]_vars PROVE SearchInv'
    OBVIOUS
  <1> USE DEF hardware, flags, play, history, Idle, Goto
  <1> DEFINE Started == Launching \cup {"back_51", "back_52", "ReenableInts"}
             Searching == {"time_low", "time_high", "store_low"}
  <1>1. CASE Interrupt
    <2>1. UNCHANGED <<pc, seek, best, found>> /\ hits' = hits \cup Windows /\ CallbackSFX
      BY <1>1 DEF Interrupt
    <2>2. Undisturbed' => Undisturbed
      BY <2>1 DEF Undisturbed
    <2>3. pc \in Searching /\ Undisturbed' => chan' = chan
      BY <2>1 DEF Undisturbed, Windows, CallbackSFX
    <2> QED
      BY <2>1, <2>2, <2>3 DEF SearchInv, Longest, Playing, Launching
  <1>2. ASSUME UNCHANGED <<seek, best, found>>, pc \notin Started, pc' \notin Launching
        PROVE  SearchInv'
    BY <1>2 DEF SearchInv, Launching
  <1>3. ASSUME pc' \in Started, pc' \notin Searching
        PROVE  SearchInv'
    BY <1>3 DEF SearchInv, Launching
  <1>4. ASSUME UNCHANGED <<chan, hits, pc, seek, best, found>>
        PROVE  SearchInv'
    BY <1>4 DEF SearchInv, Longest, Playing, Undisturbed
  <1>5. CASE SwitchInterrupts \/ SetUpIM \/ SwitchSFX \/ SwitchMusic
    <2>1. UNCHANGED <<pc, seek, best, found>> /\ pc = "idle"
      BY <1>5, Zenon DEF SwitchInterrupts, SetUpIM, SwitchSFX, SwitchMusic
    <2> QED
      BY <1>2, <2>1 DEF Launching
  <1>6. ASSUME NEW routine \in {"InitSFX", "InitMusic"}, CheckInts(routine)
        PROVE  SearchInv'
    <2>1. UNCHANGED <<seek, best, found>> /\ pc = "idle" /\ pc' \in {"InitSFX", "InitMusic"}
      BY <1>6, Zenon DEF CheckInts
    <2> QED
      BY <1>2, <2>1 DEF Launching
  <1>7. CASE InitSFX \/ InitMusic \/ TileSelect \/ TileRead \/ TileBack \/ Read51
    <2>1. UNCHANGED <<seek, best, found>>
      BY <1>7, Zenon DEF InitSFX, InitMusic, TileSelect, TileRead, TileBack, Read51
    <2>2. pc \notin Started /\ pc' \notin Launching
      BY <1>7 DEF InitSFX, InitMusic, TileSelect, TileRead, TileBack, Read51, Launching
    <2> QED
      BY <1>2, <2>1, <2>2
  <1>8. ASSUME NEW f \in Effects, PlaySFX(f)
        PROVE  SearchInv'
    <2>1. UNCHANGED <<seek, best, found>> /\ pc = "idle" /\ pc' = "read_51"
      BY <1>8, Zenon DEF PlaySFX
    <2> QED
      BY <1>2, <2>1 DEF Launching
  <1>9. CASE Read52
    <2>1. UNCHANGED <<seek, best, found>> /\ pc = "read_52" /\ pc' = "time_low"
      BY <1>9, Zenon DEF Read52
    <2> QED
      BY <2>1 DEF SearchInv, Launching
  <1>10. CASE TimeLow
    BY <1>10, SearchLow
  <1>11. CASE TimeHigh
    BY <1>11, SearchHigh
  <1>12. CASE StoreLow \/ StoreHigh \/ ZeroTimeLow \/ ZeroTimeHigh \/ Back51 \/ Back52
    <2>1. pc' \in Started /\ pc' \notin Searching
      BY <1>12 DEF StoreLow, StoreHigh, ZeroTimeLow, ZeroTimeHigh, Back51, Back52, Launching
    <2> QED
      BY <1>3, <2>1
  <1>13. CASE PlayReturns
    <2>1. pc' = "idle" /\ seek' = 1 /\ best' = <<0, 0>> /\ found' = 1
      BY <1>13, Zenon DEF PlayReturns
    <2> QED
      BY <2>1 DEF SearchInv, Launching
  <1>14. CASE UNCHANGED vars
    BY <1>4, <1>14, Zenon DEF vars
  <1> QED
    BY <1>1, <1>5, <1>6, <1>7, <1>8, <1>9, <1>10, <1>11, <1>12, <1>13, <1>14, Zenon
       DEF Next, Program

LEMMA SearchEnds == ShortEffects /\ TypeInv /\ TimesInv /\ SearchInv => ChannelChosenUndisturbed
  <1> SUFFICES ASSUME ShortEffects, TypeInv, TimesInv, SearchInv, pc = "store_low", Undisturbed
               PROVE  RightChannel
    BY DEF ChannelChosenUndisturbed, Undisturbed
  <1>1. Longest(found, Last) /\ Ranked /\ found \in Channels /\ Channels = 1 .. Last
    BY Constants, LowBytes DEF SearchInv, Undisturbed, TypeInv, TypeOK
  <1>2. CASE \E c \in Channels : ~ Playing(c)
    BY <1>1, <1>2 DEF Longest, RightChannel
  <1>3. CASE \A c \in Channels : Playing(c)
    <2>1. \A c \in Channels : Time(c) = chan[c].tlo
      <3>1. \A c \in Channels : chan[c].thi = 0 /\ chan[c].tlo \in Int
        BY <1>1, <1>3 DEF Ranked
      <3>2. Radix * 0 = 0
        BY Constants
      <3> QED
        BY <3>1, <3>2 DEF Time
    <2>2. \A c \in Channels : chan[c].tlo <= chan[found].tlo
      BY <1>1, <1>3 DEF Longest
    <2>3. \A c \in Channels : Time(c) <= Time(found)
      BY <1>1, <2>1, <2>2
    <2> QED
      BY <1>3, <2>3 DEF RightChannel
  <1> QED
    BY <1>2, <1>3

\* Effects shorter than the low byte of a free channel's time: PlaySFX takes a
\* free channel if there is one and the longest sounding if not, unless an
\* interrupt moves the times it compares or an effect ended while it was launched.
THEOREM SoundChannelChosen ==
  ASSUME ShortEffects
  PROVE  Spec => []ChannelChosenUndisturbed
  <1>1. TypeInv /\ TimesInv /\ [Next]_vars => TimesInv'
    BY TimesStep
  <1>2. TypeInv /\ TimesInv /\ SearchInv /\ [Next]_vars => SearchInv'
    BY SearchStep
  <1>3. TypeInv /\ TimesInv /\ SearchInv => ChannelChosenUndisturbed
    BY SearchEnds
  <1> QED
    BY <1>1, <1>2, <1>3, TypeAlways, TimesInit, SearchInit, PTL DEF Spec
=============================================================================
