----------------------------- MODULE NextlibIM -----------------------------
(***************************************************************************)
(* The sound side of nextlib.bas: the main program and the IM 2 interrupt  *)
(* routine that share the 8K MMU slots, the NextReg select port, the       *)
(* sound-effect channels and the flag itbuff.                              *)
(*                                                                         *)
(* The interrupt routine runs with interrupts off, so it is one action; it *)
(* may come between any two instructions of the main program that touch    *)
(* what the two share while interrupts are on.  What the main program does *)
(* between DI and EI is one action too.                                    *)
(***************************************************************************)
EXTENDS Integers, FiniteSets

CONSTANTS Radix,       \* values of a byte
          Channels,    \* the sound-effect channels, 1 .. 3 in the code
          Effects,     \* the effects PlaySFX is called with
          MaxFrames,   \* bound: the frames the longest effect plays
          OwnBanks,    \* the banks the program itself has in its slots throughout
          SfxBanks,    \* the banks of the effects, in slots 1 and 2
          SongBanks,   \* the banks of player and song, in slots 2, 6 and 7
          TileBanks,   \* the bank of the tiles, in slot 2
          Free,        \* high address byte of a channel that does not play
          Astray       \* low address byte that belongs to no effect

Slots == {1, 2, 6, 7}

ASSUME SoundAssumption ==
  /\ Radix \in Nat /\ Radix > 3
  /\ IsFiniteSet(Channels) /\ Channels # {} /\ Channels = 1 .. Cardinality(Channels)
  /\ MaxFrames \in Nat
  /\ DOMAIN OwnBanks = Slots /\ DOMAIN SfxBanks = {1, 2}
  /\ DOMAIN SongBanks = {2, 6, 7} /\ DOMAIN TileBanks = {2}
  /\ Free \notin Effects /\ Astray \notin Effects

VARIABLES
  mmu,        \* bank paged into each slot: NextRegs $51, $52, $56, $57
  select,     \* the slot register selected on port $243B
  iff,        \* interrupts are enabled
  done,       \* which of SetUpIM, InitSFX and InitMusic have run
  itbuff,     \* itbuff: checkints found interrupts enabled
  sfxOn,      \* sfxenablednl
  music,      \* sfxenablednl + 1: 0 off, 1 on, 2 mute at the next frame
  chan,       \* afxChDesc: the channel descriptors
  pc,         \* where the main program is
  fx,         \* PlaySFX's parameter
  kept,       \* operands of the nextregs that put the slots back
  seek,       \* channel under test in the search of PlaySFX
  best,       \* DE: the longest time so far, low and high byte
  found,      \* IX: the channel with that time
  ints,       \* whether the program wants interrupts
  hits        \* which delicate windows an interrupt, or DI, has fallen into, and
              \* whether an interrupt has played music

hardware == <<mmu, select, iff>>
flags == <<itbuff, sfxOn, music>>
play == <<fx, kept, seek, best, found>>
history == <<ints, hits>>
vars == <<hardware, flags, done, chan, pc, play, history>>

Byte == 0 .. Radix - 1
Last == Cardinality(Channels)

\* A descriptor: address and playing time, low and high byte each.  An address
\* byte is named by the effect it belongs to; age counts frames for MaxFrames.
Descriptor ==
  [lo : Effects \cup {Free, Astray}, hi : Effects \cup {Free},
   tlo : Byte, thi : Byte, age : 0 .. MaxFrames]

Playing(c) == chan[c].hi # Free

\* Slots as they are after a routine has paged banks in and put back some of
\* the slots as it found them.
PageAndBack(slots, banks, back) ==
  [s \in Slots |-> IF s \in DOMAIN banks \ back THEN banks[s] ELSE slots[s]]

-----------------------------------------------------------------------------
Empty == [lo |-> Free, hi |-> Free, tlo |-> Radix - 1, thi |-> Radix - 1, age |-> 0]

Init ==
  /\ mmu = OwnBanks
  /\ select = 7
  /\ iff \in BOOLEAN /\ ints = iff
  /\ itbuff = iff           \* checkints() runs where the library is included
  /\ done = {}
  /\ sfxOn = FALSE /\ music = 0
  /\ chan = [c \in Channels |-> Empty]
  /\ pc = "idle"
  /\ fx = Free
  /\ kept = [s \in {1, 2} |-> 0]
  /\ seek = 1 /\ best = <<0, 0>> /\ found = 1
  /\ hits = {}

-----------------------------------------------------------------------------
(* The interrupt routine.                                                  *)

\* CallbackSFX on one channel: a playing channel advances by a frame or, at
\* the end marker, becomes free with the time $fdfd.  Read through an address
\* whose bytes belong to different effects, what it finds is anything, and the
\* low byte it stores belongs to none.
Frames(d) ==
  IF d.hi = Free THEN {d}
  ELSE LET lo == IF d.lo = d.hi THEN d.lo ELSE Astray
           time == (d.tlo + Radix * d.thi + 1) % (Radix * Radix)
           on == [lo |-> lo, hi |-> d.hi, tlo |-> time % Radix, thi |-> time \div Radix,
                  age |-> d.age + 1]
           off == [lo |-> lo, hi |-> Free, tlo |-> Radix - 3, thi |-> Radix - 3, age |-> 0]
       IN IF d.age < MaxFrames THEN {on, off} ELSE {off}

CallbackSFX ==
  IF sfxOn THEN chan' \in {f \in [Channels -> UNION {Frames(chan[c]) : c \in Channels}] :
                             \A c \in Channels : f[c] \in Frames(chan[c])}
  ELSE UNCHANGED chan

SelectsSeven == IF sfxOn \/ music # 0 THEN 7 ELSE select  \* mutant of LastSelect
\* Both handlers read slot 2 last: the select port is left there.
LastSelect == IF sfxOn \/ music # 0 THEN 2 ELSE select

\* playmusicnl puts back slot 2 only: slots 6 and 7 get banks 0 and 1.
PlayMusic(slots) ==
  IF music = 0 THEN slots
  ELSE [PageAndBack(slots, SongBanks, {2}) EXCEPT ![6] = 0, ![7] = 1]

\* The moments of PlaySFX at which an interrupt does harm.  "ended": the effect
\* just launched ends before its time is zeroed, and the free channel is left
\* with the shortest time of all instead of the longest.  "music" is no such
\* moment: playmusicnl replaces the banks of slots 6 and 7 whenever it runs.
Windows ==
  (IF pc = "read_51" /\ LastSelect # 1 THEN {"slot_1"} ELSE {})
    \cup (IF pc \in {"time_low", "time_high", "store_low"} /\ sfxOn THEN {"search"} ELSE {})
    \cup (IF pc = "store_high" /\ sfxOn /\ Playing(found) THEN {"launch"} ELSE {})
    \cup (IF pc \in {"zero_time_low", "zero_time_high"} /\ Playing(found) /\ chan'[found].hi = Free
          THEN {"ended"} ELSE {})
    \cup (IF music # 0 THEN {"music"} ELSE {})

Interrupt ==
  /\ "SetUpIM" \in done /\ iff
  /\ CallbackSFX
  /\ select' = LastSelect
  /\ mmu' = PlayMusic(IF sfxOn THEN PageAndBack(mmu, SfxBanks, {1, 2}) ELSE mmu)
  /\ music' = IF music = 2 THEN 0 ELSE music
  /\ hits' = hits \cup Windows
  /\ UNCHANGED <<iff, itbuff, sfxOn, done, pc, play, ints>>

-----------------------------------------------------------------------------
(* The main program: switches and set-up.                                  *)

Idle == pc = "idle"
Goto(label) == pc' = label

\* asm : di and asm : ei in the program.
SwitchInterrupts ==
  /\ Idle
  /\ iff' = ~iff /\ ints' = iff'
  /\ UNCHANGED <<mmu, select, flags, done, chan, pc, play, hits>>

SetUpIM ==
  /\ Idle
  /\ "InitSFX" \in done
  /\ iff' = TRUE /\ ints' = TRUE
  /\ done' = done \cup {"SetUpIM"}
  /\ UNCHANGED <<mmu, select, flags, chan, pc, play, hits>>

\* EnableSFX, DisableSFX.
SwitchSFX ==
  /\ Idle
  /\ "InitSFX" \in done
  /\ sfxOn' = ~sfxOn
  /\ UNCHANGED <<hardware, itbuff, music, done, chan, pc, play, history>>

\* EnableMusic, DisableMusic.
SwitchMusic ==
  /\ Idle
  /\ "InitMusic" \in done
  /\ music' \in {1, 2}
  /\ UNCHANGED <<hardware, itbuff, sfxOn, done, chan, pc, play, history>>

\* call _checkints: what ReenableInts is going to test.
CheckInts(routine) ==
  /\ Idle
  /\ itbuff' = iff
  /\ Goto(routine)
  /\ UNCHANGED <<hardware, sfxOn, music, done, chan, play, history>>

ReenableAlways == TRUE                                   \* mutant of ReenableInts
ReenableInts == itbuff

\* From di to ReenableInts.
InitSFX ==
  /\ pc = "InitSFX"
  /\ chan' = [c \in Channels |-> Empty]
  /\ select' = 2
  /\ mmu' = PageAndBack(mmu, SfxBanks, {1, 2})
  /\ iff' = ReenableInts
  /\ done' = done \cup {"InitSFX"}
  /\ Goto("idle")
  /\ UNCHANGED <<flags, play, history>>

InitMusic ==
  /\ pc = "InitMusic"
  /\ select' = 7
  /\ mmu' = PageAndBack(mmu, SongBanks, {2, 6, 7})
  /\ iff' = ReenableInts
  /\ done' = done \cup {"InitMusic"}
  /\ Goto("idle")
  /\ UNCHANGED <<flags, chan, play, history>>

-----------------------------------------------------------------------------
(* The main program: a tile routine (DoTileBank16, FDoTile8, L2Text ...).   *)
(* Where IM2 is defined they leave interrupts on.                          *)

TileSelect ==
  /\ Idle
  /\ select' = 2
  /\ Goto("tile_read_52")
  /\ UNCHANGED <<mmu, iff, flags, done, chan, play, history>>

TileRead ==
  /\ pc = "tile_read_52"
  /\ kept' = [kept EXCEPT ![2] = mmu[select]]
  /\ mmu' = PageAndBack(mmu, TileBanks, {})
  /\ Goto("tile_back")
  /\ UNCHANGED <<select, iff, flags, done, chan, fx, seek, best, found, history>>

TileBack ==
  /\ pc = "tile_back"
  /\ mmu' = [mmu EXCEPT ![2] = kept[2]]
  /\ kept' = [s \in {1, 2} |-> 0]
  /\ Goto("idle")
  /\ UNCHANGED <<select, iff, flags, done, chan, fx, seek, best, found, history>>

-----------------------------------------------------------------------------
(* The main program: PlaySFX, whose call of _checkints and di are comments. *)

\* getreg: the register is selected with one instruction, read with another.
PlaySFX(f) ==
  /\ Idle
  /\ "InitSFX" \in done
  /\ fx' = f
  /\ select' = 1
  /\ Goto("read_51")
  /\ UNCHANGED <<mmu, iff, flags, done, chan, kept, seek, best, found, history>>

Read51 ==
  /\ pc = "read_51"
  /\ kept' = [kept EXCEPT ![1] = mmu[select]]
  /\ select' = 2
  /\ Goto("read_52")
  /\ UNCHANGED <<mmu, iff, flags, done, chan, fx, seek, best, found, history>>

Read52 ==
  /\ pc = "read_52"
  /\ kept' = [kept EXCEPT ![2] = mmu[select]]
  /\ mmu' = PageAndBack(mmu, SfxBanks, {})
  /\ Goto("time_low")
  /\ UNCHANGED <<select, iff, flags, done, chan, fx, seek, best, found, history>>

OneTooMany ==                                             \* mutant of NextChannel
  /\ seek' = seek + 1
  /\ Goto(IF seek <= Last THEN "time_low" ELSE "store_low")

NextChannel ==
  /\ seek' = IF seek < Last THEN seek + 1 ELSE 1
  /\ Goto(IF seek < Last THEN "time_low" ELSE "store_low")

\* The low bytes are compared first: less than the longest so far, next channel.
TimeLow ==
  /\ pc = "time_low"
  /\ IF chan[seek].tlo < best[1]
     THEN NextChannel /\ UNCHANGED <<best, found>>
     ELSE /\ Goto("time_high")
          /\ UNCHANGED <<seek, best, found>>
  /\ UNCHANGED <<hardware, flags, done, chan, fx, kept, history>>

FirstChannel ==                                             \* mutant of TimeHigh
  /\ pc = "time_high"
  /\ NextChannel
  /\ best' = <<chan[seek].tlo, chan[seek].thi>>
  /\ UNCHANGED <<found, hardware, flags, done, chan, fx, kept, history>>

TimeHigh ==
  /\ pc = "time_high"
  /\ NextChannel
  /\ IF chan[seek].thi < best[2]
     THEN UNCHANGED <<best, found>>
     ELSE /\ best' = <<chan[seek].tlo, chan[seek].thi>>
          /\ found' = seek
  /\ UNCHANGED <<hardware, flags, done, chan, fx, kept, history>>

StoreLow ==
  /\ pc = "store_low"
  /\ chan' = [chan EXCEPT ![found].lo = fx]
  /\ Goto("store_high")
  /\ UNCHANGED <<hardware, flags, done, play, history>>

StoreHighAtSeek ==                                          \* mutant of StoreHigh
  /\ pc = "store_high"
  /\ chan' = [chan EXCEPT ![seek].hi = fx, ![seek].age = 0]
  /\ Goto("zero_time_low")
  /\ UNCHANGED <<hardware, flags, done, play, history>>

StoreHigh ==
  /\ pc = "store_high"
  /\ chan' = [chan EXCEPT ![found].hi = fx, ![found].age = 0]
  /\ Goto("zero_time_low")
  /\ UNCHANGED <<hardware, flags, done, play, history>>

ZeroTimeLow ==
  /\ pc = "zero_time_low"
  /\ chan' = [chan EXCEPT ![found].tlo = 0]
  /\ Goto("zero_time_high")
  /\ UNCHANGED <<hardware, flags, done, play, history>>

ZeroTimeHigh ==
  /\ pc = "zero_time_high"
  /\ chan' = [chan EXCEPT ![found].thi = 0]
  /\ Goto("back_51")
  /\ UNCHANGED <<hardware, flags, done, play, history>>

Back51 ==
  /\ pc = "back_51"
  /\ mmu' = [mmu EXCEPT ![1] = kept[1]]
  /\ Goto("back_52")
  /\ UNCHANGED <<select, iff, flags, done, chan, play, history>>

Back52 ==
  /\ pc = "back_52"
  /\ mmu' = [mmu EXCEPT ![2] = kept[2]]
  /\ Goto("ReenableInts")
  /\ UNCHANGED <<select, iff, flags, done, chan, play, history>>

\* itbuff is whatever the last routine that called checkints left there.
PlayReturns ==
  /\ pc = "ReenableInts"
  /\ iff' = (iff \/ ReenableInts)
  /\ hits' = IF ReenableInts /\ ~iff THEN hits \cup {"stale_itbuff"} ELSE hits
  /\ fx' = Free
  /\ kept' = [s \in {1, 2} |-> 0]
  /\ seek' = 1 /\ best' = <<0, 0>> /\ found' = 1
  /\ Goto("idle")
  /\ UNCHANGED <<mmu, select, flags, done, chan, ints>>

-----------------------------------------------------------------------------
Program ==
  \/ SwitchInterrupts \/ SetUpIM \/ SwitchSFX \/ SwitchMusic
  \/ \E routine \in {"InitSFX", "InitMusic"} : CheckInts(routine)
  \/ InitSFX \/ InitMusic
  \/ TileSelect \/ TileRead \/ TileBack
  \/ \E f \in Effects : PlaySFX(f)
  \/ Read51 \/ Read52 \/ TimeLow \/ TimeHigh
  \/ StoreLow \/ StoreHigh \/ ZeroTimeLow \/ ZeroTimeHigh
  \/ Back51 \/ Back52 \/ PlayReturns

Next == Interrupt \/ Program

Spec == Init /\ [][Next]_vars

-----------------------------------------------------------------------------
\* Types: in particular the search of PlaySFX never looks behind the last of
\* the channel descriptors, wherever interrupts come.
TypeOK ==
  /\ DOMAIN mmu = Slots
  /\ select \in Slots
  /\ {iff, itbuff, sfxOn, ints} \subseteq BOOLEAN
  /\ music \in 0 .. 2
  /\ chan \in [Channels -> Descriptor]
  /\ {seek, found} \subseteq Channels

\* When the program runs its own code, slot 1 holds the program's own bank, unless
\* an interrupt came between the two instructions with which PlaySFX reads it.
\* Slot 2 holds it always: it is read the same way by PlaySFX and by every tile
\* routine, and survives because the interrupt leaves the select port at 2.
\* Slots 6 and 7 hold the program's banks until an interrupt has played music;
\* from then on they hold banks 0 and 1, whatever the program had there.
SlotsKept == Idle =>
  /\ mmu[1] = OwnBanks[1] \/ "slot_1" \in hits
  /\ mmu[2] = OwnBanks[2]
  /\ \A s \in {6, 7} : mmu[s] = IF "music" \in hits THEN s - 6 ELSE OwnBanks[s]

\* An effect starts at its own address: no channel ever plays from an address
\* made of two effects, unless an interrupt came between the two stores of
\* PlaySFX into a channel that was still playing.
LaunchWhole ==
  Idle /\ "launch" \notin hits => \A c \in Channels : Playing(c) => chan[c].lo = chan[c].hi

\* The search of PlaySFX ends on a free channel if there is one, and on the one
\* sounding longest otherwise, unless an interrupt moved the times meanwhile or
\* an effect ended while it was launched.  This holds of effects of at most
\* Radix - 4 frames (252 in the code); ChannelChosen is about the others.
Time(c) == chan[c].tlo + Radix * chan[c].thi
RightChannel ==
  IF \E c \in Channels : ~Playing(c) THEN ~Playing(found)
  ELSE \A c \in Channels : Time(c) <= Time(found)
ChannelChosenUndisturbed == pc = "store_low" /\ hits \cap {"search", "ended"} = {} => RightChannel

\* The library leaves interrupts as the program set them, except that PlaySFX
\* enables them when itbuff is left over from a call made with them enabled.
InterruptsKept == Idle /\ "stale_itbuff" \notin hits => iff = ints

\* nextlib.bas: "Launch the effect on a free channel" - every effect that plays
\* is one that was launched, whole.
EffectsWhole == Idle => \A c \in Channels : Playing(c) => chan[c].lo = chan[c].hi

\* nextlib.bas: "Without free channels is selected the longest sounding."
ChannelChosen == pc = "store_low" /\ hits = {} => RightChannel
=============================================================================
