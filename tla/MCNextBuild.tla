---------------------------- MODULE MCNextBuild ----------------------------
(***************************************************************************)
(* NextBuild with 8K banks of two cells and ten 16K banks, two of which    *)
(* are behind those that NEX files keep in another order.                  *)
(***************************************************************************)
EXTENDS NextBuild, TLC

CONSTANTS tiles, tiles2, song, lost, code, sysvars

MCFiles == {tiles, tiles2, song}
MCSize == tiles :> 3 @@ tiles2 :> 2 @@ song :> 5
\* tiles.spr and tiles.pal differ in their extension only.
MCStem == tiles :> "tiles" @@ tiles2 :> "tiles" @@ song :> "song" @@ lost :> "lost"

Line(file, at, from, bank) ==
  [file |-> file, at |-> at, length |-> 0, from |-> from, bank |-> bank, comment |-> FALSE, sub |-> FALSE]

\* Aligned and not, into the even and the odd half of a bank, past the end of a
\* bank, into the banks of the program and past the last bank; one line asks for
\* the first cell of a file, to be put over what the other one loads.
MCLines ==
  {Line(tiles, 0, 0, 16), Line(tiles2, 1, 0, 17), Line(song, 3, 0, 16),
   Line(song, 1, 2, 16), Line(song, 0, 3, 11), Line(tiles2, 0, 1, 4), Line(tiles, 0, 2, 0),
   Line(song, 0, 0, 18), [Line(tiles2, 0, 0, 18) EXCEPT !.length = 1], Line(lost, 0, 0, 16), Line(tiles, 1, 0, 5),
   [Line(tiles2, 0, 0, 16) EXCEPT !.comment = TRUE],
   [Line(tiles2, 0, 0, 17) EXCEPT !.sub = TRUE]}

\* Lines with an offset into the file, all into banks behind the first eight.
MCTrimmedLines == {Line(song, 0, 3, 16), Line(song, 0, 4, 18)}

MCOrgs == {2, 4, 6, 9, 11}
MCCodeSizes == {1, 5}
=============================================================================
