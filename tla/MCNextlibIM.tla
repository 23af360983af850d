----------------------------- MODULE MCNextlibIM -----------------------------
(***************************************************************************)
(* NextlibIM with two channels and two effects.                            *)
(***************************************************************************)
EXTENDS NextlibIM, TLC

CONSTANTS own1, own2, own6, own7, sfx1, sfx2, player, song6, song7, tiles, fx1, fx2

MCChannels == {1, 2}
MCEffects == {fx1, fx2}
MCOwnBanks == 1 :> own1 @@ 2 :> own2 @@ 6 :> own6 @@ 7 :> own7
MCSfxBanks == 1 :> sfx1 @@ 2 :> sfx2
MCSongBanks == 2 :> player @@ 6 :> song6 @@ 7 :> song7
MCTileBanks == 2 :> tiles
MCSymmetry == Permutations(MCEffects)
=============================================================================
