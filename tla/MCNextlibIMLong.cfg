SPECIFICATION Spec
CONSTANTS
  Radix = 4
  Channels <- MCChannels
  Effects <- MCEffects
  MaxFrames = 4
  own1 = own1
  own2 = own2
  own6 = own6
  own7 = own7
  sfx1 = sfx1
  sfx2 = sfx2
  player = player
  song6 = song6
  song7 = song7
  tiles = tiles
  fx1 = fx1
  fx2 = fx2
  OwnBanks <- MCOwnBanks
  SfxBanks <- MCSfxBanks
  SongBanks <- MCSongBanks
  TileBanks <- MCTileBanks
  Free = Free
  Astray = Astray
INVARIANT ChannelChosen
SYMMETRY MCSymmetry
