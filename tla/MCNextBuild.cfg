SPECIFICATION Spec
CONSTANTS
  Half = 2
  Banks = 10
  BigBanks = 13
  Blank = Blank
  tiles = tiles
  tiles2 = tiles2
  song = song
  lost = lost
  code = code
  sysvars = sysvars
  Files <- MCFiles
  Size <- MCSize
  Stem <- MCStem
  Lines <- MCLines
  MaxLines = 2
  Orgs <- MCOrgs
  CodeSizes <- MCCodeSizes
  SysvarsAt = 1
  Code <- code
  Sysvars <- sysvars
INVARIANTS
  TypeOK
  LoadedAsAskedPlain
  CodeInPlace
  BodyMatchesHeader
CHECK_DEADLOCK FALSE
