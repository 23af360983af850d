SPECIFICATION Spec
CONSTANTS
  x = x
  Names <- MCNames
  Origins <- MCNoOrigins
  MaxStatements = 7
  MaxScopes = 2
  MaxInits = 0
  Undefined = Undefined
INVARIANT NoSpuriousErrors
CHECK_DEADLOCK FALSE
