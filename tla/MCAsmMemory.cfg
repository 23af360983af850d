SPECIFICATION Spec
CONSTANTS
  x = x
  Names <- MCNames
  Origins <- MCOrigins
  MaxStatements = 7
  MaxScopes = 2
  MaxInits = 2
  Undefined = Undefined
INVARIANTS
  TypeOK
  AcceptedRight
  StartsWithInits
  RejectsWrong
CHECK_DEADLOCK FALSE
