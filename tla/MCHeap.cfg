SPECIFICATION Spec
CONSTANTS
  Radix = 8
  HeapStart = 20
  HeapSize = 22
  o1 = o1
  o2 = o2
  Owners <- MCOwners
  Memory <- MCMemory
  Mark <- MCMark
  Requests <- MCRequests
  NoOne = NoOne
INVARIANTS
  TypeOK
  ContentsKept
  LengthWord
PROPERTIES
  ImplementsBlocks
  CallsReturn
VIEW View
