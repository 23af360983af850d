SPECIFICATION Spec
CONSTANTS
  HeapStart = 10
  HeapSize = 30
  Requests <- MCRequests
  NoRequest = NoRequest
INVARIANTS
  TypeOK
  Sized
  Disjoint
  NoLeak
  Coalesced
PROPERTIES
  KeepsPromise
