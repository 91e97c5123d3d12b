SPECIFICATION Spec
CONSTANTS
  HeapSize = 11
  Granule = 4
  Word = 64
  Requests <- SomeRequests
INVARIANTS HeapSound Enough
PROPERTIES LiveBlocksStay FreeJoinsForward
