SPECIFICATION Spec
CONSTANTS
  HeapStart = 7
  HeapSize = 19
  Alignment = 4
  Word = 64
  Requests = {0, 4, 7, 12, 63}
INVARIANTS
  TypeOK
  FreeApart
  SetAsideOnce
  SearchSees
PROPERTIES
  KeepsPromise
