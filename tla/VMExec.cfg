SPECIFICATION Spec
CONSTANTS
  General <- MCGeneral
  WordSize = 16
  AccessSize = 2
  ByteSize = 4
  PlaceValue <- MCPlaceValue
  StackStart = 2
  HeapStart = 6
  MemoryEnd = 9
  CallDepth = 2
  ErrorSlots = 2
  Infinities <- MCInfinities
  NaNs <- MCNaNs
  RealZeros <- MCRealZeros
  Alignment = 2
  Rod <- MCRod
  Garbage = {0, 2}
  Programs <- AllScripts
CHECK_DEADLOCK FALSE
INVARIANTS
  TypeOK
  FrameChain
  RodIntact
  ErrorsTell
PROPERTIES
  KeepsFramePromise
  RodWriteFreezes
  ForwardScriptsStop
