SPECIFICATION Spec
CONSTANTS
  StackSize = 32767
  HeapSize = 32767
  Alignment = 8
  Files <- MCFiles
  Plans = 2
CHECK_DEADLOCK FALSE
INVARIANTS
  StartsAsLaidOut
