\* Two modules, three names of registers and three registers, words of three
\* binary cells, a memory of eight cells whose last two are the heap.
SPECIFICATION Spec
CONSTANTS
  Programs <- SmallPrograms
  Names <- RegisterNames
  Literals <- Numbers
  Pointers <- PointerVariables
  Home <- HomeOf
  Offset <- OffsetOf
  ModuleStart <- Starts
  GeneralRegisters = 3
  Base = 2
  Width = 3
  MemorySize = 8
  HeapStart = 6
  SizeLimit = 8
INVARIANT TypeOK
 
\* Programs end.
CHECK_DEADLOCK FALSE
