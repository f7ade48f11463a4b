SPECIFICATION Spec
CONSTANTS
  GeneralRegisters = 3
  LLRegisters <- LL
  Size = 2
  StackSize = 4
  Own <- Local
  Imported <- CharNumberAndPointer
  LinkedAt <- Links
  LinkedValue <- Values
  TypeOf <- TypesOf
  Constants <- One
  UnaryOperators <- SomeUnary
  CompoundOperators <- Compounds
  CompoundByPointer = FALSE
  CharByPointer = FALSE
  PointersByBytes = FALSE
  MaxOperands = 3
  MaxScopes = 2
  MaxCode = 6
INVARIANTS TypeOK RegistersApart
PROPERTIES LosesOnlyThere ComputesTheSource
CHECK_DEADLOCK FALSE
