SPECIFICATION Spec
CONSTANTS
  Declarations <- MCDeclarations
  Values = {1, 2}
  Garbage = 0
  RodSize = 1
  MaxText = 6
  MaxModules = 3
  MaxDepth = 2
CHECK_DEADLOCK FALSE
INVARIANTS
  TypeOK
  VariablesPlaced
PROPERTY
  KeepsLexicalPromise
