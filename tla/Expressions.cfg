SPECIFICATION Spec
CONSTANTS
  Sources <- MCSources
  Symbols <- MCSymbols
  Members <- MCMembers
  Literals <- MCLiterals
  Glued <- MCGlued
  NextId = 7
INVARIANTS MeansSource OperandsKept RefusesDeclarations
CHECK_DEADLOCK FALSE
