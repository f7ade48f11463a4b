SPECIFICATION Spec
CONSTANTS
  A = A  B = B  C = C
  Main = Main
  NoFile = NoFile
  Files = {Main, A, B, C}
  MaxStack = 4
  Graphs <- AllGraphs
INVARIANTS
  OrderServesImports
PROPERTIES
  AnalysisEnds
CHECK_DEADLOCK FALSE
