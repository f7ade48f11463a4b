SPECIFICATION Spec
CONSTANTS
  Compilations <- MCCompilations
  Data <- MCData
  MaxCompilations = 2
  CutSizes = {0, 99, 110, 136, 500, 504, 510, 560}
  MaxFailures = 4
INVARIANTS
  TypeOK
  WholeCompilationLinks
  LinksWholeFiles
  LoadsWhatWasLinked
\* Compilations are bounded, and the last files may not link.
CHECK_DEADLOCK FALSE
