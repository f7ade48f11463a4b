SPECIFICATION Spec
CONSTANTS
  A = A  B = B  l1 = l1  l2 = l2
  Modules = {A, B}
  Labels = {l1, l2}
  Projects <- AllProjects
  DefaultAlignment = 4
INVARIANTS
  JumpsResolved FailsForAReason ModulesKeptApart
CHECK_DEADLOCK FALSE
