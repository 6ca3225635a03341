SPECIFICATION Spec
CONSTANTS
  e1 = e1
  e2 = e2
  Execs = {e1, e2}
  MaxRun = 8
  Classes <- AllClasses
  Budget <- MessageBudget
  StaleReads = TRUE
SYMMETRY Symmetry
INVARIANTS
  TypeOK
  WrittenOnce
  QueuedInputsInOrder
  NothingForgotten
