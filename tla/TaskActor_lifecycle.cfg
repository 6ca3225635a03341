SPECIFICATION Spec
CONSTANTS
  e1 = e1
  e2 = e2
  Execs = {e1, e2}
  MaxRun = 8
  Classes <- InputClasses
  Budget <- CommandBudget
  StaleReads = FALSE
INVARIANTS
  RunningRunIsDriven
PROPERTIES
  ImplementsLifecycle
