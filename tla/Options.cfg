SPECIFICATION Spec
CONSTANTS
  Nil = Nil
  Things = {x, y}
  MaxNumber = 2
  MaxOptions = 3
INVARIANTS
  SolverCoherent
  ClientUsable
CHECK_DEADLOCK FALSE
