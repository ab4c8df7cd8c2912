SPECIFICATION Spec
CONSTANTS
  Names = {a, b}
  Permissions = {p, q}
  None = None
  MaxTasks = 3
  MaxEpoch = 1
  MaxDeclared = 2
SYMMETRY Symmetry
INVARIANTS
  NothingServedIsLeft
  DeclarationsConverge
CHECK_DEADLOCK FALSE
