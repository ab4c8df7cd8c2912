SPECIFICATION Spec
CONSTANTS
  Components = {k1}
  Names = {a}
  Reserved = {}
  Permissions = {p}
  None = None
  Foreign = Foreign
  Contested = {a}
  MaxTasks = 3
  MaxEpoch = 1
INVARIANT
  GoneAtUnmount
CHECK_DEADLOCK FALSE
