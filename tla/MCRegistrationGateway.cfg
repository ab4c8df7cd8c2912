SPECIFICATION StayingSpec
CONSTANTS
  Components = {k1, k2}
  Names = {a, b}
  Reserved = {}
  Permissions = {p, q}
  None = None
  Foreign = Foreign
  Contested = {}
  MaxTasks = 4
  MaxEpoch = 0
SYMMETRY Symmetry
INVARIANTS
  RecordNeverDiverges
  NothingLeftBehind
  Converges
PROPERTIES
  RefusalIsGenuine
CHECK_DEADLOCK FALSE
