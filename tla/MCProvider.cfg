SPECIFICATION MCSpec
CONSTANTS
  MaxSlots = 2
  MaxMounts = 3
  LastInterval = 3
  ObserverMayThrow = FALSE
  Components = {k1}
  Names = {a, r}
  Reserved = {r}
  Permissions = {p}
  None = None
  Foreign = Foreign
  Contested = {a}
  MaxTasks = 3
  MaxEpoch = 1
INVARIANTS
  NothingOutlivesTeardown
  RecoveryNeverGivesUp
  SomeTaskCanGo
PROPERTIES
  RecoveryReachesTheAgent
  DialedAttemptSettles
  ImplementsLink
  EndedProviderOwesNothing
CHECK_DEADLOCK FALSE
