SPECIFICATION FairSpec
CONSTANTS
  MaxSlots = 2
  MaxMounts = 2
  LastInterval = 2
  ObserverMayThrow = FALSE
PROPERTIES
  DeadlineCoversTheAttempt
CHECK_DEADLOCK FALSE
