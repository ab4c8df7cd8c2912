SPECIFICATION Spec
CONSTANTS
  MaxSlots = 2
  MaxMounts = 2
  LastInterval = 2
  ObserverMayThrow = FALSE
PROPERTIES
  ResolvingMeansSendable
CHECK_DEADLOCK FALSE
