SPECIFICATION Spec
CONSTANTS
  Names = {n, b}
  BuiltIns = {b}
  Descriptions = {d}
  Fields = {f}
  None = None
  MaxEpoch = 1
INVARIANTS
  NoLostSignal
  TokenOfThisWindow
PROPERTIES
  TokenCatchesUp
  ImplementsAdvertisement
CHECK_DEADLOCK FALSE
