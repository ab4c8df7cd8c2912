SPECIFICATION ListingSpec
CONSTANTS
  Names = {n, b}
  BuiltIns = {b}
  Descriptions = {d}
  Fields = {f}
  None = None
  MaxEpoch = 1
INVARIANTS
  AgentStaysUpToDate
CHECK_DEADLOCK FALSE
