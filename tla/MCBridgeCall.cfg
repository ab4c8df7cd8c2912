SPECIFICATION Spec
CONSTANTS
  Calls = {c1, b1}
  BuiltIns = {b1}
  Replaces = TRUE
INVARIANTS
  ApprovedUnlessWindow
  RefusalMeansNotRun
  NoStaleSuccess
  CancelledAnswerIsHonest
  RecordMatchesAnswer
PROPERTIES
  EnteredUnderLiveAuthority
  CancelledCallSettles
