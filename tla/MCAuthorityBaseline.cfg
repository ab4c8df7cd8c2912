SPECIFICATION AuthoritySpec
CONSTANTS
  Written <- TwoSets
  Builds = {"production"}
  MaxRenders = 5
  MaxAttempts = 1
  Nothing = Nothing
INVARIANT
  AgentTold
CHECK_DEADLOCK FALSE
