SPECIFICATION Spec
CONSTANTS
  Requests = {r1}
  Reasons = {e1}
  NoError = NoError
  SetupError = SetupError
  TimeLimit = 1
  ForeignResults = {}
  MaxEvents = 1
INVARIANT TimeLimitEnforced
CHECK_DEADLOCK FALSE
