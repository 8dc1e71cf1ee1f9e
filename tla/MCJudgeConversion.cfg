SPECIFICATION JudgeSpec
CONSTANTS
  Undefined = Undefined
  Judges = {j1}
  Languages = {"cpp"}
  StopPolicies = {TRUE, FALSE}
  Checkers = {"exact", "custom"}
  TestCounts = {1}
  ElapsedTimes = {0, 1}
  Memories = {Undefined, 1, 2}
  Failures = {"time_limit_exceeded", "runtime_error"}
INVARIANT ConversionErrorsAreVerdicts
CHECK_DEADLOCK FALSE
