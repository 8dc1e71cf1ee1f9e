SPECIFICATION Spec
CONSTANTS
  Undefined = Undefined
  Judges = {j1}
  Languages = {"cpp", "other"}
  StopPolicies = {FALSE}
  Checkers = {"exact", "custom"}
  TestCounts = {1}
  ElapsedTimes = {0}
  Memories = {Undefined}
  Failures = {"time_limit_exceeded"}
INVARIANT HealthIsTrue
CHECK_DEADLOCK FALSE
