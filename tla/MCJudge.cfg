SPECIFICATION JudgeSpec
CONSTANTS
  Undefined = Undefined
  Judges = {j1}
  Languages = {"cpp"}
  StopPolicies = {TRUE, FALSE}
  Checkers = {"exact", "custom"}
  TestCounts = {0, 1, 2, 3}
  ElapsedTimes = {0, 1, 2}
  Memories = {Undefined, 1, 2}
  Failures = {"time_limit_exceeded", "runtime_error"}
INVARIANTS RunsTheRightTests SummaryStatusIsWorst SummaryFiguresAreRight
CHECK_DEADLOCK FALSE
