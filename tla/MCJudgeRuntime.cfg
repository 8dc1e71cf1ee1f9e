SPECIFICATION FairSpec
CONSTANTS
  Undefined = Undefined
  Judges = {j1, j2}
  Languages = {"cpp", "other"}
  StopPolicies = {FALSE}
  Checkers = {"custom"}
  TestCounts = {1, 2}
  ElapsedTimes = {0}
  Memories = {Undefined}
  Failures = {"time_limit_exceeded"}
INVARIANTS RuntimeTypeOK NoCallerForgotten NoWorkerAfterEnd OneExecutionPerTest
PROPERTIES ImplementsService EveryCallSettles
CHECK_DEADLOCK FALSE
