SPECIFICATION FairSpec
CONSTANTS
  Requests = {r1, r2}
  Reasons = {e1, e2}
  NoError = NoError
  SetupError = SetupError
  TimeLimit = 1
  ForeignResults <- ArbitraryResults
  MaxEvents = 1
INVARIANTS TypeOK ResourcesMatchCalls DisposalIsFinal VerdictIsEarned
PROPERTIES SettledIsInert EveryCallSettles ImplementsService
CHECK_DEADLOCK FALSE
