SPECIFICATION FairSpec
CONSTANTS
  Calls = {c1, c2}
  InitId = InitId
  Reasons = {e1}
  CrashError = CrashError
  NoError = NoError
  OtherError = OtherError
  MaxInbox = 2
INVARIANTS TypeOK TableMatchesPromises FatalIsFinal InitComesFirst
PROPERTIES ResolvedByOwnKind NothingPostedAfterFatal ImplementsService
CHECK_DEADLOCK FALSE
