SPECIFICATION Spec
CONSTANTS
  PageLimit = 2
  StdoutLimit = 3
  StderrLimit = 2
  StdinLength = 4
  MaxPages = 3
  MaxBuffer = 3
  MaxBuffers = 2
  ExitCodes = {0, 1}
  Null = Null
INVARIANTS SuccessIsClean OutputLimitDecides MemoryLimitDecides StdinIsReadOnce
PROPERTY OverweightGuestStops
CHECK_DEADLOCK FALSE
