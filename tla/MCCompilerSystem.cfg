SPECIFICATION FairSystem
CONSTANTS
  Calls = {c1, c2}
  InitId = InitId
  Reasons = {e1}
  CrashError = CrashError
  NoError = NoError
  OtherError = OtherError
  MaxInbox = 4
  Sysroot = Sysroot
  Bundle = Bundle
  None = None
INVARIANTS ResponsesAreAwaited InitMeansOneSysroot
PROPERTIES ImplementsPort EveryCompileSettles
CHECK_DEADLOCK FALSE
