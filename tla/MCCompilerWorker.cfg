SPECIFICATION Spec
CONSTANTS
  i1 = i1
  i2 = i2
  i3 = i3
  c1 = c1
  c2 = c2
  sysroot1 = sysroot1
  sysroot2 = sysroot2
  bundle1 = bundle1
  bundle2 = bundle2
  InitIds = {i1, i2, i3}
  CompileIds = {c1, c2}
  SysrootOf <- TwoSysroots
  UrlOf <- TwoUrls
  None = None
INVARIANTS TypeOK InitResultMeansReady
PROPERTY EveryRequestAnswered
CHECK_DEADLOCK FALSE
