SPECIFICATION Spec
CONSTANTS
  t1 = t1  t2 = t2  i1 = i1  i2 = i2  i3 = i3  s1 = s1  s2 = s2  s3 = s3
  Orig <- MCOrig  Periodic <- MCPeriodic  Key <- MCKey  Hot <- MCHot  Signum <- MCSignum
  Timer = {}
  Io = {i1, i3}
  Sig = {}
  MaxElapse = 0
INVARIANTS MaxFdCovers
CHECK_DEADLOCK FALSE
