SPECIFICATION FairSpec
CONSTANTS
  t1 = t1  t2 = t2  i1 = i1  i2 = i2  i3 = i3  s1 = s1  s2 = s2  s3 = s3
  Orig <- MCOrig  Periodic <- MCPeriodic  Key <- MCKey  Hot <- MCHot  Signum <- MCSignum
  Timer = {t1, t2}
  Io = {}
  Sig = {s1}
  MaxElapse = 2
PROPERTIES NotEarly TimerFires CancelledStaysQuiet
CHECK_DEADLOCK FALSE
