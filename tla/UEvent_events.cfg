SPECIFICATION FairSpec
CONSTANTS
  t1 = t1  t2 = t2  i1 = i1  i2 = i2  i3 = i3  s1 = s1  s2 = s2  s3 = s3
  Orig <- MCNow  Periodic <- MCPeriodic  Key <- MCKey  Hot <- MCHot  Signum <- MCSignum
  Timer = {t1}
  Io = {i1, i2}
  Sig = {s1, s3}
  MaxElapse = 0
INVARIANTS SetsExact
PROPERTIES OncePerPass PassEnds IoServed SigHandled StopStops
CHECK_DEADLOCK FALSE
