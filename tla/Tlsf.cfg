SPECIFICATION Spec
CONSTANTS
  L2Len = 2
  NumL2 = 5
  SzMod = 64
  MinNU = 4
  PoolHdr = 1
  MinShrink = 6
  MinMoreMem = 8
  MemLen = 27
  PoolLens = {16}
  MallocSizes = {3, 8, 30, 40}
  ReallocSizes = {1, 10, 63}
CHECK_DEADLOCK FALSE
INVARIANTS BlocksSound BinsExact RefusedOnlyWithoutFit
PROPERTIES ImplementsAllocator
