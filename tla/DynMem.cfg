SPECIFICATION Spec
CONSTANTS
  MemLen = 25
  SzMod = 128
  MinNU = 4
  PoolHdr = 1
  MinShrink = 6
  MinMoreMem = 16
  PoolLens = {6, 9}
  MallocSizes = {2, 6}
  ReallocSizes = {1, 9, 127}
CHECK_DEADLOCK FALSE
INVARIANTS BlocksSound LinksAgree
