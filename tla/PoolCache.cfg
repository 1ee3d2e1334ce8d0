SPECIFICATION Spec
CONSTANTS
  Page = {p1, p2, p3}
  Slot = {a, b, c}
  MaxPools = 2
  Hiwat = 1
  HasMM = TRUE
  MaxFreed = 2
INVARIANTS ListsByFill FillExact ItemsOnce CountExact RefusedOnlyWhenAllHeld
