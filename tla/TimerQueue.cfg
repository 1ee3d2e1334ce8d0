SPECIFICATION Spec
CONSTANTS
  Node = {n1, n2, n3}
  Ttl <- MCTtl
  Delta <- MCDelta
PROPERTIES FifoAmongEqual WaitsAsAsked ImplementsTimerSet
