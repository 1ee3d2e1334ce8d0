SPECIFICATION FairSpec
CONSTANTS
  MaxFds = 11
  Opens <- MCOpens
  Pipes <- MCPipes
  Targets = {0, 1, 2}
  MaxEntries = 3
  MaxTargets = 3
  IgnoreSigcld = FALSE
CHECK_DEADLOCK FALSE
INVARIANTS AsAsked LaunchTrue NoLeak
PROPERTIES LaunchReturns
