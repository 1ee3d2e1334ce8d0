SPECIFICATION FairSpec
CONSTANTS
  Cfd = 4
  Sfd = 3
  Bsiz = 3
  Total <- MCTotal
CHECK_DEADLOCK FALSE
INVARIANTS InOrder NoneForgotten EndIsTheEnd
PROPERTIES AllDelivered
