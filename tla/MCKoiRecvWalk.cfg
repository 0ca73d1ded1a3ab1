SPECIFICATION FairSpec
CONSTANTS
  MSG_MAXMSGNUM = 1
  OpenTypes <- MCOpenTypes
  RecvIds <- MCRecvIds
  Timeouts <- MCOneTimeout
  MaxSockets = 3
  MaxMessages = 1
  MaxRequests = 3
  MaxTime = 1
INVARIANTS
  AckedOnce
  WalkLeavesNothingDue
  WaitingListSound
PROPERTY
  WaitEnds
