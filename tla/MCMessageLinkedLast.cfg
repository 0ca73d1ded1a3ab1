SPECIFICATION Spec
CONSTANTS
  MSG_MAXMSGNUM = 3
  OpenTypes <- MCOpenTypes
  RecvIds <- MCRecvIds
  Timeouts <- MCOneTimeout
  MaxSockets = 3
  MaxMessages = 3
  MaxRequests = 1
  MaxTime = 0
PROPERTIES
  MessageLinkedLast
