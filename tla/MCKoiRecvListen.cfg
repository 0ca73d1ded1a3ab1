SPECIFICATION Spec
CONSTANTS
  MSG_MAXMSGNUM = 2
  OpenTypes <- MCListenTypes
  RecvIds <- MCListenIds
  Timeouts <- MCOneTimeout
  MaxSockets = 4
  MaxMessages = 3
  MaxRequests = 2
  MaxTime = 0
INVARIANTS
  DeliveredOnce
  DeliveredInOrder
