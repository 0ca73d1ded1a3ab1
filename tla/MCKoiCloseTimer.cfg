SPECIFICATION FairTimerSpec
CONSTANTS
  T_SCT_MAXNUM = 2
  SocketIds <- MCSocketIds
  Waits <- MCWaits
  MaxTime = 3
INVARIANTS
  TableSound
PROPERTIES
  RefusedOnlyForCause
  CloseIsServed
  ImplementsAgenda
