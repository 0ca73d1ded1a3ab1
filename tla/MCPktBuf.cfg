SPECIFICATION MCSpec
CONSTANTS
  r1 = r1
  r2 = r2
  s1 = s1
  a = a
  Clients = {r1, r2, s1}
  Nobody = nobody
  Own = {a}
  Asks <- MCAsks
  Size = 2
  Garbage = garbage
  MaxPeers = 3
  MaxSent = 1
  MaxActs = 3
  MaxEvents = 5
  MaxTime = 1
INVARIANTS WaiterSound
PROPERTIES DeliveredAsSent ImplementsLog RequestEnds
CHECK_DEADLOCK FALSE
