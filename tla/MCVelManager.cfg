SPECIFICATION FairSpec
CONSTANTS
  t1 = t1
  t2 = t2
  host1 = host1
  host2 = host2
  port1 = port1
  port2 = port2
  ev = ev
  Threads = {t1, t2}
  Clients = {host1, host2}
  Server = server
  Ports = {port1, port2}
  Events = {ev}
  Members <- MCMembers
  Scenarios <- MCScenarios
  MaxFd = 4
  MaxFailures = 1
INVARIANTS TypeOK NoInternalError OwnSocket WakeupUnderWay
PROPERTIES ScenarioEnds ImplementsBarrier
CHECK_DEADLOCK FALSE
