SPECIFICATION Spec
CONSTANTS
  Pids = {p1, p2}
  MaxSessions = 1
  Load <- MCOne
  MaxCommands = 3
  MaxForkErrors = 0
  eCmdExec_ = 19
INVARIANT EarlyEndAnswered
CHECK_DEADLOCK FALSE
