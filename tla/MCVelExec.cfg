SPECIFICATION FairSpec
CONSTANTS
  Pids = {p1, p2}
  MaxSessions = 2
  Load <- MCLoad
  MaxCommands = 3
  MaxForkErrors = 1
  eCmdExec_ = 2
INVARIANTS WaitFindsChild AnsweredOnce AnsweredAfterEnd FramesWhole
PROPERTY AnsweredUnlessLost
CHECK_DEADLOCK FALSE
