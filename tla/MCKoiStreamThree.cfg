SPECIFICATION Spec
CONSTANTS
  Streams <- MCStreams
  MaxSockets = 5
CHECK_DEADLOCK FALSE
INVARIANTS
  FramedAsSent
  RegisteredOrKept
  LeftListSound
