SPECIFICATION Spec
CONSTANTS
  Streams <- MCOneMessage
  MaxSockets = 5
CHECK_DEADLOCK FALSE
PROPERTIES
  MergesLeftData
