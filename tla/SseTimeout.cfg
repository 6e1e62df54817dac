CONSTANTS
  QueueSize = 3
  MaxFrames = 5
SPECIFICATION Spec
CHECK_DEADLOCK FALSE
INVARIANT EndedMeansTerminal
