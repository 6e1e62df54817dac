CONSTANTS
  QueueSize = 3
  MaxFrames = 5
SPECIFICATION FairSpec
CHECK_DEADLOCK FALSE
INVARIANTS
  TypeOK
  EveryFrameAccounted
  TerminalDelivered
PROPERTIES
  StreamEnds
  OrderedStream
